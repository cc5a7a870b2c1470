------------------------- MODULE LokiManagerProofs --------------------------
(***************************************************************************)
(* Proofs about LokiManager, for every number of clients and every set of *)
(* entries and client names.                                               *)
(***************************************************************************)
EXTENDS LokiManager, TLAPS

(* What the forward goroutine has done with each entry it received:      *)
(* either every client has it, or it is the entry being fanned out and   *)
(* the clients before idx have it.                                        *)
Delivery ==
  ~wal =>
    \A e \in sent :
      \/ \A c \in Clients : e \in delivered[c]
      \/ fpc = "fanout" /\ e = cur /\ \A c \in 1 .. idx - 1 : e \in delivered[c]

(* Stop returns only after the goroutine has left its range loop.        *)
StoppedDone == mpc = "stopped" => fpc = "done"

IInv == TypeOK /\ Delivery /\ StoppedDone

-----------------------------------------------------------------------------
LEMMA InitTypeOK == Init => TypeOK
  <1> SUFFICES ASSUME Init PROVE TypeOK
    OBVIOUS
  <1>1. cur \in Entries
    BY ConstAssumption DEF Init
  <1>2. bi \in 1 .. NumClients + 1 /\ idx \in Clients
    BY ConstAssumption DEF Init, Clients
  <1>3. QED
    BY <1>1, <1>2 DEF Init, TypeOK, Clients

LEMMA NextTypeOK == TypeOK /\ [Next]_vars => TypeOK'
  <1> SUFFICES ASSUME TypeOK, [Next]_vars PROVE TypeOK'
    OBVIOUS
  <1> USE ConstAssumption DEF TypeOK, Clients
  <1>1. CASE BuildWatcher
    <2>1. bi \in Clients
      BY <1>1 DEF BuildWatcher
    <2>2. made' \subseteq Clients /\ bi' \in 1 .. NumClients + 1
      <3>1. CASE mpc' = "failed" /\ UNCHANGED <<made, bi>>
        BY <3>1
      <3>2. CASE made' = made \cup {bi} /\ bi' = bi + 1
        BY <2>1, <3>2
      <3>3. QED
        BY <1>1, <3>1, <3>2 DEF BuildWatcher
    <2>3. mpc' \in {"building", "failed"}
      BY <1>1 DEF BuildWatcher
    <2>4. QED
      BY <1>1, <2>2, <2>3 DEF BuildWatcher
  <1>2. ASSUME NEW nm \in Names, BuildClient(nm) PROVE TypeOK'
    <2>1. bi \in Clients
      BY <1>2 DEF BuildClient
    <2>2. /\ made' \subseteq Clients /\ bi' \in 1 .. NumClients + 1
          /\ names' \subseteq Names
      <3>1. CASE mpc' = "failed" /\ UNCHANGED <<made, names, bi>>
        BY <3>1
      <3>2. CASE made' = made \cup {bi} /\ UNCHANGED <<names, bi>>
        BY <2>1, <3>2
      <3>3. CASE made' = made \cup {bi} /\ names' = names \cup {nm}
                 /\ bi' = bi + 1
        BY <2>1, <3>3
      <3>4. QED
        BY <1>2, <3>1, <3>2, <3>3 DEF BuildClient
    <2>3. mpc' \in {"building", "failed"}
      BY <1>2 DEF BuildClient
    <2>4. QED
      BY <1>2, <2>2, <2>3 DEF BuildClient
  <1>3. CASE Built
    BY <1>3 DEF Built
  <1>4. ASSUME NEW e \in Entries, Send(e) PROVE TypeOK'
    BY <1>4 DEF Send
  <1>5. ASSUME NEW e \in Entries, Receive(e) PROVE TypeOK'
    BY <1>5 DEF Receive
  <1>6. CASE Forward
    BY <1>6 DEF Forward
  <1>7. CASE RangeEnd
    BY <1>7 DEF RangeEnd
  <1>8. CASE StopClose
    BY <1>8 DEF StopClose
  <1>9. CASE StopClients
    BY <1>9 DEF StopClients
  <1>10. CASE StopNow
    BY <1>10 DEF StopNow
  <1>11. CASE UNCHANGED vars
    BY <1>11 DEF vars
  <1>12. QED
    BY <1>1, <1>2, <1>3, <1>4, <1>5, <1>6, <1>7, <1>8, <1>9, <1>10, <1>11
    DEF Next

(* The type invariant of the Manager holds in every reachable state.     *)
THEOREM TypeCorrect == Spec => []TypeOK
  BY InitTypeOK, NextTypeOK, PTL DEF Spec

-----------------------------------------------------------------------------
LEMMA InitIInv == Init => IInv
  BY InitTypeOK DEF Init, IInv, Delivery, StoppedDone

LEMMA NextIInv == IInv /\ [Next]_vars => IInv'
  <1> SUFFICES ASSUME IInv, [Next]_vars PROVE IInv'
    OBVIOUS
  <1>0. TypeOK'
    BY NextTypeOK DEF IInv
  <1> USE ConstAssumption DEF IInv, TypeOK, Clients
  <1>1. CASE BuildWatcher
    BY <1>0, <1>1 DEF BuildWatcher, Delivery, StoppedDone
  <1>2. ASSUME NEW nm \in Names, BuildClient(nm) PROVE IInv'
    BY <1>0, <1>2 DEF BuildClient, Delivery, StoppedDone
  <1>3. CASE Built
    BY <1>0, <1>3 DEF Built, Delivery, StoppedDone
  <1>4. ASSUME NEW e \in Entries, Send(e) PROVE IInv'
    BY <1>0, <1>4 DEF Send, Delivery, StoppedDone
  <1>5. ASSUME NEW e \in Entries, Receive(e) PROVE IInv'
    <2>1. Delivery'
      <3>1. CASE wal
        BY <1>5, <3>1 DEF Receive, Delivery
      <3>2. CASE ~wal
        <4>1. \A x \in sent : \A c \in Clients : x \in delivered[c]
          BY <1>5, <3>2 DEF Receive, Delivery
        <4>2. QED
          BY <1>5, <3>2, <4>1 DEF Receive, Delivery
      <3>3. QED
        BY <3>1, <3>2
    <2>2. QED
      BY <1>0, <1>5, <2>1 DEF Receive, StoppedDone
  <1>6. CASE Forward
    <2>1. Delivery'
      <3>1. SUFFICES ASSUME ~wal', NEW x \in sent'
                     PROVE  \/ \A c \in Clients : x \in delivered'[c]
                            \/ /\ fpc' = "fanout" /\ x = cur'
                               /\ \A c \in 1 .. idx' - 1 : x \in delivered'[c]
        BY DEF Delivery
      <3>2. \A c \in Clients : delivered[c] \subseteq delivered'[c]
        BY <1>6 DEF Forward
      <3>3. x = cur => \A c \in 1 .. idx : x \in delivered'[c]
        BY <1>6, <3>1 DEF Forward, Delivery
      <3>4. CASE idx = NumClients
        BY <1>6, <3>1, <3>2, <3>3, <3>4 DEF Forward, Delivery
      <3>5. CASE idx # NumClients
        BY <1>6, <3>1, <3>2, <3>3, <3>5 DEF Forward, Delivery
      <3>6. QED
        BY <3>4, <3>5
    <2>2. QED
      BY <1>0, <1>6, <2>1 DEF Forward, StoppedDone
  <1>7. CASE RangeEnd
    BY <1>0, <1>7 DEF RangeEnd, Delivery, StoppedDone
  <1>8. CASE StopClose
    BY <1>0, <1>8 DEF StopClose, Delivery, StoppedDone
  <1>9. CASE StopClients
    BY <1>0, <1>9 DEF StopClients, Delivery, StoppedDone
  <1>10. CASE StopNow
    BY <1>0, <1>10 DEF StopNow, Delivery, StoppedDone
  <1>11. CASE UNCHANGED vars
    BY <1>0, <1>11 DEF vars, Delivery, StoppedDone
  <1>12. QED
    BY <1>1, <1>2, <1>3, <1>4, <1>5, <1>6, <1>7, <1>8, <1>9, <1>10, <1>11
    DEF Next

LEMMA IInvStopDeliversAll == IInv => StopDeliversAll
  BY DEF IInv, Delivery, StoppedDone, StopDeliversAll

(* Without the WAL, once Stop has returned every entry the forward       *)
(* goroutine received is with every client: Stop's wg.Wait orders the     *)
(* end of the fan-out before the clients are stopped.                     *)
THEOREM StopDeliversAllHolds == Spec => []StopDeliversAll
  BY InitIInv, NextIInv, IInvStopDeliversAll, PTL DEF Spec

-----------------------------------------------------------------------------
(* The refinement of LokiManagerAbstract.                                  *)

(* Only a running Manager has sends in flight: the pipeline sends while   *)
(* the Manager runs, and Stop closes the channel once they are done.      *)
SendingRunning == sending # {} => mpc = "running"

(* The entry being fanned out was received, and only the forward          *)
(* goroutine (no WAL) fans out.                                            *)
FanoutCur == fpc = "fanout" => ~wal /\ cur \in sent

(* An entry in flight on the channel has not been received before: each *)
(* entry is sent once.                                                     *)
InFlightNew == sending \cap sent = {}

RInv == IInv /\ SendingRunning /\ FanoutCur /\ InFlightNew

LEMMA InitRInv == Init => RInv
  BY InitIInv DEF Init, RInv, SendingRunning, FanoutCur, InFlightNew

LEMMA NextRInv == RInv /\ [Next]_vars => RInv'
  <1> SUFFICES ASSUME RInv, [Next]_vars PROVE RInv'
    OBVIOUS
  <1>0. IInv'
    BY NextIInv DEF RInv
  <1> USE DEF RInv, SendingRunning, FanoutCur, InFlightNew
  <1>1. CASE BuildWatcher
    BY <1>0, <1>1 DEF BuildWatcher
  <1>2. ASSUME NEW nm \in Names, BuildClient(nm) PROVE RInv'
    BY <1>0, <1>2 DEF BuildClient
  <1>3. CASE Built
    BY <1>0, <1>3 DEF Built
  <1>4. ASSUME NEW e \in Entries, Send(e) PROVE RInv'
    BY <1>0, <1>4 DEF Send
  <1>5. ASSUME NEW e \in Entries, Receive(e) PROVE RInv'
    BY <1>0, <1>5 DEF Receive
  <1>6. CASE Forward
    BY <1>0, <1>6 DEF Forward
  <1>7. CASE RangeEnd
    BY <1>0, <1>7 DEF RangeEnd
  <1>8. CASE StopClose
    BY <1>0, <1>8 DEF StopClose
  <1>9. CASE StopClients
    BY <1>0, <1>9 DEF StopClients
  <1>10. CASE StopNow
    BY <1>0, <1>10 DEF StopNow
  <1>11. CASE UNCHANGED vars
    BY <1>0, <1>11 DEF vars
  <1>12. QED
    BY <1>1, <1>2, <1>3, <1>4, <1>5, <1>6, <1>7, <1>8, <1>9, <1>10, <1>11
    DEF Next

LEMMA InitRefines == Init => AbsL!AInit
  BY DEF Init, AbsL!AInit

(* When the goroutine is not in a fan-out, without the WAL everything it  *)
(* received is with every client.                                          *)
LEMMA NotFanoutAllDelivered ==
  ASSUME IInv, fpc # "fanout"
  PROVE  ~wal => AbsL!AllDelivered
  BY DEF IInv, Delivery, AbsL!AllDelivered

LEMMA NextRefines ==
  ASSUME RInv, [Next]_vars
  PROVE  [AbsL!ANext]_AbsL!avars
  <1> USE DEF RInv
  <1>1. CASE BuildWatcher
    <2>1. CASE mpc' = "failed" /\ UNCHANGED <<made, bi>>
      <3>1. AbsL!AFail
        BY <1>1, <2>1 DEF BuildWatcher, AbsL!AFail
      <3>2. QED
        BY <3>1 DEF AbsL!ANext
    <2>2. CASE made' = made \cup {bi} /\ bi' = bi + 1 /\ UNCHANGED mpc
      <3>1. bi \in Clients
        BY <1>1 DEF BuildWatcher, IInv, TypeOK, Clients
      <3>2. AbsL!AStart(bi)
        BY <1>1, <2>2 DEF BuildWatcher, AbsL!AStart
      <3>3. QED
        BY <3>1, <3>2 DEF AbsL!ANext
    <2>3. QED
      BY <1>1, <2>1, <2>2 DEF BuildWatcher
  <1>2. ASSUME NEW nm \in Names, BuildClient(nm) PROVE [AbsL!ANext]_AbsL!avars
    <2>1. CASE mpc' = "failed" /\ UNCHANGED <<made, names, bi>>
      <3>1. AbsL!AFail
        BY <1>2, <2>1 DEF BuildClient, AbsL!AFail
      <3>2. QED
        BY <3>1 DEF AbsL!ANext
    <2>2. CASE made' = made \cup {bi}
      <3>1. bi \in Clients
        BY <1>2 DEF BuildClient, IInv, TypeOK, Clients
      <3>2. mpc' \in {"building", "failed"}
        BY <1>2 DEF BuildClient
      <3>3. AbsL!AStart(bi)
        BY <1>2, <2>2, <3>2 DEF BuildClient, AbsL!AStart
      <3>4. QED
        BY <3>1, <3>3 DEF AbsL!ANext
    <2>3. QED
      BY <1>2, <2>1, <2>2 DEF BuildClient
  <1>3. CASE Built
    <2>1. AbsL!ARun
      BY <1>3 DEF Built, AbsL!ARun
    <2>2. QED
      BY <2>1 DEF AbsL!ANext
  <1>4. ASSUME NEW e \in Entries, Send(e) PROVE [AbsL!ANext]_AbsL!avars
    BY <1>4 DEF Send, AbsL!avars
  <1>5. ASSUME NEW e \in Entries, Receive(e) PROVE [AbsL!ANext]_AbsL!avars
    <2>1. mpc = "running" /\ e \notin sent
      BY <1>5 DEF Receive, SendingRunning, InFlightNew, IInv, TypeOK
    <2>2. wal \/ AbsL!AllDelivered
      BY <1>5, NotFanoutAllDelivered DEF Receive
    <2>3. AbsL!AAccept(e)
      BY <1>5, <2>1, <2>2 DEF Receive, AbsL!AAccept
    <2>4. QED
      BY <2>3 DEF AbsL!ANext
  <1>6. CASE Forward
    <2>1. ~wal /\ cur \in sent /\ idx \in Clients /\ cur \in Entries
      BY <1>6 DEF Forward, FanoutCur, IInv, TypeOK
    <2>2. AbsL!ADeliver(idx, cur)
      BY <1>6, <2>1 DEF Forward, AbsL!ADeliver
    <2>3. QED
      BY <2>1, <2>2 DEF AbsL!ANext
  <1>7. CASE RangeEnd
    BY <1>7 DEF RangeEnd, AbsL!avars
  <1>8. CASE StopClose
    <2>1. AbsL!AClose
      BY <1>8 DEF StopClose, AbsL!AClose
    <2>2. QED
      BY <2>1 DEF AbsL!ANext
  <1>9. CASE StopClients
    <2>1. wal \/ AbsL!AllDelivered
      BY <1>9, NotFanoutAllDelivered DEF StopClients
    <2>2. AbsL!AStop
      BY <1>9, <2>1 DEF StopClients, AbsL!AStop
    <2>3. QED
      BY <2>2 DEF AbsL!ANext
  <1>10. CASE StopNow
    <2>1. AbsL!AHaltNow
      BY <1>10 DEF StopNow, AbsL!AHaltNow
    <2>2. QED
      BY <2>1 DEF AbsL!ANext
  <1>11. CASE UNCHANGED vars
    BY <1>11 DEF vars, AbsL!avars
  <1>12. QED
    BY <1>1, <1>2, <1>3, <1>4, <1>5, <1>6, <1>7, <1>8, <1>9, <1>10, <1>11
    DEF Next

(* The Manager implements LokiManagerAbstract: it takes an entry only     *)
(* once every earlier one reached every client, hands entries only to     *)
(* clients not stopped, and Stop returns only with everything handed out. *)
THEOREM LokiManagerRefinement == Spec => LokiManagerRefinesAbstract
  <1>1. RInv /\ [Next]_vars => [AbsL!ANext]_AbsL!avars
    BY NextRefines
  <1>2. QED
    BY <1>1, InitRInv, NextRInv, InitRefines, PTL
    DEF Spec, LokiManagerRefinesAbstract, AbsL!ASpec

=============================================================================
