----------------------------- MODULE LokiManager ----------------------------
(***************************************************************************)
(* The loki client Manager (src/component/common/loki/client/manager.go)   *)
(* (src/component/common/loki/client/manager.go): NewManager building one *)
(* WAL watcher or client per config, the unbuffered entries channel handed *)
(* to the pipeline by Chan(), the goroutine started by startWithForward    *)
(* (fan out to every client, in slice order) or startWithConsume (WAL     *)
(* enabled: discard), Stop and StopNow.                                    *)
(*                                                                         *)
(* A client's own goroutines are outside src/: New and watcher.Start      *)
(* start them, so a client or watcher runs from its creation until its    *)
(* Stop or StopNow.  A client takes entries from                          *)
(* c.Chan() until it is stopped, and a send to a stopped client never     *)
(* completes (it blocks, or panics once the client closed its channel).   *)
(***************************************************************************)
EXTENDS Naturals

CONSTANTS
  NumClients,   \* len(clientCfgs), and so len(m.clients) or len(m.walWatchers)
  Entries,      \* the loki.Entry values the pipeline sends (each once)
  Names         \* the names client.Name() may return

ASSUME ConstAssumption ==
  /\ NumClients \in Nat \ {0}
  /\ Entries # {}
  /\ Names # {}

Clients == 1 .. NumClients

VARIABLES
  wal,        \* walCfg.Enabled: the consume goroutine instead of forward
  sending,    \* entries whose send on m.entries has begun, not completed
  sent,       \* entries the manager's goroutine has received
  closed,     \* m.entries is closed
  fpc,        \* the manager's goroutine: "recv", "fanout", "done"
  cur,        \* the entry being fanned out
  idx,        \* the client it is being sent to next
  delivered,  \* client -> entries it has received
  cstopped,   \* client -> Stop or StopNow was called on it
  made,       \* configs whose client or watcher was created and runs
  names,      \* clientsCheck: the names of the clients accepted so far
  bi,         \* NewManager: the config it handles next
  mpc,        \* "building" (in NewManager), "failed" (it returned an
              \* error), "running", "waiting" (Stop: entries closed, in
              \* wg.Wait), "stopped"
  stopNow     \* StopNow has been called

vars == <<wal, sending, sent, closed, fpc, cur, idx, delivered, cstopped,
          made, names, bi, mpc, stopNow>>

-----------------------------------------------------------------------------
(* NewManager is called with NumClients configs (walCfg.Enabled is wal). *)
Init ==
  /\ wal \in BOOLEAN
  /\ sending = {}
  /\ sent = {}
  /\ closed = FALSE
  /\ fpc = "recv"
  /\ cur = CHOOSE e \in Entries : TRUE
  /\ idx = 1
  /\ delivered = [c \in Clients |-> {}]
  /\ cstopped = [c \in Clients |-> FALSE]
  /\ made = {}
  /\ names = {}
  /\ bi = 1
  /\ mpc = "building"
  /\ stopNow = FALSE

\* NewManager, WAL enabled, config bi: NewQueue fails and NewManager
\* returns the error, or the watcher is created, subscribed and started.
BuildWatcher ==
  /\ mpc = "building"
  /\ wal
  /\ bi <= NumClients
  /\ \/ mpc' = "failed" /\ UNCHANGED <<made, bi>>
     \/ made' = made \cup {bi} /\ bi' = bi + 1 /\ UNCHANGED mpc
  /\ UNCHANGED <<wal, sending, sent, closed, fpc, cur, idx, delivered,
                 cstopped, names, stopNow>>

\* NewManager, WAL disabled, config bi: New fails; or New returns a running
\* client named nm, and NewManager returns an error when the name was
\* already taken, or records it and goes on.
BuildClient(nm) ==
  /\ mpc = "building"
  /\ ~wal
  /\ bi <= NumClients
  /\ \/ mpc' = "failed" /\ UNCHANGED <<made, names, bi>>
     \/ /\ made' = made \cup {bi}
        /\ IF nm \in names
             THEN mpc' = "failed" /\ UNCHANGED <<names, bi>>
             ELSE names' = names \cup {nm} /\ bi' = bi + 1 /\ UNCHANGED mpc
  /\ UNCHANGED <<wal, sending, sent, closed, fpc, cur, idx, delivered,
                 cstopped, stopNow>>

\* Every config handled: the Manager is built, its goroutine started
\* (startWithConsume or startWithForward) and NewManager returns it.
Built ==
  /\ mpc = "building"
  /\ bi > NumClients
  /\ mpc' = "running"
  /\ UNCHANGED <<wal, sending, sent, closed, fpc, cur, idx, delivered,
                 cstopped, made, names, bi, stopNow>>

\* A pipeline goroutine sends e on m.Chan().  Senders stop before the
\* manager is stopped: a send on the closed channel would panic.
Send(e) ==
  /\ mpc = "running"
  /\ e \notin sent \cup sending
  /\ sending' = sending \cup {e}
  /\ UNCHANGED <<wal, sent, closed, fpc, cur, idx, delivered, cstopped, mpc,
                 made, names, bi, stopNow>>

\* The manager's goroutine receives e (for range m.entries).  With the WAL
\* the entry is discarded; without it the fan-out over m.clients begins.
Receive(e) ==
  /\ fpc = "recv"
  /\ e \in sending
  /\ sending' = sending \ {e}
  /\ sent' = sent \cup {e}
  /\ IF wal
       THEN UNCHANGED <<fpc, cur, idx>>
       ELSE /\ fpc' = "fanout"
            /\ cur' = e
            /\ idx' = 1
  /\ UNCHANGED <<wal, closed, delivered, cstopped, mpc, made, names, bi, stopNow>>

\* Mutant of Forward: the client index is not reset after the last client.
ForwardNoWrap ==
  /\ fpc = "fanout"
  /\ ~cstopped[idx]
  /\ delivered' = [delivered EXCEPT ![idx] = @ \cup {cur}]
  /\ idx' = idx + 1
  /\ fpc' = IF idx = NumClients THEN "recv" ELSE "fanout"
  /\ UNCHANGED <<wal, sending, sent, closed, cur, cstopped, mpc, made, names, bi, stopNow>>

\* c.Chan() <- e for the next client; after the last one, back to range.
\* A stopped client never takes the entry.
Forward ==
  /\ fpc = "fanout"
  /\ ~cstopped[idx]
  /\ delivered' = [delivered EXCEPT ![idx] = @ \cup {cur}]
  /\ IF idx = NumClients
       THEN fpc' = "recv" /\ idx' = 1
       ELSE idx' = idx + 1 /\ UNCHANGED fpc
  /\ UNCHANGED <<wal, sending, sent, closed, cur, cstopped, mpc, made, names, bi, stopNow>>

\* Mutant of RangeEnd: the goroutine never notices the closed channel.
RangeEndNever == FALSE

\* The range over the closed, drained channel ends: wg.Done.
RangeEnd ==
  /\ fpc = "recv"
  /\ closed
  /\ sending = {}
  /\ fpc' = "done"
  /\ UNCHANGED <<wal, sending, sent, closed, cur, idx, delivered, cstopped,
                 mpc, made, names, bi, stopNow>>

\* Stop: m.once.Do(close(m.entries)), then wg.Wait.
StopClose ==
  /\ mpc = "running"
  /\ sending = {}
  /\ closed' = TRUE
  /\ mpc' = "waiting"
  /\ UNCHANGED <<wal, sending, sent, fpc, cur, idx, delivered, cstopped,
                 made, names, bi, stopNow>>

\* Mutant of StopClients: Stop stops the clients without wg.Wait.
StopClientsNoWait ==
  /\ mpc = "waiting"
  /\ cstopped' = [c \in Clients |-> TRUE]
  /\ mpc' = "stopped"
  /\ UNCHANGED <<wal, sending, sent, closed, fpc, cur, idx, delivered,
                 made, names, bi, stopNow>>

\* Stop: wg.Wait returned; the WAL watchers, then every client, stopped.
StopClients ==
  /\ mpc = "waiting"
  /\ fpc = "done"
  /\ cstopped' = [c \in Clients |-> TRUE]
  /\ mpc' = "stopped"
  /\ UNCHANGED <<wal, sending, sent, closed, fpc, cur, idx, delivered,
                 made, names, bi, stopNow>>

\* StopNow: c.StopNow() on every client (m.clients is empty with the WAL,
\* whose watchers are left alone), the channel left open and the manager's
\* goroutine left running.  It takes no lock and checks nothing, so it may
\* come while Stop waits in wg.Wait.  A second StopNow, or one after Stop
\* returned, finds every client stopped and changes nothing.
StopNow ==
  /\ mpc \in {"running", "waiting"}
  /\ ~stopNow
  /\ cstopped' = [c \in Clients |-> ~wal \/ cstopped[c]]
  /\ stopNow' = TRUE
  /\ UNCHANGED <<wal, sending, sent, closed, fpc, cur, idx, delivered, made,
                 names, bi, mpc>>

Next ==
  \/ BuildWatcher
  \/ \E nm \in Names : BuildClient(nm)
  \/ Built
  \/ \E e \in Entries : Send(e) \/ Receive(e)
  \/ Forward
  \/ RangeEnd
  \/ StopClose
  \/ StopClients
  \/ StopNow

(* The manager's goroutine and Stop are scheduled; the pipeline's sends  *)
(* and the calls of Stop and StopNow need not happen.                     *)
Fairness ==
  /\ WF_vars(\E e \in Entries : Receive(e))
  /\ WF_vars(Forward)
  /\ WF_vars(RangeEnd)
  /\ WF_vars(StopClients)

Spec == Init /\ [][Next]_vars /\ Fairness

-----------------------------------------------------------------------------
(* The manager's variables have their types.                              *)
TypeOK ==
  /\ wal \in BOOLEAN
  /\ sending \subseteq Entries
  /\ sent \subseteq Entries
  /\ closed \in BOOLEAN
  /\ fpc \in {"recv", "fanout", "done"}
  /\ cur \in Entries
  /\ idx \in Clients
  /\ delivered \in [Clients -> SUBSET Entries]
  /\ cstopped \in [Clients -> BOOLEAN]
  /\ made \subseteq Clients
  /\ names \subseteq Names
  /\ bi \in 1 .. NumClients + 1
  /\ mpc \in {"building", "failed", "running", "waiting", "stopped"}
  /\ stopNow \in BOOLEAN

(* Without the WAL, once Stop has returned every entry the pipeline      *)
(* handed to Chan() has reached every client: Stop closes the channel and *)
(* waits for the fan-out to finish before it stops the clients (unless   *)
(* StopNow already stopped them).                                          *)
StopDeliversAll ==
  mpc = "stopped" /\ ~wal /\ ~stopNow =>
    \A c \in Clients : sent \subseteq delivered[c]

(* A call of Stop returns unless StopNow is called before it returns:    *)
(* wg.Wait waits for the fan-out, which finishes while every client still *)
(* takes entries.                                                         *)
StopReturns ==
  mpc = "waiting" ~> (mpc = "stopped" \/ stopNow)

(* A call of Stop returns, whatever StopNow was called before or during   *)
(* it: the caller of Stop is never left waiting in wg.Wait.               *)
StopAlwaysReturns ==
  mpc = "waiting" ~> mpc = "stopped"

(* The fan-out never sends to a stopped client.  Stop guarantees it by   *)
(* its order ("first stop the receiving channel", wait, then the         *)
(* clients); StopNow stops the clients with the fan-out still running.    *)
NoSendToStoppedClient ==
  fpc = "fanout" => ~cstopped[idx]

(* When NewManager returns an error, no watcher or client it created is    *)
(* left running: the caller gets no Manager and so cannot stop them.     *)
FailedNewLeavesNothingRunning ==
  mpc = "failed" => \A c \in made : cstopped[c]

-----------------------------------------------------------------------------
(* The refinement mapping onto LokiManagerAbstract: the entries taken are *)
(* those the manager's goroutine received, the clients' entries and stops *)
(* are theirs; the channel, the goroutine's position and NewManager's     *)
(* bookkeeping are hidden.                                                 *)
AbsL == INSTANCE LokiManagerAbstract WITH
          discard  <- wal,
          started  <- made,
          accepted <- sent,
          got      <- delivered,
          halted   <- cstopped,
          astate   <- mpc

(* The Manager keeps its promise: it takes an entry only once the earlier *)
(* ones reached every client (an unbuffered channel read by a sequential  *)
(* fan-out), hands entries only to clients not stopped, and Stop returns  *)
(* only with everything handed out (close, wg.Wait, then stop clients).   *)
LokiManagerRefinesAbstract == AbsL!ASpec

=============================================================================
