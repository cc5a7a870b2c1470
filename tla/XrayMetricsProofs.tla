------------------------- MODULE XrayMetricsProofs --------------------------
(***************************************************************************)
(* Proofs about XrayMetrics, for every set of series, appenders and       *)
(* requests: cacheMut, as the append hook, DebugInfo and /clear use it,   *)
(* keeps their accesses to allSeries apart.                                *)
(***************************************************************************)
EXTENDS XrayMetrics, FiniteSetTheorems, TLAPS

(* The goroutine inside a write of allSeries is the holder of the write  *)
(* lock.                                                                   *)
WriterHolds ==
  /\ \A a \in Appenders : apc[a] = "write" => writer = a
  /\ \A r \in Requests : rpc[r] = "clear" => writer = r

(* The read-lock holders are exactly the DebugInfo calls past RLock, and  *)
(* only DebugInfo waits for RLock.                                          *)
ReadersHold ==
  /\ rlocks = {r \in Requests : rpc[r] = "read" /\ rend[r] = "debug"}
  /\ \A r \in Requests : rpc[r] = "rlock" => rend[r] = "debug"

(* The two halves of cacheMut exclude each other.                          *)
LockExclusive == writer # NoOne => rlocks = {}

IInv == TypeOK /\ WriterHolds /\ ReadersHold /\ LockExclusive

-----------------------------------------------------------------------------
LEMMA InitTypeOK == Init => TypeOK
  BY ConstAssumption DEF Init, TypeOK, Actors

LEMMA InitIInv == Init => IInv
  BY InitTypeOK DEF Init, IInv, WriterHolds, ReadersHold, LockExclusive

LEMMA NextIInv == IInv /\ [Next]_vars => IInv'
  <1> SUFFICES ASSUME IInv, [Next]_vars PROVE IInv'
    OBVIOUS
  <1> USE ConstAssumption DEF IInv, TypeOK, Actors, WriterHolds, ReadersHold,
                              LockExclusive
  <1>1. CASE RunExit
    BY <1>1 DEF RunExit
  <1>2. ASSUME NEW a \in Appenders, NEW s \in Series, AppendCheck(a, s)
        PROVE  IInv'
    BY <1>2 DEF AppendCheck
  <1>3. ASSUME NEW a \in Appenders, AppendLock(a) PROVE IInv'
    BY <1>3 DEF AppendLock, LockFree
  <1>4. ASSUME NEW a \in Appenders, AppendWrite(a) PROVE IInv'
    BY <1>4 DEF AppendWrite
  <1>5. ASSUME NEW r \in Requests, NEW e \in Endpoints, RequestStart(r, e)
        PROVE  IInv'
    BY <1>5 DEF RequestStart
  <1>6. ASSUME NEW r \in Requests, DebugRLock(r) PROVE IInv'
    BY <1>6 DEF DebugRLock
  <1>7. ASSUME NEW r \in Requests, ReadEnd(r) PROVE IInv'
    BY <1>7 DEF ReadEnd
  <1>8. ASSUME NEW r \in Requests, ClearLock(r) PROVE IInv'
    BY <1>8 DEF ClearLock, LockFree
  <1>9. ASSUME NEW r \in Requests, ClearWrite(r) PROVE IInv'
    BY <1>9 DEF ClearWrite
  <1>10. CASE UNCHANGED vars
    BY <1>10 DEF vars
  <1>11. QED
    BY <1>1, <1>2, <1>3, <1>4, <1>5, <1>6, <1>7, <1>8, <1>9, <1>10 DEF Next

(* The goroutines inside a write of allSeries all hold the write lock, so *)
(* there is at most one.                                                   *)
LEMMA WritersSingle ==
  ASSUME IInv PROVE Cardinality(MapWriters) <= 1
  <1>1. MapWriters \subseteq {writer}
    BY DEF IInv, WriterHolds, MapWriters
  <1>2. IsFiniteSet({writer}) /\ Cardinality({writer}) = 1
    BY FS_Singleton
  <1>3. QED
    BY <1>1, <1>2, FS_Subset

LEMMA IInvLockedAccessExclusive == IInv => LockedAccessExclusive
  <1> SUFFICES ASSUME IInv PROVE LockedAccessExclusive
    OBVIOUS
  <1>1. Cardinality(MapWriters) <= 1
    BY WritersSingle
  <1>2. MapWriters # {} => \A r \in MapReaders : rend[r] # "debug"
    BY ConstAssumption
    DEF IInv, WriterHolds, ReadersHold, LockExclusive, MapWriters, MapReaders
  <1>3. QED
    BY <1>1, <1>2 DEF LockedAccessExclusive

(* The type invariant of the cache holds in every reachable state.       *)
THEOREM TypeCorrect == Spec => []TypeOK
  <1>1. IInv => TypeOK
    BY DEF IInv
  <1>2. QED
    BY InitIInv, NextIInv, <1>1, PTL DEF Spec

(* While an append hook or /clear writes allSeries, no other goroutine    *)
(* writes it and no DebugInfo ranges over it: the hook and /clear take     *)
(* cacheMut.Lock, DebugInfo takes cacheMut.RLock.                           *)
THEOREM LockedAccessExclusiveHolds == Spec => []LockedAccessExclusive
  BY InitIInv, NextIInv, IInvLockedAccessExclusive, PTL DEF Spec

=============================================================================
