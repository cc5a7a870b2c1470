----------------------------- MODULE XrayMetrics ----------------------------
(***************************************************************************)
(* The xray.metrics component (src/component/xray/metrics/metrics.go): the *)
(* series cache allSeries, written by the append hook of its receiver from *)
(* every scraper goroutine that forwards to it, cleared by the /clear      *)
(* handler and read by DebugInfo and the /summary and /details handlers,   *)
(* all guarded (or not) by cacheMut, a sync.RWMutex.                        *)
(*                                                                         *)
(* The per-series DataPoints and LastValue are data that no property here  *)
(* tells apart; a series is a model value and allSeries its set of keys.   *)
(***************************************************************************)
EXTENDS Naturals, FiniteSets

CONSTANTS
  Series,      \* label sets that appended samples may carry
  Appenders,   \* goroutines calling the receiver's Append
  Requests,    \* goroutines serving a debug request
  Endpoints,   \* what a request may be: "debug" (DebugInfo), "summary",
               \* "details", "clear"
  NoOne

ASSUME ConstAssumption ==
  /\ Series # {}
  /\ Endpoints # {}
  /\ Endpoints \subseteq {"debug", "summary", "details", "clear"}
  /\ NoOne \notin Appenders \cup Requests
  /\ Appenders \cap Requests = {}

VARIABLES
  keys,      \* the keys of c.allSeries
  exited,    \* c.exited
  writer,    \* goroutine holding cacheMut.Lock, or NoOne
  rlocks,    \* goroutines holding cacheMut.RLock
  apc,       \* appender -> "idle", "lock" (passed the exited check,
             \* waiting for cacheMut), "write" (in the critical section)
  asample,   \* appender -> series of the sample being appended
  rpc,       \* request -> "idle", "rlock", "read", "lock", "clear"
  rend       \* request -> endpoint being served

vars == <<keys, exited, writer, rlocks, apc, asample, rpc, rend>>

Actors == Appenders \cup Requests

-----------------------------------------------------------------------------
(* New: an empty cache, not exited.                                       *)
Init ==
  /\ keys = {}
  /\ exited = FALSE
  /\ writer = NoOne
  /\ rlocks = {}
  /\ apc = [a \in Appenders |-> "idle"]
  /\ asample = [a \in Appenders |-> CHOOSE s \in Series : TRUE]
  /\ rpc = [r \in Requests |-> "idle"]
  /\ rend = [r \in Requests |-> CHOOSE e \in Endpoints : TRUE]

\* cacheMut.Lock can be taken when nobody holds the mutex.
LockFree == writer = NoOne /\ rlocks = {}

\* Run returns once its context is done; its deferred exited.Store(true).
RunExit ==
  /\ ~exited
  /\ exited' = TRUE
  /\ UNCHANGED <<keys, writer, rlocks, apc, asample, rpc, rend>>

\* The append hook: c.exited.Load() is false, so the hook goes on to lock.
\* (When it is true the hook returns an error and changes nothing.)
AppendCheck(a, s) ==
  /\ apc[a] = "idle"
  /\ ~exited
  /\ apc' = [apc EXCEPT ![a] = "lock"]
  /\ asample' = [asample EXCEPT ![a] = s]
  /\ UNCHANGED <<keys, exited, writer, rlocks, rpc, rend>>

\* c.cacheMut.Lock().
AppendLock(a) ==
  /\ apc[a] = "lock"
  /\ LockFree
  /\ writer' = a
  /\ apc' = [apc EXCEPT ![a] = "write"]
  /\ UNCHANGED <<keys, exited, rlocks, asample, rpc, rend>>

\* Look the series up, insert it when new, count the sample, unlock.
AppendWrite(a) ==
  /\ apc[a] = "write"
  /\ keys' = keys \cup {asample[a]}
  /\ writer' = NoOne
  /\ apc' = [apc EXCEPT ![a] = "idle"]
  /\ UNCHANGED <<exited, rlocks, asample, rpc, rend>>

\* A request arrives.  DebugInfo takes cacheMut.RLock, /clear takes
\* cacheMut.Lock, /summary and /details call Summarize and Details directly.
RequestStart(r, e) ==
  /\ rpc[r] = "idle"
  /\ rend' = [rend EXCEPT ![r] = e]
  /\ rpc' = [rpc EXCEPT ![r] = CASE e = "debug" -> "rlock"
                                 [] e = "clear" -> "lock"
                                 [] OTHER       -> "read"]
  /\ UNCHANGED <<keys, exited, writer, rlocks, apc, asample>>

\* Mutant of DebugRLock: DebugInfo reads without taking the read lock.
DebugNoRLock(r) ==
  /\ rpc[r] = "rlock"
  /\ rpc' = [rpc EXCEPT ![r] = "read"]
  /\ UNCHANGED <<keys, exited, writer, rlocks, apc, asample, rend>>

\* DebugInfo: c.cacheMut.RLock().
DebugRLock(r) ==
  /\ rpc[r] = "rlock"
  /\ writer = NoOne
  /\ rlocks' = rlocks \cup {r}
  /\ rpc' = [rpc EXCEPT ![r] = "read"]
  /\ UNCHANGED <<keys, exited, writer, apc, asample, rend>>

\* Summarize / Details have ranged over allSeries; DebugInfo then unlocks.
ReadEnd(r) ==
  /\ rpc[r] = "read"
  /\ rlocks' = rlocks \ {r}
  /\ rpc' = [rpc EXCEPT ![r] = "idle"]
  /\ UNCHANGED <<keys, exited, writer, apc, asample, rend>>

\* /clear: c.cacheMut.Lock().
ClearLock(r) ==
  /\ rpc[r] = "lock"
  /\ LockFree
  /\ writer' = r
  /\ rpc' = [rpc EXCEPT ![r] = "clear"]
  /\ UNCHANGED <<keys, exited, rlocks, apc, asample, rend>>

\* /clear: c.allSeries = a new empty map; the deferred Unlock.
ClearWrite(r) ==
  /\ rpc[r] = "clear"
  /\ keys' = {}
  /\ writer' = NoOne
  /\ rpc' = [rpc EXCEPT ![r] = "idle"]
  /\ UNCHANGED <<exited, rlocks, apc, asample, rend>>

Next ==
  \/ RunExit
  \/ \E a \in Appenders :
       \/ \E s \in Series : AppendCheck(a, s)
       \/ AppendLock(a)
       \/ AppendWrite(a)
  \/ \E r \in Requests :
       \/ \E e \in Endpoints : RequestStart(r, e)
       \/ DebugRLock(r)
       \/ ReadEnd(r)
       \/ ClearLock(r)
       \/ ClearWrite(r)

Spec == Init /\ [][Next]_vars

-----------------------------------------------------------------------------
\* Goroutines inside a write of c.allSeries, and inside a range over it.
MapWriters == {a \in Appenders : apc[a] = "write"} \cup
              {r \in Requests : rpc[r] = "clear"}
MapReaders == {r \in Requests : rpc[r] = "read"}

(* The cache's variables have their types.                              *)
TypeOK ==
  /\ keys \subseteq Series
  /\ exited \in BOOLEAN
  /\ writer \in Actors \cup {NoOne}
  /\ rlocks \subseteq Requests
  /\ apc \in [Appenders -> {"idle", "lock", "write"}]
  /\ asample \in [Appenders -> Series]
  /\ rpc \in [Requests -> {"idle", "rlock", "read", "lock", "clear"}]
  /\ rend \in [Requests -> Endpoints]

(* The accesses that take cacheMut never overlap a write: while a goroutine*)
(* appends a sample or clears the cache, no DebugInfo is ranging over      *)
(* allSeries and no other goroutine writes it.                             *)
LockedAccessExclusive ==
  /\ Cardinality(MapWriters) <= 1
  /\ MapWriters # {} => \A r \in MapReaders : rend[r] # "debug"

(* No goroutine ranges over allSeries while another writes it: Go maps are *)
(* not safe for a concurrent read and write, and the runtime aborts the   *)
(* process when it detects one.                                           *)
NoMapRace ==
  MapWriters # {} => MapReaders = {}

(* Once Run has returned and set c.exited, the append hook refuses every *)
(* sample ("has exited"): no series is added to the cache after exit.    *)
NoAppendAfterExit ==
  [][exited => keys' \subseteq keys]_vars

=============================================================================
