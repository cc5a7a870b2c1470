-------------------------- MODULE ScrapePoolProofs --------------------------
(***************************************************************************)
(* Proofs about ScrapePool, for every set of targets and configurations,  *)
(* every number of probes and every bound on incarnations.                 *)
(***************************************************************************)
EXTENDS ScrapePool, TLAPS

(* The strengthening of NoOrphanLoop that a single step preserves: no     *)
(* loop beyond the incarnations created so far has been started or        *)
(* signalled, and the registered incarnation is one already created.  A   *)
(* loop that sync or reload creates is therefore fresh: not yet running,  *)
(* with graceShut open, and no other loop can claim its slot.              *)
Fresh ==
  \A l \in Loops : l[2] > inc[l[1]] => lpc[l] = "unused" /\ ~shut[l]

RegisteredCreated ==
  \A t \in Targets : active[t] <= inc[t]

IInv == TypeOK /\ Fresh /\ RegisteredCreated /\ NoOrphanLoop

SettingsOf == {Settings[c] : c \in Configs}

-----------------------------------------------------------------------------
(* Type correctness: every step keeps every variable in its type.         *)

LEMMA InitTypeOK == Init => TypeOK
  BY ConstAssumption DEF Init, TypeOK, Loops, LoopPcs

LEMMA StartLoopsType ==
  ASSUME TypeOK, NEW ts \in SUBSET Targets, NEW cfg \in Configs,
         NEW cl \in Configs, StartLoops(ts, cfg, cl)
  PROVE  /\ inc' \in [Targets -> 0 .. MaxIncarnations]
         /\ lpc' \in [Loops -> LoopPcs]
         /\ lcfg' \in [Loops -> SettingsOf]
         /\ lclient' \in [Loops -> SettingsOf]
  BY ConstAssumption DEF StartLoops, TypeOK, LoopPcs, SettingsOf

LEMMA NextTypeOK == TypeOK /\ [Next]_vars => TypeOK'
  <1> SUFFICES ASSUME TypeOK, [Next]_vars PROVE TypeOK'
    OBVIOUS
  <1> USE ConstAssumption DEF TypeOK, LoopPcs, Running, SettingsOf
  <1>1. ASSUME NEW actives \in SUBSET Targets, Sync(actives) PROVE TypeOK'
    <2>1. /\ inc' \in [Targets -> 0 .. MaxIncarnations]
          /\ lpc' \in [Loops -> LoopPcs]
          /\ lcfg' \in [Loops -> SettingsOf]
          /\ lclient' \in [Loops -> SettingsOf]
      BY <1>1, StartLoopsType DEF Sync
    <2>2. active' \in [Targets -> 0 .. MaxIncarnations]
      BY <1>1 DEF Sync, StartLoops
    <2>3. shut' \in [Loops -> BOOLEAN]
      BY <1>1 DEF Sync
    <2>4. QED
      BY <1>1, <2>1, <2>2, <2>3 DEF Sync
  <1>2. ASSUME NEW cfg \in Configs, ReloadSame(cfg) PROVE TypeOK'
    BY <1>2 DEF ReloadSame
  <1>3. ASSUME NEW cfg \in Configs, ReloadClientError(cfg) PROVE TypeOK'
    BY <1>3 DEF ReloadClientError
  <1>4. ASSUME NEW cfg \in Configs, ReloadRestart(cfg) PROVE TypeOK'
    <2>1. /\ inc' \in [Targets -> 0 .. MaxIncarnations]
          /\ lpc' \in [Loops -> LoopPcs]
          /\ lcfg' \in [Loops -> SettingsOf]
          /\ lclient' \in [Loops -> SettingsOf]
      BY <1>4, StartLoopsType DEF ReloadRestart
    <2>2. active' \in [Targets -> 0 .. MaxIncarnations]
      BY <1>4 DEF ReloadRestart, StartLoops
    <2>3. shut' \in [Loops -> BOOLEAN]
      BY <1>4 DEF ReloadRestart
    <2>4. QED
      BY <1>4, <2>1, <2>2, <2>3 DEF ReloadRestart
  <1>5. CASE StopBegin
    <2>1. \A u \in Targets : active[u] # 0 => Registered(u) \in Loops
      BY DEF Registered, Loops
    <2>2. waitFor' \in SUBSET Loops
      BY <1>5, <2>1 DEF StopBegin
    <2>3. shut' \in [Loops -> BOOLEAN]
      BY <1>5 DEF StopBegin
    <2>4. QED
      BY <1>5, <2>2, <2>3 DEF StopBegin
  <1>6. CASE StopEnd
    BY <1>6 DEF StopEnd
  <1>7. ASSUME NEW l \in Loops, LoopNext(l) PROVE TypeOK'
    <2> l[1] \in Targets
      BY DEF Loops
    <2>1. CASE OffsetElapsed(l) \/ OffsetShut(l) \/ Tick(l) \/ Exit(l)
      BY <2>1 DEF OffsetElapsed, OffsetShut, Tick, Exit, LoopStep
    <2>2. CASE FetchBadRequest(l)
      BY <2>2 DEF FetchBadRequest, LoopStep, SetHealth
    <2>3. ASSUME NEW k \in 1 .. NumProbes, FetchProbe(l, k) PROVE TypeOK'
      BY <2>3 DEF FetchProbe, LoopStep, SetHealth
    <2>4. CASE FetchAllProbesFail(l)
      BY <2>4 DEF FetchAllProbesFail, LoopStep, SetHealth
    <2>5. ASSUME NEW ok \in BOOLEAN, FetchCached(l, ok) PROVE TypeOK'
      BY <2>5 DEF FetchCached, LoopStep, SetHealth
    <2>6. ASSUME NEW ok \in BOOLEAN, Push(l, ok) PROVE TypeOK'
      BY <2>6 DEF Push, LoopStep, SetHealth
    <2>7. QED
      BY <1>7, <2>1, <2>2, <2>3, <2>4, <2>5, <2>6 DEF LoopNext
  <1>8. CASE UNCHANGED vars
    BY <1>8 DEF vars
  <1>9. QED
    BY <1>1, <1>2, <1>3, <1>4, <1>5, <1>6, <1>7, <1>8 DEF Next, PoolNext

(* The scrape pool's variables always have their types.                   *)
THEOREM TypeCorrect == Spec => []TypeOK
  BY InitTypeOK, NextTypeOK, PTL DEF Spec


-----------------------------------------------------------------------------
(* NoOrphanLoop.                                                           *)

(* The loop goroutine steps only move a running loop on, and touch neither *)
(* the registry nor any graceShut.                                         *)
LoopStepShape(l) ==
  /\ UNCHANGED <<active, inc, shut>>
  /\ lpc[l] \in Running
  /\ \A m \in Loops : m # l => lpc'[m] = lpc[m]

LEMMA LoopNextShape ==
  ASSUME TypeOK, NEW l \in Loops, LoopNext(l)
  PROVE  LoopStepShape(l)
  <1> USE DEF LoopStepShape, LoopStep, Running, TypeOK
  <1>1. CASE OffsetElapsed(l) \/ OffsetShut(l) \/ Tick(l) \/ Exit(l)
    BY <1>1 DEF OffsetElapsed, OffsetShut, Tick, Exit
  <1>2. CASE FetchBadRequest(l) \/ FetchAllProbesFail(l)
    BY <1>2 DEF FetchBadRequest, FetchAllProbesFail
  <1>3. ASSUME NEW k \in 1 .. NumProbes, FetchProbe(l, k) PROVE LoopStepShape(l)
    BY <1>3 DEF FetchProbe
  <1>4. ASSUME NEW ok \in BOOLEAN, FetchCached(l, ok) \/ Push(l, ok)
        PROVE LoopStepShape(l)
    BY <1>4 DEF FetchCached, Push
  <1>5. QED
    BY <1>1, <1>2, <1>3, <1>4 DEF LoopNext

(* What StartLoops does to one loop: the next incarnation of a target of  *)
(* ts starts at "offset", every other loop keeps its program counter.      *)
LEMMA StartLoopsPc ==
  ASSUME TypeOK, NEW ts \in SUBSET Targets, NEW cfg, NEW cl,
         StartLoops(ts, cfg, cl), NEW m \in Loops
  PROVE  /\ m[1] \in ts /\ m[2] = inc[m[1]] + 1 => lpc'[m] = "offset"
         /\ ~(m[1] \in ts /\ m[2] = inc[m[1]] + 1) => lpc'[m] = lpc[m]
         /\ inc'[m[1]] = IF m[1] \in ts THEN inc[m[1]] + 1 ELSE inc[m[1]]
  <1>1. m = <<m[1], m[2]>> /\ m[1] \in Targets
    BY DEF Loops
  <1>2. m \in {<<t, inc[t] + 1>> : t \in ts} <=> (m[1] \in ts /\ m[2] = inc[m[1]] + 1)
    BY <1>1
  <1>3. QED
    BY <1>1, <1>2 DEF StartLoops

LEMMA InitIInv == Init => IInv
  BY InitTypeOK, ConstAssumption
  DEF Init, IInv, Fresh, RegisteredCreated, NoOrphanLoop, Loops, Running

LEMMA NextIInv == IInv /\ [Next]_vars => IInv'
  <1> SUFFICES ASSUME IInv, [Next]_vars PROVE IInv'
    OBVIOUS
  <1> USE DEF IInv
  <1>0. TypeOK'
    BY NextTypeOK
  <1> USE ConstAssumption
  <1>1. ASSUME NEW actives \in SUBSET Targets, Sync(actives) PROVE IInv'
    <2> DEFINE new == {t \in actives : active[t] = 0}
               removed == {Registered(t) : t \in {u \in Targets \ actives : active[u] # 0}}
    <2>1. StartLoops(new, config, client)
      BY <1>1 DEF Sync
    <2>2. \A m \in Loops :
            shut'[m] = IF m \in removed THEN TRUE
                       ELSE IF m[1] \in new /\ m[2] = inc[m[1]] + 1
                            THEN FALSE ELSE shut[m]
      BY <1>1 DEF Sync
    <2>3. \A t \in Targets :
            active'[t] = IF t \in new THEN inc[t] + 1
                         ELSE IF t \in actives THEN active[t] ELSE 0
      BY <1>1 DEF Sync
    <2>4. \A m \in Loops : m \in removed => m[2] = active[m[1]] /\ active[m[1]] # 0 /\ m[1] \notin actives
      BY DEF Registered, Loops
    <2>5. RegisteredCreated'
      BY <2>1, <2>3, StartLoopsPc DEF RegisteredCreated, StartLoops, TypeOK
    <2>6. Fresh'
      <3> SUFFICES ASSUME NEW m \in Loops, m[2] > inc'[m[1]]
                   PROVE  lpc'[m] = "unused" /\ ~shut'[m]
        BY DEF Fresh
      <3>1. m[1] \in Targets /\ m[2] \in Nat
        BY DEF Loops
      <3>a. inc'[m[1]] = IF m[1] \in new THEN inc[m[1]] + 1 ELSE inc[m[1]]
        BY <2>1, StartLoopsPc
      <3>2. m[2] > inc[m[1]] /\ ~(m[1] \in new /\ m[2] = inc[m[1]] + 1)
        BY <3>a, <3>1 DEF TypeOK
      <3>3. m \notin removed
        BY <2>4, <3>1, <3>2 DEF RegisteredCreated, TypeOK
      <3>4. lpc[m] = "unused" /\ ~shut[m]
        BY <3>2 DEF Fresh
      <3>5. QED
        BY <2>1, <2>2, <3>2, <3>3, <3>4, StartLoopsPc
    <2>7. NoOrphanLoop'
      <3> SUFFICES ASSUME NEW m \in Loops, lpc'[m] \in Running, ~shut'[m]
                   PROVE  active'[m[1]] = m[2]
        BY DEF NoOrphanLoop
      <3>1. m[1] \in Targets
        BY DEF Loops
      <3>2. CASE m[1] \in new /\ m[2] = inc[m[1]] + 1
        BY <2>3, <3>1, <3>2
      <3>3. CASE ~(m[1] \in new /\ m[2] = inc[m[1]] + 1)
        <4>1. lpc[m] \in Running /\ m \notin removed /\ ~shut[m]
          BY <2>1, <2>2, <3>3, StartLoopsPc
        <4>2. active[m[1]] = m[2] /\ active[m[1]] # 0
          BY <4>1 DEF NoOrphanLoop, Loops
        <4>3. m[1] \in actives
          BY <4>1, <4>2, <3>1 DEF Registered, Loops
        <4>4. QED
          BY <2>3, <3>1, <4>2, <4>3
      <3>4. QED
        BY <3>2, <3>3
    <2>8. QED
      BY <1>0, <2>5, <2>6, <2>7
  <1>2. ASSUME NEW cfg \in Configs, ReloadSame(cfg) \/ ReloadClientError(cfg)
        PROVE IInv'
    BY <1>0, <1>2 DEF ReloadSame, ReloadClientError, Fresh, RegisteredCreated,
                      NoOrphanLoop
  <1>3. ASSUME NEW cfg \in Configs, ReloadRestart(cfg) PROVE IInv'
    <2> DEFINE ts == {t \in Targets : active[t] # 0}
               old == {Registered(t) : t \in ts}
    <2>1. StartLoops(ts, cfg, cfg)
      BY <1>3 DEF ReloadRestart
    <2>2. \A m \in Loops :
            shut'[m] = IF m \in old THEN TRUE
                       ELSE IF m[1] \in ts /\ m[2] = inc[m[1]] + 1
                            THEN FALSE ELSE shut[m]
      BY <1>3 DEF ReloadRestart
    <2>3. \A t \in Targets : active'[t] = IF t \in ts THEN inc[t] + 1 ELSE 0
      BY <1>3 DEF ReloadRestart
    <2>4. \A m \in Loops : m \in old => m[2] = active[m[1]] /\ active[m[1]] # 0
      BY DEF Registered, Loops
    <2>5. RegisteredCreated'
      BY <2>1, <2>3, StartLoopsPc DEF RegisteredCreated, StartLoops, TypeOK
    <2>6. Fresh'
      <3> SUFFICES ASSUME NEW m \in Loops, m[2] > inc'[m[1]]
                   PROVE  lpc'[m] = "unused" /\ ~shut'[m]
        BY DEF Fresh
      <3>1. m[1] \in Targets /\ m[2] \in Nat
        BY DEF Loops
      <3>a. inc'[m[1]] = IF m[1] \in ts THEN inc[m[1]] + 1 ELSE inc[m[1]]
        BY <2>1, StartLoopsPc
      <3>2. m[2] > inc[m[1]] /\ ~(m[1] \in ts /\ m[2] = inc[m[1]] + 1)
        BY <3>a, <3>1 DEF TypeOK
      <3>3. m \notin old
        BY <2>4, <3>1, <3>2 DEF RegisteredCreated, TypeOK
      <3>4. lpc[m] = "unused" /\ ~shut[m]
        BY <3>2 DEF Fresh
      <3>5. QED
        BY <2>1, <2>2, <3>2, <3>3, <3>4, StartLoopsPc
    <2>7. NoOrphanLoop'
      <3> SUFFICES ASSUME NEW m \in Loops, lpc'[m] \in Running, ~shut'[m]
                   PROVE  active'[m[1]] = m[2]
        BY DEF NoOrphanLoop
      <3>1. m[1] \in Targets
        BY DEF Loops
      <3>2. CASE m[1] \in ts /\ m[2] = inc[m[1]] + 1
        BY <2>3, <3>1, <3>2
      <3>3. CASE ~(m[1] \in ts /\ m[2] = inc[m[1]] + 1)
        <4>1. lpc[m] \in Running /\ m \notin old /\ ~shut[m]
          BY <2>1, <2>2, <3>3, StartLoopsPc
        <4>2. active[m[1]] = m[2] /\ active[m[1]] # 0
          BY <4>1 DEF NoOrphanLoop, Loops
        <4>3. m \in old
          BY <4>2, <3>1 DEF Registered, Loops
        <4>4. QED
          BY <4>1, <4>3
      <3>4. QED
        BY <3>2, <3>3
    <2>8. QED
      BY <1>0, <2>5, <2>6, <2>7
  <1>4. CASE StopBegin
    <2> DEFINE regs == {Registered(t) : t \in {u \in Targets : active[u] # 0}}
    <2>1. \A m \in Loops : shut'[m] = IF m \in regs THEN TRUE ELSE shut[m]
      BY <1>4 DEF StopBegin
    <2>2. \A m \in Loops : m \in regs => m[2] = active[m[1]]
      BY DEF Registered, Loops
    <2>3. UNCHANGED <<active, inc, lpc>>
      BY <1>4 DEF StopBegin
    <2>4. \A m \in Loops : m[2] > inc[m[1]] => m \notin regs
      BY <2>2 DEF RegisteredCreated, TypeOK, Loops
    <2>5. Fresh'
      BY <2>1, <2>3, <2>4 DEF Fresh
    <2>6. QED
      BY <1>0, <2>1, <2>3, <2>5 DEF RegisteredCreated, NoOrphanLoop
  <1>5. CASE StopEnd
    BY <1>0, <1>5 DEF StopEnd, Fresh, RegisteredCreated, NoOrphanLoop
  <1>6. ASSUME NEW l \in Loops, LoopNext(l) PROVE IInv'
    <2>1. LoopStepShape(l)
      BY <1>6, LoopNextShape
    <2>2. l[2] <= inc[l[1]]
      BY <2>1 DEF LoopStepShape, Fresh, Running, Loops, TypeOK
    <2>3. Fresh'
      <3> SUFFICES ASSUME NEW m \in Loops, m[2] > inc'[m[1]]
                   PROVE  lpc'[m] = "unused" /\ ~shut'[m]
        BY DEF Fresh
      <3>1. m[2] > inc[m[1]]
        BY <2>1 DEF LoopStepShape
      <3>2. m # l
        BY <2>2, <3>1 DEF Loops, TypeOK
      <3>3. QED
        BY <2>1, <3>1, <3>2 DEF LoopStepShape, Fresh
    <2>4. NoOrphanLoop'
      BY <2>1 DEF LoopStepShape, NoOrphanLoop
    <2>5. QED
      BY <1>0, <2>1, <2>3, <2>4 DEF LoopStepShape, RegisteredCreated
  <1>7. CASE UNCHANGED vars
    BY <1>0, <1>7 DEF vars, Fresh, RegisteredCreated, NoOrphanLoop
  <1>8. QED
    BY <1>1, <1>2, <1>3, <1>4, <1>5, <1>6, <1>7 DEF Next, PoolNext

(* No scrape loop whose graceShut is open runs outside activeTargets: the *)
(* registry sync and reload keep is the set of loops stop can reach.      *)
THEOREM NoOrphanLoopHolds == Spec => []NoOrphanLoop
  <1>1. IInv => NoOrphanLoop
    BY DEF IInv
  <1>2. QED
    BY <1>1, InitIInv, NextIInv, PTL DEF Spec

=============================================================================
