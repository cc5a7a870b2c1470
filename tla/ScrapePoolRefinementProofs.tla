--------------------- MODULE ScrapePoolRefinementProofs ---------------------
(***************************************************************************)
(* Proofs that the scrape pool keeps its registered loops on its client,  *)
(* that stop returns only once they have exited, and that every step of   *)
(* ScrapePool is a step of ScrapePoolAbstract under the mapping Abs (the  *)
(* safety part of ScrapePoolRefinesAbstract), for every value of the      *)
(* constants.                                                              *)
(***************************************************************************)
EXTENDS ScrapePoolProofs

(* While the pool runs, every registered loop runs with graceShut open.  *)
RegisteredLive ==
  poolPc = "running" =>
    \A t \in Targets :
      active[t] # 0 => lpc[Registered(t)] \in Running /\ ~shut[Registered(t)]

(* Once stop has begun, its goroutines wait for exactly the registered    *)
(* loops: the registry no longer changes.                                  *)
WaitSet ==
  poolPc # "running" => waitFor = {Registered(t) : t \in RegisteredTargets}

RInv ==
  /\ IInv
  /\ RegisteredLoopsUseClient
  /\ RegisteredLive
  /\ WaitSet
  /\ StoppedPoolRegisteredExited

-----------------------------------------------------------------------------
(* What StartLoops gives the client of one loop.                           *)
LEMMA StartLoopsClient ==
  ASSUME TypeOK, NEW ts \in SUBSET Targets, NEW cfg, NEW cl,
         StartLoops(ts, cfg, cl), NEW m \in Loops
  PROVE  /\ m[1] \in ts /\ m[2] = inc[m[1]] + 1 => lclient'[m] = Settings[cl]
         /\ ~(m[1] \in ts /\ m[2] = inc[m[1]] + 1) => lclient'[m] = lclient[m]
  <1>1. m = <<m[1], m[2]>> /\ m[1] \in Targets
    BY DEF Loops
  <1>2. m \in {<<t, inc[t] + 1>> : t \in ts} <=> (m[1] \in ts /\ m[2] = inc[m[1]] + 1)
    BY <1>1
  <1>3. QED
    BY <1>1, <1>2 DEF StartLoops

(* A loop step touches neither the pool's client, the loops' clients, the *)
(* registry nor stop's state.                                              *)
LEMMA LoopNextKeeps ==
  ASSUME NEW l \in Loops, LoopNext(l)
  PROVE  UNCHANGED <<active, client, lclient, shut, poolPc, waitFor>>
  <1>1. CASE OffsetElapsed(l) \/ OffsetShut(l) \/ Tick(l) \/ Exit(l)
    BY <1>1 DEF OffsetElapsed, OffsetShut, Tick, Exit
  <1>2. CASE FetchBadRequest(l) \/ FetchAllProbesFail(l)
    BY <1>2 DEF FetchBadRequest, FetchAllProbesFail
  <1>3. ASSUME NEW k \in 1 .. NumProbes, FetchProbe(l, k)
        PROVE UNCHANGED <<active, client, lclient, shut, poolPc, waitFor>>
    BY <1>3 DEF FetchProbe
  <1>4. ASSUME NEW ok \in BOOLEAN, FetchCached(l, ok) \/ Push(l, ok)
        PROVE UNCHANGED <<active, client, lclient, shut, poolPc, waitFor>>
    BY <1>4 DEF FetchCached, Push
  <1>5. QED
    BY <1>1, <1>2, <1>3, <1>4 DEF LoopNext

(* A loop goroutine returns only through a select case on a closed        *)
(* graceShut.                                                              *)
LEMMA LoopExitShut ==
  ASSUME TypeOK, NEW l \in Loops, LoopNext(l), lpc'[l] \notin Running
  PROVE  shut[l]
  <1> USE DEF LoopStep, Running, TypeOK
  <1>1. CASE OffsetShut(l) \/ Exit(l)
    BY <1>1 DEF OffsetShut, Exit
  <1>2. CASE OffsetElapsed(l) \/ Tick(l)
    BY <1>2 DEF OffsetElapsed, Tick
  <1>3. CASE FetchBadRequest(l) \/ FetchAllProbesFail(l)
    BY <1>3 DEF FetchBadRequest, FetchAllProbesFail
  <1>4. ASSUME NEW k \in 1 .. NumProbes, FetchProbe(l, k) PROVE shut[l]
    BY <1>4 DEF FetchProbe
  <1>5. ASSUME NEW ok \in BOOLEAN, FetchCached(l, ok) \/ Push(l, ok)
        PROVE shut[l]
    BY <1>5 DEF FetchCached, Push
  <1>6. QED
    BY <1>1, <1>2, <1>3, <1>4, <1>5 DEF LoopNext

LEMMA InitRInv == Init => RInv
  BY InitIInv
  DEF Init, RInv, RegisteredLoopsUseClient, RegisteredLive, WaitSet,
      StoppedPoolRegisteredExited

LEMMA NextRInv == RInv /\ [Next]_vars => RInv'
  <1> SUFFICES ASSUME RInv, [Next]_vars PROVE RInv'
    OBVIOUS
  <1> USE DEF RInv, IInv
  <1>0. IInv' /\ TypeOK
    BY NextIInv DEF IInv
  <1> USE ConstAssumption
  <1>1. ASSUME NEW actives \in SUBSET Targets, Sync(actives) PROVE RInv'
    <2> DEFINE new == {t \in actives : active[t] = 0}
               removed == {Registered(t) : t \in {u \in Targets \ actives : active[u] # 0}}
    <2>1. StartLoops(new, config, client) /\ UNCHANGED <<client, poolPc>>
      BY <1>1 DEF Sync
    <2>2. \A m \in Loops :
            shut'[m] = IF m \in removed THEN TRUE
                       ELSE IF m[1] \in new /\ m[2] = inc[m[1]] + 1
                            THEN FALSE ELSE shut[m]
      BY <1>1 DEF Sync
    <2>3. \A t \in Targets :
            active'[t] = IF t \in new THEN inc[t] + 1
                         ELSE IF t \in actives THEN active[t] ELSE 0
      BY <1>1 DEF Sync
    <2>4. \A m \in Loops : m \in removed => m[1] \notin actives
      BY DEF Registered, Loops
    <2>5. new \in SUBSET Targets
      OBVIOUS
    <2>a. ASSUME NEW mm \in Loops, ~(mm[1] \in new /\ mm[2] = inc[mm[1]] + 1)
          PROVE  lpc'[mm] = lpc[mm] /\ lclient'[mm] = lclient[mm]
      <3>1. lpc'[mm] = lpc[mm]
        BY <2>1, <2>5, <2>a, StartLoopsPc
      <3>2. lclient'[mm] = lclient[mm]
        BY <2>1, <2>5, <2>a, StartLoopsClient
      <3>3. QED
        BY <3>1, <3>2
    <2>6. ASSUME NEW t \in Targets, active'[t] # 0
          PROVE  /\ lclient'[<<t, active'[t]>>] = Settings[client]
                 /\ poolPc = "running" =>
                      lpc'[<<t, active'[t]>>] \in Running /\ ~shut'[<<t, active'[t]>>]
      <3> DEFINE m == <<t, active'[t]>>
      <3>1. CASE t \in new
        <4>1. inc[t] < MaxIncarnations /\ active'[t] = inc[t] + 1
          BY <2>1, <2>3, <3>1 DEF StartLoops
        <4>2. m \in Loops /\ m \notin removed
          BY <2>4, <3>1, <4>1 DEF Loops, TypeOK
        <4>3. m[1] \in new /\ m[2] = inc[m[1]] + 1
          BY <3>1, <4>1
        <4>4. lpc'[m] = "offset" /\ lclient'[m] = Settings[client]
          BY <2>1, <2>5, <4>2, <4>3, StartLoopsPc, StartLoopsClient
        <4>5. ~shut'[m]
          BY <2>2, <4>2, <4>3
        <4>6. QED
          BY <4>4, <4>5 DEF Running
      <3>2. CASE t \notin new
        <4>1. t \in actives
          BY <2>3, <2>6, <3>2
        <4>2. active[t] # 0 /\ active'[t] = active[t]
          BY <2>3, <3>2, <4>1
        <4>3. m = Registered(t) /\ m \in Loops /\ m \notin removed
          BY <2>4, <4>1, <4>2 DEF Registered, Loops, TypeOK
        <4>4. ~(m[1] \in new /\ m[2] = inc[m[1]] + 1)
          BY <3>2
        <4>5. lpc'[m] = lpc[m] /\ lclient'[m] = lclient[m]
          BY <2>a, <4>3, <4>4
        <4>6. shut'[m] = shut[m]
          BY <2>2, <4>3, <4>4
        <4>7. QED
          BY <4>2, <4>3, <4>5, <4>6 DEF RegisteredLoopsUseClient, RegisteredLive
      <3>3. QED
        BY <3>1, <3>2
    <2>7. RegisteredLoopsUseClient' /\ RegisteredLive'
      BY <2>1, <2>6 DEF Registered, RegisteredLoopsUseClient, RegisteredLive
    <2>8. WaitSet' /\ StoppedPoolRegisteredExited'
      BY <1>1 DEF Sync, WaitSet, StoppedPoolRegisteredExited
    <2>9. QED
      BY <1>0, <2>7, <2>8
  <1>2. ASSUME NEW cfg \in Configs, ReloadSame(cfg) \/ ReloadClientError(cfg)
        PROVE RInv'
    BY <1>0, <1>2
    DEF ReloadSame, ReloadClientError, Registered, RegisteredLoopsUseClient,
        RegisteredLive, WaitSet, StoppedPoolRegisteredExited
  <1>3. ASSUME NEW cfg \in Configs, ReloadRestart(cfg) PROVE RInv'
    <2> DEFINE ts == {t \in Targets : active[t] # 0}
               old == {Registered(t) : t \in ts}
    <2>1. StartLoops(ts, cfg, cfg) /\ client' = cfg /\ UNCHANGED poolPc
      BY <1>3 DEF ReloadRestart
    <2>2. \A m \in Loops :
            shut'[m] = IF m \in old THEN TRUE
                       ELSE IF m[1] \in ts /\ m[2] = inc[m[1]] + 1
                            THEN FALSE ELSE shut[m]
      BY <1>3 DEF ReloadRestart
    <2>3. \A t \in Targets : active'[t] = IF t \in ts THEN inc[t] + 1 ELSE 0
      BY <1>3 DEF ReloadRestart
    <2>4. ASSUME NEW t \in Targets, active'[t] # 0
          PROVE  /\ lclient'[<<t, active'[t]>>] = Settings[client']
                 /\ lpc'[<<t, active'[t]>>] \in Running
                 /\ ~shut'[<<t, active'[t]>>]
      <3> DEFINE m == <<t, active'[t]>>
      <3>1. t \in ts /\ inc[t] < MaxIncarnations /\ active'[t] = inc[t] + 1
        BY <2>1, <2>3, <2>4 DEF StartLoops
      <3>2. m \in Loops /\ m[1] \in ts /\ m[2] = inc[m[1]] + 1
        BY <3>1 DEF Loops, TypeOK
      <3>3. m \notin old
        <4>1. active[t] # inc[t] + 1
          BY DEF RegisteredCreated, TypeOK
        <4>2. QED
          BY <3>1, <4>1 DEF Registered
      <3>4. ts \in SUBSET Targets
        OBVIOUS
      <3>5. lpc'[m] = "offset" /\ lclient'[m] = Settings[cfg]
        <4>1. lpc'[m] = "offset"
          BY <2>1, <3>2, <3>4, StartLoopsPc
        <4>2. lclient'[m] = Settings[cfg]
          BY <2>1, <3>1, <3>2 DEF StartLoops
        <4>3. QED
          BY <4>1, <4>2
      <3>6. ~shut'[m]
        BY <2>2, <3>2, <3>3
      <3>7. QED
        BY <2>1, <3>5, <3>6 DEF Running
    <2>5. RegisteredLoopsUseClient' /\ RegisteredLive'
      BY <2>4 DEF Registered, RegisteredLoopsUseClient, RegisteredLive
    <2>6. poolPc' = "running"
      BY <1>3 DEF ReloadRestart
    <2>7. QED
      BY <1>0, <2>5, <2>6 DEF WaitSet, StoppedPoolRegisteredExited
  <1>4. CASE StopBegin
    <2>1. UNCHANGED <<active, client, lclient, lpc>> /\ poolPc' = "stopping"
      BY <1>4 DEF StopBegin
    <2>2. WaitSet'
      BY <1>4, <2>1 DEF StopBegin, WaitSet, RegisteredTargets, Registered
    <2>3. RegisteredLoopsUseClient'
      BY <2>1 DEF Registered, RegisteredLoopsUseClient
    <2>4. QED
      BY <1>0, <2>1, <2>2, <2>3 DEF RegisteredLive, StoppedPoolRegisteredExited
  <1>5. CASE StopEnd
    <2>1. UNCHANGED <<active, client, lclient, lpc, waitFor>>
          /\ poolPc = "stopping" /\ poolPc' = "stopped"
      BY <1>5 DEF StopEnd
    <2>2. WaitSet'
      BY <2>1 DEF WaitSet, RegisteredTargets, Registered
    <2>3. RegisteredLoopsUseClient'
      BY <2>1 DEF Registered, RegisteredLoopsUseClient
    <2>4. StoppedPoolRegisteredExited'
      <3> SUFFICES ASSUME NEW t \in Targets, active[t] # 0
                   PROVE  lpc[Registered(t)] = "exited"
        BY <2>1 DEF StoppedPoolRegisteredExited, Registered
      <3>1. Registered(t) \in waitFor
        BY <2>1 DEF WaitSet, RegisteredTargets
      <3>2. QED
        BY <1>5, <3>1 DEF StopEnd
    <2>5. QED
      BY <1>0, <2>1, <2>2, <2>3, <2>4 DEF RegisteredLive
  <1>6. ASSUME NEW l \in Loops, LoopNext(l) PROVE RInv'
    <2>1. UNCHANGED <<active, client, lclient, shut, poolPc, waitFor>>
      BY <1>6, LoopNextKeeps
    <2>2. LoopStepShape(l)
      BY <1>6, LoopNextShape
    <2>3. RegisteredLive'
      <3> SUFFICES ASSUME poolPc = "running", NEW t \in Targets, active[t] # 0
                   PROVE  lpc'[Registered(t)] \in Running
        BY <2>1 DEF RegisteredLive, Registered
      <3>1. lpc[Registered(t)] \in Running /\ ~shut[Registered(t)]
        BY DEF RegisteredLive
      <3>2. CASE Registered(t) = l
        BY <1>6, <3>1, <3>2, LoopExitShut
      <3>3. CASE Registered(t) # l
        BY <2>2, <3>1, <3>3 DEF LoopStepShape, Registered, Loops, TypeOK
      <3>4. QED
        BY <3>2, <3>3
    <2>4. StoppedPoolRegisteredExited'
      <3> SUFFICES ASSUME poolPc = "stopped", NEW t \in Targets, active[t] # 0
                   PROVE  lpc'[Registered(t)] = "exited"
        BY <2>1 DEF StoppedPoolRegisteredExited, Registered
      <3>1. lpc[Registered(t)] = "exited"
        BY DEF StoppedPoolRegisteredExited
      <3>2. Registered(t) # l
        BY <2>2, <3>1 DEF LoopStepShape, Running
      <3>3. Registered(t) \in Loops
        BY DEF Registered, Loops, TypeOK
      <3>4. QED
        BY <2>2, <3>1, <3>2, <3>3 DEF LoopStepShape
    <2>5. RegisteredLoopsUseClient' /\ WaitSet'
      BY <2>1 DEF Registered, RegisteredTargets, RegisteredLoopsUseClient,
                  WaitSet
    <2>6. QED
      BY <1>0, <2>3, <2>4, <2>5
  <1>7. CASE UNCHANGED vars
    BY <1>0, <1>7
    DEF vars, Registered, RegisteredTargets, RegisteredLoopsUseClient,
        RegisteredLive, WaitSet, StoppedPoolRegisteredExited
  <1>8. QED
    BY <1>0, <1>1, <1>2, <1>3, <1>4, <1>5, <1>6, <1>7 DEF Next, PoolNext

-----------------------------------------------------------------------------
(* The refinement mapping, step by step.                                   *)

LEMMA InitRefines == Init => Abs!AInit
  <1> SUFFICES ASSUME Init PROVE Abs!AInit
    OBVIOUS
  <1>1. RegisteredTargets = {}
    BY DEF Init, RegisteredTargets
  <1>2. Settings[client] \in {Settings[c] : c \in Configs}
    BY ConstAssumption DEF Init
  <1>3. QED
    BY <1>1, <1>2 DEF Init, Abs!AInit

(* Under RInv the mapped loops all carry the pool's settings, and while   *)
(* the pool runs every registered target is being scraped.                *)
LEMMA AbsViews ==
  ASSUME RInv
  PROVE  /\ [t \in RegisteredTargets |-> lclient[Registered(t)]]
              = [t \in RegisteredTargets |-> Settings[client]]
         /\ poolPc = "running" =>
              {t \in RegisteredTargets : lpc[Registered(t)] # "exited"}
                = RegisteredTargets
  BY DEF RInv, RegisteredLoopsUseClient, RegisteredLive, RegisteredTargets,
         Running

LEMMA NextRefines ==
  ASSUME RInv, RInv', [Next]_vars
  PROVE  [Abs!ANext]_Abs!avars
  <1> USE DEF RInv, IInv
  <1>1. /\ [t \in RegisteredTargets |-> lclient[Registered(t)]]
             = [t \in RegisteredTargets |-> Settings[client]]
        /\ poolPc = "running" =>
             {t \in RegisteredTargets : lpc[Registered(t)] # "exited"}
               = RegisteredTargets
    BY AbsViews
  <1>2. /\ [t \in RegisteredTargets' |-> lclient'[Registered(t)']]
             = [t \in RegisteredTargets' |-> Settings[client']]
        /\ poolPc' = "running" =>
             {t \in RegisteredTargets' : lpc'[Registered(t)'] # "exited"}
               = RegisteredTargets'
    BY DEF RegisteredLoopsUseClient, RegisteredLive, RegisteredTargets,
           Registered, Running
  <1>3. ASSUME NEW actives \in SUBSET Targets, Sync(actives)
        PROVE  [Abs!ANext]_Abs!avars
    <2>1. RegisteredTargets' = actives
      BY <1>3 DEF Sync, StartLoops, RegisteredTargets, TypeOK
    <2>2. poolPc = "running" /\ UNCHANGED <<client, poolPc>>
      BY <1>3 DEF Sync
    <2>3. Abs!ASync(actives)
      BY <1>1, <1>2, <2>1, <2>2 DEF Abs!ASync
    <2>4. QED
      BY <2>3 DEF Abs!ANext
  <1>4. ASSUME NEW cfg \in Configs, ReloadSame(cfg) \/ ReloadClientError(cfg)
        PROVE  [Abs!ANext]_Abs!avars
    <2>1. UNCHANGED <<active, client, lclient, lpc, poolPc>>
      BY <1>4 DEF ReloadSame, ReloadClientError
    <2>2. QED
      BY <2>1 DEF Abs!avars, RegisteredTargets, Registered
  <1>5. ASSUME NEW cfg \in Configs, ReloadRestart(cfg)
        PROVE  [Abs!ANext]_Abs!avars
    <2>1. RegisteredTargets' = RegisteredTargets
      BY <1>5 DEF ReloadRestart, StartLoops, RegisteredTargets, TypeOK
    <2>2. poolPc = "running" /\ UNCHANGED poolPc /\ client' = cfg
      BY <1>5 DEF ReloadRestart
    <2>3. Abs!AReload(Settings[cfg])
      BY <1>1, <1>2, <2>1, <2>2 DEF Abs!AReload
    <2>4. QED
      BY <2>3 DEF Abs!ANext
  <1>6. CASE StopBegin
    <2>1. Abs!AStopBegin
      BY <1>6 DEF StopBegin, Abs!AStopBegin, RegisteredTargets, Registered
    <2>2. QED
      BY <2>1 DEF Abs!ANext
  <1>7. CASE StopEnd
    <2>1. \A t \in RegisteredTargets : lpc[Registered(t)] = "exited"
      BY <1>7 DEF StopEnd, WaitSet
    <2>2. Abs!AStopEnd
      BY <1>7, <2>1 DEF StopEnd, Abs!AStopEnd, RegisteredTargets, Registered
    <2>3. QED
      BY <2>2 DEF Abs!ANext
  <1>8. ASSUME NEW l \in Loops, LoopNext(l) PROVE [Abs!ANext]_Abs!avars
    <2>1. UNCHANGED <<active, client, lclient, shut, poolPc, waitFor>>
      BY <1>8, LoopNextKeeps
    <2>2. LoopStepShape(l)
      BY <1>8, LoopNextShape
    <2>3. RegisteredTargets' = RegisteredTargets
          /\ \A t \in Targets : Registered(t)' = Registered(t)
      BY <2>1 DEF RegisteredTargets, Registered
    <2> DEFINE t0 == l[1]
    <2>4. CASE l[1] \in RegisteredTargets /\ l = Registered(l[1])
               /\ lpc'[l] = "exited"
      <3>1. poolPc = "stopping"
        <4>1. poolPc # "running"
          BY <1>8, <2>2, <2>4, LoopExitShut
          DEF RegisteredLive, RegisteredTargets, LoopStepShape, Running
        <4>2. poolPc # "stopped"
          BY <2>2, <2>4
          DEF StoppedPoolRegisteredExited, RegisteredTargets, LoopStepShape,
              Running
        <4>3. QED
          BY <4>1, <4>2 DEF TypeOK
      <3>2. \A t \in RegisteredTargets :
              lpc'[Registered(t)] = IF t = t0 THEN "exited"
                                    ELSE lpc[Registered(t)]
        BY <2>2, <2>4 DEF LoopStepShape, RegisteredTargets, Registered, Loops,
                          TypeOK
      <3>3. lpc[Registered(t0)] # "exited"
        BY <2>2, <2>4 DEF LoopStepShape, Running
      <3>4. {t \in RegisteredTargets' : lpc'[Registered(t)'] # "exited"}
              = {t \in RegisteredTargets : lpc[Registered(t)] # "exited"} \ {t0}
        BY <2>1, <3>2 DEF RegisteredTargets, Registered
      <3>5. [t \in RegisteredTargets' |-> lclient'[Registered(t)']]
              = [t \in RegisteredTargets |-> lclient[Registered(t)]]
        BY <2>1 DEF RegisteredTargets, Registered
      <3>6. Abs!AScraperExit(t0)
        BY <2>1, <2>3, <2>4, <3>1, <3>3, <3>4, <3>5 DEF Abs!AScraperExit
      <3>7. QED
        BY <3>6 DEF Abs!ANext, Loops
    <2>5. CASE ~(l[1] \in RegisteredTargets /\ l = Registered(l[1])
                 /\ lpc'[l] = "exited")
      <3>1. \A t \in RegisteredTargets :
              (lpc'[Registered(t)] # "exited") = (lpc[Registered(t)] # "exited")
        BY <2>2, <2>5 DEF LoopStepShape, RegisteredTargets, Registered, Loops,
                          TypeOK, Running
      <3>2. {t \in RegisteredTargets' : lpc'[Registered(t)'] # "exited"}
              = {t \in RegisteredTargets : lpc[Registered(t)] # "exited"}
        BY <2>1, <3>1 DEF RegisteredTargets, Registered
      <3>3. [t \in RegisteredTargets' |-> lclient'[Registered(t)']]
              = [t \in RegisteredTargets |-> lclient[Registered(t)]]
        BY <2>1 DEF RegisteredTargets, Registered
      <3>4. QED
        BY <2>1, <2>3, <3>2, <3>3 DEF Abs!avars
    <2>6. QED
      BY <2>4, <2>5
  <1>9. CASE UNCHANGED vars
    BY <1>9 DEF vars, Abs!avars, RegisteredTargets, Registered
  <1>10. QED
    BY <1>3, <1>4, <1>5, <1>6, <1>7, <1>8, <1>9 DEF Next, PoolNext

-----------------------------------------------------------------------------
(* Every loop registered in activeTargets was built with the client the  *)
(* pool holds: reload installs a new scrapeClient only together with the  *)
(* restart of every registered loop, and sync starts new loops with it.   *)
THEOREM RegisteredLoopsUseClientHolds == Spec => []RegisteredLoopsUseClient
  <1>1. RInv => RegisteredLoopsUseClient
    BY DEF RInv
  <1>2. QED
    BY <1>1, InitRInv, NextRInv, PTL DEF Spec

(* Once stop has returned, every loop still in activeTargets has exited: *)
(* stop's goroutines wait for exactly the loops registered when it began, *)
(* and nothing changes the registry while it waits.                       *)
THEOREM StoppedPoolRegisteredExitedHolds == Spec => []StoppedPoolRegisteredExited
  <1>1. RInv => StoppedPoolRegisteredExited
    BY DEF RInv
  <1>2. QED
    BY <1>1, InitRInv, NextRInv, PTL DEF Spec

(* The safety part of ScrapePoolRefinesAbstract: under the mapping Abs,   *)
(* every behaviour of the pool starts in an abstract initial state and    *)
(* each of its steps is an abstract sync, reload, stop or scraper exit,   *)
(* or leaves the abstract state unchanged.                                 *)
THEOREM RefinementSafety == Spec => Abs!AInit /\ [][Abs!ANext]_Abs!avars
  <1>1. RInv /\ [Next]_vars /\ RInv' => [Abs!ANext]_Abs!avars
    BY NextRefines
  <1>2. QED
    BY <1>1, InitRInv, NextRInv, InitRefines, PTL DEF Spec

=============================================================================
