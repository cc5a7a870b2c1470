----------------------------- MODULE ScrapePool -----------------------------
(***************************************************************************)
(* The pyroscope scrape pool (src/unnamed/part_014, package scrape): the   *)
(* registry of one scrape loop per active target, kept under scrapePool.mtx*)
(* by sync, reload and stop, and the scrape-loop goroutines that run       *)
(* concurrently with it.                                                   *)
(*                                                                         *)
(* A loop is identified by <<target, incarnation>>: every newScrapeLoop    *)
(* for a target makes its next incarnation.  The registry activeTargets is *)
(* active[t], the incarnation registered for t, or 0 when t is absent.     *)
(* sync, reload and stop each hold tg.mtx for their whole body and are     *)
(* atomic steps here, except stop, which waits (wg.Wait) for the loops it  *)
(* stopped while holding the lock: it is split into StopBegin and StopEnd. *)
(***************************************************************************)
EXTENDS Naturals, FiniteSets

CONSTANTS
  Targets,          \* target hashes that service discovery may report
  Configs,          \* scrape Arguments values the component may pass
  Settings,         \* Settings[c]: ScrapeInterval, ScrapeTimeout and
                    \* HTTPClientConfig of c, the fields reload compares
  InitConfig,       \* the Arguments newScrapePool was built with
  NumProbes,        \* length of godeltaprofProbes(...) for a target
  MaxIncarnations   \* bound: scrape loops created per target

ASSUME ConstAssumption ==
  /\ Targets # {}
  /\ InitConfig \in Configs
  /\ Settings = [c \in Configs |-> Settings[c]]
  /\ NumProbes \in Nat \ {0}
  /\ MaxIncarnations \in Nat \ {0}

Loops == Targets \X (1 .. MaxIncarnations)

\* Program counter of a scrapeLoop goroutine (start, scrape).
\*   "unused"  not created,   "offset"  waiting for its first tick offset,
\*   "idle"    in the ticker select,   "fetch"  in scrape before the fetch,
\*   "push"    fetched a profile, before appender.Append,   "exited".
LoopPcs == {"unused", "offset", "idle", "fetch", "push", "exited"}
Running == {"offset", "idle", "fetch", "push"}

VARIABLES
  active,       \* activeTargets: target -> registered incarnation, 0 = none
  inc,          \* incarnations created so far per target
  config,       \* tg.config
  client,       \* the Arguments tg.scrapeClient was built from
  lpc,          \* loop -> program counter
  shut,         \* loop -> graceShut closed
  lcfg,         \* loop -> Settings of the Arguments its interval and
                \* timeout come from
  lclient,      \* loop -> Settings of the Arguments its scrapeClient was
                \* built from
  req,          \* loop -> 0 when t.req is nil, else the probe it points at
  health,       \* target -> health written by updateTargetStatus
  poolPc,       \* "running", "stopping" (inside stop, waiting), "stopped"
  waitFor,      \* the loops stop is waiting for
  lastReload    \* result of the last reload: "none", "ok", "err"

vars == <<active, inc, config, client, lpc, shut, lcfg, lclient, req,
          health, poolPc, waitFor, lastReload>>

Registered(t) == <<t, active[t]>>

-----------------------------------------------------------------------------
(* newScrapePool: empty registry, client built from the initial config.   *)
Init ==
  /\ active = [t \in Targets |-> 0]
  /\ inc = [t \in Targets |-> 0]
  /\ config = InitConfig
  /\ client = InitConfig
  /\ lpc = [l \in Loops |-> "unused"]
  /\ shut = [l \in Loops |-> FALSE]
  /\ lcfg = [l \in Loops |-> Settings[InitConfig]]
  /\ lclient = [l \in Loops |-> Settings[InitConfig]]
  /\ req = [l \in Loops |-> 0]
  /\ health = [t \in Targets |-> "unknown"]
  /\ poolPc = "running"
  /\ waitFor = {}
  /\ lastReload = "none"

\* newScrapeLoop + loop.start for each target of ts: the next incarnation,
\* started with interval and timeout of cfg and the client built from cl.
StartLoops(ts, cfg, cl) ==
  LET new == {<<t, inc[t] + 1>> : t \in ts}
  IN /\ \A t \in ts : inc[t] < MaxIncarnations
     /\ inc' = [t \in Targets |-> IF t \in ts THEN inc[t] + 1 ELSE inc[t]]
     /\ lpc' = [l \in Loops |-> IF l \in new THEN "offset" ELSE lpc[l]]
     /\ lcfg' = [l \in Loops |-> IF l \in new THEN Settings[cfg] ELSE lcfg[l]]
     /\ lclient' = [l \in Loops |-> IF l \in new THEN Settings[cl] ELSE lclient[l]]

\* Mutant of Sync: dropped targets are deleted without t.stop(false).
SyncNoStop(actives) ==
  LET new == {t \in actives : active[t] = 0}
  IN /\ poolPc = "running"
     /\ StartLoops(new, config, client)
     /\ active' = [t \in Targets |-> IF t \in new THEN inc[t] + 1
                                     ELSE IF t \in actives THEN active[t]
                                     ELSE 0]
     /\ shut' = [l \in Loops |-> IF l[1] \in new /\ l[2] = inc[l[1]] + 1
                                 THEN FALSE ELSE shut[l]]
     /\ UNCHANGED <<config, client, req, health, poolPc, waitFor, lastReload>>

\* scrapePool.sync(groups): actives are the targets with labels left after
\* relabelling.  New ones get a started loop, known ones keep theirs
\* (SetDiscoveredLabels), and the registered loops of the others are
\* stopped without waiting (t.stop(false)) and deleted.
Sync(actives) ==
  LET new     == {t \in actives : active[t] = 0}
      removed == {Registered(t) : t \in {u \in Targets \ actives : active[u] # 0}}
  IN /\ poolPc = "running"
     /\ StartLoops(new, config, client)
     /\ active' = [t \in Targets |-> IF t \in new THEN inc[t] + 1
                                     ELSE IF t \in actives THEN active[t]
                                     ELSE 0]
     /\ shut' = [l \in Loops |-> IF l \in removed THEN TRUE
                                 ELSE IF l[1] \in new /\ l[2] = inc[l[1]] + 1
                                      THEN FALSE ELSE shut[l]]
     /\ UNCHANGED <<config, client, req, health, poolPc, waitFor, lastReload>>

\* scrapePool.reload(cfg), first branch: the scrape settings are unchanged,
\* only tg.config is replaced.
ReloadSame(cfg) ==
  /\ poolPc = "running"
  /\ Settings[cfg] = Settings[config]
  /\ config' = cfg
  /\ lastReload' = "ok"
  /\ UNCHANGED <<active, inc, client, lpc, shut, lcfg, lclient, req, health,
                 poolPc, waitFor>>

\* reload(cfg) with changed settings whose client cannot be built:
\* tg.config is already replaced, the client and the loops are not.
ReloadClientError(cfg) ==
  /\ poolPc = "running"
  /\ Settings[cfg] # Settings[config]
  /\ config' = cfg
  /\ lastReload' = "err"
  /\ UNCHANGED <<active, inc, client, lpc, shut, lcfg, lclient, req, health,
                 poolPc, waitFor>>

\* Mutant of ReloadRestart: the new client is installed but the loops
\* are not restarted.
ReloadNoRestart(cfg) ==
  /\ poolPc = "running"
  /\ Settings[cfg] # Settings[config]
  /\ config' = cfg
  /\ client' = cfg
  /\ lastReload' = "ok"
  /\ UNCHANGED <<active, inc, lpc, shut, lcfg, lclient, req, health, poolPc,
                 waitFor>>

\* reload(cfg) with changed settings and a new client: every registered
\* loop is stopped without waiting and replaced by a new, started loop for
\* its target.
ReloadRestart(cfg) ==
  LET ts  == {t \in Targets : active[t] # 0}
      old == {Registered(t) : t \in ts}
  IN /\ poolPc = "running"
     /\ Settings[cfg] # Settings[config]
     /\ config' = cfg
     /\ client' = cfg
     /\ StartLoops(ts, cfg, cfg)
     /\ active' = [t \in Targets |-> IF t \in ts THEN inc[t] + 1 ELSE 0]
     /\ shut' = [l \in Loops |-> IF l \in old THEN TRUE
                                 ELSE IF l[1] \in ts /\ l[2] = inc[l[1]] + 1
                                      THEN FALSE ELSE shut[l]]
     /\ lastReload' = "ok"
     /\ UNCHANGED <<req, health, poolPc, waitFor>>

\* Mutant of StopBegin: stop waits for the loops without closing their
\* graceShut.
StopBeginNoClose ==
  LET regs == {Registered(t) : t \in {u \in Targets : active[u] # 0}}
  IN /\ poolPc = "running"
     /\ poolPc' = "stopping"
     /\ waitFor' = regs
     /\ UNCHANGED <<active, inc, config, client, lpc, shut, lcfg, lclient, req,
                    health, lastReload>>

\* scrapePool.stop, up to wg.Wait: one goroutine per registered loop
\* closes its graceShut (t.stop(true)).
StopBegin ==
  LET regs == {Registered(t) : t \in {u \in Targets : active[u] # 0}}
  IN /\ poolPc = "running"
     /\ poolPc' = "stopping"
     /\ waitFor' = regs
     /\ shut' = [l \in Loops |-> IF l \in regs THEN TRUE ELSE shut[l]]
     /\ UNCHANGED <<active, inc, config, client, lpc, lcfg, lclient, req,
                    health, lastReload>>

\* Mutant of StopEnd: stop returns without waiting (t.stop(false)).
StopEndNoWait ==
  /\ poolPc = "stopping"
  /\ poolPc' = "stopped"
  /\ UNCHANGED <<active, inc, config, client, lpc, shut, lcfg, lclient, req,
                 health, waitFor, lastReload>>

\* wg.Wait returns once every waited-for loop has exited; stop unlocks.
StopEnd ==
  /\ poolPc = "stopping"
  /\ \A l \in waitFor : lpc[l] = "exited"
  /\ poolPc' = "stopped"
  /\ UNCHANGED <<active, inc, config, client, lpc, shut, lcfg, lclient, req,
                 health, waitFor, lastReload>>

-----------------------------------------------------------------------------
(* The scrape-loop goroutine (scrapeLoop.start, scrape, updateTargetStatus)*)

LoopStep(l, from, to) ==
  /\ lpc[l] = from
  /\ lpc' = [lpc EXCEPT ![l] = to]

\* The first select: the offset timer fires.
OffsetElapsed(l) ==
  /\ LoopStep(l, "offset", "idle")
  /\ UNCHANGED <<active, inc, config, client, shut, lcfg, lclient, req,
                 health, poolPc, waitFor, lastReload>>

\* The first select: graceShut is closed, the goroutine returns.
OffsetShut(l) ==
  /\ shut[l]
  /\ LoopStep(l, "offset", "exited")
  /\ UNCHANGED <<active, inc, config, client, shut, lcfg, lclient, req,
                 health, poolPc, waitFor, lastReload>>

\* The ticker fires and the loop calls scrape.  Go's select picks among
\* ready cases at random, so a tick may win even once graceShut is closed.
Tick(l) ==
  /\ LoopStep(l, "idle", "fetch")
  /\ UNCHANGED <<active, inc, config, client, shut, lcfg, lclient, req,
                 health, poolPc, waitFor, lastReload>>

\* Mutant of Exit: the ticker select has no graceShut case.
ExitNoShutCase(l) == FALSE

\* The ticker select takes graceShut: the goroutine returns.
Exit(l) ==
  /\ shut[l]
  /\ LoopStep(l, "idle", "exited")
  /\ UNCHANGED <<active, inc, config, client, shut, lcfg, lclient, req,
                 health, poolPc, waitFor, lastReload>>

\* updateTargetStatus writes the health of the loop's (shared) Target.
SetHealth(l, h) == health' = [health EXCEPT ![l[1]] = h]

\* scrape, first call (t.req == nil): http.NewRequest fails.
FetchBadRequest(l) ==
  /\ req[l] = 0
  /\ LoopStep(l, "fetch", "idle")
  /\ SetHealth(l, "bad")
  /\ UNCHANGED <<active, inc, config, client, shut, lcfg, lclient, req,
                 poolPc, waitFor, lastReload>>

\* scrape, first call: t.req is set and the probes are tried in order;
\* k is the first probe whose fetch succeeds (every earlier one failed and
\* wrote HealthBad).  t.req keeps pointing at probe k.
FetchProbe(l, k) ==
  /\ req[l] = 0
  /\ LoopStep(l, "fetch", "push")
  /\ req' = [req EXCEPT ![l] = k]
  /\ IF k > 1 THEN SetHealth(l, "bad") ELSE UNCHANGED health
  /\ UNCHANGED <<active, inc, config, client, shut, lcfg, lclient, poolPc,
                 waitFor, lastReload>>

\* Mutant of FetchAllProbesFail: t.req is left one past the last probe.
FetchAllProbesFailPastEnd(l) ==
  /\ req[l] = 0
  /\ LoopStep(l, "fetch", "idle")
  /\ req' = [req EXCEPT ![l] = NumProbes + 1]
  /\ SetHealth(l, "bad")
  /\ UNCHANGED <<active, inc, config, client, shut, lcfg, lclient, poolPc,
                 waitFor, lastReload>>

\* scrape, first call: every probe fails; buf is nil and scrape returns,
\* leaving t.req at the last probe for every later scrape.
FetchAllProbesFail(l) ==
  /\ req[l] = 0
  /\ LoopStep(l, "fetch", "idle")
  /\ req' = [req EXCEPT ![l] = NumProbes]
  /\ SetHealth(l, "bad")
  /\ UNCHANGED <<active, inc, config, client, shut, lcfg, lclient, poolPc,
                 waitFor, lastReload>>

\* scrape, later calls: fetchProfile on the cached t.req.
FetchCached(l, ok) ==
  /\ req[l] # 0
  /\ LoopStep(l, "fetch", IF ok THEN "push" ELSE "idle")
  /\ IF ok THEN UNCHANGED health ELSE SetHealth(l, "bad")
  /\ UNCHANGED <<active, inc, config, client, shut, lcfg, lclient, req,
                 poolPc, waitFor, lastReload>>

\* appender.Append of the fetched profile, then updateTargetStatus.
Push(l, ok) ==
  /\ LoopStep(l, "push", "idle")
  /\ SetHealth(l, IF ok THEN "good" ELSE "bad")
  /\ UNCHANGED <<active, inc, config, client, shut, lcfg, lclient, req,
                 poolPc, waitFor, lastReload>>

-----------------------------------------------------------------------------
PoolNext ==
  \/ \E actives \in SUBSET Targets : Sync(actives)
  \/ \E cfg \in Configs :
       ReloadSame(cfg) \/ ReloadClientError(cfg) \/ ReloadRestart(cfg)
  \/ StopBegin
  \/ StopEnd

LoopNext(l) ==
  \/ OffsetElapsed(l)
  \/ OffsetShut(l)
  \/ Tick(l)
  \/ Exit(l)
  \/ FetchBadRequest(l)
  \/ \E k \in 1 .. NumProbes : FetchProbe(l, k)
  \/ FetchAllProbesFail(l)
  \/ \E ok \in BOOLEAN : FetchCached(l, ok)
  \/ \E ok \in BOOLEAN : Push(l, ok)

Next == PoolNext \/ \E l \in Loops : LoopNext(l)

(* Goroutines are scheduled, timers fire and HTTP requests end (scrapeCtx *)
(* has a timeout): every loop step is weakly fair.  Exit is strongly fair: *)
(* Go's select chooses uniformly among ready cases, so a loop that keeps   *)
(* coming back to the select with graceShut closed eventually takes it.    *)
(* stop's wg.Wait returns once it can.  sync, reload and the start of     *)
(* stop are the component's calls and need not happen.                    *)
Fairness ==
  /\ \A l \in Loops : WF_vars(LoopNext(l))
  /\ \A l \in Loops : SF_vars(Exit(l))
  /\ WF_vars(StopEnd)

Spec == Init /\ [][Next]_vars /\ Fairness

-----------------------------------------------------------------------------
TypeOK ==
  /\ active \in [Targets -> 0 .. MaxIncarnations]
  /\ inc \in [Targets -> 0 .. MaxIncarnations]
  /\ config \in Configs
  /\ client \in Configs
  /\ lpc \in [Loops -> LoopPcs]
  /\ shut \in [Loops -> BOOLEAN]
  /\ lcfg \in [Loops -> {Settings[c] : c \in Configs}]
  /\ lclient \in [Loops -> {Settings[c] : c \in Configs}]
  /\ req \in [Loops -> 0 .. NumProbes]
  /\ health \in [Targets -> {"unknown", "good", "bad"}]
  /\ poolPc \in {"running", "stopping", "stopped"}
  /\ waitFor \in SUBSET Loops
  /\ lastReload \in {"none", "ok", "err"}

(* No scrape loop runs on unsupervised: a loop goroutine whose graceShut  *)
(* is still open is the loop registered in activeTargets for its target.  *)
(* sync's removal pass and reload's restart must stop every loop they     *)
(* drop or replace, or a target is scraped twice and the orphan can never *)
(* be stopped.                                                             *)
NoOrphanLoop ==
  \A l \in Loops :
    lpc[l] \in Running /\ ~shut[l] => active[l[1]] = l[2]

(* Every registered loop runs with the client the pool currently holds:   *)
(* a reload that builds a new client restarts every loop with it.         *)
RegisteredLoopsUseClient ==
  \A t \in Targets :
    active[t] # 0 => lclient[Registered(t)] = Settings[client]

(* Once stop has returned, every loop still registered in activeTargets   *)
(* has exited: stop waits for each one (t.stop(true), wg.Wait).            *)
StoppedPoolRegisteredExited ==
  poolPc = "stopped" =>
    \A t \in Targets : active[t] # 0 => lpc[Registered(t)] = "exited"

(* After stop has returned, no scrape loop goroutine of the pool is left *)
(* running: stop calls t.stop(true) to wait for the loops.  Loops that    *)
(* sync dropped or reload replaced were stopped with t.stop(false) and    *)
(* are no longer in activeTargets, so stop does not wait for them.        *)
StoppedPoolQuiescent ==
  poolPc = "stopped" => \A l \in Loops : lpc[l] \notin Running

(* When reload returned nil, every running registered loop scrapes with   *)
(* the interval, timeout and HTTP client settings of the config it was   *)
(* given.  After a reload whose client failed to build, tg.config already *)
(* holds the new Arguments, so reloading the same Arguments again takes   *)
(* the "unchanged" branch and returns nil with the old loops in place.    *)
ReloadNilMeansApplied ==
  lastReload = "ok" =>
    \A t \in Targets :
      active[t] # 0 /\ lpc[Registered(t)] \in Running =>
        /\ lcfg[Registered(t)] = Settings[config]
        /\ lclient[Registered(t)] = Settings[config]

(* Every scrape loop whose graceShut has been closed, by sync, reload or  *)
(* stop, eventually returns, even though its select may keep choosing the *)
(* ticker for a while.                                                     *)
SignalledLoopsExit ==
  \A l \in Loops : shut[l] ~> lpc[l] = "exited"

(* A call of stop eventually returns.                                     *)
StopReturns ==
  poolPc = "stopping" ~> poolPc = "stopped"

-----------------------------------------------------------------------------
(* The refinement mapping onto ScrapePoolAbstract: the registered targets *)
(* are the keys of activeTargets, the pool's settings those of its        *)
(* scrapeClient, a registered target's scraper its registered loop, which  *)
(* runs until that loop's goroutine has returned.  Loops that are no      *)
(* longer registered are not part of what the pool promises.              *)
RegisteredTargets == {t \in Targets : active[t] # 0}

Abs == INSTANCE ScrapePoolAbstract WITH
         Values   <- {Settings[c] : c \in Configs},
         targets  <- RegisteredTargets,
         applied  <- Settings[client],
         loops    <- [t \in RegisteredTargets |-> lclient[Registered(t)]],
         scraping <- {t \in RegisteredTargets : lpc[Registered(t)] # "exited"},
         state    <- poolPc

(* The pool implements its abstract promise: sync, reload and stop act on *)
(* the registered targets as ScrapePoolAbstract says, every step of a     *)
(* loop goroutine is invisible to it or ends a registered scraper during  *)
(* stop, and under the goroutines' fairness those scrapers do end.        *)
ScrapePoolRefinesAbstract == Abs!ASpec

=============================================================================
