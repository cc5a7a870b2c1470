# TLA+ models of the agent's concurrent components

This directory holds TLA+ specifications of the parts of this repository
(`src/`) that have concurrent state: the pyroscope scrape pool, the
xray.metrics series cache and the loki client Manager. It also holds the TLC
configurations that model-check them, an abstract specification of the scrape
pool with the refinement that the pool implements it, and TLAPS proofs about
all three components.
`PROJECT.json` lists every component, run, mutant, source mapping, finding,
hazard and theorem.

## 1. Inventory

| Component | Source | State | Operations | Concurrency |
|---|---|---|---|---|
| Scrape pool | `src/unnamed/part_014` 42-343 | `config`, `scrapeClient`, `activeTargets` (hash → loop), `droppedTargets`, `mtx` | `sync`, `reload`, `stop`, `ActiveTargets`, `DroppedTargets` | Called from the component's goroutine under `tg.mtx` |
| Scrape loop | same file, 174-343 | `graceShut`, `once`, `wg`, `req` (cached request), `appender`, `lastScrapeSize`; the shared `Target`'s health | `start` (offset select, ticker select), `scrape` (probes, cached fetch, push), `updateTargetStatus`, `stop(wait)` | One goroutine per loop; the pool signals it by closing `graceShut` |
| PID analyzer | same file, 344-406 | none | file parsing | none |
| xray.metrics cache | `src/component/xray/metrics/metrics.go` | `allSeries`, `cacheMut` (RWMutex), `exited` | append hook, `Run`, `DebugInfo`, `/summary`, `/details`, `/clear` | Every scraper that forwards to the receiver, plus HTTP handler goroutines |
| loki client Manager | `src/component/common/loki/client/manager.go` | `entries` (unbuffered channel), `once`, `wg`, `clients`, `walWatchers` | `NewManager`, `Chan`, forward or consume goroutine, `Stop`, `StopNow` | Pipeline senders, the manager's goroutine, the callers of Stop and StopNow |
| Declare, GlobalContext | `part_000`, `part_005` | one struct each | constructors | none |
| Configs, fixtures, helm, UI | the remaining files | data | — | — |

How the parts interact:

- The scrape pool creates and signals loops. Each loop writes the health of
  its `Target`.
- A dropped or replaced loop and its successor share that `Target`.
- The xray cache is written by the appenders of every scrape pipeline and
  read by the HTTP handlers.
- The loki Manager sits between the log pipeline (the senders) and the remote
  write clients.

These are the hard behaviours, each with the property that addresses it:

- **Loops that outlive their registration.** `sync` and `reload` call
  `t.stop(false)`, which does not wait. `stop` waits only for the loops it can
  still see.
  - Properties: `NoOrphanLoop`, `StoppedPoolRegisteredExited`,
    `StoppedPoolQuiescent`.
- **A half-applied reload.** `tg.config` is assigned before the client can fail
  to build.
  - Property: `ReloadNilMeansApplied`. `RegisteredLoopsUseClient` cannot see
    it, because a failed reload leaves `client` as it was.
- **Go's random `select`.** A closed `graceShut` competes with a ready tick.
  - Properties: `SignalledLoopsExit`, `StopReturns`.
- **An unlocked map read.** The `/summary` and `/details` handlers range over
  `allSeries` without `cacheMut`.
  - Properties: `LockedAccessExclusive`, `NoMapRace`.
- **Shutdown order in the loki Manager.** `Stop` closes the channel, waits,
  then stops the clients. `StopNow` stops the clients with the fan-out still
  running, before `Stop` or while `Stop` waits.
  - Properties: `StopDeliversAll`, `StopReturns`, `NoSendToStoppedClient`,
    `StopAlwaysReturns`.
- **Error returns of a half-built manager.** `NewManager` starts each WAL
  watcher or client as it builds it, and returns an error partway through.
  - Property: `FailedNewLeavesNothingRunning`.
- **A check separated from its act.** The xray append hook checks `exited`
  before it takes `cacheMut`.
  - Property: `NoAppendAfterExit`.

Section "hazards" of `PROJECT.json` places each hazard at its source line.

## 2. Modules

### ScrapePool.tla: the scrape pool and its loops

A loop is identified by `<<target, incarnation>>`. `inc[t]` counts the loops
created for target `t`, and `active[t]` is the incarnation registered in
`activeTargets` (0 for none). This stands in for the hash → `*scrapeLoop` map
without ordering the loops.

The per-loop state is:

- `lpc`: the goroutine's position: `unused`, `offset` (first select), `idle`
  (ticker select), `fetch`, `push`, `exited`;
- `shut`: `graceShut` is closed;
- `lcfg`, `lclient`: the interval/timeout and the client the loop was built
  with, kept as the `Settings` class of a config;
- `req`: the probe that the cached `t.req` points at (0 for nil).

The pool's state is:

- `config`, `client`: the `Arguments` value and the config the
  `scrapeClient` was built from;
- `poolPc`, `waitFor`: `stop` in progress and the loops its goroutines wait
  for;
- `lastReload`: the result of the last reload;
- `health`: each Target's health.

Actions follow the code:

- `Sync(actives)`: the whole of `sync`. New targets get a started loop through
  `StartLoops` (`newScrapeLoop` + `start`). Dropped targets have their loop
  signalled and deleted.
- `ReloadSame`, `ReloadClientError`, `ReloadRestart`: the three exits of
  `reload`.
- `StopBegin` and `StopEnd`: `stop` up to, and after, `wg.Wait`.
- Each loop has `OffsetElapsed`/`OffsetShut` for the first select,
  `Tick`/`Exit` for the ticker select, `FetchBadRequest`, `FetchProbe(k)` and
  `FetchAllProbesFail` for the first scrape, `FetchCached` for later ones, and
  `Push`.

`Sync` and the `Reload*` actions require `poolPc = "running"`. The code does
not check this (lines 69-71, 113-115); it is a contract of the callers, which
are outside `src/`: the component calls `stop` once, when it ends, and does
not call `sync` or `reload` after that. Without the guard, a `sync` after
`stop` would start loops nobody waits for.
- The HTTP fetch and the append succeed or fail nondeterministically.
- `SetHealth` is `updateTargetStatus`.

### XrayMetrics.tla: the series cache

`keys` is the key set of `allSeries`. `writer` and `rlocks` are the holders of
`cacheMut`. `apc` and `rpc` are the positions of appender and request
goroutines.

- The append hook is split at its three interleaving points: the `exited`
  check, `Lock`, and the write + `Unlock`.
- A request is one of the four endpoints. `DebugInfo` takes `RLock`, `/clear`
  takes `Lock`, and `/summary` and `/details` take nothing, exactly as in the
  handlers.

### ScrapePoolAbstract.tla: what the pool promises

The state is the set of registered `targets`, the settings `applied` of the
pool's client, the settings each registered target is scraped with (`loops`),
the targets whose scraper still runs (`scraping`), and `state`. `ASync`,
`AReload`, `AStopBegin`, `AScraperExit` and `AStopEnd` are its steps. Its
fairness says that once stop has begun the scrapers end and stop returns.

`ScrapePool.tla` ends with the mapping `Abs`:

- the registered targets are the keys of `activeTargets`;
- `applied` is the settings of `scrapeClient`;
- a target's scraper is its registered loop, which runs until that loop's
  goroutine returns.

Loops that are no longer registered are hidden. `ScrapePoolRefinesAbstract ==
Abs!ASpec` states the refinement, fairness included.

### LokiManager.tla: the loki client Manager

The state is:

- `made`, `names`, `bi`: `NewManager`'s loop. These are the configs whose
  client or watcher is started, the client names seen (`clientsCheck`), and
  the next config;
- `sending`: sends on `Chan()` in progress;
- `sent`: entries received by the manager's goroutine;
- `fpc`, `cur`, `idx`: the goroutine's position (range, fan-out to client
  `idx`, done);
- `delivered`, `cstopped`: the clients (or the WAL watchers);
- `mpc`: `building`, `failed` (NewManager returned an error), `running`, or
  where `Stop` is;
- `stopNow`.

The actions are:

- `BuildWatcher`: one WAL iteration. `NewQueue` fails, or a watcher is
  started.
- `BuildClient(nm)`: one non-WAL iteration. `New` fails; or the client is
  started (`New` starts its goroutine) and then rejected when its name `nm`
  was seen; or it is kept.
- `Built`: the manager is assembled and its goroutine started.

`wal` selects `startWithConsume` (discard) or `startWithForward`. A client is
outside `src/`: it takes entries until it is stopped, and a send to a stopped
client never completes. `Names` is the set of client names the configs may
carry.

`StopClose` and `StopClients` are `Stop` before and after `wg.Wait`.
`StopClose` requires that no send on `Chan()` is in progress. This is the
contract of `Stop`'s callers: a send after `close` panics. `StopNow` may come
while the Manager runs or while `Stop` waits in `wg.Wait`, because nothing in
the code orders the two calls. A second `StopNow`, or one after `Stop` has
returned, finds every client stopped, and it is not modelled. A repeated
`Stop` (the `once`) is not modelled either.

### LokiManagerAbstract.tla: what the Manager promises

The abstract state is:

- `discard`: the WAL is on;
- `started`: the clients started;
- `accepted`: the entries taken;
- `got[c]`: the entries handed to client `c`;
- `halted[c]`: client `c` has been stopped;
- `astate`: where the Manager is.

Without the WAL, `AAccept` takes an entry only when every entry taken before
is with every client (`AllDelivered`). `ADeliver` hands an entry only to a
client that is not halted. `AStop` returns only when all entries are
delivered, and then halts every client. `AHaltNow` halts the clients at once, while running or waiting.
The mapping `AbsL` in `LokiManager.tla` is `wal`, `made`, `sent`,
`delivered`, `cstopped` and `mpc`. The steps map as follows:

- the channel send and the end of the range loop are stutters;
- `Receive` is `AAccept`;
- `Forward` is `ADeliver`.

## 3. Runs

| Run | Config | Checks | Result |
|---|---|---|---|
| scrape_safety | `MCScrapePool.cfg` | `TypeOK`, `NoOrphanLoop`, `RegisteredLoopsUseClient`, `StoppedPoolRegisteredExited` | pass (about 156k distinct states) |
| scrape_liveness | `MCScrapePoolLive.cfg` | `SignalledLoopsExit`, `StopReturns` | pass (about 156k states) |
| scrape_stop_quiescent | `MCScrapePool_StoppedPoolQuiescent.cfg` | `StoppedPoolQuiescent` | violation: sync drops t1, stop returns while its loop is at the offset select |
| scrape_reload_nil | `MCScrapePool_ReloadNilMeansApplied.cfg` | `ReloadNilMeansApplied` | violation: a reload fails to build the client, then the same reload returns nil with the loops unchanged |
| xray_locked | `MCXrayMetrics.cfg` | `LockedAccessExclusive` | pass |
| xray_map_race | `MCXrayMetrics_NoMapRace.cfg` | `NoMapRace` | violation: `/summary` reads while an appender writes |
| scrape_refines | `MCScrapePoolRefines.cfg` | `ScrapePoolRefinesAbstract` | pass (about 156k states) |
| xray_exit_append | `MCXrayMetrics_NoAppendAfterExit.cfg` | `NoAppendAfterExit` | violation: an append passes the `exited` check, `Run` returns, the append writes |
| loki_stop | `MCLokiManager.cfg` | `TypeOK`, `StopDeliversAll`, `StopReturns` (Stop returns unless StopNow comes first), `LokiManagerRefinesAbstract` | pass (420 states) |
| loki_stopnow_fanout | `MCLokiManager_NoSendToStoppedClient.cfg` | `NoSendToStoppedClient` | violation: StopNow during a fan-out |
| loki_stop_hang | `MCLokiManager_StopAlwaysReturns.cfg` | `StopAlwaysReturns` | violation: Stop closes the channel mid-fan-out, StopNow stops the clients while Stop is in `wg.Wait`, and Stop never returns |
| loki_new_leak | `MCLokiManager_FailedNewLeavesNothingRunning.cfg` | `FailedNewLeavesNothingRunning` | violation: client 1 is started, then config 2 fails or repeats a name, and NewManager returns an error with client 1 running |

Each property of a passing run has a mutant in `PROJECT.json`: a plausible
bug in the mapped action, such as a dropped `stop(false)`, a reload that keeps
the old loops, `stop` without the wait, a select without its `graceShut` case,
`DebugInfo` without `RLock`, or `Stop` without `wg.Wait`. TLC finds each
mutant's property violated.

### Bounds

- **Scrape pool:** one target with two incarnations, two configs with
  different settings, two probes.
  - Two incarnations are enough for every hazard above: a loop, its
    replacement, and the old loop still running beside it.
  - The target can be dropped and re-added (sync), or replaced (reload).
  - Two targets interact only through `stop`'s wait set, which one target
    already exercises. Two targets with symmetry did not finish within
    minutes.
- **xray:** two series, two appenders and two requests. This is enough for
  two writers, and for a reader racing a writer.
- **loki:** two clients, three entries and two names. The fan-out has a
  middle client, the last client wraps, and several entries queue behind it.
  Two names allow both a duplicate and distinct names, and two configs allow
  a failure after a started client.

Deadlock checking is off in the pass runs. Each system really stops: a
stopped pool, a stopped manager and a cache with no requests have nothing
left to do.

### Fairness

- **Scrape loops:** each loop's goroutine is weakly fair, because the Go
  scheduler runs runnable goroutines. The `Exit` step is strongly fair: Go's
  `select` chooses uniformly among ready cases, so a closed `graceShut` that
  is ready infinitely often is eventually chosen. `StopEnd` is weakly fair.
- **loki:** the manager's goroutine (`Receive`, `Forward`, `RangeEnd`) and
  the end of `Stop` are weakly fair.
- **Not fair:** senders, and the calls of `sync`, `reload`, `Stop` and
  `StopNow`. These need not happen.

## 4. Proofs

The theorems hold for all values of the constants under each module's
`ConstAssumption`. Each invariant was first checked by TLC as an invariant of
a run, and then proved. The proof shows `Init => IInv` and
`IInv /\ [Next]_vars => IInv'`, with one step per action.

**ScrapePoolProofs.tla.** The assumptions are a non-empty target set,
`InitConfig \in Configs`, and positive `NumProbes` and `MaxIncarnations`.

- `TypeCorrect`: `Spec => []TypeOK`. Lemmas cover `StartLoops` and the shape
  of every loop step.
- `NoOrphanLoopHolds`: `Spec => []NoOrphanLoop`. `NoOrphanLoop` alone is not
  inductive, because a `StartLoops` could reuse an incarnation that is
  already running. The inductive invariant is
  `IInv == TypeOK /\ Fresh /\ RegisteredCreated /\ NoOrphanLoop`, where:
  - `Fresh`: incarnations above `inc[t]` are unused and unsignalled;
  - `RegisteredCreated`: `active[t] <= inc[t]`.

**ScrapePoolRefinementProofs.tla.** This strengthens `IInv` to `RInv`, which
adds:

- `RegisteredLoopsUseClient`;
- `RegisteredLive`: while the pool runs, a registered loop runs with
  `graceShut` open;
- `WaitSet`: once stop has begun, `waitFor` is exactly the registered loops;
- `StoppedPoolRegisteredExited`.

`WaitSet` is what `StopEnd` needs. `RegisteredLive` is what shows that a
registered loop can exit only during stop. The theorems are:

- `RegisteredLoopsUseClientHolds`;
- `StoppedPoolRegisteredExitedHolds`;
- `RefinementSafety`: `Spec => Abs!AInit /\ [][Abs!ANext]_Abs!avars`. Under
  `RInv`, the step mapping is:
  - `Sync` is `ASync` of its argument;
  - `ReloadRestart` is `AReload`;
  - the other reload exits are stutters;
  - `StopBegin` and `StopEnd` are their abstract steps;
  - a loop step is `AScraperExit` when it ends the registered loop, and a
    stutter otherwise.

**XrayMetricsProofs.tla.** The proofs hold for any sets of series,
appenders, requests and endpoints.

- `TypeCorrect`.
- `LockedAccessExclusiveHolds`. The inductive invariant adds:
  - `WriterHolds`: a goroutine inside a write is the `Lock` holder;
  - `ReadersHold`: the `RLock` holders are exactly the `DebugInfo` calls past
    `RLock`;
  - `LockExclusive`.

  At most one writer follows from `FS_Subset` of a singleton.

**LokiManagerProofs.tla.** The proofs hold for any number of clients and any
sets of entries and names.

- `TypeCorrect`.
- `StopDeliversAllHolds`. The inductive invariant adds:
  - `Delivery`: without the WAL, a received entry is with every client, or it
    is the entry being fanned out and is with the clients before `idx`;
  - `StoppedDone`: `Stop` returned only after the goroutine left its range.
- `LokiManagerRefinement`: `Spec => LokiManagerRefinesAbstract`. The
  abstract spec has no fairness, so all of it is proved. The inductive
  invariant `RInv` adds:
  - `SendingRunning`: sends are in flight only while the Manager runs;
  - `FanoutCur`: the entry being fanned out was received, and there is no
    WAL;
  - `InFlightNew`: an entry on the channel has not been received yet.

  `InFlightNew` is what makes `Receive` an `AAccept` of a new entry.
  `Delivery`, with `fpc # "fanout"`, gives `AllDelivered`
  (`NotFanoutAllDelivered`). The step mapping is:
  - `BuildWatcher` and `BuildClient` are `AStart` or `AFail`;
  - `Built` is `ARun`;
  - `StopClose`, `StopClients` and `StopNow` are `AClose`, `AStop` and
    `AHaltNow`.

Some things stay with TLC and are not proved:

- the liveness properties, and the fairness part of
  `ScrapePoolRefinesAbstract`, because TLAPS does not handle fairness or
  ENABLED;
- the violation runs, whose counterexamples TLC gives.

## 5. Not modelled

- **PID analyzer:** pure parsing and I/O.
- **Declare / GlobalContext:** data with no behaviour.
- **River/YAML configs, fixtures, Helm charts, UI and tests:** data, not
  behaviour.
- **`ActiveTargets` / `DroppedTargets`:** readers under `RLock`; they change
  nothing.
- **`droppedTargets`:** not modelled.
- **The xray `Update`:** a no-op.
- **The loki clients and WAL watchers** (`New`, `NewQueue`, `wal.Watcher`):
  these are outside `src/`. A client is modelled by what the Manager relies
  on: it takes entries until it is stopped.
- **`notifier.SubscribeCleanup` and `SubscribeWrite`:** these are outside
  `src/`, and no property concerns them.

## 6. Plan for the next sittings

1. Add a property on `t.req` caching after a failed first scrape, and one on
   which loop's health a Target shows after a reload. Decide each from the
   code's tests.
2. Prove the fairness part of the refinement by hand from the TLC run, or
   keep it model-checked.
3. Compose the xray cache with the scrape loops' appenders.
