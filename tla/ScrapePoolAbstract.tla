------------------------- MODULE ScrapePoolAbstract -------------------------
(***************************************************************************)
(* What a pyroscope scrape pool promises its component: it scrapes the   *)
(* targets that the last sync registered, each with the settings of the   *)
(* pool's current HTTP client; a reload that installs a new client moves   *)
(* every registered target onto it; and stop returns only once the        *)
(* scraper of every registered target has ended.                          *)
(***************************************************************************)
CONSTANTS
  Targets,     \* the targets discovery may hand to sync
  Values       \* the scrape settings a client may be built from

VARIABLES
  targets,     \* the registered targets
  applied,     \* the settings of the pool's client
  loops,       \* registered target -> settings its scraper uses
  scraping,    \* registered targets whose scraper still runs
  state        \* "running", "stopping", "stopped"

avars == <<targets, applied, loops, scraping, state>>

AInit ==
  /\ targets = {}
  /\ applied \in Values
  /\ loops = [t \in {} |-> applied]
  /\ scraping = {}
  /\ state = "running"

(* The registered set changes: new targets are scraped with the current  *)
(* settings, kept ones keep their scraper, dropped ones are forgotten.    *)
ASync(ts) ==
  /\ state = "running"
  /\ targets' = ts
  /\ loops' = [t \in ts |-> IF t \in targets THEN loops[t] ELSE applied]
  /\ scraping' = ts
  /\ UNCHANGED <<applied, state>>

(* A new client is installed and every registered target moves to it.   *)
AReload(v) ==
  /\ state = "running"
  /\ applied' = v
  /\ loops' = [t \in targets |-> v]
  /\ UNCHANGED <<targets, scraping, state>>

AStopBegin ==
  /\ state = "running"
  /\ state' = "stopping"
  /\ UNCHANGED <<targets, applied, loops, scraping>>

(* The scraper of a registered target ends once stop has begun.          *)
AScraperExit(t) ==
  /\ state = "stopping"
  /\ t \in scraping
  /\ scraping' = scraping \ {t}
  /\ UNCHANGED <<targets, applied, loops, state>>

AStopEnd ==
  /\ state = "stopping"
  /\ scraping = {}
  /\ state' = "stopped"
  /\ UNCHANGED <<targets, applied, loops, scraping>>

ANext ==
  \/ \E ts \in SUBSET Targets : ASync(ts)
  \/ \E v \in Values : AReload(v)
  \/ AStopBegin
  \/ \E t \in Targets : AScraperExit(t)
  \/ AStopEnd

(* Once stop has begun, the scrapers end and stop returns.               *)
AFairness ==
  /\ \A t \in Targets : WF_avars(AScraperExit(t))
  /\ WF_avars(AStopEnd)

ASpec == AInit /\ [][ANext]_avars /\ AFairness

=============================================================================
