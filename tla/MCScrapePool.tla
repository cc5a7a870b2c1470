---------------------------- MODULE MCScrapePool ----------------------------
(* Model of ScrapePool for TLC: one model-value target, two configurations   *)
(* with different scrape settings, two godeltaprof probes.                 *)
EXTENDS ScrapePool, TLC

CONSTANTS t1, c1, c2

MCTargets1 == {t1}
MCConfigs == {c1, c2}
MCSettings == [c \in MCConfigs |-> IF c = c1 THEN "s1" ELSE "s2"]

=============================================================================
