---------------------------- MODULE MCXrayMetrics ---------------------------
(* Model of XrayMetrics for TLC: two scrapers appending to two series,    *)
(* two debug requests, every endpoint.                                     *)
EXTENDS XrayMetrics, TLC

CONSTANTS s1, s2, a1, a2, r1, r2

MCSeries == {s1, s2}
MCAppenders == {a1, a2}
MCRequests == {r1, r2}
MCEndpoints == {"debug", "summary", "details", "clear"}

MCSymmetry == Permutations(MCAppenders) \cup Permutations(MCRequests)
=============================================================================
