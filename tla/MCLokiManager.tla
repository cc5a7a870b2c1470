---------------------------- MODULE MCLokiManager ---------------------------
(* Model of LokiManager for TLC: two clients, three entries.              *)
EXTENDS LokiManager, TLC

CONSTANTS e1, e2, e3, n1, n2

MCEntries == {e1, e2, e3}
MCNames == {n1, n2}
=============================================================================
