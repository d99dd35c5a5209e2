---------------------------- MODULE MCStratumPool ----------------------------
(* Small instances of StratumPool: two daemons, without auxiliary chains.  *)
EXTENDS StratumPool

CONSTANTS d1, d2, s1, s2, c1, c2

=============================================================================
