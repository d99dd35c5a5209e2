---------------------------- MODULE MCMergedMining ----------------------------
(* Small instances of MergedMining: one daemon, two auxiliary chains.      *)
EXTENDS MergedMining, TLC

CONSTANTS d1, a1, a2, s1, c1, u1, u2

TwoWorks   == 1 .. 2
FirstMoves == (a1 :> 2) @@ (a2 :> 1)
=============================================================================
