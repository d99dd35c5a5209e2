----------------------------- MODULE MCReconcile -----------------------------
(* Small instances of Reconcile: two heights, two blocks at one of them.   *)
EXTENDS Reconcile, TLC

CONSTANTS w1, w2, b1, b2, b3

TwoHeights == (b1 :> 101) @@ (b2 :> 101) @@ (b3 :> 102)
Finders    == (b1 :> w1) @@ (b2 :> w1) @@ (b3 :> w2)

Split(a, b)   == (w1 :> a) @@ (w2 :> b)
SharedRewards == { Split(1, 0), Split(0, 2) }  \* shares of 2:1 and of 0:1
=============================================================================
