----------------------------- MODULE MCOrphanSync -----------------------------
(* A small tree of blocks: heights 101 to 105, two branches from 102 and a *)
(* third from 103; a transaction that is in blocks of two branches.        *)
EXTENDS OrphanSync, TLC

CONSTANTS t1, a2, a3, a4, a5, b2, b3, b4, b5, d3, d4, d5, shared

Heights ==
    (t1 :> 101) @@ (a2 :> 102) @@ (a3 :> 103) @@ (a4 :> 104) @@ (a5 :> 105)
      @@ (b2 :> 102) @@ (b3 :> 103) @@ (b4 :> 104) @@ (b5 :> 105)
      @@ (d3 :> 103) @@ (d4 :> 104) @@ (d5 :> 105)

Branches == { {t1, a2, a3, a4, a5}, {t1, b2, b3, b4, b5}, {t1, b2, d3, d4, d5} }

Chains ==
    [b \in Blocks |-> LET branch == CHOOSE s \in Branches : b \in s
                      IN  { a \in branch : Heights[a] <= Heights[b] }]

(* A coinbase each, named like its block. *)
Transactions == [b \in Blocks |-> IF b \in {a2, b3} THEN {b, shared} ELSE {b}]
=============================================================================
