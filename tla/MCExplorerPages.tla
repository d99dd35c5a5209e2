--------------------------- MODULE MCExplorerPages ---------------------------
(* A small instance of ExplorerPages: two addresses on the lists, one of   *)
(* them overtaken; coins that are burned, one address that is hidden.      *)
EXTENDS ExplorerPages, TLC

CONSTANTS a, b, c, burn, hidden

At(na, nb, nc, nburn, nhidden) ==
    (a :> na) @@ (b :> nb) @@ (c :> nc) @@ (burn :> nburn) @@ (hidden :> nhidden)

MCBalance  == (0 :> At(0, 0, 0, 0, 0)) @@ (1 :> At(9, 1, 0, 0, 0))
              @@ (2 :> At(1, 3, 2, 8, 2))
MCReceived == (0 :> At(0, 0, 0, 0, 0)) @@ (1 :> At(9, 1, 0, 0, 0))
              @@ (2 :> At(9, 12, 2, 8, 6))

MCSettings == {[counted |-> TRUE,  records |-> 1],
               [counted |-> FALSE, records |-> 0]}
=============================================================================
