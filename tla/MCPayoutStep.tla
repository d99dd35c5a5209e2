----------------------------- MODULE MCPayoutStep -----------------------------
(* A small instance of PayoutStep.  r1 and r2 are two rigs of one address, *)
(* m is a miner of another, x a key without an address.                    *)
EXTENDS PayoutStep, TLC

CONSTANTS r1, r2, m, x, addr, other, junk

RigAddress == (r1 :> addr) @@ (r2 :> addr) @@ (m :> other) @@ (x :> junk)

(* <<balance, reward>> in thousandths of the minimum payment. *)
MixedDebts == { <<0, 0>>, <<0, 1500>>, <<700, 800>>, <<1000, 2500>> }
=============================================================================
