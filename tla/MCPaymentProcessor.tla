------------------------- MODULE MCPaymentProcessor -------------------------
(* Small instances of PaymentProcessor.                                    *)
EXTENDS PaymentLedger, TLC

CONSTANTS w1, w2, c1, c2, b1, b2

(* Amounts in thousandths of a coin: the minimum payment is 0.5 coins, as  *)
(* the pool is set up; the other amounts are scaled down with the reward.  *)
HeightsDistinct == (b1 :> 101) @@ (b2 :> 102)
OneHeight       == (b1 :> 101)

Hash(a, b)  == (w1 :> a) @@ (w2 :> b)
TwoHashes   == { Hash(1, 0), Hash(1, 2) }
=============================================================================
