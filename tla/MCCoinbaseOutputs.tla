-------------------------- MODULE MCCoinbaseOutputs --------------------------
(* Small instances of CoinbaseOutputs: values around the multiples of five *)
(* and of a hundred, every mixture of parts, fees of up to 100 percent.    *)
EXTENDS CoinbaseOutputs, TLC

CONSTANTS node, fund, seller, opA, opB, opC

Parts(who, amounts) == {<<>>} \cup {<<Output(who, n)>> : n \in amounts}
                              \cup {<<Output(who, n), Output(who, 1)>> : n \in amounts}

MCTemplates ==
    [coinbasevalue : {10, 11, 100, 103}, masternode : Parts(node, {0, 3}),
     superblock : Parts(fund, {2}), payee : {seller, NoPayee},
     payee_amount : {0, 4}]

Fee(who, percent) == [to |-> who, percent |-> percent]
MCFees ==
    {<<>>} \cup {<<Fee(opA, p)>> : p \in {1, 50, 100}}
          \cup {<<Fee(opA, p), Fee(opC, 100 - p)>> : p \in {0, 33, 50}}
          \cup {<<Fee(opB, 5), Fee(opA, 2), Fee(opC, 3)>>}
=============================================================================
