--------------------------- MODULE MCSubscription ---------------------------
EXTENDS Subscription, TLC
CONSTANTS gold, silver, plain, plus, vip, pro, q1, m1, n1, n2
MCPlans == {gold, silver}
MCEdit == {silver}
MCPlanOf == <<gold, silver>>
MCUpgrade == (gold :> vip) @@ (silver :> pro)
MCDowngrade == (gold :> plain) @@ (silver :> plus)
MCLimit == (gold :> 0) @@ (silver :> 1)
MCRequests == {q1}
MCMasters == {m1}
MCNodes == {n1, n2}
MCAmounts == {2}
MCActuals == {2, 4}
=============================================================================
