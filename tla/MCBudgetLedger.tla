--------------------------- MODULE MCBudgetLedger ---------------------------
EXTENDS BudgetLedger, TLC
CONSTANTS l1, l2, r1, r2, k1, k2, c1, c2, tenant, slots, requests, concurrency

MCMetric == (tenant :> requests) @@ (slots :> concurrency)
MCScope == (c1 :> {tenant, slots}) @@ (c2 :> {tenant})
MCEpoch == (l1 :> 1) @@ (l2 :> 2)
MCMaximum == (l1 :> ((tenant :> 3) @@ (slots :> 1))) @@ (l2 :> ((tenant :> 2) @@ (slots :> 1)))
MCCosts == {(requests :> n) @@ (concurrency :> 1) : n \in 1..2}
Symmetry == Permutations({r1, r2}) \cup Permutations({k1, k2})
=============================================================================
