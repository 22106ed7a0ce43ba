--------------------------- MODULE MCCoordinator ----------------------------
(***************************************************************************)
(* Two coordinators compete for a scope in which one workload spends from  *)
(* a shared bucket and a concurrency bucket.                               *)
(***************************************************************************)
EXTENDS Coordinator, TLC

CONSTANTS i1, i2, w, g, r1, r2, a1, requests, slots

\* The second coordinator has a newer policy with a smaller budget.
MCEpoch == (i1 :> 1) @@ (i2 :> 2)
MCLimit == (i1 :> ((requests :> 3) @@ (slots :> 2))) @@ (i2 :> ((requests :> 2) @@ (slots :> 2)))
MCParent == (w :> None)
MCHolder == (g :> w)
MCAncestry == (g :> {g})
MCGrantEnds == (g :> 2)
MCGrantOf == (r1 :> g) @@ (r2 :> g)
MCActionOf == (r1 :> a1) @@ (r2 :> a1)
MCScope == [r \in {r1, r2} |-> {requests, slots}]
MCCost == (r1 :> ((requests :> 2) @@ (slots :> 1))) @@ (r2 :> ((requests :> 1) @@ (slots :> 1)))
=============================================================================
