---------------------------- MODULE MCContainment ---------------------------
(***************************************************************************)
(* A parent workload p and its child c are fenced and recovered while work *)
(* of the child is in flight, under a grant the parent delegated to it.   *)
(***************************************************************************)
EXTENDS Coordinator, TLC

CONSTANTS i1, i2, p, c, gp, gc, r1, a1, requests

MCEpoch == (i1 :> 1) @@ (i2 :> 1)
MCLimit == [i \in {i1, i2} |-> (requests :> 1)]
MCParent == (p :> None) @@ (c :> p)
MCHolder == [x \in Grants |-> IF x = gp THEN p ELSE c]
DelegatedGrants == [x \in Grants |-> {x, gp}]
MCGrantEnds == [x \in Grants |-> 3]
MCGrantOf == (r1 :> gc)
MCActionOf == (r1 :> a1)
MCScope == (r1 :> {requests})
MCCost == (r1 :> (requests :> 1))
MCFences ==
    {[kind |-> "subtree", subject |-> p, action |-> None],
     [kind |-> "swarm", subject |-> None, action |-> None],
     [kind |-> "agent", subject |-> p, action |-> None],
     [kind |-> "action", subject |-> c, action |-> a1]}
Symmetry == Permutations({i1, i2})
=============================================================================
