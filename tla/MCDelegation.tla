---------------------------- MODULE MCDelegation ----------------------------
(***************************************************************************)
(* Small instances of Delegation.  In one kind of behaviour two actions    *)
(* compete under grants of different terms; in the other channels,         *)
(* contexts and workloads change around a single action.                   *)
(***************************************************************************)
EXTENDS Delegation, TLC

CONSTANTS read, write, q1, q2

VARIABLE about

GrantNames == Permutations(Grants)

\* A broad grant that may be delegated twice, and a narrow short one.
Broad == [rights |-> {read, write}, life |-> 2, depth |-> 2]
Narrow == [rights |-> {read}, life |-> 1, depth |-> 2]
MCOffers == {Broad, Narrow}

\* One action needs the narrow right, the other both.
MCNeeds == [q \in Reviews |-> IF q = q1 THEN {read} ELSE {read, write}]

\* A competition leaves identities and the service alone, apart from a fence;
\* its actions end in one way each.  Rebinding leaves the clock and the terms.
Within ==
    IF about = "competition"
    THEN /\ active' = active /\ context' = context /\ available'
         /\ session' # session => generation' # generation
         /\ \A q \in Reviews : admission'[q] \notin {"refused", "uncertain"}
    ELSE /\ now' = now /\ admission'[q2] = "none"
         /\ \A g \in Grants : grant'[g] # grant[g] => grant'[g].rights = Broad.rights

MCInit ==
    /\ Init
    /\ about \in {"competition", "rebinding"}
MCNext == Next /\ Within /\ UNCHANGED about
MCSpec == MCInit /\ [][MCNext]_<<vars, about>>
=============================================================================
