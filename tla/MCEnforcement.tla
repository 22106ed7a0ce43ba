---------------------------- MODULE MCEnforcement ---------------------------
(***************************************************************************)
(* The enforcing broker and the tool gateway.  "broker": two requests and  *)
(* their worker processes, or one and a fence.  "direct": two actors of    *)
(* the gateway, three calls of prepare and a policy runtime.  "mixed": a   *)
(* direct actor without a runtime, whose facade is used, beside one of the *)
(* broker.                                                                 *)
(***************************************************************************)
EXTENDS Enforcement

CONSTANTS r1, r2, a1, a2, k1, k2, k3

VARIABLE about

\* The actor a1 prepares twice, a2 once.
TwoActors == [k \in {k1, k2, k3} |-> IF k = k3 THEN a2 ELSE a1]

MCInit ==
    /\ about \in {"broker", "direct", "mixed"}
    /\ Init /\ Gateway!Init
    /\ IF about = "direct" THEN direct = {a1, a2} /\ hosted = {a1, a2}
       ELSE direct = {a1} /\ hosted = {}
MCNext ==
    /\ \/ /\ about = "broker" /\ Next /\ UNCHANGED gateway
          /\ fences' > 0 => step'[r2] \in {"idle", "reviewed"}
       \/ /\ about # "broker" /\ Gateway!Next /\ UNCHANGED vars
          /\ about = "direct" => \A a \in {a1, a2} : captured'[a] # Other
    /\ UNCHANGED about
MCSpec == MCInit /\ [][MCNext]_<<vars, gateway, about>> /\ Fairness
=============================================================================
