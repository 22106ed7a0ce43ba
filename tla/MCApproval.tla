----------------------------- MODULE MCApproval -----------------------------
(***************************************************************************)
(* Small instances of ApprovalService.  A behaviour is about one action    *)
(* that needs approval, or about two requests to resume after an incident. *)
(***************************************************************************)
EXTENDS ApprovalService, TLC

CONSTANTS s1, s2, alice, bob, act, resumeA, resumeB, k1, k2

VARIABLE about

MCPrincipal == alice :> alice @@ bob :> bob
MCFoundings == {{alice, bob}, {alice}, {bob}}
MCQuorum == [r \in Requests |-> 2]
MCEntitled == [r \in Requests |-> Enrollments]
Symmetry == Permutations({s1, s2}) \cup Permutations({alice, bob}) \cup Permutations({k1, k2})

\* An action: both operators founded the directory, and any two of a fence, a
\* change of the directory, a change of the context and the passing of time.
\* A recovery: one operator is enrolled later, one key is used, and no time passes.
Within ==
    IF about = "action"
    THEN /\ \A r \in Recoveries : row'[r] = NoRow
         /\ revocation' + directory'.generation + context' + now' <= 2
    ELSE /\ row'[act] = NoRow /\ context' = context /\ now' = now
         /\ Cardinality({v.key : v \in UNION {row'[r].resolutions : r \in Recoveries}}) <= 1

MCInit ==
    /\ Init
    /\ about = IF directory.members = Enrollments THEN "action" ELSE "recovery"
MCNext == Next /\ Within /\ UNCHANGED about
MCSpec == MCInit /\ [][MCNext]_<<vars, about>>
=============================================================================
