---------------------------- MODULE PolicyReplay ----------------------------
(***************************************************************************)
(* The offline part of SwarmPolicyRuntime.simulate beside the runtime that *)
(* installs its results: an installed policy, a candidate, and one         *)
(* situation that both are evaluated on.  The choice of the three ranges   *)
(* over every document and situation of a setting, the ones no corpus has  *)
(* included.                                                               *)
(***************************************************************************)
EXTENDS PolicyRuntime

\* What may be replayed: a function to records [policies, maximum, situations].
CONSTANT Settings

\* The fields of a situation.
Fields == {"agent", "values", "destinations", "network", "baseline", "decision",
           "facts", "checks"}

ASSUME ReplayConstants ==
    \A s \in DOMAIN Settings :
        /\ \A p \in Settings[s].policies : DocumentOK(p)
        /\ LimitsOK(Settings[s].maximum.budgets)
        /\ \A c \in Settings[s].situations : Fields \subseteq DOMAIN c /\ c.baseline \in Dispositions

VARIABLES setting, base, candidate, situation
replay == <<setting, base, candidate, situation>>

ReplayInit == setting \in DOMAIN Settings /\ base = None /\ candidate = None /\ situation = None

\* The operator's maximum of the replay.
Operator == Settings[setting].maximum

Install(p) ==
    /\ base = None /\ Compilable(p, Operator)
    /\ base' = Compile(p, Operator)
    /\ UNCHANGED <<setting, candidate, situation>>

Propose(p) ==
    /\ base # None /\ candidate = None /\ Compilable(p, Operator)
    /\ candidate' = Compile(p, Operator)
    /\ UNCHANGED <<setting, base, situation>>

Replay(c) ==
    /\ candidate # None /\ situation = None
    /\ situation' = c
    /\ UNCHANGED <<setting, base, candidate>>

ReplayNext ==
    \/ \E p \in Settings[setting].policies : Install(p) \/ Propose(p)
    \/ \E c \in Settings[setting].situations : Replay(c)

\* The runtime and the replay have no state in common.
PolicyNext == (Next /\ UNCHANGED replay) \/ (ReplayNext /\ UNCHANGED vars)
PolicySpec == Init /\ ReplayInit /\ [][PolicyNext]_<<vars, replay>>
-----------------------------------------------------------------------------
(* A candidate that policy_relaxes finds no wider than the installed       *)
(* policy is at least as strict on every situation, the ones no corpus     *)
(* exercises included.                                                     *)
ReviewSeesRelaxation ==
    situation # None /\ ~PolicyRelaxes(base, candidate)
        => Rank[Evaluate(base, situation)] <= Rank[Evaluate(candidate, situation)]

(* An activation without allow_relaxation weakens neither the policy on a  *)
(* situation nor a limit, because policy_relaxes sees every weaker         *)
(* document.                                                               *)
RelaxationIsSeen ==
    [](NoHiddenRelaxation /\ ReviewSeesRelaxation) /\ LimitsAreKept

(* Whatever a document leaves out or adds, an action it lets execute       *)
(* respects every permission and check of the operator's maximum, and      *)
(* every limit of the maximum is kept or tightened.                        *)
MaximumIsKept ==
    /\ situation # None /\ Evaluate(base, situation) = "execute"
          => /\ Operator.agents = None \/ situation.agent \in Operator.agents
             /\ ~Forbidden(Operator.permissions, situation)
             /\ ~UnknownToPermissions(Operator.permissions, situation)
             /\ \A c \in Operator.checks : CheckStatus(situation, c) = "satisfied"
    /\ base # None
          => \A k \in DOMAIN Operator.budgets :
                k \in DOMAIN base.budgets /\ base.budgets[k] <= Operator.budgets[k]

(* Withholding the protected facts never gains anything: an action that    *)
(* executes without facts executes with every facts that neither leave     *)
(* data unclassified nor report a failing check.                           *)
FactsNeverHelp ==
    situation # None /\ situation.facts # None
      /\ (situation.facts.labels # None => "unclassified" \notin situation.facts.labels)
      /\ (\A c \in DOMAIN situation.facts.checks : situation.facts.checks[c] = "satisfied")
      /\ Evaluate(base, [situation EXCEPT !.facts = None]) = "execute"
        => Evaluate(base, situation) = "execute"

(* What a document or a review leaves out does not help: compile keeps the *)
(* operator's maximum, and evaluate never executes for want of facts what  *)
(* facts would stop.                                                       *)
MissingFactsNeverHelp == MaximumIsKept /\ FactsNeverHelp
=============================================================================
