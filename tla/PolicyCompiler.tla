--------------------------- MODULE PolicyCompiler ---------------------------
(***************************************************************************)
(* What a declarative policy says about an action:                         *)
(* ordin/swarm/policy_compiler.py over the data of policy_set.py.          *)
(*                                                                         *)
(* The exact allowlists of a policy fall in three classes, by when their   *)
(* subject is known, and one list stands for each class:                   *)
(*   values        kinds, effects, tools and resources, which the core     *)
(*                 review of the action always knows                       *)
(*   destinations  which the review may not have found                     *)
(*   labels        data labels and message classes, which only protected   *)
(*                 facts know                                              *)
(* None is the null of a permission (inherit) and the absence of facts.    *)
(***************************************************************************)
EXTENDS Integers

CONSTANT None

Dispositions == {"execute", "escalate", "deny"}
Rank == [execute |-> 0, escalate |-> 1, deny |-> 2]
Stronger(D) == CHOOSE d \in D : \A e \in D : Rank[e] <= Rank[d]

PermissionFields == {"values", "destinations", "labels"}
-----------------------------------------------------------------------------
(* compile_swarm_policy_set: a candidate policy under the operator's       *)
(* maximum.  A limit is a maximum for a key [scope, subject] of one metric;*)
(* "swarm" stands for the aggregate scopes tenant and swarm.               *)

\* What a document is checked for when it is loaded.
LimitsOK(limits) == \A k \in DOMAIN limits : limits[k] \in Nat
DocumentOK(policy) ==
    /\ policy.default \in Dispositions /\ policy.unknown \in {"escalate", "deny"}
    /\ \A r \in policy.rules : r.disposition \in Dispositions
    /\ LimitsOK(policy.budgets)

Inherit(p, m) == IF p = None THEN m ELSE p

PermissionsFit(policy, maximum) ==
    \A f \in PermissionFields :
        policy[f] # None /\ maximum[f] # None => policy[f] \subseteq maximum[f]

\* The operator limits that bound a limit for key.
Aggregates(key, limits) ==
    {k \in DOMAIN limits :
        \/ k.scope = "swarm"
        \/ k.scope = key.scope
           /\ (k.subject = None \/ key.subject = None \/ k.subject = key.subject)}

BudgetsFit(policy, maximum) ==
    \A key \in DOMAIN policy :
        /\ Aggregates(key, maximum) # {}
        /\ \A k \in Aggregates(key, maximum) : policy[key] <= maximum[k]

Compilable(policy, maximum) ==
    /\ PermissionsFit(policy.permissions, maximum.permissions)
    /\ BudgetsFit(policy.budgets, maximum.budgets)

Compile(policy, maximum) ==
    [permissions |-> [f \in PermissionFields |->
                        Inherit(policy.permissions[f], maximum.permissions[f])],
     budgets |-> [k \in DOMAIN policy.budgets \cup DOMAIN maximum.budgets |->
                    IF k \in DOMAIN policy.budgets THEN policy.budgets[k]
                                                   ELSE maximum.budgets[k]],
     checks |-> policy.checks \cup maximum.checks,
     capabilities |-> policy.capabilities \cup maximum.capabilities,
     agents |-> maximum.agents,
     rules |-> policy.rules,
     default |-> policy.default,
     unknown |-> policy.unknown]

\* The policy that simulate compares with when none is active.
OperatorMaximum ==
    [permissions |-> [f \in PermissionFields |-> None],
     budgets |-> <<>>, checks |-> {}, capabilities |-> {"identity"},
     rules |-> {}, default |-> "execute", unknown |-> "deny"]
-----------------------------------------------------------------------------
(* CompiledSwarmPolicy.evaluate.  A situation is an action of an agent,    *)
(* with its core review and baseline, the protected facts and the checks   *)
(* the gate has assessed.                                                  *)

KnownLabels(case) == IF case.facts = None THEN None ELSE case.facts.labels

Misses(selected, actual) == selected # {} /\ selected \cap actual = {}

RuleExcludes(match, case) ==
    \/ Misses(match.values, case.values)
    \/ case.destinations # {} /\ Misses(match.destinations, case.destinations)
    \/ KnownLabels(case) # None /\ Misses(match.labels, KnownLabels(case))

RuleUnknown(match, case) ==
    /\ ~RuleExcludes(match, case)
    /\ \/ match.destinations # {} /\ case.destinations = {}
       \/ match.labels # {} /\ KnownLabels(case) = None

RuleMatches(match, case) == ~RuleExcludes(match, case) /\ ~RuleUnknown(match, case)

Forbidden(permissions, case) ==
    \/ permissions.values # None /\ ~(case.values \subseteq permissions.values)
    \/ permissions.destinations # None /\ ~(case.destinations \subseteq permissions.destinations)
    \/ /\ permissions.labels # None /\ KnownLabels(case) # None
       /\ ~(KnownLabels(case) \ {"unclassified"} \subseteq permissions.labels)

\* Mutant of UnknownToPermissions: missing facts leave nothing unknown.
UnknownButForFacts(permissions, case) ==
    \/ permissions.destinations # None /\ case.destinations = {} /\ case.network
    \/ KnownLabels(case) # None /\ "unclassified" \in KnownLabels(case)

UnknownToPermissions(permissions, case) ==
    \/ permissions.destinations # None /\ case.destinations = {} /\ case.network
    \/ permissions.labels # None /\ KnownLabels(case) = None
    \/ KnownLabels(case) # None /\ "unclassified" \in KnownLabels(case)

\* The worse of what the gate and the facts say about a check.
CheckStatus(case, check) ==
    LET said == {s[check] : s \in {t \in {case.checks} \cup
                     (IF case.facts = None THEN {} ELSE {case.facts.checks}) :
                         check \in DOMAIN t}}
    IN IF said = {} THEN "unknown"
       ELSE IF "violated" \in said THEN "violated"
       ELSE IF "unknown" \in said THEN "unknown" ELSE "satisfied"

ReviewFloor(decision) ==
    IF decision = "block" THEN "deny"
    ELSE IF decision \in {"warn", "ask"} THEN "escalate" ELSE "execute"

Requested(plan, case) ==
    LET matches == {r \in plan.rules : RuleMatches(r.match, case)}
    IN IF matches = {} THEN plan.default ELSE Stronger({r.disposition : r \in matches})

Violations(plan, case) ==
    Forbidden(plan.permissions, case)
    \/ \E c \in plan.checks : CheckStatus(case, c) = "violated"

Uncertain(plan, case) ==
    \/ \E r \in plan.rules : RuleUnknown(r.match, case)
    \/ UnknownToPermissions(plan.permissions, case)
    \/ \E c \in plan.checks : CheckStatus(case, c) = "unknown"

Evaluate(plan, case) ==
    IF plan.agents # None /\ case.agent \notin plan.agents THEN "deny"
    ELSE Stronger({case.baseline, Requested(plan, case), ReviewFloor(case.decision)}
                  \cup (IF Violations(plan, case) THEN {"deny"} ELSE {})
                  \cup (IF Uncertain(plan, case) THEN {plan.unknown} ELSE {}))
-----------------------------------------------------------------------------
(* policy_relaxes: the structural review of a candidate.                   *)

\* Mutant of Narrows: null, which inherits, counts as no widening.
NarrowsOrNull(old, new) == old = None \/ new = None \/ new \subseteq old
Narrows(old, new) == old = None \/ (new # None /\ new \subseteq old)

RuleRelaxed(old, after) ==
    LET new == {r \in after.rules : r.id = old.id}
    IN \/ new = {} /\ old.disposition # "execute"
       \/ \E r \in new : r.match # old.match \/ Rank[r.disposition] < Rank[old.disposition]

BudgetsRelaxed(before, after) ==
    \E k \in DOMAIN before : k \notin DOMAIN after \/ after[k] > before[k]

PolicyRelaxes(before, after) ==
    \/ \E f \in PermissionFields : ~Narrows(before.permissions[f], after.permissions[f])
    \/ Rank[after.default] < Rank[before.default]
    \/ Rank[after.unknown] < Rank[before.unknown]
    \/ ~(before.checks \subseteq after.checks)
    \/ ~(before.capabilities \subseteq after.capabilities)
    \/ \E old \in before.rules : RuleRelaxed(old, after)
    \/ \E new \in after.rules :
          /\ \A old \in before.rules : old.id # new.id
          /\ Rank[new.disposition] < Rank[before.default]
    \/ BudgetsRelaxed(before.budgets, after.budgets)
=============================================================================
