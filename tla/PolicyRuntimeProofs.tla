------------------------- MODULE PolicyRuntimeProofs -------------------------
(***************************************************************************)
(* Proofs about the policy compiler, for every document, maximum and       *)
(* situation, about the runtime that installs its results, for any number  *)
(* of runtimes, agents, documents and situations, and about the replay     *)
(* beside it.                                                              *)
(***************************************************************************)
EXTENDS PolicyReplay, TLAPS

-----------------------------------------------------------------------------
(* Dispositions are ordered, and the stronger of several is one of them.   *)

\* The three dispositions have different ranks.
LEMMA Ranks ==
    /\ Rank["execute"] = 0 /\ Rank["escalate"] = 1 /\ Rank["deny"] = 2
    /\ \A d \in Dispositions : Rank[d] \in 0..2
    BY DEF Rank, Dispositions

\* _stronger of a non-empty set is a member that no other member outranks.
LEMMA StrongerIsMaximal ==
    ASSUME NEW D \in SUBSET Dispositions, D # {}
    PROVE  Stronger(D) \in D /\ \A e \in D : Rank[e] <= Rank[Stronger(D)]
<1>1. \E d \in D : \A e \in D : Rank[e] <= Rank[d]
    <2>1. CASE "deny" \in D
        <3>1. \A e \in D : Rank[e] <= 2
            BY Ranks
        <3> QED
            BY <2>1, <3>1, Ranks
    <2>2. CASE "deny" \notin D /\ "escalate" \in D
        <3>1. \A e \in D : e = "execute" \/ e = "escalate"
            BY <2>2 DEF Dispositions
        <3>2. \A e \in D : Rank[e] <= 1
            BY <3>1, Ranks
        <3> QED
            BY <2>2, <3>2, Ranks
    <2>3. CASE "deny" \notin D /\ "escalate" \notin D
        <3>1. \A e \in D : e = "execute"
            BY <2>3 DEF Dispositions
        <3> QED
            BY <3>1, Ranks
    <2> QED
        BY <2>1, <2>2, <2>3
<1> QED
    BY <1>1 DEF Stronger

\* A set that has for each member of another one a member of at least its rank is at
\* least as strong.
LEMMA StrongerDominates ==
    ASSUME NEW D \in SUBSET Dispositions, D # {}, NEW E \in SUBSET Dispositions, E # {},
           \A d \in D : \E e \in E : Rank[d] <= Rank[e]
    PROVE  Rank[Stronger(D)] <= Rank[Stronger(E)]
<1>1. PICK e \in E : Rank[Stronger(D)] <= Rank[e]
    BY StrongerIsMaximal
<1>2. Rank[e] <= Rank[Stronger(E)] /\ Stronger(D) \in Dispositions /\ Stronger(E) \in Dispositions
    BY StrongerIsMaximal
<1> QED
    BY <1>1, <1>2, Ranks

-----------------------------------------------------------------------------
(* Evaluation.                                                             *)

\* What the evaluation of a plan rests on.
PlanOK(plan) ==
    /\ plan.default \in Dispositions /\ plan.unknown \in {"escalate", "deny"}
    /\ \A r \in plan.rules : r.disposition \in Dispositions

\* The votes that evaluate takes the strongest of.
Votes(plan, case) ==
    {case.baseline, Requested(plan, case), ReviewFloor(case.decision)}
    \cup (IF Violations(plan, case) THEN {"deny"} ELSE {})
    \cup (IF Uncertain(plan, case) THEN {plan.unknown} ELSE {})

Outside(plan, case) == plan.agents # None /\ case.agent \notin plan.agents

\* What the rules request is a disposition.
LEMMA RequestedTyped ==
    ASSUME NEW plan, PlanOK(plan), NEW case
    PROVE  Requested(plan, case) \in Dispositions
<1> DEFINE matches == {r \in plan.rules : RuleMatches(r.match, case)}
<1> DEFINE D == {r.disposition : r \in matches}
<1>1. CASE matches = {}
    BY <1>1 DEF Requested, PlanOK
<1>2. CASE matches # {}
    <2>1. D \in SUBSET Dispositions /\ D # {}
        BY <1>2 DEF PlanOK
    <2>2. Stronger(D) \in D
        BY <2>1, StrongerIsMaximal
    <2> QED
        BY <1>2, <2>1, <2>2 DEF Requested
<1> QED
    BY <1>1, <1>2

\* The votes are dispositions, and there are some.
LEMMA VotesTyped ==
    ASSUME NEW plan, PlanOK(plan), NEW case, case.baseline \in Dispositions
    PROVE  Votes(plan, case) \in SUBSET Dispositions /\ Votes(plan, case) # {}
<1>1. ReviewFloor(case.decision) \in Dispositions
    BY DEF ReviewFloor, Dispositions
<1>2. Requested(plan, case) \in Dispositions
    BY RequestedTyped
<1>3. plan.unknown \in Dispositions /\ "deny" \in Dispositions
    BY DEF PlanOK, Dispositions
<1> QED
    BY <1>1, <1>2, <1>3 DEF Votes

\* evaluate returns a disposition, the strongest of the votes.
LEMMA EvaluateIs ==
    ASSUME NEW plan, PlanOK(plan), NEW case, case.baseline \in Dispositions
    PROVE  /\ Evaluate(plan, case) \in Dispositions
           /\ Outside(plan, case) => Evaluate(plan, case) = "deny"
           /\ ~Outside(plan, case) => Evaluate(plan, case) = Stronger(Votes(plan, case))
<1>1. CASE Outside(plan, case)
    BY <1>1 DEF Outside, Evaluate, Dispositions
<1>2. CASE ~Outside(plan, case)
    <2>1. Evaluate(plan, case) = Stronger(Votes(plan, case))
        BY <1>2 DEF Outside, Evaluate, Votes
    <2> QED
        BY <1>2, <2>1, VotesTyped, StrongerIsMaximal
<1> QED
    BY <1>1, <1>2

\* An action executes only if no vote is against it.
LEMMA ExecuteIsUnanimous ==
    ASSUME NEW plan, PlanOK(plan), NEW case, case.baseline \in Dispositions
    PROVE  Evaluate(plan, case) = "execute" <=>
               ~Outside(plan, case) /\ \A v \in Votes(plan, case) : v = "execute"
<1>1. CASE Outside(plan, case)
    BY <1>1, EvaluateIs
<1>2. CASE ~Outside(plan, case)
    <2>1. /\ Evaluate(plan, case) \in Votes(plan, case)
          /\ \A v \in Votes(plan, case) : Rank[v] <= Rank[Evaluate(plan, case)]
        BY <1>2, EvaluateIs, VotesTyped, StrongerIsMaximal
    <2>2. \A v \in Votes(plan, case) : v \in Dispositions
        BY VotesTyped
    <2> QED
        BY <1>2, <2>1, <2>2, Ranks DEF Dispositions
<1> QED
    BY <1>1, <1>2

\* In particular nothing forbids it and nothing is uncertain.
LEMMA ExecuteIsCertain ==
    ASSUME NEW plan, PlanOK(plan), NEW case, case.baseline \in Dispositions,
           Evaluate(plan, case) = "execute"
    PROVE  ~Violations(plan, case) /\ ~Uncertain(plan, case)
<1>1. \A v \in Votes(plan, case) : v = "execute"
    BY ExecuteIsUnanimous
<1>2. plan.unknown # "execute"
    BY DEF PlanOK
<1> QED
    BY <1>1, <1>2 DEF Votes
-----------------------------------------------------------------------------
(* Compilation.                                                            *)

\* The compilation of a document is a plan.
LEMMA CompiledOK ==
    ASSUME NEW p, DocumentOK(p), NEW m
    PROVE  PlanOK(Compile(p, m)) /\ Compile(p, m).agents = m.agents
    BY DEF DocumentOK, PlanOK, Compile

\* A permission of the maximum is inherited or narrowed.
LEMMA PermissionsNarrowed ==
    ASSUME NEW p, NEW m, Compilable(p, m), NEW f \in PermissionFields, m.permissions[f] # None
    PROVE  /\ Compile(p, m).permissions[f] # None
           /\ Compile(p, m).permissions[f] \subseteq m.permissions[f]
<1>1. Compile(p, m).permissions[f] = Inherit(p.permissions[f], m.permissions[f])
    BY DEF Compile
<1> QED
    BY <1>1 DEF Compilable, PermissionsFit, Inherit

\* Whatever a document leaves out or adds, an action it lets execute respects every
\* permission and check of the operator's maximum, and every limit of the maximum is kept
\* or tightened (compile_swarm_policy_set, CompiledSwarmPolicy.evaluate).
THEOREM CompileKeepsMaximum ==
    ASSUME NEW p, DocumentOK(p), NEW m, Compilable(p, m), LimitsOK(m.budgets)
    PROVE  /\ \A c : c.baseline \in Dispositions /\ Evaluate(Compile(p, m), c) = "execute" =>
                  /\ m.agents = None \/ c.agent \in m.agents
                  /\ ~Forbidden(m.permissions, c) /\ ~UnknownToPermissions(m.permissions, c)
                  /\ \A k \in m.checks : CheckStatus(c, k) = "satisfied"
           /\ \A k \in DOMAIN m.budgets :
                  k \in DOMAIN Compile(p, m).budgets /\ Compile(p, m).budgets[k] <= m.budgets[k]
<1> DEFINE plan == Compile(p, m)
<1>1. PlanOK(plan) /\ plan.agents = m.agents
    BY CompiledOK
<1>2. \A f \in PermissionFields : m.permissions[f] # None =>
          plan.permissions[f] # None /\ plan.permissions[f] \subseteq m.permissions[f]
    BY PermissionsNarrowed
<1>3. m.checks \subseteq plan.checks
    BY DEF Compile
<1>4. ASSUME NEW k \in DOMAIN m.budgets
      PROVE  k \in DOMAIN plan.budgets /\ plan.budgets[k] <= m.budgets[k]
    <2>1. /\ k \in DOMAIN plan.budgets
          /\ plan.budgets[k] = IF k \in DOMAIN p.budgets THEN p.budgets[k] ELSE m.budgets[k]
        BY DEF Compile
    <2>2. CASE k \in DOMAIN p.budgets
        <3>1. k \in Aggregates(k, m.budgets)
            BY DEF Aggregates
        <3> QED
            BY <2>1, <2>2, <3>1 DEF Compilable, BudgetsFit
    <2>3. CASE k \notin DOMAIN p.budgets
        BY <2>1, <2>3 DEF LimitsOK
    <2> QED
        BY <2>1, <2>2, <2>3
<1>5. ASSUME NEW c, c.baseline \in Dispositions, Evaluate(plan, c) = "execute"
      PROVE  /\ m.agents = None \/ c.agent \in m.agents
             /\ ~Forbidden(m.permissions, c) /\ ~UnknownToPermissions(m.permissions, c)
             /\ \A k \in m.checks : CheckStatus(c, k) = "satisfied"
    <2> HIDE DEF plan
    <2>1. ~Outside(plan, c)
        BY <1>1, <1>5, ExecuteIsUnanimous
    <2>2. ~Violations(plan, c) /\ ~Uncertain(plan, c)
        BY <1>1, <1>5, ExecuteIsCertain
    <2>3. ~Forbidden(plan.permissions, c) /\ ~UnknownToPermissions(plan.permissions, c)
        BY <2>2 DEF Violations, Uncertain
    <2>4. "values" \in PermissionFields /\ "destinations" \in PermissionFields /\ "labels" \in PermissionFields
        BY DEF PermissionFields
    <2>5. ~Forbidden(m.permissions, c)
        BY <1>2, <2>3, <2>4 DEF Forbidden
    <2>6. ~UnknownToPermissions(m.permissions, c)
        BY <1>2, <2>3, <2>4 DEF UnknownToPermissions
    <2>7. ASSUME NEW k \in m.checks PROVE CheckStatus(c, k) = "satisfied"
        <3>1. CheckStatus(c, k) # "violated" /\ CheckStatus(c, k) # "unknown"
            BY <1>3, <2>2 DEF Violations, Uncertain
        <3> QED
            BY <3>1 DEF CheckStatus
    <2> QED
        BY <1>1, <2>1, <2>5, <2>6, <2>7 DEF Outside
<1> QED
    BY <1>4, <1>5

-----------------------------------------------------------------------------
(* Facts.                                                                  *)

\* Withholding the protected facts never gains anything: an action that executes without
\* facts executes with every facts that neither leave data unclassified nor report a failing
\* check, under every plan (CompiledSwarmPolicy._rule, evaluate).
THEOREM NeverForWantOfFacts ==
    ASSUME NEW plan, PlanOK(plan), NEW c, Fields \subseteq DOMAIN c, c.baseline \in Dispositions,
           c.facts # None,
           c.facts.labels # None => "unclassified" \notin c.facts.labels,
           \A k \in DOMAIN c.facts.checks : c.facts.checks[k] = "satisfied",
           Evaluate(plan, [c EXCEPT !.facts = None]) = "execute"
    PROVE  Evaluate(plan, c) = "execute"
<1> DEFINE b == [c EXCEPT !.facts = None]
<1>1. /\ b.agent = c.agent /\ b.values = c.values /\ b.destinations = c.destinations
      /\ b.network = c.network /\ b.baseline = c.baseline /\ b.decision = c.decision
      /\ b.checks = c.checks /\ b.facts = None
    BY DEF Fields
<1> HIDE DEF b
<1>2. Evaluate(plan, b) = "execute" /\ b.baseline \in Dispositions
    BY <1>1 DEF b
<1>3. ~Outside(plan, b) /\ (\A v \in Votes(plan, b) : v = "execute")
      /\ ~Violations(plan, b) /\ ~Uncertain(plan, b)
    BY <1>2, ExecuteIsUnanimous, ExecuteIsCertain
<1>4. KnownLabels(b) = None /\ KnownLabels(c) = c.facts.labels
    BY <1>1 DEF KnownLabels
<1>5. ASSUME NEW r \in plan.rules
      PROVE  /\ ~RuleUnknown(r.match, c)
             /\ RuleMatches(r.match, c) <=> RuleMatches(r.match, b)
    <2>1. ~RuleUnknown(r.match, b)
        BY <1>3 DEF Uncertain
    <2>2. CASE RuleExcludes(r.match, b)
        <3>1. RuleExcludes(r.match, c)
            BY <1>1, <1>4, <2>2 DEF RuleExcludes
        <3> QED
            BY <2>2, <3>1 DEF RuleUnknown, RuleMatches
    <2>3. CASE ~RuleExcludes(r.match, b)
        <3>1. r.match.labels = {} /\ ~(r.match.destinations # {} /\ b.destinations = {})
            BY <1>4, <2>1, <2>3 DEF RuleUnknown
        <3>2. ~RuleExcludes(r.match, c)
            BY <1>1, <2>3, <3>1 DEF RuleExcludes, Misses
        <3> QED
            BY <1>1, <2>1, <2>3, <3>1, <3>2 DEF RuleUnknown, RuleMatches
    <2> QED
        BY <2>2, <2>3
<1>6. Requested(plan, c) = Requested(plan, b)
    <2>1. {r \in plan.rules : RuleMatches(r.match, c)} = {r \in plan.rules : RuleMatches(r.match, b)}
        BY <1>5
    <2> QED
        BY <2>1 DEF Requested
<1>7. ~Forbidden(plan.permissions, c) /\ ~UnknownToPermissions(plan.permissions, c)
    <2>1. ~Forbidden(plan.permissions, b) /\ ~UnknownToPermissions(plan.permissions, b)
        BY <1>3 DEF Violations, Uncertain
    <2>2. plan.permissions.labels = None
        BY <1>4, <2>1 DEF UnknownToPermissions
    <2> QED
        BY <1>1, <1>4, <2>1, <2>2 DEF Forbidden, UnknownToPermissions
<1>8. ASSUME NEW k \in plan.checks PROVE CheckStatus(c, k) = "satisfied"
    <2>1. CheckStatus(b, k) # "violated" /\ CheckStatus(b, k) # "unknown"
        BY <1>3 DEF Violations, Uncertain
    <2>2. k \in DOMAIN c.checks /\ c.checks[k] # "violated" /\ c.checks[k] # "unknown"
        BY <1>1, <2>1 DEF CheckStatus
    <2> QED
        BY <2>2 DEF CheckStatus
<1>9. ~Violations(plan, c) /\ ~Uncertain(plan, c)
    BY <1>5, <1>7, <1>8 DEF Violations, Uncertain
<1>10. \A v \in Votes(plan, c) : v = "execute"
    BY <1>1, <1>3, <1>6, <1>9 DEF Votes
<1>11. ~Outside(plan, c)
    BY <1>1, <1>3 DEF Outside
<1> QED
    BY <1>10, <1>11, ExecuteIsUnanimous

-----------------------------------------------------------------------------
(* The structural review.                                                  *)

\* The rules that execute select only on what the core review always knows.
Decided(plan) ==
    \A r \in plan.rules :
        r.disposition = "execute" => r.match.destinations = {} /\ r.match.labels = {}

\* A rule of the old plan with a say in a candidate that relaxes nothing.
LEMMA RuleSurvives ==
    ASSUME NEW a, NEW old, ~RuleRelaxed(old, a), old.disposition # "execute"
    PROVE  \E r \in a.rules : r.match = old.match /\ ~(Rank[r.disposition] < Rank[old.disposition])
    BY DEF RuleRelaxed

\* What the rules of a candidate request is at least as strong, if it relaxes nothing.
LEMMA RequestedTightens ==
    ASSUME NEW b, PlanOK(b), NEW a, PlanOK(a), ~PolicyRelaxes(b, a), NEW c
    PROVE  Rank[Requested(b, c)] <= Rank[Requested(a, c)]
<1> DEFINE mb == {r \in b.rules : RuleMatches(r.match, c)}
<1> DEFINE ma == {r \in a.rules : RuleMatches(r.match, c)}
<1> DEFINE Db == {r.disposition : r \in mb}
<1> DEFINE Da == {r.disposition : r \in ma}
<1>1. /\ ~(Rank[a.default] < Rank[b.default])
      /\ \A old \in b.rules : ~RuleRelaxed(old, a)
      /\ \A new \in a.rules : (\A old \in b.rules : old.id # new.id) =>
             ~(Rank[new.disposition] < Rank[b.default])
    BY DEF PolicyRelaxes
<1>2. Requested(a, c) \in Dispositions /\ Requested(b, c) \in Dispositions
    BY RequestedTyped
<1>3. \A r \in ma : Rank[r.disposition] <= Rank[Requested(a, c)]
    <2> SUFFICES ASSUME NEW r \in ma PROVE Rank[r.disposition] <= Rank[Requested(a, c)]
        OBVIOUS
    <2>1. Da \in SUBSET Dispositions /\ Da # {} /\ r.disposition \in Da
        BY DEF PlanOK
    <2>2. Requested(a, c) = Stronger(Da)
        BY DEF Requested
    <2> QED
        BY <2>1, <2>2, StrongerIsMaximal
<1>4. CASE mb = {}
    <2>1. Requested(b, c) = b.default
        BY <1>4 DEF Requested
    <2>2. CASE ma = {}
        <3>1. Requested(a, c) = a.default
            BY <2>2 DEF Requested
        <3> QED
            BY <1>1, <2>1, <3>1, Ranks DEF PlanOK
    <2>3. CASE ma # {}
        <3>1. PICK r \in ma : TRUE
            BY <2>3
        <3>2. \A old \in b.rules : old.id # r.id
            <4> SUFFICES ASSUME NEW old \in b.rules, old.id = r.id PROVE FALSE
                OBVIOUS
            <4>1. r.match = old.match
                BY <1>1, <3>1 DEF RuleRelaxed
            <4> QED
                BY <1>4, <3>1, <4>1
        <3>3. ~(Rank[r.disposition] < Rank[b.default])
            BY <1>1, <3>1, <3>2
        <3>4. r.disposition \in Dispositions /\ b.default \in Dispositions
            BY <3>1 DEF PlanOK
        <3> QED
            BY <1>2, <1>3, <2>1, <3>1, <3>3, <3>4, Ranks
    <2> QED
        BY <2>2, <2>3
<1>5. CASE mb # {}
    <2>1. Requested(b, c) = Stronger(Db) /\ Db \in SUBSET Dispositions /\ Db # {}
        BY <1>5 DEF Requested, PlanOK
    <2>2. PICK old \in mb : Requested(b, c) = old.disposition
        BY <2>1, StrongerIsMaximal
    <2>3. CASE old.disposition = "execute"
        BY <1>2, <2>2, <2>3, Ranks
    <2>4. CASE old.disposition # "execute"
        <3>1. PICK r \in a.rules :
                  r.match = old.match /\ ~(Rank[r.disposition] < Rank[old.disposition])
            BY <1>1, <2>4, RuleSurvives
        <3>2. r \in ma
            BY <3>1
        <3>3. r.disposition \in Dispositions /\ old.disposition \in Dispositions
            BY <3>1 DEF PlanOK
        <3> QED
            BY <1>2, <1>3, <2>2, <3>1, <3>2, <3>3, Ranks
    <2> QED
        BY <2>3, <2>4
<1> QED
    BY <1>4, <1>5
\* What a plan forbids, every candidate that relaxes nothing forbids as well.
LEMMA ViolationsStay ==
    ASSUME NEW b, NEW a, ~PolicyRelaxes(b, a), NEW c, Violations(b, c)
    PROVE  Violations(a, c)
<1>1. /\ \A f \in PermissionFields : Narrows(b.permissions[f], a.permissions[f])
      /\ b.checks \subseteq a.checks
    BY DEF PolicyRelaxes
<1>2. /\ Narrows(b.permissions.values, a.permissions.values)
      /\ Narrows(b.permissions.destinations, a.permissions.destinations)
      /\ Narrows(b.permissions.labels, a.permissions.labels)
    BY <1>1 DEF PermissionFields
<1>3. CASE Forbidden(b.permissions, c)
    <2>1. Forbidden(a.permissions, c)
        BY <1>2, <1>3 DEF Forbidden, Narrows
    <2> QED
        BY <2>1 DEF Violations
<1>4. CASE \E k \in b.checks : CheckStatus(c, k) = "violated"
    BY <1>1, <1>4 DEF Violations
<1> QED
    BY <1>3, <1>4 DEF Violations

\* What is uncertain under a plan whose execute rules are decided is uncertain under
\* every candidate that relaxes nothing.
LEMMA UncertaintyStays ==
    ASSUME NEW b, Decided(b), NEW a, ~PolicyRelaxes(b, a), NEW c, Uncertain(b, c)
    PROVE  Uncertain(a, c)
<1>1. /\ \A f \in PermissionFields : Narrows(b.permissions[f], a.permissions[f])
      /\ b.checks \subseteq a.checks
      /\ \A old \in b.rules : ~RuleRelaxed(old, a)
    BY DEF PolicyRelaxes
<1>2. /\ Narrows(b.permissions.destinations, a.permissions.destinations)
      /\ Narrows(b.permissions.labels, a.permissions.labels)
    BY <1>1 DEF PermissionFields
<1>3. CASE \E r \in b.rules : RuleUnknown(r.match, c)
    <2>1. PICK old \in b.rules : RuleUnknown(old.match, c)
        BY <1>3
    <2>2. old.disposition # "execute"
        BY <2>1 DEF Decided, RuleUnknown
    <2>3. PICK r \in a.rules : r.match = old.match
        BY <1>1, <2>2, RuleSurvives
    <2> QED
        BY <2>1, <2>3 DEF Uncertain
<1>4. CASE UnknownToPermissions(b.permissions, c)
    <2>1. UnknownToPermissions(a.permissions, c)
        BY <1>2, <1>4 DEF UnknownToPermissions, Narrows
    <2> QED
        BY <2>1 DEF Uncertain
<1>5. CASE \E k \in b.checks : CheckStatus(c, k) = "unknown"
    BY <1>1, <1>5 DEF Uncertain
<1> QED
    BY <1>3, <1>4, <1>5 DEF Uncertain

\* A candidate in which policy_relaxes finds nothing is at least as strict as the plan it
\* replaces on every situation, the ones no corpus exercises included.  Execute rules that
\* select on what may be unknown are excluded: policy_relaxes does not see their removal.
THEOREM ReviewIsComplete ==
    ASSUME NEW b, PlanOK(b), Decided(b), NEW a, PlanOK(a), a.agents = b.agents,
           ~PolicyRelaxes(b, a), NEW c, c.baseline \in Dispositions
    PROVE  Rank[Evaluate(b, c)] <= Rank[Evaluate(a, c)]
<1>1. CASE Outside(b, c)
    <2>1. Evaluate(b, c) = "deny" /\ Evaluate(a, c) = "deny"
        BY <1>1, EvaluateIs DEF Outside
    <2> QED
        BY <2>1, Ranks
<1>2. CASE ~Outside(b, c)
    <2>1. Evaluate(b, c) = Stronger(Votes(b, c)) /\ Evaluate(a, c) = Stronger(Votes(a, c))
        BY <1>2, EvaluateIs DEF Outside
    <2>2. \A v \in Votes(b, c) : \E w \in Votes(a, c) : Rank[v] <= Rank[w]
        <3> SUFFICES ASSUME NEW v \in Votes(b, c) PROVE \E w \in Votes(a, c) : Rank[v] <= Rank[w]
            OBVIOUS
        <3>1. v \in Dispositions /\ Rank[v] <= Rank[v]
            BY VotesTyped, Ranks
        <3>2. CASE v \in {c.baseline, ReviewFloor(c.decision)}
            BY <3>1, <3>2 DEF Votes
        <3>3. CASE v = Requested(b, c)
            <4>1. Requested(a, c) \in Votes(a, c)
                BY DEF Votes
            <4> QED
                BY <3>3, <4>1, RequestedTightens
        <3>4. CASE Violations(b, c) /\ v = "deny"
            <4>1. "deny" \in Votes(a, c)
                BY <3>4, ViolationsStay DEF Votes
            <4> QED
                BY <3>1, <3>4, <4>1
        <3>5. CASE Uncertain(b, c) /\ v = b.unknown
            <4>1. a.unknown \in Votes(a, c)
                BY <3>5, UncertaintyStays DEF Votes
            <4>2. ~(Rank[a.unknown] < Rank[b.unknown])
                BY DEF PolicyRelaxes
            <4>3. a.unknown \in Dispositions
                BY DEF PlanOK, Dispositions
            <4> QED
                BY <3>1, <3>5, <4>1, <4>2, <4>3, Ranks
        <3> QED
            BY <3>2, <3>3, <3>4, <3>5 DEF Votes
    <2>3. /\ Votes(b, c) \in SUBSET Dispositions /\ Votes(b, c) # {}
          /\ Votes(a, c) \in SUBSET Dispositions /\ Votes(a, c) # {}
        BY VotesTyped
    <2> QED
        BY <2>1, <2>2, <2>3, StrongerDominates
<1> QED
    BY <1>1, <1>2

-----------------------------------------------------------------------------
(* The runtime: what its variables hold.                                   *)

Actives == Plans \cup {None}
Budgets == {Maximum.budgets} \cup {p.budgets : p \in Plans}
Bindings ==
    [epoch : Nat, generation : Nat, sources : Nat, facts : Nat, active : Actives,
     available : BOOLEAN, budget : [epoch : Nat, limits : Budgets],
     delegation : [epoch : Nat, fenced : Nat]]
Deployments == [runtime : Runtimes, plan : Plans, base : Bindings, target : 0..MaxEpoch]
Reviews ==
    [step : {"begun", "evaluated", "ticket"}, runtime : Runtimes, case : Situations,
     context : Nat, binding : Bindings, temporal : Nat, result : Dispositions]
Callbacks == [agent : Agents, runtime : Runtimes, case : Situations, binding : Bindings]
Installed ==
    [epoch : Nat, runtime : Runtimes, plan : Plans, allow : BOOLEAN, replaced : Actives]

Typed ==
    /\ registryEpoch \in 0..MaxEpoch
    /\ runtime \in [Runtimes -> Bindings]
    /\ temporal \in [Runtimes -> Nat]
    /\ deployments \subseteq Deployments
    /\ expired \subseteq deployments
    /\ simulations \subseteq [deployment : Deployments, relaxes : BOOLEAN, unsafe : BOOLEAN]
    /\ approvals \subseteq [deployment : Deployments, allow : BOOLEAN]
    /\ used \subseteq approvals
    /\ context \in [Agents -> 0..MaxEpoch]
    /\ review \in [Agents -> {NoReview} \cup Reviews]
    /\ callback \in {None} \cup Callbacks
    /\ installed \subseteq Installed

\* What _relaxes would have said when the deployment was prepared.
RelaxesAt(d) ==
    \/ d.base.active # None /\ PolicyRelaxes(d.base.active, d.plan)
    \/ d.plan.budgets # <<>> /\ BudgetsRelaxed(d.base.budget.limits, d.plan.budgets)

\* What relaxes is simulated and approved as such.
WorkflowOK ==
    /\ \A s \in simulations : RelaxesAt(s.deployment) => s.relaxes
    /\ \A ap \in approvals : RelaxesAt(ap.deployment) => ap.allow

\* No epoch is in the future, an available runtime is one that was activated as a whole,
\* and the limits in force are those of the active policy.
RuntimeAt(r) ==
    /\ runtime[r].epoch <= registryEpoch /\ temporal[r] <= registryEpoch
    /\ runtime[r].available =>
           /\ runtime[r].budget.epoch = runtime[r].epoch
           /\ runtime[r].delegation.fenced = runtime[r].epoch
           /\ \E i \in installed : i.epoch = runtime[r].epoch /\ i.plan = runtime[r].active
                                                         /\ i.runtime = r
    /\ runtime[r].active # None /\ runtime[r].active.budgets # <<>> =>
           runtime[r].budget.limits = runtime[r].active.budgets

\* Every activation had an epoch of its own and was reviewed.
InstalledOK ==
    /\ \A i \in installed : i.epoch <= registryEpoch
    /\ \A i, j \in installed : i.epoch = j.epoch => i = j
    /\ \A i \in installed : i.replaced # None /\ ~i.allow => ~PolicyRelaxes(i.replaced, i.plan)

\* What a review found holds as long as its binding is the present one, which the counters
\* of generation and sources never let return.
Allows(r, c) ==
    /\ runtime[r].active # None /\ Supported(r, runtime[r].active)
    /\ Evaluate(runtime[r].active, c) = "execute"
ReviewAt(a) ==
    review[a] # NoReview =>
        LET v == review[a] IN
        /\ v.binding.generation <= runtime[v.runtime].generation
        /\ v.binding.sources <= runtime[v.runtime].sources
        /\ v.step = "ticket" => v.result = "execute"
        /\ v.step \in {"evaluated", "ticket"} /\ v.result = "execute"
               /\ v.binding = runtime[v.runtime] => Allows(v.runtime, v.case)

\* The guarded callback, while it holds the barrier.
CallbackOK ==
    callback # None =>
        LET r == callback.runtime IN
        /\ runtime[r].epoch = registryEpoch /\ context[callback.agent] = registryEpoch
        /\ callback.binding = runtime[r] /\ Allows(r, callback.case)

IInv ==
    /\ Typed /\ WorkflowOK /\ InstalledOK /\ CallbackOK
    /\ \A r \in Runtimes : RuntimeAt(r)
    /\ \A a \in Agents : ReviewAt(a)
-----------------------------------------------------------------------------
(* Plans and what they allow.                                              *)

\* Every plan of the runtime is the compilation of a document under the maximum.
LEMMA PlansOK ==
    ASSUME NEW p \in Plans
    PROVE  PlanOK(p) /\ p.agents = Maximum.agents /\ LimitsOK(p.budgets)
<1>1. PICK q \in Policies : Compilable(q, Maximum) /\ p = Compile(q, Maximum)
    BY DEF Plans
<1>2. DocumentOK(q) /\ LimitsOK(Maximum.budgets)
    BY RuntimeConstants
<1>3. LimitsOK(p.budgets)
    <2>1. /\ DOMAIN p.budgets = DOMAIN q.budgets \cup DOMAIN Maximum.budgets
          /\ \A k \in DOMAIN p.budgets :
                 p.budgets[k] = IF k \in DOMAIN q.budgets THEN q.budgets[k] ELSE Maximum.budgets[k]
        BY <1>1 DEF Compile
    <2> QED
        BY <1>2, <2>1 DEF LimitsOK, DocumentOK
<1> QED
    BY <1>1, <1>2, <1>3, CompiledOK

\* The limits a ledger may have are numbers.
LEMMA BudgetsOK ==
    ASSUME NEW l \in Budgets
    PROVE  LimitsOK(l)
    BY PlansOK, RuntimeConstants DEF Budgets

\* A runtime with the same binding and temporal source allows the same.
LEMMA SameAllows ==
    ASSUME NEW r, runtime'[r] = runtime[r], temporal'[r] = temporal[r], NEW c
    PROVE  Allows(r, c)' = Allows(r, c)
    BY DEF Allows, Supported, Capabilities

\* A step that moves no epoch, binding, source and record leaves the runtimes as they are.
LEMMA RuntimesStay ==
    ASSUME IInv, UNCHANGED <<registryEpoch, runtime, temporal, installed>>
    PROVE  /\ InstalledOK' /\ \A r \in Runtimes : RuntimeAt(r)'
           /\ \A r \in Runtimes : \A c : Allows(r, c)' = Allows(r, c)
<1>1. \A r \in Runtimes : \A c : Allows(r, c)' = Allows(r, c)
    BY SameAllows
<1>2. InstalledOK'
    BY DEF IInv, InstalledOK
<1>3. ASSUME NEW r \in Runtimes PROVE RuntimeAt(r)'
    <2>1. RuntimeAt(r)
        BY DEF IInv
    <2> QED
        BY <2>1 DEF RuntimeAt
<1> QED
    BY <1>1, <1>2, <1>3

\* And if no review moves either, what the reviews found still holds.
LEMMA ReviewsStay ==
    ASSUME IInv, UNCHANGED <<registryEpoch, runtime, temporal, installed>>,
           NEW a \in Agents, review'[a] = review[a]
    PROVE  ReviewAt(a)'
<1>1. CASE review[a] = NoReview
    BY <1>1 DEF ReviewAt
<1>2. CASE review[a] # NoReview
    <2>1. review[a] \in Reviews /\ ReviewAt(a)
        BY <1>2 DEF IInv, Typed
    <2>2. Allows(review[a].runtime, review[a].case)' = Allows(review[a].runtime, review[a].case)
        <3>1. \A c : Allows(review[a].runtime, c)' = Allows(review[a].runtime, c)
            BY <2>1, RuntimesStay DEF Reviews
        <3> QED
            BY <3>1, SameAllows
    <2> QED
        BY <1>2, <2>1, <2>2 DEF ReviewAt
<1> QED
    BY <1>1, <1>2

\* The guarded callback, if it stays what it is.
LEMMA CallbackStays ==
    ASSUME IInv, UNCHANGED <<registryEpoch, runtime, temporal, installed, context, callback>>
    PROVE  CallbackOK'
<1>1. CASE callback = None
    BY <1>1 DEF CallbackOK
<1>2. CASE callback # None
    <2>1. callback \in Callbacks /\ CallbackOK
        BY <1>2 DEF IInv, Typed
    <2>2. callback.runtime \in Runtimes
        BY <2>1 DEF Callbacks
    <2>3. Allows(callback.runtime, callback.case)' = Allows(callback.runtime, callback.case)
        BY SameAllows
    <2> QED
        BY <1>2, <2>1, <2>3 DEF CallbackOK
<1> QED
    BY <1>1, <1>2

-----------------------------------------------------------------------------
(* The operator's workflow.                                                *)

\* A step of the workflow alone, if the workflow stays in order.
LEMMA WorkflowStep ==
    ASSUME IInv, UNCHANGED <<registryEpoch, runtime, temporal, context, review, callback, installed>>,
           WorkflowOK', deployments' \subseteq Deployments, expired' \subseteq deployments',
           simulations' \subseteq [deployment : Deployments, relaxes : BOOLEAN, unsafe : BOOLEAN],
           approvals' \subseteq [deployment : Deployments, allow : BOOLEAN],
           used' \subseteq approvals'
    PROVE  IInv'
<1>1. Typed'
    BY DEF IInv, Typed
<1> QED
    BY <1>1, RuntimesStay, ReviewsStay, CallbackStays DEF IInv

\* prepare compiles a document for the present binding and the next epoch.
LEMMA PrepareStep ==
    ASSUME IInv, NEW r \in Runtimes, NEW p \in Policies, Prepare(r, p)
    PROVE  IInv'
<1>1. runtime[r] \in Bindings /\ runtime[r].epoch \in Nat /\ runtime[r].epoch + 1 \in 0..MaxEpoch
    <2>1. runtime[r] \in Bindings
        BY DEF IInv, Typed
    <2> QED
        BY <2>1, RuntimeConstants DEF Bindings, Prepare
<1>2. Compile(p, Maximum) \in Plans
    BY DEF Prepare, Plans
<1>3. deployments' \subseteq Deployments /\ deployments \subseteq deployments'
    BY <1>1, <1>2 DEF Prepare, Deployments, IInv, Typed, Binding
<1>4. UNCHANGED <<registryEpoch, runtime, temporal, expired, simulations, approvals, used,
                   context, review, callback, installed>>
    BY DEF Prepare
<1> QED
    BY <1>3, <1>4, WorkflowStep DEF IInv, Typed, WorkflowOK

\* The expiry of a deployment.
LEMMA ExpireStep ==
    ASSUME IInv, NEW d \in deployments, Expire(d)
    PROVE  IInv'
<1>1. UNCHANGED <<registryEpoch, runtime, temporal, deployments, simulations, approvals, used,
                   context, review, callback, installed>> /\ expired' \subseteq deployments'
    BY DEF Expire, IInv, Typed
<1> QED
    BY <1>1, WorkflowStep DEF IInv, Typed, WorkflowOK

\* simulate compares with the binding the deployment was prepared on.
LEMMA SimulateStep ==
    ASSUME IInv, NEW d \in deployments, NEW cases, Simulate(d, cases)
    PROVE  IInv'
<1> DEFINE s == [deployment |-> d,
                 relaxes |-> Relaxes(d.runtime, d.plan)
                        \/ \E c \in cases : /\ Evaluate(Baseline(d.runtime), c) # "execute"
                                            /\ Evaluate(d.plan, c) = "execute",
                 unsafe |-> \E c \in cases \cap Unsafe : Evaluate(d.plan, c) = "execute"]
<1>1. simulations' = simulations \cup {s}
    BY DEF Simulate
<1>2. d \in Deployments /\ d.base = runtime[d.runtime]
    BY DEF Simulate, Current, Binding, IInv, Typed
<1>3. s \in [deployment : Deployments, relaxes : BOOLEAN, unsafe : BOOLEAN]
    BY <1>2
<1>4. s.deployment = d /\ (RelaxesAt(d) => s.relaxes)
    BY <1>2 DEF RelaxesAt, Relaxes
<1>5. UNCHANGED <<registryEpoch, runtime, temporal, deployments, expired, approvals, used,
                   context, review, callback, installed>>
    BY DEF Simulate
<1> HIDE DEF s
<1>6. WorkflowOK'
    BY <1>1, <1>4, <1>5 DEF IInv, WorkflowOK
<1> QED
    BY <1>1, <1>3, <1>5, <1>6, WorkflowStep DEF IInv, Typed

\* approve asks for allow_relaxation where the simulation found a relaxation.
LEMMA ApproveStep ==
    ASSUME IInv, NEW s \in simulations, NEW allow \in BOOLEAN, Approve(s, allow)
    PROVE  IInv'
<1> DEFINE ap == [deployment |-> s.deployment, allow |-> allow]
<1>1. approvals' = approvals \cup {ap} /\ (s.relaxes => allow)
    BY DEF Approve
<1>2. s \in [deployment : Deployments, relaxes : BOOLEAN, unsafe : BOOLEAN]
    BY DEF IInv, Typed
<1>3. ap \in [deployment : Deployments, allow : BOOLEAN]
    BY <1>2
<1>4. RelaxesAt(s.deployment) => s.relaxes
    BY DEF IInv, WorkflowOK
<1>5. ap.deployment = s.deployment /\ ap.allow = allow
    OBVIOUS
<1>6. UNCHANGED <<registryEpoch, runtime, temporal, deployments, expired, simulations, used,
                   context, review, callback, installed>>
    BY DEF Approve
<1> HIDE DEF ap
<1>7. WorkflowOK'
    BY <1>1, <1>4, <1>5, <1>6 DEF IInv, WorkflowOK
<1> QED
    BY <1>1, <1>3, <1>6, <1>7, WorkflowStep DEF IInv, Typed
-----------------------------------------------------------------------------
(* Cutover and rebinding.                                                  *)

\* A runtime whose counters have moved on matches no binding of an earlier review; the
\* reviews of the other runtimes see nothing of it.
LEMMA BindingMoves ==
    ASSUME IInv, NEW r \in Runtimes, UNCHANGED review, runtime' \in [Runtimes -> Bindings],
           \A q \in Runtimes \ {r} : runtime'[q] = runtime[q] /\ temporal'[q] = temporal[q],
           runtime'[r].generation >= runtime[r].generation,
           runtime'[r].sources >= runtime[r].sources,
           \/ runtime'[r].generation > runtime[r].generation
           \/ runtime'[r].sources > runtime[r].sources
    PROVE  \A a \in Agents : ReviewAt(a)'
<1> SUFFICES ASSUME NEW a \in Agents PROVE ReviewAt(a)'
    OBVIOUS
<1>1. CASE review[a] = NoReview
    BY <1>1 DEF ReviewAt
<1>2. CASE review[a] # NoReview
    <2> DEFINE v == review[a]
    <2>1. v \in Reviews /\ ReviewAt(a)
        BY <1>2 DEF IInv, Typed
    <2>2. /\ v.runtime \in Runtimes /\ v.binding.generation \in Nat /\ v.binding.sources \in Nat
        BY <2>1 DEF Reviews, Bindings
    <2>3. CASE v.runtime = r
        <3>1. /\ v.binding.generation <= runtime[r].generation
              /\ v.binding.sources <= runtime[r].sources
              /\ v.step = "ticket" => v.result = "execute"
            BY <1>2, <2>1, <2>3 DEF ReviewAt
        <3>2. /\ runtime[r].generation \in Nat /\ runtime[r].sources \in Nat
              /\ runtime'[r].generation \in Nat /\ runtime'[r].sources \in Nat
            BY DEF IInv, Typed, Bindings
        <3>3. /\ v.binding.generation <= runtime'[r].generation
              /\ v.binding.sources <= runtime'[r].sources
              /\ v.binding # runtime'[r]
            BY <2>2, <3>1, <3>2
        <3> HIDE DEF v
        <3>4. v = review'[a]
            BY DEF v
        <3> QED
            BY <2>3, <3>1, <3>3, <3>4 DEF ReviewAt
    <2>4. CASE v.runtime # r
        <3>1. Allows(v.runtime, v.case)' = Allows(v.runtime, v.case)
            BY <2>2, <2>4, SameAllows
        <3>2. runtime'[v.runtime] = runtime[v.runtime]
            BY <2>2, <2>4
        <3> QED
            BY <1>2, <2>1, <3>1, <3>2 DEF ReviewAt
    <2> QED
        BY <2>3, <2>4
<1> QED
    BY <1>1, <1>2

\* What an activation may start from: the registry gives it the next epoch, and what it
\* relaxes was approved.
LEMMA ActivationIsDue ==
    ASSUME IInv, NEW ap \in approvals, Activatable(ap)
    PROVE  LET d == ap.deployment IN
           /\ d \in Deployments /\ d.runtime \in Runtimes /\ d.plan \in Plans
           /\ d.target = registryEpoch + 1 /\ d.target \in 0..MaxEpoch
           /\ runtime[d.runtime] \in Bindings /\ runtime[d.runtime].epoch = registryEpoch
           /\ d.base = runtime[d.runtime] /\ ap.allow \in BOOLEAN
           /\ RelaxesAt(d) => ap.allow
<1>1. ap \in [deployment : Deployments, allow : BOOLEAN] /\ (RelaxesAt(ap.deployment) => ap.allow)
    BY DEF IInv, Typed, WorkflowOK
<1>2. ap.deployment \in Deployments
    BY <1>1
<1>3. /\ runtime[ap.deployment.runtime].epoch = registryEpoch
      /\ ap.deployment.base = runtime[ap.deployment.runtime]
      /\ ap.deployment.target = runtime[ap.deployment.runtime].epoch + 1
    BY DEF Activatable, Current, Configured, Binding
<1> QED
    BY <1>1, <1>2, <1>3 DEF Deployments, IInv, Typed

\* The binding a cutover leaves, whatever step of it has failed.
LEMMA CutoverIs ==
    ASSUME IInv, NEW ap \in approvals, Activatable(ap), NEW at \in Faults, Cutover(ap, at)
    PROVE  LET d == ap.deployment
               r == d.runtime
               n == runtime'[r]
               i == [epoch |-> d.target, runtime |-> r, plan |-> d.plan, allow |-> ap.allow,
                     replaced |-> runtime[r].active]
           IN  /\ runtime' \in [Runtimes -> Bindings]
               /\ \A q \in Runtimes \ {r} : runtime'[q] = runtime[q]
               /\ n.epoch = d.target /\ n.generation = runtime[r].generation + 1
               /\ n.sources = runtime[r].sources
               /\ n.available = (at = "none")
               /\ at # "none" => n.active = None /\ installed' = installed
                                 /\ n.budget.limits = runtime[r].budget.limits
               /\ at = "none" =>
                      /\ n.active = d.plan /\ installed' = installed \cup {i}
                      /\ n.budget.epoch = d.target /\ n.delegation.fenced = d.target
                      /\ n.budget.limits = IF d.plan.budgets = <<>> THEN runtime[r].budget.limits
                                                                    ELSE d.plan.budgets
<1> DEFINE d == ap.deployment
           r == d.runtime
           now == runtime[r]
           n == [epoch |-> d.target, generation |-> now.generation + 1, sources |-> now.sources,
               facts |-> now.facts + 1,
               active |-> IF at = "none" THEN d.plan ELSE None,
               available |-> at = "none",
               budget |-> IF at = "none" THEN Migrated(r, d.plan, d.target) ELSE now.budget,
               delegation |-> IF Reached(at, "delegation")
                              THEN [now.delegation EXCEPT !.fenced = d.target] ELSE now.delegation]
<1>1. /\ d.plan \in Plans /\ r \in Runtimes /\ d.target \in Nat /\ now \in Bindings
    <2>1. d.plan \in Plans /\ r \in Runtimes /\ d.target \in 0..MaxEpoch /\ now \in Bindings
        BY ActivationIsDue
    <2> QED
        BY <2>1
<1>2. runtime' = [runtime EXCEPT ![r] = n]
    BY DEF Cutover
<1>3. Migrated(r, d.plan, d.target) \in [epoch : Nat, limits : Budgets]
    <2>1. now.budget.limits \in Budgets
        BY <1>1 DEF Bindings
    <2> QED
        BY <1>1, <2>1 DEF Migrated, Budgets
<1>4. [now.delegation EXCEPT !.fenced = d.target] \in [epoch : Nat, fenced : Nat]
    BY <1>1 DEF Bindings
<1>5. n \in Bindings
    BY <1>1, <1>3, <1>4 DEF Bindings, Actives
<1>6. runtime \in [Runtimes -> Bindings]
    BY DEF IInv, Typed
<1>7. runtime'[r] = n
    BY <1>1, <1>2, <1>6
<1>8. at = "none" => n.delegation.fenced = d.target
    BY <1>1 DEF Reached, Bindings
<1>9. installed' = IF at # "none" THEN installed ELSE installed \cup
              {[epoch |-> d.target, runtime |-> r, plan |-> d.plan, allow |-> ap.allow,
                replaced |-> now.active]}
    BY DEF Cutover
<1>10. runtime' \in [Runtimes -> Bindings] /\ \A q \in Runtimes \ {r} : runtime'[q] = runtime[q]
    <2> HIDE DEF n
    <2> QED
        BY <1>1, <1>2, <1>5, <1>6
<1> QED
    BY <1>7, <1>8, <1>9, <1>10 DEF Migrated

\* activate, with or without a step that fails, keeps the invariant.
LEMMA ActivateStep ==
    ASSUME IInv, NEW ap \in approvals, NEW at \in Faults, Activate(ap, at)
    PROVE  IInv'
<1> DEFINE d == ap.deployment
           r == d.runtime
           n == runtime'[r]
           i == [epoch |-> d.target, runtime |-> r, plan |-> d.plan, allow |-> ap.allow,
                 replaced |-> runtime[r].active]
<1>1. /\ callback = None /\ Activatable(ap) /\ used' = used \cup {ap} /\ Cutover(ap, at)
      /\ registryEpoch' = d.target
      /\ UNCHANGED <<temporal, deployments, expired, simulations, approvals, context, review, callback>>
    BY DEF Activate, AdvancePolicyEpoch
<1>2. /\ d \in Deployments /\ r \in Runtimes /\ d.plan \in Plans
      /\ d.target = registryEpoch + 1 /\ d.target \in 0..MaxEpoch
      /\ runtime[r] \in Bindings /\ runtime[r].epoch = registryEpoch
      /\ d.base = runtime[r] /\ ap.allow \in BOOLEAN
      /\ RelaxesAt(d) => ap.allow
    BY <1>1, ActivationIsDue
<1>3. /\ runtime' \in [Runtimes -> Bindings]
      /\ \A q \in Runtimes \ {r} : runtime'[q] = runtime[q]
      /\ n.epoch = d.target /\ n.generation = runtime[r].generation + 1
      /\ n.sources = runtime[r].sources
      /\ n.available = (at = "none")
    BY <1>1, CutoverIs
<1>4. at # "none" => n.active = None /\ installed' = installed
    BY <1>1, CutoverIs
<1>5. at = "none" =>
          /\ n.active = d.plan /\ installed' = installed \cup {i}
          /\ n.budget.epoch = d.target /\ n.delegation.fenced = d.target
          /\ n.budget.limits = IF d.plan.budgets = <<>> THEN runtime[r].budget.limits
                                                        ELSE d.plan.budgets
    BY <1>1, CutoverIs
<1>6. i \in Installed /\ i.epoch = registryEpoch + 1
      /\ i.runtime = r /\ i.plan = d.plan /\ i.allow = ap.allow /\ i.replaced = runtime[r].active
    BY <1>2 DEF Installed, Bindings
<1> HIDE DEF i
<1>7. /\ registryEpoch \in 0..MaxEpoch /\ registryEpoch \in Nat /\ installed \subseteq Installed
      /\ \A j \in installed : j.epoch \in Nat /\ j.epoch <= registryEpoch
    BY RuntimeConstants DEF IInv, Typed, InstalledOK, Installed
<1>8. installed' \subseteq Installed /\ installed \subseteq installed'
    BY <1>4, <1>5, <1>6, <1>7
<1>9. Typed'
    BY <1>1, <1>2, <1>3, <1>8 DEF IInv, Typed
<1>10. WorkflowOK' /\ CallbackOK'
    BY <1>1 DEF IInv, WorkflowOK, CallbackOK
<1>11. InstalledOK'
    <2>1. i.replaced # None /\ ~i.allow => ~PolicyRelaxes(i.replaced, i.plan)
        BY <1>2, <1>6 DEF RelaxesAt
    <2>2. \A j \in installed : j.epoch # i.epoch
        BY <1>6, <1>7
    <2>3. CASE at = "none"
        <3>1. installed' = installed \cup {i}
            BY <1>5, <2>3
        <3>2. \A j \in installed' : j.epoch <= registryEpoch'
            BY <1>1, <1>2, <1>6, <1>7, <3>1
        <3>3. \A j, k \in installed' : j.epoch = k.epoch => j = k
            BY <2>2, <3>1 DEF IInv, InstalledOK
        <3>4. \A j \in installed' : j.replaced # None /\ ~j.allow => ~PolicyRelaxes(j.replaced, j.plan)
            BY <2>1, <3>1 DEF IInv, InstalledOK
        <3> QED
            BY <3>2, <3>3, <3>4 DEF InstalledOK
    <2>4. CASE at # "none"
        <3>1. \A j \in installed' : j.epoch <= registryEpoch'
            BY <1>1, <1>2, <1>4, <1>7, <2>4
        <3> QED
            BY <1>4, <2>4, <3>1 DEF IInv, InstalledOK
    <2> QED
        BY <2>3, <2>4
<1>12. ASSUME NEW q \in Runtimes PROVE RuntimeAt(q)'
    <2>1. RuntimeAt(q) /\ runtime[q] \in Bindings /\ temporal[q] \in Nat
        BY DEF IInv, Typed
    <2>2. runtime[q].epoch \in Nat
        BY <2>1 DEF Bindings
    <2>3. temporal'[q] <= registryEpoch'
        BY <1>1, <1>2, <1>7, <2>1 DEF RuntimeAt
    <2>4. CASE q # r
        <3>1. runtime'[q] = runtime[q]
            BY <1>3, <2>4
        <3>2. runtime'[q].epoch <= registryEpoch'
            BY <1>1, <1>2, <1>7, <2>1, <2>2, <3>1 DEF RuntimeAt
        <3> QED
            BY <1>8, <2>1, <2>3, <3>1, <3>2 DEF RuntimeAt
    <2>5. CASE q = r
        <3>1. n.epoch <= registryEpoch'
            BY <1>1, <1>2, <1>3
        <3>2. CASE at = "none"
            <4>1. i \in installed'
                BY <1>5, <3>2
            <4>2. \E j \in installed' : j.epoch = n.epoch /\ j.plan = n.active /\ j.runtime = r
                BY <1>2, <1>3, <1>5, <1>6, <3>2, <4>1
            <4> HIDE DEF n
            <4>3. n = runtime'[r]
                BY DEF n
            <4> QED
                BY <1>3, <1>5, <2>3, <2>5, <3>1, <3>2, <4>2, <4>3 DEF RuntimeAt
        <3>3. CASE at # "none"
            BY <1>3, <1>4, <2>3, <2>5, <3>1, <3>3 DEF RuntimeAt
        <3> QED
            BY <3>2, <3>3
    <2> QED
        BY <2>4, <2>5
<1>13. \A a \in Agents : ReviewAt(a)'
    <2>1. runtime[r].generation \in Nat /\ runtime[r].sources \in Nat
        BY <1>2 DEF Bindings
    <2>2. \A q \in Runtimes \ {r} : temporal'[q] = temporal[q]
        BY <1>1
    <2> QED
        BY <1>1, <1>2, <1>3, <2>1, <2>2, BindingMoves
<1> QED
    BY <1>9, <1>10, <1>11, <1>12, <1>13 DEF IInv
\* The binding that rebind_sources makes.
Fresh(w, b, g) == [w EXCEPT !.sources = @ + 1, !.facts = @ + 1, !.budget = b, !.delegation = g]

\* It is a binding, and keeps what rebind_sources leaves alone.
LEMMA Rebound ==
    ASSUME NEW w \in Bindings, NEW b \in [epoch : Nat, limits : Budgets],
           NEW g \in [epoch : Nat, fenced : Nat]
    PROVE  LET n == Fresh(w, b, g)
           IN /\ n \in Bindings
              /\ n.epoch = w.epoch /\ n.generation = w.generation /\ n.sources = w.sources + 1
              /\ n.active = w.active /\ n.available = w.available
              /\ n.budget = b /\ n.delegation = g
<1>1. w.sources + 1 \in Nat /\ w.facts + 1 \in Nat
    BY DEF Bindings
<1> QED
    BY <1>1 DEF Bindings, Fresh

\* rebind_sources, with any of the three sources, keeps the invariant.
LEMMA RebindStep ==
    ASSUME IInv, NEW r \in Runtimes, NEW S \in SUBSET Sources, RebindSources(r, S)
    PROVE  IInv'
<1> DEFINE now == runtime[r]
           b == IF "budget" \in S THEN [epoch |-> registryEpoch, limits |-> RequiredLimits(r)]
                ELSE now.budget
           g == IF "delegation" \in S THEN [epoch |-> registryEpoch, fenced |-> registryEpoch]
                ELSE now.delegation
           n == runtime'[r]
<1>1. /\ callback = None /\ now.epoch = registryEpoch
      /\ UNCHANGED <<registryEpoch, workflow, context, review, callback, installed>>
      /\ temporal' = IF "temporal" \in S THEN [temporal EXCEPT ![r] = registryEpoch] ELSE temporal
    BY DEF RebindSources, Configured
<1>2. registryEpoch \in Nat /\ now \in Bindings /\ runtime \in [Runtimes -> Bindings]
    BY RuntimeConstants DEF IInv, Typed
<1>3. RequiredLimits(r) = now.budget.limits
    BY DEF RequiredLimits, IInv, RuntimeAt
<1>4. /\ b \in [epoch : Nat, limits : Budgets] /\ b.limits = now.budget.limits
      /\ now.budget.epoch = now.epoch => b.epoch = now.epoch
    BY <1>1, <1>2, <1>3 DEF Bindings
<1>5. /\ g \in [epoch : Nat, fenced : Nat]
      /\ now.delegation.fenced = now.epoch => g.fenced = now.epoch
    BY <1>1, <1>2 DEF Bindings
<1> HIDE DEF b, g
<1>6. runtime' = [runtime EXCEPT ![r] = Fresh(now, b, g)]
    BY DEF RebindSources, Fresh, b, g
<1>7. /\ n = Fresh(now, b, g)
      /\ \A q \in Runtimes \ {r} : runtime'[q] = runtime[q]
    BY <1>2, <1>6
<1>8. /\ n \in Bindings
      /\ n.epoch = now.epoch /\ n.generation = now.generation /\ n.sources = now.sources + 1
      /\ n.active = now.active /\ n.available = now.available /\ n.budget = b /\ n.delegation = g
    <2>1. b \in [epoch : Nat, limits : Budgets]
        BY <1>4
    <2>2. g \in [epoch : Nat, fenced : Nat]
        BY <1>5
    <2>3. now \in Bindings
        BY <1>2
    <2> HIDE DEF now, n
    <2> QED
        BY <2>1, <2>2, <2>3, <1>7, Rebound
<1>9. runtime' \in [Runtimes -> Bindings]
    BY <1>2, <1>6, <1>7, <1>8
<1>11. temporal' \in [Runtimes -> Nat] /\ \A q \in Runtimes \ {r} : temporal'[q] = temporal[q]
    BY <1>1, <1>2 DEF IInv, Typed
<1>12. Typed'
    BY <1>1, <1>9, <1>11 DEF IInv, Typed, workflow
<1>13. WorkflowOK' /\ InstalledOK' /\ CallbackOK'
    BY <1>1 DEF IInv, WorkflowOK, InstalledOK, CallbackOK, workflow
<1>14. ASSUME NEW q \in Runtimes PROVE RuntimeAt(q)'
    <2>1. RuntimeAt(q)
        BY DEF IInv
    <2>2. CASE q # r
        BY <1>1, <1>7, <1>11, <2>1, <2>2 DEF RuntimeAt
    <2>3. CASE q = r
        <3>1. temporal'[r] <= registryEpoch'
            BY <1>1, <1>2, <2>1, <2>3 DEF RuntimeAt, IInv, Typed
        <3>2. n.epoch <= registryEpoch'
            BY <1>1, <1>2, <1>8
        <3>3. n.available => /\ n.budget.epoch = n.epoch /\ n.delegation.fenced = n.epoch
                             /\ \E i \in installed' : i.epoch = n.epoch /\ i.plan = n.active
                                                                       /\ i.runtime = r
            BY <1>1, <1>4, <1>5, <1>8, <2>1, <2>3 DEF RuntimeAt
        <3>4. n.active # None /\ n.active.budgets # <<>> => n.budget.limits = n.active.budgets
            BY <1>4, <1>8, <2>1, <2>3 DEF RuntimeAt
        <3> QED
            BY <2>3, <3>1, <3>2, <3>3, <3>4 DEF RuntimeAt
    <2> QED
        BY <2>2, <2>3
<1>15. \A a \in Agents : ReviewAt(a)'
    <2>1. now.generation \in Nat /\ now.sources \in Nat
        BY <1>2 DEF Bindings
    <2>2. \A q \in Runtimes \ {r} : runtime'[q] = runtime[q] /\ temporal'[q] = temporal[q]
        BY <1>7, <1>11
    <2>3. /\ n.generation >= now.generation /\ n.sources >= now.sources
          /\ n.sources > now.sources
        BY <1>8, <2>1
    <2> QED
        BY <1>1, <1>9, <2>2, <2>3, BindingMoves
<1> QED
    BY <1>12, <1>13, <1>14, <1>15 DEF IInv

\* A new context for an agent: the one of the guarded callback is already current.
LEMMA RefreshStep ==
    ASSUME IInv, NEW a \in Agents, RefreshPolicyContext(a)
    PROVE  IInv'
<1>1. /\ context[a] < registryEpoch /\ context' = [context EXCEPT ![a] = registryEpoch]
      /\ UNCHANGED <<registryEpoch, runtime, temporal, workflow, review, callback, installed>>
    BY DEF RefreshPolicyContext
<1>2. Typed'
    BY <1>1 DEF IInv, Typed, workflow
<1>3. CallbackOK'
    <2>1. CASE callback = None
        BY <1>1, <2>1 DEF CallbackOK
    <2>2. CASE callback # None
        <3>1. callback \in Callbacks /\ CallbackOK
            BY <2>2 DEF IInv, Typed
        <3>2. callback.runtime \in Runtimes /\ callback.agent \in Agents
            BY <3>1 DEF Callbacks
        <3>3. callback.agent # a
            BY <1>1, <2>2, <3>1, RuntimeConstants DEF CallbackOK, IInv, Typed
        <3>4. context'[callback.agent] = context[callback.agent]
            BY <1>1, <3>2, <3>3 DEF IInv, Typed
        <3>5. Allows(callback.runtime, callback.case)' = Allows(callback.runtime, callback.case)
            BY <1>1, SameAllows
        <3> QED
            BY <1>1, <2>2, <3>1, <3>4, <3>5 DEF CallbackOK
    <2> QED
        BY <2>1, <2>2
<1>4. WorkflowOK'
    BY <1>1 DEF IInv, WorkflowOK, workflow
<1> QED
    BY <1>1, <1>2, <1>3, <1>4, RuntimesStay, ReviewsStay DEF IInv

-----------------------------------------------------------------------------
(* Reviews, tickets and callbacks.                                         *)

\* A step on the review of one agent alone.
LEMMA ReviewStep ==
    ASSUME IInv, UNCHANGED <<registryEpoch, runtime, temporal, workflow, context, callback, installed>>,
           NEW a \in Agents, NEW v \in {NoReview} \cup Reviews,
           review' = [review EXCEPT ![a] = v], ReviewAt(a)'
    PROVE  IInv'
<1>1. Typed'
    BY DEF IInv, Typed, workflow
<1>2. \A x \in Agents : ReviewAt(x)'
    <2> SUFFICES ASSUME NEW x \in Agents, x # a PROVE ReviewAt(x)'
        OBVIOUS
    <2>1. review'[x] = review[x]
        BY DEF IInv, Typed
    <2> QED
        BY <2>1, ReviewsStay
<1>3. WorkflowOK'
    BY DEF IInv, WorkflowOK, workflow
<1> QED
    BY <1>1, <1>2, <1>3, RuntimesStay, CallbackStays DEF IInv

\* A review begins with the binding of the moment.
LEMMA BeginStep ==
    ASSUME IInv, NEW a \in Agents, NEW r \in Runtimes, NEW c \in Situations, BeginReview(a, r, c)
    PROVE  IInv'
<1> DEFINE v == [step |-> "begun", runtime |-> r, case |-> c, context |-> context[a],
                 binding |-> Binding(r), temporal |-> temporal[r], result |-> "deny"]
<1>1. /\ review' = [review EXCEPT ![a] = v]
      /\ UNCHANGED <<registryEpoch, runtime, temporal, workflow, context, callback, installed>>
    BY DEF BeginReview
<1>2. runtime[r] \in Bindings /\ context[a] \in Nat /\ temporal[r] \in Nat
    BY RuntimeConstants DEF IInv, Typed
<1>3. v \in Reviews
    BY <1>2 DEF Reviews, Binding, Dispositions
<1>4. v.runtime = r /\ v.binding = runtime[r] /\ v.step = "begun"
    BY DEF Binding
<1>5. runtime[r].generation \in Nat /\ runtime[r].sources \in Nat
    BY <1>2 DEF Bindings
<1> HIDE DEF v
<1>6. review'[a] = v
    BY <1>1 DEF IInv, Typed
<1>7. ReviewAt(a)'
    BY <1>1, <1>4, <1>5, <1>6 DEF ReviewAt
<1> QED
    BY <1>1, <1>3, <1>7, ReviewStep

\* A review evaluates under the policy and the sources of the moment, which may no longer be
\* those it began with: then its binding is not the present one.
LEMMA EvaluateStep ==
    ASSUME IInv, NEW a \in Agents, EvaluateReview(a)
    PROVE  IInv'
<1>0. PICK u : u = review[a]
    OBVIOUS
<1> DEFINE v == [u EXCEPT !.step = "evaluated", !.result = Projection(a)]
           r == u.runtime
<1>1. /\ u.step = "begun" /\ review' = [review EXCEPT ![a] = v]
      /\ UNCHANGED <<registryEpoch, runtime, temporal, workflow, context, callback, installed>>
    BY <1>0 DEF EvaluateReview
<1>2. u \in Reviews /\ ReviewAt(a) /\ u # NoReview
    <2>1. u # NoReview
        BY <1>1 DEF NoReview
    <2> QED
        BY <1>0, <2>1 DEF IInv, Typed
<1>3. r \in Runtimes /\ u.case \in Situations /\ runtime[r] \in Bindings
    BY <1>2 DEF Reviews, IInv, Typed
<1>4. Projection(a) \in Dispositions /\ (Projection(a) = "execute" => Allows(r, u.case))
    <2>1. "deny" \in Dispositions
        BY DEF Dispositions
    <2>2. CASE ScopeCurrent(r, u.context) /\ context[a] = u.context
               /\ Supported(r, runtime[r].active)
               /\ (u.case.facts # None => u.binding = Binding(r))
        <3>1. runtime[r].active # None /\ runtime[r].active \in Plans
            BY <1>3, <2>2 DEF ScopeCurrent, Bindings, Actives
        <3>2. Evaluate(runtime[r].active, u.case) \in Dispositions
            BY <1>3, <3>1, PlansOK, EvaluateIs, RuntimeConstants
        <3>3. Projection(a) = Evaluate(runtime[r].active, u.case)
            BY <1>0, <2>2 DEF Projection
        <3> QED
            BY <2>2, <3>1, <3>2, <3>3 DEF Allows
    <2>3. CASE ~(ScopeCurrent(r, u.context) /\ context[a] = u.context
               /\ Supported(r, runtime[r].active)
               /\ (u.case.facts # None => u.binding = Binding(r)))
        BY <1>0, <2>1, <2>3 DEF Projection
    <2> QED
        BY <2>2, <2>3
<1>5. v \in Reviews /\ v.step = "evaluated" /\ v.result = Projection(a) /\ v.runtime = r
      /\ v.binding = u.binding /\ v.case = u.case
    BY <1>2, <1>4 DEF Reviews
<1>6. u.binding.generation <= runtime[r].generation /\ u.binding.sources <= runtime[r].sources
    BY <1>0, <1>2 DEF ReviewAt
<1>7. Allows(r, u.case)' = Allows(r, u.case)
    BY <1>1, SameAllows
<1>8. review'[a] = v
    BY <1>1 DEF IInv, Typed
<1> HIDE DEF v
<1>9. ReviewAt(a)'
    BY <1>1, <1>4, <1>5, <1>6, <1>7, <1>8 DEF ReviewAt
<1> QED
    BY <1>1, <1>5, <1>9, ReviewStep

\* A decision leaves a ticket, or nothing.
LEMMA DecideStep ==
    ASSUME IInv, NEW a \in Agents, Decide(a)
    PROVE  IInv'
<1>0. PICK u : u = review[a]
    OBVIOUS
<1> DEFINE v == [u EXCEPT !.step = "ticket"]
<1>1. /\ u.step = "evaluated"
      /\ UNCHANGED <<registryEpoch, runtime, temporal, workflow, context, callback, installed>>
      /\ review' = [review EXCEPT ![a] =
             IF BindingMatches(a) /\ u.result = "execute" THEN v ELSE NoReview]
    BY <1>0 DEF Decide
<1>2. u \in Reviews /\ ReviewAt(a) /\ u # NoReview
    <2>1. u # NoReview
        BY <1>1 DEF NoReview
    <2> QED
        BY <1>0, <2>1 DEF IInv, Typed
<1>3. CASE BindingMatches(a) /\ u.result = "execute"
    <2>1. /\ v \in Reviews /\ v.step = "ticket" /\ v.result = u.result /\ v.runtime = u.runtime
          /\ v.binding = u.binding /\ v.case = u.case
        BY <1>2 DEF Reviews
    <2>2. review' = [review EXCEPT ![a] = v]
        BY <1>1, <1>3
    <2>3. Allows(u.runtime, u.case)' = Allows(u.runtime, u.case)
        BY <1>1, SameAllows
    <2>4. review'[a] = v
        BY <2>2 DEF IInv, Typed
    <2>5. /\ u.binding.generation <= runtime[u.runtime].generation
          /\ u.binding.sources <= runtime[u.runtime].sources
          /\ u.binding = runtime[u.runtime] => Allows(u.runtime, u.case)
        BY <1>0, <1>1, <1>2, <1>3 DEF ReviewAt
    <2> HIDE DEF v
    <2>6. ReviewAt(a)'
        BY <1>1, <1>3, <2>1, <2>3, <2>4, <2>5 DEF ReviewAt
    <2> QED
        BY <1>1, <2>1, <2>2, <2>6, ReviewStep
<1>4. CASE ~(BindingMatches(a) /\ u.result = "execute")
    <2>1. review' = [review EXCEPT ![a] = NoReview]
        BY <1>1, <1>4
    <2>2. review'[a] = NoReview
        BY <2>1 DEF IInv, Typed
    <2>3. ReviewAt(a)'
        BY <2>2 DEF ReviewAt
    <2> QED
        BY <1>1, <2>1, <2>3, ReviewStep
<1> QED
    BY <1>3, <1>4

\* A ticket that is canceled or expires is gone.
LEMMA DropStep ==
    ASSUME IInv, NEW a \in Agents, Drop(a)
    PROVE  IInv'
<1>1. /\ review' = [review EXCEPT ![a] = NoReview]
      /\ UNCHANGED <<registryEpoch, runtime, temporal, workflow, context, callback, installed>>
    BY DEF Drop
<1>2. review'[a] = NoReview
    BY <1>1 DEF IInv, Typed
<1>3. ReviewAt(a)'
    BY <1>2 DEF ReviewAt
<1> QED
    BY <1>1, <1>3, ReviewStep

\* A callback starts only on a ticket whose binding is the present one, under the guard.
LEMMA ForwardStep ==
    ASSUME IInv, NEW a \in Agents, Forward(a)
    PROVE  IInv'
<1>0. PICK u : u = review[a]
    OBVIOUS
<1> DEFINE r == u.runtime
           k == [agent |-> a, runtime |-> r, case |-> u.case, binding |-> u.binding]
<1>1. /\ u.step = "ticket" /\ ScopeCurrent(r, context[a])
      /\ review' = [review EXCEPT ![a] = NoReview]
      /\ callback' = IF ~BindingMatches(a) THEN None ELSE k
      /\ UNCHANGED <<registryEpoch, runtime, temporal, workflow, context, installed>>
    BY <1>0 DEF Forward
<1>2. u \in Reviews /\ ReviewAt(a) /\ u # NoReview
    <2>1. u # NoReview
        BY <1>1 DEF NoReview
    <2> QED
        BY <1>0, <2>1 DEF IInv, Typed
<1>3. k \in Callbacks
    BY <1>2 DEF Reviews, Callbacks
<1>4. Typed'
    BY <1>1, <1>3 DEF IInv, Typed, workflow
<1>5. ASSUME NEW x \in Agents PROVE ReviewAt(x)'
    <2>1. CASE x = a
        <3>1. review'[a] = NoReview
            BY <1>1 DEF IInv, Typed
        <3> QED
            BY <2>1, <3>1 DEF ReviewAt
    <2>2. CASE x # a
        <3>1. review'[x] = review[x]
            BY <1>1, <2>2 DEF IInv, Typed
        <3> QED
            BY <1>1, <3>1, ReviewsStay
    <2> QED
        BY <2>1, <2>2
<1>6. CallbackOK'
    <2>1. CASE ~BindingMatches(a)
        BY <1>1, <2>1 DEF CallbackOK
    <2>2. CASE BindingMatches(a)
        <3>1. u.binding = runtime[r] /\ runtime[r].epoch = registryEpoch
              /\ context[a] = registryEpoch
            BY <1>0, <1>1, <2>2 DEF BindingMatches, Binding, Configured, ScopeCurrent
        <3>2. Allows(r, u.case)
            BY <1>0, <1>1, <1>2, <3>1 DEF ReviewAt
        <3>3. Allows(r, u.case)'
            BY <1>1, <3>2, SameAllows
        <3>4. callback' = k
            BY <1>1, <2>2
        <3> QED
            BY <1>1, <3>1, <3>3, <3>4 DEF CallbackOK
    <2> QED
        BY <2>1, <2>2
<1>7. WorkflowOK'
    BY <1>1 DEF IInv, WorkflowOK, workflow
<1> QED
    BY <1>1, <1>4, <1>5, <1>6, <1>7, RuntimesStay DEF IInv

\* The end of a callback.
LEMMA FinishStep ==
    ASSUME IInv, Finish
    PROVE  IInv'
<1>1. /\ callback' = None
      /\ UNCHANGED <<registryEpoch, runtime, temporal, workflow, context, review, installed>>
    BY DEF Finish
<1>2. Typed' /\ CallbackOK' /\ WorkflowOK'
    BY <1>1 DEF IInv, Typed, CallbackOK, WorkflowOK, workflow
<1> QED
    BY <1>1, <1>2, RuntimesStay, ReviewsStay DEF IInv
-----------------------------------------------------------------------------
(* The invariant, and what follows from it.                                *)

\* A registry starts at epoch 0 with runtimes that have no policy.
LEMMA InitOK == Init => IInv
<1> SUFFICES ASSUME Init PROVE IInv
    OBVIOUS
<1>1. /\ registryEpoch = 0 /\ deployments = {} /\ expired = {} /\ simulations = {}
      /\ approvals = {} /\ used = {} /\ installed = {} /\ callback = None
      /\ temporal = [r \in Runtimes |-> 0] /\ context = [a \in Agents |-> 0]
      /\ review = [a \in Agents |-> NoReview]
    BY DEF Init
<1>2. \A r \in Runtimes :
          /\ runtime[r] \in Bindings
          /\ runtime[r].epoch = 0 /\ runtime[r].active = None /\ runtime[r].available = FALSE
    <2> SUFFICES ASSUME NEW r \in Runtimes
                 PROVE  /\ runtime[r] \in Bindings
                        /\ runtime[r].epoch = 0 /\ runtime[r].active = None
                        /\ runtime[r].available = FALSE
        OBVIOUS
    <2>1. runtime[r] = [epoch |-> 0, generation |-> 0, sources |-> 0, facts |-> 0,
                        active |-> None, available |-> FALSE,
                        budget |-> [epoch |-> 0, limits |-> Maximum.budgets],
                        delegation |-> [epoch |-> 0, fenced |-> 0]]
        BY DEF Init
    <2>2. None \in Actives /\ Maximum.budgets \in Budgets
        BY DEF Actives, Budgets
    <2> QED
        BY <2>1, <2>2 DEF Bindings
<1>3. runtime \in [Runtimes -> Bindings]
    BY <1>2 DEF Init
<1>4. Typed
    BY <1>1, <1>3, RuntimeConstants DEF Typed
<1>5. WorkflowOK /\ InstalledOK /\ CallbackOK
    BY <1>1 DEF WorkflowOK, InstalledOK, CallbackOK
<1>6. \A r \in Runtimes : RuntimeAt(r)
    BY <1>1, <1>2 DEF RuntimeAt
<1>7. \A a \in Agents : ReviewAt(a)
    BY <1>1 DEF ReviewAt
<1> QED
    BY <1>4, <1>5, <1>6, <1>7 DEF IInv

\* Every step keeps the invariant.
LEMMA NextOK == IInv /\ [Next]_vars => IInv'
<1> SUFFICES ASSUME IInv, [Next]_vars PROVE IInv'
    OBVIOUS
<1>1. CASE UNCHANGED vars
    <2>1. /\ UNCHANGED <<registryEpoch, runtime, temporal, context, review, callback, installed>>
          /\ UNCHANGED workflow
        BY <1>1 DEF vars
    <2> QED
        BY <2>1, WorkflowStep DEF IInv, Typed, WorkflowOK, workflow
<1>2. ASSUME NEW r \in Runtimes, NEW p \in Policies, Prepare(r, p) PROVE IInv'
    BY <1>2, PrepareStep
<1>3. ASSUME NEW d \in deployments, Expire(d) PROVE IInv'
    BY <1>3, ExpireStep
<1>4. ASSUME NEW d \in deployments, NEW cases \in SUBSET Situations \ {{}}, Simulate(d, cases)
      PROVE  IInv'
    BY <1>4, SimulateStep
<1>5. ASSUME NEW s \in simulations, NEW allow \in BOOLEAN, Approve(s, allow) PROVE IInv'
    BY <1>5, ApproveStep
<1>6. ASSUME NEW ap \in approvals, NEW at \in Faults, Activate(ap, at) PROVE IInv'
    BY <1>6, ActivateStep
<1>7. ASSUME NEW r \in Runtimes, NEW S \in SUBSET Sources, RebindSources(r, S) PROVE IInv'
    BY <1>7, RebindStep
<1>8. ASSUME NEW a \in Agents, RefreshPolicyContext(a) PROVE IInv'
    BY <1>8, RefreshStep
<1>9. ASSUME NEW a \in Agents, NEW r \in Runtimes, NEW c \in Situations, BeginReview(a, r, c)
      PROVE  IInv'
    BY <1>9, BeginStep
<1>10. ASSUME NEW a \in Agents, EvaluateReview(a) PROVE IInv'
    BY <1>10, EvaluateStep
<1>11. ASSUME NEW a \in Agents, Decide(a) PROVE IInv'
    BY <1>11, DecideStep
<1>12. ASSUME NEW a \in Agents, Drop(a) PROVE IInv'
    BY <1>12, DropStep
<1>13. ASSUME NEW a \in Agents, Forward(a) PROVE IInv'
    BY <1>13, ForwardStep
<1>14. CASE Finish
    BY <1>14, FinishStep
<1> QED
    BY <1>1, <1>2, <1>3, <1>4, <1>5, <1>6, <1>7, <1>8, <1>9, <1>10, <1>11, <1>12, <1>13, <1>14
    DEF Next

\* The invariant holds in every state: epochs, bindings, reviews and history agree.
THEOREM Consistent == Spec => []IInv
BY InitOK, NextOK, PTL DEF Spec

\* A state of the invariant is one of CutoverIsWhole.
LEMMA InvariantIsWhole == IInv => CutoverIsWhole
<1> SUFFICES ASSUME IInv PROVE CutoverIsWhole
    OBVIOUS
<1>1. TypeOK
    <2>1. ASSUME NEW r \in Runtimes
          PROVE  /\ runtime[r].epoch \in 0..registryEpoch
                 /\ runtime[r].active \in Plans \cup {None}
                 /\ runtime[r].available \in BOOLEAN
                 /\ temporal[r] \in 0..registryEpoch
        <3>1. runtime[r] \in Bindings /\ temporal[r] \in Nat /\ registryEpoch \in Nat
            BY RuntimeConstants DEF IInv, Typed
        <3>2. runtime[r].epoch <= registryEpoch /\ temporal[r] <= registryEpoch
            BY DEF IInv, RuntimeAt
        <3>3. /\ runtime[r].epoch \in Nat /\ runtime[r].active \in Actives
              /\ runtime[r].available \in BOOLEAN
            BY <3>1 DEF Bindings
        <3> QED
            BY <3>1, <3>2, <3>3 DEF Actives
    <2>2. \A a \in Agents : review[a].step \in {"idle", "begun", "evaluated", "ticket"}
        <3> SUFFICES ASSUME NEW a \in Agents
                     PROVE  review[a].step \in {"idle", "begun", "evaluated", "ticket"}
            OBVIOUS
        <3>1. CASE review[a] = NoReview
            BY <3>1 DEF NoReview
        <3>2. CASE review[a] \in Reviews
            BY <3>2 DEF Reviews
        <3> QED
            BY <3>1, <3>2 DEF IInv, Typed
    <2>3. callback # None => callback.agent \in Agents /\ callback.case \in Situations
        BY DEF IInv, Typed, Callbacks
    <2> QED
        BY <2>1, <2>2, <2>3 DEF TypeOK, IInv, Typed
<1>2. CallbackIsCurrent
    BY DEF IInv, CallbackOK, CallbackIsCurrent, Allows, Configured, Binding
<1>3. AvailableMeansComplete
    BY DEF IInv, RuntimeAt, AvailableMeansComplete
<1>4. EpochIsUsedOnce
    BY DEF IInv, InstalledOK, EpochIsUsedOnce
<1> QED
    BY <1>1, <1>2, <1>3, <1>4 DEF CutoverIsWhole

\* A callback runs under the policy, epoch and sources it was reviewed with, an available
\* runtime has every step of its cutover done, and no epoch is given out twice: activate,
\* rebind_sources and execution_guard, however many runtimes and agents there are.
THEOREM CutoverWhole == Spec => []CutoverIsWhole
BY Consistent, InvariantIsWhole, PTL
\* Limits that are numbers are not wider than themselves.
LEMMA SameLimits ==
    ASSUME NEW l, LimitsOK(l)
    PROVE  ~BudgetsRelaxed(l, l)
BY DEF LimitsOK, BudgetsRelaxed

\* A step that widens the limits of a runtime is an activation with allow_relaxation.
LEMMA WideningIsAllowed ==
    ASSUME IInv, [Next]_vars, NEW r \in Runtimes,
           BudgetsRelaxed(runtime[r].budget.limits, runtime'[r].budget.limits)
    PROVE  \E i \in installed' \ installed : i.runtime = r /\ i.allow
<1>1. runtime[r] \in Bindings
    BY DEF IInv, Typed
<1>2. runtime[r].budget.limits \in Budgets
    BY <1>1 DEF Bindings
<1>3. runtime'[r].budget.limits # runtime[r].budget.limits
    BY <1>2, BudgetsOK, SameLimits
<1>4. CASE UNCHANGED runtime
    BY <1>3, <1>4
<1>5. ASSUME NEW q \in Runtimes, NEW S \in SUBSET Sources, RebindSources(q, S) PROVE FALSE
    <2>1. RequiredLimits(q) = runtime[q].budget.limits
        BY DEF RequiredLimits, IInv, RuntimeAt
    <2>2. runtime \in [Runtimes -> Bindings] /\ runtime[q] \in Bindings
        BY DEF IInv, Typed
    <2>3. runtime' = [runtime EXCEPT
              ![q].sources = @ + 1, ![q].facts = @ + 1,
              ![q].budget = IF "budget" \in S
                            THEN [epoch |-> registryEpoch, limits |-> RequiredLimits(q)] ELSE @,
              ![q].delegation = IF "delegation" \in S
                                THEN [epoch |-> registryEpoch, fenced |-> registryEpoch] ELSE @]
        BY <1>5 DEF RebindSources
    <2>4. CASE q # r
        BY <1>3, <2>2, <2>3, <2>4
    <2>5. CASE q = r
        <3>1. runtime'[r].budget = IF "budget" \in S
                                   THEN [epoch |-> registryEpoch, limits |-> RequiredLimits(q)]
                                   ELSE runtime[r].budget
            BY <2>2, <2>3, <2>5 DEF Bindings
        <3> QED
            BY <1>3, <2>1, <2>5, <3>1
    <2> QED
        BY <2>4, <2>5
<1>6. ASSUME NEW ap \in approvals, NEW at \in Faults, Activate(ap, at)
      PROVE  \E i \in installed' \ installed : i.runtime = r /\ i.allow
    <2> DEFINE d == ap.deployment
               i == [epoch |-> d.target, runtime |-> d.runtime, plan |-> d.plan,
                     allow |-> ap.allow, replaced |-> runtime[d.runtime].active]
    <2>1. Activatable(ap) /\ Cutover(ap, at)
        BY <1>6 DEF Activate
    <2>2. /\ d.target = registryEpoch + 1 /\ d.base = runtime[d.runtime]
          /\ RelaxesAt(d) => ap.allow
        BY <2>1, ActivationIsDue
    <2>3. /\ \A q \in Runtimes \ {d.runtime} : runtime'[q] = runtime[q]
          /\ at # "none" => runtime'[d.runtime].budget.limits = runtime[d.runtime].budget.limits
          /\ at = "none" =>
                 /\ installed' = installed \cup {i}
                 /\ runtime'[d.runtime].budget.limits =
                        IF d.plan.budgets = <<>> THEN runtime[d.runtime].budget.limits
                                                 ELSE d.plan.budgets
        BY <2>1, CutoverIs
    <2>4. d.runtime = r /\ at = "none" /\ d.plan.budgets # <<>>
          /\ runtime'[r].budget.limits = d.plan.budgets
        BY <1>3, <2>3
    <2>5. i \in installed' /\ i.runtime = r /\ i.allow = ap.allow /\ i.epoch = registryEpoch + 1
        BY <2>2, <2>3, <2>4
    <2>6. ap.allow
        BY <2>2, <2>4 DEF RelaxesAt
    <2>7. i \notin installed
        <3>1. registryEpoch \in Nat /\ \A j \in installed : j.epoch \in Nat /\ j.epoch <= registryEpoch
            BY RuntimeConstants DEF IInv, Typed, InstalledOK, Installed
        <3> QED
            BY <2>5, <3>1
    <2> QED
        BY <2>5, <2>6, <2>7
<1>7. CASE \E q \in Runtimes, p \in Policies : Prepare(q, p)
    BY <1>4, <1>7 DEF Prepare
<1>8. CASE \E d \in deployments : Expire(d) \/ \E cases \in SUBSET Situations \ {{}} : Simulate(d, cases)
    BY <1>4, <1>8 DEF Expire, Simulate
<1>9. CASE \E s \in simulations, allow \in BOOLEAN : Approve(s, allow)
    BY <1>4, <1>9 DEF Approve
<1>10. CASE \E a \in Agents : \/ RefreshPolicyContext(a)
                              \/ \E q \in Runtimes, c \in Situations : BeginReview(a, q, c)
                              \/ EvaluateReview(a) \/ Decide(a) \/ Drop(a) \/ Forward(a)
    BY <1>4, <1>10 DEF RefreshPolicyContext, BeginReview, EvaluateReview, Decide, Drop, Forward
<1>11. CASE Finish \/ UNCHANGED vars
    BY <1>4, <1>11 DEF Finish, vars
<1> QED
    BY <1>5, <1>6, <1>7, <1>8, <1>9, <1>10, <1>11 DEF Next

\* No activation without allow_relaxation and no replacement of a ledger raises a limit
\* that an operator has approved: _relaxes, rebind_sources and the migration of the ledger.
THEOREM LimitsKept == Spec => LimitsAreKept
<1>1. IInv /\ [Next]_vars =>
          [\A r \in Runtimes :
              BudgetsRelaxed(runtime[r].budget.limits, runtime'[r].budget.limits)
                  => \E i \in installed' \ installed : i.runtime = r /\ i.allow]_vars
    BY WideningIsAllowed
<1> QED
    BY <1>1, Consistent, PTL DEF Spec, LimitsAreKept

\* The documents whose execute rules select only on what the core review always knows.
DecidedPolicies == \A p \in Policies : Decided(p)

\* An activation without allow_relaxation does not weaken the policy it replaces on any
\* situation: the structural review of prepare sees everything the corpus may miss, provided
\* the documents are decided.
THEOREM NothingHidden ==
    ASSUME DecidedPolicies
    PROVE  Spec => []NoHiddenRelaxation
<1>1. ASSUME IInv PROVE NoHiddenRelaxation
    <2> SUFFICES ASSUME NEW i \in installed, i.replaced # None, ~i.allow,
                        Weaker(i.replaced, i.plan)
                 PROVE  FALSE
        BY DEF NoHiddenRelaxation
    <2>1. i.plan \in Plans /\ i.replaced \in Plans
        BY <1>1 DEF IInv, Typed, Installed, Actives
    <2>2. PICK b : b = i.replaced
        OBVIOUS
    <2>3. PICK a : a = i.plan
        OBVIOUS
    <2>4. /\ PlanOK(b) /\ PlanOK(a) /\ a.agents = b.agents
        BY <2>1, <2>2, <2>3, PlansOK
    <2>5. Decided(b)
        <3>1. PICK q \in Policies : b = Compile(q, Maximum)
            BY <2>1, <2>2 DEF Plans
        <3>2. Decided(q) /\ b.rules = q.rules
            BY <3>1 DEF DecidedPolicies, Compile
        <3> QED
            BY <3>2 DEF Decided
    <2>6. ~PolicyRelaxes(b, a)
        BY <1>1, <2>2, <2>3 DEF IInv, InstalledOK
    <2>7. PICK c \in Situations : Rank[Evaluate(a, c)] < Rank[Evaluate(b, c)]
        BY <2>2, <2>3 DEF Weaker
    <2>8. c.baseline \in Dispositions
        BY RuntimeConstants
    <2>9. Rank[Evaluate(b, c)] <= Rank[Evaluate(a, c)]
        BY <2>4, <2>5, <2>6, <2>8, ReviewIsComplete
    <2>10. Evaluate(a, c) \in Dispositions /\ Evaluate(b, c) \in Dispositions
        BY <2>4, <2>8, EvaluateIs
    <2> QED
        BY <2>7, <2>9, <2>10, Ranks
<1> QED
    BY <1>1, Consistent, PTL
-----------------------------------------------------------------------------
(* The replay beside the runtime.                                          *)

\* What the proofs about the replay need of its state.
ReplayInv ==
    /\ setting \in DOMAIN Settings
    /\ base # None => \E p \in Settings[setting].policies :
           Compilable(p, Operator) /\ base = Compile(p, Operator)
    /\ candidate # None => base # None /\ \E p \in Settings[setting].policies :
           Compilable(p, Operator) /\ candidate = Compile(p, Operator)
    /\ situation # None => candidate # None /\ situation \in Settings[setting].situations

\* The replay only evaluates what compile has made of documents of its setting.
THEOREM ReplayConsistent == PolicySpec => []ReplayInv
<1>1. ReplayInit => ReplayInv
    BY DEF ReplayInit, ReplayInv
<1>2. ReplayInv /\ [PolicyNext]_<<vars, replay>> => ReplayInv'
    <2> SUFFICES ASSUME ReplayInv, [PolicyNext]_<<vars, replay>> PROVE ReplayInv'
        OBVIOUS
    <2>1. CASE UNCHANGED replay
        BY <2>1 DEF ReplayInv, Operator, replay
    <2>2. ASSUME NEW p \in Settings[setting].policies, Install(p) PROVE ReplayInv'
        BY <2>2 DEF ReplayInv, Operator, Install
    <2>3. ASSUME NEW p \in Settings[setting].policies, Propose(p) PROVE ReplayInv'
        BY <2>3 DEF ReplayInv, Operator, Propose
    <2>4. ASSUME NEW c \in Settings[setting].situations, Replay(c) PROVE ReplayInv'
        BY <2>4 DEF ReplayInv, Operator, Replay
    <2> QED
        BY <2>1, <2>2, <2>3, <2>4 DEF PolicyNext, ReplayNext, replay
<1> QED
    BY <1>1, <1>2, PTL DEF PolicySpec

\* The plans and the situation of a replay are what the operators' theorems are about.
LEMMA ReplayTyped ==
    ASSUME ReplayInv
    PROVE  /\ base # None => PlanOK(base) /\ base.agents = Operator.agents
           /\ candidate # None => PlanOK(candidate) /\ candidate.agents = Operator.agents
           /\ situation # None => Fields \subseteq DOMAIN situation
                                  /\ situation.baseline \in Dispositions
<1>1. ASSUME NEW p \in Settings[setting].policies, NEW q, q = Compile(p, Operator)
      PROVE  PlanOK(q) /\ q.agents = Operator.agents
    <2>1. DocumentOK(p)
        BY ReplayConstants DEF ReplayInv
    <2> QED
        BY <1>1, <2>1 DEF DocumentOK, PlanOK, Compile
<1> QED
    BY <1>1, ReplayConstants DEF ReplayInv

\* MissingFactsNeverHelp in every state of the replay: what a document leaves out comes from
\* the operator's maximum, what a review leaves out is never in its favour.
THEOREM MissingFacts == PolicySpec => []MissingFactsNeverHelp
<1>1. ASSUME ReplayInv PROVE MaximumIsKept
    <2>1. ASSUME base # None
          PROVE  \E p \in Settings[setting].policies :
                    DocumentOK(p) /\ Compilable(p, Operator) /\ base = Compile(p, Operator)
        BY <1>1, <2>1, ReplayConstants DEF ReplayInv
    <2>2. LimitsOK(Operator.budgets)
        BY <1>1, ReplayConstants DEF ReplayInv, Operator
    <2>3. PICK m : m = Operator
        OBVIOUS
    <2>4. PICK c : c = situation
        OBVIOUS
    <2>5. c # None => base # None /\ c.baseline \in Dispositions
        BY <1>1, <2>4, ReplayTyped DEF ReplayInv
    <2>6. ASSUME base # None
          PROVE  /\ c # None /\ Evaluate(base, c) = "execute"
                       => /\ m.agents = None \/ c.agent \in m.agents
                          /\ ~Forbidden(m.permissions, c) /\ ~UnknownToPermissions(m.permissions, c)
                          /\ \A k \in m.checks : CheckStatus(c, k) = "satisfied"
                 /\ \A k \in DOMAIN m.budgets :
                        k \in DOMAIN base.budgets /\ base.budgets[k] <= m.budgets[k]
        <3>1. PICK p \in Settings[setting].policies :
                 DocumentOK(p) /\ Compilable(p, m) /\ base = Compile(p, m)
            BY <2>1, <2>3, <2>6
        <3> QED
            BY <2>2, <2>3, <2>5, <3>1, CompileKeepsMaximum
    <2> QED
        BY <2>3, <2>4, <2>5, <2>6 DEF MaximumIsKept
<1>2. ASSUME ReplayInv PROVE FactsNeverHelp
    <2> SUFFICES ASSUME situation # None, situation.facts # None,
                        situation.facts.labels # None => "unclassified" \notin situation.facts.labels,
                        \A k \in DOMAIN situation.facts.checks :
                            situation.facts.checks[k] = "satisfied",
                        Evaluate(base, [situation EXCEPT !.facts = None]) = "execute"
                 PROVE  Evaluate(base, situation) = "execute"
        BY DEF FactsNeverHelp
    <2>1. PICK c : c = situation
        OBVIOUS
    <2>2. PICK b : b = base
        OBVIOUS
    <2>3. PlanOK(b) /\ Fields \subseteq DOMAIN c /\ c.baseline \in Dispositions
        BY <1>2, <2>1, <2>2, ReplayTyped DEF ReplayInv
    <2>4. /\ c.facts # None
          /\ c.facts.labels # None => "unclassified" \notin c.facts.labels
          /\ \A k \in DOMAIN c.facts.checks : c.facts.checks[k] = "satisfied"
          /\ Evaluate(b, [c EXCEPT !.facts = None]) = "execute"
        BY <2>1, <2>2
    <2>5. Evaluate(b, c) = "execute"
        BY <2>3, <2>4, NeverForWantOfFacts
    <2> QED
        BY <2>1, <2>2, <2>5
<1> QED
    BY <1>1, <1>2, ReplayConsistent, PTL DEF MissingFactsNeverHelp

\* The runtime's part of a behaviour.
LEMMA RuntimeRuns == PolicySpec => Spec
<1>1. [PolicyNext]_<<vars, replay>> => [Next]_vars
    BY DEF PolicyNext
<1> QED
    BY <1>1, PTL DEF PolicySpec, Spec

\* The documents of the replay are decided as well.
DecidedSettings == \A s \in DOMAIN Settings : \A p \in Settings[s].policies : Decided(p)

\* RelaxationIsSeen: an activation without allow_relaxation weakens no situation and no limit,
\* and the structural review calls every weaker candidate a relaxation, provided the documents
\* are decided.
THEOREM RelaxationSeen ==
    ASSUME DecidedPolicies, DecidedSettings
    PROVE  PolicySpec => RelaxationIsSeen
<1>1. ASSUME ReplayInv PROVE ReviewSeesRelaxation
    <2> SUFFICES ASSUME situation # None, ~PolicyRelaxes(base, candidate)
                 PROVE  Rank[Evaluate(base, situation)] <= Rank[Evaluate(candidate, situation)]
        BY DEF ReviewSeesRelaxation
    <2>1. PICK c : c = situation
        OBVIOUS
    <2>2. PICK b : b = base
        OBVIOUS
    <2>3. PICK a : a = candidate
        OBVIOUS
    <2>4. /\ PlanOK(b) /\ PlanOK(a) /\ a.agents = b.agents
          /\ c.baseline \in Dispositions /\ ~PolicyRelaxes(b, a)
        BY <1>1, <2>1, <2>2, <2>3, ReplayTyped DEF ReplayInv
    <2>5. Decided(b)
        <3>1. PICK p \in Settings[setting].policies : b = Compile(p, Operator)
            BY <1>1, <2>2 DEF ReplayInv
        <3>2. Decided(p) /\ b.rules = p.rules
            BY <1>1, <3>1 DEF ReplayInv, DecidedSettings, Compile
        <3> QED
            BY <3>2 DEF Decided
    <2>6. Rank[Evaluate(b, c)] <= Rank[Evaluate(a, c)]
        BY <2>4, <2>5, ReviewIsComplete
    <2> QED
        BY <2>1, <2>2, <2>3, <2>6
<1> QED
    BY <1>1, ReplayConsistent, RuntimeRuns, NothingHidden, LimitsKept, PTL DEF RelaxationIsSeen
=============================================================================
