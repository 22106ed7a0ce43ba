------------------------------ MODULE MCPolicy ------------------------------
(***************************************************************************)
(* Four kinds of behaviour.  "cutover": two runtimes of one registry and   *)
(* an agent, under a policy that needs the temporal engine.  "workflow":   *)
(* three epochs of one runtime, with documents that differ in a rule and   *)
(* in a limit.  "permissions" and "rules": one replay of every pair of     *)
(* documents that differ in permissions, fallbacks, checks and limits, or  *)
(* in up to two rules (module PolicyReplay).                               *)
(***************************************************************************)
EXTENDS PolicyReplay, TLC

VARIABLE about
-----------------------------------------------------------------------------
(* Documents with and without a rule against writing, and one that needs   *)
(* the temporal engine and limits the budget.                              *)

Document(rules, capabilities, budgets) ==
    [permissions |-> [f \in PermissionFields |-> None], rules |-> rules,
     default |-> "execute", unknown |-> "deny", checks |-> {},
     capabilities |-> capabilities, budgets |-> budgets]
Key == [scope |-> "swarm", subject |-> None]
NoWrites == [id |-> "no-writes", disposition |-> "deny",
             match |-> [values |-> {"write"}, destinations |-> {}, labels |-> {}]]
NoSecrets == [id |-> "no-secrets", disposition |-> "deny",
              match |-> [values |-> {}, destinations |-> {}, labels |-> {"secret"}]]
Strict == Document({NoWrites}, {"identity"}, <<>>)
Careful == Document({NoSecrets}, {"identity", "temporal"}, Key :> 1)
Thrifty == Document({}, {"identity"}, Key :> 1)

MCMaximum ==
    [permissions |-> [f \in PermissionFields |-> None], budgets |-> Key :> 2,
     checks |-> {}, capabilities |-> {"identity"}, agents |-> None]

Situation(v, f) ==
    [agent |-> "a", values |-> v, destinations |-> {}, network |-> FALSE, baseline |-> "execute",
     decision |-> "allow", facts |-> f, checks |-> <<>>]
Read == Situation({"read"}, [labels |-> {"public"}, checks |-> <<>>])
Write == Situation({"write"}, None)

MCPolicies == {Careful, Strict, Thrifty}
MCSituations == {Read, Write}
Alike == Permutations(Runtimes)
-----------------------------------------------------------------------------
(* Documents and situations of the replay.                                 *)

Open == [f \in PermissionFields |-> None]
FullDocument(perm, rules, default, unknown, checks, budgets) ==
    [permissions |-> perm, rules |-> rules, default |-> default, unknown |-> unknown,
     checks |-> checks, capabilities |-> {"identity"}, budgets |-> budgets]

LimitKey(scope, subject) == [scope |-> scope, subject |-> subject]
Limits == {<<>>, LimitKey("agent", None) :> 1, LimitKey("agent", "a") :> 2}
AllowLists == [values : {None, {"read"}}, destinations : {None, {}, {"here"}},
                labels : {None, {}, {"public"}}]

PermissionPolicies ==
    {FullDocument(p, {}, "execute", u, c, <<>>) :
        p \in AllowLists, u \in {"escalate", "deny"}, c \in {{}, {"audit"}}}
    \cup {FullDocument(Open, {}, d, "deny", {}, b) : d \in Dispositions, b \in Limits}

Selector(v, d, l) == [values |-> v, destinations |-> d, labels |-> l]
Selectors == {Selector({}, {}, {}), Selector({"read"}, {}, {}),
              Selector({}, {"here"}, {}), Selector({}, {}, {"public"})}
Rule(i, m, d) == [id |-> i, match |-> m, disposition |-> d]
RuleSets ==
    {{}} \cup {{Rule("r1", m, d)} : m \in Selectors, d \in Dispositions}
    \cup {{Rule("r1", Selector({}, {}, {"public"}), d), Rule("r2", m, e)} :
              m \in Selectors, d \in {"escalate", "deny"}, e \in {"execute", "escalate"}}
RulePolicies ==
    {FullDocument(Open, R, d, u, {}, <<>>) :
        R \in RuleSets, d \in {"execute", "deny"}, u \in {"escalate", "deny"}}

\* Documents whose execute rules select only on what the review always knows.
DecidedPolicies ==
    {p \in RulePolicies : \A r \in p.rules : r.disposition = "execute"
                             => r.match.destinations = {} /\ r.match.labels = {}}

ReplayMaximum ==
    [permissions |-> [values |-> {"read", "write"}, destinations |-> None, labels |-> {"public"}],
     budgets |-> (LimitKey("swarm", None) :> 3) @@ (LimitKey("agent", None) :> 2),
     checks |-> {}, capabilities |-> {"identity"}, agents |-> {"a"}]

\* For the rules: nothing but the rules asks for facts.
OpenMaximum == [ReplayMaximum EXCEPT !.permissions = Open, !.budgets = <<>>]

FullSituation(g, v, d, n, b, r, f, c) ==
    [agent |-> g, values |-> v, destinations |-> d, network |-> n, baseline |-> b,
     decision |-> r, facts |-> f, checks |-> c]
Audits == {<<>>, "audit" :> "satisfied", "audit" :> "violated"}
Labels == {None, {}, {"public"}, {"unclassified", "public"}, {"secret"}}
CheckedSituations ==
    {FullSituation("a", v, d, d # {}, "execute", "allow", f, <<>>) :
        v \in {{"read"}, {"read", "write"}}, d \in {{}, {"here"}, {"there"}},
        f \in {None} \cup [labels : Labels, checks : Audits]}
    \cup {FullSituation(g, {"read"}, {}, TRUE, b, r, None, c) :
             g \in {"a", "b"}, b \in Dispositions, r \in {"allow", "warn", "block"},
             c \in {<<>>, "audit" :> "satisfied"}}
RuleSituations ==
    {FullSituation("a", v, d, TRUE, "execute", r, f, <<>>) :
        v \in {{"read"}, {"write"}}, d \in {{}, {"here"}, {"there"}}, r \in {"allow", "warn"},
        f \in {None} \cup [labels : Labels, checks : {<<>>}]}
-----------------------------------------------------------------------------
OnPermissions ==
    [policies |-> PermissionPolicies, maximum |-> ReplayMaximum, situations |-> CheckedSituations]
OnRules ==
    [policies |-> DecidedPolicies, maximum |-> OpenMaximum, situations |-> RuleSituations]
MCSettings == "permissions" :> OnPermissions @@ "rules" :> OnRules

\* The runtimes something has happened to.
Touched == {r \in Runtimes : runtime'[r].generation + runtime'[r].sources > 0}
           \cup {d.runtime : d \in deployments'}
Within ==
    IF about = "cutover"
    THEN /\ registryEpoch' <= 2 /\ Cardinality(deployments') <= 2
         /\ \A d \in deployments' : d.plan.capabilities = Careful.capabilities
         /\ \A a \in Agents : review'[a] # NoReview => review'[a].case = Read
    ELSE /\ Cardinality(Touched) <= 1
         /\ \A d \in deployments' : d.plan.capabilities = Strict.capabilities
         /\ expired' = {} /\ review' = review /\ context' = context

MCInit ==
    /\ Init /\ ReplayInit
    /\ about \in {"cutover", "workflow", "permissions", "rules"}
    /\ setting = IF about = "rules" THEN "rules" ELSE "permissions"
MCNext ==
    /\ \/ about \in {"cutover", "workflow"} /\ Next /\ Within /\ UNCHANGED replay
       \/ about \in {"permissions", "rules"} /\ ReplayNext /\ UNCHANGED vars
    /\ UNCHANGED about
MCSpec == MCInit /\ [][MCNext]_<<vars, replay, about>>
=============================================================================
