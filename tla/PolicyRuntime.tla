---------------------------- MODULE PolicyRuntime ---------------------------
(***************************************************************************)
(* Policy epochs: prepare, simulate, approve and activate a policy, and    *)
(* the guarded callbacks that run under it.                                *)
(* ordin/swarm/policy_runtime.py, policy_facts.py, the review of gate.py   *)
(* and the forwarding of gateway.py, over one registry that several        *)
(* runtimes may share.                                                     *)
(*                                                                         *)
(* A method that holds the runtime's lock is one action.  activate,        *)
(* rebind_sources and execution_guard also hold the execution barrier of   *)
(* the registry, the guard for as long as its callback runs: callback is   *)
(* the holder.  gate.evaluate_action holds no lock of the runtime between  *)
(* its steps: a review begins, evaluates and decides.                      *)
(*                                                                         *)
(* Three things feed a runtime: its budget ledger, its temporal engine and *)
(* its delegation service, each bound to the policy epoch it was made in.  *)
(***************************************************************************)
EXTENDS PolicyCompiler, FiniteSets

CONSTANTS
    Runtimes,    \* policy runtimes of one registry
    Agents,      \* agents with a live session
    Policies,    \* documents an operator may load
    Maximum,     \* the operator's maximum
    Situations,  \* what an agent may propose
    Unsafe,      \* the situations the replay corpus annotates as unsafe
    MaxDeployments,       \* max_deployments
    MaxEpoch, MaxSources  \* bounds of the model

ASSUME RuntimeConstants ==
    /\ \A p \in Policies : DocumentOK(p)
    /\ LimitsOK(Maximum.budgets)
    /\ \A c \in Situations : c.baseline \in Dispositions
    /\ Unsafe \subseteq Situations
    /\ MaxDeployments \in Nat /\ MaxEpoch \in Nat /\ MaxSources \in Nat

Sources == {"budget", "temporal", "delegation"}
Faults == {"none"} \cup Sources

VARIABLES
    registryEpoch,  \* registry._policy_epoch
    runtime,        \* [Runtimes -> record]: what binding_digest is made of
    temporal,       \* [Runtimes -> Nat]: epoch of the temporal engine's source
    deployments, expired, simulations, approvals, used,
    context,        \* [Agents -> Nat]: policy epoch of the agent's context
    review,         \* [Agents -> record]: a review, then its ticket
    callback,       \* the guarded callback that runs, or None
    installed       \* history: every activation that succeeded

workflow == <<deployments, expired, simulations, approvals, used>>
vars == <<registryEpoch, runtime, temporal, workflow, context, review, callback, installed>>

NoReview == [step |-> "idle"]

Init ==
    /\ registryEpoch = 0
    /\ runtime = [r \in Runtimes |->
           [epoch |-> 0, generation |-> 0, sources |-> 0, facts |-> 0,
            active |-> None, available |-> FALSE,
            budget |-> [epoch |-> 0, limits |-> Maximum.budgets],
            delegation |-> [epoch |-> 0, fenced |-> 0]]]
    /\ temporal = [r \in Runtimes |-> 0]
    /\ deployments = {} /\ expired = {} /\ simulations = {} /\ approvals = {} /\ used = {}
    /\ context = [a \in Agents |-> 0]
    /\ review = [a \in Agents |-> NoReview]
    /\ callback = None
    /\ installed = {}

\* _configuration: another runtime of the registry has moved the epoch.
Configured(r) == runtime[r].epoch = registryEpoch

Binding(r) == runtime[r]

Capabilities(r) ==
    {"identity", "protected_facts"}
    \cup (IF runtime[r].budget.epoch = runtime[r].epoch THEN {"budget.admission"} ELSE {})
    \cup (IF temporal[r] = runtime[r].epoch THEN {"temporal"} ELSE {})
    \cup (IF runtime[r].delegation.epoch = runtime[r].epoch THEN {"delegation.online"} ELSE {})

Supported(r, plan) == plan.capabilities \cup {"budget.admission"} \subseteq Capabilities(r)
-----------------------------------------------------------------------------
(* The operator's workflow.                                                *)

Prepare(r, p) ==
    /\ Configured(r) /\ runtime[r].epoch < MaxEpoch
    /\ Cardinality(deployments) < MaxDeployments
    /\ Compilable(p, Maximum) /\ Supported(r, Compile(p, Maximum))
    /\ deployments' = deployments \cup
          {[runtime |-> r, plan |-> Compile(p, Maximum), base |-> Binding(r),
            target |-> runtime[r].epoch + 1]}
    /\ UNCHANGED <<registryEpoch, runtime, temporal, expired, simulations, approvals, used,
                   context, review, callback, installed>>

\* The clock reaches expires_at of a deployment, which its approvals share.
Expire(d) ==
    /\ d \in deployments \ expired
    /\ expired' = expired \cup {d}
    /\ UNCHANGED <<registryEpoch, runtime, temporal, deployments, simulations, approvals, used,
                   context, review, callback, installed>>

\* _proposal: the deployment is still about the present binding.
Current(d) ==
    /\ d \notin expired
    /\ Configured(d.runtime)
    /\ d.base = Binding(d.runtime)
    /\ d.target = runtime[d.runtime].epoch + 1

\* _relaxes: against the active policy and the limits of the actual ledger.
Relaxes(r, plan) ==
    \/ runtime[r].active # None /\ PolicyRelaxes(runtime[r].active, plan)
    \/ plan.budgets # <<>> /\ BudgetsRelaxed(runtime[r].budget.limits, plan.budgets)

Baseline(r) ==
    IF runtime[r].active = None THEN Compile(OperatorMaximum, Maximum) ELSE runtime[r].active

Simulate(d, cases) ==
    /\ d \in deployments /\ Current(d) /\ Supported(d.runtime, d.plan)
    /\ simulations' = simulations \cup
          {[deployment |-> d,
            relaxes |-> Relaxes(d.runtime, d.plan)
                        \/ \E c \in cases : /\ Evaluate(Baseline(d.runtime), c) # "execute"
                                            /\ Evaluate(d.plan, c) = "execute",
            unsafe |-> \E c \in cases \cap Unsafe : Evaluate(d.plan, c) = "execute"]}
    /\ UNCHANGED <<registryEpoch, runtime, temporal, deployments, expired, approvals, used,
                   context, review, callback, installed>>

Approve(s, allow) ==
    /\ s \in simulations /\ Current(s.deployment) /\ Supported(s.deployment.runtime, s.deployment.plan)
    /\ ~s.unsafe
    /\ s.relaxes => allow
    /\ approvals' = approvals \cup {[deployment |-> s.deployment, allow |-> allow]}
    /\ UNCHANGED <<registryEpoch, runtime, temporal, deployments, expired, simulations, used,
                   context, review, callback, installed>>
-----------------------------------------------------------------------------
(* activate.  Once the registry has the new epoch every later step may     *)
(* fail; at is the step that does.                                         *)

AdvancePolicyEpoch(epoch) == registryEpoch < epoch /\ registryEpoch' = epoch

Reached(at, step) ==
    \/ at = "none"
    \/ at = "budget" /\ step \in {"delegation", "temporal"}
    \/ at = "temporal" /\ step = "delegation"

Migrated(r, plan, epoch) ==
    [epoch |-> epoch,
     limits |-> IF plan.budgets = <<>> THEN runtime[r].budget.limits ELSE plan.budgets]

Cutover(ap, at) ==
    LET d == ap.deployment
        r == d.runtime
        now == runtime[r]
    IN /\ runtime' = [runtime EXCEPT ![r] =
              [epoch |-> d.target, generation |-> now.generation + 1, sources |-> now.sources,
               facts |-> now.facts + 1,
               active |-> IF at = "none" THEN d.plan ELSE None,
               available |-> at = "none",
               budget |-> IF at = "none" THEN Migrated(r, d.plan, d.target) ELSE now.budget,
               delegation |-> IF Reached(at, "delegation")
                              THEN [now.delegation EXCEPT !.fenced = d.target] ELSE now.delegation]]
       /\ installed' = IF at # "none" THEN installed ELSE installed \cup
              {[epoch |-> d.target, runtime |-> r, plan |-> d.plan, allow |-> ap.allow,
                replaced |-> now.active]}

Activatable(ap) ==
    /\ ap \in approvals \ used
    /\ Current(ap.deployment) /\ Supported(ap.deployment.runtime, ap.deployment.plan)

\* Mutant of Activate: the barrier is not taken.
ActivateInside(ap, at) ==
    /\ Activatable(ap)
    /\ used' = used \cup {ap}
    /\ AdvancePolicyEpoch(ap.deployment.target)
    /\ Cutover(ap, at)
    /\ UNCHANGED <<temporal, deployments, expired, simulations, approvals, context, review, callback>>

Activate(ap, at) ==
    /\ callback = None
    /\ Activatable(ap)
    /\ used' = used \cup {ap}
    /\ AdvancePolicyEpoch(ap.deployment.target)
    /\ Cutover(ap, at)
    /\ UNCHANGED <<temporal, deployments, expired, simulations, approvals, context, review, callback>>

\* Limits a fresh ledger may have: nothing the approved ones have is wider.
RequiredLimits(r) ==
    IF runtime[r].active # None /\ runtime[r].active.budgets # <<>>
    THEN runtime[r].active.budgets ELSE runtime[r].budget.limits

RebindSources(r, S) ==
    /\ callback = None
    /\ Configured(r) /\ runtime[r].sources < MaxSources
    /\ runtime' = [runtime EXCEPT
          ![r].sources = @ + 1, ![r].facts = @ + 1,
          ![r].budget = IF "budget" \in S THEN [epoch |-> registryEpoch, limits |-> RequiredLimits(r)]
                                          ELSE @,
          ![r].delegation = IF "delegation" \in S
                            THEN [epoch |-> registryEpoch, fenced |-> registryEpoch] ELSE @]
    /\ temporal' = IF "temporal" \in S THEN [temporal EXCEPT ![r] = registryEpoch] ELSE temporal
    /\ UNCHANGED <<registryEpoch, workflow, context, review, callback, installed>>

\* registry.refresh_policy_context: a live session gets a context of the epoch.
RefreshPolicyContext(a) ==
    /\ context[a] < registryEpoch
    /\ context' = [context EXCEPT ![a] = registryEpoch]
    /\ UNCHANGED <<registryEpoch, runtime, temporal, workflow, review, callback, installed>>
-----------------------------------------------------------------------------
(* A review by a gate of runtime r, and the callback it leads to.          *)

ScopeCurrent(r, epoch) ==
    /\ Configured(r)
    /\ epoch = registryEpoch
    /\ runtime[r].available /\ runtime[r].active # None

\* _evaluate with the facts that were collected when the review began.
Projection(a) ==
    LET r == review[a].runtime
    IN IF /\ ScopeCurrent(r, review[a].context) /\ context[a] = review[a].context
          /\ Supported(r, runtime[r].active)
          /\ review[a].case.facts # None => review[a].binding = Binding(r)
       THEN Evaluate(runtime[r].active, review[a].case) ELSE "deny"

BeginReview(a, r, c) ==
    /\ review[a].step = "idle" /\ Configured(r)
    /\ review' = [review EXCEPT ![a] =
          [step |-> "begun", runtime |-> r, case |-> c, context |-> context[a],
           binding |-> Binding(r), temporal |-> temporal[r], result |-> "deny"]]
    /\ UNCHANGED <<registryEpoch, runtime, temporal, workflow, context, callback, installed>>

EvaluateReview(a) ==
    /\ review[a].step = "begun"
    /\ review' = [review EXCEPT ![a].step = "evaluated", ![a].result = Projection(a)]
    /\ UNCHANGED <<registryEpoch, runtime, temporal, workflow, context, callback, installed>>

\* The decision's binding is the present one, at the end of the review and
\* when its ticket is used.
BindingMatches(a) ==
    LET r == review[a].runtime
    IN /\ Configured(r) /\ context[a] = review[a].context
       /\ review[a].binding = Binding(r)
       /\ review[a].temporal = temporal[r]

\* Only a decision to execute leaves a ticket.
Decide(a) ==
    /\ review[a].step = "evaluated"
    /\ review' = [review EXCEPT ![a] =
          IF BindingMatches(a) /\ review[a].result = "execute"
          THEN [review[a] EXCEPT !.step = "ticket"] ELSE NoReview]
    /\ UNCHANGED <<registryEpoch, runtime, temporal, workflow, context, callback, installed>>

\* The ticket is canceled or expires.
Drop(a) ==
    /\ review[a].step = "ticket"
    /\ review' = [review EXCEPT ![a] = NoReview]
    /\ UNCHANGED <<registryEpoch, runtime, temporal, workflow, context, callback, installed>>

\* forward: the guard and the last check hold the barrier, then the callback.
\* A guard that raises leaves the ticket, a changed binding consumes it.
Forward(a) ==
    /\ review[a].step = "ticket" /\ callback = None
    /\ ScopeCurrent(review[a].runtime, context[a])
    /\ review' = [review EXCEPT ![a] = NoReview]
    /\ callback' = IF ~BindingMatches(a) THEN None
                   ELSE [agent |-> a, runtime |-> review[a].runtime, case |-> review[a].case,
                         binding |-> review[a].binding]
    /\ UNCHANGED <<registryEpoch, runtime, temporal, workflow, context, installed>>

Finish ==
    /\ callback # None
    /\ callback' = None
    /\ UNCHANGED <<registryEpoch, runtime, temporal, workflow, context, review, installed>>

Next ==
    \/ \E r \in Runtimes, p \in Policies : Prepare(r, p)
    \/ \E d \in deployments : Expire(d) \/ \E cases \in SUBSET Situations \ {{}} : Simulate(d, cases)
    \/ \E s \in simulations, allow \in BOOLEAN : Approve(s, allow)
    \/ \E ap \in approvals, at \in Faults : Activate(ap, at)
    \/ \E r \in Runtimes, S \in SUBSET Sources : RebindSources(r, S)
    \/ \E a \in Agents : \/ RefreshPolicyContext(a)
                         \/ \E r \in Runtimes, c \in Situations : BeginReview(a, r, c)
                         \/ EvaluateReview(a) \/ Decide(a) \/ Drop(a) \/ Forward(a)
    \/ Finish

Spec == Init /\ [][Next]_vars
-----------------------------------------------------------------------------
Plans == {Compile(p, Maximum) : p \in {q \in Policies : Compilable(q, Maximum)}}

TypeOK ==
    /\ registryEpoch \in 0..MaxEpoch
    /\ \A r \in Runtimes :
          /\ runtime[r].epoch \in 0..registryEpoch
          /\ runtime[r].active \in Plans \cup {None}
          /\ runtime[r].available \in BOOLEAN
          /\ temporal[r] \in 0..registryEpoch
    /\ expired \subseteq deployments
    /\ used \subseteq approvals
    /\ context \in [Agents -> 0..MaxEpoch]
    /\ \A a \in Agents : review[a].step \in {"idle", "begun", "evaluated", "ticket"}
    /\ callback # None => callback.agent \in Agents /\ callback.case \in Situations

(* A guarded callback runs, from its first to its last step, under the     *)
(* policy, the epoch and the sources it was reviewed with, and that policy *)
(* lets it execute: no cutover, rebinding or second runtime of the         *)
(* registry gets between (execution_barrier, binding_matches).             *)
CallbackIsCurrent ==
    callback # None =>
        LET r == callback.runtime
        IN /\ Configured(r) /\ context[callback.agent] = registryEpoch
           /\ callback.binding = Binding(r)
           /\ Supported(r, runtime[r].active)
           /\ Evaluate(runtime[r].active, callback.case) = "execute"

(* A runtime only becomes available with every step of its cutover done:   *)
(* whatever step failed in this or an earlier activation, the ledger, the  *)
(* delegation fence and the selection are those of its epoch.              *)
AvailableMeansComplete ==
    \A r \in Runtimes : runtime[r].available =>
        /\ runtime[r].budget.epoch = runtime[r].epoch
        /\ runtime[r].delegation.fenced = runtime[r].epoch
        /\ \E i \in installed : i.epoch = runtime[r].epoch /\ i.plan = runtime[r].active
                                                      /\ i.runtime = r

(* An epoch is given to one activation, of one runtime: two approvals that *)
(* were prepared for the same target are never both used.                  *)
EpochIsUsedOnce ==
    \A i, j \in installed : i.epoch = j.epoch => i = j

(* A cutover is seen as a whole or not at all: by the callbacks it waits   *)
(* for, by the components it migrates and by its competitors.              *)
CutoverIsWhole == TypeOK /\ CallbackIsCurrent /\ AvailableMeansComplete /\ EpochIsUsedOnce

Weaker(old, new) == \E c \in Situations : Rank[Evaluate(new, c)] < Rank[Evaluate(old, c)]

(* An activation without allow_relaxation does not weaken the policy it    *)
(* replaces on any situation, whatever the corpus of its simulation was    *)
(* and however old simulation and approval are.                            *)
NoHiddenRelaxation ==
    \A i \in installed : i.replaced # None /\ ~i.allow => ~Weaker(i.replaced, i.plan)

(* A limit an operator has approved stays: no activation without           *)
(* allow_relaxation and no replacement of a ledger raises it.              *)
LimitsAreKept ==
    [][\A r \in Runtimes :
          BudgetsRelaxed(runtime[r].budget.limits, runtime'[r].budget.limits)
              => \E i \in installed' \ installed : i.runtime = r /\ i.allow]_vars
=============================================================================
