# A TLA+ model of ordin's swarm authority

ordin reviews the actions of coding agents before they are executed. Its core
(`ordin/*.py`) judges one action on one host; `ordin/assurance` adds evidence,
invariants and delegated authority; `ordin/swarm` makes many agents, hosts and
coordinators share authority, budgets and revocation. The single-action core is
sequential and well covered by tests. What goes wrong in the swarm goes wrong
between steps: an effect that runs after its authority was withdrawn, a unit of
budget spent twice or given back after it was used, a stop that is answered and
not kept, evidence that arrives after the verdict. This project models those parts.

| module | what it models |
| --- | --- |
| `BudgetLedger` | durable budget ledger: `swarm/budgets.py`, `swarm/budget_store.py` |
| `Coordinator` | shared coordinator: `swarm/coordinator.py`, `swarm/coordinator_store.py` |
| `EffectLicense` | abstract specification of one-shot effects, implemented by Coordinator |
| `Broker` | enforcing broker and worker jobs: `swarm/broker.py`, `swarm/linux_backend.py` |
| `Delegation` | issuer, delegating gate and service: `assurance/delegation.py`, `assurance/delegating_gate.py`, `swarm/delegation.py`, with `swarm/workload_auth.py` and `swarm/registry.py` as they use them |
| `ApprovalService` | human governance: `swarm/approval_service.py`, `approval.py`, `swarm/operator_auth.py` |
| `IncidentControl` | containment and recovery of several scopes: `swarm/containment.py`, `swarm/incident.py`, the group fences of `swarm/coordinator.py` |
| `PolicyCompiler`, `PolicyReplay` | what a policy document says, and one replayed situation: `swarm/policy_compiler.py`, `swarm/policy_set.py` |
| `PolicyRuntime` | policy epochs and guarded callbacks: `swarm/policy_runtime.py`, `swarm/policy_facts.py`, `swarm/gate.py` |
| `ToolGateway` | tickets of direct and of broker actors: `swarm/gateway.py` |
| `Enforcement` | the broker and the tool gateway side by side |
| `McpProxy` | reviewer of MCP traffic: `mcp_proxy.py`, `session.py`, `mcp_contracts.py`, `swarm/mcp_gateway.py` |
| `McpHttp` | its HTTP transport: `mcp_http.py` |
| `Mcp` | the two side by side |
| `EventIngest` | authenticated ingest and causal projection: `swarm/ingest.py`, `swarm/causal_graph.py` |
| `CoordinatorEvents` | ingest by the coordinator, with leases: `swarm/coordinator.py` |
| `TemporalEngine` | temporal rules over a growing graph: `swarm/temporal.py`, `swarm/temporal_policy.py` |
| `ArtifactMemory` | shared artifacts and their durable record: `swarm/memory.py`, `swarm/artifact_store.py`, `swarm/coordinator.py` |
| `MessageGateway` | messages and lineage of labels: `swarm/messages.py`, `swarm/source_flow.py`, `swarm/labels.py` |
| `DataPlane` | artifacts and messages side by side |
| `LockOrder` | the order in which the swarm services take their locks |
| `UnitSums` | a sum over a finite set that can be reasoned about without recursion |
| `MC*` with `*.cfg` | instances for TLC (LockOrder has a configuration of its own as well) |
| `*Proofs` | theorems and proofs for TLAPS |

Run with `tlc -config X.cfg M` and `tlapm M.tla`. `PROJECT.json` lists the runs, the
mutated definitions that show each property can fail, the source lines of every
definition, the hazards and the theorems.

## Inventory

**Budget ledger.** State: one SQLite database (meta row with generation and clock,
reservations, items, buckets) and, in each process, the tickets it issued.
Operations: open, reserve, begin_forward, cancel, uncertain, commit, reconcile,
report. Hard: processes restart and overlap, a commit can succeed without its
acknowledgement, reservations expire while their effect runs, results arrive late
or exceed what was reserved. Correct when the counters of every bucket are the sums
of its reservations, limits hold, and nothing that may have run is given back.

**Coordinator.** State: one scope row (owner, subjects, grants, evaluations,
reservations, fence intents, blocked actions, journal), shared bucket and barrier
rows, and in each coordinator object the prepared broker authorizations and an
availability flag. Operations: start, heartbeat, admit, bind_grant, evaluate,
reserve, begin_forward, guarded_dispatch, commit, uncertain, cancel, record_fence,
revoke_lease, reconcile_broker_outcome, reconcile_fence, and event and
artifact transitions. Hard: ownership moves at any time; a rejected handler still
commits what it wrote; recovery leaves the database between two transactions.
Correct when a takeover fences everything older, effects are one-shot, fenced work
stays stopped, and shared accounts balance.

**Broker and backend.** State: pending authorizations, worker jobs, the execution
lock. Operations: prepare, dispatch, cancel, request_stop, status, and the
executor's create_job, execute, request_stop. Hard: stops arrive from other threads
without the execution lock, workers refuse to die, every call may fail halfway.
Correct when a stop that was confirmed is final, whatever may have run stays paid,
revocation waits for effects, every dispatch ends and no slot leaks.

**Delegation.** State: issued and revoked grants, used counters, open tickets,
admissions, enrollments, TLS channels, registry contexts. Operations: authorize and
publish a root, issue a child, bind its context, review, cancel, guarded_dispatch,
revoke, set_available, fence_policy. Hard: long chains whose links end in any order,
identities that change between review and dispatch. Correct when authority only
shrinks downwards, quotas hold, and what is forwarded is exactly what was reviewed.

**Approval service.** State: durable request rows with votes and resolutions, the
namespace row that says which object serves, and in that object's memory the
originals, receipts and one-use leases. Operations: initialize, request, resolve,
cancel, expire, prepare, guarded_dispatch, resume, operator enrollment and
revocation. Hard: a call is several transactions, between which the namespace is taken
over, fences are recorded and operators are revoked; answers are lost. Correct when an
approval is good for one effect, what ran had its quorum, and nothing stale starts.

**Containment.** State: fence intents of several scopes, barriers of realms, stop
requests, the controller's incidents. Operations: admit a signal, record the fence,
pause the registry, notify the brokers, clean up, reconcile, resume. Hard: one fence
touches several scopes, its acknowledgement may be lost, jobs are being started while
active jobs are collected. Correct when a group opens together, no covered job slips
through, and recovery waits for outcomes.

**Policy compiler and runtime.** State: deployments, simulations, approvals, the
installed epoch of each runtime and of its sources, the registry's epoch. Operations:
prepare, simulate, approve, activate, rebind sources, review, guarded callback. Hard:
a cutover has many steps and any may fail; callbacks run meanwhile; documents are
approved long before they are activated. Correct when callbacks see one epoch from end
to end, relaxation is seen, and missing facts never help.

**Tool gateway.** State: the ticket table, the active attempt of each actor, the
journal gap, holds. Operations: prepare, forward, cancel, revoke_agent, the review
facade. Hard: the facade writes without the lock, settlements may be unknown.

**MCP proxy and transport.** State: the window of reviewed actions, requests in
flight, observed contracts; slots, sessions and timers. Operations: every kind of
message of client and server; every step of an exchange. Hard: ids are used again,
answers come late or malformed, deadlines pass while a connection is made.

**Evidence.** State: records, depths, streams; facts, coverage, receipts. Operations:
admit a packet, lapse, project; ingest with a lease; record a fact, declare coverage,
evaluate. Hard: parents arrive after children, holes are filled late, verdicts are given
before the evidence is in.

**Artifacts and messages.** State: versions, labels, reference counts, intents and
floors; channels, drafts, lineage, inboxes. Operations: write, read, grant, delete,
sweep, each with its two transactions; register, derive, declassify, prepare, send,
submit, quarantine. Hard: the gateway acts between two transactions; an inbox runs
without the lock.

**How they interact.** The broker asks the delegation service for an admission, the
ledger for a hold and the backend for a job, and forwards inside the service's
guarded_dispatch. The coordinator prepares such an authorization per reservation,
calls the broker from its own guarded_dispatch, and takes the broker's receipts as
evidence when a fence is lifted; containment records fences in it and asks brokers to
stop. The approval service binds a request to the coordinator's fence and revocation
numbers. The gateway and the MCP proxy are front ends of gate, ledger and broker. Ingest
feeds the temporal engine; artifacts and messages append to the coordinator's record.
Each module sees its neighbours as the outcomes their own module allows: Broker follows
one hold through BudgetLedger's phases and one admission through Delegation's states;
Coordinator's dispatch results are the results of Broker; IncidentControl keeps of
Coordinator and Broker what containment reads. `LockOrder` takes all services together
and keeps only their locks.

Components that are not modelled are listed in `PROJECT.json` with the reason: the
credential broker, the swarm gate's risk signals, the single-host review core and its
analyzers, assurance analysis and sandbox tests, front ends, audit and evaluation code.

## The modules

**BudgetLedger.** One action per transaction, since all run under BEGIN IMMEDIATE.
Each action contains the code's housekeeping (`_meta`, `_expire`) and each operation
can be refused after it or lose its acknowledgement. `permit` and `spent` follow the
caller that was told to forward. Two ledgers with different policy epochs stand for
a process and its successor.

**Coordinator.** One action per `store.transaction()`. An append to the full journal
raises after earlier writes of the handler, and the store commits them; `Journal`
gives every handler that second outcome. `guarded_dispatch` is four steps (begin,
effect, commit or uncertain, going offline), because each is a transaction of its
own. `reconcile_fence` is two, around the verifier. Left out because they only
refuse: history, lag and artifact conditions of admission; checks of the policy
epoch that the owner fence implies; RPC, which calls the same handlers; a failed
transaction, which changes nothing.

**EffectLicense.** Work is free, held, licensed, charged or refunded. A license is
handed out once, runs its effect at most once and dies with it; a refund is possible
only before the license or after a dead license that ran nothing. Coordinator
implements it with the mapping `status` to phase, `dispatch` to permit and `effects`
to runs (property `OneShotEffects`).

**Broker.** A thread per request; an action is what happens between two points where
another thread can intervene. `step` is its position, `exec` the execution lock,
`InService` the positions with the service lock held. Ledger calls may be refused or
fail before or after their effect. Governance, policy, gate and plan checks can only
refuse. The worker process is external.

**Delegation.** Every operation runs under the service and issuer locks and is one
action. An authority is a set of rights; `Needs` is what the runtime contract of an
action requires. A context is active until its enrollment is revoked or its registry
record is paused, ended, stale or replaced. Repeated request ids of issue_child
return the first grant and are not repeated here; a full audit log refuses like
unavailability.

**ApprovalService.** A call is a record that advances one transaction at a time; every
transaction is acknowledged, finds the journal full (its writes commit, the caller gets
an exception) or loses its answer. Votes are a function from humans to choices;
`binding` is what a request was bound to, and `Stale` compares it with the present.

**IncidentControl.** One action per transaction of any scope; between them the
controller, its cleanup thread, the brokers and the workloads run freely. A scope's
intents are a sequence, its length is the epoch. A realm is a group of scopes behind one
barrier.

**PolicyCompiler, PolicyReplay, PolicyRuntime.** Allow lists are of three classes, by
when their subject is known (always, perhaps, only from protected facts). PolicyReplay
chooses two documents and a situation and evaluates both; PolicyRuntime has the workflow
of epochs, in which a method under the runtime's lock is one action, a callback holds the
execution barrier, and a review is split where the code holds no lock.

**ToolGateway.** `lock` is `_operation_lock`, which a direct forward keeps while the
executor runs. The facade of review_gate writes `captured` without it. Which actors are
bound directly and which gates have a policy runtime is chosen in the initial state
(`direct`, `hosted`). `Enforcement` has the gateway beside the broker, without shared
state: for a broker actor the gateway follows the authorization and its hold by status.

**McpProxy, McpHttp, Mcp.** The proxy handles one message per action; messages of the server
are a set, so they arrive in any order. Whether tools are pinned is chosen in the initial
state (`contracts`); `withdrawn` remembers the calls in flight that were canceled or never
sent, to which no answer need come. The transport has a thread per connection with a
position, and a timer that cuts the socket. `Mcp` has both and lets their steps interleave:
they share no state, since the transport only carries what the reviewer judges.

**EventIngest, CoordinatorEvents.** The packets are a constant set; each admission
updates the derived tables as the code does, the properties define the same notions from
the records alone. Refused packets change nothing and are no steps.

**TemporalEngine.** The automaton of path rules, the counting of quotas, coverage and
receipts over a graph whose events and parents may arrive late; the reference definition
is the existence of a causal path.

**ArtifactMemory, MessageGateway.** A change of an artifact is three steps: intent,
gateway, floor. A send is three critical sections with an inbox call between them. The
variable `setup` holds what a gateway was constructed with (limits of rate, messages,
records and depth) and what its host does; no step changes it. `DataPlane` is their
interleaving: agents may use both, which share no state.

**LockOrder.** Each operation is the sequence of lock sets it holds at its waiting
points, read off its nested with statements. The database is a lock whose waits may time
out; `NoCircularWait` does not count on that, so it also excludes the circle of `reserve`
or `evaluate` (database, then issuer) and `review` (issuer, then database) that only the
barrier prevents.

## Runs

A run with several components or scenarios has a variable `about`, fixed in the initial
state, that says which one a behaviour is about; the other components are instances that
stand still. That keeps one run for each question. Properties that are stated per scenario
are defined at the end of the MC module from those of the components. All runs bound the
clock and the number of fences, owners, sessions or messages; a behaviour that has used up
its bounds and finished its requests stops, so `CHECK_DEADLOCK FALSE` is set wherever that
can happen. MCBudgetLedger has no such state.

| run | what it shows | bounds |
| --- | --- | --- |
| `budget_ledger` | accounts, limits, no refund of work, idempotent keys, overruns block | two ledgers, two reservations and keys, two buckets, clock to 1 |
| `coordinator` | accounts and limits across takeover, fencing of older owners, EffectLicense | two coordinators with different budgets, one workload, two reservations, two buckets |
| `containment` | fenced work stays stopped, also by a fence on the delegator; recovery waits for outcomes | parent and child, fences on subtree, swarm, parent and action, two fences, two ownerships |
| `delegation` | quotas, attenuation, unambiguous principals, slots, what is forwarded is what was reviewed | three workloads, three grants; two kinds of terms and two reviews, or one review and one event of each kind on the identities |
| `approval` | one use, quorum, nothing stale starts | two service objects, two operators; one action, or two recoveries of one incident |
| `incident` | groups open together, no job slips through, closed routes, settled recovery, cleanup ends | two scopes of one tenant, a job in each, two incidents, two owners, one crash |
| `policy` | a cutover is whole, relaxation is seen, missing facts never help | two runtimes and two epochs; three epochs of one; every pair of documents that differ in permissions or in up to two rules, on every situation |
| `mcp` | answers find their action, exact session table, deadlines; any two operations that take the locks in one order end and never wait in a circle, the database included | three ids, a window of three and six calls, one malformed answer; two ids, one call and two changes of the table where tools are listed; seven connections in three exchanges; any two of seventeen operations on the locks |
| `enforcement` | final stops, paid work, fences wait, no slot leaks, exact tickets, dispatches end | two requests and one fence; two actors and three attempts |
| `evidence` | exact graph and completeness, gaps close, right verdicts | histories of two agents of up to eleven events; all graphs of three events under a rule of two steps |
| `data` | artifacts agree with their record, no label is lost, deliveries agree | two addresses and contents, three versions; a relay over three peers and two channels; two threads on one channel with three messages; two threads with failures, quarantine and lapses |
| `locks` | expected violation, see Findings | two operations |

Two of each actor are enough for the conflicts the code has: every conflict is
between one process and the one that replaces it, one thread and one control, or one
grant and one above it; the chain of three workloads is there because revocation and
rebinding have to reach a grandchild, and the relay of three peers because a label has to
survive a peer that may carry it. Lifetimes of 1 or 2 ticks let each of them lapse before,
during and after each step. Symmetry is used on names only (coordinators with equal
policies, reservations, keys, grants, operators) and never with liveness.

**Fairness.** `DispatchEnds` assumes weak fairness of the broker's threads once they
have begun: such a thread waits for the execution lock, which every path releases, and
for the worker, whose poll loop has a deadline after which it kills and returns whether
the worker died or not. `CleanupEnds` assumes it of the cleanup thread, `DeadlinesHold` of
the transport's threads and timers and of the threads in LockOrder, which run unless they
wait for a lock (and since no waits form a circle, the end of an operation never rests on a
time-out of the database), `LeasedGapsClose` of workloads that keep sending what they
have. Nothing is assumed of workers, controls, fences, clients, operators or the upstream.

**Mutants.** Each property of a passing run has a mutated definition, next to the
original and commented as such, that changes the model the way a plausible slip in
the code would; the property fails on it. `DeadlinesHold` has two, one for the transport and
one for the locks, in which the coordinator leaves the barrier to the runtime's guard. They
are not part of the specification.

## Proofs

TLC checks the instances above; TLAPS proves the following for all values of the
constants that satisfy the assumption of the module: `LedgerConstants` and
`CoordinatorConstants` (finitely many reservations), `BrokerConstants` (finitely many
requests), `EnforcementConstants` (the tables of broker and gateway have room for one ticket),
`DataConstants` (limits of at least one, a clock bound, a sink allows labels only, no thread is the absent
one), `DelegationConstants` (finitely many grants and reviews),
`ApprovalConstants` (finitely many requests and enrollments, a quorum of at least one),
`IncidentConstants` (finitely many scopes, the controller's own one in the span of every
realm, signals whose scope is a realm or an action or agent of a known workload),
`McpConstants` (finitely many request ids and HTTP requests, windows, queues, slots and
tables of at least one) and `RuntimeConstants` (documents that pass the checks of `SwarmPolicySet`, limits that are
numbers, baselines that are dispositions);
everything else is typed as the code types it.

*Sums.* Conservation speaks of sums over sets. A sum by recursion needs induction,
which the provers cannot do here, so `UnitSum(f, S, n)` is defined as the cardinality
of the set of pairs `<<x, k>>` with `x \in S` and `k \in 1..f[x]` (below a bound `n`);
the lemmas that open `BudgetLedgerProofs` and `CoordinatorProofs` derive from the theorems
on finite sets what happens to it when an element is added, removed or changed.

*BudgetLedger* (`BudgetLedgerProofs`): `TypeCorrect`, `BooksBalance`, `NoEffectIsFree`,
`NeverOvercommitted`, `KeysAreIdempotent`, `OverrunsBlock`. Conservation is not
inductive: it needs the rows to be well formed (`RowsOK`), counters to be integers
(`CountersOK`) and items to lie in the bucket scope of their context (`ItemsInScope`),
since expiry and settlement return exactly the items. `IInv` is their conjunction; there
is one lemma per action, and `TypeOK`, with its counters that are never negative, follows
from `IInv` because sums are natural numbers. The limit is proved by a second induction
on top of `IInv`, over what a bucket owes apart from observed overruns. The last two rest
on the classification of the steps that create a row (`NewRow`).

*Coordinator* (`CoordinatorProofs`): `WellFormed`, `SharedBooksBalance`,
`SharedLimitHolds`, `NothingOutlivesItsOwner`, `EffectsAreOneShot`, `FencedStaysStopped`,
`RecoveryWaits`. `EffectsAreOneShot` is the refinement of EffectLicense. Every step is
classified: it is quiet (each reservation keeps its place in the order of phases), it
books one reservation, or it moves one dispatch on; each class maps to a step or a
stutter under `ProgressOK`, which ties the phase of a reservation to the progress of its
dispatch and to its effects. `Ledger` =
`ProgressOK /\ CountersOK /\ Conservation` is the inductive invariant of the accounts,
`RowsOK` that of the rows, and ownership needs that fence numbers only grow
(`FencesKept`). Containment has an invariant of its own, `CInv`. That a fence reaches work
evaluated before it (`Reached`: its grant is revoked or its action banned, and what is in
flight is in the intent) survives recovery only because a reservation is bound to an owner
at least as old as the intent while reconciliation needs a newer one: that is what
`Ordered`, `Verified`, `Evaluated` and `LiveIsCurrent` say. `Reports` (an outcome is
recorded only of a dispatch that ended) then makes reconciliation wait. TLC checked `CInv`
on the instance of the run `containment`.

*Broker and ToolGateway* (`GatewayProofs`): `BrokerTypes`, `StopsAreFinal`, `NoWorkIsRefunded`,
`RevocationWaits`, `SlotsAreReturned`, `GatewayIsSafe`. The broker's inductive invariant is local to a request:
`RowAt`, `JobAt`, `PaidAt` and `CanceledAt` say, for each position of its thread, what
admission, hold, state and job can be. `FrameKeeps` shows that a step of one request or
of its control leaves the invariant of all others alone, so each action is proved for its
own request only; a revocation is the one step that touches all. The gateway's invariant
`GatewayInv` is local to an attempt. `TurnAt` says that who works under the lock has it,
that its actor is free until a ticket is issued, and that a ticket in the table is the
active attempt of an actor that was not revoked; so the call of one attempt cannot open a
gap under the ticket of another (`OthersStay`), and a revoked actor has one ticket to give
back. `MoneyAt` and `DirectAt` follow hold, effect and failure: nothing has failed for a
direct attempt before it is over, and a failed settlement shows in its actor's gap, which
is why a gap alone stops the actor. TLC checked `GatewayInv` on the run `enforcement`.

*MessageGateway* (`GatewayProofs`): `NoLabelIsLost`, `DeliveriesAreExact`, both from the
inductive invariant `TrafficInv`. Its lineage half, `LineageOK`, says that a record carries
the labels of the records it was made from unless it was declassified; the ancestors of a
record are the least set that holds it and is closed under such steps (`Traced`), so the
records with labels within its own are such a set, and no induction over paths is needed
(`LabelsAreTraced`). `AdmittedOK` carries what `assess` saw of the inputs from the
admission on, since the lineage only grows. The delivery half is about who works: `WorkOK`
says that a thread with a delivery lock works on the last message of its channel, that the
inbox has it exactly from the position `returned` on and that nothing is recorded of it
yet; `OutcomeOK` that every message nobody works on has its outcome, or its channel is
revoked or the gateway stopped. A channel is admitted to only when it is open and the
gateway has not stopped, so an uncertain message is never followed; and the lock makes the
order of the inbox that of the numbers. Most steps are quiet: they leave the work of all
threads in place, and `QuietKeeps` covers them at once. TLC checked `TrafficInv` on the
scenarios relay, order and threads of the run `data`.

*ArtifactMemory* (`GatewayProofs`): `ArtifactsStayExact`, which is `ArtifactsAgree`, from the
inductive invariant `ArtifactsInv`. Counting rests on two facts about the set `Users` of the
versions with a content: dropping versions of one address takes away exactly those that
had it (`DropCounts`), and a new one adds at most itself (`AddCounts`); a sweep, which
counts anew, has to come to the same. The set is finite although addresses are not
bounded, because only addresses that were written have versions. The record rests on
`Onward`: a gateway never goes back, so metadata once seen stay `Below` what it has, and if
the handler of a failure finds the metadata the operation began with, it had them all the
time (`NeverComesBack`) and may drop the intent. That a checkpoint moved the record
meanwhile, or that a read made a tombstone, does no harm for the same reason. TLC checked
`ArtifactsInv` and `Onward` on the scenarios bytes and record of the run `data`.

*Delegation* (`DelegationProofs`): `RecordsAgree`, `AuthorityAttenuates`, `QuotasHold`,
`OnlyReviewedIsForwarded`. Attenuation is inductive only with `Lineage` (the line of a
grant holds the lines of its members), because a revocation reaches what has the revoked
grant in its line. The quota counts uses of a grant over its whole life; that needs
`Admitted` (a pending admission is on an issued grant that covers its action), and that
only a review, which counted them, opens a slot.

*ApprovalService* (`ApprovalServiceProofs`): `OnlyOnce`, `QuorumRan`, `OvertakenStays`. The
invariant `IInv` is local to a request again: `RowAt` (its maker, and the votes its status
needs), `BoundAt` (a recovery that resumed its incident left it reconciled) and `UseAt`,
which relates effect, lease and status to the position of the call its maker is executing
for it. `Linked` says that a call is always the maker's own, so one step cannot disturb
the position of another request (`FrameKeeps`, `CallStep`). That an incident is resumed
once depends on `BoundAt`, since two recoveries may both hold a consumed quorum, and only
the reconciliation stops the second. `OvertakenStays` then needs that a lease starts by
`Begin` alone (`Starts`). TLC checked `IInv` on the instance of the run `approval`.

*IncidentControl* (`IncidentControlProofs`): `WholeContainment`, `RouteClosed`. The inductive
invariant `IInv` relates the durable intents to everything that must respect them.
`IntentAt` says what an intent closes and, for the intent of a group, that its members are
intents of the same signal in the scopes of the realm; `SignalsOnce` that no scope has two
intents of a signal; `KnownAt` that an incident in progress knows the intent it recorded;
`BarrierAt` which intent a blocked or opened barrier answers for; `ShutAt` is the heart: what
any intent closed for a job is still enforced by its revoked workload or the banned action,
or the same or a later intent that is reconciled names the job too. A recovery removes a ban or opens
a barrier only in the step that reconciles the newest intent (`CommitMember` is the only
step that reconciles), and the primary, whose step opens the barrier, is committed after
all other members: hence the group opens together. `OutcomesAt` (an outcome recorded for
the current group is of a job that ended) gives the second half of `RouteClosed`, and
`CollectedAt` the jobs of `WholeContainment`: between the fence and the collection nothing
is locked, but a job becomes active only by a step that needs a current route, which
`ShutAt` denies it. `Reaches` is part of both statements because an action or agent fence
is recorded in the controller's own scope only (see the divergences). TLC checked `IInv` on
the instance of the run `incident`.

*PolicyCompiler, PolicyRuntime and PolicyReplay* (`PolicyRuntimeProofs`): `CutoverWhole`,
`RelaxationSeen` and `MissingFacts` are the three properties of the run `policy`. The last
two join what is proved of the runtime (`LimitsKept`, `NothingHidden`) to what is proved of
the compiler, for every document, maximum and situation (`CompileKeepsMaximum`,
`NeverForWantOfFacts`, `ReviewIsComplete`): `ReplayConsistent` is the invariant that the
plans of a replay come from documents of its setting. The theorems on the compiler rest on one fact about the order of dispositions (`StrongerDominates`): if each
vote for one evaluation is matched by one as strict for the other, so is the outcome. The
inductive invariant `IInv` has `RuntimeAt` (an available runtime was activated as a
whole; the limits in force are those of the active policy), `WorkflowOK` (what relaxed when
it was prepared is simulated and approved as such), `InstalledOK`, `CallbackOK` and
`ReviewAt`. A review checks its binding before it is decided and again when its ticket is
used, and evaluates in between; that this is enough is `ReviewAt`: generation and sources
of a runtime only grow and every activation and rebinding moves one of them
(`BindingMoves`), so a binding that was lost never returns, and what was evaluated under it
still holds if it is the present one. `NothingHidden`, `ReviewIsComplete` and
`RelaxationSeen` suppose that execute rules select only on what the core review knows (`Decided`): without it they
are false, which is the divergence of `policy_relaxes` below. The documents of the run
`policy` have no execute rule, those of its replay of rules are decided. TLC checked `IInv`
on the instance of the run `policy`.

*McpProxy, McpHttp and Mcp* (`McpProofs`): `McpAnswersAreKept`, `McpSessionsAreLive`,
`NothingSentLate`. The invariant of the proxy is `ProxyInv`. `Window` says that the retained
actions are a run of consecutive numbers, so that the one an evaluation evicts is the oldest
and `_would_evict`, which looks at that one only, protects all calls in flight. `OwedOK`
and `RepliesOK` describe the wire: what is owed is in flight under its present action, the
final answer of an id is alone and nothing is owed beside it, while several malformed
attempts to answer a call may be under way. That is why an id can be used again: when it
leaves flight nothing of it is left on the wire. `Inventory` says of the listing the
observer waits for that it will not bring pages older than the last notification, since a
notification makes it wait for nothing. The invariant of the transport, `HttpInv`, rests on
`Known`: a session is known only by the token of its own initialize request, so `Born` can
say that once that request is done a session in the table has a result or can be resumed,
and `active` is never needed to tell who created it. Every step within an exchange leaves
`Open` and `Users` alone (`WorkStep`), a thread is bound once (`BindStep`) and leaves once
(`EndStep`). `NothingSentLate`, the safety half of `DeadlinesHold`, needs `TimerInv`: who is
about to send published the socket before reading the flag, and a timer that has run has
shut it down. TLC checked `ProxyInv` on the calls and listings of the run `mcp`, and
`HttpInv` on two initializations with a stream and on a session with a call, a stream and a
deletion.

*Only model-checked:* every property of the modules without a proofs module (EventIngest,
CoordinatorEvents, TemporalEngine, LockOrder). Those of the first three speak of what
recursive functions compute (`Reach`, `NewDepths`, `ChainsAt` and the automaton of a path rule), whose
values the provers cannot unfold.
`DispatchEnds`, `CleanupEnds`, `DeadlinesHold` and `LeasedGapsClose` stay with TLC in any
case: liveness under fairness and ENABLED are outside the prover, as are induction over
data and RECURSIVE operators, which no module here uses.

## Findings

* `locks`: broker.prepare takes the service and issuer locks and then the lock of the
  grant's session; dispatch holds the admission barrier and the execution lock, takes the
  session's lock and then the issuer. A comment in `containment.py` (line 212) says that
  admission locks come first on every bound route. Two such threads wait for each other.

### Divergences met while modelling

These came up as counterexamples to a statement of the documentation. The models keep what
the code does, and the properties above are stated so that they hold of it.

* A subtree fence starts from admitted subjects; if the parent was never admitted to the
  scope it selects nobody, and queued work of its children can still be forwarded
  (`docs/swarm/containment.md:18`). `Covers` has the parent's presence as a condition.
* A fence on an action or agent of another task is recorded in the controller's own scope
  (`docs/swarm/containment.md:9`).
* `policy_relaxes` ignores the removal of an execute rule (`policy_compiler.py:568`,
  `docs/swarm/policies.md:98`); after a failed activation there is no active policy to
  compare with (`policies.md:97`).
* Two more orders of locks disagree with the documented one: the gateway's operation lock
  before the barrier on broker routes (`gateway.py:676`), and the barrier under the issuer
  when an approval computes its binding digest (`approval.py:679`).
* The executor's request_stop answers "completed" for a job that ended in a timeout or a
  control failure (`linux_backend.py:443`, `docs/swarm/operations.md:62`).
* The gateway reads `journal_gap` before it takes its lock (`gateway.py:497`), so a direct
  prepare may pass a gap that is recorded meanwhile; only forwarding is closed. A stale
  broker ticket keeps its hold until expiry (`gateway.py:690`, `budgets.md:166`).
* The MCP proxy keeps a canceled call, or one its gateway never sent, in flight for ever
  (`mcp_proxy.py:504`, `mcp_gateway.py:184`); a failed HTTP session can still send a call
  that was past the check (`mcp_http.py:814`).
* An incomplete scope admits nobody, so a gap whose workload's lease expired is never
  filled (`coordinator.py:769`); the depth walk stops at events already seen, so a deeper
  history than the limit can be stored (`coordinator.py:2241`).
* A sweep that removes all versions of an artifact cannot be recorded
  (`coordinator.py:2396`).
* A counting rule may drop an event with the proposal's own timestamp (`temporal.py:998`).

Also seen, without a property: a held approval without a lease after an exception
(`approval_service.py:792`), initialize refusing a contained scope (line 247), an inbox that
replies from its callback (`messages.py:593`), a review whose policy projection raises and
keeps the issuer's slot until the next revocation (`delegation.py:773`), an older
unreconciled intent hidden by a newer one (`coordinator.py:1996`), and request_stop on a
prepared authorization leaving admission and hold to expiry (`broker.py:908`).

## Not modelled

Several coordinator scopes that charge one budget bucket: the runs have one scope, in which
takeover changes the owner and its budget policy. The credential broker, risk signals of the swarm gate, session history beyond the proxy's
window, checkpoints and history pages of the coordinator, parsing and digests, TLS, the
worker's own code, and everything outside `swarm`, the MCP proxies and delegation. The map
covers the concurrent core of the swarm, not the whole of the repository, most of which is
text analysis, schemas, evaluation and presentation.
