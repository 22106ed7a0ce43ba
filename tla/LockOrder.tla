------------------------------ MODULE LockOrder ------------------------------
(***************************************************************************)
(* The re-entrant locks of ordin/swarm, and the order the operations take  *)
(* them in.                                                                *)
(*                                                                         *)
(* Every lock is an RLock held by a with statement, so what a thread holds *)
(* is the set of the with statements it is in.  An operation is the        *)
(* sequence of those sets, one for each point where it may have to wait;   *)
(* the state of the system is what each thread holds and has ahead.  A     *)
(* lock that is only ever innermost (the registry, the budget ledger, the  *)
(* job table, the ledgers of ingestion and facts) cannot be in a cycle and *)
(* is left out.  The database of the coordinator is a lock one waits for   *)
(* with a timeout: the wait ends in an exception that leaves every with    *)
(* statement.                                                              *)
(***************************************************************************)
EXTENDS Naturals, Sequences

CONSTANTS
    Threads,        \* threads of the host, each running one operation
    Routes,         \* the operations they may run
    PolicyRuntime,  \* is a policy runtime bound to the service and the gates?
    Containment,    \* is a containment controller bound to the service?
    Approvals       \* does the issuer's gate carry an approval authority?

Locks == {"barrier", "service", "issuer", "workloads", "child", "history", "runtime", "gate",
          "exec", "state", "operation", "actor", "session", "table", "human", "vault", "db"}

\* BEGIN IMMEDIATE and LOCK TABLE are given up after three seconds.
Timed == {"db"}

\* with lock: body.  The thread gets the lock, runs the body, releases the lock.
With(lock, body) == <<{lock}>> \o [i \in DOMAIN body |-> body[i] \cup {lock}] \o <<{}>>

\* Statements that take no further lock.
Work == <<>>
-----------------------------------------------------------------------------
(* Shared pieces of the operations.                                        *)

\* SwarmDelegationService._policy_barrier: the registry's execution barrier.
PolicyBarrier(body) == IF PolicyRuntime \/ Containment THEN With("barrier", body) ELSE body

\* Mutant of ContainmentBarrier: where there is a runtime, its guard takes the barrier.
ContainmentBarrierUnguarded(body) ==
    IF Containment /\ ~PolicyRuntime THEN PolicyBarrier(body) ELSE body

\* Coordinator._containment_barrier.
ContainmentBarrier(body) == IF Containment THEN PolicyBarrier(body) ELSE body

\* SwarmExecutionBroker._barrier.
BrokerBarrier(body) ==
    IF PolicyRuntime \/ Containment THEN With("barrier", body) ELSE With("exec", body)

\* execution_guard looks at the runtime under its lock and keeps the barrier.
Guard(body) == IF PolicyRuntime THEN With("barrier", With("runtime", Work) \o body) ELSE body

\* The service's own lock and its issuer's.
Service(body) == With("service", With("issuer", body))

\* AssuranceGate.configuration_digest reads the digest of its approval
\* authority, whose lock is the admission barrier and then its own.
Configuration == IF Approvals THEN With("barrier", Work) ELSE Work

\* _online, and the authentication of a channel.
Authenticated == Configuration \o With("workloads", Work)

\* DelegatingAssuranceGate.evaluate_action: gate, history, issuer.
Evaluated == With("child", With("history", Configuration \o With("issuer", Work)))

\* preview_action and preview_binding_digest take the same three.
Previewed == With("child", With("history", With("issuer", Configuration)))

\* _policy_projection.
Projected == IF PolicyRuntime THEN With("runtime", Work) ELSE Work

\* require_current of the containment controller reads the database.
Contained == IF Containment THEN With("db", Work) ELSE Work

\* SwarmDelegationService.review.
Review == PolicyBarrier(Service(Authenticated \o Contained \o Evaluated \o Projected))

\* SwarmGate.evaluate_action over a delegated baseline.
GateReview == With("gate", Previewed \o Projected)

\* SwarmDelegationService.guarded_dispatch around a callback.
Dispatch(forward) ==
    PolicyBarrier(Service(Authenticated \o Contained
        \o Guard(Projected \o With("child", Work) \o forward)))
-----------------------------------------------------------------------------
(* Operations.                                                             *)

\* publish_root, issue_child, require_current, revoke, cancel, admission_scope.
Issue == Service(Authenticated)

\* bind_delegation_context.
Rebind == Service(With("workloads", Configuration))

\* operator_revoke, set_available, fence_policy.
Fence == Service(With("workloads", Work))

\* Coordinator.evaluate: a preview inside the transaction.
Evaluate == ContainmentBarrier(With("db", Authenticated \o With("issuer", Work) \o Previewed))

\* SwarmExecutionBroker.prepare.
BrokerPrepare ==
    Service(Authenticated \o With("history", Work))
    \o BrokerBarrier(Guard(With("exec",
           Review \o Issue \o GateReview \o Issue \o Previewed \o With("state", Work))))

\* Coordinator.reserve: the broker prepares inside the transaction.
Reserve ==
    With("workloads", Work)
    \o ContainmentBarrier(Guard(With("db", With("workloads", Work) \o BrokerPrepare)))

\* SwarmExecutionBroker.dispatch.
BrokerDispatch ==
    With("state", Work)
    \o BrokerBarrier(Guard(With("exec",
           Issue \o Previewed \o With("gate", Previewed)
           \o Dispatch(With("state", Work)) \o With("state", Work))))

\* Coordinator.guarded_dispatch: begin_forward, the broker, commit.
GuardedDispatch ==
    ContainmentBarrier(With("db", With("workloads", Work)))
    \o BrokerDispatch \o With("db", With("workloads", Work))

\* SwarmExecutionBroker.cancel of a prepared authorization.
BrokerCancel ==
    With("state", Work) \o BrokerBarrier(With("exec", Service(Work))) \o With("state", Work)

\* SwarmExecutionBroker.request_stop and status.
BrokerStop == With("state", Work)

\* SwarmPolicyRuntime.activate, rebind_sources.
Activate == With("barrier", With("runtime", Service(With("workloads", Work) \o Authenticated)))

\* record_fence and reconcile: the database, then the issuer without it.
RecordFence == With("db", With("workloads", Work)) \o Fence

\* SwarmApprovalService: an operation of a human or a workload.
Approve ==
    With("barrier", With("human", With("db", With("workloads", Work) \o Service(Authenticated))))
    \o With("human", Work)

\* SwarmCredentialBroker.prepare, dispatch and revoke.
Credential == With("vault", Review \o Dispatch(Work) \o Fence)

\* SwarmToolGateway.prepare of a direct agent.
GatewayPrepare ==
    With("operation", With("actor", With("session", With("gate", Projected))
                                    \o With("gate", Projected) \o With("table", Work)))

\* SwarmToolGateway.forward of a direct agent, around the executor.
GatewayForward ==
    Guard(With("operation", With("actor", With("table", Work) \o Projected \o Work)))

\* _prepare_broker, _forward_broker, cancel and revoke_agent of a broker agent.
GatewayBroker ==
    With("operation", With("actor", Issue \o BrokerPrepare \o With("table", BrokerCancel)))
    \o With("operation", With("actor", With("table", Work) \o BrokerDispatch))
    \o With("operation", With("table", BrokerStop))

\* MediatedSessionRouter.call holds the operation lock around both halves.
GatewayRouter == With("operation", GatewayPrepare \o GatewayForward)

\* The operation behind a route.
Steps ==
    [issue |-> Issue,
     rebind |-> Rebind,
     fence |-> Fence,
     review |-> Review,
     dispatch |-> Dispatch(Work),
     evaluate |-> Evaluate,
     reserve |-> Reserve,
     guarded_dispatch |-> GuardedDispatch,
     broker_prepare |-> BrokerPrepare,
     broker_dispatch |-> BrokerDispatch,
     broker_cancel |-> BrokerCancel,
     broker_stop |-> BrokerStop,
     activate |-> Activate,
     record_fence |-> RecordFence,
     approve |-> Approve,
     credential |-> Credential,
     gateway_prepare |-> GatewayPrepare,
     gateway_forward |-> GatewayForward,
     gateway_broker |-> GatewayBroker,
     gateway_router |-> GatewayRouter]
-----------------------------------------------------------------------------
VARIABLES
    held,   \* [Threads -> the locks of the with statements the thread is in]
    ahead   \* [Threads -> those sets for the points it has still to come to]

vars == <<held, ahead>>

Init ==
    /\ held = [t \in Threads |-> {}]
    /\ \E route \in [Threads -> Routes] :
           ahead = [t \in Threads |-> Append(Steps[route[t]], {})]

Ended(t) == ahead[t] = <<>>

\* The locks t needs to get to its next point.
Wanted(t) == IF Ended(t) THEN {} ELSE Head(ahead[t]) \ held[t]

\* The threads t waits for.
Blockers(t) == {u \in Threads \ {t} : held[u] \cap Wanted(t) # {}}

\* Go on to the next point, once the lock it needs is free.
Advance(t) ==
    /\ ~Ended(t) /\ Blockers(t) = {}
    /\ held' = [held EXCEPT ![t] = Head(ahead[t])]
    /\ ahead' = [ahead EXCEPT ![t] = Tail(@)]

\* The wait for the database times out: the exception leaves every lock.
TimeOut(t) ==
    /\ Wanted(t) \cap Timed # {} /\ Blockers(t) # {}
    /\ held' = [held EXCEPT ![t] = {}]
    /\ ahead' = [ahead EXCEPT ![t] = <<>>]

Next ==
    \/ \E t \in Threads : Advance(t)
    \/ \E t \in Threads : TimeOut(t)

\* As long as a thread can go on, or give up, one does.
Spec == Init /\ [][Next]_vars /\ WF_vars(Next)
-----------------------------------------------------------------------------
\* Threads hold locks, none of which has two holders (registry.py, delegation.py,
\* gateway.py, broker.py: RLock), and none when their operation is over.
TypeOK ==
    /\ held \in [Threads -> SUBSET Locks]
    /\ \A t, u \in Threads : t # u => held[t] \cap held[u] = {}
    /\ \A t \in Threads : Ended(t) => held[t] = {}

\* No threads wait for each other in a circle, not even in one that the time-out
\* of the database would break.  containment.py says that admission locks come
\* before the locks of the database, the issuer and the broker on every bound
\* route, approval.py that normal approval work takes the admission barrier
\* before the issuer, policies.md that the dispatchers take the barrier before
\* their final checks.
NoCircularWait ==
    \A group \in SUBSET Threads \ {{}} :
        \E t \in group : Ended(t) \/ Blockers(t) \cap group = {}

=============================================================================
