---------------------------- MODULE ToolGateway -----------------------------
(***************************************************************************)
(* The tool gateway, ordin/swarm/gateway.py: prepare, forward, cancel and  *)
(* revoke_agent of actors bound directly to a gate, and of actors bound to *)
(* the enforcing broker, over one ledger and one bounded table of tickets. *)
(*                                                                         *)
(* The four operations run under _operation_lock, which a direct forward   *)
(* keeps while the host's executor runs.  Outside it are the lookup of the *)
(* actor, the first checks of a broker prepare, the review facade that     *)
(* review_gate hands out, and the expiry of holds.  Every call of prepare  *)
(* gets a new action id, so an attempt stands for its own action.  A call  *)
(* of the ledger can fail before or after its effect; identity, history,   *)
(* evidence, policy and route checks can only refuse, and are a choice.    *)
(***************************************************************************)
EXTENDS Naturals, FiniteSets

CONSTANTS
    Agents,      \* actors of bind_agent and of bind_broker_agent
    Attempts,    \* calls of prepare, each with at most one ticket
    Who,         \* [Attempts -> actors]
    Other,       \* an action reviewed through the facade only
    MaxPending,  \* max_pending
    None

GatewayConstants ==
    /\ Who \in [Attempts -> Agents]
    /\ MaxPending \in Nat \ {0}
    /\ Other \notin Attempts /\ None \notin Attempts \cup {Other}

VARIABLES
    direct,    \* actors of bind_agent; the others are of bind_broker_agent
    hosted,    \* actors whose gate has a policy runtime
    step,      \* where the call that works on an attempt is
    lock,      \* the attempt whose call holds _operation_lock
    captured,  \* [Agents -> action of actor.captured]
    base,      \* attempts whose session review said "execute"
    decided,   \* [Attempts -> action of _Pending.decision]
    pending,   \* the tickets of _pending
    active,    \* [Agents -> actor.active]
    closed,    \* revoked actors
    gap,       \* actors with journal_gap
    hold,      \* status of the budget reservation of an attempt
    fault,     \* attempts for which the ledger or the clock failed
    auth,      \* state of the broker's authorization of an attempt
    ran        \* [Attempts -> the action its executor or worker was given]

binding == <<direct, hosted>>
review == <<captured, base, decided>>
actor == <<active, closed, gap>>
money == <<hold, fault>>
vars == <<binding, step, lock, review, pending, actor, money, auth, ran>>

Init ==
    /\ direct \in SUBSET Agents /\ hosted \in SUBSET Agents
    /\ step = [k \in Attempts |-> "idle"] /\ lock = None
    /\ captured = [g \in Agents |-> None] /\ base = {}
    /\ decided = [k \in Attempts |-> None]
    /\ pending = {} /\ active = [g \in Agents |-> None]
    /\ closed = {} /\ gap = {}
    /\ hold = [k \in Attempts |-> "none"] /\ fault = {}
    /\ auth = [k \in Attempts |-> "none"]
    /\ ran = [k \in Attempts |-> None]

IsDirect(k) == Who[k] \in direct

\* Attempt k moves to s; the call keeps the lock, or gives it back.
Holding(k, s) == step' = [step EXCEPT ![k] = s] /\ lock' = k
Leaving(k, s) == step' = [step EXCEPT ![k] = s] /\ lock' = None

\* _journal: any event may be refused, which leaves a gap.
Journal(g) == gap' \in {gap, gap \cup {g}}
-----------------------------------------------------------------------------
(* The ledger, as the gateway sees it: the status of k and the failed      *)
(* calls after a call that should take k from one of `from` to `to`.       *)

Succeeds(k, from, to) ==
    /\ hold[k] \in from
    /\ hold' = [hold EXCEPT ![k] = to] /\ UNCHANGED fault

Fails(k, from, to) ==
    /\ fault' = fault \cup {k}
    /\ \/ UNCHANGED hold
       \/ hold[k] \in from /\ hold' = [hold EXCEPT ![k] = to]

\* cancel returns silently for a hold that is over already.
Released(k) ==
    \/ Succeeds(k, {"reserved"}, "canceled")
    \/ hold[k] \in {"none", "canceled", "expired"} /\ UNCHANGED money

NotReleased(k) == hold[k] # "none" /\ Fails(k, {"reserved"}, "canceled")

\* The ledger expires a hold that was not forwarded in time.
ExpireHold(k) ==
    /\ hold[k] = "reserved"
    /\ hold' = [hold EXCEPT ![k] = "expired"]
    /\ UNCHANGED <<step, lock, review, pending, actor, fault, auth, ran>>
-----------------------------------------------------------------------------
(* prepare of a direct actor.                                              *)

\* The handle is looked up, and for a broker route the gap, before the lock.
Enter(k) ==
    /\ step[k] = "idle" /\ Who[k] \notin closed
    /\ Who[k] \notin direct => Who[k] \notin gap
    /\ step' = [step EXCEPT ![k] = "entered"]
    /\ UNCHANGED <<lock, review, pending, actor, money, auth, ran>>

\* One active attempt for an actor, and none once it is revoked.
Busy(g) == active[g] # None \/ g \in closed

\* prepare, or _prepare_broker, raises before it has done anything.
Reject(k) ==
    /\ step[k] = "entered" /\ lock = None /\ Busy(Who[k])
    /\ Leaving(k, "over")
    /\ UNCHANGED <<review, pending, actor, money, auth, ran>>

\* Mutant of Mediated: the mode of the actor is enough.
MediatedDirect(g) == g \in direct

\* The actor's journal is whole; its mode and routes are fixed by bind_agent.
Mediated(g) == g \in direct \ gap

\* session.evaluate, which captures the decision through the facade; with a
\* gap the facade denies.
Review(k) ==
    /\ step[k] = "entered" /\ IsDirect(k) /\ lock = None /\ ~Busy(Who[k])
    /\ captured' = [captured EXCEPT ![Who[k]] = k]
    /\ \/ UNCHANGED base
       \/ Mediated(Who[k]) /\ base' = base \cup {k}
    /\ Holding(k, "reviewed")
    /\ UNCHANGED <<decided, pending, actor, money, auth, ran>>

\* The gate of review_gate reviews another action, under no lock.
FacadeReview(g) ==
    /\ g \in direct \ closed
    /\ captured' = [captured EXCEPT ![g] = Other]
    /\ UNCHANGED <<step, lock, base, decided, pending, actor, money, auth, ran>>

\* The review, or the mediation of the route, does not let the action through.
Deny(k) ==
    /\ step[k] = "reviewed"
    /\ decided' = [decided EXCEPT ![k] = captured[Who[k]]]
    /\ Journal(Who[k])
    /\ Leaving(k, "over")
    /\ UNCHANGED <<captured, base, pending, active, closed, money, auth, ran>>

\* budget.reserve; when it fails the action is denied, and the denial journaled.
Reserve(k) ==
    /\ step[k] = "reviewed" /\ k \in base /\ Mediated(Who[k])
    /\ decided' = [decided EXCEPT ![k] = captured[Who[k]]]
    /\ \/ Succeeds(k, {"none"}, "reserved") /\ Holding(k, "reserved") /\ UNCHANGED gap
       \/ Fails(k, {"none"}, "reserved") /\ Leaving(k, "over") /\ Journal(Who[k])
    /\ UNCHANGED <<captured, base, pending, active, closed, auth, ran>>

\* With the hold in the evidence the policy runtime decides again.
Refresh(k) ==
    /\ step[k] = "reserved" /\ Who[k] \in hosted
    /\ decided' = [decided EXCEPT ![k] = k]
    /\ Holding(k, "refreshed")
    /\ UNCHANGED <<captured, base, pending, actor, money, auth, ran>>

\* The refreshed decision restricts the action, or could not be made.
Restrict(k) ==
    /\ step[k] = "reserved" /\ Who[k] \in hosted
    /\ \/ Released(k) /\ Journal(Who[k])
       \/ NotReleased(k) /\ UNCHANGED gap
    /\ Leaving(k, "over")
    /\ UNCHANGED <<review, pending, active, closed, auth, ran>>

Ready(k) == step[k] = (IF Who[k] \in hosted THEN "refreshed" ELSE "reserved")

Full == Cardinality(pending) >= MaxPending

\* The table of tickets is full, or the clock moved backward.
Refuse(k) ==
    /\ Ready(k)
    /\ \/ Full /\ (Released(k) \/ NotReleased(k))
       \/ ~Full /\ fault' = fault \cup {k} /\ UNCHANGED hold
    /\ Leaving(k, "over")
    /\ UNCHANGED <<review, pending, actor, auth, ran>>

Issue(k) ==
    /\ Ready(k) /\ ~Full
    /\ pending' = pending \cup {k}
    /\ active' = [active EXCEPT ![Who[k]] = k]
    /\ Leaving(k, "issued")
    /\ UNCHANGED <<review, closed, gap, money, auth, ran>>
-----------------------------------------------------------------------------
(* prepare of a broker actor: _prepare_broker.  Its authorization comes    *)
(* with a hold; module Broker has the broker's own steps.                  *)

\* gateway_scope or the broker's review refuses.
BrokerRefuses(k) ==
    /\ step[k] = "entered" /\ ~IsDirect(k) /\ lock = None /\ ~Busy(Who[k])
    /\ Leaving(k, "over")
    /\ UNCHANGED <<review, pending, actor, money, auth, ran>>

PrepareBroker(k) ==
    /\ step[k] = "entered" /\ ~IsDirect(k) /\ lock = None /\ ~Busy(Who[k])
    /\ hold' = [hold EXCEPT ![k] = "reserved"]
    /\ auth' = [auth EXCEPT ![k] = "prepared"]
    /\ Holding(k, "prepared")
    /\ UNCHANGED <<review, pending, actor, fault, ran>>

\* broker.cancel: an authorization that was not dispatched is canceled, its
\* hold released; the ledger's failure is only reported.
CancelAuthorization(k) ==
    /\ auth' = [auth EXCEPT ![k] = IF @ = "prepared" THEN "canceled" ELSE @]
    /\ IF auth[k] = "prepared" THEN Released(k) \/ NotReleased(k) ELSE UNCHANGED money

RefuseBroker(k) ==
    /\ step[k] = "prepared"
    /\ \/ Full /\ CancelAuthorization(k)
       \/ ~Full /\ fault' = fault \cup {k} /\ UNCHANGED <<hold, auth>>
    /\ Leaving(k, "over")
    /\ UNCHANGED <<review, pending, actor, ran>>

IssueBroker(k) ==
    /\ step[k] = "prepared" /\ ~Full
    /\ pending' = pending \cup {k}
    /\ active' = [active EXCEPT ![Who[k]] = k]
    /\ decided' = [decided EXCEPT ![k] = k]
    /\ Leaving(k, "issued")
    /\ UNCHANGED <<captured, base, closed, gap, money, auth, ran>>
-----------------------------------------------------------------------------
(* forward, cancel and revoke_agent.                                       *)

\* forward has looked up the actor, taken the lock and consumed the ticket.
Consume(k) ==
    /\ k \in pending /\ lock = None /\ Who[k] \notin closed
    /\ pending' = pending \ {k}

\* The ticket is stale, or begin_forward refuses or fails: the hold is
\* released in the finally clause, and a failure to do so leaves a gap.
ForwardStale(k) ==
    /\ IsDirect(k) /\ Consume(k)
    /\ \/ Released(k) /\ UNCHANGED gap
       \/ NotReleased(k) /\ gap' = gap \cup {Who[k]}
    /\ active' = [active EXCEPT ![Who[k]] = None]
    /\ Leaving(k, "over")
    /\ UNCHANGED <<review, closed, auth, ran>>

\* The acknowledgement of begin_forward is lost: its hold is past cancel.
ForwardLost(k) ==
    /\ IsDirect(k) /\ Consume(k) /\ hold[k] = "reserved"
    /\ hold' = [hold EXCEPT ![k] = "forwarding"] /\ fault' = fault \cup {k}
    /\ gap' = gap \cup {Who[k]}
    /\ active' = [active EXCEPT ![Who[k]] = None]
    /\ Leaving(k, "over")
    /\ UNCHANGED <<review, closed, auth, ran>>

\* The action y is the one that was decided on and, for begin_forward, the
\* one that the reservation was made for.
Bound(k, y) == active[Who[k]] = k /\ decided[k] = y /\ y = k

\* All checks pass and the executor is called, under the lock.
Forward(k, y) ==
    /\ IsDirect(k) /\ Consume(k) /\ Bound(k, y)
    /\ Succeeds(k, {"reserved"}, "forwarding")
    /\ ran' = [ran EXCEPT ![k] = y]
    /\ Holding(k, "executing")
    /\ UNCHANGED <<review, actor, auth>>

\* The executor returned: the hold is committed, or uncertain when it failed
\* or is not done, and the journal written.
Settle(k) ==
    /\ step[k] = "executing" /\ IsDirect(k)
    /\ \E s \in {"committed", "uncertain"} :
          \/ Succeeds(k, {"forwarding"}, s) /\ Journal(Who[k])
          \/ Fails(k, {"forwarding"}, s) /\ gap' = gap \cup {Who[k]}
    /\ active' = [active EXCEPT ![Who[k]] = None]
    /\ Leaving(k, "over")
    /\ UNCHANGED <<review, pending, closed, auth, ran>>

\* _forward_broker finds the ticket fenced or expired.
ForwardFenced(k) ==
    /\ ~IsDirect(k) /\ Consume(k)
    /\ CancelAuthorization(k)
    /\ active' = [active EXCEPT ![Who[k]] = None]
    /\ Leaving(k, "over")
    /\ UNCHANGED <<review, closed, gap, ran>>

\* gateway_scope raises: the binding, its grant or the identity is stale.
ForwardUnscoped(k) ==
    /\ ~IsDirect(k) /\ Consume(k) /\ active[Who[k]] = k
    /\ active' = [active EXCEPT ![Who[k]] = None]
    /\ Leaving(k, "over")
    /\ UNCHANGED <<review, closed, gap, money, auth, ran>>

\* broker.dispatch, which runs the worker or refuses and releases the hold.
Dispatch(k) ==
    /\ ~IsDirect(k) /\ Consume(k) /\ active[Who[k]] = k /\ auth[k] = "prepared"
    /\ auth' = [auth EXCEPT ![k] = "done"]
    /\ \/ /\ Succeeds(k, {"reserved"}, "forwarding")
          /\ ran' = [ran EXCEPT ![k] = k]
       \/ (Released(k) \/ NotReleased(k)) /\ UNCHANGED ran
    /\ Holding(k, "executing")
    /\ UNCHANGED <<review, actor>>

\* Its result is settled by the broker and journaled by the gateway.
FinishBroker(k) ==
    /\ step[k] = "executing" /\ ~IsDirect(k)
    /\ IF hold[k] = "forwarding"
       THEN \E s \in {"committed", "uncertain"} :
               Succeeds(k, {"forwarding"}, s) \/ Fails(k, {"forwarding"}, s)
       ELSE UNCHANGED money
    /\ Journal(Who[k])
    /\ active' = [active EXCEPT ![Who[k]] = None]
    /\ Leaving(k, "over")
    /\ UNCHANGED <<review, pending, closed, auth, ran>>

Cancel(k) ==
    /\ Consume(k)
    /\ active' = [active EXCEPT ![Who[k]] = None]
    /\ IF IsDirect(k)
       THEN /\ UNCHANGED auth
            /\ \/ Released(k) /\ Journal(Who[k])
               \/ NotReleased(k) /\ UNCHANGED gap
       ELSE CancelAuthorization(k) /\ Journal(Who[k])
    /\ Leaving(k, "over")
    /\ UNCHANGED <<review, closed, ran>>

Tickets(g) == {k \in pending : Who[k] = g}

\* revoke_agent, which an executor may also call.  A direct ticket's hold is
\* released; a broker is asked to stop, which cancels the authorization only.
Revoke(g) ==
    /\ g \notin closed
    /\ lock # None => step[lock] = "executing"
    /\ closed' = closed \cup {g}
    /\ active' = [active EXCEPT ![g] = None]
    /\ pending' = pending \ Tickets(g)
    /\ step' = [k \in Attempts |-> IF k \in Tickets(g) THEN "over" ELSE step[k]]
    /\ IF \E k \in Tickets(g) : IsDirect(k)
       THEN LET k == CHOOSE k \in Tickets(g) : TRUE IN
            \/ Released(k) /\ UNCHANGED gap
            \/ NotReleased(k) /\ gap' = gap \cup {g}
       ELSE UNCHANGED <<gap, money>>
    /\ auth' = [k \in Attempts |-> IF k \in Tickets(g) /\ auth[k] = "prepared"
                                   THEN "canceled" ELSE auth[k]]
    /\ UNCHANGED <<lock, review, ran>>
-----------------------------------------------------------------------------
Prepare(k) ==
    \/ Enter(k) \/ Reject(k) \/ Review(k) \/ Deny(k) \/ Reserve(k) \/ Refresh(k)
    \/ Restrict(k) \/ Refuse(k) \/ Issue(k)
    \/ BrokerRefuses(k) \/ PrepareBroker(k) \/ RefuseBroker(k) \/ IssueBroker(k)

Use(k) ==
    \/ ForwardStale(k) \/ ForwardLost(k) \/ Settle(k) \/ Cancel(k) \/ ExpireHold(k)
    \/ \E y \in Attempts \cup {Other} : Forward(k, y)
    \/ ForwardFenced(k) \/ ForwardUnscoped(k) \/ Dispatch(k) \/ FinishBroker(k)

Next ==
    /\ \/ \E k \in Attempts : Prepare(k) \/ Use(k)
       \/ \E g \in Agents : FacadeReview(g) \/ Revoke(g)
    /\ UNCHANGED binding

Spec == Init /\ [][Next]_vars
-----------------------------------------------------------------------------
\* The types of the variables, and the bound of the ticket table.
TypeOK ==
    /\ {direct, hosted} \subseteq SUBSET Agents
    /\ step \in [Attempts -> {"idle", "entered", "reviewed", "reserved", "refreshed",
                              "prepared", "issued", "executing", "over"}]
    /\ lock \in Attempts \cup {None}
    /\ captured \in [Agents -> Attempts \cup {Other, None}]
    /\ decided \in [Attempts -> Attempts \cup {Other, None}]
    /\ base \subseteq Attempts /\ fault \subseteq Attempts
    /\ pending \subseteq Attempts /\ Cardinality(pending) <= MaxPending
    /\ active \in [Agents -> Attempts \cup {None}]
    /\ closed \subseteq Agents /\ gap \subseteq Agents
    /\ hold \in [Attempts -> {"none", "reserved", "forwarding", "committed", "uncertain",
                              "canceled", "expired"}]
    /\ auth \in [Attempts -> {"none", "prepared", "canceled", "done"}]
    /\ ran \in [Attempts -> Attempts \cup {Other, None}]

\* A ticket in the table is the active attempt of an actor that was not
\* revoked: whatever order prepare, forward, cancel and revoke_agent come in,
\* an actor has one ticket at most and a revoked one none.
TicketIsActive ==
    \A k \in pending : active[Who[k]] = k /\ Who[k] \notin closed

\* Unless the ledger or the clock failed, a hold that was not forwarded
\* belongs to a call of prepare under way or to a ticket that can still be
\* forwarded or canceled: stale, canceled, refused and revoked attempts of a
\* direct actor gave theirs back.
NoIdleHold ==
    \A k \in Attempts \ fault :
        IsDirect(k) /\ hold[k] = "reserved" => lock = k \/ k \in pending

\* An executor is only given the action of its own attempt, which was reserved
\* before and is charged or held for ever after: not the action of another
\* review whose decision the facade left in actor.captured.
EffectsArePaid ==
    \A k \in Attempts :
        ran[k] # None => ran[k] = k /\ hold[k] \in {"forwarding", "committed", "uncertain"}

\* A ticket is used for one effect or given back.
ForwardedOnce == TypeOK /\ TicketIsActive /\ NoIdleHold /\ EffectsArePaid

\* Nothing is forwarded for a direct actor whose journal has a gap.
GapBlocksForwarding ==
    [][\A k \in Attempts : ran'[k] # ran[k] /\ IsDirect(k) => Who[k] \notin gap]_vars

\* Once the ledger failed to acknowledge the settlement of an effect, nothing
\* more is forwarded for that actor.
DoubtStopsTheActor ==
    [][\A k, j \in Attempts :
          ran'[k] # ran[k] /\ IsDirect(k) /\ Who[j] = Who[k]
              => ran[j] = None \/ j \notin fault]_vars
=============================================================================
