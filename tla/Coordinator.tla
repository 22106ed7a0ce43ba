----------------------------- MODULE Coordinator ----------------------------
(***************************************************************************)
(* The distributed swarm coordinator, ordin/swarm/coordinator.py over      *)
(* ordin/swarm/coordinator_store.py.                                       *)
(*                                                                         *)
(* Several coordinator objects share one scope of one database.  Every     *)
(* store.transaction() is one action.  A CoordinatorRejected raised inside *)
(* a transaction still commits what the handler had written, so each       *)
(* handler that appends to the bounded journal has a second outcome, in    *)
(* which the append fails, the scope is marked incomplete and the caller   *)
(* gets an exception.  Prepared authorizations and the availability flag   *)
(* live in the memory of one object.                                       *)
(*                                                                         *)
(* The preview of an evaluation and the reservation made from it share one *)
(* name: ids are fresh, and a denied reservation holds nothing.  The phase *)
(* "preparing" never outlives its transaction.  A failed transaction       *)
(* (database unavailable, clock behind last_now) changes nothing.          *)
(***************************************************************************)
EXTENDS UnitSums, Sequences

CONSTANTS
    Instances,     \* coordinator objects, each with one policy snapshot
    Epoch,         \* [Instances -> Nat]: policy epoch of that snapshot
    Limit,         \* [Instances -> [Buckets -> Nat]]: its budget policy
    Subjects,      \* workloads
    Parent,        \* [Subjects -> Subjects \cup {None}]: parent_subject
    Grants,        \* native grant references
    Holder,        \* [Grants -> Subjects]
    Ancestry,      \* [Grants -> SUBSET Grants]: a grant and those it derives from
    GrantEnds,     \* [Grants -> Nat]: expiry of the native grant
    Reservations,  \* evaluation and reservation ids
    GrantOf,       \* [Reservations -> Grants]: grant the action is taken under
    Actions,       \* action digests
    ActionOf,      \* [Reservations -> Actions]
    Buckets,       \* shared budget buckets
    Transient,     \* the buckets of the metric "concurrency"
    Scope,         \* [Reservations -> SUBSET Buckets]: _select_budget_buckets
    Cost,          \* [Reservations -> [Buckets -> Nat]]: resolved costs
    MaxUnits,      \* bound of a cost
    OwnerLife, LeaseLife, PreviewLife, HoldLife,  \* lifetimes
    FenceRequests, \* what a protected controller may ask record_fence for
    MaxTime, MaxFence, MaxRevocations,  \* bounds of the model
    None

FenceKinds == [kind : {"action", "agent", "subtree", "swarm"},
               subject : Subjects \cup {None}, action : Actions \cup {None}]

ASSUME CoordinatorConstants ==
    /\ IsFiniteSet(Reservations) /\ MaxUnits \in Nat
    /\ Epoch \in [Instances -> Nat]
    /\ Limit \in [Instances -> [Buckets -> Nat]]
    /\ Parent \in [Subjects -> Subjects \cup {None}]
    /\ Holder \in [Grants -> Subjects]
    /\ Ancestry \in [Grants -> SUBSET Grants] /\ \A g \in Grants : g \in Ancestry[g]
    /\ GrantEnds \in [Grants -> Nat]
    /\ GrantOf \in [Reservations -> Grants]
    /\ ActionOf \in [Reservations -> Actions]
    /\ Scope \in [Reservations -> SUBSET Buckets]
    /\ Cost \in [Reservations -> [Buckets -> 0..MaxUnits]]
    /\ \A r \in Reservations : \A b \in Buckets \ Scope[r] : Cost[r][b] = 0
    /\ OwnerLife \in Nat /\ LeaseLife \in Nat /\ PreviewLife \in Nat /\ HoldLife \in Nat
    /\ MaxTime \in Nat /\ MaxFence \in Nat /\ MaxRevocations \in Nat
    /\ FenceRequests \subseteq FenceKinds
    /\ None \notin Instances /\ None \notin Subjects

VARIABLES
    owner,       \* state["owner"] and state["policy_epoch"]
    subject,     \* state["subjects"]: generation 0 is a workload never admitted
    grant,       \* state["grants"]
    status,      \* phase of an evaluation and of the reservation made from it
    row,         \* its subject_generation, owner_fence and expires_at, and how
                 \* many fences came before it (history, read by no action)
    outcome,     \* revocation epoch of its incident_outcome, 0 without one
    held, consumed, maximum,   \* coordinator_buckets, maximum -1 without a row
    fences,      \* state["fences"]: the revocation intents, oldest first
    barrier,     \* the realm's row in coordinator_barriers
    banned,      \* state["blocked_actions"]
    incomplete,  \* state["incomplete"]: the journal is full
    available,   \* self._available of each object
    maker,       \* the object that prepared a reservation
    prepared,    \* where that object keeps it: _prepared, _retired_prepared
    dispatch,    \* progress of guarded_dispatch on a reservation
    verified,    \* what each object's reconcile_fence checked before verifying
    effects,     \* how often the executor ran a reservation's action
    now          \* the database server's clock

budget == <<held, consumed, maximum>>
incident == <<outcome, fences, barrier, banned>>
memory == <<available, maker, prepared, dispatch, verified>>
vars == <<owner, subject, grant, status, row, budget, incident, incomplete,
          memory, effects, now>>

Live == {"reserved", "forwarding", "uncertain"}
Booked == Live \cup {"committed", "canceled", "expired"}
Previews == {"none", "previewed", "stale"}
Results == {"completed", "canceled", "unknown"}
Subj(r) == Holder[GrantOf[r]]
Least(x, y) == IF x <= y THEN x ELSE y
Amount(b) == [r \in Reservations |-> Cost[r][b]]

Init ==
    /\ owner = [id |-> None, fence |-> 0, expires |-> 0, policy |-> 0]
    /\ subject = [s \in Subjects |-> [gen |-> 0, revoked |-> FALSE, lease |-> 0, fence |-> 0]]
    /\ grant = [g \in Grants |-> [status |-> "none", gen |-> 0, fence |-> 0]]
    /\ status = [r \in Reservations |-> "none"]
    /\ row = [r \in Reservations |-> [gen |-> 0, fence |-> 0, expires |-> 0, epoch |-> 0]]
    /\ outcome = [r \in Reservations |-> 0]
    /\ held = [b \in Buckets |-> 0]
    /\ consumed = [b \in Buckets |-> 0]
    /\ maximum = [b \in Buckets |-> -1]
    /\ fences = <<>>
    /\ barrier = [blocked |-> FALSE, intent |-> 0]
    /\ banned = {}
    /\ incomplete = FALSE
    /\ available = [i \in Instances |-> TRUE]
    /\ maker = [r \in Reservations |-> None]
    /\ prepared = [r \in Reservations |-> "none"]
    /\ dispatch = [r \in Reservations |-> "idle"]
    /\ verified = [i \in Instances |-> [epoch |-> 0, fence |-> 0]]
    /\ effects = [r \in Reservations |-> 0]
    /\ now = 0
-----------------------------------------------------------------------------
(* Helpers shared by the handlers.                                         *)

\* append: a full journal marks the scope incomplete and rejects the caller.
Journal(ok) ==
    /\ ok => ~incomplete
    /\ incomplete' = ~ok

\* _owner, as far as every handler needs it: an available object that holds
\* an unexpired lease on the scope under the policy it was started with.
Serving(i) == available[i] /\ owner.id = i /\ now < owner.expires

\* _owner of a handler that admits work: no barrier and no missing history.
Admitting(i) == Serving(i) /\ ~barrier.blocked /\ ~incomplete

\* Mutant of Expired: the hold of a reservation being forwarded is returned.
ExpiredAnyway(r) == IF now < row[r].expires THEN status[r]
    ELSE IF status[r] \in {"reserved", "forwarding"} THEN "expired" ELSE status[r]

\* _expire: what becomes of reservation r at the current time.
Expired(r) == IF now < row[r].expires THEN status[r]
    ELSE IF status[r] = "reserved" THEN "expired"
    ELSE IF status[r] = "forwarding" THEN "uncertain" ELSE status[r]

AfterExpiry == [r \in Reservations |-> Expired(r)]

\* _release of every reservation that leaves "reserved" unused in going to st.
Freed(st) == {r \in Reservations :
    status[r] = "reserved" /\ st[r] \in {"canceled", "expired"}}
Returned(st) == [b \in Buckets |-> held[b] - UnitSum(Amount(b), Freed(st), MaxUnits)]

\* _lease: workload s holds a lease issued under the present owner fence.
Leased(s) ==
    /\ subject[s].gen > 0 /\ ~subject[s].revoked
    /\ subject[s].fence = owner.fence
    /\ now < subject[s].lease

\* Mutant of GrantCurrent: the grants g derives from are not looked at.
GrantItselfCurrent(g) ==
    /\ grant[g].status = "current" /\ grant[g].fence = owner.fence
    /\ subject[Holder[g]].gen = grant[g].gen /\ now < GrantEnds[g]

\* _grant: g and all it derives from are current, for the present generation
\* of workloads whose leases are current.
GrantCurrent(g) ==
    \A h \in Ancestry[g] :
        /\ grant[h].status = "current"
        /\ grant[h].fence = owner.fence
        /\ ~subject[Holder[h]].revoked
        /\ now < subject[Holder[h]].lease
        /\ subject[Holder[h]].gen = grant[h].gen
        /\ now < GrantEnds[h]

\* The stored maximum of bucket b only ever narrows.
Narrowed(i, b) == IF maximum[b] = -1 THEN Limit[i][b] ELSE Least(Limit[i][b], maximum[b])

\* Mutant of Fits: the units already consumed are forgotten.
FitsHeldOnly(i, b, r) == Returned(AfterExpiry)[b] + Cost[r][b] <= Narrowed(i, b)

\* _charge: bucket b has room for reservation r.
Fits(i, b, r) == Returned(AfterExpiry)[b] + consumed[b] + Cost[r][b] <= Narrowed(i, b)

\* _broker_reservation: r belongs to the present owner, and its workload has
\* kept the generation, the lease and the grants it was evaluated with.
Current(i, r) ==
    /\ Admitting(i)
    /\ ~subject[Subj(r)].revoked
    /\ subject[Subj(r)].gen = row[r].gen
    /\ now < subject[Subj(r)].lease
    /\ row[r].fence = owner.fence
    /\ GrantCurrent(GrantOf[r])
-----------------------------------------------------------------------------
(* Ownership.                                                              *)

\* Mutant of TakenOver: a new owner leaves forwarding reservations as they are.
TakenOverUnused(r) ==
    IF status[r] = "previewed" THEN "stale"
    ELSE IF status[r] = "reserved" THEN "canceled" ELSE status[r]

\* Mutant of TakenOver: a new owner gives the previous owner's holds back.
TakenOverRefunded(r) ==
    IF status[r] = "previewed" THEN "stale"
    ELSE IF status[r] \in {"reserved", "forwarding"} THEN "canceled" ELSE status[r]

\* What a new owner makes of the previous owner's work.
TakenOver(r) ==
    IF status[r] = "previewed" THEN "stale"
    ELSE IF status[r] = "reserved" THEN "canceled"
    ELSE IF status[r] = "forwarding" THEN "uncertain" ELSE status[r]

\* start: take the scope over.  With takeover=True a live owner is no
\* obstacle; without it start does the same only once the lease has expired.
Start(i, ok) ==
    /\ Epoch[i] >= owner.policy
    /\ owner.fence < MaxFence
    /\ owner' = [id |-> i, fence |-> owner.fence + 1,
                 expires |-> now + OwnerLife, policy |-> Epoch[i]]
    /\ subject' = [s \in Subjects |-> [subject[s] EXCEPT !.lease = 0]]
    /\ grant' = [g \in Grants |-> IF grant[g].status \in {"none", "revoked"} THEN grant[g]
                    ELSE [grant[g] EXCEPT !.status = "requires_revalidation"]]
    /\ status' = [r \in Reservations |-> TakenOver(r)]
    /\ held' = Returned(status')
    /\ Journal(ok)
    /\ prepared' = [r \in Reservations |->
          IF ~ok \/ maker[r] # i \/ prepared[r] # "live" THEN prepared[r]
          ELSE IF status'[r] = "uncertain" THEN "retired" ELSE "none"]
    /\ available' = IF ok THEN [available EXCEPT ![i] = TRUE] ELSE available
    /\ UNCHANGED <<row, consumed, maximum, incident, maker, dispatch, verified, effects, now>>

\* heartbeat: a full journal rejects it after the lease was extended.
Heartbeat(i, ok) ==
    /\ Serving(i)
    /\ owner' = [owner EXCEPT !.expires = now + OwnerLife]
    /\ status' = AfterExpiry
    /\ held' = Returned(status')
    /\ Journal(ok)
    /\ UNCHANGED <<subject, grant, row, consumed, maximum, incident, memory, effects, now>>

\* Any other transaction that gets past _owner: reports, idempotent retries
\* and rejections commit the expiry of what is due.
Housekeep(i) ==
    /\ Serving(i) /\ ~barrier.blocked
    /\ status' = AfterExpiry
    /\ held' = Returned(status')
    /\ UNCHANGED <<owner, subject, grant, row, consumed, maximum, incident,
                   incomplete, memory, effects, now>>
-----------------------------------------------------------------------------
(* Workloads.                                                              *)

\* admit: a workload without a current lease starts a new generation.
Admit(i, s, ok) ==
    /\ Admitting(i) /\ ~subject[s].revoked
    /\ LET fresh == subject[s].gen = 0 \/ now >= subject[s].lease
                        \/ subject[s].fence # owner.fence
       IN subject' = [subject EXCEPT ![s] =
            [gen |-> IF fresh THEN subject[s].gen + 1 ELSE subject[s].gen,
             revoked |-> FALSE,
             lease |-> Least(now + LeaseLife, owner.expires),
             fence |-> owner.fence]]
    /\ status' = AfterExpiry
    /\ held' = Returned(status')
    /\ Journal(ok)
    /\ UNCHANGED <<owner, grant, row, consumed, maximum, incident, memory, effects, now>>

\* bind_grant: bind a native grant to the present generation of its holder.
BindGrant(i, g, ok) ==
    /\ Admitting(i) /\ Leased(Holder[g])
    /\ grant[g].status # "revoked"
    /\ now < GrantEnds[g]
    /\ grant' = [grant EXCEPT ![g] = [status |-> "current",
                    gen |-> subject[Holder[g]].gen, fence |-> owner.fence]]
    /\ status' = AfterExpiry
    /\ held' = Returned(status')
    /\ Journal(ok)
    /\ UNCHANGED <<owner, subject, row, consumed, maximum, incident, memory, effects, now>>

\* evaluate: a preview, bound to the generation, the fence and the time.
Evaluate(i, r, ok) ==
    /\ Admitting(i) /\ Leased(Subj(r)) /\ GrantCurrent(GrantOf[r])
    /\ status[r] = "none"
    /\ row' = [row EXCEPT ![r] = [gen |-> subject[Subj(r)].gen, fence |-> owner.fence,
          expires |-> Least(subject[Subj(r)].lease, now + PreviewLife), epoch |-> Len(fences)]]
    /\ status' = [AfterExpiry EXCEPT ![r] = "previewed"]
    /\ held' = Returned(status')
    /\ Journal(ok)
    /\ UNCHANGED <<owner, subject, grant, consumed, maximum, incident, memory, effects, now>>

\* The evaluation r may be turned into a reservation.
Reservable(i, r) ==
    /\ Admitting(i) /\ Leased(Subj(r)) /\ GrantCurrent(GrantOf[r])
    /\ status[r] = "previewed"
    /\ row[r].gen = subject[Subj(r)].gen
    /\ row[r].fence = owner.fence
    /\ now < row[r].expires

\* A fence on the action of r, for all workloads or for that of r, is in force.
Banned(r) == {<<ActionOf[r], None>>, <<ActionOf[r], Subj(r)>>} \cap banned # {}

\* reserve: charge every selected bucket, prepare with the broker, and publish
\* the prepared authorization once the transaction is acknowledged.
Reserve(i, r, ok, ack) ==
    /\ Reservable(i, r) /\ ~Banned(r)
    /\ \A b \in Scope[r] : Fits(i, b, r)
    /\ ack => ok
    /\ status' = [AfterExpiry EXCEPT ![r] = "reserved"]
    /\ held' = [b \in Buckets |-> Returned(status')[b] + Cost[r][b]]
    /\ maximum' = [b \in Buckets |-> IF b \in Scope[r] THEN Narrowed(i, b) ELSE maximum[b]]
    /\ row' = [row EXCEPT ![r].expires =
          Least(@, Least(subject[Subj(r)].lease, now + HoldLife))]
    /\ Journal(ok)
    /\ maker' = [maker EXCEPT ![r] = i]
    /\ prepared' = [prepared EXCEPT ![r] = IF ack THEN "live" ELSE "none"]
    /\ UNCHANGED <<owner, subject, grant, consumed, incident, available, dispatch,
                   verified, effects, now>>

\* reserve, denied by the broker's preparation or by an action fence after the
\* buckets were charged: the hold goes back, the narrowed maxima stay.
Deny(i, r) ==
    /\ Reservable(i, r)
    /\ \A b \in Scope[r] : Fits(i, b, r)
    /\ status' = AfterExpiry
    /\ held' = Returned(status')
    /\ maximum' = [b \in Buckets |-> IF b \in Scope[r] THEN Narrowed(i, b) ELSE maximum[b]]
    /\ incomplete' \in BOOLEAN
    /\ UNCHANGED <<owner, subject, grant, row, consumed, incident, memory, effects, now>>

\* reserve, refused by bucket b: the rows of the buckets S looked at so far
\* have been created.
RefuseBudget(i, r, b, S) ==
    /\ Reservable(i, r)
    /\ b \in Scope[r] /\ ~Fits(i, b, r)
    /\ b \notin S /\ S \subseteq Scope[r] /\ \A x \in S : Fits(i, x, r)
    /\ status' = AfterExpiry
    /\ held' = Returned(status')
    /\ maximum' = [x \in Buckets |->
          IF x \in S \cup {b} /\ maximum[x] = -1 THEN Limit[i][x] ELSE maximum[x]]
    /\ UNCHANGED <<owner, subject, grant, row, consumed, incident, incomplete,
                   memory, effects, now>>

\* cancel, by the workload, of a reservation nobody has begun to forward.
Cancel(i, r, ok) ==
    /\ Serving(i) /\ ~barrier.blocked /\ Leased(Subj(r))
    /\ row[r].gen = subject[Subj(r)].gen
    /\ Expired(r) = "reserved"
    /\ status' = [AfterExpiry EXCEPT ![r] = "canceled"]
    /\ held' = Returned(status')
    /\ Journal(ok)
    /\ prepared' = IF ok /\ maker[r] = i THEN [prepared EXCEPT ![r] = "none"] ELSE prepared
    /\ UNCHANGED <<owner, subject, grant, row, consumed, maximum, incident, available,
                   maker, dispatch, verified, effects, now>>
-----------------------------------------------------------------------------
(* Forwarding.                                                             *)

\* begin_forward: durably consume the reservation before any effect.  Only an
\* acknowledged caller goes on to dispatch.
BeginForward(i, r, ok, ack) ==
    /\ Current(i, r)
    /\ Expired(r) = "reserved"
    /\ maker[r] = i /\ prepared[r] = "live"
    /\ ack => ok
    /\ status' = [AfterExpiry EXCEPT ![r] = "forwarding"]
    /\ held' = Returned(status')
    /\ Journal(ok)
    /\ dispatch' = IF ack THEN [dispatch EXCEPT ![r] = "begun"] ELSE dispatch
    /\ UNCHANGED <<owner, subject, grant, row, consumed, maximum, incident, available,
                   maker, prepared, verified, effects, now>>

\* The broker runs the action; its result may be lost, and a worker that is
\* killed while it runs counts as canceled.
Effect(r, result) ==
    /\ dispatch[r] = "begun"
    /\ effects' = [effects EXCEPT ![r] = @ + 1]
    /\ dispatch' = [dispatch EXCEPT ![r] = result]
    /\ UNCHANGED <<owner, subject, grant, status, row, budget, incident, incomplete,
                   available, maker, prepared, verified, now>>

\* The broker refuses, is stopped before it ran the action, or never hears of
\* it because begin_forward was not acknowledged or start dropped it.
NoEffect(r, result) ==
    /\ \/ dispatch[r] = "begun"
       \/ dispatch[r] = "idle" /\ status[r] \in {"forwarding", "uncertain"}
    /\ result \in {"canceled", "unknown"}
    /\ dispatch' = [dispatch EXCEPT ![r] = result]
    /\ UNCHANGED <<owner, subject, grant, status, row, budget, incident, incomplete,
                   available, maker, prepared, verified, effects, now>>

\* commit: the broker reports completion; the whole reserved bound is charged.
\* A rejection by the full journal comes after the charge, and guarded_dispatch
\* then takes the object offline.
Commit(i, r, ok) ==
    /\ Current(i, r)
    /\ status[r] \in {"forwarding", "uncertain"}
    /\ dispatch[r] = "completed"
    /\ status' = [AfterExpiry EXCEPT ![r] = "committed"]
    /\ held' = [b \in Buckets |-> Returned(status')[b] - Cost[r][b]]
    /\ consumed' = [b \in Buckets |->
          consumed[b] + (IF b \in Transient THEN 0 ELSE Cost[r][b])]
    /\ Journal(ok)
    /\ prepared' = IF ok THEN [prepared EXCEPT ![r] = "none"] ELSE prepared
    /\ available' = IF ok THEN available ELSE [available EXCEPT ![i] = FALSE]
    /\ UNCHANGED <<owner, subject, grant, row, maximum, incident, maker, dispatch,
                   verified, effects, now>>

\* uncertain: the outcome is not known to be a completion; keep the hold.
Uncertain(i, r, ok) ==
    /\ Current(i, r)
    /\ status[r] \in {"forwarding", "uncertain"}
    /\ dispatch[r] \in {"canceled", "unknown"}
    /\ status' = [AfterExpiry EXCEPT ![r] = "uncertain"]
    /\ held' = Returned(status')
    /\ Journal(ok)
    /\ available' = IF ok THEN available ELSE [available EXCEPT ![i] = FALSE]
    /\ UNCHANGED <<owner, subject, grant, row, consumed, maximum, incident, maker,
                   prepared, dispatch, verified, effects, now>>

\* guarded_dispatch could not record the outcome: the object goes offline
\* until it is started again.
GoOffline(i, r) ==
    /\ maker[r] = i /\ dispatch[r] \in Results
    /\ status[r] # "committed"
    /\ available' = [available EXCEPT ![i] = FALSE]
    /\ UNCHANGED <<owner, subject, grant, status, row, budget, incident, incomplete,
                   maker, prepared, dispatch, verified, effects, now>>
-----------------------------------------------------------------------------
(* Containment.                                                            *)

Admitted == {s \in Subjects : subject[s].gen > 0}

\* s and the admitted workloads below it, through admitted workloads only.
Subtree(s) ==
    {t \in Admitted : \A T \in SUBSET Subjects :
        (s \in T /\ \A u \in Admitted : Parent[u] \in T => u \in T) => t \in T}

\* The workloads a fence revokes.
Targets(f) ==
    IF f.kind = "swarm" THEN Admitted
    ELSE IF f.kind = "subtree" /\ f.subject \in Admitted THEN Subtree(f.subject)
    ELSE IF f.kind = "agent" THEN {f.subject} \cap Admitted ELSE {}

\* The reservations a fence affects, whatever became of them.
Affected(f) ==
    {r \in Reservations :
        /\ status[r] \in Booked
        /\ \/ Subj(r) \in Targets(f)
           \/ f.kind = "action" /\ ActionOf[r] = f.action /\ f.subject \in {None, Subj(r)}}

\* _fence_state: publish the intent, revoke, cancel what is unused and put
\* what is in flight in doubt, starting from the phases st.
FenceState(f, st, realm) ==
    /\ Len(fences) < MaxRevocations
    /\ subject' = [s \in Subjects |-> IF s \notin Targets(f) THEN subject[s]
                      ELSE [subject[s] EXCEPT !.revoked = TRUE, !.lease = 0]]
    /\ grant' = [g \in Grants |->
          IF grant[g].status = "none" \/ Holder[g] \notin Targets(f) THEN grant[g]
          ELSE [grant[g] EXCEPT !.status = "revoked"]]
    /\ status' = [r \in Reservations |-> IF r \notin Affected(f) THEN st[r]
                     ELSE IF st[r] = "reserved" THEN "canceled"
                     ELSE IF st[r] = "forwarding" THEN "uncertain" ELSE st[r]]
    /\ held' = Returned(status')
    /\ banned' = IF f.kind = "action" THEN banned \cup {<<f.action, f.subject>>} ELSE banned
    /\ fences' = Append(fences, [fence |-> f, subjects |-> Targets(f),
          reservations |-> Affected(f), owner |-> owner.fence, realm |-> realm,
          reconciled |-> FALSE])

\* record_fence, by the protected controller through any object.  When the
\* journal is full the intent stands but a realm barrier is bound to no intent;
\* a failure of the closing group record changes nothing else.
RecordFence(f, ok) ==
    /\ FenceState(f, status, ok /\ f.kind = "swarm")
    /\ barrier' = IF f.kind # "swarm" THEN barrier
          ELSE [blocked |-> TRUE, intent |-> IF ok THEN Len(fences) + 1 ELSE 0]
    /\ IF ok THEN ~incomplete /\ incomplete' \in BOOLEAN ELSE incomplete' = TRUE
    /\ UNCHANGED <<owner, row, consumed, maximum, outcome, memory, effects, now>>

\* revoke_lease: a workload gives up its own authority.
RevokeLease(i, s, ok) ==
    /\ Serving(i) /\ ~barrier.blocked /\ Leased(s)
    /\ FenceState([kind |-> "agent", subject |-> s, action |-> None], AfterExpiry, FALSE)
    /\ Journal(ok)
    /\ UNCHANGED <<owner, row, consumed, maximum, outcome, barrier, memory, effects, now>>

\* Only the newest intent can still be reconciled (recover_fence reissues its
\* receipt to any object).
Pending == Len(fences) > 0 /\ ~fences[Len(fences)].reconciled
Newest == fences[Len(fences)]

\* reconcile_broker_outcome: record what the original broker knows of r.  The
\* receipt of a stop says "completed" or "canceled" of every job that has ended,
\* also of one whose result was "unknown".
RecordOutcome(i, r, ok) ==
    /\ Pending /\ r \in Newest.reservations
    /\ maker[r] = i /\ prepared[r] # "none"
    /\ dispatch[r] \in Results
    /\ outcome[r] < Len(fences)
    /\ outcome' = [outcome EXCEPT ![r] = Len(fences)]
    /\ Journal(ok)
    /\ UNCHANGED <<owner, subject, grant, status, row, budget, fences, barrier, banned,
                   memory, effects, now>>

\* Mutant of OutcomesKnown: an outcome recorded for an earlier incident will do.
OutcomesOnceKnown ==
    \A r \in Newest.reservations : status[r] = "forwarding" => outcome[r] > 0

\* _require_incident_outcomes: nothing the fence caught is still in doubt.
OutcomesKnown ==
    \A r \in Newest.reservations :
        status[r] \in {"forwarding", "uncertain"} => outcome[r] = Len(fences)

\* reconcile_fence, first transaction: a newer owner than the intent's (a newer
\* policy epoch always comes with one).  The verifier is then asked, outside
\* any lock, about this intent and this owner.
CheckRecovery(i) ==
    /\ Serving(i) /\ Pending /\ OutcomesKnown
    /\ owner.fence > Newest.owner
    /\ status' = AfterExpiry
    /\ held' = Returned(status')
    /\ verified' = [verified EXCEPT ![i] = [epoch |-> Len(fences), fence |-> owner.fence]]
    /\ UNCHANGED <<owner, subject, grant, row, consumed, maximum, incident, incomplete,
                   available, maker, prepared, dispatch, effects, now>>

\* What was verified is still the state of the scope.
StillVerified(i) == verified[i] = [epoch |-> Len(fences), fence |-> owner.fence]

\* reconcile_fence, second transaction.
ReconcileFence(i, ok) ==
    /\ Serving(i) /\ Pending /\ OutcomesKnown /\ StillVerified(i)
    /\ Newest.realm => barrier.intent = Len(fences)
    /\ barrier' = IF Newest.realm THEN [barrier EXCEPT !.blocked = FALSE] ELSE barrier
    /\ subject' = [s \in Subjects |-> IF s \notin Newest.subjects THEN subject[s]
          ELSE [subject[s] EXCEPT !.revoked = FALSE, !.lease = 0, !.gen = @ + 1]]
    /\ banned' = IF Newest.fence.kind = "action"
                 THEN banned \ {<<Newest.fence.action, Newest.fence.subject>>} ELSE banned
    /\ fences' = [fences EXCEPT ![Len(fences)].reconciled = TRUE]
    /\ status' = AfterExpiry
    /\ held' = Returned(status')
    /\ verified' = [verified EXCEPT ![i] = [epoch |-> 0, fence |-> 0]]
    /\ Journal(ok)
    /\ UNCHANGED <<owner, grant, row, consumed, maximum, outcome, available, maker,
                   prepared, dispatch, effects, now>>
-----------------------------------------------------------------------------
Tick ==
    /\ now < MaxTime
    /\ now' = now + 1
    /\ UNCHANGED <<owner, subject, grant, status, row, budget, incident, incomplete,
                   memory, effects>>

Next ==
    \/ Tick
    \/ \E f \in FenceRequests, ok \in BOOLEAN : RecordFence(f, ok)
    \/ \E r \in Reservations, result \in Results : Effect(r, result) \/ NoEffect(r, result)
    \/ \E i \in Instances :
         \/ Housekeep(i) \/ CheckRecovery(i)
         \/ \E r \in Reservations : Deny(i, r) \/ GoOffline(i, r)
         \/ \E r \in Reservations, b \in Buckets, S \in SUBSET Buckets : RefuseBudget(i, r, b, S)
         \/ \E ok \in BOOLEAN :
              \/ Start(i, ok) \/ Heartbeat(i, ok) \/ ReconcileFence(i, ok)
              \/ \E s \in Subjects : Admit(i, s, ok) \/ RevokeLease(i, s, ok)
              \/ \E g \in Grants : BindGrant(i, g, ok)
              \/ \E r \in Reservations :
                   \/ Evaluate(i, r, ok) \/ Cancel(i, r, ok)
                   \/ Commit(i, r, ok) \/ Uncertain(i, r, ok) \/ RecordOutcome(i, r, ok)
                   \/ \E ack \in BOOLEAN : Reserve(i, r, ok, ack) \/ BeginForward(i, r, ok, ack)

Spec == Init /\ [][Next]_vars
-----------------------------------------------------------------------------
(* Properties.                                                             *)

Intents == [fence : FenceKinds, subjects : SUBSET Subjects,
            reservations : SUBSET Reservations, owner : Nat,
            realm : BOOLEAN, reconciled : BOOLEAN]

\* The durable rows and the memory of every object stay well formed; no counter
\* of a bucket is ever negative (the CHECK constraints of coordinator_buckets).
TypeOK ==
    /\ owner \in [id : Instances \cup {None}, fence : Nat, expires : Nat, policy : Nat]
    /\ subject \in [Subjects -> [gen : Nat, revoked : BOOLEAN, lease : Nat, fence : Nat]]
    /\ grant \in [Grants -> [status : {"none", "current", "requires_revalidation", "revoked"},
                             gen : Nat, fence : Nat]]
    /\ status \in [Reservations -> Booked \cup Previews]
    /\ row \in [Reservations -> [gen : Nat, fence : Nat, expires : Nat, epoch : Nat]]
    /\ outcome \in [Reservations -> Nat]
    /\ held \in [Buckets -> Nat] /\ consumed \in [Buckets -> Nat]
    /\ maximum \in [Buckets -> Nat \cup {-1}]
    /\ fences \in Seq(Intents)
    /\ barrier \in [blocked : BOOLEAN, intent : Nat]
    /\ banned \subseteq (Actions \cup {None}) \X (Subjects \cup {None})
    /\ incomplete \in BOOLEAN
    /\ available \in [Instances -> BOOLEAN]
    /\ maker \in [Reservations -> Instances \cup {None}]
    /\ prepared \in [Reservations -> {"none", "live", "retired"}]
    /\ dispatch \in [Reservations -> Results \cup {"idle", "begun"}]
    /\ verified \in [Instances -> [epoch : Nat, fence : Nat]]
    /\ effects \in [Reservations -> Nat]
    /\ now \in Nat

Committed == {r \in Reservations : status[r] = "committed"}

\* The shared counters are exactly the sums over the reservations, through
\* takeover, expiry, fences and transactions rejected after they had written.
Conservation ==
    \A b \in Buckets :
        /\ held[b] = UnitSum(Amount(b), {r \in Reservations : status[r] \in Live}, MaxUnits)
        /\ consumed[b] = IF b \in Transient THEN 0 ELSE UnitSum(Amount(b), Committed, MaxUnits)

\* No interleaving of owners and workloads commits a bucket beyond the maximum
\* stored with it, which is one that a policy in use has set.
WithinLimit ==
    \A b \in Buckets :
        IF maximum[b] = -1 THEN held[b] + consumed[b] = 0
        ELSE /\ held[b] + consumed[b] <= maximum[b]
             /\ \E i \in Instances : maximum[b] = Limit[i][b]

\* Takeover leaves nothing of the previous owner's alive: what can still be
\* reserved or forwarded was evaluated under the present owner's fence.
LiveIsCurrent ==
    \A r \in Reservations :
        status[r] \in {"previewed", "reserved", "forwarding"} => row[r].fence = owner.fence

PhaseOf(st) ==
    IF st \in Previews THEN "free" ELSE IF st = "reserved" THEN "held"
    ELSE IF st \in {"forwarding", "uncertain"} THEN "licensed"
    ELSE IF st = "committed" THEN "charged" ELSE "refunded"

License == INSTANCE EffectLicense WITH
    Items <- Reservations,
    phase <- [r \in Reservations |-> PhaseOf(status[r])],
    permit <- {r \in Reservations : dispatch[r] = "begun"},
    runs <- effects

\* The coordinators implement EffectLicense: across owners, restarts, lost
\* acknowledgements and fences, an action is licensed once, run at most once
\* and only under its license, and what was licensed is never refunded.
OneShotEffects == License!Spec

\* Does the fence of intent n name the workload of reservation r, one it
\* descends from in the parent's presence, or its action?
Covers(n, r) ==
    \/ n.fence.kind = "swarm"
    \/ n.fence.kind \in {"agent", "subtree"} /\ n.fence.subject = Subj(r)
    \/ /\ n.fence.kind = "subtree"
       /\ n.fence.subject = Parent[Subj(r)] /\ n.fence.subject \in n.subjects
    \/ /\ n.fence.kind = "action" /\ n.fence.action = ActionOf[r]
       /\ n.fence.subject \in {None, Subj(r)}

\* Work evaluated before a fence is never forwarded after it, not even after
\* recovery, takeover or a new admission, if the fence covers it or has revoked
\* any workload its grant derives from: authority dies with the delegator.
FencedWorkStaysStopped ==
    [][\A r \in Reservations : (status[r] # "forwarding" /\ status'[r] = "forwarding")
          => \A e \in DOMAIN fences : row[r].epoch < e =>
                /\ ~Covers(fences[e], r)
                /\ \A h \in Ancestry[GrantOf[r]] : Holder[h] \notin fences[e].subjects]_vars

\* No fence is lifted while an action it covers may still take effect.
RecoveryIsSettled ==
    [][\A e \in DOMAIN fences : (fences'[e].reconciled /\ ~fences[e].reconciled)
          => \A r \in Reservations :
                (row[r].epoch < e /\ Covers(fences[e], r)) => dispatch[r] # "begun"]_vars
=============================================================================
