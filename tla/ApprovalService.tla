--------------------------- MODULE ApprovalService --------------------------
(***************************************************************************)
(* Durable human governance: ordin/swarm/approval_service.py over the      *)
(* one-use lease issuer of ordin/approval.py and the operator directory of *)
(* ordin/swarm/operator_auth.py.                                           *)
(*                                                                         *)
(* A request row is durable; originals, receipts and execution leases live *)
(* in the memory of the service object that made them.  An object does one *)
(* call at a time (its barrier and lock), but a call is several database   *)
(* transactions, and between two of them another object may take the scope *)
(* over, a fence may be recorded, an operator revoked and time may pass.   *)
(*                                                                         *)
(* Every transaction ends in one of three ways: it is acknowledged; its    *)
(* append finds the journal full, so that what it wrote commits and the    *)
(* caller gets an exception; or it commits and the answer is lost.  A      *)
(* transaction that rolls back changes nothing.  Certificates of different *)
(* operators differ (enroll_operator), and what an idempotent repetition   *)
(* of a request returns changes nothing.                                   *)
(***************************************************************************)
EXTENDS Integers, FiniteSets

CONSTANTS
    Services,        \* service objects, one per coordinator object
    Enrollments,     \* operator enrollments
    Principal,       \* [Enrollments -> humans]
    Foundings,       \* what the directory may hold at the start
    Requests,        \* request ids
    Recoveries,      \* the requests that ask to resume after an incident
    Quorum,          \* [Requests -> Nat]: policy quorum of its mode and risk
    Entitled,        \* [Requests -> SUBSET Enrollments]: its required roles
    Keys,            \* idempotency keys of resolutions
    MaxRequests, MaxResolutions,   \* max_requests and the 32 of the code
    Life,            \* lifetime of a request
    MaxTime, MaxFence, MaxRevocations, MaxChanges, MaxContexts, \* bounds of the model
    None

Humans == {Principal[e] : e \in Enrollments}

ASSUME ApprovalConstants ==
    /\ IsFiniteSet(Requests) /\ IsFiniteSet(Enrollments) /\ IsFiniteSet(Keys)
    /\ Recoveries \subseteq Requests /\ Foundings \subseteq SUBSET Enrollments
    /\ \A m \in Foundings : \A e, f \in m : e # f => Principal[e] # Principal[f]
    /\ Quorum \in [Requests -> Nat \ {0}]
    /\ Entitled \in [Requests -> SUBSET Enrollments]
    /\ MaxRequests \in Nat /\ MaxResolutions \in Nat /\ Life \in Nat
    /\ MaxTime \in Nat /\ MaxFence \in Nat /\ MaxRevocations \in Nat
    /\ MaxChanges \in Nat /\ MaxContexts \in Nat
    /\ None \notin Services /\ None \notin Requests /\ None \notin Enrollments

VARIABLES
    owner,       \* owner of the scope: the object and its fence
    ns,          \* namespace["instance"] and namespace["owner_fence"]
    status,      \* row["status"], "none" for no row
    row,         \* the rest of the row
    memory,      \* of the maker: original known, receipt, preparation, lease
    closing,     \* requests whose caller has yet to run _close_request
    call,        \* the multi-transaction call an object is executing
    bound,       \* the objects whose lifecycle is bound (initialize returned)
    directory,   \* members and generation of the operator directory
    context,     \* version of the reviewed context: grants, evidence, budget
    revocation,  \* state["revocation_epoch"]
    contained,   \* the realm is behind a containment barrier
    incident,    \* the newest fence intent
    incomplete,  \* the journal is full
    effects,     \* runs of the approved action, or resumptions
    now          \* database clock

world == <<owner, directory, context, revocation, contained, incident, now>>
vars == <<world, ns, status, row, memory, closing, call, bound, incomplete, effects>>

Open == {"pending", "approved", "held"}
Refused == {"denied", "canceled", "expired"}
Spent == {"consumed", "uncertain", "completed"}
Choices == {"approve", "deny"}
Outcomes == {"acknowledged", "full", "lost"}
Votes == [Humans -> [by : Enrollments, choice : Choices] \cup {None}]

NoRow == [maker |-> None, expires |-> 0, binding |-> None,
          votes |-> [h \in Humans |-> None], resolutions |-> {}]
NoMemory == [known |-> FALSE, receipt |-> FALSE, ready |-> FALSE, lease |-> "none"]
Idle == [request |-> None, step |-> "idle"]

Init ==
    /\ owner = [id |-> None, fence |-> 0]
    /\ ns = [instance |-> None, fence |-> 0]
    /\ status = [r \in Requests |-> "none"]
    /\ row = [r \in Requests |-> NoRow]
    /\ memory = [r \in Requests |-> NoMemory]
    /\ closing = {}
    /\ call = [s \in Services |-> Idle]
    /\ bound = {}
    /\ directory \in [members : Foundings, generation : {0}]
    /\ context = 0
    /\ revocation = 0
    /\ contained = FALSE
    /\ incident = [epoch |-> 0, fence |-> 0, settled |-> FALSE, reconciled |-> TRUE]
    /\ incomplete = FALSE
    /\ effects = [r \in Requests |-> 0]
    /\ now = 0
-----------------------------------------------------------------------------
\* append of the store, and a commit whose acknowledgement does not arrive.
Journal(o) ==
    /\ o # "full" => ~incomplete
    /\ incomplete' = (incomplete \/ o = "full")

\* coordinator._owner with allow_contained, and without it.
Serving(s) == owner.id = s
Admitting(s) == Serving(s) /\ ~contained /\ ~incomplete

\* _namespace: the object is still the governance controller of the scope.
Contained(s) == Serving(s) /\ ns.instance = s
Namespace(s) == Admitting(s) /\ ns.instance = s

\* The original of a request in the memory of this object.
Known(s, r) == row[r].maker = s /\ memory[r].known

\* SwarmApprovalBinding and the binding of a recovery.  The policy digest
\* and epoch change only with the owner fence.
Binding(r) ==
    [fence |-> owner.fence, revocation |-> revocation, directory |-> directory.generation,
     context |-> IF r \in Recoveries THEN incident.epoch ELSE context]

\* _current_votes: distinct humans whose approving enrollment is a member.
VotesFor(r, votes) == {h \in Humans : votes[h] # None /\ votes[h].choice = "approve"
                          /\ votes[h].by \in directory.members \cap Entitled[r]}
\* Mutant of Enough: the quorum counts the requester.
EnoughButOne(r, votes) == Cardinality(VotesFor(r, votes)) + 1 >= Quorum[r]
Enough(r, votes) == Cardinality(VotesFor(r, votes)) >= Quorum[r]

Lapsed(r) == now >= row[r].expires

\* _expire_row.
AfterExpiry(r) == IF status[r] \in Open /\ Lapsed(r) THEN "expired" ELSE status[r]

\* Mutant of Lifecycle: the hold that the lease was made from is trusted.
LifecycleTrusted(s, r, allowed) == s \in bound /\ Known(s, r) /\ status[r] \in allowed
\* The checks of _verify_core_lifecycle, for the statuses a stage allows.
Lifecycle(s, r, allowed) ==
    /\ s \in bound /\ Namespace(s) /\ Known(s, r)
    /\ status[r] \in allowed /\ ~Lapsed(r)
    /\ row[r].binding.fence = owner.fence
    /\ row[r].binding.revocation = revocation
    /\ row[r].binding.directory = directory.generation
    /\ Enough(r, row[r].votes)

\* ApprovalSource.finish.
Finished(r) == IF memory[r].lease = "forwarding" THEN "settled" ELSE "canceled"

Free(s) == call[s] = Idle
Enter(s, r, step) == call' = [call EXCEPT ![s] = [request |-> r, step |-> step]]
Leave(s) == call' = [call EXCEPT ![s] = Idle]

\* The recovery ceremony needs the newest unreconciled incident, settled, and
\* an owner that came after it.
Recoverable == /\ incident.settled /\ ~incident.reconciled
               /\ incident.epoch = revocation /\ owner.fence > incident.fence
-----------------------------------------------------------------------------
(* Installation and takeover.                                              *)

\* What a takeover does to the rows of the object it replaces.
TakenOver(r) == IF status[r] \in Open THEN "canceled"
                ELSE IF status[r] = "consumed" THEN "uncertain" ELSE status[r]

Initialize(s, recover, o) ==
    /\ Free(s) /\ Admitting(s)
    /\ recover <=> ns.instance # None
    /\ ns.instance \notin {None, s} => owner.fence > ns.fence
    /\ IF ns.instance = s THEN UNCHANGED <<ns, status>>
       ELSE /\ ns' = [instance |-> s, fence |-> owner.fence]
            /\ status' = [r \in Requests |-> TakenOver(r)]
    /\ Journal(o)
    /\ bound' = IF o = "acknowledged" THEN bound \cup {s} ELSE bound
    /\ UNCHANGED <<world, row, memory, closing, call, effects>>
-----------------------------------------------------------------------------
(* Requests and votes.                                                     *)

\* _request and request_recovery write the same row.
NewRow(s, r, o) ==
    /\ status[r] = "none"
    /\ Cardinality({q \in Requests : status[q] # "none"}) < MaxRequests
    /\ status' = [status EXCEPT ![r] = "pending"]
    /\ row' = [row EXCEPT ![r] = [NoRow EXCEPT !.maker = s, !.expires = now + Life,
                                               !.binding = Binding(r)]]
    /\ memory' = [memory EXCEPT ![r].known = (o = "acknowledged")]
    /\ Journal(o)
    /\ UNCHANGED <<world, ns, closing, call, bound, effects>>

Request(s, r, o) == Free(s) /\ Namespace(s) /\ r \notin Recoveries /\ NewRow(s, r, o)

RequestRecovery(s, e, r, o) ==
    /\ Free(s) /\ Contained(s) /\ r \in Recoveries /\ Recoverable
    /\ e \in directory.members \cap Entitled[r]
    /\ NewRow(s, r, o)

\* The row after a vote: the human's first vote stays.
Voted(r, e, choice) ==
    IF row[r].votes[Principal[e]] = None
    THEN [row[r].votes EXCEPT ![Principal[e]] = [by |-> e, choice |-> choice]]
    ELSE row[r].votes
StatusAfter(r, e, choice) ==
    IF choice = "deny" THEN "denied"
    ELSE IF Enough(r, Voted(r, e, choice)) THEN "approved" ELSE "pending"

\* A vote that is counted: fresh key, open request, unchanged context, no
\* conflict with the human's earlier vote.
Countable(r, e, choice, k) ==
    /\ \A v \in row[r].resolutions : <<v.by, v.key>> # <<e, k>>
    /\ AfterExpiry(r) \in {"pending", "approved"}
    /\ Binding(r) = row[r].binding
    /\ row[r].votes[Principal[e]] # None => row[r].votes[Principal[e]].choice = choice

\* resolve: the history of resolutions is full only after the vote and the
\* status are written, and the rejection commits both.
Resolve(s, e, r, choice, k, o) ==
    /\ Free(s) /\ Namespace(s) /\ Known(s, r) /\ r \notin Recoveries
    /\ e \in directory.members \cap Entitled[r]
    /\ Countable(r, e, choice, k)
    /\ status' = [status EXCEPT ![r] = StatusAfter(r, e, choice)]
    /\ IF Cardinality(row[r].resolutions) >= MaxResolutions
       THEN /\ row' = [row EXCEPT ![r].votes = Voted(r, e, choice)]
            /\ o = "acknowledged"
            /\ UNCHANGED <<memory, closing, incomplete>>
       ELSE /\ row' = [row EXCEPT ![r].votes = Voted(r, e, choice),
                         ![r].resolutions = @ \cup {[by |-> e, key |-> k, choice |-> choice]}]
            /\ Journal(o)
            /\ memory' = [memory EXCEPT ![r].receipt =
                            @ \/ (o = "acknowledged" /\ status'[r] = "approved")]
            /\ closing' = IF o = "acknowledged" /\ status'[r] = "denied"
                          THEN closing \cup {r} ELSE closing
    /\ UNCHANGED <<world, ns, call, bound, effects>>

\* resolve and resolve_recovery when the vote is not counted: a repetition, a
\* request that is no longer open, or a rejection.  The row still expires; an
\* answer hands out the receipt of an approved request and closes a refused one.
Answered(r, e, choice, k) ==
    \/ [by |-> e, key |-> k, choice |-> choice] \in row[r].resolutions
    \/ /\ \A v \in row[r].resolutions : <<v.by, v.key>> # <<e, k>>
       /\ AfterExpiry(r) \notin {"pending", "approved"}
ResolveAgain(s, e, r, choice, k, o) ==
    LET answered == o = "acknowledged" /\ Answered(r, e, choice, k) IN
    /\ Free(s) /\ Known(s, r) /\ e \in directory.members \cap Entitled[r]
    /\ IF r \in Recoveries THEN Contained(s) /\ Recoverable /\ Binding(r) = row[r].binding
                           ELSE Namespace(s)
    /\ ~Countable(r, e, choice, k)
    /\ status' = [status EXCEPT ![r] = AfterExpiry(r)]
    /\ IF status'[r] # status[r] THEN Journal(o) ELSE o = "acknowledged" /\ UNCHANGED incomplete
    /\ memory' = [memory EXCEPT ![r].receipt = @ \/ (answered /\ status'[r] = "approved")]
    /\ closing' = IF answered /\ r \notin Recoveries /\ status'[r] \in Refused
                  THEN closing \cup {r} ELSE closing
    /\ UNCHANGED <<world, ns, row, call, bound, effects>>

\* resolve_recovery: as resolve, but its limit is checked before it writes.
ResolveRecovery(s, e, r, choice, k, o) ==
    /\ Free(s) /\ Contained(s) /\ Known(s, r) /\ r \in Recoveries /\ Recoverable
    /\ e \in directory.members \cap Entitled[r]
    /\ Countable(r, e, choice, k)
    /\ Cardinality(row[r].resolutions) < MaxResolutions
    /\ status' = [status EXCEPT ![r] = StatusAfter(r, e, choice)]
    /\ row' = [row EXCEPT ![r].votes = Voted(r, e, choice),
                 ![r].resolutions = @ \cup {[by |-> e, key |-> k, choice |-> choice]}]
    /\ Journal(o)
    /\ memory' = [memory EXCEPT ![r].receipt =
                    @ \/ (o = "acknowledged" /\ status'[r] = "approved")]
    /\ UNCHANGED <<world, ns, closing, call, bound, effects>>

\* cancel and expire.  A request being refused is closed by the caller after
\* the transaction; a spent one is left to reconciliation.
Terminal(s, e, r, choice, o) ==
    /\ Free(s) /\ Contained(s) /\ status[r] # "none"
    /\ e \in directory.members \cap Entitled[r]
    /\ AfterExpiry(r) \notin Spent
    /\ choice = "expire" => AfterExpiry(r) \notin Open
    /\ status' = [status EXCEPT ![r] = IF AfterExpiry(r) \in Open THEN "canceled"
                                       ELSE AfterExpiry(r)]
    /\ IF status'[r] # status[r] THEN Journal(o) ELSE o = "acknowledged" /\ UNCHANGED incomplete
    /\ closing' = IF o = "acknowledged" /\ row[r].maker = s THEN closing \cup {r} ELSE closing
    /\ UNCHANGED <<world, ns, row, memory, call, bound, effects>>

\* _close_request takes the source's lock, so it waits for a running call.
Close(r) ==
    /\ r \in closing /\ Free(row[r].maker)
    /\ closing' = closing \ {r}
    /\ memory' = [memory EXCEPT ![r].lease = IF @ = "none" THEN @ ELSE Finished(r)]
    /\ UNCHANGED <<world, ns, status, row, call, bound, incomplete, effects>>
-----------------------------------------------------------------------------
(* prepare: a durable hold, then the live lease, then the reservation.     *)

Hold(s, r, o) ==
    /\ Free(s) /\ Namespace(s) /\ Known(s, r) /\ r \notin Recoveries
    /\ memory[r].receipt /\ memory[r].lease = "none"
    /\ status[r] = "approved" /\ ~Lapsed(r) /\ Enough(r, row[r].votes)
    /\ Binding(r) = row[r].binding
    /\ status' = [status EXCEPT ![r] = "held"]
    /\ Journal(o)
    /\ IF o = "acknowledged" THEN Enter(s, r, "held") ELSE UNCHANGED call
    /\ UNCHANGED <<world, ns, row, memory, closing, bound, effects>>

\* What issue, reserve_lease and the later reviews ask of the row.
Issuable(s, r) == Lifecycle(s, r, {"approved", "held"})
Leasable(s, r) == memory[r].lease = "none" /\ Lifecycle(s, r, {"held"})
Fulfilled(s, r) == Lifecycle(s, r, {"approved", "held", "consumed"})

\* create_scope, issue and reserve_lease.  They stand before the try block:
\* when one of them raises, the row stays held.
Lease(s, ok) ==
    LET r == call[s].request IN
    /\ call[s].step = "held"
    /\ ok => Issuable(s, r) /\ Leasable(s, r)
    /\ memory' = IF ok THEN [memory EXCEPT ![r].lease = "reserved"] ELSE memory
    /\ IF ok THEN Enter(s, r, "leased") ELSE Leave(s)
    /\ UNCHANGED <<world, ns, status, row, closing, bound, incomplete, effects>>

\* coordinator.evaluate and reserve under the human's fulfilment.
Reserve(s) ==
    LET r == call[s].request IN
    /\ call[s].step = "leased"
    /\ Fulfilled(s, r)
    /\ memory' = [memory EXCEPT ![r].ready = TRUE]
    /\ Leave(s)
    /\ UNCHANGED <<world, ns, status, row, closing, bound, incomplete, effects>>

\* The except block of prepare; when its own transaction fails, the lease is
\* not finished.
AbortPreparation(s, o) ==
    LET r == call[s].request IN
    /\ call[s].step = "leased"
    /\ IF Namespace(s)
       THEN /\ status' = [status EXCEPT ![r] = IF @ = "held" THEN "canceled" ELSE @]
            /\ IF status[r] = "held" THEN Journal(o)
               ELSE o = "acknowledged" /\ UNCHANGED incomplete
            /\ memory' = IF o = "acknowledged"
                         THEN [memory EXCEPT ![r].lease = Finished(r)] ELSE memory
       ELSE o = "lost" /\ UNCHANGED <<status, memory, incomplete>>
    /\ Leave(s)
    /\ UNCHANGED <<world, ns, row, closing, bound, effects>>
-----------------------------------------------------------------------------
(* dispatch: consume durably, start the lease, run once, record.           *)

Dispatch(s, r) ==
    /\ Free(s) /\ Namespace(s) /\ Known(s, r) /\ r \notin Recoveries
    /\ memory[r].receipt /\ memory[r].ready /\ status[r] = "held"
    /\ Enter(s, r, "dispatch")
    /\ UNCHANGED <<world, ns, status, row, memory, closing, bound, incomplete, effects>>

\* The checks of consume_in_transaction, inside coordinator.begin_forward.
Consumable(s, r) ==
    /\ Namespace(s) /\ status[r] = "held" /\ ~Lapsed(r)
    /\ Enough(r, row[r].votes)
    /\ row[r].binding.directory = directory.generation
    /\ row[r].binding.fence = owner.fence /\ row[r].binding.revocation = revocation

Consume(s, o) ==
    LET r == call[s].request IN
    /\ call[s].step = "dispatch" /\ Consumable(s, r)
    /\ status' = [status EXCEPT ![r] = "consumed"]
    /\ Journal(o)
    /\ Enter(s, r, IF o = "acknowledged" THEN "consumed" ELSE "failed")
    /\ UNCHANGED <<world, ns, row, memory, closing, bound, effects>>

\* Mutant of Begin: the lease is started before the row is consumed.
BeginEarly(s) ==
    LET r == call[s].request IN
    /\ call[s].step = "dispatch" /\ memory[r].lease = "reserved"
    /\ Lifecycle(s, r, {"held"})
    /\ memory' = [memory EXCEPT ![r].lease = "forwarding"]
    /\ Enter(s, r, "begun")
    /\ UNCHANGED <<world, ns, status, row, closing, bound, incomplete, effects>>
\* begin_owned_effect: ApprovalSource.begin.
Begin(s) ==
    LET r == call[s].request IN
    /\ call[s].step = "consumed" /\ memory[r].lease = "reserved"
    /\ Lifecycle(s, r, {"consumed"})
    /\ memory' = [memory EXCEPT ![r].lease = "forwarding"]
    /\ Enter(s, r, "begun")
    /\ UNCHANGED <<world, ns, status, row, closing, bound, incomplete, effects>>

\* The executor asks verify_execution immediately before it spawns the job.
VerifyExecution(s) ==
    LET r == call[s].request IN
    /\ call[s].step = "begun" /\ memory[r].lease = "forwarding"
    /\ Lifecycle(s, r, {"consumed"})
    /\ Enter(s, r, "verified")
    /\ UNCHANGED <<world, ns, status, row, memory, closing, bound, incomplete, effects>>

RunJob(s) ==
    LET r == call[s].request IN
    /\ call[s].step = "verified"
    /\ effects' = [effects EXCEPT ![r] = @ + 1]
    /\ Enter(s, r, "ran")
    /\ UNCHANGED <<world, ns, status, row, memory, closing, bound, incomplete>>

\* guarded_dispatch raises: rejected or unavailable anywhere on the way.
FailDispatch(s) ==
    /\ call[s].step \in {"dispatch", "consumed", "begun", "verified", "ran"}
    /\ Enter(s, call[s].request, "failed")
    /\ UNCHANGED <<world, ns, status, row, memory, closing, bound, incomplete, effects>>

\* The rest of dispatch: the outcome is recorded and the lease finished,
\* whether or not the object is still the controller.
Settle(s, o) ==
    LET r == call[s].request
        outcome == IF call[s].step = "failed"
                   THEN IF status[r] \in {"held", "consumed"} THEN {"uncertain"} ELSE {status[r]}
                   ELSE {"completed", "uncertain"} IN
    /\ call[s].step \in {"failed", "ran"}
    /\ \/ /\ Contained(s) /\ status' \in {[status EXCEPT ![r] = st] : st \in outcome}
          /\ IF status'[r] # status[r] THEN Journal(o) ELSE UNCHANGED incomplete
       \/ ~Contained(s) /\ o = "lost" /\ UNCHANGED <<status, incomplete>>
    /\ memory' = [memory EXCEPT ![r].lease = Finished(r)]
    /\ Leave(s)
    /\ UNCHANGED <<world, ns, row, closing, bound, effects>>
-----------------------------------------------------------------------------
(* resume: the quorum is consumed before the containment controller acts.  *)

Resume(s, e, r, o) ==
    /\ Free(s) /\ Contained(s) /\ Known(s, r) /\ r \in Recoveries /\ Recoverable
    /\ e \in directory.members \cap Entitled[r]
    /\ memory[r].receipt /\ status[r] = "approved" /\ ~Lapsed(r)
    /\ Binding(r) = row[r].binding /\ Enough(r, row[r].votes)
    /\ status' = [status EXCEPT ![r] = "consumed"]
    /\ Journal(o)
    /\ IF o = "acknowledged" THEN Enter(s, r, "resuming") ELSE UNCHANGED call
    /\ UNCHANGED <<world, ns, row, memory, closing, bound, effects>>

\* approve_resume, verify_resume_receipt and reconcile_fence under the fences
\* of the request; an exception after the commit is reported as uncertain.
Reconcilable(s, r) == Serving(s) /\ Recoverable /\ row[r].binding.fence = owner.fence
                      /\ row[r].binding.revocation = revocation

ControllerResume(s, o) ==
    LET r == call[s].request IN
    /\ call[s].step = "resuming" /\ Reconcilable(s, r)
    /\ incident' = [incident EXCEPT !.reconciled = TRUE]
    /\ contained' = FALSE
    /\ effects' = [effects EXCEPT ![r] = @ + 1]
    /\ Journal(o)
    /\ Enter(s, r, IF o = "acknowledged" THEN "resumed" ELSE "unresumed")
    /\ UNCHANGED <<owner, directory, context, revocation, now, ns, status, row, memory,
                   closing, bound>>

FailResume(s) ==
    /\ call[s].step = "resuming"
    /\ Enter(s, call[s].request, "unresumed")
    /\ UNCHANGED <<world, ns, status, row, memory, closing, bound, incomplete, effects>>

\* _record_recovery_outcome.
RecordRecovery(s, o) ==
    LET r == call[s].request IN
    /\ call[s].step \in {"resumed", "unresumed"}
    /\ IF Contained(s) /\ status[r] = "consumed"
       THEN /\ status' = [status EXCEPT ![r] =
                            IF call[s].step = "resumed" THEN "completed" ELSE "uncertain"]
            /\ Journal(o)
       ELSE o = "lost" /\ UNCHANGED <<status, incomplete>>
    /\ Leave(s)
    /\ UNCHANGED <<world, ns, row, memory, closing, bound, effects>>
-----------------------------------------------------------------------------
(* The world around the service.                                           *)

\* Another coordinator object, or the same one anew, becomes the owner.
Claim(s) ==
    /\ owner.fence < MaxFence
    /\ owner' = [id |-> s, fence |-> owner.fence + 1]
    /\ UNCHANGED <<directory, context, revocation, contained, incident, now, ns, status, row,
                   memory, closing, call, bound, incomplete, effects>>

\* SwarmOperatorDirectory.enroll and revoke.
Enroll(e) ==
    /\ directory.generation < MaxChanges /\ e \notin directory.members
    /\ \A f \in directory.members : Principal[f] # Principal[e]
    /\ directory' = [members |-> directory.members \cup {e},
                     generation |-> directory.generation + 1]
    /\ UNCHANGED <<owner, context, revocation, contained, incident, now, ns, status, row, memory,
                   closing, call, bound, incomplete, effects>>
RevokeOperator(e) ==
    /\ directory.generation < MaxChanges /\ e \in directory.members
    /\ directory' = [members |-> directory.members \ {e},
                     generation |-> directory.generation + 1]
    /\ UNCHANGED <<owner, context, revocation, contained, incident, now, ns, status, row, memory,
                   closing, call, bound, incomplete, effects>>

\* coordinator.record_fence: only the fence of a whole realm raises a barrier.
Fence(realm) ==
    /\ revocation < MaxRevocations
    /\ revocation' = revocation + 1
    /\ contained' = (contained \/ realm)
    /\ incident' = [epoch |-> revocation + 1, fence |-> owner.fence,
                    settled |-> FALSE, reconciled |-> FALSE]
    /\ UNCHANGED <<owner, directory, context, now, ns, status, row, memory, closing, call,
                   bound, incomplete, effects>>

\* Cleanup has finished and every affected job has a known outcome.
IncidentSettles ==
    /\ ~incident.settled /\ ~incident.reconciled
    /\ \A s \in Services : call[s].step \notin {"consumed", "begun", "verified", "ran"}
    /\ incident' = [incident EXCEPT !.settled = TRUE]
    /\ UNCHANGED <<owner, directory, context, revocation, contained, now, ns, status, row,
                   memory, closing, call, bound, incomplete, effects>>

ChangeContext ==
    /\ context < MaxContexts
    /\ context' = context + 1
    /\ UNCHANGED <<owner, directory, revocation, contained, incident, now, ns, status, row,
                   memory, closing, call, bound, incomplete, effects>>
Tick ==
    /\ now < MaxTime
    /\ now' = now + 1
    /\ UNCHANGED <<owner, directory, context, revocation, contained, incident, ns, status, row,
                   memory, closing, call, bound, incomplete, effects>>

Decide == \E s \in Services, e \in Enrollments, r \in Requests, o \in Outcomes :
    \/ \E choice \in Choices, k \in Keys :
          \/ Resolve(s, e, r, choice, k, o)
          \/ ResolveAgain(s, e, r, choice, k, o)
          \/ ResolveRecovery(s, e, r, choice, k, o)
    \/ \E choice \in {"cancel", "expire"} : Terminal(s, e, r, choice, o)
    \/ RequestRecovery(s, e, r, o)
    \/ Resume(s, e, r, o)

Operate == \E s \in Services, o \in Outcomes :
    \/ \E recover \in BOOLEAN : Initialize(s, recover, o)
    \/ \E r \in Requests : Request(s, r, o) \/ Hold(s, r, o)
    \/ AbortPreparation(s, o) \/ Consume(s, o) \/ Settle(s, o)
    \/ ControllerResume(s, o) \/ RecordRecovery(s, o)

Advance == \E s \in Services :
    \/ \E ok \in BOOLEAN : Lease(s, ok)
    \/ \E r \in Requests : Dispatch(s, r)
    \/ Reserve(s) \/ Begin(s) \/ VerifyExecution(s) \/ RunJob(s) \/ FailDispatch(s)
    \/ FailResume(s) \/ Claim(s)

Environment ==
    \/ \E e \in Enrollments : Enroll(e) \/ RevokeOperator(e)
    \/ \E r \in Requests : Close(r)
    \/ \E realm \in BOOLEAN : Fence(realm)
    \/ IncidentSettles \/ ChangeContext \/ Tick

Next == Decide \/ Operate \/ Advance \/ Environment
Spec == Init /\ [][Next]_vars
-----------------------------------------------------------------------------
\* Rows, calls and leases have their types.
TypeOK ==
    /\ owner \in [id : Services \cup {None}, fence : 0..MaxFence]
    /\ ns \in [instance : Services \cup {None}, fence : 0..MaxFence]
    /\ status \in [Requests -> {"none"} \cup Open \cup Refused \cup Spent]
    /\ \A r \in Requests : /\ row[r].maker \in Services \cup {None}
                           /\ row[r].expires \in 0..(MaxTime + Life)
                           /\ row[r].votes \in Votes
                           /\ status[r] # "none" => row[r].maker # None
    /\ \A r \in Requests : memory[r].lease \in
                             {"none", "reserved", "forwarding", "settled", "canceled"}
    /\ closing \subseteq Requests
    /\ \A s \in Services : call[s].request \in Requests \cup {None}
    /\ bound \subseteq Services
    /\ directory.members \subseteq Enrollments
    /\ contained \in BOOLEAN /\ incomplete \in BOOLEAN
    /\ effects \in [Requests -> Nat]

\* An approval is good for one effect, whatever exceptions, lost answers,
\* takeovers and retries happen on the way (consume_in_transaction), and a
\* request that ends denied, canceled or expired never had one.
OneUse == \A r \in Requests : /\ effects[r] <= 1
                              /\ status[r] \in Refused => effects[r] = 0

\* What ran had the votes: enough distinct humans approved it, each in the
\* record and none of them more than once, and nobody had denied it.
RunsByQuorum == \A r \in Requests : effects[r] > 0 =>
    /\ Cardinality({h \in Humans : row[r].votes[h] # None}) >= Quorum[r]
    /\ \A h \in Humans : row[r].votes[h] # None => row[r].votes[h].choice = "approve"

\* A live lease is never ahead of the durable row: a job that may be running
\* was recorded as consumed before it could start.
LeaseBehindRow == \A r \in Requests : memory[r].lease = "forwarding" => status[r] \in Spent

TakeoverCloses == \A r \in Requests :
    status[r] \in Open \cup {"consumed"} => row[r].maker = ns.instance

Stale(r) == \/ Lapsed(r) \/ row[r].binding.fence # owner.fence
            \/ row[r].binding.revocation # revocation
            \/ row[r].binding.directory # directory.generation

\* Nothing that was overtaken starts.  After a takeover nothing of the replaced
\* object is open: only requests of the present controller can still be approved,
\* held or run.  A request that went stale before its lease started never starts:
\* expiry, a new owner, a fence or any change of the operator directory between
\* two steps of prepare and dispatch stops it for good.
StaleNeverStarts ==
    /\ []TakeoverCloses
    /\ [][\A r \in Requests :
             status[r] # "none" /\ Stale(r) /\ memory[r].lease # "forwarding"
                 => memory'[r].lease # "forwarding"
                    /\ (r \notin Recoveries => effects'[r] = effects[r])]_vars

\* However many recovery requests an incident has, it is resumed once, and
\* only by the owner whose fence the quorum approved.
Resumed == {r \in Recoveries : effects[r] > 0}
OneResumePerIncident == \A q, r \in Resumed :
    q # r => row[q].binding.context # row[r].binding.context

\* An approval is used once: for one effect, behind a durable row, and for one
\* resumption of its incident.
ApprovedOnce == TypeOK /\ OneUse /\ LeaseBehindRow /\ OneResumePerIncident
=============================================================================
