--------------------------- MODULE IncidentControl --------------------------
(***************************************************************************)
(* Containment and recovery of several coordinator scopes by one           *)
(* controller: ordin/swarm/containment.py and incident.py over the fences  *)
(* of ordin/swarm/coordinator.py.                                          *)
(*                                                                         *)
(* A scope is one task of the swarm.  Every store.transaction() is one     *)
(* action; between them the controller, its cleanup thread, the brokers    *)
(* and the workloads run freely.  Module Coordinator has the admission,    *)
(* the budget and the ownership of a single scope in full, module Broker   *)
(* the broker; here a job keeps of them what containment reads: its        *)
(* durable reservation, the broker's state and whether its owned process   *)
(* was killed.                                                             *)
(***************************************************************************)
EXTENDS Naturals, Sequences, FiniteSets

CONSTANTS
    Scopes,     \* coordinator scopes of one swarm, one for each task
    Primary,    \* the scope the controller was built for
    Realms,     \* the kinds of fence with a barrier: "tenant", "swarm", "task"
    Span,       \* [Realms -> SUBSET Scopes]: the scopes with that realm
    Subjects,   \* workloads
    Home,       \* [Subjects -> Scopes]
    Jobs,       \* authorizations prepared with a broker
    Subj,       \* [Jobs -> Subjects]
    Action,     \* [Jobs -> action digests]
    Signals,    \* incident signals
    Ask,        \* [Signals -> [kind, subject, action]]: the scope of a signal
    MaxIncidents,           \* max_incidents of the controller
    MaxFences, MaxOwner, MaxCrashes  \* bounds of the model

ASSUME IncidentConstants ==
    /\ Primary \in Scopes /\ IsFiniteSet(Scopes)
    /\ Span \in [Realms -> SUBSET Scopes] /\ \A x \in Realms : Primary \in Span[x]
    /\ Home \in [Subjects -> Scopes]
    /\ \A j \in Jobs : Subj[j] \in Subjects
    /\ Realms \cap {"agent", "action"} = {} /\ "none" \notin Signals
    /\ \A g \in Signals : /\ Ask[g].kind \in Realms \cup {"agent", "action"}
                          /\ Ask[g].kind \notin Realms => Ask[g].subject \in Subjects
    /\ MaxIncidents \in Nat /\ MaxFences \in Nat /\ MaxOwner \in Nat \ {0} /\ MaxCrashes \in Nat

VARIABLES
    intents,   \* [Scopes -> Seq]: state["fences"], one per revocation epoch
    barrier,   \* [Realms -> [blocked, intent]]: coordinator_barriers
    owner,     \* [Scopes -> Nat]: fence of the scope's owner
    serving,   \* the scopes this coordinator object owns
    revoked,   \* workloads whose row says "revoked"
    banned,    \* [Scopes -> SUBSET (actions \X Subjects)]: blocked_actions
    row,       \* [Jobs -> phase of the durable reservation]
    outcome,   \* [Jobs -> Nat]: revocation epoch of its incident_outcome
    broker,    \* [Jobs -> state of the broker's row]
    stop,      \* jobs the broker was asked to stop
    killed,    \* jobs whose owned process or queue entry was canceled
    dead,      \* jobs whose registry context was paused
    incident,  \* [Signals -> progress of contain and of the cleanup thread]
    approval,  \* [Signals -> _resumes and _recovery_bundles of the incident]
    resume,    \* [Signals -> progress of a call of resume]
    crashes    \* how often the host process was restarted

durable == <<intents, barrier, owner, revoked, banned, row, outcome>>
work == <<broker, stop, killed, dead>>
control == <<incident, approval, resume>>
vars == <<durable, serving, work, control, crashes>>

Unused == [step |-> "unused", todo |-> {}, jobs |-> {}, error |-> FALSE,
           epoch |-> 0, resumed |-> FALSE]
NoApproval == [issued |-> FALSE, fresh |-> FALSE, owner |-> <<>>, evidence |-> <<>>]
Idle == [step |-> "idle", left |-> <<>>, owner |-> 0]

Init ==
    /\ intents = [k \in Scopes |-> <<>>]
    /\ barrier = [x \in Realms |-> [blocked |-> FALSE, intent |-> 0]]
    /\ owner = [k \in Scopes |-> 1]
    /\ serving = Scopes
    /\ revoked = {}
    /\ banned = [k \in Scopes |-> {}]
    /\ row = [j \in Jobs |-> "none"]
    /\ outcome = [j \in Jobs |-> 0]
    /\ broker = [j \in Jobs |-> "none"]
    /\ stop = {} /\ killed = {} /\ dead = {}
    /\ incident = [g \in Signals |-> Unused]
    /\ approval = [g \in Signals |-> NoApproval]
    /\ resume = [g \in Signals |-> Idle]
    /\ crashes = 0

HomeOf(j) == Home[Subj[j]]
Epoch(k) == Len(intents[k])
Newest(k) == intents[k][Epoch(k)]
Active == {"prepared", "checking", "running"}
-----------------------------------------------------------------------------
(* Work under the coordinator and its brokers.                             *)

\* _owner without allow_contained: this object owns k and no realm is blocked.
Open(k) == k \in serving /\ \A x \in Realms : k \in Span[x] => ~barrier[x].blocked

\* Mutant of RouteCurrent: only the workload is looked up, not the action.
RouteOfSubject(j) == Open(HomeOf(j)) /\ Subj[j] \notin revoked

\* require_current: the fences in the database let the action of j through.
RouteCurrent(j) ==
    /\ Open(HomeOf(j)) /\ Subj[j] \notin revoked
    /\ <<Action[j], Subj[j]>> \notin banned[HomeOf(j)]

\* reserve, which prepares j with the broker inside its transaction.
Reserve(j) ==
    /\ broker[j] = "none" /\ RouteCurrent(j)
    /\ row' = [row EXCEPT ![j] = "reserved"]
    /\ broker' = [broker EXCEPT ![j] = "prepared"]
    /\ UNCHANGED <<intents, barrier, owner, revoked, banned, outcome, serving,
                   stop, killed, dead, control, crashes>>

\* begin_forward.
BeginForward(j) ==
    /\ row[j] = "reserved" /\ Open(HomeOf(j)) /\ Subj[j] \notin revoked
    /\ row' = [row EXCEPT ![j] = "forwarding"]
    /\ UNCHANGED <<intents, barrier, owner, revoked, banned, outcome, serving,
                   work, control, crashes>>

\* dispatch takes the authorization.
Claim(j) ==
    /\ row[j] \in {"forwarding", "uncertain"} /\ broker[j] = "prepared"
    /\ broker' = [broker EXCEPT ![j] = "checking"]
    /\ UNCHANGED <<durable, serving, stop, killed, dead, control, crashes>>

\* The native service commits the admission: the last look at the fences, at
\* the registry and for a stop before the effect.
License(j) ==
    /\ broker[j] = "checking"
    /\ \/ /\ RouteCurrent(j) /\ j \notin stop \cup dead
          /\ broker' = [broker EXCEPT ![j] = "running"]
       \/ broker' = [broker EXCEPT ![j] = IF j \in stop THEN "canceled" ELSE "completed"]
    /\ UNCHANGED <<durable, serving, stop, killed, dead, control, crashes>>

\* The executor kills the process of a job it was asked to stop.
Kill(j) ==
    /\ broker[j] = "running" /\ j \in stop \ killed
    /\ killed' = killed \cup {j}
    /\ UNCHANGED <<durable, serving, broker, stop, dead, control, crashes>>

\* dispatch ends: completed, canceled by a kill, or with an unknown outcome.
Finish(j) ==
    /\ broker[j] = "running"
    /\ \E s \in IF j \in killed THEN {"canceled"} ELSE {"completed", "unknown"} :
          broker' = [broker EXCEPT ![j] = s]
    /\ UNCHANGED <<durable, serving, stop, killed, dead, control, crashes>>

\* commit, or uncertain, of the reservation of a job that has ended.
Settle(j) ==
    /\ row[j] = "forwarding" /\ Open(HomeOf(j)) /\ Subj[j] \notin revoked
    /\ broker[j] \in {"completed", "canceled", "unknown"}
    /\ row' = [row EXCEPT ![j] = IF broker[j] = "completed" THEN "committed" ELSE "uncertain"]
    /\ UNCHANGED <<intents, barrier, owner, revoked, banned, outcome, serving,
                   work, control, crashes>>

\* start: a new owner of scope k cancels what is unused and doubts the rest.
Start(k) ==
    /\ owner[k] < MaxOwner
    /\ owner' = [owner EXCEPT ![k] = @ + 1]
    /\ serving' = serving \cup {k}
    /\ row' = [j \in Jobs |-> IF HomeOf(j) # k THEN row[j]
          ELSE IF row[j] = "reserved" THEN "canceled"
          ELSE IF row[j] = "forwarding" THEN "uncertain" ELSE row[j]]
    /\ UNCHANGED <<intents, barrier, revoked, banned, outcome, work, control, crashes>>
-----------------------------------------------------------------------------
(* Fences.                                                                 *)

\* The workloads of scope k that a fence of this kind revokes.
FenceTargets(f, k) ==
    IF f.kind \in Realms THEN {s \in Subjects : Home[s] = k}
    ELSE IF f.kind = "agent" THEN {s \in {f.subject} : Home[s] = k} ELSE {}

\* The jobs of scope k that it affects.
FenceJobs(f, k) ==
    {j \in Jobs : /\ HomeOf(j) = k /\ row[j] # "none"
                  /\ \/ Subj[j] \in FenceTargets(f, k)
                     \/ f.kind = "action" /\ <<Action[j], Subj[j]>> = <<f.action, f.subject>>}

\* _fence_state in every scope of M: a new revocation epoch with its intent.
FenceScopes(f, M, group, realm, g) ==
    /\ \A k \in M : Epoch(k) < MaxFences
    /\ revoked' = revoked \cup UNION {FenceTargets(f, k) : k \in M}
    /\ row' = [j \in Jobs |-> IF HomeOf(j) \notin M \/ j \notin FenceJobs(f, HomeOf(j)) THEN row[j]
          ELSE IF row[j] = "reserved" THEN "canceled"
          ELSE IF row[j] = "forwarding" THEN "uncertain" ELSE row[j]]
    /\ banned' = [k \in Scopes |-> IF k \notin M \/ f.kind # "action" THEN banned[k]
          ELSE banned[k] \cup {<<f.action, f.subject>>}]
    /\ intents' = [k \in Scopes |-> IF k \notin M THEN intents[k]
          ELSE Append(intents[k], [fence |-> f, subjects |-> FenceTargets(f, k),
                jobs |-> FenceJobs(f, k), owner |-> owner[k], reconciled |-> FALSE,
                by |-> 0, signal |-> g,
                members |-> IF k = Primary THEN group ELSE <<>>,
                realm |-> k = Primary /\ realm])]

\* revoke_lease: a workload gives its own lease up, which is a fence as well.
RevokeLease(s) ==
    /\ Open(Home[s]) /\ s \notin revoked
    /\ FenceScopes([kind |-> "agent", subject |-> s, action |-> "none"], {Home[s]},
                   <<>>, FALSE, "none")
    /\ UNCHANGED <<barrier, owner, outcome, serving, work, control, crashes>>

\* The scopes a fence for signal g is recorded in.
Members(g) == IF Ask[g].kind \in Realms THEN Span[Ask[g].kind] ELSE {Primary}

\* _admission: an unused signal, and room for another incident.
Admissible(g) ==
    /\ incident[g].step = "unused"
    /\ Cardinality({h \in Signals : incident[h].step \notin {"unused", "failed"}}) < MaxIncidents

\* contain, up to the durable fence: the signal is consumed first.
Contain(g) ==
    /\ Admissible(g)
    /\ incident' = [incident EXCEPT ![g].step = "admitted"]
    /\ UNCHANGED <<durable, serving, work, approval, resume, crashes>>

\* record_fence: the realm's barrier, an intent in every member and the group
\* in the intent of the primary scope, in one transaction.  Its answer may be
\* lost.
RecordFence(g, ack) ==
    /\ incident[g].step = "admitted"
    /\ FenceScopes(Ask[g], Members(g), [k \in Members(g) |-> Epoch(k) + 1],
                   Ask[g].kind \in Realms, g)
    /\ barrier' = [x \in Realms |-> IF x # Ask[g].kind THEN barrier[x]
                      ELSE [blocked |-> TRUE, intent |-> Epoch(Primary) + 1]]
    /\ incident' = [incident EXCEPT ![g].step = IF ack THEN "fenced" ELSE "lost",
                                    ![g].epoch = IF ack THEN Epoch(Primary) + 1 ELSE 0]
    /\ UNCHANGED <<owner, outcome, serving, work, approval, resume, crashes>>

\* record_fence, rejected by the full journal of a member: the rejection
\* commits the barrier and the intents written so far, without a group.
RecordFencePartly(g, M) ==
    /\ incident[g].step = "admitted"
    /\ M \subseteq Members(g) /\ M # {}
    /\ FenceScopes(Ask[g], M, <<>>, FALSE, g)
    /\ barrier' = [x \in Realms |-> IF x # Ask[g].kind THEN barrier[x]
                      ELSE [blocked |-> TRUE, intent |-> 0]]
    /\ incident' = [incident EXCEPT ![g].step = "lost"]
    /\ UNCHANGED <<owner, outcome, serving, work, approval, resume, crashes>>

\* record_fence fails before it has written anything.
FenceUnavailable(g) ==
    /\ incident[g].step = "admitted"
    /\ incident' = [incident EXCEPT ![g].step = "lost"]
    /\ UNCHANGED <<durable, serving, work, approval, resume, crashes>>
-----------------------------------------------------------------------------
(* The controller, after the fence.                                        *)

\* _targets: the enrolled workloads an incident affects, in any scope.
Affected(g) ==
    IF Ask[g].kind \in Realms THEN {s \in Subjects : Home[s] \in Span[Ask[g].kind]}
    ELSE {Ask[g].subject}

\* The jobs an incident is about.
Covers(g, j) ==
    /\ Subj[j] \in Affected(g)
    /\ Ask[g].kind = "action" => Action[j] = Ask[g].action

\* Mutant of ActiveJobs: a job already running is not asked to stop.
QueuedJobs(g) == {j \in Jobs : Covers(g, j) /\ broker[j] \in {"prepared", "checking"}}

\* active_authorizations of the affected workloads.
ActiveJobs(g) == {j \in Jobs : Covers(g, j) /\ broker[j] \in Active}

\* request_stop: a prepared job is canceled at once, a queued process too.
Stopped(S) ==
    /\ stop' = stop \cup S
    /\ broker' = [j \in Jobs |-> IF j \in S /\ broker[j] = "prepared" THEN "canceled" ELSE broker[j]]
    /\ killed' = killed \cup {j \in S : broker[j] \in {"prepared", "checking"}}

\* Pausing a registry context ends it: work under it is not licensed again.
Paused(g) == IF Ask[g].kind = "action" THEN {}
             ELSE {j \in Jobs : Subj[j] \in Affected(g) /\ broker[j] # "none"}

\* contain, after a failed record_fence: pause and stop, and raise.
GiveUp(g) ==
    /\ incident[g].step = "lost"
    /\ \E P \in SUBSET Paused(g) : dead' = dead \cup P
    /\ Stopped(ActiveJobs(g))
    /\ incident' = [incident EXCEPT ![g].step = "failed"]
    /\ UNCHANGED <<durable, serving, approval, resume, crashes>>

\* contain, after the fence: collect the jobs and publish the incident.
Collect(g) ==
    /\ incident[g].step = "fenced"
    /\ incident' = [incident EXCEPT ![g].step = "pausing", ![g].jobs = ActiveJobs(g)]
    /\ UNCHANGED <<durable, serving, work, approval, resume, crashes>>

\* Pause the affected registry contexts; a failure leaves a proof gap.
Pause(g, ok) ==
    /\ incident[g].step = "pausing"
    /\ dead' = IF ok THEN dead \cup Paused(g) ELSE dead
    /\ incident' = [incident EXCEPT ![g].step = "stopping", ![g].todo = incident[g].jobs,
                                    ![g].error = @ \/ ~ok]
    /\ UNCHANGED <<durable, serving, broker, stop, killed, approval, resume, crashes>>

\* request_stop of one owned job, for contain or for the cleanup thread.
StopJob(g, j, ok) ==
    /\ incident[g].step \in {"stopping", "cleaning"} /\ j \in incident[g].todo
    /\ IF ok THEN Stopped({j} \cap {x \in Jobs : broker[x] # "gone"})
       ELSE UNCHANGED <<stop, broker, killed>>
    /\ incident' = [incident EXCEPT ![g].todo = @ \ {j}, ![g].error = @ \/ ~ok]
    /\ UNCHANGED <<durable, serving, dead, approval, resume, crashes>>

\* Every stop was requested: start the cleanup thread and return.
StartCleanup(g) ==
    /\ incident[g].step = "stopping" /\ incident[g].todo = {}
    /\ incident' = [incident EXCEPT ![g].step = "cleaning", ![g].todo = incident[g].jobs]
    /\ UNCHANGED <<durable, serving, work, approval, resume, crashes>>

\* Mutant of EndCleanup: a failed notification ends the thread without done.
EndCleanupUnlessError(g) ==
    /\ incident[g].step = "cleaning" /\ incident[g].todo = {} /\ ~incident[g].error
    /\ incident' = [incident EXCEPT ![g].step = "done"]
    /\ UNCHANGED <<durable, serving, work, approval, resume, crashes>>

\* Grants and credentials are revoked, or leave a proof gap; done is set.
EndCleanup(g) ==
    /\ incident[g].step = "cleaning" /\ incident[g].todo = {}
    /\ \E gap \in BOOLEAN :
          incident' = [incident EXCEPT ![g].step = "done", ![g].error = @ \/ gap]
    /\ UNCHANGED <<durable, serving, work, approval, resume, crashes>>
-----------------------------------------------------------------------------
(* Reconciliation.                                                         *)

\* A receipt of the original broker says that j was canceled or has ended.
EndedFor(j) == j \in killed \/ broker[j] \in {"completed", "canceled", "unknown"}

\* reconcile_job and reconcile_broker_outcome, for the newest intent of k.
ReconcileJob(g, k, j) ==
    /\ incident[g].epoch > 0 /\ ~incident[g].resumed
    /\ LET members == intents[Primary][incident[g].epoch].members
       IN k \in DOMAIN members /\ members[k] = Epoch(k)
    /\ ~Newest(k).reconciled /\ j \in Newest(k).jobs
    /\ broker[j] # "gone" /\ EndedFor(j)
    /\ outcome[j] < Epoch(k)
    /\ outcome' = [outcome EXCEPT ![j] = Epoch(k)]
    /\ UNCHANGED <<intents, barrier, owner, revoked, banned, row, serving, work,
                   control, crashes>>

\* status: what the broker reports of a job.
Report(j) == [status |-> IF broker[j] = "canceled" \/ j \in killed THEN "canceled"
                         ELSE IF broker[j] = "completed" THEN "completed" ELSE "unknown",
              state |-> broker[j]]

Group(g) == intents[Primary][incident[g].epoch].members

\* _durable_outcomes and _require_incident_outcomes, for epoch e of scope k.
DurablyKnown(k, e) ==
    \A j \in intents[k][e].jobs : row[j] \in {"canceled", "committed"} \/ outcome[j] = e

\* _reconciled: notified without a gap, and every outcome is known.
Reconciled(g) ==
    /\ incident[g].step = "done" /\ ~incident[g].error
    /\ \A j \in incident[g].jobs : Report(j).status # "unknown"
    /\ \A k \in DOMAIN Group(g) : DurablyKnown(k, Group(g)[k])

\* The digest of the report that a recovery approval is bound to.
Evidence(g) == [j \in incident[g].jobs |-> Report(j)]

\* approve_resume: every member is at the epoch of the group, unreconciled and
\* under a newer owner than when it was fenced.
ApproveResume(g) ==
    /\ incident[g].step = "done" /\ ~incident[g].resumed /\ Reconciled(g)
    /\ \A k \in DOMAIN Group(g) :
          /\ Epoch(k) = Group(g)[k] /\ ~Newest(k).reconciled
          /\ owner[k] > Newest(k).owner
    /\ approval' = [approval EXCEPT ![g] = [issued |-> TRUE, fresh |-> TRUE,
                      owner |-> [k \in DOMAIN Group(g) |-> owner[k]], evidence |-> Evidence(g)]]
    /\ UNCHANGED <<durable, serving, work, incident, resume, crashes>>

\* The lifetime of the recovery approval ends.
ExpireApproval(g) ==
    /\ approval[g].fresh
    /\ approval' = [approval EXCEPT ![g].fresh = FALSE]
    /\ UNCHANGED <<durable, serving, work, incident, resume, crashes>>

\* The members in the order of recovery: the primary scope last.
Bundle(g) ==
    LET Order(M) == CHOOSE q \in [1..Cardinality(M) -> M] : \A k \in M : \E n \in DOMAIN q : q[n] = k
    IN Order(DOMAIN Group(g) \ {Primary}) \o <<Primary>>

At(g) == Head(resume[g].left)

\* resume, called with the approval, from the first member on.
Resume(g) ==
    /\ resume[g].step = "idle" /\ approval[g].issued
    /\ resume' = [resume EXCEPT ![g] = [step |-> "look", left |-> Bundle(g), owner |-> 0]]
    /\ UNCHANGED <<durable, serving, work, incident, approval, crashes>>

\* A member that this very approval has reconciled before is skipped.
SkipMember(g) ==
    /\ resume[g].step = "look" /\ resume[g].left # <<>>
    /\ LET old == intents[At(g)][Group(g)[At(g)]]
       IN old.reconciled /\ old.by = approval[g].owner[At(g)]
    /\ owner[At(g)] = approval[g].owner[At(g)]
    /\ resume' = [resume EXCEPT ![g].left = Tail(@)]
    /\ UNCHANGED <<durable, serving, work, incident, approval, crashes>>

\* _pending_intent, its outcomes and a newer owner: what both transactions of
\* reconcile_fence check of member k.
Recoverable(g, k) ==
    /\ k \in serving /\ Epoch(k) = Group(g)[k] /\ ~Newest(k).reconciled
    /\ DurablyKnown(k, Epoch(k))

\* reconcile_fence, first transaction.
CheckMember(g) ==
    /\ resume[g].step = "look" /\ resume[g].left # <<>>
    /\ Recoverable(g, At(g)) /\ owner[At(g)] > Newest(At(g)).owner
    /\ resume' = [resume EXCEPT ![g].step = "verify", ![g].owner = owner[At(g)]]
    /\ UNCHANGED <<durable, serving, work, incident, approval, crashes>>

\* verify_resume_receipt, outside every lock.
VerifyMember(g) ==
    /\ resume[g].step = "verify"
    /\ approval[g].fresh /\ resume[g].owner = approval[g].owner[At(g)]
    /\ ~incident[g].resumed /\ Reconciled(g) /\ Evidence(g) = approval[g].evidence
    /\ resume' = [resume EXCEPT ![g].step = "commit"]
    /\ UNCHANGED <<durable, serving, work, incident, approval, crashes>>

\* The other members of the group are still at its epoch, and reconciled.
MembersRecovered(g) ==
    \A k \in DOMAIN Group(g) :
        Epoch(k) = Group(g)[k] /\ (k # Primary => Newest(k).reconciled)

\* reconcile_fence, second transaction: lift the fence of the member.
CommitMember(g) ==
    /\ resume[g].step = "commit"
    /\ LET k == At(g) intent == Newest(k) x == intent.fence.kind IN
         /\ Recoverable(g, k) /\ owner[k] = resume[g].owner
         /\ k = Primary => MembersRecovered(g)
         /\ intent.realm => barrier[x].intent = Epoch(k)
         /\ barrier' = IF intent.realm THEN [barrier EXCEPT ![x].blocked = FALSE] ELSE barrier
         /\ revoked' = revoked \ intent.subjects
         /\ banned' = IF x # "action" THEN banned
              ELSE [banned EXCEPT ![k] = @ \ {<<intent.fence.action, intent.fence.subject>>}]
         /\ intents' = [intents EXCEPT ![k][Epoch(k)].reconciled = TRUE,
                                       ![k][Epoch(k)].by = owner[k]]
    /\ resume' = [resume EXCEPT ![g].step = "look", ![g].left = Tail(@)]
    /\ UNCHANGED <<owner, row, outcome, serving, work, incident, approval, crashes>>

\* A check of resume fails, or the answer of a transaction is lost.
AbandonResume(g) ==
    /\ resume[g].step # "idle"
    /\ resume' = [resume EXCEPT ![g] = Idle]
    /\ UNCHANGED <<durable, serving, work, incident, approval, crashes>>

\* Every member was reconciled: the approval is spent.
EndResume(g) ==
    /\ resume[g].step = "look" /\ resume[g].left = <<>>
    /\ resume' = [resume EXCEPT ![g] = Idle]
    /\ approval' = [approval EXCEPT ![g] = NoApproval]
    /\ incident' = [incident EXCEPT ![g].resumed = TRUE]
    /\ UNCHANGED <<durable, serving, work, crashes>>

\* The host restarts: controller, brokers and original receipts are gone.
Crash ==
    /\ crashes < MaxCrashes
    /\ crashes' = crashes + 1
    /\ serving' = {}
    /\ broker' = [j \in Jobs |-> IF broker[j] = "none" THEN "none" ELSE "gone"]
    /\ killed' = {}
    /\ incident' = [g \in Signals |-> IF incident[g].step = "unused" THEN incident[g]
                       ELSE [Unused EXCEPT !.step = "failed"]]
    /\ approval' = [g \in Signals |-> NoApproval]
    /\ resume' = [g \in Signals |-> Idle]
    /\ UNCHANGED <<durable, stop, dead>>

\* What the threads of contain and _cleanup do next.
Notify(g) ==
    \/ GiveUp(g) \/ Collect(g) \/ StartCleanup(g) \/ EndCleanup(g)
    \/ \E ok \in BOOLEAN : Pause(g, ok) \/ \E j \in Jobs : StopJob(g, j, ok)

Next ==
    \/ Crash
    \/ \E j \in Jobs : \/ Reserve(j) \/ BeginForward(j) \/ Claim(j) \/ License(j)
                       \/ Kill(j) \/ Finish(j) \/ Settle(j)
    \/ \E k \in Scopes : Start(k)
    \/ \E s \in Subjects : RevokeLease(s)
    \/ \E g \in Signals :
         \/ Contain(g) \/ FenceUnavailable(g) \/ Notify(g)
         \/ \E ack \in BOOLEAN : RecordFence(g, ack)
         \/ \E M \in SUBSET Scopes : RecordFencePartly(g, M)
         \/ \E k \in Scopes, j \in Jobs : ReconcileJob(g, k, j)
         \/ ApproveResume(g) \/ ExpireApproval(g) \/ Resume(g) \/ SkipMember(g)
         \/ CheckMember(g) \/ VerifyMember(g) \/ CommitMember(g)
         \/ AbandonResume(g) \/ EndResume(g)

Spec == Init /\ [][Next]_vars /\ WF_vars(\E g \in Signals : Notify(g))
-----------------------------------------------------------------------------
(* Properties.                                                             *)

Steps == {"unused", "admitted", "lost", "failed", "fenced", "pausing", "stopping",
          "cleaning", "done"}

\* Every record keeps its shape, and a realm's barrier is bound to an intent
\* of the primary scope that exists.
TypeOK ==
    /\ \A k \in Scopes : \A e \in DOMAIN intents[k] :
          /\ intents[k][e].subjects \subseteq Subjects /\ intents[k][e].jobs \subseteq Jobs
          /\ \A m \in DOMAIN intents[k][e].members : intents[k][e].members[m] \in 1..Epoch(m)
    /\ \A x \in Realms : barrier[x].intent \in 0..Epoch(Primary)
    /\ owner \in [Scopes -> 1..MaxOwner] /\ serving \subseteq Scopes
    /\ revoked \subseteq Subjects
    /\ row \in [Jobs -> {"none", "reserved", "forwarding", "uncertain", "committed", "canceled"}]
    /\ \A j \in Jobs : outcome[j] \in 0..Epoch(HomeOf(j))
    /\ broker \in [Jobs -> Active \cup {"none", "completed", "canceled", "unknown", "gone"}]
    /\ stop \cup killed \cup dead \subseteq Jobs
    /\ \A g \in Signals :
          /\ incident[g].step \in Steps /\ incident[g].epoch \in 0..Epoch(Primary)
          /\ incident[g].todo \subseteq incident[g].jobs
          /\ resume[g].step \in {"idle", "look", "verify", "commit"}

\* A signal starts at most one fence: an acknowledgement that was lost, or a
\* fence that failed half way, is never repeated by the controller.
OneFencePerSignal ==
    \A g \in Signals : Cardinality({e \in DOMAIN intents[Primary] :
                                       intents[Primary][e].signal = g}) <= 1

\* The barrier of a realm opens only when every scope of the group that closed
\* it has been reconciled, whatever was fenced, retried or lost in between.
GroupOpensTogether ==
    \A x \in Realms : (~barrier[x].blocked /\ barrier[x].intent > 0) =>
        LET members == intents[Primary][barrier[x].intent].members
        IN DOMAIN members = Span[x] /\ \A k \in Span[x] : intents[k][members[k]].reconciled

\* The fence of epoch e in scope k is about job j.
Names(k, e, j) ==
    \/ Subj[j] \in intents[k][e].subjects
    \/ LET f == intents[k][e].fence IN f.kind = "action" /\ <<f.action, f.subject>> = <<Action[j], Subj[j]>>

\* The scope of job j has recovered from the fence of signal g, or from a later
\* one that closed as much for j.
Recovered(g, j) ==
    LET k == HomeOf(j) IN
    \E e \in DOMAIN intents[k] :
        /\ intents[k][e].reconciled /\ Names(k, e, j)
        /\ \A d \in DOMAIN intents[k] : intents[k][d].signal = g => d <= e

\* What signal g closed for job j is open again.
Lifted(g, j) == Recovered(g, j) /\ (Ask[g].kind \in Realms => ~barrier[Ask[g].kind].blocked)

\* The fence of signal g is for job j.  An action or agent of another task than the
\* controller's own is not: its fence is recorded in the controller's scope.
Reaches(g, j) == Covers(g, j) /\ HomeOf(j) \in Members(g)

\* Once the durable fence of an incident is recorded, acknowledged or not, nothing
\* it covers starts to run before a recovery has lifted it; and no member is
\* recovered while one of the jobs its fence caught may still take effect, or when
\* nobody can tell any more because the host was restarted.
ContainedRouteIsClosed ==
    /\ [][\A j \in Jobs : (broker[j] # "running" /\ broker'[j] = "running") =>
             \A g \in Signals :
                 (Reaches(g, j) /\ \E k \in Scopes : \E e \in DOMAIN intents[k] : intents[k][e].signal = g)
                 => Lifted(g, j)]_vars
    /\ [][\A k \in Scopes : \A e \in DOMAIN intents[k] :
             (intents'[k][e].reconciled /\ ~intents[k][e].reconciled) =>
                 \A j \in intents[k][e].jobs : \/ row[j] \in {"canceled", "committed"} \/ j \in killed
                                             \/ broker[j] \in {"completed", "canceled", "unknown"}]_vars

\* Once the controller has notified the brokers without a gap, every job the
\* incident covers was asked to stop, has ended, or was started after recovery:
\* none slips between the fence and the collection of the active jobs.
ContainedJobsAreStopped ==
    \A g \in Signals : (incident[g].step \in {"cleaning", "done"}
                          /\ ~incident[g].error /\ ~incident[g].resumed) =>
        \A j \in Jobs : (Reaches(g, j) /\ broker[j] = "running") => j \in stop \/ Recovered(g, j)

\* An incident is contained as a whole: one fence, the whole group and every job.
ContainmentIsWhole ==
    TypeOK /\ OneFencePerSignal /\ GroupOpensTogether /\ ContainedJobsAreStopped

\* The cleanup threads of recorded incidents always end, with or without proof
\* gaps, so that their outcome can be reported, however often the host restarts.
Cleaning == {g \in Signals : incident[g].step \in {"fenced", "pausing", "stopping", "cleaning"}}
CleanupEnds == []<>(Cleaning = {})
=============================================================================
