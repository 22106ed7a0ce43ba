------------------------------- MODULE Broker -------------------------------
(***************************************************************************)
(* The enforcing broker, ordin/swarm/broker.py, over the worker processes  *)
(* of ordin/swarm/linux_backend.py.                                        *)
(*                                                                         *)
(* A request is reviewed, gets an admission of the delegation service, a   *)
(* budget hold and a worker job, and becomes an authorization that is      *)
(* dispatched at most once.  Preparation and dispatch run under the        *)
(* execution lock; from the commit of the admission to the end of the      *)
(* effect dispatch also holds the service lock, so fences wait.  The       *)
(* controls cancel, request_stop and status take neither, and the error    *)
(* path of dispatch has already released both.  An action is what happens  *)
(* between two points where another thread may run.                        *)
(*                                                                         *)
(* One budget hold is followed through the phases of BudgetLedger.  A call *)
(* of the ledger may be refused, or fail before or after its effect.       *)
(* Governance, policy runtime, gate and plan checks can only refuse: they  *)
(* are the choice to refuse.                                               *)
(***************************************************************************)
EXTENDS Naturals, FiniteSets

CONSTANTS
    Requests,   \* requests, each with at most one authorization
    MaxFences,  \* bound of the model: fences of the delegation service
    None

ASSUME BrokerConstants ==
    IsFiniteSet(Requests) /\ MaxFences \in Nat /\ None \notin Requests

VARIABLES
    step,       \* where the thread serving a request is
    exec,       \* the request holding _execution_lock
    admission,  \* state of its _Admission in the delegation service
    reviewed,   \* fences the service had seen when the admission was issued
    fences,     \* fences the service has seen
    hold,       \* status of its budget reservation
    ticket,     \* does the broker have the budget ticket?
    state,      \* _Pending.state
    stop,       \* _Pending.stop
    started,    \* budget_started of dispatch
    job,        \* _Job.state
    signal,     \* _Job.cancel
    worker,     \* the worker process
    outcome,    \* status of the ExecutorOutcome, "none" without one
    result,     \* status of the BrokerResult, "none" without one
    receipts    \* statuses of the BrokerControlReceipts that report an end

request == <<step, exec, started>>
service == <<admission, reviewed, fences>>
budget == <<hold, ticket>>
control == <<state, stop, result, receipts>>
executor == <<job, signal, worker, outcome>>
vars == <<request, service, budget, control, executor>>

Preparing == {"idle", "reviewed", "reserved"}
InService == {"licensed", "bound", "begun", "target", "spawn", "polling", "stubborn",
              "cleanup", "returned"}
Steps == Preparing \cup InService
            \cup {"refused", "ready", "canceling", "claimed", "checked", "failed", "done"}
Outcomes == {"none", "completed", "denied", "canceled", "unsupported", "unknown"}
Statuses == {"completed", "denied", "canceled", "unknown"}

Init ==
    /\ step = [r \in Requests |-> "idle"]
    /\ exec = None
    /\ admission = [r \in Requests |-> "none"]
    /\ reviewed = [r \in Requests |-> 0]
    /\ fences = 0
    /\ hold = [r \in Requests |-> "none"]
    /\ ticket = [r \in Requests |-> FALSE]
    /\ state = [r \in Requests |-> "none"]
    /\ stop = [r \in Requests |-> FALSE]
    /\ started = [r \in Requests |-> FALSE]
    /\ job = [r \in Requests |-> "none"]
    /\ signal = [r \in Requests |-> FALSE]
    /\ worker = [r \in Requests |-> "none"]
    /\ outcome = [r \in Requests |-> "none"]
    /\ result = [r \in Requests |-> "none"]
    /\ receipts = [r \in Requests |-> {}]

\* The thread of r goes on to s, holding whatever locks it held.
Goto(r, s) == step' = [step EXCEPT ![r] = s] /\ exec' = exec

\* The thread of r leaves the with statement and goes on to s.
Unlock(r, s) == step' = [step EXCEPT ![r] = s] /\ exec' = None

\* _cancel_admission: an admission still pending gives its slot back.
Withdrawn(r) == IF admission[r] = "pending" THEN "withdrawn" ELSE admission[r]

\* BudgetLedger.cancel of r's ticket returns an unused hold, or fails.
CancelHold(r) ==
    /\ \/ ticket[r] /\ hold[r] = "reserved" /\ hold' = [hold EXCEPT ![r] = "canceled"]
       \/ UNCHANGED hold
    /\ UNCHANGED ticket
-----------------------------------------------------------------------------
(* prepare.                                                                *)

\* The service reviews the action under the lock and issues an admission.
Review(r) ==
    /\ step[r] = "idle" /\ exec = None
    /\ step' = [step EXCEPT ![r] = "reviewed"] /\ exec' = r
    /\ admission' = [admission EXCEPT ![r] = "pending"]
    /\ reviewed' = [reviewed EXCEPT ![r] = fences]
    /\ UNCHANGED <<fences, started, budget, control, executor>>

\* BudgetLedger.reserve.  Unacknowledged, the hold exists and the ticket does not.
ReserveHold(r, ack) ==
    /\ step[r] = "reviewed"
    /\ hold' = [hold EXCEPT ![r] = "reserved"]
    /\ ticket' = [ticket EXCEPT ![r] = ack]
    /\ Goto(r, "reserved")
    /\ UNCHANGED <<started, service, control, executor>>

\* The admission is still current: create the job, publish the authorization.
Register(r) ==
    /\ step[r] = "reserved" /\ ticket[r]
    /\ admission[r] = "pending" /\ reviewed[r] = fences
    /\ state' = [state EXCEPT ![r] = "prepared"]
    /\ job' = [job EXCEPT ![r] = "queued"]
    /\ Unlock(r, "ready")
    /\ UNCHANGED <<started, service, budget, stop, result, receipts, signal, worker, outcome>>

\* Anything refused or failed: withdraw the admission, cancel a known ticket.
Refuse(r) ==
    /\ step[r] \in {"reviewed", "reserved"}
    /\ admission' = [admission EXCEPT ![r] = Withdrawn(r)]
    /\ CancelHold(r)
    /\ Unlock(r, "refused")
    /\ UNCHANGED <<started, reviewed, fences, control, executor>>
-----------------------------------------------------------------------------
(* dispatch, up to the executor.                                           *)

\* The authorization is consumed before anything is checked.
Claim(r) ==
    /\ step[r] = "ready" /\ state[r] = "prepared"
    /\ state' = [state EXCEPT ![r] = "checking"]
    /\ Goto(r, "claimed")
    /\ UNCHANGED <<started, service, budget, stop, result, receipts, executor>>

\* Every binding is checked again under the execution lock.
Check(r) ==
    /\ step[r] = "claimed" /\ exec = None
    /\ \/ /\ ~stop[r] /\ hold[r] = "reserved"
          /\ admission[r] = "pending" /\ reviewed[r] = fences
          /\ step' = [step EXCEPT ![r] = "checked"] /\ exec' = r
       \/ Unlock(r, "failed")
    /\ UNCHANGED <<started, service, budget, control, executor>>

\* guarded_dispatch consumes the admission, then checks and commits it.
License(r) ==
    /\ step[r] = "checked"
    /\ \/ /\ admission[r] = "pending" /\ reviewed[r] = fences
          /\ admission' = [admission EXCEPT ![r] = "committed"]
          /\ Goto(r, "licensed")
       \/ /\ admission' = [admission EXCEPT ![r] = IF @ = "pending" THEN "denied" ELSE @]
          /\ Unlock(r, "failed")
    /\ UNCHANGED <<started, reviewed, fences, budget, control, executor>>

\* forward raised: guarded_dispatch reports an uncertain admission.
Raised(r) ==
    /\ admission' = [admission EXCEPT ![r] = "uncertain"]
    /\ Unlock(r, "failed")
    /\ UNCHANGED <<reviewed, fences>>

\* forward looks for a stop once more, and commits itself to the budget.
Forward(r) ==
    /\ step[r] = "licensed"
    /\ \/ ~stop[r] /\ Goto(r, "bound") /\ started' = [started EXCEPT ![r] = TRUE]
             /\ UNCHANGED service
       \/ Raised(r) /\ UNCHANGED started
    /\ UNCHANGED <<budget, control, executor>>

\* Mutant of BeginForward: the hold is used whatever became of it.
BeginExpired(r) ==
    /\ step[r] = "bound"
    /\ hold' = [hold EXCEPT ![r] = IF @ = "reserved" THEN "forwarding" ELSE @]
    /\ state' = [state EXCEPT ![r] = "forwarding"] /\ Goto(r, "begun")
    /\ UNCHANGED <<service, ticket, started, stop, result, receipts, executor>>

\* BudgetLedger.begin_forward; the state is "forwarding" when it returns.
BeginForward(r) ==
    /\ step[r] = "bound"
    /\ \/ /\ hold[r] = "reserved" /\ hold' = [hold EXCEPT ![r] = "forwarding"]
          /\ \/ state' = [state EXCEPT ![r] = "forwarding"] /\ Goto(r, "begun") /\ UNCHANGED service
             \/ Raised(r) /\ UNCHANGED state
       \/ Raised(r) /\ UNCHANGED <<hold, state>>
    /\ UNCHANGED <<ticket, started, stop, result, receipts, executor>>
-----------------------------------------------------------------------------
(* LinuxFileReadBackend.execute.                                           *)

\* _result: the outcome exists and the job has ended.
Emit(r, status) ==
    /\ outcome' = [outcome EXCEPT ![r] = status]
    /\ job' = [job EXCEPT ![r] = IF status = "canceled" THEN "canceled" ELSE "finished"]

\* Take the job; a stop that came first cancels it.
Execute(r) ==
    /\ step[r] = "begun"
    /\ \/ /\ job[r] = "canceled" \/ signal[r]
          /\ Emit(r, "canceled") /\ Goto(r, "returned") /\ UNCHANGED service
       \/ /\ job[r] = "queued" /\ ~signal[r]
          /\ job' = [job EXCEPT ![r] = "checking"]
          /\ Goto(r, "target") /\ UNCHANGED <<outcome, service>>
       \/ Raised(r) /\ UNCHANGED <<job, outcome>>
    /\ UNCHANGED <<started, budget, control, signal, worker>>

\* Open and check the target, then look for a stop a last time.
CheckTarget(r) ==
    /\ step[r] = "target"
    /\ \/ \E status \in {"unsupported", "denied", "unknown"} :
             Emit(r, status) /\ Goto(r, "returned")
       \/ signal[r] /\ Emit(r, "canceled") /\ Goto(r, "returned")
       \/ ~signal[r] /\ Goto(r, "spawn") /\ UNCHANGED <<job, outcome>>
    /\ UNCHANGED <<started, service, budget, control, signal, worker>>

\* Popen, and the job is "running".
Spawn(r) ==
    /\ step[r] = "spawn"
    /\ \/ /\ worker' = [worker EXCEPT ![r] = "alive"]
          /\ job' = [job EXCEPT ![r] = "running"]
          /\ Goto(r, "polling") /\ UNCHANGED outcome
       \/ Emit(r, "unknown") /\ Goto(r, "returned") /\ UNCHANGED worker
    /\ UNCHANGED <<started, service, budget, control, signal>>

\* The worker process ends, by itself or after a failed attempt to kill it.
WorkerExits(r) ==
    /\ worker[r] = "alive"
    /\ worker' = [worker EXCEPT ![r] = "gone"]
    /\ UNCHANGED <<request, service, budget, control, job, signal, outcome>>

\* The worker has exited: its answer is verified and reported.
Collect(r) ==
    /\ step[r] = "polling" /\ worker[r] = "gone"
    /\ \E status \in {"completed", "denied", "unsupported", "unknown"} : Emit(r, status)
    /\ Goto(r, "cleanup")
    /\ UNCHANGED <<started, service, budget, control, signal, worker>>

\* A stop or the deadline: kill the worker, or find that it will not die.  A
\* failing control pipe is reported with the worker still alive.
Terminate(r) ==
    /\ step[r] = "polling" /\ worker[r] = "alive"
    /\ \/ /\ worker' = [worker EXCEPT ![r] = "gone"]
          /\ Emit(r, IF signal[r] THEN "canceled" ELSE "unknown")
          /\ Goto(r, "cleanup")
       \/ \E s \in {"stubborn", "cleanup"} : Emit(r, "unknown") /\ Goto(r, s) /\ UNCHANGED worker
    /\ UNCHANGED <<started, service, budget, control, signal>>

\* The job already reported as finished is marked as one that would not stop.
MarkStubborn(r) ==
    /\ step[r] = "stubborn"
    /\ job' = [job EXCEPT ![r] = "unable_to_stop"]
    /\ Goto(r, "cleanup")
    /\ UNCHANGED <<started, service, budget, control, signal, worker, outcome>>

\* finally: a worker still alive is killed, or the job is "unable_to_stop".
Cleanup(r) ==
    /\ step[r] = "cleanup"
    /\ \/ worker[r] = "gone" /\ UNCHANGED <<job, worker>>
       \/ worker[r] = "alive" /\ worker' = [worker EXCEPT ![r] = "gone"] /\ UNCHANGED job
       \/ worker[r] = "alive" /\ job' = [job EXCEPT ![r] = "unable_to_stop"] /\ UNCHANGED worker
    /\ Goto(r, "returned")
    /\ UNCHANGED <<started, service, budget, control, signal, outcome>>
-----------------------------------------------------------------------------
(* dispatch, after the executor.                                           *)

\* The worker itself reported what it did under physical enforcement.
Known(r) == outcome[r] \in {"completed", "denied"} /\ worker[r] = "gone"

\* _finish: publish the result.
Finish(r, status) ==
    /\ state' = [state EXCEPT ![r] = status]
    /\ result' = [result EXCEPT ![r] = status]
    /\ UNCHANGED <<stop, receipts>>

\* Mutant of Settle: a ledger that fails leaves the execution lock taken.
SettleLocked(r) ==
    /\ step[r] = "returned"
    /\ admission' = [admission EXCEPT ![r] = "completed"]
    /\ Goto(r, "failed")
    /\ UNCHANGED <<started, reviewed, fences, budget, control, executor>>

\* Charge a known outcome, keep the hold of any other.  A ledger that refuses
\* or fails, perhaps after the charge, ends in the error path.
Settle(r) ==
    /\ step[r] = "returned"
    /\ admission' = [admission EXCEPT ![r] = "completed"]
    /\ \/ /\ Known(r) /\ hold[r] \in {"forwarding", "uncertain"}
          /\ hold' = [hold EXCEPT ![r] = "committed"]
          /\ \/ Finish(r, outcome[r]) /\ Unlock(r, "done")
             \/ Unlock(r, "failed") /\ UNCHANGED control
       \/ /\ ~Known(r) /\ hold[r] = "forwarding"
          /\ hold' = [hold EXCEPT ![r] = "uncertain"]
          /\ Finish(r, IF outcome[r] = "canceled" THEN "canceled" ELSE "unknown")
          /\ Unlock(r, "done")
       \/ Unlock(r, "failed") /\ UNCHANGED <<hold, control>>
    /\ UNCHANGED <<started, reviewed, fences, ticket, executor>>

\* Mutant of Recover: the admission of a failed dispatch is forgotten.
RecoverBudgetOnly(r) ==
    /\ step[r] = "failed"
    /\ IF started[r]
       THEN UNCHANGED budget
       ELSE CancelHold(r)
    /\ Finish(r, IF started[r] THEN "unknown" ELSE IF stop[r] THEN "canceled" ELSE "denied")
    /\ step' = [step EXCEPT ![r] = "done"] /\ UNCHANGED exec
    /\ UNCHANGED <<started, service, executor>>

\* The error path of dispatch, outside the locks.
Recover(r) ==
    /\ step[r] = "failed"
    /\ admission' = [admission EXCEPT ![r] = Withdrawn(r)]
    /\ IF started[r]
       THEN /\ hold' \in {hold, [hold EXCEPT ![r] = IF @ = "forwarding" THEN "uncertain" ELSE @]}
            /\ UNCHANGED ticket
       ELSE CancelHold(r)
    /\ Finish(r, IF started[r] THEN "unknown" ELSE IF stop[r] THEN "canceled" ELSE "denied")
    /\ Goto(r, "done")
    /\ UNCHANGED <<started, reviewed, fences, executor>>
-----------------------------------------------------------------------------
(* Controls.                                                               *)

\* _control; a receipt that says "unknown" or "unable_to_stop" reports no end.
Receipt(r, status) ==
    receipts' = [receipts EXCEPT ![r] = @ \cup ({status} \cap {"completed", "canceled"})]

\* cancel of a prepared authorization: first it is withdrawn from dispatch ...
CancelPrepared(r) ==
    /\ step[r] = "ready" /\ state[r] = "prepared"
    /\ stop' = [stop EXCEPT ![r] = TRUE]
    /\ state' = [state EXCEPT ![r] = "canceled"]
    /\ Goto(r, "canceling")
    /\ UNCHANGED <<started, service, budget, result, receipts, executor>>

\* ... then, once the execution lock is free, its admission and its hold.
CancelRest(r) ==
    /\ step[r] = "canceling" /\ exec = None
    /\ admission' = [admission EXCEPT ![r] = Withdrawn(r)]
    /\ CancelHold(r)
    /\ Receipt(r, "canceled")
    /\ Goto(r, "done")
    /\ UNCHANGED <<started, reviewed, fences, state, stop, result, executor>>

\* Mutant of Stopped: a job whose target is being checked counts as queued.
StoppedEarly(r) == job[r] \in {"queued", "checking"}

\* The executor's request_stop cancels a job that has not been taken ...
Stopped(r) == job[r] = "queued"

\* ... and says so; a job that has ended is "completed" whatever its outcome.
StopAnswer(r) ==
    IF Stopped(r) \/ job[r] = "canceled" THEN "canceled"
    ELSE IF job[r] = "finished" THEN "completed"
    ELSE IF job[r] = "unable_to_stop" THEN "unable_to_stop" ELSE "unknown"

\* request_stop, also reached by cancel once dispatch has begun: takes no
\* execution lock and leaves the admission and the hold alone.
RequestStop(r) ==
    /\ state[r] # "none"
    /\ stop' = [stop EXCEPT ![r] = TRUE]
    /\ signal' = [signal EXCEPT ![r] = @ \/ job[r] \notin {"finished", "canceled"}]
    /\ job' = IF Stopped(r) THEN [job EXCEPT ![r] = "canceled"] ELSE job
    /\ state' = IF state[r] = "prepared" THEN [state EXCEPT ![r] = "canceled"] ELSE state
    /\ Receipt(r, IF state[r] = "prepared" THEN "canceled" ELSE StopAnswer(r))
    /\ UNCHANGED <<request, service, budget, result, worker, outcome>>

\* status: a report that changes nothing.
Status(r) ==
    /\ state[r] # "none"
    /\ Receipt(r, IF state[r] = "canceled" \/ job[r] = "canceled" THEN "canceled"
                  ELSE IF result[r] \in {"completed", "denied"} THEN "completed"
                  ELSE IF job[r] = "unable_to_stop" THEN "unable_to_stop" ELSE "unknown")
    /\ UNCHANGED <<request, service, budget, state, stop, result, executor>>
-----------------------------------------------------------------------------
(* The delegation service and the ledger, by themselves.                   *)

\* Mutant of Fence: revocation does not wait for an effect under way.
FenceAtOnce ==
    /\ fences < MaxFences
    /\ fences' = fences + 1
    /\ admission' = [r \in Requests |-> IF admission[r] = "pending" THEN "fenced" ELSE admission[r]]
    /\ UNCHANGED <<reviewed, request, budget, control, executor>>

\* _revoke, set_available, fence_policy: under the service lock every pending
\* admission is canceled and the generation moves on.
Fence ==
    /\ fences < MaxFences
    /\ \A r \in Requests : step[r] \notin InService
    /\ fences' = fences + 1
    /\ admission' = [r \in Requests |-> IF admission[r] = "pending" THEN "fenced" ELSE admission[r]]
    /\ UNCHANGED <<reviewed, request, budget, control, executor>>

\* _expire_admissions.
ExpireAdmission(r) ==
    /\ admission[r] = "pending"
    /\ \A q \in Requests : step[q] \notin InService
    /\ admission' = [admission EXCEPT ![r] = "expired"]
    /\ UNCHANGED <<reviewed, fences, request, budget, control, executor>>

\* BudgetLedger._expire.
ExpireHold(r) ==
    /\ hold[r] \in {"reserved", "forwarding"}
    /\ hold' = [hold EXCEPT ![r] = IF @ = "reserved" THEN "expired" ELSE "uncertain"]
    /\ UNCHANGED <<ticket, request, service, control, executor>>
-----------------------------------------------------------------------------
\* The thread that serves r, once dispatch or cancel has begun.
Thread(r) ==
    \/ Check(r) \/ License(r) \/ Forward(r) \/ BeginForward(r)
    \/ Execute(r) \/ CheckTarget(r) \/ Spawn(r) \/ Collect(r)
    \/ Terminate(r) \/ MarkStubborn(r) \/ Cleanup(r)
    \/ Settle(r) \/ Recover(r) \/ CancelRest(r)

\* The thread that prepares r.
Prepare(r) ==
    \/ Register(r) \/ Refuse(r)
    \/ \E ack \in BOOLEAN : ReserveHold(r, ack)

Next ==
    \/ Fence
    \/ \E r \in Requests :
         \/ Thread(r) \/ Prepare(r) \/ Review(r) \/ Claim(r)
         \/ CancelPrepared(r) \/ RequestStop(r) \/ Status(r)
         \/ WorkerExits(r) \/ ExpireAdmission(r) \/ ExpireHold(r)

\* A thread that has begun is not stopped: it blocks only on the execution
\* lock, and the deadline of the poll loop ends its wait for the worker.
Fairness == WF_vars(\E r \in Requests : Thread(r) \/ Prepare(r))

Spec == Init /\ [][Next]_vars /\ Fairness
-----------------------------------------------------------------------------
(* Properties.                                                             *)

\* Every row is in a state the code names.
TypeOK ==
    /\ step \in [Requests -> Steps]
    /\ exec \in Requests \cup {None}
    /\ admission \in [Requests -> {"none", "pending", "withdrawn", "fenced", "expired",
                                  "denied", "committed", "uncertain", "completed"}]
    /\ reviewed \in [Requests -> 0..MaxFences] /\ fences \in 0..MaxFences
    /\ hold \in [Requests -> {"none", "reserved", "forwarding", "uncertain",
                             "committed", "canceled", "expired"}]
    /\ ticket \in [Requests -> BOOLEAN]
    /\ state \in [Requests -> {"none", "prepared", "checking", "forwarding"} \cup Statuses]
    /\ stop \in [Requests -> BOOLEAN] /\ started \in [Requests -> BOOLEAN]
    /\ job \in [Requests -> {"none", "queued", "checking", "running", "finished",
                            "canceled", "unable_to_stop"}]
    /\ signal \in [Requests -> BOOLEAN]
    /\ worker \in [Requests -> {"none", "alive", "gone"}]
    /\ outcome \in [Requests -> Outcomes]
    /\ result \in [Requests -> {"none"} \cup Statuses]
    /\ receipts \in [Requests -> SUBSET {"completed", "canceled"}]

\* A "canceled" receipt is final although it was issued without waiting for the
\* dispatching thread: no worker runs then or later, nothing is delivered.
CanceledIsFinal ==
    \A r \in Requests : "canceled" \in receipts[r] =>
        worker[r] # "alive" /\ result[r] # "completed"

\* No worker was started without a committed admission and a hold that can only
\* be charged or kept: nothing that may have run is refunded by an error path.
WorkIsPaid ==
    \A r \in Requests : worker[r] # "none" =>
        /\ hold[r] \in {"forwarding", "uncertain", "committed"}
        /\ admission[r] \in {"committed", "completed"}

\* A revocation returns only when no effect of an older admission is under way,
\* unless its job is known as one that would not stop.
FencesWait ==
    \A r \in Requests : worker[r] = "alive" =>
        reviewed[r] = fences \/ job[r] = "unable_to_stop"

\* Whatever fails, a request that was refused, dispatched or canceled occupies
\* no slot of the delegation service.
NoSlotLeaks ==
    \A r \in Requests : step[r] \in {"refused", "done"} => admission[r] # "pending"

\* Every dispatch ends with a result, whatever the worker, the ledger and the
\* controls do, and although all dispatches share one lock.
DispatchEnds ==
    []<>(\A r \in Requests : state[r] \notin {"checking", "forwarding"})
=============================================================================
