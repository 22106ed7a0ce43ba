--------------------------- MODULE GatewayProofs ----------------------------
(***************************************************************************)
(* Proofs about the gateways: the enforcing broker, for any number of      *)
(* requests and of fences; the tool gateway, for any number of actors,     *)
(* attempts and tickets; the message gateway, for any number of peers,     *)
(* channels, threads, contents and labels and any limits; and the artifact *)
(* gateway with its record, for any agents, addresses, contents and limits.*)
(*                                                                         *)
(* The safety properties of the broker concern one request each, and       *)
(* follow from what its row, its job and its hold are at every position of *)
(* the thread that serves it.  Those of the tool gateway rest on whose     *)
(* turn it is under the lock: the call of one attempt leaves the others,   *)
(* and the actors of their tickets, alone.  Those of the message gateway   *)
(* rest on the delivery lock: a thread that delivers works on the last     *)
(* message of its channel, and every other message has its outcome.  Those *)
(* of the artifacts rest on the gateway never going back: what was once    *)
(* seen of it lies behind what it has, so that seeing the same again means *)
(* that nothing has happened.                                              *)
(***************************************************************************)
EXTENDS Enforcement, DataPlane, Sequences, FiniteSetTheorems, WellFoundedInduction, TLAPS

\* Positions at which no worker can have been started.
Early == Preparing \cup {"refused", "ready", "canceling", "claimed", "checked",
                         "licensed", "bound", "begun", "target", "spawn"}

\* Positions inside execute with a worker, and all positions after it.
Watching == {"polling", "stubborn", "cleanup"}
Late == Watching \cup {"returned", "failed", "done"}

\* The row of the authorization at every position.
RowAt(r) ==
    /\ step[r] \in Preparing \cup {"refused"} => state[r] = "none" /\ receipts[r] = {}
    /\ step[r] = "ready" => state[r] \in {"prepared", "canceled"}
    /\ step[r] = "canceling" => state[r] = "canceled"
    /\ step[r] \in {"claimed", "checked", "licensed", "bound"} => state[r] = "checking"
    /\ step[r] \in InService \ {"licensed", "bound"} => state[r] = "forwarding"
    /\ step[r] = "failed" => state[r] \in {"checking", "forwarding"}
    /\ step[r] # "done" => result[r] = "none"
    /\ step[r] = "done" => result[r] \in {"none", state[r]}
    /\ step[r] = "done" /\ result[r] = "none" => state[r] = "canceled" /\ worker[r] = "none"
    /\ result[r] = "completed" => outcome[r] = "completed"
    /\ result[r] = "canceled" => worker[r] = "none" \/ job[r] = "canceled"

\* The job and its worker at every position.
JobAt(r) ==
    /\ step[r] \in Early => worker[r] = "none" /\ outcome[r] = "none"
    /\ step[r] \in {"ready", "canceling", "claimed", "checked", "licensed", "bound", "begun"}
          => job[r] \in {"queued", "canceled"}
    /\ step[r] \in {"target", "spawn"} => job[r] = "checking"
    /\ job[r] = "queued" => worker[r] = "none" /\ outcome[r] = "none"
    /\ step[r] = "stubborn" => job[r] = "finished" /\ outcome[r] = "unknown"
    /\ step[r] = "polling" => job[r] = "running" /\ outcome[r] = "none" /\ worker[r] # "none"
    /\ job[r] = "canceled" => worker[r] # "alive" /\ outcome[r] \in {"none", "canceled"}
    /\ outcome[r] = "canceled" => job[r] = "canceled"
    /\ outcome[r] = "completed" => worker[r] = "gone"
    /\ worker[r] = "alive" => step[r] \in Watching \/ job[r] = "unable_to_stop"

\* What is paid and under which admission, at every position.
PaidAt(r) ==
    /\ step[r] \in InService => admission[r] = "committed" /\ reviewed[r] = fences
    /\ step[r] \in InService \ {"licensed", "bound"} => hold[r] \in {"forwarding", "uncertain"}
    /\ step[r] \in InService \ {"licensed"} => started[r]
    /\ worker[r] # "none" => /\ started[r] /\ step[r] \in Late
                             /\ hold[r] \in {"forwarding", "uncertain", "committed"}
                             /\ admission[r] \in {"committed", "completed"}
    /\ step[r] \in {"refused", "done"} => admission[r] # "pending"

\* A receipt "canceled" comes from a canceled job or a canceled row, ...
CanceledAt(r) ==
    "canceled" \in receipts[r] =>
        job[r] = "canceled" \/ (state[r] = "canceled" /\ step[r] \in {"ready", "canceling", "done"})

Local(r) == RowAt(r) /\ JobAt(r) /\ PaidAt(r) /\ CanceledAt(r)

\* The inductive invariant.
IInv == TypeOK /\ \A r \in Requests : Local(r)
-----------------------------------------------------------------------------
(* One lemma per action: its step keeps IInv.  A step of one request       *)
(* leaves the others alone, so that only its own row has to be looked at.  *)

\* What a request has, and the fences, in one tuple.
Own(r) == <<step[r], admission[r], reviewed[r], hold[r], state[r], started[r], job[r],
            worker[r], outcome[r], result[r], receipts[r], fences>>

\* A step in which every request other than r keeps what it has.
Frame(r) == \A q \in Requests \ {r} : Own(q)' = Own(q)

\* The invariant holds after a step of r that keeps it for r.
LEMMA FrameKeeps ==
    ASSUME NEW r \in Requests, \A q \in Requests : Local(q), Frame(r), TypeOK', Local(r)'
    PROVE  IInv'
<1> SUFFICES ASSUME NEW q \in Requests, q # r PROVE Local(q)'
    BY DEF IInv
<1>1. Own(q)' = Own(q)
    BY DEF Frame
<1> QED
    BY <1>1 DEF Own, Local, RowAt, JobAt, PaidAt, CanceledAt

\* The review issues an admission: the row is still empty.
LEMMA ReviewStep ==
    ASSUME IInv, NEW r \in Requests, Review(r)
    PROVE  IInv'
<1> USE DEF IInv, TypeOK, Steps, Preparing, InService, Outcomes, Statuses, Review, Goto, Unlock,
            request, service, budget, control, executor
<1>1. TypeOK'
    OBVIOUS
<1>2. Frame(r)
    BY DEF Frame, Own
<1>3. Local(r)'
    <2>1. Local(r)
        OBVIOUS
    <2>2. RowAt(r)'
        BY <2>1 DEF Local, RowAt, JobAt, Early, Watching
    <2>3. JobAt(r)'
        BY <2>1 DEF Local, JobAt, RowAt, Early, Watching
    <2>4. PaidAt(r)'
        BY <2>1 DEF Local, PaidAt, JobAt, RowAt, Early, Watching, Late
    <2>5. CanceledAt(r)'
        BY <2>1 DEF Local, CanceledAt, RowAt, JobAt
    <2> QED
        BY <2>2, <2>3, <2>4, <2>5 DEF Local
<1> QED
    BY <1>1, <1>2, <1>3, FrameKeeps

\* A hold is reserved, with or without its ticket.
LEMMA ReserveHoldStep ==
    ASSUME IInv, NEW r \in Requests, NEW ack \in BOOLEAN, ReserveHold(r, ack)
    PROVE  IInv'
<1> USE DEF IInv, TypeOK, Steps, Preparing, InService, Outcomes, Statuses, ReserveHold, Goto,
            Unlock, request, service, budget, control, executor
<1>1. TypeOK'
    OBVIOUS
<1>2. Frame(r)
    BY DEF Frame, Own
<1>3. Local(r)'
    <2>1. Local(r)
        OBVIOUS
    <2>2. RowAt(r)'
        BY <2>1 DEF Local, RowAt, JobAt, Early, Watching
    <2>3. JobAt(r)'
        BY <2>1 DEF Local, JobAt, RowAt, Early, Watching
    <2>4. PaidAt(r)'
        BY <2>1 DEF Local, PaidAt, JobAt, RowAt, Early, Watching, Late
    <2>5. CanceledAt(r)'
        BY <2>1 DEF Local, CanceledAt, RowAt, JobAt
    <2> QED
        BY <2>2, <2>3, <2>4, <2>5 DEF Local
<1> QED
    BY <1>1, <1>2, <1>3, FrameKeeps

\* The authorization is published with a queued job.
LEMMA RegisterStep ==
    ASSUME IInv, NEW r \in Requests, Register(r)
    PROVE  IInv'
<1> USE DEF IInv, TypeOK, Steps, Preparing, InService, Outcomes, Statuses, Register, Goto, Unlock,
            request, service, budget, control, executor
<1>1. TypeOK'
    OBVIOUS
<1>2. Frame(r)
    BY DEF Frame, Own
<1>3. Local(r)'
    <2>1. Local(r)
        OBVIOUS
    <2>2. RowAt(r)'
        BY <2>1 DEF Local, RowAt, JobAt, Early, Watching
    <2>3. JobAt(r)'
        BY <2>1 DEF Local, JobAt, RowAt, Early, Watching
    <2>4. PaidAt(r)'
        BY <2>1 DEF Local, PaidAt, JobAt, RowAt, Early, Watching, Late
    <2>5. CanceledAt(r)'
        BY <2>1 DEF Local, CanceledAt, RowAt, JobAt
    <2> QED
        BY <2>2, <2>3, <2>4, <2>5 DEF Local
<1> QED
    BY <1>1, <1>2, <1>3, FrameKeeps

\* A refused preparation withdraws its admission.
LEMMA RefuseStep ==
    ASSUME IInv, NEW r \in Requests, Refuse(r)
    PROVE  IInv'
<1> USE DEF IInv, TypeOK, Steps, Preparing, InService, Outcomes, Statuses, Refuse, CancelHold,
            Withdrawn, Goto, Unlock, request, service, budget, control, executor
<1>1. TypeOK'
    OBVIOUS
<1>2. Frame(r)
    BY DEF Frame, Own
<1>3. Local(r)'
    <2>1. Local(r)
        OBVIOUS
    <2>2. RowAt(r)'
        BY <2>1 DEF Local, RowAt, JobAt, Early, Watching
    <2>3. JobAt(r)'
        BY <2>1 DEF Local, JobAt, RowAt, Early, Watching
    <2>4. PaidAt(r)'
        BY <2>1 DEF Local, PaidAt, JobAt, RowAt, Early, Watching, Late
    <2>5. CanceledAt(r)'
        BY <2>1 DEF Local, CanceledAt, RowAt, JobAt
    <2> QED
        BY <2>2, <2>3, <2>4, <2>5 DEF Local
<1> QED
    BY <1>1, <1>2, <1>3, FrameKeeps

\* dispatch takes the authorization.
LEMMA ClaimStep ==
    ASSUME IInv, NEW r \in Requests, Claim(r)
    PROVE  IInv'
<1> USE DEF IInv, TypeOK, Steps, Preparing, InService, Outcomes, Statuses, Claim, Goto, Unlock,
            request, service, budget, control, executor
<1>1. TypeOK'
    OBVIOUS
<1>2. Frame(r)
    BY DEF Frame, Own
<1>3. Local(r)'
    <2>1. Local(r)
        OBVIOUS
    <2>2. RowAt(r)'
        BY <2>1 DEF Local, RowAt, JobAt, Early, Watching
    <2>3. JobAt(r)'
        BY <2>1 DEF Local, JobAt, RowAt, Early, Watching
    <2>4. PaidAt(r)'
        BY <2>1 DEF Local, PaidAt, JobAt, RowAt, Early, Watching, Late
    <2>5. CanceledAt(r)'
        BY <2>1 DEF Local, CanceledAt, RowAt, JobAt
    <2> QED
        BY <2>2, <2>3, <2>4, <2>5 DEF Local
<1> QED
    BY <1>1, <1>2, <1>3, FrameKeeps

\* Another check of every binding; only the position changes.
LEMMA CheckStep ==
    ASSUME IInv, NEW r \in Requests, Check(r)
    PROVE  IInv'
<1> USE DEF IInv, TypeOK, Steps, Preparing, InService, Outcomes, Statuses, Check, Goto, Unlock,
            request, service, budget, control, executor
<1>1. TypeOK'
    OBVIOUS
<1>2. Frame(r)
    BY DEF Frame, Own
<1>3. Local(r)'
    <2>1. Local(r)
        OBVIOUS
    <2>2. RowAt(r)'
        BY <2>1 DEF Local, RowAt, JobAt, Early, Watching
    <2>3. JobAt(r)'
        BY <2>1 DEF Local, JobAt, RowAt, Early, Watching
    <2>4. PaidAt(r)'
        BY <2>1 DEF Local, PaidAt, JobAt, RowAt, Early, Watching, Late
    <2>5. CanceledAt(r)'
        BY <2>1 DEF Local, CanceledAt, RowAt, JobAt
    <2> QED
        BY <2>2, <2>3, <2>4, <2>5 DEF Local
<1> QED
    BY <1>1, <1>2, <1>3, FrameKeeps

\* guarded_dispatch commits an admission of the present generation.
LEMMA LicenseStep ==
    ASSUME IInv, NEW r \in Requests, License(r)
    PROVE  IInv'
<1> USE DEF IInv, TypeOK, Steps, Preparing, InService, Outcomes, Statuses, License, Goto, Unlock,
            request, service, budget, control, executor
<1>1. TypeOK'
    OBVIOUS
<1>2. Frame(r)
    BY DEF Frame, Own
<1>3. Local(r)'
    <2>1. Local(r)
        OBVIOUS
    <2>2. RowAt(r)'
        BY <2>1 DEF Local, RowAt, JobAt, Early, Watching
    <2>3. JobAt(r)'
        BY <2>1 DEF Local, JobAt, RowAt, Early, Watching
    <2>4. PaidAt(r)'
        BY <2>1 DEF Local, PaidAt, JobAt, RowAt, Early, Watching, Late
    <2>5. CanceledAt(r)'
        BY <2>1 DEF Local, CanceledAt, RowAt, JobAt
    <2> QED
        BY <2>2, <2>3, <2>4, <2>5 DEF Local
<1> QED
    BY <1>1, <1>2, <1>3, FrameKeeps

\* forward commits itself to the budget or raises.
LEMMA ForwardStep ==
    ASSUME IInv, NEW r \in Requests, Forward(r)
    PROVE  IInv'
<1> USE DEF IInv, TypeOK, Steps, Preparing, InService, Outcomes, Statuses, Forward, Raised, Goto,
            Unlock, request, service, budget, control, executor
<1>1. TypeOK'
    <2>1. step' \in [Requests -> Steps] /\ exec' \in Requests \cup {None}
        OBVIOUS
    <2>2. admission' \in [Requests -> {"none", "pending", "withdrawn", "fenced", "expired",
                                       "denied", "committed", "uncertain", "completed"}]
        OBVIOUS
    <2>3. hold' \in [Requests -> {"none", "reserved", "forwarding", "uncertain",
                                  "committed", "canceled", "expired"}]
        OBVIOUS
    <2>4. state' \in [Requests -> {"none", "prepared", "checking", "forwarding"} \cup Statuses]
        OBVIOUS
    <2>5. result' \in [Requests -> {"none"} \cup Statuses] /\ started' \in [Requests -> BOOLEAN]
        <3>1. result \in [Requests -> {"none"} \cup Statuses] /\ started \in [Requests -> BOOLEAN]
            OBVIOUS
        <3> HIDE DEF IInv
        <3>2. result' = result /\ started' \in {started, [started EXCEPT ![r] = TRUE]}
            OBVIOUS
        <3> HIDE DEF Forward
        <3> QED
            BY <3>1, <3>2
    <2>6. UNCHANGED <<reviewed, fences, ticket, stop, receipts, job, signal, worker, outcome>>
        OBVIOUS
    <2> QED
        BY <2>1, <2>2, <2>3, <2>4, <2>5, <2>6
<1>2. Frame(r)
    BY DEF Frame, Own
<1>3. Local(r)'
    <2>1. Local(r)
        OBVIOUS
    <2>2. RowAt(r)'
        BY <2>1 DEF Local, RowAt, JobAt, Early, Watching
    <2>3. JobAt(r)'
        BY <2>1 DEF Local, JobAt, RowAt, Early, Watching
    <2>4. PaidAt(r)'
        BY <2>1 DEF Local, PaidAt, JobAt, RowAt, Early, Watching, Late
    <2>5. CanceledAt(r)'
        BY <2>1 DEF Local, CanceledAt, RowAt, JobAt
    <2> QED
        BY <2>2, <2>3, <2>4, <2>5 DEF Local
<1> QED
    BY <1>1, <1>2, <1>3, FrameKeeps

\* begin_forward: from here on the hold is paid or kept.
LEMMA BeginForwardStep ==
    ASSUME IInv, NEW r \in Requests, BeginForward(r)
    PROVE  IInv'
<1> USE DEF IInv, TypeOK, Steps, Preparing, InService, Outcomes, Statuses, BeginForward, Raised,
            Goto, Unlock, request, service, budget, control, executor
<1>1. TypeOK'
    OBVIOUS
<1>2. Frame(r)
    BY DEF Frame, Own
<1>3. Local(r)'
    <2>1. Local(r)
        OBVIOUS
    <2>2. RowAt(r)'
        BY <2>1 DEF Local, RowAt, JobAt, Early, Watching
    <2>3. JobAt(r)'
        BY <2>1 DEF Local, JobAt, RowAt, Early, Watching
    <2>4. PaidAt(r)'
        BY <2>1 DEF Local, PaidAt, JobAt, RowAt, Early, Watching, Late
    <2>5. CanceledAt(r)'
        BY <2>1 DEF Local, CanceledAt, RowAt, JobAt
    <2> QED
        BY <2>2, <2>3, <2>4, <2>5 DEF Local
<1> QED
    BY <1>1, <1>2, <1>3, FrameKeeps

\* execute takes the job, or finds it canceled.
LEMMA ExecuteStep ==
    ASSUME IInv, NEW r \in Requests, Execute(r)
    PROVE  IInv'
<1> USE DEF IInv, TypeOK, Steps, Preparing, InService, Outcomes, Statuses, Execute, Emit, Raised,
            Goto, Unlock, request, service, budget, control, executor
<1>1. TypeOK'
    OBVIOUS
<1>2. Frame(r)
    BY DEF Frame, Own
<1>3. Local(r)'
    <2>1. Local(r)
        OBVIOUS
    <2>2. RowAt(r)'
        BY <2>1 DEF Local, RowAt, JobAt, Early, Watching
    <2>3. JobAt(r)'
        BY <2>1 DEF Local, JobAt, RowAt, Early, Watching
    <2>4. PaidAt(r)'
        BY <2>1 DEF Local, PaidAt, JobAt, RowAt, Early, Watching, Late
    <2>5. CanceledAt(r)'
        BY <2>1 DEF Local, CanceledAt, RowAt, JobAt
    <2> QED
        BY <2>2, <2>3, <2>4, <2>5 DEF Local
<1> QED
    BY <1>1, <1>2, <1>3, FrameKeeps

\* The target is checked; a stop still cancels the job.
LEMMA CheckTargetStep ==
    ASSUME IInv, NEW r \in Requests, CheckTarget(r)
    PROVE  IInv'
<1> USE DEF IInv, TypeOK, Steps, Preparing, InService, Outcomes, Statuses, CheckTarget, Emit, Goto,
            Unlock, request, service, budget, control, executor
<1>1. TypeOK'
    BY SMTT(40)
<1>2. Frame(r)
    BY DEF Frame, Own
<1>3. Local(r)'
    <2>1. Local(r)
        OBVIOUS
    <2>2. RowAt(r)'
        BY <2>1 DEF Local, RowAt, JobAt, Early, Watching
    <2>3. JobAt(r)'
        BY <2>1 DEF Local, JobAt, RowAt, Early, Watching
    <2>4. PaidAt(r)'
        BY <2>1 DEF Local, PaidAt, JobAt, RowAt, Early, Watching, Late
    <2>5. CanceledAt(r)'
        BY <2>1 DEF Local, CanceledAt, RowAt, JobAt
    <2> QED
        BY <2>2, <2>3, <2>4, <2>5 DEF Local
<1> QED
    BY <1>1, <1>2, <1>3, FrameKeeps

\* The worker is started: its hold is forwarding or uncertain, and its admission committed.
LEMMA SpawnStep ==
    ASSUME IInv, NEW r \in Requests, Spawn(r)
    PROVE  IInv'
<1> USE DEF IInv, TypeOK, Steps, Preparing, InService, Outcomes, Statuses, Spawn, Emit, Goto,
            Unlock, request, service, budget, control, executor
<1>1. TypeOK'
    BY SMTT(40)
<1>2. Frame(r)
    BY DEF Frame, Own
<1>3. Local(r)'
    <2>1. Local(r)
        OBVIOUS
    <2>2. RowAt(r)'
        BY <2>1 DEF Local, RowAt, JobAt, Early, Watching
    <2>3. JobAt(r)'
        BY <2>1 DEF Local, JobAt, RowAt, Early, Watching
    <2>4. PaidAt(r)'
        BY <2>1 DEF Local, PaidAt, JobAt, RowAt, Early, Watching, Late
    <2>5. CanceledAt(r)'
        BY <2>1 DEF Local, CanceledAt, RowAt, JobAt
    <2> QED
        BY <2>2, <2>3, <2>4, <2>5 DEF Local
<1> QED
    BY <1>1, <1>2, <1>3, FrameKeeps

\* The worker ends by itself.
LEMMA WorkerExitsStep ==
    ASSUME IInv, NEW r \in Requests, WorkerExits(r)
    PROVE  IInv'
<1> USE DEF IInv, TypeOK, Steps, Preparing, InService, Outcomes, Statuses, WorkerExits, Goto,
            Unlock, request, service, budget, control, executor
<1>1. TypeOK'
    OBVIOUS
<1>2. Frame(r)
    BY DEF Frame, Own
<1>3. Local(r)'
    <2>1. Local(r)
        OBVIOUS
    <2>2. RowAt(r)'
        BY <2>1 DEF Local, RowAt, JobAt, Early, Watching
    <2>3. JobAt(r)'
        BY <2>1 DEF Local, JobAt, RowAt, Early, Watching
    <2>4. PaidAt(r)'
        BY <2>1 DEF Local, PaidAt, JobAt, RowAt, Early, Watching, Late
    <2>5. CanceledAt(r)'
        BY <2>1 DEF Local, CanceledAt, RowAt, JobAt
    <2> QED
        BY <2>2, <2>3, <2>4, <2>5 DEF Local
<1> QED
    BY <1>1, <1>2, <1>3, FrameKeeps

\* The answer of a worker that has exited is reported.
LEMMA CollectStep ==
    ASSUME IInv, NEW r \in Requests, Collect(r)
    PROVE  IInv'
<1> USE DEF IInv, TypeOK, Steps, Preparing, InService, Outcomes, Statuses, Collect, Emit, Goto,
            Unlock, request, service, budget, control, executor
<1>1. TypeOK'
    OBVIOUS
<1>2. Frame(r)
    BY DEF Frame, Own
<1>3. Local(r)'
    <2>1. Local(r)
        OBVIOUS
    <2>2. RowAt(r)'
        BY <2>1 DEF Local, RowAt, JobAt, Early, Watching
    <2>3. JobAt(r)'
        BY <2>1 DEF Local, JobAt, RowAt, Early, Watching
    <2>4. PaidAt(r)'
        BY <2>1 DEF Local, PaidAt, JobAt, RowAt, Early, Watching, Late
    <2>5. CanceledAt(r)'
        BY <2>1 DEF Local, CanceledAt, RowAt, JobAt
    <2> QED
        BY <2>2, <2>3, <2>4, <2>5 DEF Local
<1> QED
    BY <1>1, <1>2, <1>3, FrameKeeps

\* The worker is killed, or reported while it is alive.
LEMMA TerminateStep ==
    ASSUME IInv, NEW r \in Requests, Terminate(r)
    PROVE  IInv'
<1> USE DEF IInv, TypeOK, Steps, Preparing, InService, Outcomes, Statuses, Terminate, Emit, Goto,
            Unlock, request, service, budget, control, executor
<1>1. TypeOK'
    BY SMTT(40)
<1>2. Frame(r)
    BY DEF Frame, Own
<1>3. Local(r)'
    <2>1. Local(r)
        OBVIOUS
    <2>2. RowAt(r)'
        BY <2>1 DEF Local, RowAt, JobAt, Early, Watching
    <2>3. JobAt(r)'
        BY <2>1 DEF Local, JobAt, RowAt, Early, Watching
    <2>4. PaidAt(r)'
        BY <2>1 DEF Local, PaidAt, JobAt, RowAt, Early, Watching, Late
    <2>5. CanceledAt(r)'
        BY <2>1 DEF Local, CanceledAt, RowAt, JobAt
    <2> QED
        BY <2>2, <2>3, <2>4, <2>5 DEF Local
<1> QED
    BY <1>1, <1>2, <1>3, FrameKeeps

\* The job reported as unknown is one that would not stop.
LEMMA MarkStubbornStep ==
    ASSUME IInv, NEW r \in Requests, MarkStubborn(r)
    PROVE  IInv'
<1> USE DEF IInv, TypeOK, Steps, Preparing, InService, Outcomes, Statuses, MarkStubborn, Goto,
            Unlock, request, service, budget, control, executor
<1>1. TypeOK'
    OBVIOUS
<1>2. Frame(r)
    BY DEF Frame, Own
<1>3. Local(r)'
    <2>1. Local(r)
        OBVIOUS
    <2>2. RowAt(r)'
        BY <2>1 DEF Local, RowAt, JobAt, Early, Watching
    <2>3. JobAt(r)'
        BY <2>1 DEF Local, JobAt, RowAt, Early, Watching
    <2>4. PaidAt(r)'
        BY <2>1 DEF Local, PaidAt, JobAt, RowAt, Early, Watching, Late
    <2>5. CanceledAt(r)'
        BY <2>1 DEF Local, CanceledAt, RowAt, JobAt
    <2> QED
        BY <2>2, <2>3, <2>4, <2>5 DEF Local
<1> QED
    BY <1>1, <1>2, <1>3, FrameKeeps

\* What is alive after cleanup is known as unable_to_stop.
LEMMA CleanupStep ==
    ASSUME IInv, NEW r \in Requests, Cleanup(r)
    PROVE  IInv'
<1> USE DEF IInv, TypeOK, Steps, Preparing, InService, Outcomes, Statuses, Cleanup, Goto, Unlock,
            request, service, budget, control, executor
<1>1. TypeOK'
    OBVIOUS
<1>2. Frame(r)
    BY DEF Frame, Own
<1>3. Local(r)'
    <2>1. Local(r)
        OBVIOUS
    <2>2. RowAt(r)'
        BY <2>1 DEF Local, RowAt, JobAt, Early, Watching
    <2>3. JobAt(r)'
        BY <2>1 DEF Local, JobAt, RowAt, Early, Watching
    <2>4. PaidAt(r)'
        BY <2>1 DEF Local, PaidAt, JobAt, RowAt, Early, Watching, Late
    <2>5. CanceledAt(r)'
        BY <2>1 DEF Local, CanceledAt, RowAt, JobAt
    <2> QED
        BY <2>2, <2>3, <2>4, <2>5 DEF Local
<1> QED
    BY <1>1, <1>2, <1>3, FrameKeeps

\* The outcome is charged or kept, or the error path is taken.
LEMMA SettleStep ==
    ASSUME IInv, NEW r \in Requests, Settle(r)
    PROVE  IInv'
<1> USE DEF IInv, TypeOK, Steps, Preparing, InService, Outcomes, Statuses, Settle, Known, Finish,
            Goto, Unlock, request, service, budget, control, executor
<1>1. TypeOK'
    <2>1. step' \in [Requests -> Steps] /\ exec' \in Requests \cup {None}
        OBVIOUS
    <2>2. admission' \in [Requests -> {"none", "pending", "withdrawn", "fenced", "expired",
                                       "denied", "committed", "uncertain", "completed"}]
        OBVIOUS
    <2>3. hold' \in [Requests -> {"none", "reserved", "forwarding", "uncertain",
                                  "committed", "canceled", "expired"}]
        OBVIOUS
    <2>4. state' \in [Requests -> {"none", "prepared", "checking", "forwarding"} \cup Statuses]
        OBVIOUS
    <2>5. result' \in [Requests -> {"none"} \cup Statuses] /\ started' \in [Requests -> BOOLEAN]
        OBVIOUS
    <2>6. UNCHANGED <<reviewed, fences, ticket, stop, receipts, job, signal, worker, outcome>>
        OBVIOUS
    <2> QED
        BY <2>1, <2>2, <2>3, <2>4, <2>5, <2>6
<1>2. Frame(r)
    BY DEF Frame, Own
<1>3. Local(r)'
    <2>1. Local(r)
        OBVIOUS
    <2>2. RowAt(r)'
        BY <2>1 DEF Local, RowAt, JobAt, Early, Watching
    <2>3. JobAt(r)'
        BY <2>1 DEF Local, JobAt, RowAt, Early, Watching
    <2>4. PaidAt(r)'
        BY <2>1 DEF Local, PaidAt, JobAt, RowAt, Early, Watching, Late
    <2>5. CanceledAt(r)'
        BY <2>1 DEF Local, CanceledAt, RowAt, JobAt
    <2> QED
        BY <2>2, <2>3, <2>4, <2>5 DEF Local
<1> QED
    BY <1>1, <1>2, <1>3, FrameKeeps

\* The error path: nothing that was started is given back.
LEMMA RecoverStep ==
    ASSUME IInv, NEW r \in Requests, Recover(r)
    PROVE  IInv'
<1> USE DEF IInv, TypeOK, Steps, Preparing, InService, Outcomes, Statuses, Recover, Finish,
            CancelHold, Withdrawn, Goto, Unlock, request, service, budget, control,
            executor
<1>1. TypeOK'
    OBVIOUS
<1>2. Frame(r)
    BY DEF Frame, Own
<1>3. Local(r)'
    <2>1. Local(r)
        OBVIOUS
    <2>2. RowAt(r)'
        BY <2>1 DEF Local, RowAt, JobAt, PaidAt, Early, Watching
    <2>3. JobAt(r)'
        BY <2>1 DEF Local, JobAt, RowAt, Early, Watching
    <2>4. PaidAt(r)'
        BY <2>1 DEF Local, PaidAt, JobAt, RowAt, Early, Watching, Late
    <2>5. CanceledAt(r)'
        BY <2>1 DEF Local, CanceledAt, RowAt, JobAt
    <2> QED
        BY <2>2, <2>3, <2>4, <2>5 DEF Local
<1> QED
    BY <1>1, <1>2, <1>3, FrameKeeps

\* A prepared authorization is withdrawn from dispatch.
LEMMA CancelPreparedStep ==
    ASSUME IInv, NEW r \in Requests, CancelPrepared(r)
    PROVE  IInv'
<1> USE DEF IInv, TypeOK, Steps, Preparing, InService, Outcomes, Statuses, CancelPrepared, Goto,
            Unlock, request, service, budget, control, executor
<1>1. TypeOK'
    OBVIOUS
<1>2. Frame(r)
    BY DEF Frame, Own
<1>3. Local(r)'
    <2>1. Local(r)
        OBVIOUS
    <2>2. RowAt(r)'
        BY <2>1 DEF Local, RowAt, JobAt, Early, Watching
    <2>3. JobAt(r)'
        BY <2>1 DEF Local, JobAt, RowAt, Early, Watching
    <2>4. PaidAt(r)'
        BY <2>1 DEF Local, PaidAt, JobAt, RowAt, Early, Watching, Late
    <2>5. CanceledAt(r)'
        BY <2>1 DEF Local, CanceledAt, RowAt, JobAt
    <2> QED
        BY <2>2, <2>3, <2>4, <2>5 DEF Local
<1> QED
    BY <1>1, <1>2, <1>3, FrameKeeps

\* Then its admission and its hold are given back.
LEMMA CancelRestStep ==
    ASSUME IInv, NEW r \in Requests, CancelRest(r)
    PROVE  IInv'
<1> USE DEF IInv, TypeOK, Steps, Preparing, InService, Outcomes, Statuses, CancelRest, CancelHold,
            Withdrawn, Receipt, Goto, Unlock, request, service, budget, control,
            executor
<1>1. TypeOK'
    OBVIOUS
<1>2. Frame(r)
    BY DEF Frame, Own
<1>3. Local(r)'
    <2>1. Local(r)
        OBVIOUS
    <2>2. RowAt(r)'
        BY <2>1 DEF Local, RowAt, JobAt, Early, Watching
    <2>3. JobAt(r)'
        BY <2>1 DEF Local, JobAt, RowAt, Early, Watching
    <2>4. PaidAt(r)'
        BY <2>1 DEF Local, PaidAt, JobAt, RowAt, Early, Watching, Late
    <2>5. CanceledAt(r)'
        BY <2>1 DEF Local, CanceledAt, RowAt, JobAt
    <2> QED
        BY <2>2, <2>3, <2>4, <2>5 DEF Local
<1> QED
    BY <1>1, <1>2, <1>3, FrameKeeps

\* A stop from any thread: only a job that was not taken is canceled.
LEMMA RequestStopStep ==
    ASSUME IInv, NEW r \in Requests, RequestStop(r)
    PROVE  IInv'
<1> USE DEF IInv, TypeOK, Steps, Preparing, InService, Outcomes, Statuses, RequestStop, Receipt,
            Stopped, StopAnswer, Goto, Unlock, request, service, budget, control,
            executor
<1>1. TypeOK'
    OBVIOUS
<1>2. Frame(r)
    BY DEF Frame, Own
<1>3. Local(r)'
    <2>1. Local(r)
        OBVIOUS
    <2>2. RowAt(r)'
        BY <2>1 DEF Local, RowAt, JobAt, Early, Watching
    <2>3. JobAt(r)'
        BY <2>1 DEF Local, JobAt, RowAt, Early, Watching
    <2>4. PaidAt(r)'
        BY <2>1 DEF Local, PaidAt, JobAt, RowAt, Early, Watching, Late
    <2>5. CanceledAt(r)'
        BY <2>1 DEF Local, CanceledAt, RowAt, JobAt
    <2> QED
        BY <2>2, <2>3, <2>4, <2>5 DEF Local
<1> QED
    BY <1>1, <1>2, <1>3, FrameKeeps

\* A status receipt repeats what row and job say.
LEMMA StatusStep ==
    ASSUME IInv, NEW r \in Requests, Status(r)
    PROVE  IInv'
<1> USE DEF IInv, TypeOK, Steps, Preparing, InService, Outcomes, Statuses, Status, Receipt, Goto,
            Unlock, request, service, budget, control, executor
<1>1. TypeOK'
    OBVIOUS
<1>2. Frame(r)
    BY DEF Frame, Own
<1>3. Local(r)'
    <2>1. Local(r)
        OBVIOUS
    <2>2. RowAt(r)'
        BY <2>1 DEF Local, RowAt, JobAt, Early, Watching
    <2>3. JobAt(r)'
        BY <2>1 DEF Local, JobAt, RowAt, Early, Watching
    <2>4. PaidAt(r)'
        BY <2>1 DEF Local, PaidAt, JobAt, RowAt, Early, Watching, Late
    <2>5. CanceledAt(r)'
        BY <2>1 DEF Local, CanceledAt, RowAt, JobAt
    <2> QED
        BY <2>2, <2>3, <2>4, <2>5 DEF Local
<1> QED
    BY <1>1, <1>2, <1>3, FrameKeeps

\* A pending admission expires.
LEMMA ExpireAdmissionStep ==
    ASSUME IInv, NEW r \in Requests, ExpireAdmission(r)
    PROVE  IInv'
<1> USE DEF IInv, TypeOK, Steps, Preparing, InService, Outcomes, Statuses, ExpireAdmission, Goto,
            Unlock, request, service, budget, control, executor
<1>1. TypeOK'
    OBVIOUS
<1>2. Frame(r)
    BY DEF Frame, Own
<1>3. Local(r)'
    <2>1. Local(r)
        OBVIOUS
    <2>2. RowAt(r)'
        BY <2>1 DEF Local, RowAt, JobAt, Early, Watching
    <2>3. JobAt(r)'
        BY <2>1 DEF Local, JobAt, RowAt, Early, Watching
    <2>4. PaidAt(r)'
        BY <2>1 DEF Local, PaidAt, JobAt, RowAt, Early, Watching, Late
    <2>5. CanceledAt(r)'
        BY <2>1 DEF Local, CanceledAt, RowAt, JobAt
    <2> QED
        BY <2>2, <2>3, <2>4, <2>5 DEF Local
<1> QED
    BY <1>1, <1>2, <1>3, FrameKeeps

\* A hold expires: reserved is given back, forwarding is kept.
LEMMA ExpireHoldStep ==
    ASSUME IInv, NEW r \in Requests, ExpireHold(r)
    PROVE  IInv'
<1> USE DEF IInv, TypeOK, Steps, Preparing, InService, Outcomes, Statuses, ExpireHold, Goto, Unlock,
            request, service, budget, control, executor
<1>1. TypeOK'
    OBVIOUS
<1>2. Frame(r)
    BY DEF Frame, Own
<1>3. Local(r)'
    <2>1. Local(r)
        OBVIOUS
    <2>2. RowAt(r)'
        BY <2>1 DEF Local, RowAt, JobAt, Early, Watching
    <2>3. JobAt(r)'
        BY <2>1 DEF Local, JobAt, RowAt, Early, Watching
    <2>4. PaidAt(r)'
        BY <2>1 DEF Local, PaidAt, JobAt, RowAt, Early, Watching, Late
    <2>5. CanceledAt(r)'
        BY <2>1 DEF Local, CanceledAt, RowAt, JobAt
    <2> QED
        BY <2>2, <2>3, <2>4, <2>5 DEF Local
<1> QED
    BY <1>1, <1>2, <1>3, FrameKeeps

\* A fence waits until no effect is under way; pending admissions are withdrawn.
LEMMA FenceStep ==
    ASSUME IInv, Fence
    PROVE  IInv'
<1> USE DEF IInv, TypeOK, Fence, request, budget, control, executor
<1> USE BrokerConstants
<1>1. TypeOK'
    OBVIOUS
<1>2. ASSUME NEW r \in Requests PROVE Local(r)'
    <2>1. Local(r) /\ step[r] \notin InService
        OBVIOUS
    <2>2. RowAt(r)' /\ JobAt(r)' /\ CanceledAt(r)'
        BY <2>1 DEF Local, RowAt, JobAt, CanceledAt
    <2>3. PaidAt(r)'
        BY <2>1 DEF Local, PaidAt
    <2> QED
        BY <2>2, <2>3 DEF Local
<1> QED
    BY <1>1, <1>2

LEMMA InitIInv == Init => IInv
BY BrokerConstants DEF Init, IInv, TypeOK, Steps, Preparing, Outcomes, Statuses, Local, RowAt,
       JobAt, PaidAt, CanceledAt, Early, InService, Watching, Late

\* Every step keeps the invariant.
LEMMA NextIInv == IInv /\ [Next]_vars => IInv'
<1> SUFFICES ASSUME IInv, [Next]_vars PROVE IInv'
    OBVIOUS
<1>1. CASE Fence
    BY <1>1, FenceStep
<1>2. ASSUME NEW r \in Requests, Thread(r) PROVE IInv'
    BY <1>2, CheckStep, LicenseStep, ForwardStep, BeginForwardStep, ExecuteStep,
       CheckTargetStep, SpawnStep, CollectStep, TerminateStep, MarkStubbornStep, CleanupStep,
       SettleStep, RecoverStep, CancelRestStep DEF Thread
<1>3. ASSUME NEW r \in Requests, Prepare(r) PROVE IInv'
    BY <1>3, RegisterStep, RefuseStep, ReserveHoldStep DEF Prepare
<1>4. ASSUME NEW r \in Requests,
             \/ Review(r) \/ Claim(r) \/ CancelPrepared(r) \/ RequestStop(r) \/ Status(r)
             \/ WorkerExits(r) \/ ExpireAdmission(r) \/ ExpireHold(r)
      PROVE  IInv'
    BY <1>4, ReviewStep, ClaimStep, CancelPreparedStep, RequestStopStep, StatusStep,
       WorkerExitsStep, ExpireAdmissionStep, ExpireHoldStep
<1>5. CASE UNCHANGED vars
    <2>1. TypeOK'
        BY <1>5 DEF IInv, TypeOK, vars, request, service, budget, control, executor
    <2>2. ASSUME NEW r \in Requests PROVE Local(r)'
        BY <1>5 DEF IInv, Local, RowAt, JobAt, PaidAt, CanceledAt,
                    vars, request, service, budget, control, executor
    <2> QED
        BY <2>1, <2>2 DEF IInv
<1> QED
    BY <1>1, <1>2, <1>3, <1>4, <1>5 DEF Next

LEMMA Invariant == Spec => []IInv
BY InitIInv, NextIInv, PTL DEF Spec
-----------------------------------------------------------------------------
(* What follows from it.                                                   *)

\* Rows, jobs, holds and receipts stay in the states the code names.
THEOREM BrokerTypes == Spec => []TypeOK
<1>1. IInv => TypeOK
    BY DEF IInv
<1> QED
    BY <1>1, Invariant, PTL

\* A stop that was answered "canceled" is final: for any number of requests, and
\* whichever thread it came from and whenever, no worker of the request runs and
\* nothing is delivered.
THEOREM StopsAreFinal == Spec => []CanceledIsFinal
<1>1. IInv => CanceledIsFinal
    <2> SUFFICES ASSUME IInv, NEW r \in Requests, "canceled" \in receipts[r]
                 PROVE  worker[r] # "alive" /\ result[r] # "completed"
        BY DEF CanceledIsFinal
    <2>1. Local(r)
        BY DEF IInv
    <2>2. CASE job[r] = "canceled"
        BY <2>1, <2>2 DEF Local, JobAt, RowAt
    <2>3. CASE state[r] = "canceled" /\ step[r] \in {"ready", "canceling", "done"}
        BY <2>1, <2>3 DEF Local, JobAt, RowAt, Early
    <2> QED
        BY <2>1, <2>2, <2>3 DEF Local, CanceledAt
<1> QED
    BY <1>1, Invariant, PTL

\* Whatever fails on the way, a worker was only started on a committed admission and
\* its hold is charged or kept: no error path refunds what may have run.
THEOREM NoWorkIsRefunded == Spec => []WorkIsPaid
<1>1. IInv => WorkIsPaid
    BY DEF IInv, WorkIsPaid, Local, PaidAt
<1> QED
    BY <1>1, Invariant, PTL

\* When a revocation has returned, no effect of an older admission is under way, apart
\* from jobs known as unable_to_stop.
THEOREM RevocationWaits == Spec => []FencesWait
<1>1. IInv => FencesWait
    BY DEF IInv, FencesWait, Local, PaidAt, JobAt, InService, Watching
<1> QED
    BY <1>1, Invariant, PTL

\* A request that was refused, dispatched or canceled has no pending admission left in
\* the delegation service.
THEOREM SlotsAreReturned == Spec => []NoSlotLeaks
<1>1. IInv => NoSlotLeaks
    BY DEF IInv, NoSlotLeaks, Local, PaidAt
<1> QED
    BY <1>1, Invariant, PTL
-----------------------------------------------------------------------------
(* The tool gateway: its inductive invariant.                              *)

\* A call of prepare at work under the lock, before a ticket is issued.
Working == {"reviewed", "reserved", "refreshed", "prepared"}
Charged == {"forwarding", "committed", "uncertain"}

GatewayTypes ==
    /\ direct \subseteq Agents /\ hosted \subseteq Agents
    /\ call \in [Attempts -> Working \cup {"idle", "entered", "issued", "executing", "over"}]
    /\ owner \in Attempts \cup {None}
    /\ captured \in [Agents -> Attempts \cup {Other, None}]
    /\ decided \in [Attempts -> Attempts \cup {Other, None}]
    /\ base \subseteq Attempts /\ fault \subseteq Attempts
    /\ pending \subseteq Attempts
    /\ active \in [Agents -> Attempts \cup {None}]
    /\ closed \subseteq Agents /\ gap \subseteq Agents
    /\ money \in [Attempts -> Charged \cup {"none", "reserved", "canceled", "expired"}]
    /\ auth \in [Attempts -> {"none", "prepared", "canceled", "done"}]
    /\ ran \in [Attempts -> Attempts \cup {Other, None}]

\* The table of tickets is finite, and within its bound.
TableOK == IsFiniteSet(pending) /\ Cardinality(pending) <= MaxPending

\* Who has the lock, and who is the active attempt of its actor.
TurnAt(k) ==
    /\ call[k] \in Working \cup {"executing"} => owner = k
    /\ call[k] \in Working => active[Who[k]] = None /\ Who[k] \notin closed
    /\ call[k] = "executing" => active[Who[k]] \in {k, None}
    /\ k \in pending => call[k] = "issued" /\ active[Who[k]] = k /\ Who[k] \notin closed

\* What was reserved and given to an executor.
MoneyAt(k) ==
    /\ call[k] \in {"idle", "entered", "reviewed"} => money[k] = "none"
    /\ call[k] \notin {"executing", "over"} => ran[k] = None
    /\ ran[k] # None => ran[k] = k /\ money[k] \in Charged

\* Of a direct actor: its failures show in the gap, its holds are not left behind.
DirectAt(k) == Who[k] \in direct =>
    /\ call[k] # "prepared" /\ (call[k] # "over" => k \notin fault)
    /\ k \in pending \/ call[k] \in {"reserved", "refreshed"} => Who[k] \notin gap
    /\ ran[k] # None /\ k \in fault => Who[k] \in gap
    /\ money[k] = "reserved" /\ k \notin fault => owner = k \/ k \in pending

AttemptAt(k) == TurnAt(k) /\ MoneyAt(k) /\ DirectAt(k)

GatewayInv == GatewayTypes /\ TableOK /\ \A k \in Attempts : AttemptAt(k)

-----------------------------------------------------------------------------
(* The step of one attempt leaves the others alone.                        *)

\* Only the row of k changes.
Apart(k) == \A j \in Attempts \ {k} :
    /\ call'[j] = call[j] /\ money'[j] = money[j] /\ ran'[j] = ran[j]
    /\ j \in fault' <=> j \in fault
    /\ j \in pending' <=> j \in pending

\* The call of k needs no lock, or it is its turn and it touches its own actor.
OwnTurn(k) ==
    /\ closed' = closed /\ direct' = direct
    /\ \/ owner' = owner /\ active' = active /\ gap' = gap
       \/ /\ owner \in {None, k} /\ owner' \in {None, k} /\ active[Who[k]] \in {k, None}
          /\ gap \subseteq gap'
          /\ \A g \in Agents \ {Who[k]} : active'[g] = active[g] /\ (g \in gap' => g \in gap)

\* Finite sets and their sizes mean the same here and in the instance of ToolGateway.
LEMMA SameSizes ==
    \A S : Gateway!Cardinality(S) = Cardinality(S)
<1>1. ASSUME NEW S PROVE Gateway!Cardinality(S) = Cardinality(S)
    BY Zenon DEF Gateway!Cardinality, Cardinality
<1> QED
    BY <1>1

\* What the proofs use of the constants.
LEMMA GatewayNumbers ==
    /\ \A k \in Attempts : Who[k] \in Agents
    /\ MaxPending \in Nat /\ MaxPending >= 1
    /\ None \notin Attempts /\ Other \notin Attempts /\ None # Other
    BY EnforcementConstants DEF Gateway!GatewayConstants

\* Another attempt stays what it was: if k has the lock it is not at work, and if its
\* ticket is in the table it is not of the actor of k.
LEMMA OthersStay ==
    ASSUME GatewayInv, NEW k \in Attempts, NEW j \in Attempts \ {k},
           Apart(k), OwnTurn(k)
    PROVE  AttemptAt(j)'
<1> USE GatewayNumbers
<1>1. AttemptAt(j) /\ GatewayTypes
    BY DEF GatewayInv
<1>2. /\ call'[j] = call[j] /\ money'[j] = money[j] /\ ran'[j] = ran[j]
      /\ j \in fault' <=> j \in fault
      /\ j \in pending' <=> j \in pending
      /\ closed' = closed /\ direct' = direct
    BY DEF Apart, OwnTurn
<1>3. CASE owner' = owner /\ active' = active /\ gap' = gap
    BY <1>1, <1>2, <1>3 DEF AttemptAt, TurnAt, MoneyAt, DirectAt
<1>4. CASE /\ owner \in {None, k} /\ owner' \in {None, k} /\ active[Who[k]] \in {k, None}
           /\ gap \subseteq gap'
           /\ \A g \in Agents \ {Who[k]} : active'[g] = active[g] /\ (g \in gap' => g \in gap)
    <2>1. call[j] \notin Working \cup {"executing"}
        BY <1>1, <1>4 DEF AttemptAt, TurnAt
    <2>2. j \in pending => Who[j] # Who[k]
        BY <1>1, <1>4 DEF AttemptAt, TurnAt
    <2>3. TurnAt(j)'
        BY <1>1, <1>2, <1>4, <2>1, <2>2 DEF AttemptAt, TurnAt
    <2>4. MoneyAt(j)'
        BY <1>1, <1>2 DEF AttemptAt, MoneyAt
    <2>5. DirectAt(j)'
        BY <1>1, <1>2, <1>4, <2>1, <2>2 DEF AttemptAt, DirectAt, Working
    <2> QED
        BY <2>3, <2>4, <2>5 DEF AttemptAt
<1> QED
    BY <1>3, <1>4 DEF OwnTurn

\* The invariant is kept if the row of k is and the others are left alone.
LEMMA OneAttempt ==
    ASSUME GatewayInv, NEW k \in Attempts, GatewayTypes', TableOK', AttemptAt(k)',
           Apart(k), OwnTurn(k)
    PROVE  GatewayInv'
<1>1. \A j \in Attempts \ {k} : AttemptAt(j)'
    BY OthersStay
<1> QED
    BY <1>1 DEF GatewayInv

\* Tickets are taken out of the table, or one is put into it while there is room.
LEMMA TableBound ==
    ASSUME TableOK, pending' \subseteq pending \/ \E k : ~Gateway!Full /\ pending' = pending \cup {k}
    PROVE  TableOK'
<1> USE GatewayNumbers
<1>1. Cardinality(pending) \in Nat
    BY FS_CardinalityType DEF TableOK
<1>2. CASE pending' \subseteq pending
    <2>1. IsFiniteSet(pending') /\ Cardinality(pending') <= Cardinality(pending)
        BY <1>2, FS_Subset DEF TableOK
    <2>2. Cardinality(pending') \in Nat
        BY <2>1, FS_CardinalityType
    <2> QED
        BY <1>1, <2>1, <2>2 DEF TableOK
<1>3. CASE \E k : ~Gateway!Full /\ pending' = pending \cup {k}
    <2>1. PICK k : ~Gateway!Full /\ pending' = pending \cup {k}
        BY <1>3
    <2>2. Cardinality(pending) < MaxPending
        BY <2>1, <1>1, SameSizes DEF Gateway!Full
    <2>3. IsFiniteSet(pending') /\ (Cardinality(pending') = Cardinality(pending)
                                     \/ Cardinality(pending') = Cardinality(pending) + 1)
        BY <2>1, FS_AddElement DEF TableOK
    <2> QED
        BY <1>1, <2>2, <2>3 DEF TableOK
<1> QED
    BY <1>2, <1>3

LEMMA GatewayStarts == Gateway!Init => GatewayInv
<1> USE GatewayNumbers
<1> SUFFICES ASSUME Gateway!Init PROVE GatewayInv
    OBVIOUS
<1>1. GatewayTypes
    BY DEF Gateway!Init, GatewayTypes
<1>2. TableOK
    BY FS_EmptySet DEF Gateway!Init, TableOK
<1>3. ASSUME NEW k \in Attempts PROVE AttemptAt(k)
    BY <1>3 DEF Gateway!Init, AttemptAt, TurnAt, MoneyAt, DirectAt, Working
<1> QED
    BY <1>1, <1>2, <1>3 DEF GatewayInv

\* A call of prepare looks the actor up.
LEMMA EnterKeeps ==
    ASSUME GatewayInv, NEW k \in Attempts, Gateway!Enter(k), UNCHANGED Gateway!binding
    PROVE  GatewayInv'
<1> USE GatewayNumbers
<1>0. GatewayTypes /\ TableOK /\ AttemptAt(k) /\ UNCHANGED <<direct, hosted>>
    BY DEF GatewayInv, Gateway!binding
<1>1. GatewayTypes'
    BY <1>0 DEF GatewayTypes, Working, Charged, Gateway!Enter, Gateway!review, Gateway!actor,
               Gateway!money, Gateway!IsDirect
<1>2. TableOK'
    BY <1>0, TableBound DEF Gateway!Enter, Gateway!review, Gateway!actor, Gateway!money, Gateway!IsDirect
<1>3. Apart(k)
    BY <1>0 DEF GatewayTypes, Apart, Gateway!Enter, Gateway!review, Gateway!actor,
               Gateway!money, Gateway!IsDirect
<1>4. OwnTurn(k)
    BY <1>0 DEF GatewayTypes, OwnTurn, AttemptAt, TurnAt, Working, Gateway!Enter,
               Gateway!review, Gateway!actor, Gateway!money, Gateway!IsDirect
<1>5. TurnAt(k)'
    BY <1>0 DEF GatewayTypes, AttemptAt, TurnAt, Working, Gateway!Enter, Gateway!review,
               Gateway!actor, Gateway!money, Gateway!IsDirect
<1>6. MoneyAt(k)'
    BY <1>0 DEF GatewayTypes, AttemptAt, TurnAt, MoneyAt, Working, Charged, Gateway!Enter,
               Gateway!review, Gateway!actor, Gateway!money, Gateway!IsDirect
<1>7. DirectAt(k)'
    BY <1>0 DEF GatewayTypes, AttemptAt, TurnAt, MoneyAt, DirectAt, Working, Charged,
               Gateway!Enter, Gateway!review, Gateway!actor, Gateway!money, Gateway!IsDirect
<1> QED
    BY <1>1, <1>2, <1>3, <1>4, <1>5, <1>6, <1>7, OneAttempt DEF AttemptAt

\* The actor has an active attempt, or was revoked.
LEMMA RejectKeeps ==
    ASSUME GatewayInv, NEW k \in Attempts, Gateway!Reject(k), UNCHANGED Gateway!binding
    PROVE  GatewayInv'
<1> USE GatewayNumbers
<1>0. GatewayTypes /\ TableOK /\ AttemptAt(k) /\ UNCHANGED <<direct, hosted>>
    BY DEF GatewayInv, Gateway!binding
<1>1. GatewayTypes'
    BY <1>0 DEF GatewayTypes, Working, Charged, Gateway!Reject, Gateway!Leaving, Gateway!Busy,
               Gateway!review, Gateway!actor, Gateway!money, Gateway!IsDirect
<1>2. TableOK'
    BY <1>0, TableBound DEF Gateway!Reject, Gateway!Leaving, Gateway!Busy, Gateway!review, Gateway!actor,
               Gateway!money, Gateway!IsDirect
<1>3. Apart(k)
    BY <1>0 DEF GatewayTypes, Apart, Gateway!Reject, Gateway!Leaving, Gateway!Busy,
               Gateway!review, Gateway!actor, Gateway!money, Gateway!IsDirect
<1>4. OwnTurn(k)
    BY <1>0 DEF GatewayTypes, OwnTurn, AttemptAt, TurnAt, Working, Gateway!Reject,
               Gateway!Leaving, Gateway!Busy, Gateway!review, Gateway!actor, Gateway!money,
               Gateway!IsDirect
<1>5. TurnAt(k)'
    BY <1>0 DEF GatewayTypes, AttemptAt, TurnAt, Working, Gateway!Reject, Gateway!Leaving,
               Gateway!Busy, Gateway!review, Gateway!actor, Gateway!money, Gateway!IsDirect
<1>6. MoneyAt(k)'
    BY <1>0 DEF GatewayTypes, AttemptAt, TurnAt, MoneyAt, Working, Charged, Gateway!Reject,
               Gateway!Leaving, Gateway!Busy, Gateway!review, Gateway!actor, Gateway!money,
               Gateway!IsDirect
<1>7. DirectAt(k)'
    BY <1>0 DEF GatewayTypes, AttemptAt, TurnAt, MoneyAt, DirectAt, Working, Charged,
               Gateway!Reject, Gateway!Leaving, Gateway!Busy, Gateway!review, Gateway!actor,
               Gateway!money, Gateway!IsDirect
<1> QED
    BY <1>1, <1>2, <1>3, <1>4, <1>5, <1>6, <1>7, OneAttempt DEF AttemptAt

\* The session reviews the action.
LEMMA ReviewKeeps ==
    ASSUME GatewayInv, NEW k \in Attempts, Gateway!Review(k), UNCHANGED Gateway!binding
    PROVE  GatewayInv'
<1> USE GatewayNumbers
<1>0. GatewayTypes /\ TableOK /\ AttemptAt(k) /\ UNCHANGED <<direct, hosted>>
    BY DEF GatewayInv, Gateway!binding
<1>1. GatewayTypes'
    BY <1>0 DEF GatewayTypes, Working, Charged, Gateway!Review, Gateway!Holding, Gateway!Busy,
               Gateway!review, Gateway!actor, Gateway!money, Gateway!IsDirect
<1>2. TableOK'
    BY <1>0, TableBound DEF Gateway!Review, Gateway!Holding, Gateway!Busy, Gateway!review, Gateway!actor,
               Gateway!money, Gateway!IsDirect
<1>3. Apart(k)
    BY <1>0 DEF GatewayTypes, Apart, Gateway!Review, Gateway!Holding, Gateway!Busy,
               Gateway!review, Gateway!actor, Gateway!money, Gateway!IsDirect
<1>4. OwnTurn(k)
    BY <1>0 DEF GatewayTypes, OwnTurn, AttemptAt, TurnAt, Working, Gateway!Review,
               Gateway!Holding, Gateway!Busy, Gateway!review, Gateway!actor, Gateway!money,
               Gateway!IsDirect
<1>5. TurnAt(k)'
    BY <1>0 DEF GatewayTypes, AttemptAt, TurnAt, Working, Gateway!Review, Gateway!Holding,
               Gateway!Busy, Gateway!review, Gateway!actor, Gateway!money, Gateway!IsDirect
<1>6. MoneyAt(k)'
    BY <1>0 DEF GatewayTypes, AttemptAt, TurnAt, MoneyAt, Working, Charged, Gateway!Review,
               Gateway!Holding, Gateway!Busy, Gateway!review, Gateway!actor, Gateway!money,
               Gateway!IsDirect
<1>7. DirectAt(k)'
    BY <1>0 DEF GatewayTypes, AttemptAt, TurnAt, MoneyAt, DirectAt, Working, Charged,
               Gateway!Review, Gateway!Holding, Gateway!Busy, Gateway!review, Gateway!actor,
               Gateway!money, Gateway!IsDirect
<1> QED
    BY <1>1, <1>2, <1>3, <1>4, <1>5, <1>6, <1>7, OneAttempt DEF AttemptAt

\* The review does not let the action through.
LEMMA DenyKeeps ==
    ASSUME GatewayInv, NEW k \in Attempts, Gateway!Deny(k), UNCHANGED Gateway!binding
    PROVE  GatewayInv'
<1> USE GatewayNumbers
<1>0. GatewayTypes /\ TableOK /\ AttemptAt(k) /\ UNCHANGED <<direct, hosted>>
    BY DEF GatewayInv, Gateway!binding
<1>1. GatewayTypes'
    BY <1>0 DEF GatewayTypes, Working, Charged, Gateway!Deny, Gateway!Leaving, Gateway!Journal,
               Gateway!review, Gateway!actor, Gateway!money, Gateway!IsDirect
<1>2. TableOK'
    BY <1>0, TableBound DEF Gateway!Deny, Gateway!Leaving, Gateway!Journal, Gateway!review, Gateway!actor,
               Gateway!money, Gateway!IsDirect
<1>3. Apart(k)
    BY <1>0 DEF GatewayTypes, Apart, Gateway!Deny, Gateway!Leaving, Gateway!Journal,
               Gateway!review, Gateway!actor, Gateway!money, Gateway!IsDirect
<1>4. OwnTurn(k)
    BY <1>0 DEF GatewayTypes, OwnTurn, AttemptAt, TurnAt, Working, Gateway!Deny,
               Gateway!Leaving, Gateway!Journal, Gateway!review, Gateway!actor, Gateway!money,
               Gateway!IsDirect
<1>5. TurnAt(k)'
    BY <1>0 DEF GatewayTypes, AttemptAt, TurnAt, Working, Gateway!Deny, Gateway!Leaving,
               Gateway!Journal, Gateway!review, Gateway!actor, Gateway!money, Gateway!IsDirect
<1>6. MoneyAt(k)'
    BY <1>0 DEF GatewayTypes, AttemptAt, TurnAt, MoneyAt, Working, Charged, Gateway!Deny,
               Gateway!Leaving, Gateway!Journal, Gateway!review, Gateway!actor, Gateway!money,
               Gateway!IsDirect
<1>7. DirectAt(k)'
    BY <1>0 DEF GatewayTypes, AttemptAt, TurnAt, MoneyAt, DirectAt, Working, Charged,
               Gateway!Deny, Gateway!Leaving, Gateway!Journal, Gateway!review, Gateway!actor,
               Gateway!money, Gateway!IsDirect
<1> QED
    BY <1>1, <1>2, <1>3, <1>4, <1>5, <1>6, <1>7, OneAttempt DEF AttemptAt

\* The ledger reserves, or fails.
LEMMA ReserveKeeps ==
    ASSUME GatewayInv, NEW k \in Attempts, Gateway!Reserve(k), UNCHANGED Gateway!binding
    PROVE  GatewayInv'
<1> USE GatewayNumbers
<1>0. GatewayTypes /\ TableOK /\ AttemptAt(k) /\ UNCHANGED <<direct, hosted>>
    BY DEF GatewayInv, Gateway!binding
<1>1. GatewayTypes'
    BY <1>0 DEF GatewayTypes, Working, Charged, Gateway!Reserve, Gateway!Holding,
               Gateway!Leaving, Gateway!Journal, Gateway!Mediated, Gateway!Succeeds, Gateway!Fails,
               Gateway!review, Gateway!actor, Gateway!money, Gateway!IsDirect
<1>2. TableOK'
    BY <1>0, TableBound DEF Gateway!Reserve, Gateway!Holding, Gateway!Leaving, Gateway!Journal,
               Gateway!Mediated, Gateway!Succeeds, Gateway!Fails, Gateway!review,
               Gateway!actor, Gateway!money, Gateway!IsDirect
<1>3. Apart(k)
    BY <1>0 DEF GatewayTypes, Apart, Gateway!Reserve, Gateway!Holding, Gateway!Leaving,
               Gateway!Journal, Gateway!Mediated, Gateway!Succeeds, Gateway!Fails, Gateway!review,
               Gateway!actor, Gateway!money, Gateway!IsDirect
<1>4. OwnTurn(k)
    BY <1>0 DEF GatewayTypes, OwnTurn, AttemptAt, TurnAt, Working, Gateway!Reserve,
               Gateway!Holding, Gateway!Leaving, Gateway!Journal, Gateway!Mediated,
               Gateway!Succeeds, Gateway!Fails, Gateway!review, Gateway!actor, Gateway!money, Gateway!IsDirect
<1>5. TurnAt(k)'
    BY <1>0 DEF GatewayTypes, AttemptAt, TurnAt, Working, Gateway!Reserve, Gateway!Holding,
               Gateway!Leaving, Gateway!Journal, Gateway!Mediated, Gateway!Succeeds, Gateway!Fails,
               Gateway!review, Gateway!actor, Gateway!money, Gateway!IsDirect
<1>6. MoneyAt(k)'
    BY <1>0 DEF GatewayTypes, AttemptAt, TurnAt, MoneyAt, Working, Charged, Gateway!Reserve,
               Gateway!Holding, Gateway!Leaving, Gateway!Journal, Gateway!Mediated,
               Gateway!Succeeds, Gateway!Fails, Gateway!review, Gateway!actor, Gateway!money, Gateway!IsDirect
<1>7. DirectAt(k)'
    BY <1>0 DEF GatewayTypes, AttemptAt, TurnAt, MoneyAt, DirectAt, Working, Charged,
               Gateway!Reserve, Gateway!Holding, Gateway!Leaving, Gateway!Journal, Gateway!Mediated,
               Gateway!Succeeds, Gateway!Fails, Gateway!review, Gateway!actor, Gateway!money,
               Gateway!IsDirect
<1> QED
    BY <1>1, <1>2, <1>3, <1>4, <1>5, <1>6, <1>7, OneAttempt DEF AttemptAt

\* The policy runtime decides again.
LEMMA RefreshKeeps ==
    ASSUME GatewayInv, NEW k \in Attempts, Gateway!Refresh(k), UNCHANGED Gateway!binding
    PROVE  GatewayInv'
<1> USE GatewayNumbers
<1>0. GatewayTypes /\ TableOK /\ AttemptAt(k) /\ UNCHANGED <<direct, hosted>>
    BY DEF GatewayInv, Gateway!binding
<1>1. GatewayTypes'
    BY <1>0 DEF GatewayTypes, Working, Charged, Gateway!Refresh, Gateway!Holding,
               Gateway!review, Gateway!actor, Gateway!money, Gateway!IsDirect
<1>2. TableOK'
    BY <1>0, TableBound DEF Gateway!Refresh, Gateway!Holding, Gateway!review, Gateway!actor, Gateway!money,
               Gateway!IsDirect
<1>3. Apart(k)
    BY <1>0 DEF GatewayTypes, Apart, Gateway!Refresh, Gateway!Holding, Gateway!review,
               Gateway!actor, Gateway!money, Gateway!IsDirect
<1>4. OwnTurn(k)
    BY <1>0 DEF GatewayTypes, OwnTurn, AttemptAt, TurnAt, Working, Gateway!Refresh,
               Gateway!Holding, Gateway!review, Gateway!actor, Gateway!money, Gateway!IsDirect
<1>5. TurnAt(k)'
    BY <1>0 DEF GatewayTypes, AttemptAt, TurnAt, Working, Gateway!Refresh, Gateway!Holding,
               Gateway!review, Gateway!actor, Gateway!money, Gateway!IsDirect
<1>6. MoneyAt(k)'
    BY <1>0 DEF GatewayTypes, AttemptAt, TurnAt, MoneyAt, Working, Charged, Gateway!Refresh,
               Gateway!Holding, Gateway!review, Gateway!actor, Gateway!money, Gateway!IsDirect
<1>7. DirectAt(k)'
    BY <1>0 DEF GatewayTypes, AttemptAt, TurnAt, MoneyAt, DirectAt, Working, Charged,
               Gateway!Refresh, Gateway!Holding, Gateway!review, Gateway!actor, Gateway!money,
               Gateway!IsDirect
<1> QED
    BY <1>1, <1>2, <1>3, <1>4, <1>5, <1>6, <1>7, OneAttempt DEF AttemptAt

\* It restricts the action, whose hold is released.
LEMMA RestrictKeeps ==
    ASSUME GatewayInv, NEW k \in Attempts, Gateway!Restrict(k), UNCHANGED Gateway!binding
    PROVE  GatewayInv'
<1> USE GatewayNumbers
<1>0. GatewayTypes /\ TableOK /\ AttemptAt(k) /\ UNCHANGED <<direct, hosted>>
    BY DEF GatewayInv, Gateway!binding
<1>1. GatewayTypes'
    BY <1>0 DEF GatewayTypes, Working, Charged, Gateway!Restrict, Gateway!Leaving,
               Gateway!Released, Gateway!NotReleased, Gateway!Journal, Gateway!Succeeds,
               Gateway!Fails, Gateway!review, Gateway!actor, Gateway!money, Gateway!IsDirect
<1>2. TableOK'
    BY <1>0, TableBound DEF Gateway!Restrict, Gateway!Leaving, Gateway!Released, Gateway!NotReleased,
               Gateway!Journal, Gateway!Succeeds, Gateway!Fails, Gateway!review, Gateway!actor,
               Gateway!money, Gateway!IsDirect
<1>3. Apart(k)
    BY <1>0 DEF GatewayTypes, Apart, Gateway!Restrict, Gateway!Leaving, Gateway!Released,
               Gateway!NotReleased, Gateway!Journal, Gateway!Succeeds, Gateway!Fails,
               Gateway!review, Gateway!actor, Gateway!money, Gateway!IsDirect
<1>4. OwnTurn(k)
    BY <1>0 DEF GatewayTypes, OwnTurn, AttemptAt, TurnAt, Working, Gateway!Restrict,
               Gateway!Leaving, Gateway!Released, Gateway!NotReleased, Gateway!Journal,
               Gateway!Succeeds, Gateway!Fails, Gateway!review, Gateway!actor, Gateway!money,
               Gateway!IsDirect
<1>5. TurnAt(k)'
    BY <1>0 DEF GatewayTypes, AttemptAt, TurnAt, Working, Gateway!Restrict, Gateway!Leaving,
               Gateway!Released, Gateway!NotReleased, Gateway!Journal, Gateway!Succeeds,
               Gateway!Fails, Gateway!review, Gateway!actor, Gateway!money, Gateway!IsDirect
<1>6. MoneyAt(k)'
    BY <1>0 DEF GatewayTypes, AttemptAt, TurnAt, MoneyAt, Working, Charged, Gateway!Restrict,
               Gateway!Leaving, Gateway!Released, Gateway!NotReleased, Gateway!Journal,
               Gateway!Succeeds, Gateway!Fails, Gateway!review, Gateway!actor, Gateway!money,
               Gateway!IsDirect
<1>7. DirectAt(k)'
    BY <1>0 DEF GatewayTypes, AttemptAt, TurnAt, MoneyAt, DirectAt, Working, Charged,
               Gateway!Restrict, Gateway!Leaving, Gateway!Released, Gateway!NotReleased,
               Gateway!Journal, Gateway!Succeeds, Gateway!Fails, Gateway!review, Gateway!actor,
               Gateway!money, Gateway!IsDirect
<1> QED
    BY <1>1, <1>2, <1>3, <1>4, <1>5, <1>6, <1>7, OneAttempt DEF AttemptAt

\* The table is full, or the clock moved backward.
LEMMA RefuseKeeps ==
    ASSUME GatewayInv, NEW k \in Attempts, Gateway!Refuse(k), UNCHANGED Gateway!binding
    PROVE  GatewayInv'
<1> USE GatewayNumbers
<1>0. GatewayTypes /\ TableOK /\ AttemptAt(k) /\ UNCHANGED <<direct, hosted>>
    BY DEF GatewayInv, Gateway!binding
<1>1. GatewayTypes'
    BY <1>0 DEF GatewayTypes, Working, Charged, Gateway!Refuse, Gateway!Leaving, Gateway!Ready,
               Gateway!Released, Gateway!NotReleased, Gateway!Succeeds, Gateway!Fails,
               Gateway!review, Gateway!actor, Gateway!money, Gateway!IsDirect
<1>2. TableOK'
    BY <1>0, TableBound DEF Gateway!Refuse, Gateway!Leaving, Gateway!Ready, Gateway!Released,
               Gateway!NotReleased, Gateway!Succeeds, Gateway!Fails, Gateway!review,
               Gateway!actor, Gateway!money, Gateway!IsDirect
<1>3. Apart(k)
    BY <1>0 DEF GatewayTypes, Apart, Gateway!Refuse, Gateway!Leaving, Gateway!Ready,
               Gateway!Released, Gateway!NotReleased, Gateway!Succeeds, Gateway!Fails,
               Gateway!review, Gateway!actor, Gateway!money, Gateway!IsDirect
<1>4. OwnTurn(k)
    BY <1>0 DEF GatewayTypes, OwnTurn, AttemptAt, TurnAt, Working, Gateway!Refuse,
               Gateway!Leaving, Gateway!Ready, Gateway!Released, Gateway!NotReleased,
               Gateway!Succeeds, Gateway!Fails, Gateway!review, Gateway!actor, Gateway!money,
               Gateway!IsDirect
<1>5. TurnAt(k)'
    BY <1>0 DEF GatewayTypes, AttemptAt, TurnAt, Working, Gateway!Refuse, Gateway!Leaving,
               Gateway!Ready, Gateway!Released, Gateway!NotReleased, Gateway!Succeeds,
               Gateway!Fails, Gateway!review, Gateway!actor, Gateway!money, Gateway!IsDirect
<1>6. MoneyAt(k)'
    BY <1>0 DEF GatewayTypes, AttemptAt, TurnAt, MoneyAt, Working, Charged, Gateway!Refuse,
               Gateway!Leaving, Gateway!Ready, Gateway!Released, Gateway!NotReleased,
               Gateway!Succeeds, Gateway!Fails, Gateway!review, Gateway!actor, Gateway!money,
               Gateway!IsDirect
<1>7. DirectAt(k)'
    BY <1>0 DEF GatewayTypes, AttemptAt, TurnAt, MoneyAt, DirectAt, Working, Charged,
               Gateway!Refuse, Gateway!Leaving, Gateway!Ready, Gateway!Released,
               Gateway!NotReleased, Gateway!Succeeds, Gateway!Fails, Gateway!review,
               Gateway!actor, Gateway!money, Gateway!IsDirect
<1> QED
    BY <1>1, <1>2, <1>3, <1>4, <1>5, <1>6, <1>7, OneAttempt DEF AttemptAt

\* A ticket is put into the table.
LEMMA IssueKeeps ==
    ASSUME GatewayInv, NEW k \in Attempts, Gateway!Issue(k), UNCHANGED Gateway!binding
    PROVE  GatewayInv'
<1> USE GatewayNumbers
<1>0. GatewayTypes /\ TableOK /\ AttemptAt(k) /\ UNCHANGED <<direct, hosted>>
    BY DEF GatewayInv, Gateway!binding
<1>1. GatewayTypes'
    BY <1>0 DEF GatewayTypes, Working, Charged, Gateway!Issue, Gateway!Leaving, Gateway!Ready,
               Gateway!review, Gateway!actor, Gateway!money, Gateway!IsDirect
<1>2. TableOK'
    BY <1>0, TableBound DEF Gateway!Issue, Gateway!Leaving, Gateway!Ready, Gateway!review, Gateway!actor,
               Gateway!money, Gateway!IsDirect
<1>3. Apart(k)
    BY <1>0 DEF GatewayTypes, Apart, Gateway!Issue, Gateway!Leaving, Gateway!Ready,
               Gateway!review, Gateway!actor, Gateway!money, Gateway!IsDirect
<1>4. OwnTurn(k)
    BY <1>0 DEF GatewayTypes, OwnTurn, AttemptAt, TurnAt, Working, Gateway!Issue,
               Gateway!Leaving, Gateway!Ready, Gateway!review, Gateway!actor, Gateway!money,
               Gateway!IsDirect
<1>5. TurnAt(k)'
    BY <1>0 DEF GatewayTypes, AttemptAt, TurnAt, Working, Gateway!Issue, Gateway!Leaving,
               Gateway!Ready, Gateway!review, Gateway!actor, Gateway!money, Gateway!IsDirect
<1>6. MoneyAt(k)'
    BY <1>0 DEF GatewayTypes, AttemptAt, TurnAt, MoneyAt, Working, Charged, Gateway!Issue,
               Gateway!Leaving, Gateway!Ready, Gateway!review, Gateway!actor, Gateway!money,
               Gateway!IsDirect
<1>7. DirectAt(k)'
    BY <1>0 DEF GatewayTypes, AttemptAt, TurnAt, MoneyAt, DirectAt, Working, Charged,
               Gateway!Issue, Gateway!Leaving, Gateway!Ready, Gateway!review, Gateway!actor,
               Gateway!money, Gateway!IsDirect
<1> QED
    BY <1>1, <1>2, <1>3, <1>4, <1>5, <1>6, <1>7, OneAttempt DEF AttemptAt

\* The broker refuses.
LEMMA BrokerRefusesKeeps ==
    ASSUME GatewayInv, NEW k \in Attempts, Gateway!BrokerRefuses(k), UNCHANGED Gateway!binding
    PROVE  GatewayInv'
<1> USE GatewayNumbers
<1>0. GatewayTypes /\ TableOK /\ AttemptAt(k) /\ UNCHANGED <<direct, hosted>>
    BY DEF GatewayInv, Gateway!binding
<1>1. GatewayTypes'
    BY <1>0 DEF GatewayTypes, Working, Charged, Gateway!BrokerRefuses, Gateway!Leaving,
               Gateway!Busy, Gateway!review, Gateway!actor, Gateway!money, Gateway!IsDirect
<1>2. TableOK'
    BY <1>0, TableBound DEF Gateway!BrokerRefuses, Gateway!Leaving, Gateway!Busy, Gateway!review,
               Gateway!actor, Gateway!money, Gateway!IsDirect
<1>3. Apart(k)
    BY <1>0 DEF GatewayTypes, Apart, Gateway!BrokerRefuses, Gateway!Leaving, Gateway!Busy,
               Gateway!review, Gateway!actor, Gateway!money, Gateway!IsDirect
<1>4. OwnTurn(k)
    BY <1>0 DEF GatewayTypes, OwnTurn, AttemptAt, TurnAt, Working, Gateway!BrokerRefuses,
               Gateway!Leaving, Gateway!Busy, Gateway!review, Gateway!actor, Gateway!money,
               Gateway!IsDirect
<1>5. TurnAt(k)'
    BY <1>0 DEF GatewayTypes, AttemptAt, TurnAt, Working, Gateway!BrokerRefuses,
               Gateway!Leaving, Gateway!Busy, Gateway!review, Gateway!actor, Gateway!money,
               Gateway!IsDirect
<1>6. MoneyAt(k)'
    BY <1>0 DEF GatewayTypes, AttemptAt, TurnAt, MoneyAt, Working, Charged,
               Gateway!BrokerRefuses, Gateway!Leaving, Gateway!Busy, Gateway!review,
               Gateway!actor, Gateway!money, Gateway!IsDirect
<1>7. DirectAt(k)'
    BY <1>0 DEF GatewayTypes, AttemptAt, TurnAt, MoneyAt, DirectAt, Working, Charged,
               Gateway!BrokerRefuses, Gateway!Leaving, Gateway!Busy, Gateway!review,
               Gateway!actor, Gateway!money, Gateway!IsDirect
<1> QED
    BY <1>1, <1>2, <1>3, <1>4, <1>5, <1>6, <1>7, OneAttempt DEF AttemptAt

\* The broker authorizes the action.
LEMMA PrepareBrokerKeeps ==
    ASSUME GatewayInv, NEW k \in Attempts, Gateway!PrepareBroker(k), UNCHANGED Gateway!binding
    PROVE  GatewayInv'
<1> USE GatewayNumbers
<1>0. GatewayTypes /\ TableOK /\ AttemptAt(k) /\ UNCHANGED <<direct, hosted>>
    BY DEF GatewayInv, Gateway!binding
<1>1. GatewayTypes'
    BY <1>0 DEF GatewayTypes, Working, Charged, Gateway!PrepareBroker, Gateway!Holding,
               Gateway!Busy, Gateway!review, Gateway!actor, Gateway!money, Gateway!IsDirect
<1>2. TableOK'
    BY <1>0, TableBound DEF Gateway!PrepareBroker, Gateway!Holding, Gateway!Busy, Gateway!review,
               Gateway!actor, Gateway!money, Gateway!IsDirect
<1>3. Apart(k)
    BY <1>0 DEF GatewayTypes, Apart, Gateway!PrepareBroker, Gateway!Holding, Gateway!Busy,
               Gateway!review, Gateway!actor, Gateway!money, Gateway!IsDirect
<1>4. OwnTurn(k)
    BY <1>0 DEF GatewayTypes, OwnTurn, AttemptAt, TurnAt, Working, Gateway!PrepareBroker,
               Gateway!Holding, Gateway!Busy, Gateway!review, Gateway!actor, Gateway!money,
               Gateway!IsDirect
<1>5. TurnAt(k)'
    BY <1>0 DEF GatewayTypes, AttemptAt, TurnAt, Working, Gateway!PrepareBroker,
               Gateway!Holding, Gateway!Busy, Gateway!review, Gateway!actor, Gateway!money,
               Gateway!IsDirect
<1>6. MoneyAt(k)'
    BY <1>0 DEF GatewayTypes, AttemptAt, TurnAt, MoneyAt, Working, Charged,
               Gateway!PrepareBroker, Gateway!Holding, Gateway!Busy, Gateway!review,
               Gateway!actor, Gateway!money, Gateway!IsDirect
<1>7. DirectAt(k)'
    BY <1>0 DEF GatewayTypes, AttemptAt, TurnAt, MoneyAt, DirectAt, Working, Charged,
               Gateway!PrepareBroker, Gateway!Holding, Gateway!Busy, Gateway!review,
               Gateway!actor, Gateway!money, Gateway!IsDirect
<1> QED
    BY <1>1, <1>2, <1>3, <1>4, <1>5, <1>6, <1>7, OneAttempt DEF AttemptAt

\* The authorization is canceled, or abandoned.
LEMMA RefuseBrokerKeeps ==
    ASSUME GatewayInv, NEW k \in Attempts, Gateway!RefuseBroker(k), UNCHANGED Gateway!binding
    PROVE  GatewayInv'
<1> USE GatewayNumbers
<1>0. GatewayTypes /\ TableOK /\ AttemptAt(k) /\ UNCHANGED <<direct, hosted>>
    BY DEF GatewayInv, Gateway!binding
<1>1. GatewayTypes'
    BY <1>0 DEF GatewayTypes, Working, Charged, Gateway!RefuseBroker, Gateway!Leaving,
               Gateway!CancelAuthorization, Gateway!Released, Gateway!NotReleased,
               Gateway!Succeeds, Gateway!Fails, Gateway!review, Gateway!actor, Gateway!money,
               Gateway!IsDirect
<1>2. TableOK'
    BY <1>0, TableBound DEF Gateway!RefuseBroker, Gateway!Leaving, Gateway!CancelAuthorization,
               Gateway!Released, Gateway!NotReleased, Gateway!Succeeds, Gateway!Fails,
               Gateway!review, Gateway!actor, Gateway!money, Gateway!IsDirect
<1>3. Apart(k)
    BY <1>0 DEF GatewayTypes, Apart, Gateway!RefuseBroker, Gateway!Leaving,
               Gateway!CancelAuthorization, Gateway!Released, Gateway!NotReleased,
               Gateway!Succeeds, Gateway!Fails, Gateway!review, Gateway!actor, Gateway!money,
               Gateway!IsDirect
<1>4. OwnTurn(k)
    BY <1>0 DEF GatewayTypes, OwnTurn, AttemptAt, TurnAt, Working, Gateway!RefuseBroker,
               Gateway!Leaving, Gateway!CancelAuthorization, Gateway!Released,
               Gateway!NotReleased, Gateway!Succeeds, Gateway!Fails, Gateway!review,
               Gateway!actor, Gateway!money, Gateway!IsDirect
<1>5. TurnAt(k)'
    BY <1>0 DEF GatewayTypes, AttemptAt, TurnAt, Working, Gateway!RefuseBroker, Gateway!Leaving,
               Gateway!CancelAuthorization, Gateway!Released, Gateway!NotReleased,
               Gateway!Succeeds, Gateway!Fails, Gateway!review, Gateway!actor, Gateway!money,
               Gateway!IsDirect
<1>6. MoneyAt(k)'
    BY <1>0 DEF GatewayTypes, AttemptAt, TurnAt, MoneyAt, Working, Charged,
               Gateway!RefuseBroker, Gateway!Leaving, Gateway!CancelAuthorization,
               Gateway!Released, Gateway!NotReleased, Gateway!Succeeds, Gateway!Fails,
               Gateway!review, Gateway!actor, Gateway!money, Gateway!IsDirect
<1>7. DirectAt(k)'
    BY <1>0 DEF GatewayTypes, AttemptAt, TurnAt, MoneyAt, DirectAt, Working, Charged,
               Gateway!RefuseBroker, Gateway!Leaving, Gateway!CancelAuthorization,
               Gateway!Released, Gateway!NotReleased, Gateway!Succeeds, Gateway!Fails,
               Gateway!review, Gateway!actor, Gateway!money, Gateway!IsDirect
<1> QED
    BY <1>1, <1>2, <1>3, <1>4, <1>5, <1>6, <1>7, OneAttempt DEF AttemptAt

\* A ticket for the authorization is put into the table.
LEMMA IssueBrokerKeeps ==
    ASSUME GatewayInv, NEW k \in Attempts, Gateway!IssueBroker(k), UNCHANGED Gateway!binding
    PROVE  GatewayInv'
<1> USE GatewayNumbers
<1>0. GatewayTypes /\ TableOK /\ AttemptAt(k) /\ UNCHANGED <<direct, hosted>>
    BY DEF GatewayInv, Gateway!binding
<1>1. GatewayTypes'
    BY <1>0 DEF GatewayTypes, Working, Charged, Gateway!IssueBroker, Gateway!Leaving,
               Gateway!review, Gateway!actor, Gateway!money, Gateway!IsDirect
<1>2. TableOK'
    BY <1>0, TableBound DEF Gateway!IssueBroker, Gateway!Leaving, Gateway!review, Gateway!actor,
               Gateway!money, Gateway!IsDirect
<1>3. Apart(k)
    BY <1>0 DEF GatewayTypes, Apart, Gateway!IssueBroker, Gateway!Leaving, Gateway!review,
               Gateway!actor, Gateway!money, Gateway!IsDirect
<1>4. OwnTurn(k)
    BY <1>0 DEF GatewayTypes, OwnTurn, AttemptAt, TurnAt, Working, Gateway!IssueBroker,
               Gateway!Leaving, Gateway!review, Gateway!actor, Gateway!money, Gateway!IsDirect
<1>5. TurnAt(k)'
    BY <1>0 DEF GatewayTypes, AttemptAt, TurnAt, Working, Gateway!IssueBroker, Gateway!Leaving,
               Gateway!review, Gateway!actor, Gateway!money, Gateway!IsDirect
<1>6. MoneyAt(k)'
    BY <1>0 DEF GatewayTypes, AttemptAt, TurnAt, MoneyAt, Working, Charged, Gateway!IssueBroker,
               Gateway!Leaving, Gateway!review, Gateway!actor, Gateway!money, Gateway!IsDirect
<1>7. DirectAt(k)'
    BY <1>0 DEF GatewayTypes, AttemptAt, TurnAt, MoneyAt, DirectAt, Working, Charged,
               Gateway!IssueBroker, Gateway!Leaving, Gateway!review, Gateway!actor,
               Gateway!money, Gateway!IsDirect
<1> QED
    BY <1>1, <1>2, <1>3, <1>4, <1>5, <1>6, <1>7, OneAttempt DEF AttemptAt

\* A stale ticket is consumed.
LEMMA ForwardStaleKeeps ==
    ASSUME GatewayInv, NEW k \in Attempts, Gateway!ForwardStale(k), UNCHANGED Gateway!binding
    PROVE  GatewayInv'
<1> USE GatewayNumbers
<1>0. GatewayTypes /\ TableOK /\ AttemptAt(k) /\ UNCHANGED <<direct, hosted>>
    BY DEF GatewayInv, Gateway!binding
<1>1. GatewayTypes'
    BY <1>0 DEF GatewayTypes, Working, Charged, Gateway!ForwardStale, Gateway!Leaving,
               Gateway!Consume, Gateway!Released, Gateway!NotReleased, Gateway!Succeeds,
               Gateway!Fails, Gateway!review, Gateway!actor, Gateway!money, Gateway!IsDirect
<1>2. TableOK'
    BY <1>0, TableBound DEF Gateway!ForwardStale, Gateway!Leaving, Gateway!Consume, Gateway!Released,
               Gateway!NotReleased, Gateway!Succeeds, Gateway!Fails, Gateway!review,
               Gateway!actor, Gateway!money, Gateway!IsDirect
<1>3. Apart(k)
    BY <1>0 DEF GatewayTypes, Apart, Gateway!ForwardStale, Gateway!Leaving, Gateway!Consume,
               Gateway!Released, Gateway!NotReleased, Gateway!Succeeds, Gateway!Fails,
               Gateway!review, Gateway!actor, Gateway!money, Gateway!IsDirect
<1>4. OwnTurn(k)
    BY <1>0 DEF GatewayTypes, OwnTurn, AttemptAt, TurnAt, Working, Gateway!ForwardStale,
               Gateway!Leaving, Gateway!Consume, Gateway!Released, Gateway!NotReleased,
               Gateway!Succeeds, Gateway!Fails, Gateway!review, Gateway!actor, Gateway!money,
               Gateway!IsDirect
<1>5. TurnAt(k)'
    BY <1>0 DEF GatewayTypes, AttemptAt, TurnAt, Working, Gateway!ForwardStale, Gateway!Leaving,
               Gateway!Consume, Gateway!Released, Gateway!NotReleased, Gateway!Succeeds,
               Gateway!Fails, Gateway!review, Gateway!actor, Gateway!money, Gateway!IsDirect
<1>6. MoneyAt(k)'
    BY <1>0 DEF GatewayTypes, AttemptAt, TurnAt, MoneyAt, Working, Charged,
               Gateway!ForwardStale, Gateway!Leaving, Gateway!Consume, Gateway!Released,
               Gateway!NotReleased, Gateway!Succeeds, Gateway!Fails, Gateway!review,
               Gateway!actor, Gateway!money, Gateway!IsDirect
<1>7. DirectAt(k)'
    BY <1>0 DEF GatewayTypes, AttemptAt, TurnAt, MoneyAt, DirectAt, Working, Charged,
               Gateway!ForwardStale, Gateway!Leaving, Gateway!Consume, Gateway!Released,
               Gateway!NotReleased, Gateway!Succeeds, Gateway!Fails, Gateway!review,
               Gateway!actor, Gateway!money, Gateway!IsDirect
<1> QED
    BY <1>1, <1>2, <1>3, <1>4, <1>5, <1>6, <1>7, OneAttempt DEF AttemptAt

\* The acknowledgement of begin_forward is lost.
LEMMA ForwardLostKeeps ==
    ASSUME GatewayInv, NEW k \in Attempts, Gateway!ForwardLost(k), UNCHANGED Gateway!binding
    PROVE  GatewayInv'
<1> USE GatewayNumbers
<1>0. GatewayTypes /\ TableOK /\ AttemptAt(k) /\ UNCHANGED <<direct, hosted>>
    BY DEF GatewayInv, Gateway!binding
<1>1. GatewayTypes'
    BY <1>0 DEF GatewayTypes, Working, Charged, Gateway!ForwardLost, Gateway!Leaving,
               Gateway!Consume, Gateway!review, Gateway!actor, Gateway!money, Gateway!IsDirect
<1>2. TableOK'
    BY <1>0, TableBound DEF Gateway!ForwardLost, Gateway!Leaving, Gateway!Consume, Gateway!review,
               Gateway!actor, Gateway!money, Gateway!IsDirect
<1>3. Apart(k)
    BY <1>0 DEF GatewayTypes, Apart, Gateway!ForwardLost, Gateway!Leaving, Gateway!Consume,
               Gateway!review, Gateway!actor, Gateway!money, Gateway!IsDirect
<1>4. OwnTurn(k)
    BY <1>0 DEF GatewayTypes, OwnTurn, AttemptAt, TurnAt, Working, Gateway!ForwardLost,
               Gateway!Leaving, Gateway!Consume, Gateway!review, Gateway!actor, Gateway!money,
               Gateway!IsDirect
<1>5. TurnAt(k)'
    BY <1>0 DEF GatewayTypes, AttemptAt, TurnAt, Working, Gateway!ForwardLost, Gateway!Leaving,
               Gateway!Consume, Gateway!review, Gateway!actor, Gateway!money, Gateway!IsDirect
<1>6. MoneyAt(k)'
    BY <1>0 DEF GatewayTypes, AttemptAt, TurnAt, MoneyAt, Working, Charged, Gateway!ForwardLost,
               Gateway!Leaving, Gateway!Consume, Gateway!review, Gateway!actor, Gateway!money,
               Gateway!IsDirect
<1>7. DirectAt(k)'
    BY <1>0 DEF GatewayTypes, AttemptAt, TurnAt, MoneyAt, DirectAt, Working, Charged,
               Gateway!ForwardLost, Gateway!Leaving, Gateway!Consume, Gateway!review,
               Gateway!actor, Gateway!money, Gateway!IsDirect
<1> QED
    BY <1>1, <1>2, <1>3, <1>4, <1>5, <1>6, <1>7, OneAttempt DEF AttemptAt

\* The executor has returned.
LEMMA SettleKeeps ==
    ASSUME GatewayInv, NEW k \in Attempts, Gateway!Settle(k), UNCHANGED Gateway!binding
    PROVE  GatewayInv'
<1> USE GatewayNumbers
<1>0. GatewayTypes /\ TableOK /\ AttemptAt(k) /\ UNCHANGED <<direct, hosted>>
    BY DEF GatewayInv, Gateway!binding
<1>1. GatewayTypes'
    BY <1>0 DEF GatewayTypes, Working, Charged, Gateway!Settle, Gateway!Leaving,
               Gateway!Journal, Gateway!Succeeds, Gateway!Fails, Gateway!review, Gateway!actor,
               Gateway!money, Gateway!IsDirect
<1>2. TableOK'
    BY <1>0, TableBound DEF Gateway!Settle, Gateway!Leaving, Gateway!Journal, Gateway!Succeeds,
               Gateway!Fails, Gateway!review, Gateway!actor, Gateway!money, Gateway!IsDirect
<1>3. Apart(k)
    BY <1>0 DEF GatewayTypes, Apart, Gateway!Settle, Gateway!Leaving, Gateway!Journal,
               Gateway!Succeeds, Gateway!Fails, Gateway!review, Gateway!actor, Gateway!money,
               Gateway!IsDirect
<1>4. OwnTurn(k)
    BY <1>0 DEF GatewayTypes, OwnTurn, AttemptAt, TurnAt, Working, Gateway!Settle,
               Gateway!Leaving, Gateway!Journal, Gateway!Succeeds, Gateway!Fails,
               Gateway!review, Gateway!actor, Gateway!money, Gateway!IsDirect
<1>5. TurnAt(k)'
    BY <1>0 DEF GatewayTypes, AttemptAt, TurnAt, Working, Gateway!Settle, Gateway!Leaving,
               Gateway!Journal, Gateway!Succeeds, Gateway!Fails, Gateway!review, Gateway!actor,
               Gateway!money, Gateway!IsDirect
<1>6. MoneyAt(k)'
    BY <1>0 DEF GatewayTypes, AttemptAt, TurnAt, MoneyAt, Working, Charged, Gateway!Settle,
               Gateway!Leaving, Gateway!Journal, Gateway!Succeeds, Gateway!Fails,
               Gateway!review, Gateway!actor, Gateway!money, Gateway!IsDirect
<1>7. DirectAt(k)'
    BY <1>0 DEF GatewayTypes, AttemptAt, TurnAt, MoneyAt, DirectAt, Working, Charged,
               Gateway!Settle, Gateway!Leaving, Gateway!Journal, Gateway!Succeeds,
               Gateway!Fails, Gateway!review, Gateway!actor, Gateway!money, Gateway!IsDirect
<1> QED
    BY <1>1, <1>2, <1>3, <1>4, <1>5, <1>6, <1>7, OneAttempt DEF AttemptAt

\* A ticket is canceled.
LEMMA CancelKeeps ==
    ASSUME GatewayInv, NEW k \in Attempts, Gateway!Cancel(k), UNCHANGED Gateway!binding
    PROVE  GatewayInv'
<1> USE GatewayNumbers
<1>0. GatewayTypes /\ TableOK /\ AttemptAt(k) /\ UNCHANGED <<direct, hosted>>
    BY DEF GatewayInv, Gateway!binding
<1>1. GatewayTypes'
    BY <1>0 DEF GatewayTypes, Working, Charged, Gateway!Cancel, Gateway!Leaving,
               Gateway!Consume, Gateway!Journal, Gateway!CancelAuthorization, Gateway!Released,
               Gateway!NotReleased, Gateway!Succeeds, Gateway!Fails, Gateway!review,
               Gateway!actor, Gateway!money, Gateway!IsDirect
<1>2. TableOK'
    BY <1>0, TableBound DEF Gateway!Cancel, Gateway!Leaving, Gateway!Consume, Gateway!Journal,
               Gateway!CancelAuthorization, Gateway!Released, Gateway!NotReleased,
               Gateway!Succeeds, Gateway!Fails, Gateway!review, Gateway!actor, Gateway!money,
               Gateway!IsDirect
<1>3. Apart(k)
    BY <1>0 DEF GatewayTypes, Apart, Gateway!Cancel, Gateway!Leaving, Gateway!Consume,
               Gateway!Journal, Gateway!CancelAuthorization, Gateway!Released,
               Gateway!NotReleased, Gateway!Succeeds, Gateway!Fails, Gateway!review,
               Gateway!actor, Gateway!money, Gateway!IsDirect
<1>4. OwnTurn(k)
    BY <1>0 DEF GatewayTypes, OwnTurn, AttemptAt, TurnAt, Working, Gateway!Cancel,
               Gateway!Leaving, Gateway!Consume, Gateway!Journal, Gateway!CancelAuthorization,
               Gateway!Released, Gateway!NotReleased, Gateway!Succeeds, Gateway!Fails,
               Gateway!review, Gateway!actor, Gateway!money, Gateway!IsDirect
<1>5. TurnAt(k)'
    BY <1>0 DEF GatewayTypes, AttemptAt, TurnAt, Working, Gateway!Cancel, Gateway!Leaving,
               Gateway!Consume, Gateway!Journal, Gateway!CancelAuthorization, Gateway!Released,
               Gateway!NotReleased, Gateway!Succeeds, Gateway!Fails, Gateway!review,
               Gateway!actor, Gateway!money, Gateway!IsDirect
<1>6. MoneyAt(k)'
    BY <1>0 DEF GatewayTypes, AttemptAt, TurnAt, MoneyAt, Working, Charged, Gateway!Cancel,
               Gateway!Leaving, Gateway!Consume, Gateway!Journal, Gateway!CancelAuthorization,
               Gateway!Released, Gateway!NotReleased, Gateway!Succeeds, Gateway!Fails,
               Gateway!review, Gateway!actor, Gateway!money, Gateway!IsDirect
<1>7. DirectAt(k)'
    BY <1>0 DEF GatewayTypes, AttemptAt, TurnAt, MoneyAt, DirectAt, Working, Charged,
               Gateway!Cancel, Gateway!Leaving, Gateway!Consume, Gateway!Journal,
               Gateway!CancelAuthorization, Gateway!Released, Gateway!NotReleased,
               Gateway!Succeeds, Gateway!Fails, Gateway!review, Gateway!actor, Gateway!money,
               Gateway!IsDirect
<1> QED
    BY <1>1, <1>2, <1>3, <1>4, <1>5, <1>6, <1>7, OneAttempt DEF AttemptAt

\* The ledger expires a hold.
LEMMA ExpireHoldKeeps ==
    ASSUME GatewayInv, NEW k \in Attempts, Gateway!ExpireHold(k), UNCHANGED Gateway!binding
    PROVE  GatewayInv'
<1> USE GatewayNumbers
<1>0. GatewayTypes /\ TableOK /\ AttemptAt(k) /\ UNCHANGED <<direct, hosted>>
    BY DEF GatewayInv, Gateway!binding
<1>1. GatewayTypes'
    BY <1>0 DEF GatewayTypes, Working, Charged, Gateway!ExpireHold, Gateway!review,
               Gateway!actor, Gateway!money, Gateway!IsDirect
<1>2. TableOK'
    BY <1>0, TableBound DEF Gateway!ExpireHold, Gateway!review, Gateway!actor, Gateway!money,
               Gateway!IsDirect
<1>3. Apart(k)
    BY <1>0 DEF GatewayTypes, Apart, Gateway!ExpireHold, Gateway!review, Gateway!actor,
               Gateway!money, Gateway!IsDirect
<1>4. OwnTurn(k)
    BY <1>0 DEF GatewayTypes, OwnTurn, AttemptAt, TurnAt, Working, Gateway!ExpireHold,
               Gateway!review, Gateway!actor, Gateway!money, Gateway!IsDirect
<1>5. TurnAt(k)'
    BY <1>0 DEF GatewayTypes, AttemptAt, TurnAt, Working, Gateway!ExpireHold, Gateway!review,
               Gateway!actor, Gateway!money, Gateway!IsDirect
<1>6. MoneyAt(k)'
    BY <1>0 DEF GatewayTypes, AttemptAt, TurnAt, MoneyAt, Working, Charged, Gateway!ExpireHold,
               Gateway!review, Gateway!actor, Gateway!money, Gateway!IsDirect
<1>7. DirectAt(k)'
    BY <1>0 DEF GatewayTypes, AttemptAt, TurnAt, MoneyAt, DirectAt, Working, Charged,
               Gateway!ExpireHold, Gateway!review, Gateway!actor, Gateway!money,
               Gateway!IsDirect
<1> QED
    BY <1>1, <1>2, <1>3, <1>4, <1>5, <1>6, <1>7, OneAttempt DEF AttemptAt

\* The broker's ticket is fenced or expired.
LEMMA ForwardFencedKeeps ==
    ASSUME GatewayInv, NEW k \in Attempts, Gateway!ForwardFenced(k), UNCHANGED Gateway!binding
    PROVE  GatewayInv'
<1> USE GatewayNumbers
<1>0. GatewayTypes /\ TableOK /\ AttemptAt(k) /\ UNCHANGED <<direct, hosted>>
    BY DEF GatewayInv, Gateway!binding
<1>1. GatewayTypes'
    BY <1>0 DEF GatewayTypes, Working, Charged, Gateway!ForwardFenced, Gateway!Leaving,
               Gateway!Consume, Gateway!CancelAuthorization, Gateway!Released,
               Gateway!NotReleased, Gateway!Succeeds, Gateway!Fails, Gateway!review,
               Gateway!actor, Gateway!money, Gateway!IsDirect
<1>2. TableOK'
    BY <1>0, TableBound DEF Gateway!ForwardFenced, Gateway!Leaving, Gateway!Consume,
               Gateway!CancelAuthorization, Gateway!Released, Gateway!NotReleased,
               Gateway!Succeeds, Gateway!Fails, Gateway!review, Gateway!actor, Gateway!money,
               Gateway!IsDirect
<1>3. Apart(k)
    BY <1>0 DEF GatewayTypes, Apart, Gateway!ForwardFenced, Gateway!Leaving, Gateway!Consume,
               Gateway!CancelAuthorization, Gateway!Released, Gateway!NotReleased,
               Gateway!Succeeds, Gateway!Fails, Gateway!review, Gateway!actor, Gateway!money,
               Gateway!IsDirect
<1>4. OwnTurn(k)
    BY <1>0 DEF GatewayTypes, OwnTurn, AttemptAt, TurnAt, Working, Gateway!ForwardFenced,
               Gateway!Leaving, Gateway!Consume, Gateway!CancelAuthorization, Gateway!Released,
               Gateway!NotReleased, Gateway!Succeeds, Gateway!Fails, Gateway!review,
               Gateway!actor, Gateway!money, Gateway!IsDirect
<1>5. TurnAt(k)'
    BY <1>0 DEF GatewayTypes, AttemptAt, TurnAt, Working, Gateway!ForwardFenced,
               Gateway!Leaving, Gateway!Consume, Gateway!CancelAuthorization, Gateway!Released,
               Gateway!NotReleased, Gateway!Succeeds, Gateway!Fails, Gateway!review,
               Gateway!actor, Gateway!money, Gateway!IsDirect
<1>6. MoneyAt(k)'
    BY <1>0 DEF GatewayTypes, AttemptAt, TurnAt, MoneyAt, Working, Charged,
               Gateway!ForwardFenced, Gateway!Leaving, Gateway!Consume,
               Gateway!CancelAuthorization, Gateway!Released, Gateway!NotReleased,
               Gateway!Succeeds, Gateway!Fails, Gateway!review, Gateway!actor, Gateway!money,
               Gateway!IsDirect
<1>7. DirectAt(k)'
    BY <1>0 DEF GatewayTypes, AttemptAt, TurnAt, MoneyAt, DirectAt, Working, Charged,
               Gateway!ForwardFenced, Gateway!Leaving, Gateway!Consume,
               Gateway!CancelAuthorization, Gateway!Released, Gateway!NotReleased,
               Gateway!Succeeds, Gateway!Fails, Gateway!review, Gateway!actor, Gateway!money,
               Gateway!IsDirect
<1> QED
    BY <1>1, <1>2, <1>3, <1>4, <1>5, <1>6, <1>7, OneAttempt DEF AttemptAt

\* The scope of the broker's ticket is stale.
LEMMA ForwardUnscopedKeeps ==
    ASSUME GatewayInv, NEW k \in Attempts, Gateway!ForwardUnscoped(k), UNCHANGED Gateway!binding
    PROVE  GatewayInv'
<1> USE GatewayNumbers
<1>0. GatewayTypes /\ TableOK /\ AttemptAt(k) /\ UNCHANGED <<direct, hosted>>
    BY DEF GatewayInv, Gateway!binding
<1>1. GatewayTypes'
    BY <1>0 DEF GatewayTypes, Working, Charged, Gateway!ForwardUnscoped, Gateway!Leaving,
               Gateway!Consume, Gateway!review, Gateway!actor, Gateway!money, Gateway!IsDirect
<1>2. TableOK'
    BY <1>0, TableBound DEF Gateway!ForwardUnscoped, Gateway!Leaving, Gateway!Consume, Gateway!review,
               Gateway!actor, Gateway!money, Gateway!IsDirect
<1>3. Apart(k)
    BY <1>0 DEF GatewayTypes, Apart, Gateway!ForwardUnscoped, Gateway!Leaving, Gateway!Consume,
               Gateway!review, Gateway!actor, Gateway!money, Gateway!IsDirect
<1>4. OwnTurn(k)
    BY <1>0 DEF GatewayTypes, OwnTurn, AttemptAt, TurnAt, Working, Gateway!ForwardUnscoped,
               Gateway!Leaving, Gateway!Consume, Gateway!review, Gateway!actor, Gateway!money,
               Gateway!IsDirect
<1>5. TurnAt(k)'
    BY <1>0 DEF GatewayTypes, AttemptAt, TurnAt, Working, Gateway!ForwardUnscoped,
               Gateway!Leaving, Gateway!Consume, Gateway!review, Gateway!actor, Gateway!money,
               Gateway!IsDirect
<1>6. MoneyAt(k)'
    BY <1>0 DEF GatewayTypes, AttemptAt, TurnAt, MoneyAt, Working, Charged,
               Gateway!ForwardUnscoped, Gateway!Leaving, Gateway!Consume, Gateway!review,
               Gateway!actor, Gateway!money, Gateway!IsDirect
<1>7. DirectAt(k)'
    BY <1>0 DEF GatewayTypes, AttemptAt, TurnAt, MoneyAt, DirectAt, Working, Charged,
               Gateway!ForwardUnscoped, Gateway!Leaving, Gateway!Consume, Gateway!review,
               Gateway!actor, Gateway!money, Gateway!IsDirect
<1> QED
    BY <1>1, <1>2, <1>3, <1>4, <1>5, <1>6, <1>7, OneAttempt DEF AttemptAt

\* The broker dispatches, or refuses to.
LEMMA DispatchKeeps ==
    ASSUME GatewayInv, NEW k \in Attempts, Gateway!Dispatch(k), UNCHANGED Gateway!binding
    PROVE  GatewayInv'
<1> USE GatewayNumbers
<1>0. GatewayTypes /\ TableOK /\ AttemptAt(k) /\ UNCHANGED <<direct, hosted>>
    BY DEF GatewayInv, Gateway!binding
<1>1. GatewayTypes'
    BY <1>0 DEF GatewayTypes, Working, Charged, Gateway!Dispatch, Gateway!Holding,
               Gateway!Consume, Gateway!Released, Gateway!NotReleased, Gateway!Succeeds,
               Gateway!Fails, Gateway!review, Gateway!actor, Gateway!money, Gateway!IsDirect
<1>2. TableOK'
    BY <1>0, TableBound DEF Gateway!Dispatch, Gateway!Holding, Gateway!Consume, Gateway!Released,
               Gateway!NotReleased, Gateway!Succeeds, Gateway!Fails, Gateway!review,
               Gateway!actor, Gateway!money, Gateway!IsDirect
<1>3. Apart(k)
    BY <1>0 DEF GatewayTypes, Apart, Gateway!Dispatch, Gateway!Holding, Gateway!Consume,
               Gateway!Released, Gateway!NotReleased, Gateway!Succeeds, Gateway!Fails,
               Gateway!review, Gateway!actor, Gateway!money, Gateway!IsDirect
<1>4. OwnTurn(k)
    BY <1>0 DEF GatewayTypes, OwnTurn, AttemptAt, TurnAt, Working, Gateway!Dispatch,
               Gateway!Holding, Gateway!Consume, Gateway!Released, Gateway!NotReleased,
               Gateway!Succeeds, Gateway!Fails, Gateway!review, Gateway!actor, Gateway!money,
               Gateway!IsDirect
<1>5. TurnAt(k)'
    BY <1>0 DEF GatewayTypes, AttemptAt, TurnAt, Working, Gateway!Dispatch, Gateway!Holding,
               Gateway!Consume, Gateway!Released, Gateway!NotReleased, Gateway!Succeeds,
               Gateway!Fails, Gateway!review, Gateway!actor, Gateway!money, Gateway!IsDirect
<1>6. MoneyAt(k)'
    BY <1>0 DEF GatewayTypes, AttemptAt, TurnAt, MoneyAt, Working, Charged, Gateway!Dispatch,
               Gateway!Holding, Gateway!Consume, Gateway!Released, Gateway!NotReleased,
               Gateway!Succeeds, Gateway!Fails, Gateway!review, Gateway!actor, Gateway!money,
               Gateway!IsDirect
<1>7. DirectAt(k)'
    BY <1>0 DEF GatewayTypes, AttemptAt, TurnAt, MoneyAt, DirectAt, Working, Charged,
               Gateway!Dispatch, Gateway!Holding, Gateway!Consume, Gateway!Released,
               Gateway!NotReleased, Gateway!Succeeds, Gateway!Fails, Gateway!review,
               Gateway!actor, Gateway!money, Gateway!IsDirect
<1> QED
    BY <1>1, <1>2, <1>3, <1>4, <1>5, <1>6, <1>7, OneAttempt DEF AttemptAt

\* The broker's result is settled.
LEMMA FinishBrokerKeeps ==
    ASSUME GatewayInv, NEW k \in Attempts, Gateway!FinishBroker(k), UNCHANGED Gateway!binding
    PROVE  GatewayInv'
<1> USE GatewayNumbers
<1>0. GatewayTypes /\ TableOK /\ AttemptAt(k) /\ UNCHANGED <<direct, hosted>>
    BY DEF GatewayInv, Gateway!binding
<1>1. GatewayTypes'
    BY <1>0 DEF GatewayTypes, Working, Charged, Gateway!FinishBroker, Gateway!Leaving,
               Gateway!Journal, Gateway!Succeeds, Gateway!Fails, Gateway!review, Gateway!actor,
               Gateway!money, Gateway!IsDirect
<1>2. TableOK'
    BY <1>0, TableBound DEF Gateway!FinishBroker, Gateway!Leaving, Gateway!Journal, Gateway!Succeeds,
               Gateway!Fails, Gateway!review, Gateway!actor, Gateway!money, Gateway!IsDirect
<1>3. Apart(k)
    BY <1>0 DEF GatewayTypes, Apart, Gateway!FinishBroker, Gateway!Leaving, Gateway!Journal,
               Gateway!Succeeds, Gateway!Fails, Gateway!review, Gateway!actor, Gateway!money,
               Gateway!IsDirect
<1>4. OwnTurn(k)
    BY <1>0 DEF GatewayTypes, OwnTurn, AttemptAt, TurnAt, Working, Gateway!FinishBroker,
               Gateway!Leaving, Gateway!Journal, Gateway!Succeeds, Gateway!Fails,
               Gateway!review, Gateway!actor, Gateway!money, Gateway!IsDirect
<1>5. TurnAt(k)'
    BY <1>0 DEF GatewayTypes, AttemptAt, TurnAt, Working, Gateway!FinishBroker, Gateway!Leaving,
               Gateway!Journal, Gateway!Succeeds, Gateway!Fails, Gateway!review, Gateway!actor,
               Gateway!money, Gateway!IsDirect
<1>6. MoneyAt(k)'
    BY <1>0 DEF GatewayTypes, AttemptAt, TurnAt, MoneyAt, Working, Charged,
               Gateway!FinishBroker, Gateway!Leaving, Gateway!Journal, Gateway!Succeeds,
               Gateway!Fails, Gateway!review, Gateway!actor, Gateway!money, Gateway!IsDirect
<1>7. DirectAt(k)'
    BY <1>0 DEF GatewayTypes, AttemptAt, TurnAt, MoneyAt, DirectAt, Working, Charged,
               Gateway!FinishBroker, Gateway!Leaving, Gateway!Journal, Gateway!Succeeds,
               Gateway!Fails, Gateway!review, Gateway!actor, Gateway!money, Gateway!IsDirect
<1> QED
    BY <1>1, <1>2, <1>3, <1>4, <1>5, <1>6, <1>7, OneAttempt DEF AttemptAt

\* All checks pass, and the executor is called.
LEMMA ForwardKeeps ==
    ASSUME GatewayInv, NEW k \in Attempts, NEW y \in Attempts \cup {Other},
           Gateway!Forward(k, y), UNCHANGED Gateway!binding
    PROVE  GatewayInv'
<1> USE GatewayNumbers
<1>0. GatewayTypes /\ TableOK /\ AttemptAt(k) /\ UNCHANGED <<direct, hosted>>
    BY DEF GatewayInv, Gateway!binding
<1>1. GatewayTypes'
    BY <1>0 DEF GatewayTypes, Working, Charged, Gateway!Forward, Gateway!Holding,
               Gateway!Consume, Gateway!Bound, Gateway!Succeeds, Gateway!review, Gateway!actor,
               Gateway!money, Gateway!IsDirect
<1>2. TableOK'
    BY <1>0, TableBound DEF Gateway!Forward, Gateway!Holding, Gateway!Consume, Gateway!Bound,
               Gateway!Succeeds, Gateway!review, Gateway!actor, Gateway!money,
               Gateway!IsDirect
<1>3. Apart(k)
    BY <1>0 DEF GatewayTypes, Apart, Gateway!Forward, Gateway!Holding, Gateway!Consume,
               Gateway!Bound, Gateway!Succeeds, Gateway!review, Gateway!actor, Gateway!money,
               Gateway!IsDirect
<1>4. OwnTurn(k)
    BY <1>0 DEF GatewayTypes, OwnTurn, AttemptAt, TurnAt, Working, Gateway!Forward,
               Gateway!Holding, Gateway!Consume, Gateway!Bound, Gateway!Succeeds,
               Gateway!review, Gateway!actor, Gateway!money, Gateway!IsDirect
<1>5. TurnAt(k)'
    BY <1>0 DEF GatewayTypes, AttemptAt, TurnAt, Working, Gateway!Forward, Gateway!Holding,
               Gateway!Consume, Gateway!Bound, Gateway!Succeeds, Gateway!review, Gateway!actor,
               Gateway!money, Gateway!IsDirect
<1>6. MoneyAt(k)'
    BY <1>0 DEF GatewayTypes, AttemptAt, TurnAt, MoneyAt, Working, Charged, Gateway!Forward,
               Gateway!Holding, Gateway!Consume, Gateway!Bound, Gateway!Succeeds,
               Gateway!review, Gateway!actor, Gateway!money, Gateway!IsDirect
<1>7. DirectAt(k)'
    BY <1>0 DEF GatewayTypes, AttemptAt, TurnAt, MoneyAt, DirectAt, Working, Charged,
               Gateway!Forward, Gateway!Holding, Gateway!Consume, Gateway!Bound,
               Gateway!Succeeds, Gateway!review, Gateway!actor, Gateway!money,
               Gateway!IsDirect
<1> QED
    BY <1>1, <1>2, <1>3, <1>4, <1>5, <1>6, <1>7, OneAttempt DEF AttemptAt

\* The review facade of a direct actor is used.
LEMMA FacadeReviewKeeps ==
    ASSUME GatewayInv, NEW g \in Agents, Gateway!FacadeReview(g), UNCHANGED Gateway!binding
    PROVE  GatewayInv'
<1> USE GatewayNumbers
<1>1. GatewayTypes /\ TableOK /\ (\A k \in Attempts : AttemptAt(k)) /\ UNCHANGED <<direct, hosted>>
    BY DEF GatewayInv, Gateway!binding
<1>2. UNCHANGED <<call, owner, base, decided, pending, active, closed, gap, money, fault, auth, ran>>
    BY DEF Gateway!FacadeReview, Gateway!actor, Gateway!money
<1>3. GatewayTypes'
    BY <1>1, <1>2 DEF GatewayTypes, Gateway!FacadeReview
<1>4. ASSUME NEW k \in Attempts PROVE AttemptAt(k)'
    BY <1>1, <1>2 DEF AttemptAt, TurnAt, MoneyAt, DirectAt
<1> QED
    BY <1>1, <1>2, <1>3, <1>4 DEF GatewayInv, TableOK

\* An actor is revoked, with its ticket: it has one at most, and nothing else of the actor
\* is at work under the lock.
LEMMA RevokeKeeps ==
    ASSUME GatewayInv, NEW g \in Agents, Gateway!Revoke(g), UNCHANGED Gateway!binding
    PROVE  GatewayInv'
<1> USE GatewayNumbers
<1> DEFINE T == Gateway!Tickets(g)
<1>1. GatewayTypes /\ TableOK /\ (\A k \in Attempts : AttemptAt(k)) /\ UNCHANGED <<direct, hosted>>
    BY DEF GatewayInv, Gateway!binding
<1>2. T \subseteq Attempts /\ \A k \in T : k \in pending /\ Who[k] = g
    BY <1>1 DEF Gateway!Tickets, GatewayTypes
<1>3. \A k \in Attempts : k \in pending /\ Who[k] = g => k \in T
    BY DEF Gateway!Tickets
<1>4. \A k, j \in T : k = j
    BY <1>1, <1>2 DEF AttemptAt, TurnAt
<1>5. /\ owner # None => call[owner] = "executing"
      /\ closed' = closed \cup {g} /\ active' = [active EXCEPT ![g] = None]
      /\ pending' = pending \ T
      /\ call' = [k \in Attempts |-> IF k \in T THEN "over" ELSE call[k]]
      /\ auth' = [k \in Attempts |-> IF k \in T /\ auth[k] = "prepared" THEN "canceled" ELSE auth[k]]
      /\ UNCHANGED <<owner, captured, base, decided, ran>>
    BY DEF Gateway!Revoke, Gateway!review
<1>6. \/ UNCHANGED <<gap, money, fault>> /\ \A k \in T : Who[k] \notin direct
      \/ \E k \in T : (Gateway!Released(k) /\ UNCHANGED gap)
                      \/ (Gateway!NotReleased(k) /\ gap' = gap \cup {g})
    <2>1. CASE \E k \in T : Gateway!IsDirect(k)
        <3> DEFINE k == CHOOSE k \in T : TRUE
        <3>1. k \in T
            BY <2>1
        <3>2. (Gateway!Released(k) /\ UNCHANGED gap) \/ (Gateway!NotReleased(k) /\ gap' = gap \cup {g})
            BY <2>1 DEF Gateway!Revoke
        <3> QED
            BY <3>1, <3>2
    <2>2. CASE ~\E k \in T : Gateway!IsDirect(k)
        BY <2>2 DEF Gateway!Revoke, Gateway!IsDirect, Gateway!money
    <2> QED
        BY <2>1, <2>2
<1>7. /\ gap \subseteq gap' /\ gap' \subseteq gap \cup {g} /\ fault' \subseteq fault \cup T
      /\ fault \subseteq fault'
      /\ money' \in [Attempts -> Charged \cup {"none", "reserved", "canceled", "expired"}]
      /\ \A k \in Attempts \ T : money'[k] = money[k]
      /\ \A k \in Attempts : money'[k] \in {money[k], "canceled"}
    <2>1. CASE UNCHANGED <<gap, money, fault>>
        BY <1>1, <2>1 DEF GatewayTypes
    <2>2. CASE \E k \in T : (Gateway!Released(k) /\ UNCHANGED gap)
                            \/ (Gateway!NotReleased(k) /\ gap' = gap \cup {g})
        <3>1. PICK k \in T : (Gateway!Released(k) /\ UNCHANGED gap)
                              \/ (Gateway!NotReleased(k) /\ gap' = gap \cup {g})
            BY <2>2
        <3> QED
            BY <1>1, <1>2, <3>1 DEF GatewayTypes, Gateway!Released, Gateway!NotReleased,
               Gateway!Succeeds, Gateway!Fails, Gateway!money
    <2> QED
        BY <1>6, <2>1, <2>2
<1>8. ASSUME NEW k \in T, Who[k] \in direct
      PROVE  money'[k] # "reserved" \/ k \in fault'
    <2>1. PICK j \in T : (Gateway!Released(j) /\ UNCHANGED gap)
                          \/ (Gateway!NotReleased(j) /\ gap' = gap \cup {g})
        BY <1>6, <1>8
    <2>2. j = k
        BY <1>4, <2>1
    <2> QED
        BY <1>1, <1>2, <2>1, <2>2 DEF GatewayTypes, Gateway!Released, Gateway!NotReleased,
           Gateway!Succeeds, Gateway!Fails, Gateway!money
<1>9. GatewayTypes'
    BY <1>1, <1>2, <1>5, <1>7 DEF GatewayTypes, Working
<1>10. TableOK'
    BY <1>1, <1>5, TableBound
<1>11. ASSUME NEW k \in Attempts PROVE AttemptAt(k)'
    <2>1. AttemptAt(k) /\ ran'[k] = ran[k] /\ owner' = owner
        BY <1>1, <1>5
    <2>2. CASE k \in T
        <3>1. call'[k] = "over" /\ k \notin pending' /\ call[k] = "issued" /\ ran[k] = None
            BY <1>2, <1>5, <2>1, <2>2 DEF AttemptAt, TurnAt, MoneyAt
        <3> QED
            BY <1>1, <1>8, <2>1, <2>2, <3>1 DEF AttemptAt, TurnAt, MoneyAt, DirectAt, Working
    <2>3. CASE k \notin T
        <3>1. /\ call'[k] = call[k] /\ money'[k] = money[k]
              /\ k \in pending' <=> k \in pending
              /\ k \in fault' <=> k \in fault
            BY <1>5, <1>7, <2>3
        <3>2. call[k] \notin Working
            BY <1>1, <1>5, <2>1 DEF AttemptAt, TurnAt, Working, GatewayTypes
        <3>3. k \in pending => Who[k] # g
            BY <1>3, <2>3
        <3>4. TurnAt(k)'
            BY <1>1, <1>5, <2>1, <3>1, <3>2, <3>3 DEF AttemptAt, TurnAt, GatewayTypes
        <3>5. MoneyAt(k)'
            BY <2>1, <3>1 DEF AttemptAt, MoneyAt
        <3>6. DirectAt(k)'
            BY <1>1, <1>7, <2>1, <3>1, <3>2, <3>3 DEF AttemptAt, DirectAt, Working
        <3> QED
            BY <3>4, <3>5, <3>6 DEF AttemptAt
    <2> QED
        BY <2>2, <2>3
<1> QED
    BY <1>9, <1>10, <1>11 DEF GatewayInv

LEMMA GatewaySteps == GatewayInv /\ [Gateway!Next]_Gateway!vars => GatewayInv'
<1> SUFFICES ASSUME GatewayInv, [Gateway!Next]_Gateway!vars PROVE GatewayInv'
    OBVIOUS
<1>1. ASSUME NEW k \in Attempts, Gateway!Prepare(k), UNCHANGED Gateway!binding PROVE GatewayInv'
    BY <1>1, EnterKeeps, RejectKeeps, ReviewKeeps, DenyKeeps, ReserveKeeps, RefreshKeeps,
       RestrictKeeps, RefuseKeeps, IssueKeeps, BrokerRefusesKeeps, PrepareBrokerKeeps,
       RefuseBrokerKeeps, IssueBrokerKeeps DEF Gateway!Prepare
<1>2. ASSUME NEW k \in Attempts, Gateway!Use(k), UNCHANGED Gateway!binding PROVE GatewayInv'
    BY <1>2, ForwardStaleKeeps, ForwardLostKeeps, SettleKeeps, CancelKeeps, ExpireHoldKeeps,
       ForwardKeeps, ForwardFencedKeeps, ForwardUnscopedKeeps, DispatchKeeps, FinishBrokerKeeps
       DEF Gateway!Use
<1>3. CASE UNCHANGED Gateway!vars
    <2>1. UNCHANGED gateway
        BY <1>3 DEF Gateway!vars, Gateway!binding, Gateway!review, Gateway!actor,
                    Gateway!money, gateway
    <2> QED
        BY <2>1 DEF GatewayInv, GatewayTypes, TableOK, AttemptAt, TurnAt, MoneyAt, DirectAt, gateway
<1> QED
    BY <1>1, <1>2, <1>3, FacadeReviewKeeps, RevokeKeeps DEF Gateway!Next

\* Whoever is given an action by a step of the gateway, as a direct actor, is forwarded.
LEMMA OnlyForwardRuns ==
    ASSUME GatewayInv, [Gateway!Next]_Gateway!vars, NEW k \in Attempts,
           ran'[k] # ran[k], Who[k] \in direct
    PROVE  k \in pending
<1> USE GatewayNumbers
<1>1. GatewayTypes
    BY DEF GatewayInv
<1>2. \A j \in Attempts, y \in Attempts \cup {Other} :
         Gateway!Forward(j, y) => j \in pending /\ ran' = [ran EXCEPT ![j] = y]
    BY DEF Gateway!Forward, Gateway!Consume
<1>3. \A j \in Attempts :
         Gateway!Dispatch(j) => Who[j] \notin direct /\ (ran' = ran \/ ran' = [ran EXCEPT ![j] = j])
    BY DEF Gateway!Dispatch, Gateway!IsDirect
<1>4. \/ ran' = ran
      \/ \E j \in Attempts : Gateway!Dispatch(j) \/ \E y \in Attempts \cup {Other} : Gateway!Forward(j, y)
    BY DEF Gateway!Next, Gateway!Prepare, Gateway!Use, Gateway!vars, Gateway!Enter,
           Gateway!Reject, Gateway!Review, Gateway!Deny, Gateway!Reserve, Gateway!Refresh,
           Gateway!Restrict, Gateway!Refuse, Gateway!Issue, Gateway!BrokerRefuses,
           Gateway!PrepareBroker, Gateway!RefuseBroker, Gateway!IssueBroker,
           Gateway!ForwardStale, Gateway!ForwardLost, Gateway!Settle, Gateway!Cancel,
           Gateway!ExpireHold, Gateway!ForwardFenced, Gateway!ForwardUnscoped,
           Gateway!FinishBroker, Gateway!FacadeReview, Gateway!Revoke
<1> QED
    BY <1>1, <1>2, <1>3, <1>4 DEF GatewayTypes

\* Whatever the order of prepare, forward, cancel and revoke_agent, a ticket of the tool
\* gateway is used for one effect or given back, what an executor is given is reserved and
\* charged, and nothing is forwarded for a direct actor whose journal has a gap or whose
\* last settlement is in doubt.
THEOREM GatewayIsSafe == EnforcementSpec => GatewayIsExact
<1> USE GatewayNumbers
<1>1. Init /\ Gateway!Init => GatewayInv
    BY GatewayStarts
<1>2. [EnforcementNext]_<<vars, gateway>> => [Gateway!Next]_Gateway!vars
    BY DEF EnforcementNext, gateway, Gateway!vars, Gateway!binding, Gateway!review,
           Gateway!actor, Gateway!money
<1>3. GatewayInv /\ [EnforcementNext]_<<vars, gateway>> => GatewayInv'
    BY <1>2, GatewaySteps
<1>4. GatewayInv => Gateway!ForwardedOnce
    <2> SUFFICES ASSUME GatewayInv PROVE Gateway!ForwardedOnce
        OBVIOUS
    <2>1. GatewayTypes /\ TableOK /\ \A k \in Attempts : AttemptAt(k)
        BY DEF GatewayInv
    <2>2. Gateway!TypeOK
        BY <2>1, SameSizes DEF GatewayTypes, TableOK, Gateway!TypeOK, Working, Charged
    <2>3. Gateway!TicketIsActive
        BY <2>1 DEF Gateway!TicketIsActive, AttemptAt, TurnAt, GatewayTypes
    <2>4. Gateway!NoIdleHold
        BY <2>1 DEF Gateway!NoIdleHold, Gateway!IsDirect, AttemptAt, DirectAt
    <2>5. Gateway!EffectsArePaid
        BY <2>1 DEF Gateway!EffectsArePaid, AttemptAt, MoneyAt, Charged
    <2> QED
        BY <2>2, <2>3, <2>4, <2>5 DEF Gateway!ForwardedOnce
<1>5. GatewayInv /\ [Gateway!Next]_Gateway!vars
      => [\A k \in Attempts : ran'[k] # ran[k] /\ Gateway!IsDirect(k) => Who[k] \notin gap]_Gateway!vars
    <2> SUFFICES ASSUME GatewayInv, [Gateway!Next]_Gateway!vars, NEW k \in Attempts,
                        ran'[k] # ran[k], Gateway!IsDirect(k)
                 PROVE  Who[k] \notin gap
        OBVIOUS
    <2>1. k \in pending /\ Who[k] \in direct
        BY OnlyForwardRuns DEF Gateway!IsDirect
    <2> QED
        BY <2>1 DEF GatewayInv, AttemptAt, DirectAt
<1>6. GatewayInv /\ [Gateway!Next]_Gateway!vars
      => [\A k, j \in Attempts : ran'[k] # ran[k] /\ Gateway!IsDirect(k) /\ Who[j] = Who[k]
              => ran[j] = None \/ j \notin fault]_Gateway!vars
    <2> SUFFICES ASSUME GatewayInv, [Gateway!Next]_Gateway!vars, NEW k \in Attempts,
                        NEW j \in Attempts,
                        ran'[k] # ran[k], Gateway!IsDirect(k), Who[j] = Who[k]
                 PROVE  ran[j] = None \/ j \notin fault
        OBVIOUS
    <2>1. k \in pending /\ Who[k] \in direct
        BY OnlyForwardRuns DEF Gateway!IsDirect
    <2>2. AttemptAt(k) /\ AttemptAt(j)
        BY DEF GatewayInv
    <2> QED
        BY <2>1, <2>2 DEF AttemptAt, DirectAt
<1> QED
    BY <1>1, <1>2, <1>3, <1>4, <1>5, <1>6, PTL
       DEF EnforcementSpec, GatewayIsExact, Gateway!GapBlocksForwarding, Gateway!DoubtStopsTheActor

-----------------------------------------------------------------------------
(* The message gateway: its inductive invariant.                           *)

EnvelopeRows ==
    [channel : Channels, sequence : Nat, content : Bodies, inputs : SUBSET Nat, expires : Nat]
ChannelRows == [expires : Nat, revoked : BOOLEAN, start : Nat, attempts : Nat, sequence : Nat]
LineageRows ==
    [actor : Peers, content : Bodies, labels : SUBSET (Labels \cup {Unclassified}),
     parents : SUBSET Nat, depth : Nat, established : BOOLEAN, complete : BOOLEAN,
     declassified : BOOLEAN]
MessageRows == [envelope : EnvelopeRows, status : {"unknown", "delivered"}]
WaitRows ==
    [stage : {"wait"}, channel : Channels, draft : EnvelopeRows \cup {Nobody}, content : Bodies,
     inputs : SUBSET Nat]
WorkRows == [stage : Messages!Delivering, channel : Channels, id : Nat]

TrafficTypes ==
    /\ setup \in Setups /\ clock \in 0..MaxTime
    /\ stale \subseteq Peers /\ quarantined \subseteq Peers
    /\ DOMAIN channel \subseteq Channels /\ channel \in [DOMAIN channel -> ChannelRows]
    /\ lineage \in Seq(LineageRows) /\ drafts \subseteq EnvelopeRows
    /\ messages \in Seq(MessageRows) /\ received \subseteq 1..Len(messages)
    /\ halted \in BOOLEAN
    /\ holder \in [Channels -> Threads \cup {Nobody}]
    /\ sends \in [Threads -> WaitRows \cup WorkRows \cup {Nobody}]
    /\ inbox \in Seq(Nat)

\* The limits of the setup.
WithinLimits ==
    /\ \A c \in DOMAIN channel :
          channel[c].attempts <= setup.rate /\ channel[c].sequence <= Len(messages)
    /\ Len(messages) <= setup.messages
    /\ Len(lineage) <= setup.records
    /\ \A r \in 1..Len(lineage) : lineage[r].depth \in 1..setup.depth

\* A record was made from records, what is complete is established, and no label is lost
\* but by a declassification.
LineageOK ==
    \A r \in 1..Len(lineage) :
        /\ lineage[r].parents \subseteq 1..Len(lineage)
        /\ lineage[r].complete => lineage[r].established
        /\ lineage[r].declassified \/ \A p \in lineage[r].parents : lineage[p].labels \subseteq lineage[r].labels

\* What drafts and waiting threads name is there.
WaitOK(t) ==
    sends[t] # Nobody /\ sends[t].stage = "wait" =>
        /\ sends[t].inputs \subseteq 1..Len(lineage)
        /\ sends[t].draft # Nobody => sends[t].draft.channel = sends[t].channel
                                      /\ sends[t].draft.inputs = sends[t].inputs
DraftsOK ==
    /\ \A d \in drafts : d.inputs \subseteq 1..Len(lineage)
    /\ \A t \in Threads : WaitOK(t)

\* The messages of a channel are numbered in order, and their inputs are allowed at its sink.
EnvelopeOf(i) == messages[i].envelope
OneChannel(i, j) == EnvelopeOf(i).channel = EnvelopeOf(j).channel
AdmittedOK ==
    \A i \in 1..Len(messages) :
        /\ EnvelopeOf(i).channel \in DOMAIN channel
        /\ EnvelopeOf(i).sequence <= channel[EnvelopeOf(i).channel].sequence
        /\ EnvelopeOf(i).inputs \subseteq 1..Len(lineage)
        /\ \A r \in EnvelopeOf(i).inputs : lineage[r].labels \subseteq Allowed[EnvelopeOf(i).channel]
        /\ \A j \in 1..Len(messages) :
              i < j /\ OneChannel(i, j) => EnvelopeOf(i).sequence < EnvelopeOf(j).sequence

\* A thread at work on a message has the delivery lock of its channel, and works on the last
\* message of it.
Busy(t) == sends[t] # Nobody /\ sends[t].stage \in Messages!Delivering
HasReached(i) == \E n \in 1..Len(inbox) : inbox[n] = i
WorkOK(t) == Busy(t) =>
    LET i == sends[t].id IN
    /\ i \in 1..Len(messages) /\ EnvelopeOf(i).channel = sends[t].channel
    /\ holder[sends[t].channel] = t
    /\ messages[i].status = "unknown" /\ i \notin received
    /\ \A j \in 1..Len(messages) : OneChannel(i, j) => j <= i
    /\ sends[t].stage \in {"admitted", "checked"} => ~HasReached(i)
    /\ sends[t].stage = "returned" => HasReached(i)

\* The inbox has no message twice, and those of a channel in order.
InboxOK ==
    /\ \A n \in 1..Len(inbox) : inbox[n] \in 1..Len(messages)
    /\ \A n, m \in 1..Len(inbox) : n < m /\ OneChannel(inbox[n], inbox[m]) => inbox[n] < inbox[m]
    /\ \A n, m \in 1..Len(inbox) : inbox[n] = inbox[m] => n = m

\* What is said of a message that nobody works on.
OutcomeOK(i) == (\A t \in Threads : Busy(t) => sends[t].id # i) =>
    /\ messages[i].status = "unknown" =>
          /\ halted \/ channel[EnvelopeOf(i).channel].revoked
          /\ \A j \in 1..Len(messages) : OneChannel(i, j) => j <= i
    /\ messages[i].status = "delivered" =>
          /\ i \in received /\ HasReached(i)
          /\ \E r \in 1..Len(lineage) :
                /\ lineage[r].actor = To[EnvelopeOf(i).channel] /\ lineage[r].complete
                /\ lineage[r].parents = EnvelopeOf(i).inputs
    /\ i \in received /\ messages[i].status # "delivered" => halted

DeliveryOK ==
    /\ AdmittedOK /\ InboxOK
    /\ \A t \in Threads : WorkOK(t)
    /\ \A i \in 1..Len(messages) : OutcomeOK(i)

TrafficInv == TrafficTypes /\ WithinLimits /\ LineageOK /\ DraftsOK /\ DeliveryOK

-----------------------------------------------------------------------------
(* The greatest of a set of numbers, and the depth of a record.            *)

\* A set of numbers has a least one (Depth of MessageGateway takes the greatest).
LEMMA LeastNumber == ASSUME NEW T \in SUBSET Nat, T # {} PROVE \E x \in T : \A y \in T : x <= y
<1>1. IsWellFoundedOn(OpToRel(<, Nat), Nat)
  BY NatLessThanWellFounded
<1>2. PICK x \in T : \A y \in T : ~(<<y, x>> \in OpToRel(<, Nat))
  BY <1>1, WFMin
<1>3. \A y \in T : ~(y < x)
  BY <1>2 DEF OpToRel
<1> QED BY <1>3

\* A set of numbers that has a bound has a greatest one.
LEMMA GreatestNumber ==
    ASSUME NEW n \in Nat, NEW S \in SUBSET (0..n), S # {}
    PROVE \E x \in S : \A y \in S : x >= y
<1> DEFINE T == {n - x : x \in S}
<1>1. \A x \in S : x \in Nat /\ n - x \in Nat
  OBVIOUS
<1>2. T \in SUBSET Nat /\ T # {}
  BY <1>1
<1>3. PICK z \in T : \A y \in T : z <= y
  BY <1>2, LeastNumber
<1>4. PICK x \in S : z = n - x
  BY <1>3
<1>5. \A y \in S : x >= y
  BY <1>1, <1>3, <1>4
<1> QED BY <1>5

\* The depth of a record that is made from others is positive (source_flow.py).
LEMMA DepthIsPositive ==
    ASSUME TrafficTypes, WithinLimits, NEW x \in SUBSET (1..Len(lineage))
    PROVE Messages!Depth(x) \in Nat \ {0}
<1> DEFINE S == {0} \cup {lineage[p].depth : p \in x}
<1>1. setup.depth \in Nat
  BY DataConstants DEF TrafficTypes, Messages!MessageConstants, Messages!Setup
<1>2. \A p \in x : lineage[p].depth \in 0..setup.depth
  BY <1>1 DEF WithinLimits
<1>3. PICK n : n = setup.depth
  OBVIOUS
<1>4. n \in Nat /\ S \in SUBSET (0..n) /\ S # {}
  BY <1>1, <1>2, <1>3
<1>5. \E m \in S : \A y \in S : m >= y
  <2> HIDE DEF S
  <2> QED BY <1>4, GreatestNumber
<1>6. Messages!Max(S) \in S
  <2> HIDE DEF S
  <2> QED BY <1>5 DEF Messages!Max
<1>7. Messages!Max(S) \in Nat
  BY <1>4, <1>6
<1>8. Messages!Depth(x) = 1 + Messages!Max(S)
  BY DEF Messages!Depth
<1> QED BY <1>7, <1>8

-----------------------------------------------------------------------------
(* The lineage: a record that is added.                                    *)

GoodRow(row) ==
    /\ row \in LineageRows /\ row.depth \in 1..setup.depth
    /\ row.parents \subseteq 1..Len(lineage)
    /\ row.complete => row.established
    /\ row.declassified \/ \A p \in row.parents : lineage[p].labels \subseteq row.labels

Extended == /\ Len(lineage) <= Len(lineage')
            /\ \A r \in 1..Len(lineage) : lineage'[r] = lineage[r]

\* The limits of a setup are positive numbers.
LEMMA SetupLimits ==
    ASSUME setup \in Setups
    PROVE /\ setup.rate \in Nat \ {0} /\ setup.messages \in Nat \ {0}
          /\ setup.records \in Nat \ {0} /\ setup.depth \in Nat \ {0}
          /\ \A p \in Peers : setup.classes[p] \subseteq SUBSET (Labels \cup {Unclassified})
BY DataConstants DEF Messages!MessageConstants, Messages!Setup

\* The records of the lineage have their type.
LEMMA LineageTyped ==
    ASSUME TrafficInv
    PROVE \A r \in 1..Len(lineage) : lineage[r] \in LineageRows
BY DEF TrafficInv, TrafficTypes

\* A record for which there is room is within the limit of the depth (source_flow.py).
LEMMA DepthFits ==
    ASSUME TrafficInv, NEW x \in SUBSET (1..Len(lineage)), Messages!Room(x)
    PROVE Messages!Depth(x) \in Nat /\ Messages!Depth(x) \in 1..setup.depth
<1>1. Messages!Depth(x) \in Nat \ {0}
  BY DepthIsPositive DEF TrafficInv
<1>2. setup.depth \in Nat /\ Messages!Depth(x) <= setup.depth
  BY SetupLimits DEF TrafficInv, TrafficTypes, Messages!Room
<1> QED BY <1>1, <1>2

\* derive gives the output the labels of all inputs.
LEMMA DerivedRow ==
    ASSUME TrafficInv, NEW p \in Peers, NEW k \in Bodies, NEW x \in SUBSET (1..Len(lineage)),
           NEW linked \in BOOLEAN, NEW complete \in BOOLEAN, Messages!Room(x)
    PROVE \E row : /\ Messages!Derived(p, k, x, linked, complete) = Append(lineage, row)
                   /\ GoodRow(row) /\ row.actor = p /\ row.parents = x
<1> DEFINE links == linked /\ \A r \in x : lineage[r].established
<1>1. PICK ls : ls = Messages!Join(x) \cup (IF complete THEN {} ELSE {Unclassified})
  OBVIOUS
<1>2. PICK e : e = (links /\ ~Messages!ViewGap)
  OBVIOUS
<1>3. PICK cm : cm = (complete /\ links /\ ~Messages!ViewGap /\ \A r \in x : lineage[r].complete)
  OBVIOUS
<1>4. \A q \in x : lineage[q].labels \subseteq Labels \cup {Unclassified}
  BY LineageTyped DEF LineageRows
<1>5. ls \in SUBSET (Labels \cup {Unclassified}) /\ \A q \in x : lineage[q].labels \subseteq ls
  BY <1>1, <1>4 DEF Messages!Join
<1>6. e \in BOOLEAN /\ cm \in BOOLEAN /\ (cm => e)
  <2> HIDE DEF links
  <2>1. e \in BOOLEAN
    BY <1>2
  <2>2. cm \in BOOLEAN
    BY <1>3
  <2>3. cm => e
    BY <1>2, <1>3
  <2> QED BY <2>1, <2>2, <2>3
<1>7. PICK row : row = [actor |-> p, content |-> k, labels |-> ls, parents |-> x,
                        depth |-> Messages!Depth(x), established |-> e, complete |-> cm,
                        declassified |-> FALSE]
  OBVIOUS
<1>8. Messages!Derived(p, k, x, linked, complete) = Append(lineage, row)
  BY <1>1, <1>2, <1>3, <1>7, Zenon DEF Messages!Derived, Messages!Saved
<1>9. GoodRow(row)
  <2> HIDE DEF links
  <2>1. Messages!Depth(x) \in Nat /\ Messages!Depth(x) \in 1..setup.depth /\ x \in SUBSET Nat
    BY DepthFits
  <2>2. row \in LineageRows
    BY <1>5, <1>6, <1>7, <2>1 DEF LineageRows
  <2> QED BY <1>5, <1>6, <1>7, <2>1, <2>2 DEF GoodRow
<1> QED BY <1>7, <1>8, <1>9

\* The lineage with one more record keeps its part of the invariant.
LEMMA Grown ==
    ASSUME TrafficInv, NEW row, GoodRow(row), Len(lineage) < setup.records,
           lineage' = Append(lineage, row), UNCHANGED setup
    PROVE /\ lineage' \in Seq(LineageRows) /\ Len(lineage') <= setup'.records
          /\ \A r \in 1..Len(lineage') : lineage'[r].depth \in 1..setup'.depth
          /\ LineageOK' /\ Extended
          /\ Len(lineage') = Len(lineage) + 1 /\ lineage'[Len(lineage) + 1] = row
<1>1. lineage \in Seq(LineageRows) /\ row \in LineageRows /\ setup.records \in Nat
  BY SetupLimits DEF TrafficInv, TrafficTypes, GoodRow
<1>2. /\ lineage' \in Seq(LineageRows) /\ Len(lineage') = Len(lineage) + 1
      /\ lineage'[Len(lineage) + 1] = row /\ Len(lineage) \in Nat
      /\ \A r \in 1..Len(lineage) : lineage'[r] = lineage[r]
  BY <1>1
<1>3. Extended
  BY <1>2 DEF Extended
<1>4. Len(lineage') <= setup'.records
  BY <1>1, <1>2
<1>5. \A r \in 1..Len(lineage') : r \in 1..Len(lineage) \/ r = Len(lineage) + 1
  BY <1>2
<1>6. \A r \in 1..Len(lineage') : lineage'[r].depth \in 1..setup'.depth
  BY <1>2, <1>5 DEF GoodRow, TrafficInv, WithinLimits
<1>7. LineageOK'
  <2> SUFFICES ASSUME NEW r \in 1..Len(lineage')
               PROVE /\ lineage'[r].parents \subseteq 1..Len(lineage')
                     /\ lineage'[r].complete => lineage'[r].established
                     /\ lineage'[r].declassified
                          \/ \A p \in lineage'[r].parents : lineage'[p].labels \subseteq lineage'[r].labels
    BY DEF LineageOK
  <2>1. CASE r \in 1..Len(lineage)
    <3>1. lineage'[r] = lineage[r] /\ lineage[r].parents \subseteq 1..Len(lineage)
      BY <1>2, <2>1 DEF TrafficInv, LineageOK
    <3> QED BY <1>2, <2>1, <3>1 DEF TrafficInv, LineageOK
  <2>2. CASE r = Len(lineage) + 1
    <3>1. lineage'[r] = row /\ row.parents \subseteq 1..Len(lineage)
      BY <1>2, <2>2 DEF GoodRow
    <3> QED BY <1>2, <3>1 DEF GoodRow
  <2> QED BY <1>5, <2>1, <2>2
<1> QED BY <1>2, <1>3, <1>4, <1>6, <1>7

-----------------------------------------------------------------------------
(* Channels, and steps that no delivery sees.                              *)

\* The rows of the channels keep their numbers, and no channel is opened again.
ChannelsKept(chs) ==
    /\ chs \in [DOMAIN channel -> ChannelRows]
    /\ \A c \in DOMAIN channel : /\ chs[c].attempts <= setup.rate
                                 /\ chs[c].sequence = channel[c].sequence
                                 /\ channel[c].revoked => chs[c].revoked

\* Revoking the channels of a peer keeps their numbers (messages.py quarantine).
LEMMA CutKept ==
    ASSUME NEW chs, ChannelsKept(chs), NEW p
    PROVE ChannelsKept(Messages!Cut(chs, p))
<1>1. DOMAIN chs = DOMAIN channel /\ \A c \in DOMAIN channel : chs[c] \in ChannelRows
  BY DEF ChannelsKept
<1>2. PICK cut : cut = Messages!Cut(chs, p)
  OBVIOUS
<1>3. /\ cut = [c \in DOMAIN channel |-> cut[c]]
      /\ \A c \in DOMAIN channel :
            cut[c] = IF p \in {From[c], To[c]} THEN [chs[c] EXCEPT !.revoked = TRUE] ELSE chs[c]
  BY <1>1, <1>2 DEF Messages!Cut
<1>4. \A c \in DOMAIN channel :
        /\ cut[c] \in ChannelRows /\ cut[c].attempts = chs[c].attempts
        /\ cut[c].sequence = chs[c].sequence /\ (chs[c].revoked => cut[c].revoked)
  BY <1>1, <1>3 DEF ChannelRows
<1>5. cut \in [DOMAIN channel -> ChannelRows]
  BY <1>3, <1>4
<1>6. ChannelsKept(cut)
  BY <1>4, <1>5 DEF ChannelsKept
<1> QED BY <1>2, <1>6

\* Counting an attempt within the rate keeps the numbers.
LEMMA CountedKept ==
    ASSUME TrafficInv, NEW c \in DOMAIN channel, Messages!WithinRate(c)
    PROVE /\ Messages!Counted(c) \in ChannelRows
          /\ Messages!Counted(c).attempts <= setup.rate
          /\ Messages!Counted(c).sequence = channel[c].sequence
          /\ Messages!Counted(c).revoked = channel[c].revoked
<1>1. /\ channel[c] \in ChannelRows /\ clock \in Nat /\ Window \in Nat
      /\ setup.rate \in Nat \ {0} /\ channel[c].attempts <= setup.rate
  BY SetupLimits, DataConstants DEF TrafficInv, TrafficTypes, WithinLimits, Messages!MessageConstants
<1>2. /\ channel[c].start \in Nat /\ channel[c].attempts \in Nat
  BY <1>1 DEF ChannelRows
<1>3. CASE clock - channel[c].start >= Window
  <2>1. Messages!Counted(c) = [channel[c] EXCEPT !.start = clock, !.attempts = 1]
    BY <1>3 DEF Messages!Counted
  <2>2. PICK n : n = 1
    OBVIOUS
  <2>3. n \in Nat /\ n <= setup.rate
    BY <1>1, <2>2
  <2>4. Messages!Counted(c) = [channel[c] EXCEPT !.start = clock, !.attempts = n]
    BY <2>1, <2>2
  <2> QED BY <1>1, <2>3, <2>4 DEF ChannelRows
<1>4. CASE ~(clock - channel[c].start >= Window)
  <2>1. Messages!Counted(c) = [channel[c] EXCEPT !.attempts = channel[c].attempts + 1]
    BY <1>4 DEF Messages!Counted
  <2>2. channel[c].attempts < setup.rate
    BY <1>4 DEF Messages!WithinRate
  <2>3. PICK n : n = channel[c].attempts + 1
    OBVIOUS
  <2>4. n \in Nat /\ n <= setup.rate
    BY <1>1, <1>2, <2>2, <2>3
  <2>5. Messages!Counted(c) = [channel[c] EXCEPT !.attempts = n]
    BY <2>1, <2>3
  <2> QED BY <1>1, <2>4, <2>5 DEF ChannelRows
<1> QED BY <1>3, <1>4

\* The channels as they are, and with the attempt of one counted.
LEMMA SameKept == ASSUME TrafficInv PROVE ChannelsKept(channel)
BY DEF TrafficInv, TrafficTypes, WithinLimits, ChannelsKept

\* The channels with one row that keeps its number.
LEMMA RowKept ==
    ASSUME TrafficInv, NEW c \in DOMAIN channel, NEW row \in ChannelRows,
           row.attempts <= setup.rate, row.sequence = channel[c].sequence,
           channel[c].revoked => row.revoked
    PROVE ChannelsKept([channel EXCEPT ![c] = row])
<1>1. channel \in [DOMAIN channel -> ChannelRows]
  BY DEF TrafficInv, TrafficTypes
<1>2. \A d \in DOMAIN channel : channel[d].attempts <= setup.rate
  BY DEF TrafficInv, WithinLimits
<1> QED BY <1>1, <1>2 DEF ChannelsKept

\* A step that no delivery sees: threads at work go on at most to their next position.
SameWork ==
    \A t \in Threads :
        /\ Busy(t)' <=> Busy(t)
        /\ Busy(t) => /\ sends'[t].id = sends[t].id /\ sends'[t].channel = sends[t].channel
                      /\ \/ sends'[t].stage \in {sends[t].stage, "raised"}
                         \/ sends[t].stage = "admitted" /\ sends'[t].stage = "checked"
Quiet ==
    /\ UNCHANGED <<setup, messages, received, holder, inbox>> /\ halted' = halted
    /\ Extended /\ SameWork
    /\ \A c \in DOMAIN channel :
          /\ c \in DOMAIN channel'
          /\ channel'[c].sequence = channel[c].sequence
          /\ channel[c].revoked => channel'[c].revoked

\* What is known of deliveries is not changed by a step that no delivery sees.
LEMMA QuietKeeps == ASSUME TrafficInv, Quiet PROVE DeliveryOK'
<1>1. /\ messages' = messages /\ received' = received /\ holder' = holder /\ inbox' = inbox
      /\ halted' = halted
  BY DEF Quiet
<1>2. /\ Len(lineage) \in Nat /\ Len(lineage') >= Len(lineage)
      /\ \A r \in 1..Len(lineage) : lineage'[r] = lineage[r]
  BY DEF TrafficInv, TrafficTypes, Quiet, Extended
<1>3. 1..Len(lineage) \subseteq 1..Len(lineage')
  BY <1>2 DEF Quiet, Extended
<1>4. \A i : EnvelopeOf(i)' = EnvelopeOf(i)
  BY <1>1 DEF EnvelopeOf
<1>5. AdmittedOK'
  <2> SUFFICES ASSUME NEW i \in 1..Len(messages)
               PROVE /\ EnvelopeOf(i).channel \in DOMAIN channel'
                     /\ EnvelopeOf(i).sequence <= channel'[EnvelopeOf(i).channel].sequence
                     /\ EnvelopeOf(i).inputs \subseteq 1..Len(lineage')
                     /\ \A r \in EnvelopeOf(i).inputs :
                           lineage'[r].labels \subseteq Allowed[EnvelopeOf(i).channel]
                     /\ \A j \in 1..Len(messages) :
                           i < j /\ OneChannel(i, j) => EnvelopeOf(i).sequence < EnvelopeOf(j).sequence
    BY <1>1, <1>4 DEF AdmittedOK, EnvelopeOf, OneChannel
  <2>1. /\ EnvelopeOf(i).channel \in DOMAIN channel
        /\ EnvelopeOf(i).sequence <= channel[EnvelopeOf(i).channel].sequence
        /\ EnvelopeOf(i).inputs \subseteq 1..Len(lineage)
        /\ \A r \in EnvelopeOf(i).inputs : lineage[r].labels \subseteq Allowed[EnvelopeOf(i).channel]
        /\ \A j \in 1..Len(messages) :
              i < j /\ OneChannel(i, j) => EnvelopeOf(i).sequence < EnvelopeOf(j).sequence
    BY DEF TrafficInv, DeliveryOK, AdmittedOK
  <2> QED BY <1>2, <1>3, <2>1 DEF Quiet
<1>6. InboxOK'
  BY <1>1 DEF TrafficInv, DeliveryOK, InboxOK, OneChannel, EnvelopeOf
<1>7. \A t \in Threads : WorkOK(t)'
  <2> SUFFICES ASSUME NEW t \in Threads, Busy(t)' PROVE WorkOK(t)'
    BY DEF WorkOK
  <2>1. /\ Busy(t) /\ sends'[t].id = sends[t].id /\ sends'[t].channel = sends[t].channel
        /\ \/ sends'[t].stage \in {sends[t].stage, "raised"}
           \/ sends[t].stage = "admitted" /\ sends'[t].stage = "checked"
    BY DEF Quiet, SameWork
  <2>2. WorkOK(t)
    BY DEF TrafficInv, DeliveryOK
  <2> QED BY <1>1, <2>1, <2>2 DEF WorkOK, HasReached, OneChannel, EnvelopeOf
<1>8. \A i \in 1..Len(messages') : OutcomeOK(i)'
  <2> SUFFICES ASSUME NEW i \in 1..Len(messages),
                      (\A t \in Threads : Busy(t) => sends[t].id # i)'
               PROVE OutcomeOK(i)'
    BY <1>1 DEF OutcomeOK
  <2>1. \A t \in Threads : Busy(t) => sends[t].id # i
    BY DEF Quiet, SameWork
  <2>2. OutcomeOK(i) /\ EnvelopeOf(i).channel \in DOMAIN channel
    BY DEF TrafficInv, DeliveryOK, AdmittedOK
  <2>3. messages[i].status = "unknown" =>
          /\ halted \/ channel'[EnvelopeOf(i).channel].revoked
          /\ \A j \in 1..Len(messages) : OneChannel(i, j) => j <= i
    BY <2>1, <2>2 DEF OutcomeOK, Quiet
  <2>4. messages[i].status = "delivered" =>
          /\ i \in received /\ HasReached(i)
          /\ \E r \in 1..Len(lineage') :
                /\ lineage'[r].actor = To[EnvelopeOf(i).channel] /\ lineage'[r].complete
                /\ lineage'[r].parents = EnvelopeOf(i).inputs
    BY <1>2, <1>3, <2>1, <2>2 DEF OutcomeOK
  <2>5. i \in received /\ messages[i].status # "delivered" => halted
    BY <2>1, <2>2 DEF OutcomeOK
  <2> QED BY <1>1, <2>3, <2>4, <2>5 DEF OutcomeOK, HasReached, OneChannel, EnvelopeOf
<1> QED BY <1>5, <1>6, <1>7, <1>8 DEF DeliveryOK

-----------------------------------------------------------------------------
(* Steps of the host and the operator.                                     *)

\* What the others look at when the lineage grows.
Elsewhere == <<setup, clock, stale, quarantined, channel, drafts, messages, received, halted,
               holder, sends, inbox>>

\* A step that adds a record keeps the invariant.
LEMMA GrowKeeps ==
    ASSUME TrafficInv, NEW row, GoodRow(row), Len(lineage) < setup.records,
           lineage' = Append(lineage, row), UNCHANGED Elsewhere
    PROVE TrafficInv'
<1>1. /\ lineage' \in Seq(LineageRows) /\ Len(lineage') <= setup'.records
      /\ \A r \in 1..Len(lineage') : lineage'[r].depth \in 1..setup'.depth
      /\ LineageOK' /\ Extended /\ Len(lineage') = Len(lineage) + 1
  <2>1. UNCHANGED setup
    BY DEF Elsewhere
  <2> QED BY <2>1, Grown
<1>2. TrafficTypes'
  BY <1>1 DEF TrafficInv, TrafficTypes, Elsewhere
<1>3. WithinLimits'
  BY <1>1 DEF TrafficInv, WithinLimits, Elsewhere
<1>4. 1..Len(lineage) \subseteq 1..Len(lineage')
  BY <1>1 DEF TrafficInv, TrafficTypes
<1>5. DraftsOK'
  BY <1>4 DEF TrafficInv, DraftsOK, WaitOK, Elsewhere
<1>6. Quiet
  BY <1>1 DEF Quiet, SameWork, Busy, Elsewhere
<1> QED BY <1>1, <1>2, <1>3, <1>5, <1>6, QuietKeeps DEF TrafficInv

\* The inputs a call names are records.
LEMMA InputsAreRecords ==
    ASSUME TrafficInv, NEW x \in Messages!Inputs PROVE x \in SUBSET (1..Len(lineage))
BY DEF TrafficInv, TrafficTypes, Messages!Inputs, Messages!Records

\* register (messages.py) keeps the invariant.
LEMMA RegisterKeeps ==
    ASSUME TrafficInv, NEW p \in Peers, NEW k \in Bodies, NEW ls \in setup.classes[p],
           Messages!Register(p, k, ls), UNCHANGED setup
    PROVE TrafficInv'
<1>1. PICK x : x = {}
  OBVIOUS
<1>2. x \in SUBSET (1..Len(lineage)) /\ Messages!Room(x)
  BY <1>1 DEF Messages!Register
<1>3. ls \in SUBSET (Labels \cup {Unclassified})
  BY SetupLimits DEF TrafficInv, TrafficTypes
<1>4. PICK e : e = (~Messages!ViewGap)
  OBVIOUS
<1>5. e \in BOOLEAN
  BY <1>4
<1>6. PICK row : row = [actor |-> p, content |-> k, labels |-> ls, parents |-> x,
                        depth |-> Messages!Depth(x), established |-> e, complete |-> e,
                        declassified |-> FALSE]
  OBVIOUS
<1>7. lineage' = Append(lineage, row)
  BY <1>1, <1>4, <1>6, Zenon DEF Messages!Register, Messages!Saved
<1>8. GoodRow(row)
  <2>1. Messages!Depth(x) \in Nat /\ Messages!Depth(x) \in 1..setup.depth /\ x \in SUBSET Nat
    BY <1>2, DepthFits
  <2>2. row \in LineageRows
    BY <1>3, <1>5, <1>6, <2>1 DEF LineageRows
  <2> QED BY <1>1, <1>5, <1>6, <2>1, <2>2 DEF GoodRow
<1>9. Len(lineage) < setup.records /\ UNCHANGED Elsewhere
  BY DEF Messages!Register, Messages!Room, Elsewhere
<1> QED BY <1>7, <1>8, <1>9, GrowKeeps

\* derive (source_flow.py) keeps the invariant.
LEMMA DeriveKeeps ==
    ASSUME TrafficInv, NEW p \in Peers, NEW k \in Bodies, NEW x \in Messages!Inputs,
           NEW linked \in BOOLEAN, NEW complete \in BOOLEAN,
           Messages!Derive(p, k, x, linked, complete), UNCHANGED setup
    PROVE TrafficInv'
<1>1. x \in SUBSET (1..Len(lineage))
  BY InputsAreRecords
<1>2. /\ Messages!Room(x) /\ Len(lineage) < setup.records /\ UNCHANGED Elsewhere
      /\ lineage' = Messages!Derived(p, k, x, linked, complete)
  BY DEF Messages!Derive, Messages!Room, Elsewhere
<1>3. PICK row : Messages!Derived(p, k, x, linked, complete) = Append(lineage, row) /\ GoodRow(row)
  BY <1>1, <1>2, DerivedRow
<1> QED BY <1>2, <1>3, GrowKeeps

\* declassify (source_flow.py) keeps the invariant: it says that labels were dropped.
LEMMA DeclassifyKeeps ==
    ASSUME TrafficInv, NEW r \in 1..Len(lineage), Messages!Declassify(r, {}), UNCHANGED setup
    PROVE TrafficInv'
<1>1. PICK x : x = {r}
  OBVIOUS
<1>2. x \in SUBSET (1..Len(lineage)) /\ Messages!Room(x)
  BY <1>1 DEF Messages!Declassify
<1>3. lineage[r].actor \in Peers /\ lineage[r].content \in Bodies
  BY LineageTyped DEF LineageRows
<1>4. PICK row : row = [actor |-> lineage[r].actor, content |-> lineage[r].content, labels |-> {},
                        parents |-> x, depth |-> Messages!Depth(x), established |-> TRUE,
                        complete |-> TRUE, declassified |-> TRUE]
  OBVIOUS
<1>5. lineage' = Append(lineage, row)
  BY <1>1, <1>4, Zenon DEF Messages!Declassify, Messages!Saved
<1>6. GoodRow(row)
  <2>1. Messages!Depth(x) \in Nat /\ Messages!Depth(x) \in 1..setup.depth /\ x \in SUBSET Nat
    BY <1>2, DepthFits
  <2>2. row \in LineageRows
    BY <1>3, <1>4, <2>1 DEF LineageRows
  <2> QED BY <1>2, <1>4, <2>1, <2>2 DEF GoodRow
<1>7. Len(lineage) < setup.records /\ UNCHANGED Elsewhere
  BY DEF Messages!Declassify, Messages!Room, Elsewhere
<1> QED BY <1>5, <1>6, <1>7, GrowKeeps

\* A step that changes channels, drafts and calls keeps the invariant.
LEMMA ChannelStepKeeps ==
    ASSUME TrafficInv, NEW chs, ChannelsKept(chs), channel' = chs,
           UNCHANGED <<setup, lineage, messages, received, halted, holder, inbox>>,
           clock' \in 0..MaxTime, stale' \subseteq Peers, quarantined' \subseteq Peers,
           drafts' \subseteq EnvelopeRows, sends' \in [Threads -> WaitRows \cup WorkRows \cup {Nobody}],
           DraftsOK', SameWork
    PROVE TrafficInv'
<1>1. /\ DOMAIN channel' = DOMAIN channel /\ channel' \in [DOMAIN channel -> ChannelRows]
      /\ \A c \in DOMAIN channel : /\ channel'[c].attempts <= setup.rate
                                   /\ channel'[c].sequence = channel[c].sequence
                                   /\ channel[c].revoked => channel'[c].revoked
  BY DEF ChannelsKept
<1>2. TrafficTypes'
  BY <1>1 DEF TrafficInv, TrafficTypes
<1>3. WithinLimits'
  BY <1>1 DEF TrafficInv, WithinLimits
<1>4. LineageOK'
  BY DEF TrafficInv, LineageOK
<1>5. Quiet
  <2>1. Extended
    BY DEF TrafficInv, TrafficTypes, Extended
  <2> QED BY <1>1, <2>1 DEF Quiet
<1> QED BY <1>2, <1>3, <1>4, <1>5, QuietKeeps DEF TrafficInv

\* The lapse of an enrollment and the clock keep the invariant.
LEMMA LapseKeeps ==
    ASSUME TrafficInv, NEW p \in Peers, Messages!Lapse(p), UNCHANGED setup PROVE TrafficInv'
<1>1. PICK chs : chs = channel
  OBVIOUS
<1>2. ChannelsKept(chs) /\ channel' = chs
  BY <1>1, SameKept DEF Messages!Lapse
<1>3. /\ clock' \in 0..MaxTime /\ stale' \subseteq Peers /\ quarantined' \subseteq Peers
      /\ drafts' \subseteq EnvelopeRows /\ sends' \in [Threads -> WaitRows \cup WorkRows \cup {Nobody}]
      /\ UNCHANGED <<setup, lineage, messages, received, halted, holder, inbox>>
  BY DEF TrafficInv, TrafficTypes, Messages!Lapse
<1>4. DraftsOK'
  BY DEF TrafficInv, DraftsOK, WaitOK, Messages!Lapse
<1>5. SameWork
  BY DEF SameWork, Busy, Messages!Lapse
<1> QED BY <1>2, <1>3, <1>4, <1>5, ChannelStepKeeps

\* The clock.
LEMMA ClockKeeps == ASSUME TrafficInv, Messages!Tick, UNCHANGED setup PROVE TrafficInv'
<1>1. PICK chs : chs = channel
  OBVIOUS
<1>2. ChannelsKept(chs) /\ channel' = chs
  BY <1>1, SameKept DEF Messages!Tick
<1>3. /\ clock' \in 0..MaxTime /\ stale' \subseteq Peers /\ quarantined' \subseteq Peers
      /\ drafts' \subseteq EnvelopeRows /\ sends' \in [Threads -> WaitRows \cup WorkRows \cup {Nobody}]
      /\ UNCHANGED <<setup, lineage, messages, received, halted, holder, inbox>>
  <2>1. MaxTime \in Nat
    BY DataConstants DEF Messages!MessageConstants
  <2> QED BY <2>1 DEF TrafficInv, TrafficTypes, Messages!Tick, Messages!flow
<1>4. DraftsOK'
  BY DEF TrafficInv, DraftsOK, WaitOK, Messages!Tick, Messages!flow
<1>5. SameWork
  BY DEF SameWork, Busy, Messages!Tick
<1> QED BY <1>2, <1>3, <1>4, <1>5, ChannelStepKeeps

\* quarantine (messages.py) keeps the invariant.
LEMMA QuarantineKeeps ==
    ASSUME TrafficInv, NEW p \in Peers, Messages!Quarantine(p), UNCHANGED setup PROVE TrafficInv'
<1>1. PICK chs : chs = channel
  OBVIOUS
<1>2. PICK cut : cut = Messages!Cut(chs, p)
  OBVIOUS
<1>3. ChannelsKept(cut) /\ channel' = cut
  BY <1>1, <1>2, SameKept, CutKept DEF Messages!Quarantine
<1>4. /\ clock' \in 0..MaxTime /\ stale' \subseteq Peers /\ quarantined' \subseteq Peers
      /\ drafts' \subseteq EnvelopeRows /\ sends' \in [Threads -> WaitRows \cup WorkRows \cup {Nobody}]
      /\ UNCHANGED <<setup, lineage, messages, received, halted, holder, inbox>>
  BY DEF TrafficInv, TrafficTypes, Messages!Quarantine, Messages!flow
<1>5. DraftsOK'
  BY DEF TrafficInv, DraftsOK, WaitOK, Messages!Quarantine, Messages!flow
<1>6. SameWork
  BY DEF SameWork, Busy, Messages!Quarantine
<1> QED BY <1>3, <1>4, <1>5, <1>6, ChannelStepKeeps

\* grant (messages.py) keeps the invariant.
LEMMA GrantKeeps ==
    ASSUME TrafficInv, NEW c \in Channels, Messages!Grant(c), UNCHANGED setup PROVE TrafficInv'
<1>1. /\ UNCHANGED <<setup, clock, stale, quarantined, lineage, drafts, messages, received,
                     halted, holder, sends, inbox>>
      /\ c \notin DOMAIN channel
  BY DEF Messages!Grant, Messages!flow
<1>2. PICK row : row = [expires |-> clock + Life, revoked |-> FALSE, start |-> clock,
                        attempts |-> 0, sequence |-> 0]
  OBVIOUS
<1>3. channel' = [d \in DOMAIN channel \cup {c} |-> IF d = c THEN row ELSE channel[d]]
  BY <1>2 DEF Messages!Grant
<1>4. row \in ChannelRows /\ row.attempts = 0 /\ row.sequence = 0
  <2>1. clock \in Nat /\ Life \in Nat
    BY DataConstants DEF TrafficInv, TrafficTypes, Messages!MessageConstants
  <2> QED BY <1>2, <2>1 DEF ChannelRows
<1>5. /\ DOMAIN channel' = DOMAIN channel \cup {c} /\ channel'[c] = row
      /\ \A d \in DOMAIN channel : d \in DOMAIN channel' /\ channel'[d] = channel[d]
  BY <1>1, <1>3
<1>6. TrafficTypes'
  <2>1. channel \in [DOMAIN channel -> ChannelRows] /\ DOMAIN channel \subseteq Channels
    BY DEF TrafficInv, TrafficTypes
  <2>2. channel' \in [DOMAIN channel' -> ChannelRows] /\ DOMAIN channel' \subseteq Channels
    BY <1>3, <1>4, <1>5, <2>1
  <2> QED BY <1>1, <2>2 DEF TrafficInv, TrafficTypes
<1>7. WithinLimits'
  <2>1. Len(messages) \in Nat /\ setup.rate \in Nat
    BY SetupLimits DEF TrafficInv, TrafficTypes
  <2>2. \A d \in DOMAIN channel : channel[d].attempts <= setup.rate /\ channel[d].sequence <= Len(messages)
    BY DEF TrafficInv, WithinLimits
  <2>3. \A d \in DOMAIN channel' : channel'[d].attempts <= setup.rate /\ channel'[d].sequence <= Len(messages)
    BY <1>4, <1>5, <2>1, <2>2
  <2> QED BY <1>1, <2>3 DEF TrafficInv, WithinLimits
<1>8. LineageOK' /\ DraftsOK'
  BY <1>1 DEF TrafficInv, LineageOK, DraftsOK, WaitOK
<1>9. Quiet
  <2>1. Extended
    BY <1>1 DEF TrafficInv, TrafficTypes, Extended
  <2>2. SameWork
    BY <1>1 DEF SameWork, Busy
  <2> QED BY <1>1, <1>5, <2>1, <2>2 DEF Quiet
<1> QED BY <1>6, <1>7, <1>8, <1>9, QuietKeeps DEF TrafficInv

\* An envelope that the gateway makes has its type.
LEMMA EnvelopeTyped ==
    ASSUME TrafficInv, NEW c \in DOMAIN channel, NEW k \in Bodies, NEW x \in SUBSET (1..Len(lineage))
    PROVE Messages!Envelope(c, k, x) \in EnvelopeRows
<1>1. /\ channel[c] \in ChannelRows /\ c \in Channels /\ clock \in Nat /\ Life \in Nat
      /\ x \in SUBSET Nat
  BY DataConstants DEF TrafficInv, TrafficTypes, Messages!MessageConstants
<1>2. channel[c].sequence \in Nat /\ channel[c].expires \in Nat
  BY <1>1 DEF ChannelRows
<1>3. PICK s, e : /\ s = channel[c].sequence + 1
                  /\ e = IF clock + Life < channel[c].expires THEN clock + Life ELSE channel[c].expires
  OBVIOUS
<1>4. s \in Nat /\ e \in Nat
  BY <1>1, <1>2, <1>3
<1>5. Messages!Envelope(c, k, x) = [channel |-> c, sequence |-> s, content |-> k, inputs |-> x, expires |-> e]
  BY <1>3 DEF Messages!Envelope
<1> QED BY <1>1, <1>4, <1>5 DEF EnvelopeRows

\* prepare (messages.py) keeps the invariant.
LEMMA PrepareKeeps ==
    ASSUME TrafficInv, NEW c \in Channels, NEW k \in Bodies, NEW x \in Messages!Inputs,
           Messages!Prepare(c, k, x), UNCHANGED setup
    PROVE TrafficInv'
<1>1. x \in SUBSET (1..Len(lineage)) /\ c \in DOMAIN channel
  BY InputsAreRecords DEF Messages!Prepare, Messages!Open
<1>2. UNCHANGED <<setup, clock, stale, lineage, messages, received, halted, holder, sends, inbox>>
  BY DEF Messages!Prepare, Messages!flow
<1>3. PICK e : e = Messages!Envelope(c, k, x)
  OBVIOUS
<1>4. e \in EnvelopeRows /\ e.inputs = x
  BY <1>1, <1>3, EnvelopeTyped DEF Messages!Envelope
<1>5. drafts' \subseteq drafts \cup {e}
  BY <1>3 DEF Messages!Prepare
<1>6. quarantined' \subseteq Peers
  <2>1. From[c] \in Peers
    BY DataConstants DEF Messages!MessageConstants
  <2> QED BY <2>1 DEF Messages!Prepare, TrafficInv, TrafficTypes
<1>7. PICK chs : chs = channel'
  OBVIOUS
<1>8. ChannelsKept(chs)
  <2>1. PICK old, p : old = channel /\ p = From[c]
    OBVIOUS
  <2>2. channel' = channel \/ channel' = Messages!Cut(channel, From[c])
    BY DEF Messages!Prepare
  <2>3. ChannelsKept(old) /\ ChannelsKept(Messages!Cut(old, p))
    BY <2>1, SameKept, CutKept
  <2> QED BY <1>7, <2>1, <2>2, <2>3
<1>9. /\ clock' \in 0..MaxTime /\ stale' \subseteq Peers /\ drafts' \subseteq EnvelopeRows
      /\ sends' \in [Threads -> WaitRows \cup WorkRows \cup {Nobody}]
  BY <1>2, <1>4, <1>5 DEF TrafficInv, TrafficTypes
<1>10. DraftsOK'
  BY <1>1, <1>2, <1>4, <1>5 DEF TrafficInv, DraftsOK, WaitOK
<1>11. SameWork
  BY <1>2 DEF SameWork, Busy
<1> QED BY <1>2, <1>6, <1>7, <1>8, <1>9, <1>10, <1>11, ChannelStepKeeps

-----------------------------------------------------------------------------
(* Steps of a thread that no delivery sees.                                *)

\* A waiting thread has the work of one, and a thread that delivers has that.
LEMMA WorkTyped ==
    ASSUME TrafficInv, NEW t \in Threads, sends[t] # Nobody
    PROVE /\ sends[t].stage = "wait" => sends[t] \in WaitRows /\ ~Busy(t)
          /\ sends[t].stage \in Messages!Delivering => sends[t] \in WorkRows /\ Busy(t)
<1>1. sends[t] \in WaitRows \cup WorkRows
  BY DEF TrafficInv, TrafficTypes
<1> QED BY <1>1 DEF WaitRows, WorkRows, Busy, Messages!Delivering

\* The rows of the threads once one of them has changed.
LEMMA OneThread ==
    ASSUME TrafficInv, NEW t \in Threads, NEW row \in WaitRows \cup WorkRows \cup {Nobody},
           sends' = [sends EXCEPT ![t] = row]
    PROVE /\ sends' \in [Threads -> WaitRows \cup WorkRows \cup {Nobody}] /\ sends'[t] = row
          /\ \A u \in Threads \ {t} : sends'[u] = sends[u]
BY DEF TrafficInv, TrafficTypes

\* A thread at work is not idle.
LEMMA WorkIsSomething ==
    ASSUME TrafficInv, NEW row \in WorkRows, row.id \in 1..setup.messages
    PROVE row # Nobody
<1>1. row = [stage |-> row.stage, channel |-> row.channel, id |-> row.id]
  BY DEF WorkRows
<1>2. row.stage \in Messages!Delivering /\ row.channel \in Channels /\ setup \in Setups
  BY DEF WorkRows, TrafficInv, TrafficTypes
<1>3. PICK d, c, i : d = row.stage /\ c = row.channel /\ i = row.id
  OBVIOUS
<1>4. Nobody # [stage |-> d, channel |-> c, id |-> i]
  <2>1. d \in Messages!Delivering /\ c \in Channels /\ i \in 1..setup.messages
    BY <1>2, <1>3
  <2> QED BY <1>2, <2>1, DataConstants DEF Messages!MessageConstants
<1> QED BY <1>1, <1>3, <1>4

\* The messages at work are admitted ones.
LEMMA WorkIsAdmitted ==
    ASSUME TrafficInv, NEW t \in Threads, Busy(t)
    PROVE /\ WorkOK(t) /\ sends[t].id \in 1..Len(messages) /\ sends[t].id \in 1..setup.messages
          /\ sends[t] # Nobody /\ sends[t] \in WorkRows
<1>1. WorkOK(t)
  BY DEF TrafficInv, DeliveryOK
<1>2. /\ sends[t].id \in 1..Len(messages) /\ Len(messages) \in Nat
      /\ Len(messages) <= setup.messages /\ setup.messages \in Nat
  BY <1>1, SetupLimits DEF TrafficInv, TrafficTypes, WithinLimits, WorkOK
<1>3. sends[t] # Nobody /\ sends[t] \in WorkRows
  BY WorkTyped DEF Busy
<1> QED BY <1>1, <1>2, <1>3

\* A message is sent, or a draft submitted (messages.py send, submit).
LEMMA SubmitKeeps ==
    ASSUME TrafficInv, NEW t \in Threads, NEW c \in Channels, NEW k \in Bodies,
           NEW x \in Messages!Inputs, NEW d \in drafts \cup {Nobody},
           Messages!Enter(t, c, d, k, x), UNCHANGED setup
    PROVE TrafficInv'
<1>1. x \in SUBSET (1..Len(lineage)) /\ x \in SUBSET Nat
  BY InputsAreRecords
<1>2. UNCHANGED <<setup, clock, stale, quarantined, channel, lineage, drafts, messages, received,
                  halted, holder, inbox>>
  BY DEF Messages!Enter, Messages!flow
<1>3. PICK row : row = [stage |-> "wait", channel |-> c, draft |-> d, content |-> k, inputs |-> x]
  OBVIOUS
<1>4. /\ sends[t] = Nobody /\ sends' = [sends EXCEPT ![t] = row]
      /\ d # Nobody => d.channel = c /\ d.inputs = x
  BY <1>3 DEF Messages!Enter
<1>5. row \in WaitRows
  <2>1. d \in EnvelopeRows \cup {Nobody}
    BY DEF TrafficInv, TrafficTypes
  <2> QED BY <1>1, <1>3, <2>1 DEF WaitRows
<1>6. /\ sends' \in [Threads -> WaitRows \cup WorkRows \cup {Nobody}] /\ sends'[t] = row
      /\ \A u \in Threads \ {t} : sends'[u] = sends[u]
  BY <1>4, <1>5, OneThread
<1>7. DraftsOK'
  <2>1. \A u \in Threads : WaitOK(u)'
    <3> SUFFICES ASSUME NEW u \in Threads PROVE WaitOK(u)'
      OBVIOUS
    <3>1. CASE u = t
      BY <1>1, <1>2, <1>3, <1>4, <1>6, <3>1 DEF WaitOK
    <3>2. CASE u # t
      BY <1>2, <1>6, <3>2 DEF WaitOK, TrafficInv, DraftsOK
    <3> QED BY <3>1, <3>2
  <2> QED BY <1>2, <2>1 DEF TrafficInv, DraftsOK
<1>8. SameWork
  <2>1. ~Busy(t) /\ ~Busy(t)'
    BY <1>3, <1>4, <1>6 DEF Busy, Messages!Delivering
  <2>2. \A u \in Threads \ {t} : Busy(u)' <=> Busy(u)
    BY <1>6 DEF Busy
  <2> QED BY <1>6, <2>1, <2>2 DEF SameWork
<1>9. PICK chs : chs = channel
  OBVIOUS
<1>10. /\ ChannelsKept(chs) /\ channel' = chs
       /\ clock' \in 0..MaxTime /\ stale' \subseteq Peers /\ quarantined' \subseteq Peers
       /\ drafts' \subseteq EnvelopeRows
  BY <1>2, <1>9, SameKept DEF TrafficInv, TrafficTypes
<1> QED BY <1>2, <1>6, <1>7, <1>8, <1>10, ChannelStepKeeps

\* A message is refused: its attempt may be counted, and its sender quarantined.
LEMMA RefusedKeeps ==
    ASSUME TrafficInv, NEW t \in Threads, Messages!Refuse(t), UNCHANGED setup PROVE TrafficInv'
<1>1. PICK c : c = sends[t].channel
  OBVIOUS
<1>2. /\ UNCHANGED <<setup, clock, stale, lineage, drafts, messages, received, halted, holder, inbox>>
      /\ sends[t] # Nobody /\ sends[t].stage = "wait" /\ sends' = [sends EXCEPT ![t] = Nobody]
  BY DEF Messages!Refuse, Messages!flow
<1>3. c \in Channels
  BY <1>1, <1>2, WorkTyped DEF WaitRows
<1>4. PICK counted : counted = IF Messages!Refusal(t) = "early" THEN channel
                               ELSE [channel EXCEPT ![c] = Messages!Counted(c)]
  OBVIOUS
<1>5. ChannelsKept(counted)
  <2>1. CASE Messages!Refusal(t) = "early"
    <3>1. PICK chs : chs = channel
      OBVIOUS
    <3>2. ChannelsKept(chs)
      BY <3>1, SameKept
    <3> QED BY <1>4, <2>1, <3>1, <3>2
  <2>2. CASE Messages!Refusal(t) # "early"
    <3>1. Messages!Open(c) /\ Messages!WithinRate(c)
      BY <1>1, <2>2 DEF Messages!Refusal
    <3>2. c \in DOMAIN channel
      BY <3>1 DEF Messages!Open
    <3>3. PICK row : row = Messages!Counted(c)
      OBVIOUS
    <3>4. /\ row \in ChannelRows /\ row.attempts <= setup.rate
          /\ row.sequence = channel[c].sequence /\ row.revoked = channel[c].revoked
      BY <3>1, <3>2, <3>3, CountedKept
    <3>5. ChannelsKept([channel EXCEPT ![c] = row])
      BY <3>2, <3>4, RowKept
    <3> QED BY <1>4, <2>2, <3>3, <3>5
  <2> QED BY <2>1, <2>2
<1>6. PICK p : p = From[c]
  OBVIOUS
<1>7. PICK chs : chs = channel'
  OBVIOUS
<1>8. ChannelsKept(chs)
  <2>1. ChannelsKept(Messages!Cut(counted, p))
    BY <1>5, CutKept
  <2>2. channel' = counted \/ channel' = Messages!Cut(counted, p)
    BY <1>1, <1>4, <1>6 DEF Messages!Refuse
  <2> QED BY <1>5, <1>7, <2>1, <2>2
<1>9. /\ clock' \in 0..MaxTime /\ stale' \subseteq Peers /\ quarantined' \subseteq Peers
      /\ drafts' \subseteq EnvelopeRows
  <2>1. From[c] \in Peers
    BY <1>3, DataConstants DEF Messages!MessageConstants
  <2> QED BY <1>1, <1>2, <2>1 DEF TrafficInv, TrafficTypes, Messages!Refuse
<1>10. /\ sends' \in [Threads -> WaitRows \cup WorkRows \cup {Nobody}] /\ sends'[t] = Nobody
       /\ \A u \in Threads \ {t} : sends'[u] = sends[u]
  BY <1>2, OneThread
<1>11. DraftsOK'
  BY <1>2, <1>10 DEF TrafficInv, DraftsOK, WaitOK
<1>12. SameWork
  <2>1. ~Busy(t) /\ ~Busy(t)'
    BY <1>2, <1>10, WorkTyped DEF Busy
  <2>2. \A u \in Threads \ {t} : Busy(u)' <=> Busy(u)
    BY <1>10 DEF Busy
  <2> QED BY <1>10, <2>1, <2>2 DEF SameWork
<1> QED BY <1>2, <1>7, <1>8, <1>9, <1>10, <1>11, <1>12, ChannelStepKeeps

\* The thread that delivers looks once more (messages.py _deliver).
LEMMA LookKeeps ==
    ASSUME TrafficInv, NEW t \in Threads, Messages!Check(t), UNCHANGED setup PROVE TrafficInv'
<1>1. /\ UNCHANGED <<setup, clock, stale, quarantined, channel, lineage, drafts, messages, received,
                     halted, holder, inbox>>
      /\ sends[t] # Nobody /\ sends[t].stage = "admitted"
  BY DEF Messages!Check, Messages!InStage, Messages!flow
<1>2. sends[t] \in WorkRows /\ Busy(t)
  BY <1>1, WorkTyped DEF Messages!Delivering
<1>3. PICK stage : stage = IF Messages!Open(sends[t].channel) /\ ~Messages!Expired(t) THEN "checked" ELSE "raised"
  OBVIOUS
<1>4. PICK row : row = [sends[t] EXCEPT !.stage = stage]
  OBVIOUS
<1>5. sends' = [sends EXCEPT ![t] = row]
  BY <1>3, <1>4 DEF Messages!Check
<1>6. /\ row \in WorkRows /\ row.stage = stage /\ row.id = sends[t].id
      /\ row.channel = sends[t].channel /\ stage \in {"checked", "raised"}
  BY <1>2, <1>3, <1>4 DEF WorkRows, Messages!Delivering
<1>7. /\ sends' \in [Threads -> WaitRows \cup WorkRows \cup {Nobody}] /\ sends'[t] = row
      /\ \A u \in Threads \ {t} : sends'[u] = sends[u]
  BY <1>5, <1>6, OneThread
<1>8. Busy(t)'
  <2>1. row # Nobody
    <3>1. row \in WorkRows /\ row.id \in 1..setup.messages
      BY <1>2, <1>6, WorkIsAdmitted
    <3> QED BY <3>1, WorkIsSomething
  <2> QED BY <1>6, <1>7, <2>1 DEF Busy, Messages!Delivering
<1>9. DraftsOK'
  BY <1>1, <1>6, <1>7 DEF TrafficInv, DraftsOK, WaitOK
<1>10. SameWork
  <2>1. \A u \in Threads \ {t} : Busy(u)' <=> Busy(u)
    BY <1>7 DEF Busy
  <2> QED BY <1>1, <1>2, <1>6, <1>7, <1>8, <2>1 DEF SameWork
<1>11. PICK chs : chs = channel
  OBVIOUS
<1>12. /\ ChannelsKept(chs) /\ channel' = chs
       /\ clock' \in 0..MaxTime /\ stale' \subseteq Peers /\ quarantined' \subseteq Peers
       /\ drafts' \subseteq EnvelopeRows
  BY <1>1, <1>11, SameKept DEF TrafficInv, TrafficTypes
<1> QED BY <1>1, <1>7, <1>9, <1>10, <1>12, ChannelStepKeeps

-----------------------------------------------------------------------------
(* A message is admitted.                                                  *)

\* What the gateway has looked at when it refuses nothing (messages.py _admit).
LEMMA AdmittedFacts ==
    ASSUME TrafficInv, NEW t \in Threads, sends[t] # Nobody, sends[t].stage = "wait",
           Messages!Refusal(t) = "none"
    PROVE /\ sends[t].channel \in DOMAIN channel /\ ~channel[sends[t].channel].revoked /\ ~halted
          /\ Len(messages) < setup.messages /\ Messages!WithinRate(sends[t].channel)
          /\ sends[t].inputs \in SUBSET (1..Len(lineage))
          /\ Messages!Envelopes(t) \in EnvelopeRows
          /\ Messages!Envelopes(t).channel = sends[t].channel
          /\ Messages!Envelopes(t).sequence = channel[sends[t].channel].sequence + 1
          /\ Messages!Envelopes(t).inputs = sends[t].inputs
<1>1. /\ Messages!Open(sends[t].channel) /\ ~halted /\ ~(Len(messages) >= setup.messages)
      /\ Messages!WithinRate(sends[t].channel)
      /\ sends[t].draft # Nobody => /\ sends[t].draft \in drafts
                                    /\ Messages!Fresh(sends[t].channel, sends[t].draft)
  BY DEF Messages!Refusal
<1>2. sends[t].channel \in DOMAIN channel /\ ~channel[sends[t].channel].revoked
  BY <1>1 DEF Messages!Open
<1>3. Len(messages) < setup.messages
  BY <1>1, SetupLimits DEF TrafficInv, TrafficTypes
<1>4. /\ WaitOK(t) /\ sends[t] \in WaitRows
  BY WorkTyped DEF TrafficInv, DraftsOK
<1>5. sends[t].inputs \in SUBSET (1..Len(lineage)) /\ sends[t].content \in Bodies
  BY <1>4 DEF WaitOK, WaitRows
<1>6. CASE sends[t].draft = Nobody
  <2>1. PICK c, k, x : c = sends[t].channel /\ k = sends[t].content /\ x = sends[t].inputs
    OBVIOUS
  <2>2. Messages!Envelopes(t) = Messages!Envelope(c, k, x)
    BY <1>6, <2>1 DEF Messages!Envelopes
  <2>3. Messages!Envelope(c, k, x) \in EnvelopeRows
    BY <1>2, <1>5, <2>1, EnvelopeTyped
  <2>4. /\ Messages!Envelope(c, k, x).channel = c /\ Messages!Envelope(c, k, x).inputs = x
        /\ Messages!Envelope(c, k, x).sequence = channel[c].sequence + 1
    BY DEF Messages!Envelope
  <2> QED BY <1>1, <1>2, <1>3, <1>5, <2>1, <2>2, <2>3, <2>4
<1>7. CASE sends[t].draft # Nobody
  <2>1. Messages!Envelopes(t) = sends[t].draft /\ sends[t].draft \in EnvelopeRows
    BY <1>1, <1>7 DEF Messages!Envelopes, TrafficInv, TrafficTypes
  <2>2. /\ sends[t].draft.channel = sends[t].channel /\ sends[t].draft.inputs = sends[t].inputs
        /\ sends[t].draft.sequence = channel[sends[t].channel].sequence + 1
    BY <1>1, <1>4, <1>7 DEF WaitOK, Messages!Fresh
  <2> QED BY <1>1, <1>2, <1>3, <1>5, <2>1, <2>2
<1> QED BY <1>6, <1>7

\* What satisfies the flow is allowed at the sink (source_flow.py assess).
LEMMA SatisfiedIsAllowed ==
    ASSUME TrafficInv, NEW c, NEW x \in SUBSET (1..Len(lineage)), Messages!Satisfied(c, x)
    PROVE \A r \in x : lineage[r].labels \subseteq Allowed[c]
<1> SUFFICES ASSUME NEW r \in x PROVE lineage[r].labels \subseteq Allowed[c]
  OBVIOUS
<1>1. /\ lineage[r].complete /\ Unclassified \notin lineage[r].labels
      /\ ~(/\ lineage[r].established /\ lineage[r].labels \cap Labels # {}
           /\ ~(lineage[r].labels \ {Unclassified} \subseteq Allowed[c]))
  BY DEF Messages!Satisfied, Messages!Violated
<1>2. lineage[r].established
  BY <1>1 DEF TrafficInv, LineageOK
<1>3. lineage[r].labels \subseteq Labels
  BY <1>1, LineageTyped DEF LineageRows
<1> QED BY <1>1, <1>2, <1>3

\* A message that is admitted keeps the invariant.
LEMMA AdmitKeeps ==
    ASSUME TrafficInv, NEW t \in Threads, Messages!Admit(t), UNCHANGED setup PROVE TrafficInv'
<1>1. PICK c : c = sends[t].channel
  OBVIOUS
<1>2. PICK e : e = Messages!Envelopes(t)
  OBVIOUS
<1>3. PICK n : n = Len(messages)
  OBVIOUS
<1>4. /\ UNCHANGED <<setup, clock, stale, quarantined, lineage, received, inbox>>
      /\ sends[t] # Nobody /\ sends[t].stage = "wait" /\ holder[c] = Nobody
      /\ Messages!Refusal(t) = "none" /\ drafts' \subseteq drafts
      /\ messages' = Append(messages, [envelope |-> e, status |-> "unknown"])
      /\ channel' = [channel EXCEPT ![c] = [Messages!Counted(c) EXCEPT !.sequence = @ + 1]]
  BY <1>1, <1>2 DEF Messages!Admit, Messages!flow
<1>5. /\ c \in DOMAIN channel /\ c \in Channels /\ ~channel[c].revoked /\ ~halted
      /\ n < setup.messages /\ n \in Nat /\ Messages!WithinRate(c)
      /\ e \in EnvelopeRows /\ e.channel = c /\ e.sequence = channel[c].sequence + 1
      /\ e.inputs = sends[t].inputs /\ e.inputs \in SUBSET (1..Len(lineage))
      /\ channel[c].sequence \in Nat
  BY <1>1, <1>2, <1>3, <1>4, AdmittedFacts DEF TrafficInv, TrafficTypes, ChannelRows
<1>6. \A r \in e.inputs : lineage[r].labels \subseteq Allowed[c]
  <2>1. PICK x : x = sends[t].inputs
    OBVIOUS
  <2>2. Messages!Satisfied(c, x) /\ x \in SUBSET (1..Len(lineage))
    BY <1>1, <1>4, <1>5, <2>1 DEF Messages!Refusal
  <2> QED BY <1>5, <2>1, <2>2, SatisfiedIsAllowed
<1>7. PICK row : row = [Messages!Counted(c) EXCEPT !.sequence = channel[c].sequence + 1]
  OBVIOUS
<1>8. /\ row \in ChannelRows /\ row.attempts <= setup.rate /\ ~row.revoked
      /\ row.sequence = channel[c].sequence + 1
  <2>1. /\ Messages!Counted(c) \in ChannelRows /\ Messages!Counted(c).attempts <= setup.rate
        /\ Messages!Counted(c).revoked = channel[c].revoked
    BY <1>5, CountedKept
  <2> QED BY <1>5, <1>7, <2>1 DEF ChannelRows
<1>9. /\ channel' \in [DOMAIN channel -> ChannelRows] /\ channel'[c] = row
      /\ \A d \in DOMAIN channel \ {c} : channel'[d] = channel[d]
  <2>1. Messages!Counted(c).sequence = channel[c].sequence
    BY <1>5, CountedKept
  <2>2. channel' = [channel EXCEPT ![c] = row]
    BY <1>4, <1>7, <2>1
  <2>3. channel \in [DOMAIN channel -> ChannelRows]
    BY DEF TrafficInv, TrafficTypes
  <2> QED BY <1>5, <1>8, <2>2, <2>3
<1>10. PICK m : m = [envelope |-> e, status |-> "unknown"]
  OBVIOUS
<1>11. /\ messages' \in Seq(MessageRows) /\ Len(messages') = n + 1
       /\ messages'[n + 1] = m /\ \A i \in 1..n : messages'[i] = messages[i]
       /\ \A i \in 1..Len(messages') : i \in 1..n \/ i = n + 1
  <2>1. m \in MessageRows
    BY <1>5, <1>10 DEF MessageRows
  <2>2. messages \in Seq(MessageRows)
    BY DEF TrafficInv, TrafficTypes
  <2> QED BY <1>3, <1>4, <1>10, <2>1, <2>2
<1>12. PICK turn : turn = [stage |-> "admitted", channel |-> c, id |-> n + 1]
  OBVIOUS
<1>13. turn \in WorkRows /\ turn # Nobody
  <2>1. turn \in WorkRows
    BY <1>5, <1>12 DEF WorkRows, Messages!Delivering
  <2>2. turn.id \in 1..setup.messages
    BY <1>5, <1>12, SetupLimits DEF TrafficInv, TrafficTypes
  <2> QED BY <2>1, <2>2, WorkIsSomething
<1>14. \/ /\ halted' = halted /\ holder' = [holder EXCEPT ![c] = t]
          /\ sends' = [sends EXCEPT ![t] = turn]
       \/ halted' = TRUE /\ holder' = holder /\ sends' = [sends EXCEPT ![t] = Nobody]
  BY <1>1, <1>3, <1>12 DEF Messages!Admit
<1>15. /\ halted' \in BOOLEAN /\ holder' \in [Channels -> Threads \cup {Nobody}]
       /\ \A d \in Channels \ {c} : holder'[d] = holder[d]
       /\ sends' \in [Threads -> WaitRows \cup WorkRows \cup {Nobody}]
       /\ \A u \in Threads \ {t} : sends'[u] = sends[u]
       /\ \/ ~halted' /\ holder'[c] = t /\ sends'[t] = turn
          \/ halted' /\ sends'[t] = Nobody
  <2>1. /\ halted \in BOOLEAN /\ holder \in [Channels -> Threads \cup {Nobody}]
        /\ sends \in [Threads -> WaitRows \cup WorkRows \cup {Nobody}]
    BY DEF TrafficInv, TrafficTypes
  <2>2. CASE /\ halted' = halted /\ holder' = [holder EXCEPT ![c] = t]
             /\ sends' = [sends EXCEPT ![t] = turn]
    BY <1>5, <1>13, <2>1, <2>2
  <2>3. CASE halted' = TRUE /\ holder' = holder /\ sends' = [sends EXCEPT ![t] = Nobody]
    BY <1>5, <2>1, <2>3
  <2> QED BY <1>14, <2>2, <2>3
<1>16. TrafficTypes'
  <2>1. /\ setup \in Setups /\ clock \in 0..MaxTime /\ stale \subseteq Peers /\ quarantined \subseteq Peers
        /\ DOMAIN channel \subseteq Channels /\ lineage \in Seq(LineageRows)
        /\ drafts \subseteq EnvelopeRows /\ received \subseteq 1..n /\ inbox \in Seq(Nat)
    BY <1>3 DEF TrafficInv, TrafficTypes
  <2>2. received' \subseteq 1..Len(messages')
    BY <1>4, <1>5, <1>11, <2>1
  <2> QED BY <1>4, <1>9, <1>11, <1>15, <2>1, <2>2 DEF TrafficTypes
<1>17. WithinLimits'
  <2>1. \A d \in DOMAIN channel : channel[d].attempts <= setup.rate /\ channel[d].sequence <= n
    BY <1>3 DEF TrafficInv, WithinLimits
  <2>2. \A d \in DOMAIN channel : channel[d].sequence \in Nat
    BY DEF TrafficInv, TrafficTypes, ChannelRows
  <2>3. \A d \in DOMAIN channel' : channel'[d].attempts <= setup.rate /\ channel'[d].sequence <= n + 1
    <3> SUFFICES ASSUME NEW d \in DOMAIN channel
                 PROVE channel'[d].attempts <= setup.rate /\ channel'[d].sequence <= n + 1
      BY <1>9
    <3>1. CASE d = c
      BY <1>5, <1>8, <1>9, <2>1, <3>1
    <3>2. CASE d # c
      BY <1>5, <1>9, <2>1, <2>2, <3>2
    <3> QED BY <3>1, <3>2
  <2>4. n + 1 <= setup.messages
    BY <1>5, SetupLimits DEF TrafficInv, TrafficTypes
  <2> QED BY <1>4, <1>11, <2>3, <2>4 DEF TrafficInv, WithinLimits
<1>18. LineageOK'
  BY <1>4 DEF TrafficInv, LineageOK
<1>19. DraftsOK'
  <2>1. \A u \in Threads : WaitOK(u)'
    <3> SUFFICES ASSUME NEW u \in Threads PROVE WaitOK(u)'
      OBVIOUS
    <3>1. CASE u = t
      BY <1>12, <1>15, <3>1 DEF WaitOK
    <3>2. CASE u # t
      BY <1>4, <1>15, <3>2 DEF WaitOK, TrafficInv, DraftsOK
    <3> QED BY <3>1, <3>2
  <2> QED BY <1>4, <2>1 DEF TrafficInv, DraftsOK
<1>20. /\ \A i \in 1..n : EnvelopeOf(i)' = EnvelopeOf(i)
       /\ EnvelopeOf(n + 1)' = e
  BY <1>10, <1>11 DEF EnvelopeOf
<1>21. /\ \A i, j \in 1..n : OneChannel(i, j)' <=> OneChannel(i, j)
       /\ \A i \in 1..n : /\ OneChannel(i, n + 1)' <=> EnvelopeOf(i).channel = c
                          /\ OneChannel(n + 1, i)' <=> EnvelopeOf(i).channel = c
  BY <1>5, <1>20 DEF OneChannel
<1>22. \A i \in 1..n : /\ EnvelopeOf(i).channel \in DOMAIN channel
                       /\ EnvelopeOf(i).sequence <= channel[EnvelopeOf(i).channel].sequence
                       /\ EnvelopeOf(i).inputs \subseteq 1..Len(lineage)
                       /\ \A r \in EnvelopeOf(i).inputs :
                             lineage[r].labels \subseteq Allowed[EnvelopeOf(i).channel]
                       /\ \A j \in 1..n : i < j /\ OneChannel(i, j) =>
                             EnvelopeOf(i).sequence < EnvelopeOf(j).sequence
  BY <1>3 DEF TrafficInv, DeliveryOK, AdmittedOK
<1>23. \A i \in 1..n : EnvelopeOf(i).sequence \in Nat
  <2>1. \A i \in 1..n : messages[i] \in MessageRows
    BY <1>3 DEF TrafficInv, TrafficTypes
  <2> QED BY <2>1 DEF MessageRows, EnvelopeRows, EnvelopeOf
<1>24. AdmittedOK'
  <2> SUFFICES ASSUME NEW i \in 1..Len(messages')
               PROVE /\ EnvelopeOf(i)'.channel \in DOMAIN channel'
                     /\ EnvelopeOf(i)'.sequence <= channel'[EnvelopeOf(i)'.channel].sequence
                     /\ EnvelopeOf(i)'.inputs \subseteq 1..Len(lineage')
                     /\ \A r \in EnvelopeOf(i)'.inputs :
                           lineage'[r].labels \subseteq Allowed[EnvelopeOf(i)'.channel]
                     /\ \A j \in 1..Len(messages') : i < j /\ OneChannel(i, j)' =>
                           EnvelopeOf(i)'.sequence < EnvelopeOf(j)'.sequence
    BY DEF AdmittedOK
  <2>1. CASE i \in 1..n
    <3>1. PICK d, s : d = EnvelopeOf(i).channel /\ s = EnvelopeOf(i).sequence
      OBVIOUS
    <3>2. /\ d \in DOMAIN channel /\ s \in Nat /\ s <= channel[d].sequence
          /\ EnvelopeOf(i)'.channel = d /\ EnvelopeOf(i)'.sequence = s
      BY <1>20, <1>22, <1>23, <2>1, <3>1
    <3>3. d \in DOMAIN channel' /\ s <= channel'[d].sequence
      <4>1. CASE d = c
        BY <1>5, <1>8, <1>9, <3>2, <4>1
      <4>2. CASE d # c
        BY <1>9, <3>2, <4>2
      <4> QED BY <4>1, <4>2
    <3>4. /\ EnvelopeOf(i)'.inputs \subseteq 1..Len(lineage')
          /\ \A r \in EnvelopeOf(i)'.inputs : lineage'[r].labels \subseteq Allowed[EnvelopeOf(i)'.channel]
      BY <1>4, <1>20, <1>22, <2>1
    <3>5. ASSUME NEW j \in 1..Len(messages'), i < j, OneChannel(i, j)'
          PROVE EnvelopeOf(i)'.sequence < EnvelopeOf(j)'.sequence
      <4>1. CASE j \in 1..n
        BY <1>20, <1>21, <1>22, <2>1, <3>5, <4>1
      <4>2. CASE j = n + 1
        <5>1. d = c
          BY <1>21, <2>1, <3>1, <3>5, <4>2
        <5>2. EnvelopeOf(j)'.sequence = channel[c].sequence + 1
          BY <1>5, <1>20, <4>2
        <5> QED BY <1>5, <3>2, <5>1, <5>2
      <4> QED BY <1>11, <4>1, <4>2
    <3> QED BY <3>2, <3>3, <3>4, <3>5
  <2>2. CASE i = n + 1
    <3>1. EnvelopeOf(i)' = e
      BY <1>20, <2>2
    <3>2. \A j \in 1..Len(messages') : ~(i < j)
      BY <1>5, <1>11, <2>2
    <3>3. c \in DOMAIN channel' /\ e.sequence <= channel'[c].sequence
      BY <1>5, <1>8, <1>9
    <3> QED BY <1>4, <1>5, <1>6, <3>1, <3>2, <3>3
  <2> QED BY <1>11, <2>1, <2>2
<1>25. /\ \A k \in 1..Len(inbox) : inbox[k] \in 1..n
       /\ \A i : HasReached(i)' <=> HasReached(i)
  BY <1>3, <1>4 DEF TrafficInv, DeliveryOK, InboxOK, HasReached
<1>26. InboxOK'
  <2>1. \A k \in 1..Len(inbox) : inbox[k] \in 1..Len(messages')
    BY <1>5, <1>11, <1>25
  <2>2. /\ \A k, l \in 1..Len(inbox) : k < l /\ OneChannel(inbox[k], inbox[l]) => inbox[k] < inbox[l]
        /\ \A k, l \in 1..Len(inbox) : inbox[k] = inbox[l] => k = l
    BY DEF TrafficInv, DeliveryOK, InboxOK
  <2>3. ASSUME NEW k \in 1..Len(inbox), NEW l \in 1..Len(inbox), k < l,
               OneChannel(inbox[k], inbox[l])'
        PROVE inbox[k] < inbox[l]
    <3>1. PICK i, j : i = inbox[k] /\ j = inbox[l]
      OBVIOUS
    <3>2. OneChannel(i, j)'
      BY <1>4, <2>3, <3>1 DEF OneChannel, EnvelopeOf
    <3>3. OneChannel(i, j)
      BY <1>21, <1>25, <3>1, <3>2
    <3> QED BY <2>2, <2>3, <3>1, <3>3
  <2> QED BY <1>4, <2>1, <2>2, <2>3 DEF InboxOK
<1>27. ~Busy(t) /\ \A u \in Threads \ {t} : (Busy(u)' <=> Busy(u)) /\ sends'[u] = sends[u]
  BY <1>4, <1>15, WorkTyped DEF Busy
<1>28. \A u \in Threads \ {t} : Busy(u) => sends[u].channel # c /\ WorkOK(u) /\ sends[u].channel \in Channels
  <2> SUFFICES ASSUME NEW u \in Threads \ {t}, Busy(u)
               PROVE sends[u].channel # c /\ WorkOK(u) /\ sends[u].channel \in Channels
    OBVIOUS
  <2>1. WorkOK(u) /\ sends[u] \in WorkRows
    BY WorkIsAdmitted
  <2>2. holder[sends[u].channel] = u /\ u # Nobody
    BY <2>1, DataConstants DEF WorkOK, Messages!MessageConstants
  <2> QED BY <1>4, <2>1, <2>2 DEF WorkRows
<1>29. \A u \in Threads : WorkOK(u)'
  <2> SUFFICES ASSUME NEW u \in Threads, Busy(u)' PROVE WorkOK(u)'
    BY DEF WorkOK
  <2>1. CASE u = t
    <3>1. sends'[t] = turn /\ holder'[c] = t
      BY <1>15, <2>1 DEF Busy
    <3>2. PICK i : i = n + 1
      OBVIOUS
    <3>3. /\ sends'[u].id = i /\ sends'[u].channel = c /\ sends'[u].stage = "admitted"
          /\ holder'[sends'[u].channel] = u
      BY <1>12, <2>1, <3>1, <3>2
    <3>4. i \in 1..Len(messages') /\ EnvelopeOf(i)'.channel = c /\ messages'[i].status = "unknown"
      BY <1>5, <1>10, <1>11, <1>20, <3>2
    <3>5. i \notin received'
      BY <1>3, <1>4, <1>5, <3>2 DEF TrafficInv, TrafficTypes
    <3>6. \A j \in 1..Len(messages') : j <= i
      BY <1>5, <1>11, <3>2
    <3>7. ~HasReached(i)'
      <4>1. ~HasReached(i)
        BY <1>5, <1>25, <3>2 DEF HasReached
      <4> QED BY <1>25, <4>1
    <3> QED BY <3>3, <3>4, <3>5, <3>6, <3>7 DEF WorkOK
  <2>2. CASE u # t
    <3>1. Busy(u) /\ sends'[u] = sends[u] /\ WorkOK(u) /\ sends[u].channel # c /\ sends[u].channel \in Channels
      BY <1>27, <1>28, <2>2
    <3>2. PICK i : i = sends[u].id
      OBVIOUS
    <3>3. /\ i \in 1..n /\ EnvelopeOf(i).channel = sends[u].channel /\ holder[sends[u].channel] = u
          /\ messages[i].status = "unknown" /\ i \notin received
          /\ \A j \in 1..n : OneChannel(i, j) => j <= i
          /\ sends[u].stage \in {"admitted", "checked"} => ~HasReached(i)
          /\ sends[u].stage = "returned" => HasReached(i)
      BY <1>3, <3>1, <3>2 DEF WorkOK
    <3>4. /\ i \in 1..Len(messages') /\ EnvelopeOf(i)' = EnvelopeOf(i)
          /\ holder'[sends[u].channel] = u /\ messages'[i].status = "unknown" /\ i \notin received'
      BY <1>4, <1>5, <1>11, <1>15, <1>20, <3>1, <3>3
    <3>5. \A j \in 1..Len(messages') : OneChannel(i, j)' => j <= i
      <4> SUFFICES ASSUME NEW j \in 1..Len(messages'), OneChannel(i, j)' PROVE j <= i
        OBVIOUS
      <4>1. CASE j \in 1..n
        BY <1>21, <3>3, <4>1
      <4>2. CASE j = n + 1
        BY <1>21, <3>1, <3>3, <4>2
      <4> QED BY <1>11, <4>1, <4>2
    <3> QED BY <1>25, <3>1, <3>2, <3>3, <3>4, <3>5 DEF WorkOK
  <2> QED BY <2>1, <2>2
<1>30. \A i \in 1..Len(messages') : OutcomeOK(i)'
  <2> SUFFICES ASSUME NEW i \in 1..Len(messages'),
                      \A u \in Threads : Busy(u)' => sends'[u].id # i
               PROVE OutcomeOK(i)'
    BY DEF OutcomeOK
  <2>1. CASE i \in 1..n
    <3>1. \A u \in Threads : Busy(u) => sends[u].id # i
      BY <1>27
    <3>2. OutcomeOK(i)
      BY <1>3, <2>1 DEF TrafficInv, DeliveryOK
    <3>3. EnvelopeOf(i)' = EnvelopeOf(i) /\ messages'[i] = messages[i] /\ EnvelopeOf(i).channel \in DOMAIN channel
      BY <1>11, <1>20, <1>22, <2>1
    <3>4. messages'[i].status = "unknown" =>
            /\ halted' \/ channel'[EnvelopeOf(i).channel].revoked
            /\ \A j \in 1..Len(messages') : OneChannel(i, j)' => j <= i
      <4> HAVE messages'[i].status = "unknown"
      <4>1. /\ channel[EnvelopeOf(i).channel].revoked
            /\ \A j \in 1..n : OneChannel(i, j) => j <= i
        BY <1>3, <1>5, <3>1, <3>2, <3>3 DEF OutcomeOK
      <4>2. EnvelopeOf(i).channel # c
        BY <1>5, <4>1
      <4>3. channel'[EnvelopeOf(i).channel].revoked
        BY <1>9, <3>3, <4>1, <4>2
      <4>4. ASSUME NEW j \in 1..Len(messages'), OneChannel(i, j)' PROVE j <= i
        <5>1. CASE j \in 1..n
          BY <1>21, <2>1, <4>1, <4>4, <5>1
        <5>2. CASE j = n + 1
          BY <1>21, <2>1, <4>2, <4>4, <5>2
        <5> QED BY <1>11, <5>1, <5>2
      <4> QED BY <4>3, <4>4
    <3>5. messages'[i].status = "delivered" =>
            /\ i \in received' /\ HasReached(i)'
            /\ \E r \in 1..Len(lineage') :
                  /\ lineage'[r].actor = To[EnvelopeOf(i).channel] /\ lineage'[r].complete
                  /\ lineage'[r].parents = EnvelopeOf(i).inputs
      BY <1>4, <1>25, <3>1, <3>2, <3>3 DEF OutcomeOK
    <3>6. i \in received' /\ messages'[i].status # "delivered" => halted'
      BY <1>4, <1>5, <3>1, <3>2, <3>3 DEF OutcomeOK
    <3> QED BY <3>3, <3>4, <3>5, <3>6 DEF OutcomeOK
  <2>2. CASE i = n + 1
    <3>1. halted'
      <4>1. CASE sends'[t] = turn
        <5>1. Busy(t)' /\ sends'[t].id = i
          BY <1>12, <1>13, <2>2, <4>1 DEF Busy, Messages!Delivering
        <5> QED BY <5>1
      <4>2. CASE halted'
        BY <4>2
      <4> QED BY <1>15, <4>1, <4>2
    <3>2. messages'[i].status = "unknown"
      BY <1>10, <1>11, <2>2
    <3>3. \A j \in 1..Len(messages') : j <= i
      BY <1>5, <1>11, <2>2
    <3> QED BY <3>1, <3>2, <3>3 DEF OutcomeOK
  <2> QED BY <1>11, <2>1, <2>2
<1>31. DeliveryOK'
  BY <1>24, <1>26, <1>29, <1>30 DEF DeliveryOK
<1> QED BY <1>16, <1>17, <1>18, <1>19, <1>31 DEF TrafficInv

-----------------------------------------------------------------------------
(* The inbox is called, and the outcome recorded.                          *)

\* Two threads at work have different channels and messages.
LEMMA WorkIsApart ==
    ASSUME TrafficInv, NEW t \in Threads, NEW u \in Threads, Busy(t), Busy(u), t # u
    PROVE sends[t].channel # sends[u].channel /\ sends[t].id # sends[u].id
<1>1. WorkOK(t) /\ WorkOK(u)
  BY WorkIsAdmitted
<1>2. holder[sends[t].channel] = t /\ holder[sends[u].channel] = u
  BY <1>1 DEF WorkOK
<1>3. EnvelopeOf(sends[t].id).channel = sends[t].channel /\ EnvelopeOf(sends[u].id).channel = sends[u].channel
  BY <1>1 DEF WorkOK
<1> QED BY <1>2, <1>3

\* The inbox gets the message (messages.py _deliver).
LEMMA ReachKeeps ==
    ASSUME TrafficInv, NEW t \in Threads, Messages!InStage(t, "checked"),
           NEW stage \in {"returned", "raised"}, NEW row, row = [sends[t] EXCEPT !.stage = stage],
           inbox' = Append(inbox, sends[t].id), sends' = [sends EXCEPT ![t] = row],
           UNCHANGED <<setup, clock, stale, quarantined, channel, lineage, drafts, messages,
                       received, halted, holder>>
    PROVE TrafficInv'
<1>1. /\ sends[t] # Nobody /\ sends[t].stage = "checked" /\ Busy(t) /\ sends[t] \in WorkRows
      /\ WorkOK(t) /\ sends[t].id \in 1..setup.messages
  <2>1. sends[t] # Nobody /\ sends[t].stage = "checked"
    BY DEF Messages!InStage
  <2>2. Busy(t)
    BY <2>1, WorkTyped DEF Messages!Delivering
  <2> QED BY <2>1, <2>2, WorkIsAdmitted
<1>2. PICK i : i = sends[t].id
  OBVIOUS
<1>3. /\ i \in 1..Len(messages) /\ i \in Nat /\ i \notin received /\ messages[i].status = "unknown"
      /\ EnvelopeOf(i).channel = sends[t].channel /\ holder[sends[t].channel] = t
      /\ \A j \in 1..Len(messages) : OneChannel(i, j) => j <= i
      /\ ~HasReached(i)
  BY <1>1, <1>2 DEF WorkOK
<1>4. /\ row \in WorkRows /\ row # Nobody /\ row.id = i /\ row.channel = sends[t].channel
      /\ row.stage = stage /\ stage \in Messages!Delivering
  <2>1. stage \in Messages!Delivering
    BY DEF Messages!Delivering
  <2>2. row \in WorkRows /\ row.id = i /\ row.channel = sends[t].channel /\ row.stage = stage
    BY <1>1, <1>2, <2>1 DEF WorkRows
  <2> QED BY <1>1, <1>2, <2>1, <2>2, WorkIsSomething
<1>5. /\ sends' \in [Threads -> WaitRows \cup WorkRows \cup {Nobody}] /\ sends'[t] = row
      /\ \A u \in Threads \ {t} : sends'[u] = sends[u]
  BY <1>4, OneThread
<1>6. PICK n : n = Len(inbox)
  OBVIOUS
<1>7. /\ inbox' \in Seq(Nat) /\ Len(inbox') = n + 1 /\ inbox'[n + 1] = i /\ n \in Nat
      /\ \A k \in 1..n : inbox'[k] = inbox[k]
      /\ \A k \in 1..Len(inbox') : k \in 1..n \/ k = n + 1
  BY <1>2, <1>3, <1>6 DEF TrafficInv, TrafficTypes
<1>8. TrafficTypes' /\ WithinLimits' /\ LineageOK'
  BY <1>5, <1>7 DEF TrafficInv, TrafficTypes, WithinLimits, LineageOK
<1>9. DraftsOK'
  <2>1. \A u \in Threads : WaitOK(u)'
    <3> SUFFICES ASSUME NEW u \in Threads PROVE WaitOK(u)'
      OBVIOUS
    <3>1. CASE u = t
      BY <1>4, <1>5, <3>1 DEF WaitOK
    <3>2. CASE u # t
      BY <1>5, <3>2 DEF WaitOK, TrafficInv, DraftsOK
    <3> QED BY <3>1, <3>2
  <2> QED BY <2>1 DEF TrafficInv, DraftsOK
<1>10. AdmittedOK'
  BY DEF TrafficInv, DeliveryOK, AdmittedOK, OneChannel, EnvelopeOf
<1>11. \A j : HasReached(j)' <=> HasReached(j) \/ j = i
  <2> SUFFICES ASSUME NEW j PROVE HasReached(j)' <=> HasReached(j) \/ j = i
    OBVIOUS
  <2>1. ASSUME HasReached(j) PROVE HasReached(j)'
    <3>1. PICK k \in 1..n : inbox[k] = j
      BY <1>6, <2>1 DEF HasReached
    <3>2. k \in 1..Len(inbox') /\ inbox'[k] = j
      BY <1>7, <3>1
    <3> QED BY <3>2 DEF HasReached
  <2>2. ASSUME j = i PROVE HasReached(j)'
    <3>1. n + 1 \in 1..Len(inbox')
      BY <1>7
    <3> QED BY <1>7, <2>2, <3>1 DEF HasReached
  <2>3. ASSUME HasReached(j)', j # i PROVE HasReached(j)
    <3>1. PICK k \in 1..Len(inbox') : inbox'[k] = j
      BY <2>3 DEF HasReached
    <3>2. k \in 1..n /\ inbox[k] = j
      BY <1>7, <2>3, <3>1
    <3> QED BY <1>6, <3>2 DEF HasReached
  <2> QED BY <2>1, <2>2, <2>3
<1>12. \A j, k : OneChannel(j, k)' <=> OneChannel(j, k)
  BY DEF OneChannel, EnvelopeOf
<1>13. InboxOK'
  <2>1. /\ \A k \in 1..n : inbox[k] \in 1..Len(messages)
        /\ \A k, l \in 1..n : k < l /\ OneChannel(inbox[k], inbox[l]) => inbox[k] < inbox[l]
        /\ \A k, l \in 1..n : inbox[k] = inbox[l] => k = l
        /\ \A k \in 1..n : inbox[k] # i
    BY <1>3, <1>6 DEF TrafficInv, DeliveryOK, InboxOK, HasReached
  <2>2. \A k \in 1..Len(inbox') : inbox'[k] \in 1..Len(messages')
    BY <1>3, <1>7, <2>1
  <2>3. \A k, l \in 1..Len(inbox') : inbox'[k] = inbox'[l] => k = l
    BY <1>7, <2>1
  <2>4. ASSUME NEW k \in 1..Len(inbox'), NEW l \in 1..Len(inbox'), k < l,
               OneChannel(inbox[k], inbox[l])'
        PROVE inbox'[k] < inbox'[l]
    <3>1. PICK a, b : a = inbox'[k] /\ b = inbox'[l]
      OBVIOUS
    <3>2. OneChannel(a, b)
      BY <2>4, <3>1 DEF OneChannel, EnvelopeOf
    <3>3. k \in 1..n
      BY <1>7, <2>4
    <3>4. a = inbox[k] /\ a \in 1..Len(messages) /\ a # i
      BY <1>7, <2>1, <3>1, <3>3
    <3>5. CASE l \in 1..n
      <4>1. b = inbox[l]
        BY <1>7, <3>1, <3>5
      <4> QED BY <2>1, <2>4, <3>1, <3>2, <3>3, <3>4, <3>5, <4>1
    <3>6. CASE l = n + 1
      <4>1. b = i /\ OneChannel(i, a)
        BY <1>7, <3>1, <3>2, <3>6 DEF OneChannel
      <4>2. a <= i
        BY <1>3, <3>4, <4>1
      <4> QED BY <1>3, <3>1, <3>4, <4>1, <4>2
    <3> QED BY <1>7, <3>5, <3>6
  <2> QED BY <2>2, <2>3, <2>4 DEF InboxOK
<1>14. \A u \in Threads : WorkOK(u)'
  <2> SUFFICES ASSUME NEW u \in Threads, Busy(u)' PROVE WorkOK(u)'
    BY DEF WorkOK
  <2>1. CASE u = t
    <3>1. HasReached(i)'
      BY <1>11
    <3>2. stage \notin {"admitted", "checked"}
      OBVIOUS
    <3> QED BY <1>3, <1>4, <1>5, <1>12, <2>1, <3>1, <3>2 DEF WorkOK, EnvelopeOf
  <2>2. CASE u # t
    <3>1. Busy(u) /\ sends'[u] = sends[u]
      BY <1>5, <2>2 DEF Busy
    <3>2. WorkOK(u) /\ sends[u].id # i
      BY <1>1, <1>2, <2>2, <3>1, WorkIsAdmitted, WorkIsApart
    <3>3. PICK j : j = sends[u].id
      OBVIOUS
    <3>4. HasReached(j)' <=> HasReached(j)
      BY <1>11, <3>2, <3>3
    <3>5. /\ j \in 1..Len(messages) /\ EnvelopeOf(j).channel = sends[u].channel
          /\ holder[sends[u].channel] = u /\ messages[j].status = "unknown" /\ j \notin received
          /\ \A k \in 1..Len(messages) : OneChannel(j, k) => k <= j
          /\ sends[u].stage \in {"admitted", "checked"} => ~HasReached(j)
          /\ sends[u].stage = "returned" => HasReached(j)
      BY <3>1, <3>2, <3>3 DEF WorkOK
    <3> QED BY <3>1, <3>3, <3>4, <3>5 DEF WorkOK, EnvelopeOf, OneChannel, HasReached
  <2> QED BY <2>1, <2>2
<1>15. \A j \in 1..Len(messages') : OutcomeOK(j)'
  <2> SUFFICES ASSUME NEW j \in 1..Len(messages), \A u \in Threads : Busy(u)' => sends'[u].id # j
               PROVE OutcomeOK(j)'
    BY DEF OutcomeOK
  <2>1. \A u \in Threads : Busy(u) => sends[u].id # j
    <3> SUFFICES ASSUME NEW u \in Threads, Busy(u) PROVE sends[u].id # j
      OBVIOUS
    <3>1. CASE u = t
      <4>1. Busy(t)' /\ sends'[t].id = i
        BY <1>4, <1>5 DEF Busy
      <4> QED BY <1>2, <3>1, <4>1
    <3>2. CASE u # t
      BY <1>5, <3>2 DEF Busy
    <3> QED BY <3>1, <3>2
  <2>2. OutcomeOK(j)
    BY DEF TrafficInv, DeliveryOK
  <2>3. HasReached(j) => HasReached(j)'
    BY <1>11
  <2> QED BY <1>12, <2>1, <2>2, <2>3 DEF OutcomeOK, EnvelopeOf
<1> QED BY <1>8, <1>9, <1>10, <1>13, <1>14, <1>15 DEF TrafficInv, DeliveryOK

\* The call of the inbox keeps the invariant, whether it raises or not.
LEMMA InvokeKeeps ==
    ASSUME TrafficInv, NEW t \in Threads, Messages!Invoke(t), UNCHANGED setup PROVE TrafficInv'
<1>1. /\ Messages!InStage(t, "checked")
      /\ UNCHANGED <<setup, clock, stale, quarantined, channel, lineage, drafts, messages, received,
                     halted, holder>>
  BY DEF Messages!Invoke, Messages!flow
<1>2. PICK stage \in {"returned", "raised"} :
        /\ sends' = [sends EXCEPT ![t] = [sends[t] EXCEPT !.stage = stage]]
        /\ \/ inbox' = Append(inbox, sends[t].id)
           \/ stage = "raised" /\ inbox' = inbox
  <2>1. t \in DOMAIN sends
    BY DEF TrafficInv, TrafficTypes
  <2> QED BY <2>1 DEF Messages!Invoke
<1>3. PICK row : row = [sends[t] EXCEPT !.stage = stage]
  OBVIOUS
<1>4. CASE inbox' = Append(inbox, sends[t].id)
  BY <1>1, <1>2, <1>3, <1>4, ReachKeeps
<1>5. CASE stage = "raised" /\ inbox' = inbox
  <2>1. sends[t] # Nobody /\ sends[t].stage = "checked"
    BY <1>1 DEF Messages!InStage
  <2>2. Busy(t) /\ sends[t] \in WorkRows /\ sends[t].id \in 1..setup.messages
    <3>1. Busy(t)
      BY <2>1, WorkTyped DEF Messages!Delivering
    <3> QED BY <3>1, WorkIsAdmitted
  <2>3. /\ row \in WorkRows /\ row.id = sends[t].id /\ row.channel = sends[t].channel
        /\ row.stage = "raised" /\ row # Nobody
    <3>1. /\ row \in WorkRows /\ row.id = sends[t].id /\ row.channel = sends[t].channel
          /\ row.stage = "raised"
      BY <1>3, <1>5, <2>2 DEF WorkRows, Messages!Delivering
    <3> QED BY <2>2, <3>1, WorkIsSomething
  <2>4. /\ sends' \in [Threads -> WaitRows \cup WorkRows \cup {Nobody}] /\ sends'[t] = row
        /\ \A u \in Threads \ {t} : sends'[u] = sends[u]
    BY <1>2, <1>3, <2>3, OneThread
  <2>5. Busy(t)' /\ \A u \in Threads \ {t} : Busy(u)' <=> Busy(u)
    BY <2>3, <2>4 DEF Busy, Messages!Delivering
  <2>6. SameWork
    BY <2>2, <2>3, <2>4, <2>5 DEF SameWork
  <2>7. DraftsOK'
    BY <1>1, <2>3, <2>4 DEF TrafficInv, DraftsOK, WaitOK
  <2>8. PICK chs : chs = channel
    OBVIOUS
  <2>9. /\ ChannelsKept(chs) /\ channel' = chs
        /\ clock' \in 0..MaxTime /\ stale' \subseteq Peers /\ quarantined' \subseteq Peers
        /\ drafts' \subseteq EnvelopeRows
    BY <1>1, <2>8, SameKept DEF TrafficInv, TrafficTypes
  <2> QED BY <1>1, <1>5, <2>4, <2>6, <2>7, <2>9, ChannelStepKeeps
<1> QED BY <1>2, <1>4, <1>5

\* The end of a delivery keeps the invariant if its outcome is right.
LEMMA EndKeeps ==
    ASSUME TrafficInv, NEW t \in Threads, Busy(t), NEW i, i = sends[t].id,
           NEW chs, ChannelsKept(chs), channel' = chs,
           NEW m \in MessageRows, m.envelope = messages[i].envelope,
           messages' = [messages EXCEPT ![i] = m],
           received \subseteq received', received' \subseteq received \cup {i},
           halted' \in BOOLEAN, halted => halted',
           lineage' \in Seq(LineageRows), Len(lineage') <= setup.records,
           \A r \in 1..Len(lineage') : lineage'[r].depth \in 1..setup.depth,
           LineageOK', Extended, Messages!Done(t), OutcomeOK(i)',
           UNCHANGED <<setup, clock, stale, quarantined, drafts, inbox>>
    PROVE TrafficInv'
<1>1. /\ WorkOK(t) /\ i \in 1..Len(messages) /\ sends[t].channel \in Channels
      /\ EnvelopeOf(i).channel = sends[t].channel
  BY WorkIsAdmitted DEF WorkOK, WorkRows
<1>2. /\ \A c \in DOMAIN channel : c \in DOMAIN channel' /\ channel'[c].attempts <= setup.rate
                                   /\ channel'[c].sequence = channel[c].sequence
                                   /\ (channel[c].revoked => channel'[c].revoked)
      /\ DOMAIN channel' = DOMAIN channel /\ channel' \in [DOMAIN channel -> ChannelRows]
  BY DEF ChannelsKept
<1>3. /\ Len(messages') = Len(messages) /\ messages' \in Seq(MessageRows) /\ messages'[i] = m
      /\ \A j \in 1..Len(messages) \ {i} : messages'[j] = messages[j]
  BY <1>1 DEF TrafficInv, TrafficTypes
<1>4. /\ holder' \in [Channels -> Threads \cup {Nobody}]
      /\ \A c \in Channels \ {sends[t].channel} : holder'[c] = holder[c]
  BY <1>1 DEF TrafficInv, TrafficTypes, Messages!Done
<1>5. PICK row : row = Nobody
  OBVIOUS
<1>6. /\ sends' \in [Threads -> WaitRows \cup WorkRows \cup {Nobody}] /\ sends'[t] = Nobody
      /\ \A u \in Threads \ {t} : sends'[u] = sends[u]
  BY <1>5, OneThread DEF Messages!Done
<1>7. ~Busy(t)' /\ \A u \in Threads \ {t} : Busy(u)' <=> Busy(u)
  BY <1>6 DEF Busy
<1>8. TrafficTypes'
  <2>1. received' \subseteq 1..Len(messages')
    BY <1>1, <1>3 DEF TrafficInv, TrafficTypes
  <2> QED BY <1>2, <1>3, <1>4, <1>6, <2>1 DEF TrafficInv, TrafficTypes
<1>9. WithinLimits'
  BY <1>2, <1>3 DEF TrafficInv, WithinLimits
<1>10. /\ 1..Len(lineage) \subseteq 1..Len(lineage')
       /\ \A r \in 1..Len(lineage) : lineage'[r] = lineage[r]
  BY DEF TrafficInv, TrafficTypes, Extended
<1>11. DraftsOK'
  <2>1. \A u \in Threads : WaitOK(u)'
    <3> SUFFICES ASSUME NEW u \in Threads PROVE WaitOK(u)'
      OBVIOUS
    <3>1. CASE u = t
      BY <1>6, <3>1 DEF WaitOK
    <3>2. CASE u # t
      BY <1>6, <1>10, <3>2 DEF WaitOK, TrafficInv, DraftsOK
    <3> QED BY <3>1, <3>2
  <2> QED BY <1>10, <2>1 DEF TrafficInv, DraftsOK
<1>12. \A j \in 1..Len(messages) : EnvelopeOf(j)' = EnvelopeOf(j)
  BY <1>3 DEF EnvelopeOf
<1>13. \A j, k \in 1..Len(messages) : OneChannel(j, k)' <=> OneChannel(j, k)
  BY <1>12 DEF OneChannel
<1>14. AdmittedOK'
  <2> SUFFICES ASSUME NEW j \in 1..Len(messages)
               PROVE /\ EnvelopeOf(j)'.channel \in DOMAIN channel'
                     /\ EnvelopeOf(j)'.sequence <= channel'[EnvelopeOf(j)'.channel].sequence
                     /\ EnvelopeOf(j)'.inputs \subseteq 1..Len(lineage')
                     /\ \A r \in EnvelopeOf(j)'.inputs :
                           lineage'[r].labels \subseteq Allowed[EnvelopeOf(j)'.channel]
                     /\ \A k \in 1..Len(messages) : j < k /\ OneChannel(j, k)' =>
                           EnvelopeOf(j)'.sequence < EnvelopeOf(k)'.sequence
    BY <1>3 DEF AdmittedOK
  <2>1. /\ EnvelopeOf(j).channel \in DOMAIN channel
        /\ EnvelopeOf(j).sequence <= channel[EnvelopeOf(j).channel].sequence
        /\ EnvelopeOf(j).inputs \subseteq 1..Len(lineage)
        /\ \A r \in EnvelopeOf(j).inputs : lineage[r].labels \subseteq Allowed[EnvelopeOf(j).channel]
        /\ \A k \in 1..Len(messages) :
              j < k /\ OneChannel(j, k) => EnvelopeOf(j).sequence < EnvelopeOf(k).sequence
    BY DEF TrafficInv, DeliveryOK, AdmittedOK
  <2> QED BY <1>2, <1>10, <1>12, <1>13, <2>1
<1>15. InboxOK'
  <2>1. /\ \A k \in 1..Len(inbox) : inbox[k] \in 1..Len(messages)
        /\ \A k, l \in 1..Len(inbox) : k < l /\ OneChannel(inbox[k], inbox[l]) => inbox[k] < inbox[l]
        /\ \A k, l \in 1..Len(inbox) : inbox[k] = inbox[l] => k = l
    BY DEF TrafficInv, DeliveryOK, InboxOK
  <2>2. ASSUME NEW k \in 1..Len(inbox), NEW l \in 1..Len(inbox), k < l, OneChannel(inbox[k], inbox[l])'
        PROVE inbox[k] < inbox[l]
    <3>1. PICK a, b : a = inbox[k] /\ b = inbox[l]
      OBVIOUS
    <3>2. OneChannel(a, b)'
      BY <2>2, <3>1 DEF OneChannel, EnvelopeOf
    <3>3. OneChannel(a, b)
      BY <1>13, <2>1, <3>1, <3>2
    <3> QED BY <2>1, <2>2, <3>1, <3>3
  <2> QED BY <1>3, <2>1, <2>2 DEF InboxOK
<1>16. \A u \in Threads : WorkOK(u)'
  <2> SUFFICES ASSUME NEW u \in Threads, Busy(u)' PROVE WorkOK(u)'
    BY DEF WorkOK
  <2>1. u # t /\ Busy(u) /\ sends'[u] = sends[u]
    BY <1>6, <1>7
  <2>2. /\ WorkOK(u) /\ sends[u].id # i /\ sends[u].channel # sends[t].channel
        /\ sends[u].channel \in Channels
    BY <2>1, WorkIsAdmitted, WorkIsApart DEF WorkRows
  <2>3. PICK j : j = sends[u].id
    OBVIOUS
  <2>4. /\ j \in 1..Len(messages) /\ j # i /\ EnvelopeOf(j).channel = sends[u].channel
        /\ holder[sends[u].channel] = u /\ messages[j].status = "unknown" /\ j \notin received
        /\ \A k \in 1..Len(messages) : OneChannel(j, k) => k <= j
        /\ sends[u].stage \in {"admitted", "checked"} => ~HasReached(j)
        /\ sends[u].stage = "returned" => HasReached(j)
    BY <2>1, <2>2, <2>3 DEF WorkOK
  <2>5. /\ EnvelopeOf(j)' = EnvelopeOf(j) /\ messages'[j] = messages[j] /\ j \notin received'
        /\ holder'[sends[u].channel] = u /\ \A k \in 1..Len(messages) : OneChannel(j, k)' => k <= j
    BY <1>3, <1>4, <1>12, <1>13, <2>2, <2>4
  <2> QED BY <1>3, <2>1, <2>3, <2>4, <2>5 DEF WorkOK, EnvelopeOf, OneChannel, HasReached
<1>17. \A j \in 1..Len(messages') : OutcomeOK(j)'
  <2> SUFFICES ASSUME NEW j \in 1..Len(messages), j # i PROVE OutcomeOK(j)'
    BY <1>3
  <2> SUFFICES ASSUME \A u \in Threads : Busy(u)' => sends'[u].id # j PROVE OutcomeOK(j)'
    BY DEF OutcomeOK
  <2>1. \A u \in Threads : Busy(u) => sends[u].id # j
    <3> SUFFICES ASSUME NEW u \in Threads, Busy(u) PROVE sends[u].id # j
      OBVIOUS
    <3>1. CASE u = t
      BY <3>1
    <3>2. CASE u # t
      BY <1>6, <1>7, <3>2
    <3> QED BY <3>1, <3>2
  <2>2. OutcomeOK(j) /\ messages'[j] = messages[j] /\ EnvelopeOf(j)' = EnvelopeOf(j)
        /\ EnvelopeOf(j).channel \in DOMAIN channel
    BY <1>3, <1>12 DEF TrafficInv, DeliveryOK, AdmittedOK
  <2>3. messages[j].status = "unknown" =>
          /\ halted' \/ channel'[EnvelopeOf(j).channel].revoked
          /\ \A k \in 1..Len(messages) : OneChannel(j, k)' => k <= j
    BY <1>2, <1>13, <2>1, <2>2 DEF OutcomeOK
  <2>4. messages[j].status = "delivered" =>
          /\ j \in received' /\ HasReached(j)'
          /\ \E r \in 1..Len(lineage') :
                /\ lineage'[r].actor = To[EnvelopeOf(j).channel] /\ lineage'[r].complete
                /\ lineage'[r].parents = EnvelopeOf(j).inputs
    BY <1>10, <2>1, <2>2 DEF OutcomeOK, HasReached
  <2>5. j \in received' /\ messages[j].status # "delivered" => halted'
    BY <2>1, <2>2 DEF OutcomeOK
  <2> QED BY <1>3, <2>2, <2>3, <2>4, <2>5 DEF OutcomeOK
<1> QED BY <1>8, <1>9, <1>11, <1>14, <1>15, <1>16, <1>17 DEF TrafficInv, DeliveryOK

\* A delivery whose outcome is uncertain closes its channel.
LEMMA UncertainKeeps ==
    ASSUME TrafficInv, NEW t \in Threads, Messages!Uncertain(t), UNCHANGED setup PROVE TrafficInv'
<1>1. /\ UNCHANGED <<setup, clock, stale, quarantined, lineage, drafts, messages, received, halted, inbox>>
      /\ sends[t] # Nobody /\ sends[t].stage = "raised" /\ Messages!Done(t)
      /\ channel' = [channel EXCEPT ![sends[t].channel].revoked = TRUE]
  BY DEF Messages!Uncertain, Messages!InStage, Messages!flow
<1>2. Busy(t) /\ WorkOK(t) /\ sends[t] \in WorkRows
  <2>1. Busy(t)
    BY <1>1, WorkTyped DEF Messages!Delivering
  <2> QED BY <2>1, WorkIsAdmitted
<1>3. PICK i, c : i = sends[t].id /\ c = sends[t].channel
  OBVIOUS
<1>4. /\ i \in 1..Len(messages) /\ EnvelopeOf(i).channel = c /\ i \notin received
      /\ messages[i].status = "unknown" /\ \A j \in 1..Len(messages) : OneChannel(i, j) => j <= i
      /\ messages \in Seq(MessageRows)
  BY <1>2, <1>3 DEF WorkOK, TrafficInv, TrafficTypes
<1>5. c \in DOMAIN channel
  BY <1>4 DEF TrafficInv, DeliveryOK, AdmittedOK
<1>6. PICK row : row = [channel[c] EXCEPT !.revoked = TRUE]
  OBVIOUS
<1>7. /\ row \in ChannelRows /\ row.attempts <= setup.rate /\ row.sequence = channel[c].sequence
      /\ row.revoked
  <2>1. channel[c] \in ChannelRows /\ channel[c].attempts <= setup.rate
    BY <1>5 DEF TrafficInv, TrafficTypes, WithinLimits
  <2> QED BY <1>6, <2>1 DEF ChannelRows
<1>8. PICK chs : chs = channel'
  OBVIOUS
<1>9. ChannelsKept(chs) /\ chs[c].revoked
  <2>1. ChannelsKept([channel EXCEPT ![c] = row])
    BY <1>5, <1>7, RowKept
  <2>2. chs = [channel EXCEPT ![c] = row]
    BY <1>1, <1>3, <1>5, <1>6, <1>8
  <2> QED BY <1>5, <1>7, <2>1, <2>2
<1>10. PICK m : m = messages[i]
  OBVIOUS
<1>11. m \in MessageRows /\ messages' = [messages EXCEPT ![i] = m]
  BY <1>1, <1>4, <1>10
<1>12. /\ lineage' \in Seq(LineageRows) /\ Len(lineage') <= setup.records /\ LineageOK'
       /\ \A r \in 1..Len(lineage') : lineage'[r].depth \in 1..setup.depth
       /\ Extended /\ halted' \in BOOLEAN
  BY <1>1 DEF TrafficInv, TrafficTypes, WithinLimits, LineageOK, Extended
<1>13. OutcomeOK(i)'
  <2>1. channel'[EnvelopeOf(i)'.channel].revoked
    BY <1>1, <1>4, <1>8, <1>9 DEF EnvelopeOf
  <2> QED BY <1>1, <1>4, <2>1 DEF OutcomeOK, OneChannel, EnvelopeOf
<1> QED BY <1>1, <1>2, <1>3, <1>8, <1>9, <1>10, <1>11, <1>12, <1>13, EndKeeps

\* The receipt keeps the invariant: the outcome is "delivered" only with a complete record of
\* the recipient, and every other outcome stops the gateway.
LEMMA ReceiptKeeps ==
    ASSUME TrafficInv, NEW t \in Threads, Messages!Receipt(t), UNCHANGED setup PROVE TrafficInv'
<1>1. /\ UNCHANGED <<setup, clock, stale, quarantined, channel, drafts, inbox>>
      /\ sends[t] # Nobody /\ sends[t].stage = "returned" /\ Messages!Done(t)
  BY DEF Messages!Receipt, Messages!InStage
<1>2. Busy(t) /\ WorkOK(t) /\ sends[t] \in WorkRows
  <2>1. Busy(t)
    BY <1>1, WorkTyped DEF Messages!Delivering
  <2> QED BY <2>1, WorkIsAdmitted
<1>3. PICK i, c : i = sends[t].id /\ c = sends[t].channel
  OBVIOUS
<1>4. /\ i \in 1..Len(messages) /\ EnvelopeOf(i).channel = c /\ i \notin received
      /\ messages[i].status = "unknown" /\ HasReached(i)
      /\ \A j \in 1..Len(messages) : OneChannel(i, j) => j <= i
      /\ messages \in Seq(MessageRows) /\ messages[i] \in MessageRows
  BY <1>1, <1>2, <1>3 DEF WorkOK, TrafficInv, TrafficTypes
<1>5. PICK p, k, x : p = To[c] /\ k = EnvelopeOf(i).content /\ x = EnvelopeOf(i).inputs
  OBVIOUS
<1>6. p \in Peers /\ k \in Bodies /\ x \in SUBSET (1..Len(lineage))
  <2>1. c \in Channels
    BY <1>2, <1>3 DEF WorkRows
  <2>2. x \in SUBSET (1..Len(lineage))
    BY <1>4, <1>5 DEF TrafficInv, DeliveryOK, AdmittedOK
  <2>3. k \in Bodies
    BY <1>4, <1>5 DEF MessageRows, EnvelopeRows, EnvelopeOf
  <2> QED BY <1>5, <2>1, <2>2, <2>3, DataConstants DEF Messages!MessageConstants
<1>7. PICK b : b = TRUE
  OBVIOUS
<1>8. PICK record : record = Messages!Derived(p, k, x, b, b)
  OBVIOUS
<1>9. /\ \/ lineage' = lineage
         \/ lineage' = record /\ Messages!Room(x)
      /\ received' = received \/ received' = received \cup {i}
      /\ \/ halted' = TRUE /\ messages' = messages
         \/ /\ halted' = halted /\ messages' = [messages EXCEPT ![i].status = "delivered"]
            /\ received' = received \cup {i} /\ lineage' = record /\ Messages!Room(x)
            /\ Messages!Last(record).complete
  <2>1. /\ messages[sends[t].id].envelope = EnvelopeOf(i) /\ EnvelopeOf(i).content = k
        /\ EnvelopeOf(i).inputs = x /\ To[sends[t].channel] = p
        /\ record = Messages!Derived(p, k, x, TRUE, TRUE)
    BY <1>3, <1>5, <1>7, <1>8 DEF EnvelopeOf
  <2>2. PICK event : event = (Messages!Open(sends[t].channel) /\ ~Messages!Expired(t))
    OBVIOUS
  <2>3. PICK derived : derived = (event /\ Messages!Room(x) /\ \A r \in x : Messages!Current(r))
    OBVIOUS
  <2>4. \/ /\ received' = (IF event THEN received \cup {i} ELSE received)
           /\ lineage' = (IF derived THEN record ELSE lineage)
           /\ IF derived /\ Messages!Last(record).complete
              THEN messages' = [messages EXCEPT ![i].status = "delivered"] /\ halted' = halted
              ELSE halted' = TRUE /\ messages' = messages
        \/ halted' = TRUE /\ received' = received /\ lineage' = lineage /\ messages' = messages
    BY <1>3, <2>1, <2>2, <2>3 DEF Messages!Receipt
  <2>5. derived => event /\ Messages!Room(x)
    BY <2>3
  <2> HIDE <2>2, <2>3
  <2> QED BY <2>4, <2>5
<1>10. PICK chs : chs = channel
  OBVIOUS
<1>11. ChannelsKept(chs) /\ channel' = chs
  BY <1>1, <1>10, SameKept
<1>12. /\ lineage' \in Seq(LineageRows) /\ Len(lineage') <= setup.records /\ LineageOK'
       /\ \A r \in 1..Len(lineage') : lineage'[r].depth \in 1..setup.depth
       /\ Extended
       /\ lineage' = record /\ Messages!Room(x) =>
             /\ Len(lineage') \in Nat \ {0} /\ lineage'[Len(lineage')].actor = p
             /\ lineage'[Len(lineage')].parents = x
  <2>1. CASE lineage' = lineage /\ ~(lineage' = record /\ Messages!Room(x))
    BY <2>1 DEF TrafficInv, TrafficTypes, WithinLimits, LineageOK, Extended
  <2>2. CASE lineage' = record /\ Messages!Room(x)
    <3>1. PICK row : Messages!Derived(p, k, x, b, b) = Append(lineage, row) /\ GoodRow(row)
                     /\ row.actor = p /\ row.parents = x
      <4>1. b \in BOOLEAN /\ Messages!Room(x)
        BY <1>7, <2>2
      <4> HIDE <1>7
      <4> QED BY <1>6, <4>1, DerivedRow
    <3>2. Len(lineage) < setup.records /\ lineage' = Append(lineage, row)
      BY <1>8, <2>2, <3>1 DEF Messages!Room
    <3>3. /\ lineage' \in Seq(LineageRows) /\ Len(lineage') <= setup'.records /\ LineageOK'
          /\ \A r \in 1..Len(lineage') : lineage'[r].depth \in 1..setup'.depth
          /\ Extended /\ Len(lineage') = Len(lineage) + 1 /\ lineage'[Len(lineage) + 1] = row
      BY <3>1, <3>2, Grown
    <3>4. Len(lineage) \in Nat
      BY DEF TrafficInv, TrafficTypes
    <3> QED BY <3>1, <3>3, <3>4
  <2> QED BY <1>9, <2>1, <2>2
<1>13. /\ received \subseteq received' /\ received' \subseteq received \cup {i}
       /\ halted' \in BOOLEAN /\ (halted => halted')
  <2>1. received \subseteq received' /\ received' \subseteq received \cup {i}
    BY <1>9
  <2>2. halted \in BOOLEAN /\ (halted' = TRUE \/ halted' = halted)
    BY <1>9 DEF TrafficInv, TrafficTypes
  <2> QED BY <2>1, <2>2
<1>14. CASE halted' = TRUE /\ messages' = messages
  <2>1. PICK m : m = messages[i]
    OBVIOUS
  <2>2. m \in MessageRows /\ messages' = [messages EXCEPT ![i] = m]
    BY <1>4, <1>14, <2>1
  <2>3. OutcomeOK(i)'
    BY <1>4, <1>14 DEF OutcomeOK, OneChannel, EnvelopeOf
  <2> QED BY <1>1, <1>2, <1>3, <1>11, <1>12, <1>13, <2>1, <2>2, <2>3, EndKeeps
<1>15. CASE /\ halted' = halted /\ messages' = [messages EXCEPT ![i].status = "delivered"]
            /\ received' = received \cup {i} /\ lineage' = record /\ Messages!Room(x)
            /\ Messages!Last(record).complete
  <2>1. PICK m : m = [messages[i] EXCEPT !.status = "delivered"]
    OBVIOUS
  <2>2. m \in MessageRows /\ m.envelope = messages[i].envelope /\ m.status = "delivered"
    BY <1>4, <2>1 DEF MessageRows
  <2>3. messages' = [messages EXCEPT ![i] = m] /\ messages'[i] = m
    BY <1>4, <1>15, <2>1
  <2>4. EnvelopeOf(i)' = EnvelopeOf(i)
    BY <2>2, <2>3 DEF EnvelopeOf
  <2>5. \E r \in 1..Len(lineage') :
           /\ lineage'[r].actor = To[EnvelopeOf(i).channel] /\ lineage'[r].complete
           /\ lineage'[r].parents = EnvelopeOf(i).inputs
    <3>1. Messages!Last(record) = lineage'[Len(lineage')]
      BY <1>15 DEF Messages!Last
    <3>2. Len(lineage') \in 1..Len(lineage')
      BY <1>12, <1>15
    <3> QED BY <1>4, <1>5, <1>12, <1>15, <3>1, <3>2
  <2>6. i \in received' /\ HasReached(i)'
    BY <1>1, <1>4, <1>15 DEF HasReached
  <2>7. OutcomeOK(i)'
    BY <2>2, <2>3, <2>4, <2>5, <2>6 DEF OutcomeOK
  <2> QED BY <1>1, <1>2, <1>3, <1>11, <1>12, <1>13, <2>2, <2>3, <2>7, EndKeeps
<1> QED BY <1>9, <1>14, <1>15

-----------------------------------------------------------------------------
(* The invariant of the message gateway, and what follows from it.         *)

\* The gateway starts with nothing admitted.
LEMMA TrafficStarts == Messages!Init => TrafficInv
<1> SUFFICES ASSUME Messages!Init PROVE TrafficInv
  OBVIOUS
<1>1. /\ setup \in Setups /\ clock = 0 /\ stale = {} /\ quarantined = {}
      /\ channel = << >> /\ lineage = << >> /\ drafts = {} /\ messages = << >> /\ received = {}
      /\ halted = FALSE /\ holder = [c \in Channels |-> Nobody]
      /\ sends = [t \in Threads |-> Nobody] /\ inbox = << >>
  BY DEF Messages!Init
<1>2. MaxTime \in Nat /\ setup.messages \in Nat /\ setup.records \in Nat
  BY <1>1, SetupLimits, DataConstants DEF Messages!MessageConstants
<1>3. DOMAIN channel = {} /\ Len(lineage) = 0 /\ Len(messages) = 0 /\ Len(inbox) = 0
  BY <1>1
<1>4. TrafficTypes
  <2>1. DOMAIN channel \subseteq Channels /\ channel \in [DOMAIN channel -> ChannelRows]
    BY <1>1, <1>3
  <2>2. lineage \in Seq(LineageRows) /\ messages \in Seq(MessageRows) /\ inbox \in Seq(Nat)
    BY <1>1
  <2>3. /\ holder \in [Channels -> Threads \cup {Nobody}]
        /\ sends \in [Threads -> WaitRows \cup WorkRows \cup {Nobody}]
    BY <1>1
  <2>4. /\ setup \in Setups /\ clock \in 0..MaxTime /\ halted \in BOOLEAN
        /\ stale \subseteq Peers /\ quarantined \subseteq Peers /\ drafts \subseteq EnvelopeRows
        /\ received \subseteq 1..Len(messages)
    <3>1. setup \in Setups /\ clock \in 0..MaxTime
      BY <1>1, <1>2
    <3>2. halted \in BOOLEAN
      BY <1>1
    <3>3. /\ stale \subseteq Peers /\ quarantined \subseteq Peers /\ drafts \subseteq EnvelopeRows
          /\ received \subseteq 1..Len(messages)
      BY <1>1
    <3> QED BY <3>1, <3>2, <3>3
  <2> QED BY <2>1, <2>2, <2>3, <2>4 DEF TrafficTypes
<1>5. WithinLimits /\ LineageOK
  BY <1>2, <1>3 DEF WithinLimits, LineageOK
<1>6. \A t \in Threads : ~Busy(t) /\ WaitOK(t)
  BY <1>1 DEF Busy, WaitOK
<1>7. DraftsOK
  BY <1>1, <1>6 DEF DraftsOK
<1>8. DeliveryOK
  BY <1>3, <1>6 DEF DeliveryOK, AdmittedOK, InboxOK, WorkOK
<1> QED BY <1>4, <1>5, <1>7, <1>8 DEF TrafficInv

\* Every step of the gateway keeps the invariant.
LEMMA TrafficSteps == TrafficInv /\ Messages!Next => TrafficInv'
<1> SUFFICES ASSUME TrafficInv, Messages!Next PROVE TrafficInv'
  OBVIOUS
<1>1. UNCHANGED setup /\ (Messages!HostActions \/ \E t \in Threads : Messages!Sends(t))
  BY DEF Messages!Next
<1>2. CASE Messages!HostActions
  <2>1. ASSUME NEW p \in Peers, NEW k \in Bodies, NEW ls \in setup.classes[p],
               Messages!Register(p, k, ls)
        PROVE TrafficInv'
    BY <1>1, <2>1, RegisterKeeps
  <2>2. ASSUME NEW p \in Peers, NEW k \in Bodies, NEW x \in Messages!Inputs,
               NEW linked \in BOOLEAN, NEW complete \in BOOLEAN,
               Messages!Derive(p, k, x, linked, complete)
        PROVE TrafficInv'
    BY <1>1, <2>2, DeriveKeeps
  <2>3. ASSUME NEW r \in Messages!Records, Messages!Declassify(r, {}) PROVE TrafficInv'
    <3>1. r \in 1..Len(lineage)
      BY DEF Messages!Records, TrafficInv, TrafficTypes
    <3> QED BY <1>1, <2>3, <3>1, DeclassifyKeeps
  <2>4. ASSUME NEW p \in Peers, Messages!Lapse(p) PROVE TrafficInv'
    BY <1>1, <2>4, LapseKeeps
  <2>5. ASSUME NEW p \in Peers, Messages!Quarantine(p) PROVE TrafficInv'
    BY <1>1, <2>5, QuarantineKeeps
  <2>6. ASSUME NEW c \in Channels, Messages!Grant(c) PROVE TrafficInv'
    BY <1>1, <2>6, GrantKeeps
  <2>7. ASSUME NEW c \in Channels, NEW k \in Bodies, NEW x \in Messages!Inputs,
               Messages!Prepare(c, k, x)
        PROVE TrafficInv'
    BY <1>1, <2>7, PrepareKeeps
  <2>8. CASE Messages!Tick
    BY <1>1, <2>8, ClockKeeps
  <2> QED BY <1>2, <2>1, <2>2, <2>3, <2>4, <2>5, <2>6, <2>7, <2>8 DEF Messages!HostActions
<1>3. CASE \E t \in Threads : Messages!Sends(t)
  <2> PICK t \in Threads : Messages!Sends(t)
    BY <1>3
  <2>1. ASSUME NEW c \in Channels, NEW k \in Bodies, NEW x \in Messages!Inputs,
               NEW d \in drafts \cup {Nobody}, Messages!Enter(t, c, d, k, x)
        PROVE TrafficInv'
    BY <1>1, <2>1, SubmitKeeps
  <2>2. CASE Messages!Refuse(t)
    BY <1>1, <2>2, RefusedKeeps
  <2>3. CASE Messages!Admit(t)
    BY <1>1, <2>3, AdmitKeeps
  <2>4. CASE Messages!Check(t)
    BY <1>1, <2>4, LookKeeps
  <2>5. CASE Messages!Invoke(t)
    BY <1>1, <2>5, InvokeKeeps
  <2>6. CASE Messages!Uncertain(t)
    BY <1>1, <2>6, UncertainKeeps
  <2>7. CASE Messages!Receipt(t)
    BY <1>1, <2>7, ReceiptKeeps
  <2> QED BY <2>1, <2>2, <2>3, <2>4, <2>5, <2>6, <2>7 DEF Messages!Sends
<1> QED BY <1>1, <1>2, <1>3

\* The invariant only reads the gateway.
LEMMA TrafficRests == TrafficInv /\ UNCHANGED traffic => TrafficInv'
BY DEF traffic, TrafficInv, TrafficTypes, WithinLimits, LineageOK, DraftsOK, WaitOK, DeliveryOK,
       AdmittedOK, InboxOK, WorkOK, OutcomeOK, Busy, HasReached, OneChannel, EnvelopeOf

\* The invariant of the message gateway holds whatever the artifact gateway does.
THEOREM TrafficIsSound == DataSpec => []TrafficInv
<1>1. Messages!Init => TrafficInv
  BY TrafficStarts
<1>2. TrafficInv /\ [DataNext]_<<artifacts, traffic>> => TrafficInv'
  BY TrafficSteps, TrafficRests DEF DataNext
<1> QED BY <1>1, <1>2, PTL DEF DataSpec

\* The types and limits that the run checks.
LEMMA MessageTypes == TrafficInv => Messages!TypeOK
<1> SUFFICES ASSUME TrafficInv PROVE Messages!TypeOK
  OBVIOUS
<1>1. /\ setup.rate \in Nat /\ setup.messages \in Nat
  BY SetupLimits DEF TrafficInv, TrafficTypes
<1>2. \A c \in DOMAIN channel : channel[c].attempts \in 0..setup.rate /\ channel[c].sequence \in 0..setup.messages
  <2> SUFFICES ASSUME NEW c \in DOMAIN channel
               PROVE channel[c].attempts \in 0..setup.rate /\ channel[c].sequence \in 0..setup.messages
    OBVIOUS
  <2>1. channel[c].attempts \in Nat /\ channel[c].sequence \in Nat
    BY DEF TrafficInv, TrafficTypes, ChannelRows
  <2>2. /\ channel[c].attempts <= setup.rate /\ channel[c].sequence <= Len(messages)
        /\ Len(messages) <= setup.messages /\ Len(messages) \in Nat
    BY DEF TrafficInv, TrafficTypes, WithinLimits
  <2> QED BY <1>1, <2>1, <2>2
<1>3. DOMAIN lineage = 1..Len(lineage) /\ DOMAIN messages = 1..Len(messages)
  BY DEF TrafficInv, TrafficTypes
<1>4. \A c \in Channels : holder[c] \in Threads \cup {Nobody}
  BY DEF TrafficInv, TrafficTypes
<1>5. \A t \in Threads : sends[t] = Nobody \/ sends[t].stage \in Messages!Delivering \cup {"wait"}
  BY DEF TrafficInv, TrafficTypes, WaitRows, WorkRows
<1>6. /\ Len(lineage) <= setup.records /\ \A r \in 1..Len(lineage) : lineage[r].depth \in 1..setup.depth
      /\ Len(messages) <= setup.messages
  BY DEF TrafficInv, WithinLimits
<1> QED BY <1>2, <1>3, <1>4, <1>5, <1>6 DEF TrafficInv, TrafficTypes, Messages!TypeOK, Messages!Records

\* The records with labels within those of r hold, with a record, those it was made from.
LEMMA LabelsAreTraced ==
    ASSUME TrafficInv, NEW r \in 1..Len(lineage)
    PROVE Messages!Ancestral(r) \subseteq lineage[r].labels
<1> DEFINE S == {x \in 1..Len(lineage) : lineage[x].labels \subseteq lineage[r].labels}
<1>1. Messages!Records = 1..Len(lineage)
  BY DEF Messages!Records, TrafficInv, TrafficTypes
<1>2. Messages!Traced(S)
  BY DEF Messages!Traced, TrafficInv, LineageOK
<1>3. S \in SUBSET Messages!Records /\ r \in S
  BY <1>1
<1> HIDE DEF S
<1>4. \A y \in Messages!Records :
         (\A T \in {U \in SUBSET Messages!Records : r \in U /\ Messages!Traced(U)} : y \in T) => y \in S
  BY <1>2, <1>3
<1> QED BY <1>4 DEF Messages!Ancestral, S

\* No path over peers and transformations loses a label, for all limits, peers and channels.
THEOREM NoLabelIsLost == DataSpec => []NoLaundering
<1>1. TrafficInv => NoLaundering
  <2> SUFFICES ASSUME TrafficInv PROVE NoLaundering
    OBVIOUS
  <2>1. Messages!TypeOK
    BY MessageTypes
  <2>2. ASSUME NEW n \in DOMAIN inbox, NEW r \in messages[inbox[n]].envelope.inputs
        PROVE Messages!Ancestral(r) \subseteq Allowed[messages[inbox[n]].envelope.channel]
    <3>1. PICK i : i = inbox[n]
      OBVIOUS
    <3>2. i \in 1..Len(messages)
      <4>1. n \in 1..Len(inbox)
        BY DEF TrafficInv, TrafficTypes
      <4> QED BY <3>1, <4>1 DEF TrafficInv, DeliveryOK, InboxOK
    <3>3. r \in 1..Len(lineage) /\ lineage[r].labels \subseteq Allowed[EnvelopeOf(i).channel]
      BY <3>1, <3>2, <2>2 DEF TrafficInv, DeliveryOK, AdmittedOK, EnvelopeOf
    <3>4. Messages!Ancestral(r) \subseteq lineage[r].labels
      BY <3>3, LabelsAreTraced
    <3> QED BY <3>1, <3>3, <3>4 DEF EnvelopeOf
  <2> QED BY <2>1, <2>2 DEF NoLaundering, Messages!NoLaundering
<1> QED BY <1>1, TrafficIsSound, PTL

\* The deliveries of racing threads agree with what is said of them.
THEOREM DeliveriesAreExact == DataSpec => []DeliveriesAgree
<1>1. TrafficInv => DeliveriesAgree
  <2> SUFFICES ASSUME TrafficInv PROVE DeliveriesAgree
    OBVIOUS
  <2>1. /\ DOMAIN inbox = 1..Len(inbox) /\ DOMAIN messages = 1..Len(messages)
        /\ DOMAIN lineage = 1..Len(lineage)
    BY DEF TrafficInv, TrafficTypes
  <2>2. /\ \A n \in 1..Len(inbox) : inbox[n] \in 1..Len(messages)
        /\ \A n, m \in 1..Len(inbox) : n < m /\ OneChannel(inbox[n], inbox[m]) => inbox[n] < inbox[m]
        /\ \A n, m \in 1..Len(inbox) : inbox[n] = inbox[m] => n = m
    BY DEF TrafficInv, DeliveryOK, InboxOK
  <2>3. \A i, j \in 1..Len(messages) :
           i < j /\ OneChannel(i, j) => EnvelopeOf(i).sequence < EnvelopeOf(j).sequence
    BY DEF TrafficInv, DeliveryOK, AdmittedOK
  <2>4. \A i \in 1..Len(messages) : EnvelopeOf(i).sequence \in Nat
    <3>1. \A i \in 1..Len(messages) : messages[i] \in MessageRows
      BY DEF TrafficInv, TrafficTypes
    <3> QED BY <3>1 DEF MessageRows, EnvelopeRows, EnvelopeOf
  <2>5. Messages!OneInvocation
    <3>1. Messages!IsInjective(inbox)
      BY <2>1, <2>2 DEF Messages!IsInjective
    <3>2. ASSUME NEW i \in 1..Len(messages), NEW j \in 1..Len(messages), i # j, OneChannel(i, j)
          PROVE EnvelopeOf(i).sequence # EnvelopeOf(j).sequence
      <4>1. i < j \/ j < i
        BY <3>2
      <4>2. OneChannel(j, i)
        BY <3>2 DEF OneChannel
      <4> QED BY <2>3, <2>4, <3>2, <4>1, <4>2
    <3> QED BY <2>1, <3>1, <3>2 DEF Messages!OneInvocation, OneChannel, EnvelopeOf
  <2>6. Messages!InOrder
    <3> SUFFICES ASSUME NEW n \in 1..Len(inbox), NEW m \in 1..Len(inbox), n < m,
                        OneChannel(inbox[n], inbox[m])
                 PROVE EnvelopeOf(inbox[n]).sequence < EnvelopeOf(inbox[m]).sequence
      BY <2>1 DEF Messages!InOrder, OneChannel, EnvelopeOf
    <3> QED BY <2>2, <2>3
  <2>7. \A i : Messages!Settled(i) => \A t \in Threads : Busy(t) => sends[t].id # i
    BY DEF Messages!Settled, Busy, Messages!Delivering
  <2>8. ASSUME NEW i \in 1..Len(messages), Messages!Settled(i)
        PROVE /\ messages[i].status = "unknown" =>
                    /\ halted \/ channel[EnvelopeOf(i).channel].revoked
                    /\ \A j \in 1..Len(messages) : OneChannel(i, j) => j <= i
              /\ messages[i].status = "delivered" =>
                    /\ i \in received /\ HasReached(i)
                    /\ \E r \in 1..Len(lineage) :
                          /\ lineage[r].actor = To[EnvelopeOf(i).channel] /\ lineage[r].complete
                          /\ lineage[r].parents = EnvelopeOf(i).inputs
              /\ i \in received /\ messages[i].status # "delivered" => halted
    <3>1. OutcomeOK(i)
      BY DEF TrafficInv, DeliveryOK
    <3> QED BY <2>7, <2>8, <3>1 DEF OutcomeOK
  <2>9. Messages!UncertainIsLast
    <3> SUFFICES ASSUME NEW i \in 1..Len(messages), Messages!Settled(i), messages[i].status = "unknown"
                 PROVE /\ halted \/ channel[EnvelopeOf(i).channel].revoked
                       /\ \A j \in 1..Len(messages) : j > i => ~OneChannel(i, j)
      BY <2>1 DEF Messages!UncertainIsLast, OneChannel, EnvelopeOf
    <3> QED BY <2>8
  <2>10. Messages!ReceiptsAgree
    <3>1. \A i : HasReached(i) => Messages!Contains(inbox, i)
      BY DEF HasReached, Messages!Contains
    <3> QED BY <2>1, <2>8, <3>1 DEF Messages!ReceiptsAgree, Messages!Records, EnvelopeOf
  <2> QED BY <2>5, <2>6, <2>9, <2>10 DEF DeliveriesAgree, Messages!DeliveriesAgree
<1> QED BY <1>1, TrafficIsSound, PTL

-----------------------------------------------------------------------------
(* Artifacts.  The versions of an address are numbered below its high      *)
(* water and carry the labels of the ones before; the references count     *)
(* the versions of all addresses; and a gateway only ever goes forward,    *)
(* so that what was recorded of it stays below what it has.                *)

VersionRows == [content : Contents, labels : SUBSET Labels, expires : Nat]
Metadata == [version : 0..MaxVersion, labels : SUBSET Labels, deleted : BOOLEAN]
Snapshots == UNION {[D -> Metadata] : D \in SUBSET Addresses}
CallRows == [op : Artifacts!Operations, stage : {"intent", "done", "raised"}, before : Snapshots]

\* The addresses that ever had a version: finitely many, however many there are.
InUse == {a \in Addresses : high[a] > 0}

\* The versions with content c among the versions vs of all addresses.
Users(vs, c) == {x \in Addresses \X (1..MaxVersion) :
                     x[2] \in DOMAIN vs[x[1]] /\ vs[x[1]][x[2]].content = c}

\* How many versions with content c are among the ones of gone that row keeps.
Lost(row, gone, c) == Cardinality({v \in gone : row[v].content = c})

\* The versions ws are vs without the ones of gone of address a; with a version n of it.
Drops(vs, ws, a, gone) ==
    /\ a \in Addresses /\ DOMAIN vs[a] \subseteq 1..MaxVersion /\ gone \subseteq DOMAIN vs[a]
    /\ \A b \in Addresses \ {a} : ws[b] = vs[b]
    /\ DOMAIN ws[a] = DOMAIN vs[a] \ gone
    /\ \A v \in DOMAIN ws[a] : ws[a][v] = vs[a][v]
Adds(vs, ws, a, n) ==
    /\ a \in Addresses /\ n \in 1..MaxVersion /\ n \notin DOMAIN vs[a]
    /\ \A b \in Addresses \ {a} : ws[b] = vs[b]
    /\ DOMAIN ws[a] = DOMAIN vs[a] \cup {n}
    /\ \A v \in DOMAIN vs[a] : ws[a][v] = vs[a][v]

VersionsOK ==
    /\ DOMAIN versions = Addresses
    /\ \A a \in Addresses :
          /\ DOMAIN versions[a] \subseteq 1..high[a]
          /\ Cardinality(DOMAIN versions[a]) <= VersionLimit
          /\ \A v \in DOMAIN versions[a] : versions[a][v] \in VersionRows

MemoryTypes ==
    /\ now \in 0..MaxTime
    /\ creator \in [Addresses -> Owners \cup {Nobody}]
    /\ high \in [Addresses -> 0..MaxVersion]
    /\ labels \in [Addresses -> SUBSET Labels]
    /\ deleted \in [Addresses -> BOOLEAN]
    /\ refs \in [Contents -> Int] /\ blobs \subseteq Contents
    /\ broken \in BOOLEAN /\ owned \in BOOLEAN /\ intent \in BOOLEAN
    /\ IsFiniteSet(InUse)
    /\ VersionsOK

\* The references are exact, and the bytes are those that are referred to.
Exact ==
    /\ \A c \in Contents : refs[c] = Cardinality(Users(versions, c))
    /\ blobs = {c \in Contents : refs[c] > 0}

\* What the metadata f of an address, or of all, may have become in s.
Below(f, s) ==
    /\ DOMAIN f \subseteq DOMAIN s
    /\ \A a \in DOMAIN f :
          /\ f[a].version <= s[a].version /\ f[a].labels \subseteq s[a].labels
          /\ f[a].version = s[a].version =>
                 f[a].labels = s[a].labels /\ (f[a].deleted => s[a].deleted)

\* The metadata s are f, but for tombstones of expiry.
Expires(f, s) ==
    /\ DOMAIN f = DOMAIN s
    /\ \A a \in DOMAIN f : s[a] = f[a] \/ s[a] = [f[a] EXCEPT !.deleted = TRUE]

\* What is recorded lies behind what the gateway has.  An operation keeps its intent, and
\* as long as it has had no effect the record is current.
RecordOK ==
    /\ work \in CallRows \cup {Nobody}
    /\ DOMAIN floors \subseteq Addresses /\ \A a \in DOMAIN floors : floors[a] \in Metadata
    /\ Below(floors, Artifacts!Snapshot)
    /\ (work = Nobody /\ ~intent /\ ~broken) => Expires(floors, Artifacts!Snapshot)
    /\ work # Nobody => intent /\ Below(work.before, Artifacts!Snapshot)
    /\ (work # Nobody /\ ~broken /\ Artifacts!Snapshot = work.before)
           => Expires(floors, Artifacts!Snapshot)

\* The state of the gateway; the inductive invariant of the artifacts.
MemoryOK == MemoryTypes /\ Artifacts!LabelsAccumulate /\ (~broken => Exact)
ArtifactsInv == MemoryOK /\ RecordOK

\* No address goes back.
Onward ==
    \A a \in Addresses :
        /\ high[a] <= high'[a] /\ labels[a] \subseteq labels'[a]
        /\ creator[a] # Nobody => creator'[a] = creator[a]
        /\ high[a] = high'[a] => labels'[a] = labels[a] /\ (deleted[a] => deleted'[a] \/ creator[a] = Nobody)
        /\ \A v \in DOMAIN versions'[a] \ DOMAIN versions[a] : v > high[a]

-----------------------------------------------------------------------------
(* Counting the versions that have a content.                              *)

\* The instance counts as the library does (Cardinality of FiniteSets).
LEMMA SizeIsSize == ASSUME NEW S PROVE Artifacts!Cardinality(S) = Cardinality(S)
BY DEF Artifacts!Cardinality, Cardinality

\* Only finitely many versions have a content (memory.py _references).
LEMMA UsersAreFinite ==
    ASSUME NEW vs, NEW used, IsFiniteSet(used), NEW c,
           \A a \in Addresses : DOMAIN vs[a] # {} => a \in used
    PROVE IsFiniteSet(Users(vs, c)) /\ Cardinality(Users(vs, c)) \in Nat
<1>1. MaxVersion \in Nat
  BY DataConstants DEF Artifacts!ArtifactConstants
<1>2. IsFiniteSet(1..MaxVersion)
  BY <1>1, FS_Interval
<1>3. IsFiniteSet(used \X (1..MaxVersion))
  BY <1>2, FS_Product
<1>4. Users(vs, c) \subseteq used \X (1..MaxVersion)
  BY DEF Users
<1>5. IsFiniteSet(Users(vs, c))
  BY <1>3, <1>4, FS_Subset
<1> QED BY <1>5, FS_CardinalityType

\* Versions of one address that are dropped are no longer counted (memory.py _drop).
LEMMA DropCounts ==
    ASSUME NEW vs, NEW ws, NEW a, NEW gone, NEW c, Drops(vs, ws, a, gone),
           IsFiniteSet(Users(vs, c))
    PROVE /\ Cardinality(Users(ws, c))
                = Cardinality(Users(vs, c)) - Lost(vs[a], gone, c)
          /\ Lost(vs[a], gone, c) \in Nat
          /\ Cardinality(Users(vs, c)) \in Nat
<1> DEFINE G == {v \in gone : vs[a][v].content = c}
           U == Users(vs, c)
           P == {a} \X G
<1>0. /\ a \in Addresses /\ DOMAIN vs[a] \subseteq 1..MaxVersion /\ gone \subseteq DOMAIN vs[a]
      /\ \A b \in Addresses \ {a} : ws[b] = vs[b]
      /\ DOMAIN ws[a] = DOMAIN vs[a] \ gone
      /\ \A v \in DOMAIN ws[a] : ws[a][v] = vs[a][v]
  BY DEF Drops
<1>1. IsFiniteSet(G)
  <2>1. MaxVersion \in Nat
    BY DataConstants DEF Artifacts!ArtifactConstants
  <2>2. G \subseteq 1..MaxVersion
    BY <1>0
  <2>3. IsFiniteSet(1..MaxVersion)
    BY <2>1, FS_Interval
  <2> HIDE DEF G
  <2> QED BY <2>2, <2>3, FS_Subset
<1>2. P \subseteq U
  BY <1>0 DEF Users
<1>3. Users(ws, c) = U \ P
  <2>1. \A x \in Addresses \X (1..MaxVersion) : x \in Users(ws, c) <=> x \in U /\ x \notin P
    <3> TAKE x \in Addresses \X (1..MaxVersion)
    <3>1. PICK b \in Addresses, v \in 1..MaxVersion : x = <<b, v>>
      OBVIOUS
    <3>2. x \in Users(ws, c) <=> v \in DOMAIN ws[b] /\ ws[b][v].content = c
      BY <3>1 DEF Users
    <3>3. x \in U <=> v \in DOMAIN vs[b] /\ vs[b][v].content = c
      BY <3>1 DEF Users
    <3>4. x \in P <=> b = a /\ v \in gone /\ vs[a][v].content = c
      BY <3>1
    <3>5. CASE b = a
      BY <1>0, <3>2, <3>3, <3>4, <3>5
    <3>6. CASE b # a
      BY <1>0, <3>2, <3>3, <3>4, <3>6
    <3> QED BY <3>5, <3>6
  <2>2. Users(ws, c) \subseteq Addresses \X (1..MaxVersion) /\ U \subseteq Addresses \X (1..MaxVersion)
    BY DEF Users
  <2> QED BY <2>1, <2>2
<1>4. Cardinality(P) = Cardinality(G)
  <2>1. IsFiniteSet({a}) /\ Cardinality({a}) = 1
    BY FS_Singleton
  <2>2. Cardinality(P) = Cardinality({a}) * Cardinality(G)
    BY <1>1, <2>1, FS_Product
  <2>3. Cardinality(G) \in Nat
    BY <1>1, FS_CardinalityType
  <2> QED BY <2>1, <2>2, <2>3
<1>5. Cardinality(U \ P) = Cardinality(U) - Cardinality(U \cap P)
  BY FS_Difference
<1>6. U \cap P = P
  BY <1>2
<1>7. Cardinality(U) \in Nat /\ Cardinality(G) \in Nat
  BY <1>1, FS_CardinalityType
<1>8. Lost(vs[a], gone, c) = Cardinality(G)
  BY DEF Lost
<1> QED BY <1>3, <1>4, <1>5, <1>6, <1>7, <1>8

\* A version that is added is counted for its content (memory.py write).
LEMMA AddCounts ==
    ASSUME NEW vs, NEW ws, NEW a, NEW n, NEW c, Adds(vs, ws, a, n), IsFiniteSet(Users(vs, c))
    PROVE /\ IsFiniteSet(Users(ws, c))
          /\ Cardinality(Users(vs, c)) \in Nat
          /\ ws[a][n].content = c => Cardinality(Users(ws, c)) = Cardinality(Users(vs, c)) + 1
          /\ ws[a][n].content # c => Cardinality(Users(ws, c)) = Cardinality(Users(vs, c))
<1> DEFINE x == <<a, n>>
<1>0. /\ a \in Addresses /\ n \in 1..MaxVersion /\ n \notin DOMAIN vs[a]
      /\ \A b \in Addresses \ {a} : ws[b] = vs[b]
      /\ DOMAIN ws[a] = DOMAIN vs[a] \cup {n}
      /\ \A v \in DOMAIN vs[a] : ws[a][v] = vs[a][v]
  BY DEF Adds
<1>1. x \notin Users(vs, c)
  BY <1>0 DEF Users
<1>2. \A b \in Addresses, v \in 1..MaxVersion :
         <<b, v>> # x => (<<b, v>> \in Users(ws, c) <=> <<b, v>> \in Users(vs, c))
  <2> TAKE b \in Addresses, v \in 1..MaxVersion
  <2>1. <<b, v>> \in Users(ws, c) <=> v \in DOMAIN ws[b] /\ ws[b][v].content = c
    BY DEF Users
  <2>2. <<b, v>> \in Users(vs, c) <=> v \in DOMAIN vs[b] /\ vs[b][v].content = c
    BY DEF Users
  <2>3. CASE b = a
    BY <1>0, <2>1, <2>2, <2>3
  <2>4. CASE b # a
    BY <1>0, <2>1, <2>2, <2>4
  <2> QED BY <2>3, <2>4
<1>3. x \in Users(ws, c) <=> ws[a][n].content = c
  BY <1>0 DEF Users
<1>4. Users(ws, c) \subseteq Addresses \X (1..MaxVersion) /\ Users(vs, c) \subseteq Addresses \X (1..MaxVersion)
  BY DEF Users
<1>5. ws[a][n].content = c => Users(ws, c) = Users(vs, c) \cup {x}
  BY <1>2, <1>3, <1>4
<1>6. ws[a][n].content # c => Users(ws, c) = Users(vs, c)
  BY <1>1, <1>2, <1>3, <1>4
<1>7. IsFiniteSet(Users(vs, c) \cup {x}) /\ Cardinality(Users(vs, c) \cup {x}) = Cardinality(Users(vs, c)) + 1
  BY <1>1, FS_AddElement
<1>8. Cardinality(Users(vs, c)) \in Nat
  BY FS_CardinalityType
<1> QED BY <1>5, <1>6, <1>7, <1>8

-----------------------------------------------------------------------------
(* The steps of the gateway.                                               *)

\* What the constants of the artifacts are.
LEMMA Limits ==
    /\ MaxVersion \in Nat \ {0} /\ VersionLimit \in Nat \ {0} /\ Life \in Nat \ {0} /\ MaxTime \in Nat
    /\ Written \in [Contents -> SUBSET Labels]
BY DataConstants DEF Artifacts!ArtifactConstants

\* The versions of an address are a finite set of numbers (memory.py versions).
LEMMA VersionsAreFinite ==
    ASSUME MemoryTypes, NEW a \in Addresses
    PROVE /\ DOMAIN versions[a] \subseteq 1..MaxVersion
          /\ IsFiniteSet(DOMAIN versions[a])
<1>1. high[a] \in 0..MaxVersion
  BY DEF MemoryTypes
<1>2. DOMAIN versions[a] \subseteq 1..MaxVersion
  BY <1>1, Limits DEF MemoryTypes, VersionsOK
<1>3. IsFiniteSet(1..MaxVersion)
  BY Limits, FS_Interval
<1> QED BY <1>2, <1>3, FS_Subset

\* The versions with a content can be counted (memory.py _references).
LEMMA Countable ==
    ASSUME MemoryTypes, NEW c
    PROVE IsFiniteSet(Users(versions, c)) /\ Cardinality(Users(versions, c)) \in Nat
<1>1. \A a \in Addresses : DOMAIN versions[a] # {} => a \in InUse
  <2> SUFFICES ASSUME NEW a \in Addresses, NEW v \in DOMAIN versions[a] PROVE high[a] > 0
    BY DEF InUse
  <2> QED BY DEF MemoryTypes, VersionsOK
<1>2. IsFiniteSet(InUse)
  BY DEF MemoryTypes
<1> QED BY <1>1, <1>2, UsersAreFinite

\* Versions that are dropped take their references and their bytes with them (memory.py _drop).
LEMMA DropsAreExact ==
    ASSUME MemoryTypes, NEW a \in Addresses, NEW gone \in SUBSET DOMAIN versions[a],
           \A b \in Addresses \ {a} : versions'[b] = versions[b],
           DOMAIN versions'[a] = DOMAIN versions[a] \ gone,
           \A v \in DOMAIN versions'[a] : versions'[a][v] = versions[a][v],
           refs' = Artifacts!RefsWithout(refs, versions[a], gone),
           blobs' = {c \in blobs : refs'[c] > 0}
    PROVE refs' \in [Contents -> Int] /\ blobs' \subseteq Contents /\ (Exact => Exact')
<1>1. \A c \in Contents : refs'[c] = refs[c] - Lost(versions[a], gone, c)
  <2>1. \A c \in Contents :
           refs'[c] = refs[c] - Artifacts!Cardinality({v \in gone : versions[a][v].content = c})
    BY DEF Artifacts!RefsWithout
  <2> QED BY ONLY <2>1, SizeIsSize DEF Lost
<1>2. DOMAIN versions[a] \subseteq 1..MaxVersion
  BY VersionsAreFinite
<1>3. ASSUME NEW c \in Contents
      PROVE /\ Cardinality(Users(versions', c)) = Cardinality(Users(versions, c)) - Lost(versions[a], gone, c)
            /\ Lost(versions[a], gone, c) \in Nat /\ Cardinality(Users(versions, c)) \in Nat
  <2>1. IsFiniteSet(Users(versions, c))
    BY Countable
  <2>2. PICK vs : vs = versions
    OBVIOUS
  <2>3. PICK ws : ws = versions'
    OBVIOUS
  <2>4. IsFiniteSet(Users(vs, c)) /\ DOMAIN vs[a] \subseteq 1..MaxVersion
    BY <1>2, <2>1, <2>2
  <2>5. Drops(vs, ws, a, gone)
    BY <2>2, <2>3, <2>4 DEF Drops
  <2>6. /\ Cardinality(Users(ws, c))
               = Cardinality(Users(vs, c)) - Lost(vs[a], gone, c)
        /\ Lost(vs[a], gone, c) \in Nat
        /\ Cardinality(Users(vs, c)) \in Nat
    BY ONLY <2>4, <2>5, DropCounts
  <2> QED BY ONLY <2>2, <2>3, <2>6
<1>4. refs \in [Contents -> Int] /\ blobs \subseteq Contents
  BY DEF MemoryTypes
<1>5. refs' \in [Contents -> Int]
  <2>1. refs' = [c \in Contents |-> refs'[c]]
    BY DEF Artifacts!RefsWithout
  <2>2. \A c \in Contents : refs'[c] \in Int
    <3> TAKE c \in Contents
    <3>1. refs'[c] = refs[c] - Lost(versions[a], gone, c)
      BY <1>1
    <3>2. Lost(versions[a], gone, c) \in Nat
      BY <1>3
    <3>3. refs[c] \in Int
      BY ONLY <1>4
    <3> QED BY ONLY <3>1, <3>2, <3>3
  <2> QED BY ONLY <2>1, <2>2
<1>6. ASSUME Exact PROVE Exact'
  <2>1. \A c \in Contents : refs[c] = Cardinality(Users(versions, c))
    BY <1>6 DEF Exact
  <2>2. \A c \in Contents : refs'[c] = Cardinality(Users(versions', c))
    BY <1>1, <1>3, <2>1
  <2>3. blobs = {c \in Contents : refs[c] > 0}
    BY <1>6 DEF Exact
  <2>4. \A c \in Contents : refs'[c] > 0 => refs[c] > 0
    BY <1>1, <1>3, <1>4
  <2>5. \A c : c \in blobs' <=> c \in Contents /\ refs'[c] > 0
    <3>0. blobs' = {c \in blobs : refs'[c] > 0}
      OBVIOUS
    <3>1. \A c : c \in blobs' <=> c \in blobs /\ refs'[c] > 0
      BY ONLY <3>0
    <3>2. \A c : c \in blobs <=> c \in Contents /\ refs[c] > 0
      BY <2>3
    <3> QED BY ONLY <2>4, <3>1, <3>2
  <2>6. blobs' = {c \in Contents : refs'[c] > 0}
    <3> DEFINE S == {c \in Contents : refs'[c] > 0}
    <3>1. \A c : c \in S <=> c \in Contents /\ refs'[c] > 0
      OBVIOUS
    <3>2. \A c : c \in S <=> c \in blobs'
      BY ONLY <2>5, <3>1
    <3> HIDE DEF S
    <3>3. blobs' = S
      BY ONLY <3>2
    <3> QED BY <3>3 DEF S
  <2> QED BY <2>2, <2>6 DEF Exact
<1> QED BY <1>4, <1>5, <1>6

\* The versions that are kept are what they were (memory.py _purge).
LEMMA KeptVersions ==
    ASSUME MemoryTypes, Artifacts!LabelsAccumulate, DOMAIN versions' = Addresses,
           \A a \in Addresses : /\ DOMAIN versions'[a] \subseteq DOMAIN versions[a]
                                /\ \A v \in DOMAIN versions'[a] : versions'[a][v] = versions[a][v],
           high' = high, labels' = labels
    PROVE VersionsOK' /\ Artifacts!LabelsAccumulate'
<1>1. ASSUME NEW a \in Addresses
      PROVE /\ DOMAIN versions'[a] \subseteq 1..high'[a]
            /\ Cardinality(DOMAIN versions'[a]) <= VersionLimit
            /\ \A v \in DOMAIN versions'[a] : versions'[a][v] \in VersionRows
  <2>1. /\ DOMAIN versions[a] \subseteq 1..high[a] /\ Cardinality(DOMAIN versions[a]) <= VersionLimit
        /\ \A v \in DOMAIN versions[a] : versions[a][v] \in VersionRows
    BY DEF MemoryTypes, VersionsOK
  <2>2. IsFiniteSet(DOMAIN versions[a])
    BY VersionsAreFinite
  <2>3. IsFiniteSet(DOMAIN versions'[a]) /\ Cardinality(DOMAIN versions'[a]) <= Cardinality(DOMAIN versions[a])
    BY <2>2, FS_Subset
  <2>4. Cardinality(DOMAIN versions[a]) \in Nat /\ Cardinality(DOMAIN versions'[a]) \in Nat
    BY <2>2, <2>3, FS_CardinalityType
  <2>5. Cardinality(DOMAIN versions'[a]) <= VersionLimit
    BY <2>1, <2>3, <2>4, Limits
  <2> QED BY <2>1, <2>5
<1>2. VersionsOK'
  BY <1>1 DEF VersionsOK
<1>3. Artifacts!LabelsAccumulate'
  <2> SUFFICES ASSUME NEW a \in Addresses, NEW v \in DOMAIN versions'[a]
               PROVE /\ Written[versions'[a][v].content] \subseteq versions'[a][v].labels
                     /\ \A u \in DOMAIN versions'[a] :
                           u <= v => versions'[a][u].labels \subseteq versions'[a][v].labels
                     /\ versions'[a][v].labels \subseteq labels'[a]
    BY DEF Artifacts!LabelsAccumulate
  <2> QED BY DEF Artifacts!LabelsAccumulate
<1> QED BY <1>2, <1>3

\* The part of the state of the gateway that only concerns whole addresses.
Steady ==
    /\ now' = now /\ broken' \in BOOLEAN /\ (broken => broken')
    /\ owned' \in BOOLEAN /\ intent' \in BOOLEAN
    /\ deleted' \in [Addresses -> BOOLEAN]
    /\ \A a \in Addresses : deleted[a] => deleted'[a] \/ creator[a] = Nobody
    /\ UNCHANGED <<creator, high, labels>>

\* A step that keeps the addresses and drops versions is safe (memory.py _drop).
LEMMA DroppingIsSafe ==
    ASSUME MemoryOK, Steady, VersionsOK', Artifacts!LabelsAccumulate',
           \A a \in Addresses : DOMAIN versions'[a] \subseteq DOMAIN versions[a],
           refs' \in [Contents -> Int], blobs' \subseteq Contents, ~broken /\ ~broken' /\ Exact => Exact'
    PROVE MemoryOK' /\ Onward
<1>1. InUse' = InUse
  BY DEF InUse, Steady
<1>2. MemoryTypes'
  BY <1>1 DEF MemoryOK, MemoryTypes, Steady
<1>3. ~broken' => Exact'
  BY DEF MemoryOK, MemoryTypes, Steady
<1>4. Onward
  <2>1. \A a \in Addresses : high[a] \in 0..MaxVersion
    BY DEF MemoryOK, MemoryTypes
  <2> QED BY <2>1 DEF Onward, Steady
<1> QED BY <1>2, <1>3, <1>4 DEF MemoryOK

\* Reading cleans up what has expired (memory.py _purge).
LEMMA PurgeStep ==
    ASSUME MemoryOK, NEW a \in Addresses, Artifacts!Purged(a), now' = now, owned' = owned, intent' = intent
    PROVE /\ MemoryOK' /\ Onward
          /\ \A b \in Addresses : deleted'[b] \in {deleted[b], TRUE}
<1> DEFINE gone == Artifacts!Expired(a)
<1>1. gone \subseteq DOMAIN versions[a]
  BY DEF Artifacts!Expired
<1>2. /\ DOMAIN versions' = Addresses
      /\ \A b \in Addresses \ {a} : versions'[b] = versions[b]
      /\ DOMAIN versions'[a] = DOMAIN versions[a] \ gone
      /\ \A v \in DOMAIN versions'[a] : versions'[a][v] = versions[a][v]
  <2>1. versions' = [versions EXCEPT ![a] = Artifacts!Keep(a, gone)]
    BY DEF Artifacts!Purged
  <2>2. Artifacts!Keep(a, gone) = [v \in DOMAIN versions[a] \ gone |-> versions[a][v]]
    BY DEF Artifacts!Keep, Artifacts!Restrict
  <2>3. DOMAIN versions = Addresses
    BY DEF MemoryOK, MemoryTypes, VersionsOK
  <2> HIDE DEF gone
  <2> QED BY <2>1, <2>2, <2>3
<1>3. /\ refs' = Artifacts!RefsWithout(refs, versions[a], gone) /\ blobs' = {c \in blobs : refs'[c] > 0}
      /\ UNCHANGED <<creator, high, labels, broken>>
  BY DEF Artifacts!Purged
<1>4. refs' \in [Contents -> Int] /\ blobs' \subseteq Contents /\ (Exact => Exact')
  <2>1. PICK g \in SUBSET DOMAIN versions[a] : g = gone
    BY <1>1
  <2> HIDE DEF gone
  <2> QED BY <1>2, <1>3, <2>1, DropsAreExact DEF MemoryOK
<1>5. VersionsOK' /\ Artifacts!LabelsAccumulate'
  <2>1. \A b \in Addresses : /\ DOMAIN versions'[b] \subseteq DOMAIN versions[b]
                             /\ \A v \in DOMAIN versions'[b] : versions'[b][v] = versions[b][v]
    BY <1>2
  <2> QED BY <1>2, <1>3, <2>1, KeptVersions DEF MemoryOK
<1>6. /\ deleted' \in [Addresses -> BOOLEAN]
      /\ \A b \in Addresses : deleted'[b] \in {deleted[b], TRUE}
  <2>1. deleted \in [Addresses -> BOOLEAN]
    BY DEF MemoryOK, MemoryTypes
  <2>2. PICK t \in BOOLEAN : t = (high[a] \notin DOMAIN versions[a] \/ high[a] \in gone)
    OBVIOUS
  <2>3. deleted' = [deleted EXCEPT ![a] = @ \/ t]
    BY <2>2 DEF Artifacts!Purged
  <2>4. deleted' \in [Addresses -> BOOLEAN] /\ \A b \in Addresses : b # a => deleted'[b] = deleted[b]
    BY <2>1, <2>3
  <2>5. deleted'[a] = (deleted[a] \/ t)
    BY <2>1, <2>3
  <2>6. deleted'[a] \in {deleted[a], TRUE}
    BY <2>1, <2>5
  <2> QED BY <2>4, <2>6
<1>7. Steady
  <2>1. \A b \in Addresses : deleted[b] => deleted'[b]
    BY <1>6
  <2> QED BY <1>3, <1>6, <2>1 DEF Steady, MemoryOK, MemoryTypes
<1>8. \A b \in Addresses : DOMAIN versions'[b] \subseteq DOMAIN versions[b]
  BY <1>2
<1> QED BY <1>4, <1>5, <1>6, <1>7, <1>8, DroppingIsSafe DEF MemoryOK

\* A deletion drops all versions and leaves a tombstone (memory.py delete).
LEMMA DeleteStep ==
    ASSUME MemoryOK, NEW op \in Artifacts!Deletes, Artifacts!Delete(op),
           now' = now, broken' = broken, owned' = owned, intent' = intent
    PROVE MemoryOK' /\ Onward
<1>1. PICK a \in Addresses : a = op.address
  BY DEF Artifacts!Deletes
<1>2. PICK gone \in SUBSET DOMAIN versions[a] : gone = DOMAIN versions[a]
  OBVIOUS
<1>3. /\ versions' = [versions EXCEPT ![a] = << >>] /\ deleted' = [deleted EXCEPT ![a] = TRUE]
      /\ refs' = Artifacts!RefsWithout(refs, versions[a], gone)
      /\ blobs' = {c \in blobs : refs'[c] > 0} /\ UNCHANGED <<creator, high, labels>>
  BY <1>1, <1>2 DEF Artifacts!Delete
<1>4. /\ DOMAIN versions' = Addresses
      /\ \A b \in Addresses \ {a} : versions'[b] = versions[b]
      /\ DOMAIN versions'[a] = {}
  <2>1. DOMAIN versions = Addresses
    BY DEF MemoryOK, MemoryTypes, VersionsOK
  <2> QED BY <1>3, <2>1
<1>5. refs' \in [Contents -> Int] /\ blobs' \subseteq Contents /\ (Exact => Exact')
  <2>1. DOMAIN versions'[a] = DOMAIN versions[a] \ gone /\ \A v \in DOMAIN versions'[a] : versions'[a][v] = versions[a][v]
    BY <1>2, <1>4
  <2> QED BY <1>3, <1>4, <2>1, DropsAreExact DEF MemoryOK
<1>6. VersionsOK' /\ Artifacts!LabelsAccumulate'
  <2>1. \A b \in Addresses : /\ DOMAIN versions'[b] \subseteq DOMAIN versions[b]
                             /\ \A v \in DOMAIN versions'[b] : versions'[b][v] = versions[b][v]
    BY <1>4
  <2> QED BY <1>3, <1>4, <2>1, KeptVersions DEF MemoryOK
<1>7. Steady
  <2>1. deleted \in [Addresses -> BOOLEAN]
    BY DEF MemoryOK, MemoryTypes
  <2>2. deleted' \in [Addresses -> BOOLEAN] /\ \A b \in Addresses : deleted[b] => deleted'[b]
    BY <1>3, <2>1
  <2> QED BY <1>3, <2>2 DEF Steady, MemoryOK, MemoryTypes
<1>8. \A b \in Addresses : DOMAIN versions'[b] \subseteq DOMAIN versions[b]
  BY <1>4
<1> QED BY <1>5, <1>6, <1>7, <1>8, DroppingIsSafe DEF MemoryOK

\* A sweep counts the references anew (memory.py sweep).
LEMMA SweepStep ==
    ASSUME MemoryOK, Artifacts!Sweep, now' = now, broken' = broken, owned' = owned, intent' = intent
    PROVE MemoryOK' /\ Onward
<1>1. /\ DOMAIN versions' = Addresses
      /\ \A a \in Addresses : /\ DOMAIN versions'[a] = DOMAIN versions[a] \ Artifacts!Expired(a)
                              /\ \A v \in DOMAIN versions'[a] : versions'[a][v] = versions[a][v]
  <2>1. versions' = [a \in Addresses |-> [v \in DOMAIN versions[a] \ Artifacts!Expired(a) |-> versions[a][v]]]
    BY DEF Artifacts!Sweep, Artifacts!Keep, Artifacts!Restrict
  <2> QED BY ONLY <2>1
<1>2. \A c \in Contents : refs'[c] = Cardinality(Users(versions', c))
  <2> TAKE c \in Contents
  <2> DEFINE S == {x \in Addresses \X (1..MaxVersion) :
                       x[2] \in DOMAIN versions[x[1]] \ Artifacts!Expired(x[1])
                       /\ versions[x[1]][x[2]].content = c}
  <2>1. refs'[c] = Artifacts!Cardinality(S)
    BY DEF Artifacts!Sweep
  <2>2. \A x \in Addresses \X (1..MaxVersion) : x \in S <=> x \in Users(versions', c)
    <3> TAKE x \in Addresses \X (1..MaxVersion)
    <3>1. x[1] \in Addresses
      OBVIOUS
    <3>2. x \in S <=> x[2] \in DOMAIN versions[x[1]] \ Artifacts!Expired(x[1]) /\ versions[x[1]][x[2]].content = c
      OBVIOUS
    <3>3. x \in Users(versions', c) <=> x[2] \in DOMAIN versions'[x[1]] /\ versions'[x[1]][x[2]].content = c
      BY DEF Users
    <3> HIDE DEF S
    <3> QED BY <1>1, <3>1, <3>2, <3>3
  <2>3. S \subseteq Addresses \X (1..MaxVersion) /\ Users(versions', c) \subseteq Addresses \X (1..MaxVersion)
    BY DEF Users
  <2> HIDE DEF S
  <2>4. S = Users(versions', c)
    BY <2>2, <2>3
  <2> QED BY <2>1, <2>4, SizeIsSize
<1>3. \A c \in Contents : /\ Cardinality(Users(versions', c)) \in Nat /\ Cardinality(Users(versions, c)) \in Nat
                          /\ Cardinality(Users(versions', c)) <= Cardinality(Users(versions, c))
  <2> TAKE c \in Contents
  <2>1. IsFiniteSet(Users(versions, c)) /\ Cardinality(Users(versions, c)) \in Nat
    BY Countable DEF MemoryOK
  <2>2. Users(versions', c) \subseteq Users(versions, c)
    <3> SUFFICES ASSUME NEW x \in Users(versions', c) PROVE x \in Users(versions, c)
      OBVIOUS
    <3>1. x \in Addresses \X (1..MaxVersion) /\ x[1] \in Addresses
      BY DEF Users
    <3>2. x[2] \in DOMAIN versions'[x[1]] /\ versions'[x[1]][x[2]].content = c
      BY DEF Users
    <3>3. x[2] \in DOMAIN versions[x[1]] /\ versions[x[1]][x[2]].content = c
      BY <1>1, <3>1, <3>2
    <3> QED BY <3>1, <3>3 DEF Users
  <2>3. Cardinality(Users(versions', c)) <= Cardinality(Users(versions, c)) /\ IsFiniteSet(Users(versions', c))
    BY <2>1, <2>2, FS_Subset
  <2> QED BY <2>1, <2>3, FS_CardinalityType
<1>4. refs' \in [Contents -> Int]
  <2>1. refs' = [c \in Contents |-> refs'[c]]
    BY DEF Artifacts!Sweep
  <2>2. \A c \in Contents : refs'[c] \in Int
    BY <1>2, <1>3
  <2> QED BY ONLY <2>1, <2>2
<1>5. blobs \subseteq Contents /\ blobs' = {c \in blobs : refs'[c] > 0} /\ UNCHANGED <<creator, high, labels>>
  BY DEF Artifacts!Sweep, MemoryOK, MemoryTypes
<1>6. ASSUME Exact PROVE Exact'
  <2>1. \A c \in Contents : refs[c] = Cardinality(Users(versions, c))
    BY <1>6 DEF Exact
  <2>2. blobs = {c \in Contents : refs[c] > 0}
    BY <1>6 DEF Exact
  <2>3. \A c \in Contents : refs'[c] > 0 => refs[c] > 0
    BY <1>2, <1>3, <2>1
  <2>4. blobs' = {c \in Contents : refs'[c] > 0}
    BY ONLY <1>5, <2>2, <2>3
  <2> QED BY <1>2, <2>4 DEF Exact
<1>7. VersionsOK' /\ Artifacts!LabelsAccumulate'
  BY <1>1, <1>5, KeptVersions DEF MemoryOK
<1>8. Steady
  <2>1. deleted' = [a \in Addresses |-> creator[a] # Nobody /\
                       (deleted[a] \/ high[a] \notin DOMAIN versions[a] \ Artifacts!Expired(a))]
    BY DEF Artifacts!Sweep
  <2>2. deleted' \in [Addresses -> BOOLEAN]
    BY ONLY <2>1
  <2>3. \A a \in Addresses : deleted[a] => deleted'[a] \/ creator[a] = Nobody
    BY ONLY <2>1
  <2> QED BY <1>5, <2>2, <2>3 DEF Steady, MemoryOK, MemoryTypes
<1>9. \A b \in Addresses : DOMAIN versions'[b] \subseteq DOMAIN versions[b]
  BY <1>1
<1> QED BY <1>4, <1>5, <1>6, <1>7, <1>8, <1>9, DroppingIsSafe DEF MemoryOK

\* A write adds one version and drops the oldest beyond the limit and the expired ones
\* (memory.py write).
LEMMA WriteStep ==
    ASSUME MemoryOK, NEW op \in Artifacts!Writes, Artifacts!Write(op), now' = now,
           broken' \in BOOLEAN, broken => broken', owned' = owned, intent' = intent
    PROVE MemoryOK' /\ Onward
<1> DEFINE A == op.address
           N == high[A] + 1
           Class == labels[A] \cup Written[op.content]
           Row == [content |-> op.content, labels |-> Class, expires |-> now + Life]
           All == Artifacts!With(versions[A], N, Row)
           Gone == (IF Artifacts!Cardinality(DOMAIN All) > VersionLimit THEN {Artifacts!Min(DOMAIN All)} ELSE {})
                   \cup {v \in DOMAIN All : now >= All[v].expires}
<1>1. PICK a, n, class, row, all, gone :
         a = A /\ n = N /\ class = Class /\ row = Row /\ all = All /\ gone = Gone
  <2> HIDE DEF A, N, Class, Row, All, Gone
  <2> QED OBVIOUS
<1>2. /\ n <= MaxVersion
      /\ creator' = [creator EXCEPT ![a] = IF @ = Nobody THEN op.agent ELSE @]
      /\ high' = [high EXCEPT ![a] = n]
      /\ versions' = [versions EXCEPT ![a] = Artifacts!Restrict(all, DOMAIN all \ gone)]
      /\ labels' = [labels EXCEPT ![a] = class]
      /\ deleted' = [deleted EXCEPT ![a] = FALSE]
      /\ refs' = Artifacts!RefsWithout([refs EXCEPT ![op.content] = @ + 1], all, gone)
      /\ blobs' = {c \in blobs \cup {op.content} : refs'[c] > 0}
  BY <1>1 DEF Artifacts!Write
<1>3. a \in Addresses /\ op.content \in Contents /\ op.agent \in Owners
  BY <1>1 DEF Artifacts!Writes
<1>4. /\ all = [v \in DOMAIN versions[a] \cup {n} |-> IF v = n THEN row ELSE versions[a][v]]
      /\ row = [content |-> op.content, labels |-> class, expires |-> now + Life]
      /\ class = labels[a] \cup Written[op.content]
      /\ n = high[a] + 1
      /\ gone = (IF Artifacts!Cardinality(DOMAIN all) > VersionLimit THEN {Artifacts!Min(DOMAIN all)} ELSE {})
                \cup {v \in DOMAIN all : now >= all[v].expires}
  <2>1. all = Artifacts!With(versions[a], n, row)
    BY <1>1
  <2>2. /\ row = [content |-> op.content, labels |-> class, expires |-> now + Life]
        /\ class = labels[a] \cup Written[op.content] /\ n = high[a] + 1
    BY <1>1
  <2>3. gone = (IF Artifacts!Cardinality(DOMAIN all) > VersionLimit THEN {Artifacts!Min(DOMAIN all)} ELSE {})
                \cup {v \in DOMAIN all : now >= all[v].expires}
    <3>1. gone = Gone /\ all = All
      BY <1>1
    <3> HIDE DEF All
    <3> QED BY <3>1
  <2> QED BY <2>1, <2>2, <2>3 DEF Artifacts!With
<1> HIDE DEF A, N, Class, Row, All, Gone
<1>5. /\ high[a] \in 0..MaxVersion /\ n \in 1..MaxVersion /\ n > high[a]
      /\ labels[a] \in SUBSET Labels /\ class \in SUBSET Labels /\ labels[a] \subseteq class
      /\ Written[op.content] \subseteq class /\ row \in VersionRows
  <2>1. high[a] \in 0..MaxVersion /\ labels[a] \in SUBSET Labels /\ now \in Nat
    BY <1>3 DEF MemoryOK, MemoryTypes
  <2>2. Written[op.content] \in SUBSET Labels
    BY <1>3, Limits
  <2>3. class \in SUBSET Labels /\ labels[a] \subseteq class /\ Written[op.content] \subseteq class
    BY <1>4, <2>1, <2>2
  <2>4. n \in 1..MaxVersion /\ n > high[a]
    BY <1>2, <1>4, <2>1, Limits
  <2>5. now + Life \in Nat
    BY <2>1, Limits
  <2>6. row \in VersionRows
    BY <1>3, <1>4, <2>3, <2>5 DEF VersionRows
  <2> QED BY <2>1, <2>3, <2>4, <2>6
<1>6. /\ DOMAIN versions = Addresses /\ DOMAIN versions[a] \subseteq 1..high[a]
      /\ Cardinality(DOMAIN versions[a]) <= VersionLimit
      /\ \A v \in DOMAIN versions[a] : versions[a][v] \in VersionRows
      /\ IsFiniteSet(DOMAIN versions[a]) /\ DOMAIN versions[a] \subseteq 1..MaxVersion
  <2>1. DOMAIN versions[a] \subseteq 1..MaxVersion /\ IsFiniteSet(DOMAIN versions[a])
    BY <1>3, VersionsAreFinite DEF MemoryOK
  <2> QED BY <1>3, <2>1 DEF MemoryOK, MemoryTypes, VersionsOK
<1>7. n \notin DOMAIN versions[a]
  BY <1>5, <1>6
<1>8. /\ DOMAIN all = DOMAIN versions[a] \cup {n} /\ all[n] = row
      /\ \A v \in DOMAIN versions[a] : all[v] = versions[a][v]
  BY <1>4, <1>7
<1>9. /\ IsFiniteSet(DOMAIN all) /\ DOMAIN all \subseteq 1..n
      /\ Cardinality(DOMAIN all) = Cardinality(DOMAIN versions[a]) + 1
      /\ Cardinality(DOMAIN versions[a]) \in Nat
  <2>1. /\ IsFiniteSet(DOMAIN versions[a] \cup {n})
        /\ Cardinality(DOMAIN versions[a] \cup {n}) = Cardinality(DOMAIN versions[a]) + 1
    BY <1>6, <1>7, FS_AddElement
  <2>2. Cardinality(DOMAIN versions[a]) \in Nat
    BY <1>6, FS_CardinalityType
  <2>3. DOMAIN all \subseteq 1..n
    BY <1>5, <1>6, <1>8
  <2> QED BY <1>8, <2>1, <2>2, <2>3
<1>10. Artifacts!Min(DOMAIN all) \in DOMAIN all
  <2>1. DOMAIN all \in SUBSET Nat /\ DOMAIN all # {}
    BY <1>8, <1>9
  <2>2. \E x \in DOMAIN all : \A y \in DOMAIN all : x <= y
    BY <2>1, LeastNumber
  <2> QED BY <2>2 DEF Artifacts!Min
<1>11. /\ gone \subseteq DOMAIN all
       /\ Cardinality(DOMAIN all \ gone) <= VersionLimit
  <2>0. /\ VersionLimit \in Nat /\ Cardinality(DOMAIN all) \in Nat
        /\ Cardinality(DOMAIN all) <= VersionLimit + 1
    <3>1. VersionLimit \in Nat
      BY Limits
    <3> QED BY ONLY <1>6, <1>9, <3>1
  <2>1. gone \subseteq DOMAIN all
    BY <1>4, <1>10
  <2>2. IsFiniteSet(DOMAIN all \ gone) /\ Cardinality(DOMAIN all \ gone) <= Cardinality(DOMAIN all)
    BY <1>9, FS_Subset
  <2>3. Cardinality(DOMAIN all \ gone) \in Nat
    BY <2>2, FS_CardinalityType
  <2>31. PICK k, m : k = Cardinality(DOMAIN all \ gone) /\ m = Cardinality(DOMAIN all)
    OBVIOUS
  <2>32. k \in Nat /\ m \in Nat /\ VersionLimit \in Nat /\ k <= m /\ m <= VersionLimit + 1
    BY ONLY <2>0, <2>2, <2>3, <2>31
  <2>4. CASE m <= VersionLimit
    BY ONLY <2>1, <2>31, <2>32, <2>4
  <2>5. CASE m > VersionLimit
    <3>1. Artifacts!Min(DOMAIN all) \in gone
      BY <1>4, <2>31, <2>5, SizeIsSize
    <3>2. PICK w \in DOMAIN all : w \in gone
      BY <1>10, <3>1
    <3>3. /\ IsFiniteSet(DOMAIN all \ {w})
          /\ Cardinality(DOMAIN all \ {w}) = Cardinality(DOMAIN all) - 1
      BY <1>9, <3>2, FS_RemoveElement
    <3>4. DOMAIN all \ gone \subseteq DOMAIN all \ {w}
      BY <3>2
    <3>5. Cardinality(DOMAIN all \ gone) <= Cardinality(DOMAIN all \ {w})
      BY <3>3, <3>4, FS_Subset
    <3>6. k <= m - 1
      BY ONLY <2>31, <3>3, <3>5
    <3>7. k <= VersionLimit
      BY ONLY <2>32, <3>6
    <3> QED BY ONLY <2>1, <2>31, <3>7
  <2> QED BY ONLY <2>1, <2>32, <2>4, <2>5
<1>12. /\ DOMAIN versions' = Addresses
       /\ \A b \in Addresses \ {a} : versions'[b] = versions[b]
       /\ DOMAIN versions'[a] = DOMAIN all \ gone
       /\ \A v \in DOMAIN all \ gone : versions'[a][v] = all[v]
  <2>1. versions' = [versions EXCEPT ![a] = [v \in DOMAIN all \ gone |-> all[v]]]
    BY <1>2 DEF Artifacts!Restrict
  <2> QED BY ONLY <1>3, <1>6, <2>1
<1>13. /\ high' \in [Addresses -> 0..MaxVersion] /\ high'[a] = n
       /\ labels' \in [Addresses -> SUBSET Labels] /\ labels'[a] = class
       /\ creator' \in [Addresses -> Owners \cup {Nobody}] /\ deleted' \in [Addresses -> BOOLEAN]
       /\ \A b \in Addresses \ {a} : /\ high'[b] = high[b] /\ labels'[b] = labels[b]
                                     /\ creator'[b] = creator[b] /\ deleted'[b] = deleted[b]
       /\ creator[a] # Nobody => creator'[a] = creator[a]
  <2>1. /\ creator \in [Addresses -> Owners \cup {Nobody}] /\ high \in [Addresses -> 0..MaxVersion]
        /\ labels \in [Addresses -> SUBSET Labels] /\ deleted \in [Addresses -> BOOLEAN]
    BY DEF MemoryOK, MemoryTypes
  <2>2. high' \in [Addresses -> 0..MaxVersion] /\ high'[a] = n /\ \A b \in Addresses \ {a} : high'[b] = high[b]
    <3>1. n \in 0..MaxVersion
      BY <1>5
    <3> QED BY <1>2, <1>3, <2>1, <3>1
  <2>3. /\ labels' \in [Addresses -> SUBSET Labels] /\ labels'[a] = class
        /\ \A b \in Addresses \ {a} : labels'[b] = labels[b]
    BY <1>2, <1>3, <1>5, <2>1
  <2>4. /\ creator' \in [Addresses -> Owners \cup {Nobody}]
        /\ \A b \in Addresses \ {a} : creator'[b] = creator[b]
        /\ creator[a] # Nobody => creator'[a] = creator[a]
    BY <1>2, <1>3, <2>1
  <2>5. deleted' \in [Addresses -> BOOLEAN] /\ \A b \in Addresses \ {a} : deleted'[b] = deleted[b]
    BY <1>2, <1>3, <2>1
  <2> QED BY <2>2, <2>3, <2>4, <2>5
<1>14. VersionsOK'
  <2> SUFFICES ASSUME NEW b \in Addresses
               PROVE /\ DOMAIN versions'[b] \subseteq 1..high'[b]
                     /\ Cardinality(DOMAIN versions'[b]) <= VersionLimit
                     /\ \A v \in DOMAIN versions'[b] : versions'[b][v] \in VersionRows
    BY <1>12 DEF VersionsOK
  <2>1. CASE b # a
    BY <1>12, <1>13, <2>1 DEF MemoryOK, MemoryTypes, VersionsOK
  <2>2. CASE b = a
    <3>1. \A v \in DOMAIN all : all[v] \in VersionRows
      BY <1>5, <1>6, <1>8
    <3> QED BY <1>9, <1>11, <1>12, <1>13, <2>2, <3>1
  <2> QED BY <2>1, <2>2
<1>15. Artifacts!LabelsAccumulate'
  <2> SUFFICES ASSUME NEW b \in Addresses, NEW v \in DOMAIN versions'[b]
               PROVE /\ Written[versions'[b][v].content] \subseteq versions'[b][v].labels
                     /\ \A u \in DOMAIN versions'[b] :
                           u <= v => versions'[b][u].labels \subseteq versions'[b][v].labels
                     /\ versions'[b][v].labels \subseteq labels'[b]
    BY DEF Artifacts!LabelsAccumulate
  <2>1. CASE b # a
    BY <1>12, <1>13, <2>1 DEF MemoryOK, Artifacts!LabelsAccumulate
  <2>2. CASE b = a
    <3>1. \A u \in DOMAIN versions[a] :
             /\ Written[versions[a][u].content] \subseteq versions[a][u].labels
             /\ versions[a][u].labels \subseteq labels[a]
             /\ \A w \in DOMAIN versions[a] : w <= u => versions[a][w].labels \subseteq versions[a][u].labels
      BY <1>3 DEF MemoryOK, Artifacts!LabelsAccumulate
    <3>2. row.content = op.content /\ row.labels = class
      BY <1>4
    <3>3. v \in DOMAIN all /\ versions'[a][v] = all[v] /\ v \in 1..n
          /\ \A u \in DOMAIN versions'[a] : u \in DOMAIN all /\ versions'[a][u] = all[u] /\ u \in 1..n
      BY <1>9, <1>12, <2>2
    <3>4. CASE v = n
      BY <1>5, <1>8, <1>13, <2>2, <3>1, <3>2, <3>3, <3>4
    <3>5. CASE v # n
      <4>1. v \in DOMAIN versions[a] /\ all[v] = versions[a][v] /\ v < n
        BY <1>5, <1>6, <1>8, <3>3, <3>5
      <4>2. ASSUME NEW u \in DOMAIN versions'[a], u <= v PROVE all[u].labels \subseteq all[v].labels
        <5>1. u # n
          BY <1>5, <3>3, <4>1, <4>2
        <5>2. u \in DOMAIN versions[a] /\ all[u] = versions[a][u]
          BY <1>8, <3>3, <5>1
        <5> QED BY <3>1, <4>1, <4>2, <5>2
      <4> QED BY <1>5, <1>13, <2>2, <3>1, <3>3, <4>1, <4>2
    <3> QED BY <3>4, <3>5
  <2> QED BY <2>1, <2>2
<1>16. IsFiniteSet(InUse')
  <2>1. InUse' \subseteq InUse \cup {a}
    BY <1>13 DEF InUse
  <2>2. IsFiniteSet(InUse \cup {a})
    BY FS_AddElement DEF MemoryOK, MemoryTypes
  <2> QED BY <2>1, <2>2, FS_Subset
<1>17. \A c \in Contents :
          /\ refs'[c] = (IF c = op.content THEN refs[c] + 1 ELSE refs[c]) - Lost(all, gone, c)
          /\ Lost(all, gone, c) \in Nat /\ refs[c] \in Int
          /\ Cardinality(Users(versions, c)) \in Nat
          /\ Cardinality(Users(versions', c))
                = (IF c = op.content THEN Cardinality(Users(versions, c)) + 1
                                     ELSE Cardinality(Users(versions, c))) - Lost(all, gone, c)
  <2> TAKE c \in Contents
  <2>1. refs \in [Contents -> Int]
    BY DEF MemoryOK, MemoryTypes
  <2>2. refs'[c] = (IF c = op.content THEN refs[c] + 1 ELSE refs[c]) - Lost(all, gone, c)
    <3>1. refs'[c] = [refs EXCEPT ![op.content] = @ + 1][c]
                        - Artifacts!Cardinality({v \in gone : all[v].content = c})
      BY <1>2 DEF Artifacts!RefsWithout
    <3>2. Artifacts!Cardinality({v \in gone : all[v].content = c}) = Lost(all, gone, c)
      BY ONLY SizeIsSize DEF Lost
    <3>3. [refs EXCEPT ![op.content] = @ + 1][c] = IF c = op.content THEN refs[c] + 1 ELSE refs[c]
      BY ONLY <1>3, <2>1
    <3> QED BY ONLY <3>1, <3>2, <3>3
  <2>3. PICK vs, ws, ms : vs = versions /\ ws = versions' /\ ms = [versions EXCEPT ![a] = all]
    OBVIOUS
  <2>4. ms[a] = all /\ \A b \in Addresses \ {a} : ms[b] = versions[b]
    BY ONLY <1>3, <1>6, <2>3
  <2>5. Adds(vs, ms, a, n)
    BY <1>3, <1>5, <1>7, <1>8, <2>3, <2>4 DEF Adds
  <2>6. DOMAIN all \subseteq 1..MaxVersion
    BY <1>5, <1>6, <1>8
  <2>7. Drops(ms, ws, a, gone)
    BY <1>3, <1>11, <1>12, <2>3, <2>4, <2>6 DEF Drops
  <2>8. IsFiniteSet(Users(vs, c)) /\ Cardinality(Users(vs, c)) \in Nat
    BY <2>3, Countable DEF MemoryOK
  <2>9. /\ IsFiniteSet(Users(ms, c))
        /\ ms[a][n].content = c => Cardinality(Users(ms, c)) = Cardinality(Users(vs, c)) + 1
        /\ ms[a][n].content # c => Cardinality(Users(ms, c)) = Cardinality(Users(vs, c))
    BY ONLY <2>5, <2>8, AddCounts
  <2>10. /\ Cardinality(Users(ws, c)) = Cardinality(Users(ms, c)) - Lost(ms[a], gone, c)
         /\ Lost(ms[a], gone, c) \in Nat
    BY ONLY <2>7, <2>9, DropCounts
  <2>11. ms[a][n].content = op.content
    BY <1>4, <1>8, <2>4
  <2>12. refs[c] \in Int
    BY ONLY <2>1
  <2> QED BY ONLY <2>2, <2>3, <2>4, <2>8, <2>9, <2>10, <2>11, <2>12
<1>18. refs' \in [Contents -> Int]
  <2>1. refs' = [c \in Contents |-> refs'[c]]
    BY <1>2 DEF Artifacts!RefsWithout
  <2>2. \A c \in Contents : refs'[c] \in Int
    <3> TAKE c \in Contents
    <3> QED BY ONLY <1>17
  <2> QED BY ONLY <2>1, <2>2
<1>19. ASSUME Exact PROVE Exact'
  <2>1. \A c \in Contents : refs[c] = Cardinality(Users(versions, c))
    BY <1>19 DEF Exact
  <2>2. \A c \in Contents : refs'[c] = Cardinality(Users(versions', c))
    <3> TAKE c \in Contents
    <3> QED BY ONLY <1>17, <2>1
  <2>3. \A c : c \in blobs <=> c \in Contents /\ refs[c] > 0
    BY <1>19 DEF Exact
  <2>4. \A c \in Contents : refs'[c] > 0 => c = op.content \/ refs[c] > 0
    <3> TAKE c \in Contents
    <3> QED BY ONLY <1>17
  <2>5. \A c : c \in blobs' <=> c \in blobs \cup {op.content} /\ refs'[c] > 0
    BY ONLY <1>2
  <2>6. \A c : c \in blobs' <=> c \in Contents /\ refs'[c] > 0
    BY ONLY <1>3, <2>3, <2>4, <2>5
  <2>7. blobs' = {c \in Contents : refs'[c] > 0}
    BY ONLY <2>6
  <2> QED BY <2>2, <2>7 DEF Exact
<1>20. blobs' \subseteq Contents
  BY <1>2, <1>3 DEF MemoryOK, MemoryTypes
<1>21. MemoryTypes'
  BY <1>13, <1>14, <1>16, <1>18, <1>20 DEF MemoryOK, MemoryTypes
<1>22. Onward
  <2>1. \A b \in Addresses : high[b] \in 0..MaxVersion
    BY DEF MemoryOK, MemoryTypes
  <2> SUFFICES ASSUME NEW b \in Addresses
               PROVE /\ high[b] <= high'[b] /\ labels[b] \subseteq labels'[b]
                     /\ creator[b] # Nobody => creator'[b] = creator[b]
                     /\ high[b] = high'[b] => labels'[b] = labels[b] /\ (deleted[b] => deleted'[b] \/ creator[b] = Nobody)
                     /\ \A v \in DOMAIN versions'[b] \ DOMAIN versions[b] : v > high[b]
    BY DEF Onward
  <2>2. CASE b = a
    BY <1>5, <1>8, <1>12, <1>13, <2>1, <2>2
  <2>3. CASE b # a
    BY <1>12, <1>13, <2>1, <2>3
  <2> QED BY <2>2, <2>3
<1>23. ~broken' => Exact'
  BY <1>19 DEF MemoryOK, MemoryTypes
<1> QED BY <1>15, <1>21, <1>22, <1>23 DEF MemoryOK

-----------------------------------------------------------------------------
(* The record of the coordinator.                                          *)

\* The metadata of the addresses that have an owner (coordinator.py _artifact_snapshot).
LEMMA SnapshotNow ==
    ASSUME MemoryTypes
    PROVE /\ DOMAIN Artifacts!Snapshot = {a \in Addresses : creator[a] # Nobody}
          /\ \A a \in DOMAIN Artifacts!Snapshot :
                /\ Artifacts!Snapshot[a] = [version |-> high[a], labels |-> labels[a], deleted |-> deleted[a]]
                /\ Artifacts!Snapshot[a] \in Metadata
          /\ Artifacts!Snapshot \in Snapshots
<1> DEFINE D == {a \in Addresses : creator[a] # Nobody}
           S == [a \in D |-> [version |-> high[a], labels |-> labels[a], deleted |-> deleted[a]]]
<1>1. Artifacts!Snapshot = S
  BY DEF Artifacts!Snapshot
<1>2. \A a \in D : [version |-> high[a], labels |-> labels[a], deleted |-> deleted[a]] \in Metadata
  BY DEF MemoryTypes, Metadata
<1>3. S \in [D -> Metadata] /\ D \in SUBSET Addresses
  BY <1>2
<1> QED BY <1>1, <1>2, <1>3 DEF Snapshots

\* The same of the next state (coordinator.py _artifact_snapshot).
LEMMA SnapshotNext ==
    ASSUME MemoryTypes'
    PROVE /\ DOMAIN Artifacts!Snapshot' = {a \in Addresses : creator'[a] # Nobody}
          /\ \A a \in DOMAIN Artifacts!Snapshot' :
                /\ Artifacts!Snapshot'[a] = [version |-> high'[a], labels |-> labels'[a], deleted |-> deleted'[a]]
                /\ Artifacts!Snapshot'[a] \in Metadata
<1> DEFINE D == {a \in Addresses : creator'[a] # Nobody}
           S == [a \in D |-> [version |-> high'[a], labels |-> labels'[a], deleted |-> deleted'[a]]]
<1>1. Artifacts!Snapshot' = S
  BY DEF Artifacts!Snapshot
<1>2. \A a \in D : [version |-> high'[a], labels |-> labels'[a], deleted |-> deleted'[a]] \in Metadata
  BY DEF MemoryTypes, Metadata
<1> QED BY <1>1, <1>2

\* What lies behind the gateway stays behind it (coordinator.py _check_artifacts).
LEMMA StaysBelow ==
    ASSUME MemoryTypes, MemoryTypes', Onward, NEW f, \A a \in DOMAIN f : f[a] \in Metadata,
           Below(f, Artifacts!Snapshot)
    PROVE Below(f, Artifacts!Snapshot')
<1> SUFFICES ASSUME NEW a \in DOMAIN f
             PROVE /\ a \in DOMAIN Artifacts!Snapshot'
                   /\ f[a].version <= Artifacts!Snapshot'[a].version
                   /\ f[a].labels \subseteq Artifacts!Snapshot'[a].labels
                   /\ f[a].version = Artifacts!Snapshot'[a].version =>
                          f[a].labels = Artifacts!Snapshot'[a].labels
                          /\ (f[a].deleted => Artifacts!Snapshot'[a].deleted)
  BY DEF Below
<1>1. /\ a \in DOMAIN Artifacts!Snapshot
      /\ f[a].version <= Artifacts!Snapshot[a].version
      /\ f[a].labels \subseteq Artifacts!Snapshot[a].labels
      /\ f[a].version = Artifacts!Snapshot[a].version =>
             f[a].labels = Artifacts!Snapshot[a].labels
             /\ (f[a].deleted => Artifacts!Snapshot[a].deleted)
  BY DEF Below
<1>2. /\ a \in Addresses /\ creator[a] # Nobody
      /\ Artifacts!Snapshot[a] = [version |-> high[a], labels |-> labels[a], deleted |-> deleted[a]]
  BY <1>1, SnapshotNow
<1>3. /\ high[a] <= high'[a] /\ labels[a] \subseteq labels'[a] /\ creator'[a] # Nobody
      /\ high[a] = high'[a] => labels'[a] = labels[a] /\ (deleted[a] => deleted'[a])
  BY <1>2 DEF Onward
<1>4. /\ a \in DOMAIN Artifacts!Snapshot'
      /\ Artifacts!Snapshot'[a] = [version |-> high'[a], labels |-> labels'[a], deleted |-> deleted'[a]]
  BY <1>2, <1>3, SnapshotNext
<1>5. f[a].version \in 0..MaxVersion /\ high[a] \in 0..MaxVersion /\ high'[a] \in 0..MaxVersion
  BY <1>2 DEF MemoryTypes, Metadata
<1>6. MaxVersion \in Nat
  BY Limits
<1> QED BY ONLY <1>1, <1>2, <1>3, <1>4, <1>5, <1>6

\* Metadata the gateway comes back to are those it had all the time (coordinator.py
\* _artifact_transition compares them).
LEMMA NeverComesBack ==
    ASSUME MemoryTypes, MemoryTypes', Onward, NEW f, f \in Snapshots,
           Below(f, Artifacts!Snapshot), Artifacts!Snapshot' = f
    PROVE Artifacts!Snapshot = f
<1>1. /\ f = [a \in DOMAIN f |-> f[a]]
      /\ \A a \in DOMAIN f : f[a] \in Metadata
  BY DEF Snapshots
<1>2. Artifacts!Snapshot = [a \in DOMAIN Artifacts!Snapshot |-> Artifacts!Snapshot[a]]
  BY DEF Artifacts!Snapshot
<1>3. DOMAIN Artifacts!Snapshot = DOMAIN f
  <2>1. DOMAIN f \subseteq DOMAIN Artifacts!Snapshot
    BY DEF Below
  <2>2. \A a \in DOMAIN Artifacts!Snapshot : a \in DOMAIN Artifacts!Snapshot'
    BY SnapshotNow, SnapshotNext DEF Onward
  <2> QED BY <2>1, <2>2
<1>4. \A a \in DOMAIN f : Artifacts!Snapshot[a] = f[a]
  <2> TAKE a \in DOMAIN f
  <2>1. /\ a \in Addresses /\ creator[a] # Nobody
        /\ Artifacts!Snapshot[a] = [version |-> high[a], labels |-> labels[a], deleted |-> deleted[a]]
        /\ f[a] = [version |-> high'[a], labels |-> labels'[a], deleted |-> deleted'[a]]
    BY <1>3, SnapshotNow, SnapshotNext
  <2>2. /\ f[a].version <= Artifacts!Snapshot[a].version
        /\ f[a].version = Artifacts!Snapshot[a].version =>
               f[a].labels = Artifacts!Snapshot[a].labels
               /\ (f[a].deleted => Artifacts!Snapshot[a].deleted)
    BY DEF Below
  <2>3. /\ high[a] <= high'[a]
        /\ high[a] = high'[a] => labels'[a] = labels[a] /\ (deleted[a] => deleted'[a])
    BY <2>1 DEF Onward
  <2>4. /\ high[a] \in 0..MaxVersion /\ high'[a] \in 0..MaxVersion /\ MaxVersion \in Nat
        /\ deleted[a] \in BOOLEAN /\ deleted'[a] \in BOOLEAN
    BY <2>1, Limits DEF MemoryTypes
  <2>5. high'[a] <= high[a] /\ (high'[a] = high[a] => (deleted'[a] => deleted[a]))
    BY ONLY <2>1, <2>2
  <2>6. high[a] = high'[a]
    BY ONLY <2>3, <2>4, <2>5
  <2>7. deleted[a] = deleted'[a] /\ labels[a] = labels'[a]
    BY ONLY <2>3, <2>4, <2>5, <2>6
  <2> QED BY ONLY <2>1, <2>6, <2>7
<1> QED BY ONLY <1>1, <1>2, <1>3, <1>4

\* A step that writes no record keeps it true (coordinator.py _artifact_transition).
LEMMA RecordIsKept ==
    ASSUME ArtifactsInv, MemoryTypes', Onward, floors' = floors, broken => broken', intent' = intent,
           work' \in CallRows \cup {Nobody}, work' # Nobody => work # Nobody /\ work'.before = work.before,
           (work = Nobody /\ ~intent /\ ~broken' /\ Expires(floors, Artifacts!Snapshot))
               => Expires(floors, Artifacts!Snapshot')
    PROVE RecordOK'
<1>1. MemoryTypes /\ RecordOK
  BY DEF ArtifactsInv, MemoryOK
<1>2. DOMAIN floors \subseteq Addresses /\ \A a \in DOMAIN floors : floors[a] \in Metadata
  BY <1>1 DEF RecordOK
<1>3. Below(floors, Artifacts!Snapshot')
  <2>1. PICK f : f = floors
    OBVIOUS
  <2>2. Below(f, Artifacts!Snapshot) /\ \A a \in DOMAIN f : f[a] \in Metadata
    BY <1>1, <1>2, <2>1 DEF RecordOK
  <2> QED BY <1>1, <2>1, <2>2, StaysBelow
<1>4. ASSUME work' # Nobody
      PROVE /\ intent' /\ Below(work'.before, Artifacts!Snapshot')
            /\ ~broken' /\ Artifacts!Snapshot' = work'.before => Expires(floors, Artifacts!Snapshot')
  <2>1. work \in CallRows /\ work # Nobody /\ work'.before = work.before
    BY <1>1, <1>4 DEF RecordOK
  <2>2. PICK f : f = work.before
    OBVIOUS
  <2>3. f \in Snapshots
    BY <2>1, <2>2 DEF CallRows
  <2>4. \A a \in DOMAIN f : f[a] \in Metadata
    BY <2>3 DEF Snapshots
  <2>5. intent /\ Below(f, Artifacts!Snapshot)
    BY <1>1, <2>1, <2>2 DEF RecordOK
  <2>6. Below(f, Artifacts!Snapshot')
    BY <1>1, <2>4, <2>5, StaysBelow
  <2>7. ASSUME ~broken', Artifacts!Snapshot' = f PROVE Expires(floors, Artifacts!Snapshot')
    <3>1. Artifacts!Snapshot = f
      BY <1>1, <2>3, <2>5, <2>7, NeverComesBack
    <3>2. Expires(floors, Artifacts!Snapshot)
      BY <1>1, <2>1, <2>2, <2>7, <3>1 DEF RecordOK
    <3> QED BY <2>7, <3>1, <3>2
  <2> QED BY <2>1, <2>2, <2>5, <2>6, <2>7
<1>5. (work' = Nobody /\ ~intent' /\ ~broken') => Expires(floors, Artifacts!Snapshot')
  BY <1>1 DEF RecordOK
<1>6. /\ DOMAIN floors' \subseteq Addresses /\ \A a \in DOMAIN floors' : floors'[a] \in Metadata
      /\ Below(floors', Artifacts!Snapshot')
      /\ (work' = Nobody /\ ~intent' /\ ~broken') => Expires(floors', Artifacts!Snapshot')
  BY <1>2, <1>3, <1>5
<1>7. (work' # Nobody /\ ~broken' /\ Artifacts!Snapshot' = work'.before) => Expires(floors', Artifacts!Snapshot')
  BY <1>4
<1> QED BY <1>4, <1>6, <1>7 DEF RecordOK

-----------------------------------------------------------------------------
(* Every step.                                                             *)

\* A step beside the gateway leaves it as it is.
LEMMA QuietGateway ==
    ASSUME MemoryOK, now' \in 0..MaxTime, UNCHANGED Artifacts!gateway,
           owned' \in BOOLEAN, intent' \in BOOLEAN
    PROVE MemoryOK' /\ Onward /\ Artifacts!Snapshot' = Artifacts!Snapshot
<1>1. UNCHANGED <<creator, high, versions, labels, deleted, refs, blobs, broken>>
  BY DEF Artifacts!gateway
<1>2. Artifacts!Snapshot' = Artifacts!Snapshot
  BY <1>1 DEF Artifacts!Snapshot
<1>3. MemoryTypes' /\ (~broken' => Exact')
  BY <1>1 DEF MemoryOK, MemoryTypes, InUse, VersionsOK, Exact
<1>4. Artifacts!LabelsAccumulate'
  BY <1>1 DEF MemoryOK, Artifacts!LabelsAccumulate
<1>5. Onward
  <2>1. \A a \in Addresses : high[a] \in 0..MaxVersion
    BY DEF MemoryOK, MemoryTypes
  <2> QED BY <1>1, <2>1 DEF Onward
<1> QED BY <1>2, <1>3, <1>4, <1>5 DEF MemoryOK

\* A step that changes neither the gateway nor the record.
LEMMA QuietStep ==
    ASSUME ArtifactsInv, now' \in 0..MaxTime, UNCHANGED Artifacts!gateway, owned' \in BOOLEAN,
           intent' = intent, floors' = floors, work' \in CallRows \cup {Nobody},
           work' # Nobody => work # Nobody /\ work'.before = work.before
    PROVE ArtifactsInv' /\ Onward
<1>1. MemoryOK /\ intent' \in BOOLEAN
  BY DEF ArtifactsInv, MemoryOK, MemoryTypes
<1>2. MemoryOK' /\ Onward /\ Artifacts!Snapshot' = Artifacts!Snapshot
  BY <1>1, QuietGateway
<1>3. broken' = broken
  BY DEF Artifacts!gateway
<1>4. MemoryTypes'
  BY <1>2 DEF MemoryOK
<1>5. RecordOK'
  BY <1>2, <1>3, <1>4, RecordIsKept
<1> QED BY <1>2, <1>5 DEF ArtifactsInv

\* The call under way, and what it may become.
LEMMA CallNow ==
    ASSUME ArtifactsInv, work # Nobody
    PROVE /\ work \in CallRows /\ intent = TRUE /\ work.op \in Artifacts!Operations
          /\ \A s \in {"done", "raised"} : /\ [work EXCEPT !.stage = s] \in CallRows
                                           /\ [work EXCEPT !.stage = s].before = work.before
<1>1. work \in CallRows /\ intent = TRUE
  BY DEF ArtifactsInv, RecordOK, MemoryOK, MemoryTypes
<1> QED BY <1>1 DEF CallRows

\* The current metadata lie behind themselves.
LEMMA CurrentIsBelow ==
    ASSUME MemoryTypes, NEW f, f = Artifacts!Snapshot
    PROVE /\ Below(f, f) /\ Expires(f, f)
          /\ DOMAIN f \subseteq Addresses /\ \A a \in DOMAIN f : f[a] \in Metadata
<1>1. DOMAIN f \subseteq Addresses /\ \A a \in DOMAIN f : f[a] \in Metadata
  BY SnapshotNow
<1>2. \A a \in DOMAIN f : f[a].version \in Nat
  BY <1>1, Limits DEF Metadata
<1> QED BY <1>1, <1>2 DEF Below, Expires

\* The first transaction opens the intent and notes what the gateway has
\* (coordinator.py _artifact_transition).
LEMMA BeginStep ==
    ASSUME ArtifactsInv, NEW op \in Artifacts!Operations, Artifacts!Begin(op)
    PROVE ArtifactsInv' /\ Onward
<1>1. /\ work = Nobody /\ ~intent /\ intent' = TRUE /\ owned' = owned /\ floors' = floors
      /\ work' = [op |-> op, stage |-> "intent", before |-> Artifacts!Snapshot]
      /\ now' = now /\ UNCHANGED Artifacts!gateway
  BY DEF Artifacts!Begin
<1>2. MemoryOK /\ RecordOK /\ MemoryTypes
  BY DEF ArtifactsInv, MemoryOK
<1>3. MemoryOK' /\ Onward /\ Artifacts!Snapshot' = Artifacts!Snapshot
  <2>1. now' \in 0..MaxTime /\ owned' \in BOOLEAN /\ intent' \in BOOLEAN
    BY <1>1, <1>2 DEF MemoryTypes
  <2> QED BY <1>1, <1>2, <2>1, QuietGateway
<1>4. broken' = broken
  BY <1>1 DEF Artifacts!gateway
<1>5. work' \in CallRows /\ work'.before = Artifacts!Snapshot
  BY <1>1, <1>2, SnapshotNow DEF CallRows
<1>6. Below(work'.before, Artifacts!Snapshot')
  <2>1. PICK f : f = Artifacts!Snapshot
    OBVIOUS
  <2> QED BY <1>2, <1>3, <1>5, <2>1, CurrentIsBelow
<1>7. /\ DOMAIN floors' \subseteq Addresses /\ \A a \in DOMAIN floors' : floors'[a] \in Metadata
      /\ Below(floors', Artifacts!Snapshot')
  BY <1>1, <1>2, <1>3 DEF RecordOK
<1>8. ~broken' => Expires(floors', Artifacts!Snapshot')
  BY <1>1, <1>2, <1>3, <1>4 DEF RecordOK
<1>9. RecordOK'
  BY <1>1, <1>5, <1>6, <1>7, <1>8 DEF RecordOK
<1> QED BY <1>3, <1>9 DEF ArtifactsInv

\* The gateway writes, deletes or sweeps under the intent (coordinator.py _artifact_transition).
LEMMA PerformStep ==
    ASSUME ArtifactsInv, Artifacts!Perform
    PROVE ArtifactsInv' /\ Onward
<1>1. /\ work # Nobody /\ work' = [work EXCEPT !.stage = "done"]
      /\ now' = now /\ broken' = broken /\ owned' = owned /\ intent' = intent /\ floors' = floors
  BY DEF Artifacts!Perform
<1>2. /\ work' \in CallRows /\ work'.before = work.before /\ intent = TRUE
      /\ work.op \in Artifacts!Operations
  BY <1>1, CallNow
<1>3. MemoryOK /\ broken' \in BOOLEAN
  BY <1>1 DEF ArtifactsInv, MemoryOK, MemoryTypes
<1>4. PICK op \in Artifacts!Operations : op = work.op
  BY <1>2
<1>5. MemoryOK' /\ Onward
  <2>1. CASE op.kind = "write" /\ Artifacts!Write(op)
    <3>1. op \in Artifacts!Writes
      BY <1>4, <2>1 DEF Artifacts!Operations, Artifacts!Writes, Artifacts!Deletes
    <3> QED BY <1>1, <1>3, <2>1, <3>1, WriteStep
  <2>2. CASE op.kind = "delete" /\ Artifacts!Delete(op)
    <3>1. op \in Artifacts!Deletes
      BY <1>4, <2>2 DEF Artifacts!Operations, Artifacts!Writes, Artifacts!Deletes
    <3> QED BY <1>1, <1>3, <2>2, <3>1, DeleteStep
  <2>3. CASE Artifacts!Sweep
    BY <1>1, <1>3, <2>3, SweepStep
  <2> QED BY <1>4, <2>1, <2>2, <2>3 DEF Artifacts!Perform
<1>6. RecordOK'
  <2>1. MemoryTypes'
    BY <1>5 DEF MemoryOK
  <2> QED BY <1>1, <1>2, <1>5, <2>1, RecordIsKept
<1> QED BY <1>5, <1>6 DEF ArtifactsInv

\* A failure half way breaks the gateway and leaves the intent (memory.py write).
LEMMA BreakStep ==
    ASSUME ArtifactsInv, Artifacts!Break
    PROVE ArtifactsInv' /\ Onward
<1>1. /\ work # Nobody /\ broken' = TRUE
      /\ work' = IF work.op.kind = "sweep" THEN Nobody ELSE [work EXCEPT !.stage = "raised"]
      /\ now' = now /\ owned' = owned /\ intent' = intent /\ floors' = floors
  BY DEF Artifacts!Break
<1>2. /\ work' \in CallRows \cup {Nobody}
      /\ work' # Nobody => work'.before = work.before
      /\ intent = TRUE /\ work.op \in Artifacts!Operations
  BY <1>1, CallNow
<1>3. MemoryOK /\ MemoryTypes
  BY DEF ArtifactsInv, MemoryOK
<1>4. PICK op \in Artifacts!Operations : op = work.op
  BY <1>2
<1>5. MemoryOK' /\ Onward
  <2>1. CASE op.kind = "write" /\ Artifacts!Write(op)
    <3>1. op \in Artifacts!Writes
      BY <1>4, <2>1 DEF Artifacts!Operations, Artifacts!Writes, Artifacts!Deletes
    <3> QED BY <1>1, <1>3, <2>1, <3>1, WriteStep
  <2>2. CASE UNCHANGED <<creator, high, versions, labels, deleted, refs>> /\ blobs' \subseteq Contents
    <3>1. MemoryTypes'
      BY <1>1, <1>3, <2>2 DEF MemoryTypes, InUse, VersionsOK
    <3>2. Artifacts!LabelsAccumulate'
      BY <1>3, <2>2 DEF MemoryOK, Artifacts!LabelsAccumulate
    <3>3. Onward
      <4>1. \A a \in Addresses : high[a] \in 0..MaxVersion
        BY <1>3 DEF MemoryTypes
      <4> QED BY <2>2, <4>1 DEF Onward
    <3> QED BY <1>1, <3>1, <3>2, <3>3 DEF MemoryOK
  <2>3. \/ UNCHANGED <<creator, high, versions, labels, deleted, refs, blobs>>
        \/ /\ op.kind = "write" /\ blobs' = blobs \cup {op.content}
           /\ UNCHANGED <<creator, high, versions, labels, deleted, refs>>
        \/ op.kind = "write" /\ Artifacts!Write(op)
    BY <1>4 DEF Artifacts!Break
  <2>4. op.kind = "write" => op.content \in Contents
    BY <1>4 DEF Artifacts!Operations, Artifacts!Writes, Artifacts!Deletes
  <2>5. blobs \subseteq Contents
    BY <1>3 DEF MemoryTypes
  <2> QED BY <2>1, <2>2, <2>3, <2>4, <2>5
<1>6. RecordOK'
  <2>1. MemoryTypes'
    BY <1>5 DEF MemoryOK
  <2> QED BY <1>1, <1>2, <1>5, <2>1, RecordIsKept
<1> QED BY <1>5, <1>6 DEF ArtifactsInv

\* The second transaction and a checkpoint record what the gateway has.
LEMMA RecordStep ==
    ASSUME ArtifactsInv, Artifacts!Commit \/ Artifacts!Checkpoint
    PROVE ArtifactsInv' /\ Onward
<1>1. /\ floors' = Artifacts!Snapshot /\ now' = now /\ UNCHANGED Artifacts!gateway /\ owned' = owned
      /\ work' = Nobody \/ (work' = work /\ intent' = intent)
      /\ intent' \in {FALSE, intent}
  BY DEF Artifacts!Commit, Artifacts!Checkpoint
<1>2. MemoryOK /\ RecordOK /\ MemoryTypes
  BY DEF ArtifactsInv, MemoryOK
<1>3. MemoryOK' /\ Onward /\ Artifacts!Snapshot' = Artifacts!Snapshot
  <2>1. now' \in 0..MaxTime /\ owned' \in BOOLEAN /\ intent' \in BOOLEAN
    BY <1>1, <1>2 DEF MemoryTypes
  <2> QED BY <1>1, <1>2, <2>1, QuietGateway
<1>4. /\ Below(floors', Artifacts!Snapshot') /\ Expires(floors', Artifacts!Snapshot')
      /\ DOMAIN floors' \subseteq Addresses /\ \A a \in DOMAIN floors' : floors'[a] \in Metadata
  <2>1. PICK f : f = Artifacts!Snapshot
    OBVIOUS
  <2> QED BY <1>1, <1>2, <1>3, <2>1, CurrentIsBelow
<1>5. /\ work' \in CallRows \cup {Nobody}
      /\ work' # Nobody => intent' /\ Below(work'.before, Artifacts!Snapshot')
  BY <1>1, <1>2, <1>3 DEF RecordOK
<1>6. RecordOK'
  BY <1>4, <1>5 DEF RecordOK
<1> QED BY <1>3, <1>6 DEF ArtifactsInv

\* The handler of a failure drops the intent only if nothing happened
\* (coordinator.py _artifact_transition).
LEMMA ClearStep ==
    ASSUME ArtifactsInv, Artifacts!Clear
    PROVE ArtifactsInv' /\ Onward
<1>1. /\ work # Nobody /\ work' = Nobody /\ floors' = floors /\ now' = now
      /\ UNCHANGED Artifacts!gateway /\ owned' = owned
      /\ intent' = IF Artifacts!NoEffect /\ owned THEN FALSE ELSE intent
  BY DEF Artifacts!Clear
<1>2. MemoryOK /\ RecordOK /\ MemoryTypes /\ intent = TRUE
  BY <1>1, CallNow DEF ArtifactsInv, MemoryOK
<1>3. MemoryOK' /\ Onward /\ Artifacts!Snapshot' = Artifacts!Snapshot
  <2>1. now' \in 0..MaxTime /\ owned' \in BOOLEAN /\ intent' \in BOOLEAN
    BY <1>1, <1>2 DEF MemoryTypes
  <2> QED BY <1>1, <1>2, <2>1, QuietGateway
<1>4. ~intent' => ~broken /\ Artifacts!Snapshot = work.before
  BY <1>1, <1>2 DEF Artifacts!NoEffect
<1>5. ~intent' => Expires(floors, Artifacts!Snapshot)
  BY <1>1, <1>2, <1>4 DEF RecordOK
<1>6. RecordOK'
  BY <1>1, <1>2, <1>3, <1>5 DEF RecordOK
<1> QED BY <1>3, <1>6 DEF ArtifactsInv

\* A tombstone replaces one field of the metadata.
LEMMA FieldIsReplaced ==
    ASSUME NEW S, NEW T, NEW U, NEW r \in [version : S, labels : T, deleted : U], NEW x
    PROVE [r EXCEPT !.deleted = x] = [version |-> r.version, labels |-> r.labels, deleted |-> x]
OBVIOUS

\* A read cleans up, or fails (memory.py _read).
LEMMA ReadStep ==
    ASSUME ArtifactsInv, NEW g \in Owners, NEW a \in Addresses, NEW v \in 1..MaxVersion,
           Artifacts!Read(g, a, v)
    PROVE ArtifactsInv' /\ Onward
<1>1. /\ now' = now /\ owned' = owned /\ intent' = intent /\ floors' = floors /\ work' = work
      /\ \/ Artifacts!Purged(a)
         \/ broken' = TRUE /\ UNCHANGED <<creator, high, versions, labels, deleted, refs, blobs>>
  BY DEF Artifacts!Read
<1>2. MemoryOK /\ RecordOK /\ MemoryTypes /\ work \in CallRows \cup {Nobody}
  BY DEF ArtifactsInv, MemoryOK, RecordOK
<1>3. CASE Artifacts!Purged(a)
  <2>1. MemoryOK' /\ Onward /\ \A b \in Addresses : deleted'[b] \in {deleted[b], TRUE}
    BY <1>1, <1>2, <1>3, PurgeStep
  <2>2. MemoryTypes' /\ broken' = broken /\ UNCHANGED <<creator, high, labels>>
    BY <1>3, <2>1 DEF MemoryOK, Artifacts!Purged
  <2>3. ASSUME Expires(floors, Artifacts!Snapshot) PROVE Expires(floors, Artifacts!Snapshot')
    <3>1. DOMAIN Artifacts!Snapshot' = DOMAIN Artifacts!Snapshot
      BY <1>2, <2>2, SnapshotNow, SnapshotNext
    <3>2. DOMAIN floors = DOMAIN Artifacts!Snapshot'
      BY <2>3, <3>1 DEF Expires
    <3>3. ASSUME NEW b \in DOMAIN floors
          PROVE \/ Artifacts!Snapshot'[b] = floors[b]
                \/ Artifacts!Snapshot'[b] = [floors[b] EXCEPT !.deleted = TRUE]
      <4>1. /\ b \in Addresses
            /\ Artifacts!Snapshot[b] = [version |-> high[b], labels |-> labels[b], deleted |-> deleted[b]]
            /\ Artifacts!Snapshot'[b] = [version |-> high[b], labels |-> labels[b], deleted |-> deleted'[b]]
        BY <1>2, <2>2, <3>1, <3>2, SnapshotNow, SnapshotNext
      <4>2. \/ Artifacts!Snapshot[b] = floors[b]
            \/ Artifacts!Snapshot[b] = [floors[b] EXCEPT !.deleted = TRUE]
        BY <2>3 DEF Expires
      <4>3. deleted'[b] = deleted[b] \/ deleted'[b] = TRUE
        BY <2>1, <4>1
      <4>4. floors[b] \in Metadata
        BY <1>2 DEF RecordOK
      <4>5. PICK r \in Metadata : r = floors[b]
        BY <4>4
      <4>6. PICK n, k, d : r = [version |-> n, labels |-> k, deleted |-> d]
        BY ONLY r \in Metadata DEF Metadata
      <4>7. [r EXCEPT !.deleted = TRUE] = [version |-> n, labels |-> k, deleted |-> TRUE]
        <5>1. PICK x : x = TRUE
          OBVIOUS
        <5>2. [r EXCEPT !.deleted = x] = [version |-> r.version, labels |-> r.labels, deleted |-> x]
          BY ONLY r \in Metadata, FieldIsReplaced DEF Metadata
        <5>3. r.version = n /\ r.labels = k
          BY ONLY <4>6
        <5> QED BY ONLY <5>1, <5>2, <5>3
      <4>8. high[b] = n /\ labels[b] = k /\ (deleted[b] = d \/ deleted[b] = TRUE)
        BY ONLY <4>1, <4>2, <4>5, <4>6, <4>7
      <4>9. Artifacts!Snapshot'[b] = r \/ Artifacts!Snapshot'[b] = [r EXCEPT !.deleted = TRUE]
        BY ONLY <4>1, <4>3, <4>6, <4>7, <4>8
      <4> QED BY ONLY <4>5, <4>9
    <3> QED BY <3>2, <3>3 DEF Expires
  <2>4. RecordOK'
    BY <1>1, <1>2, <2>1, <2>2, <2>3, RecordIsKept
  <2> QED BY <2>1, <2>4 DEF ArtifactsInv
<1>4. CASE broken' = TRUE /\ UNCHANGED <<creator, high, versions, labels, deleted, refs, blobs>>
  <2>1. MemoryTypes'
    BY <1>1, <1>2, <1>4 DEF MemoryTypes, InUse, VersionsOK
  <2>2. Artifacts!LabelsAccumulate'
    BY <1>2, <1>4 DEF MemoryOK, Artifacts!LabelsAccumulate
  <2>3. Onward
    <3>1. \A b \in Addresses : high[b] \in 0..MaxVersion
      BY <1>2 DEF MemoryTypes
    <3> QED BY <1>4, <3>1 DEF Onward
  <2>4. MemoryOK'
    BY <1>4, <2>1, <2>2 DEF MemoryOK
  <2>5. RecordOK'
    BY <1>1, <1>2, <1>4, <2>1, <2>3, RecordIsKept
  <2> QED BY <2>3, <2>4, <2>5 DEF ArtifactsInv
<1> QED BY <1>1, <1>3, <1>4

\* Every step keeps the invariant, and no address goes back in it.
LEMMA ArtifactsStep == ArtifactsInv /\ Artifacts!Next => ArtifactsInv' /\ Onward
<1> SUFFICES ASSUME ArtifactsInv, Artifacts!Next PROVE ArtifactsInv' /\ Onward
  OBVIOUS
<1>0. /\ now \in 0..MaxTime /\ owned \in BOOLEAN /\ work \in CallRows \cup {Nobody} /\ MaxTime \in Nat
  BY Limits DEF ArtifactsInv, MemoryOK, MemoryTypes, RecordOK
<1>1. CASE \E op \in Artifacts!Operations : Artifacts!Begin(op)
  BY <1>1, BeginStep
<1>2. CASE Artifacts!Perform
  BY <1>2, PerformStep
<1>3. CASE Artifacts!Deny \/ Artifacts!CommitFails
  <2>1. /\ work # Nobody /\ UNCHANGED Artifacts!gateway /\ now' = now /\ owned' = owned /\ intent' = intent
        /\ floors' = floors
        /\ work' = IF work.op.kind = "sweep" THEN Nobody ELSE [work EXCEPT !.stage = "raised"]
    BY <1>3 DEF Artifacts!Deny, Artifacts!CommitFails
  <2>2. work' \in CallRows \cup {Nobody} /\ (work' # Nobody => work # Nobody /\ work'.before = work.before)
    BY <2>1, CallNow
  <2> QED BY <1>0, <2>1, <2>2, QuietStep
<1>4. CASE Artifacts!Break
  BY <1>4, BreakStep
<1>5. CASE Artifacts!Commit \/ Artifacts!Checkpoint
  BY <1>5, RecordStep
<1>6. CASE Artifacts!Clear
  BY <1>6, ClearStep
<1>7. CASE \E a \in Addresses, g \in Owners, allowed \in SUBSET Labels :
              Artifacts!Grant(a, g, {"read"}, allowed) \/ Artifacts!Grant(a, g, Artifacts!Rights, allowed)
  <2>1. /\ now' = now /\ UNCHANGED Artifacts!gateway /\ owned' = owned /\ intent' = intent
        /\ floors' = floors /\ work' = work
    BY <1>7 DEF Artifacts!Grant
  <2> QED BY <1>0, <2>1, QuietStep
<1>8. CASE \E r \in grants : Artifacts!Revoke(r)
  <2>1. /\ now' = now /\ UNCHANGED Artifacts!gateway /\ owned' = owned /\ intent' = intent
        /\ floors' = floors /\ work' = work
    BY <1>8 DEF Artifacts!Revoke
  <2> QED BY <1>0, <2>1, QuietStep
<1>9. CASE \E a \in Addresses, g \in Owners, v \in 1..MaxVersion : Artifacts!Read(g, a, v)
  BY <1>9, ReadStep
<1>10. CASE Artifacts!LoseOwner \/ Artifacts!TakeOwner \/ Artifacts!Tick
  <2>1. /\ UNCHANGED Artifacts!gateway /\ intent' = intent /\ floors' = floors /\ work' = work
        /\ owned' \in BOOLEAN
    BY <1>0, <1>10 DEF Artifacts!LoseOwner, Artifacts!TakeOwner, Artifacts!Tick
  <2>2. now' = now \/ (now < MaxTime /\ now' = now + 1)
    BY <1>10 DEF Artifacts!LoseOwner, Artifacts!TakeOwner, Artifacts!Tick
  <2>3. now' \in 0..MaxTime
    BY <1>0, <2>2
  <2> QED BY <1>0, <2>1, <2>3, QuietStep
<1> QED BY <1>1, <1>2, <1>3, <1>4, <1>5, <1>6, <1>7, <1>8, <1>9, <1>10 DEF Artifacts!Next

\* At first nobody has written anything and nothing is recorded.
LEMMA ArtifactsStart == Artifacts!Init => ArtifactsInv
<1> SUFFICES ASSUME Artifacts!Init PROVE ArtifactsInv
  OBVIOUS
<1>1. /\ now = 0 /\ creator = [a \in Addresses |-> Nobody] /\ high = [a \in Addresses |-> 0]
      /\ versions = [a \in Addresses |-> << >>] /\ labels = [a \in Addresses |-> {}]
      /\ deleted = [a \in Addresses |-> FALSE] /\ refs = [c \in Contents |-> 0] /\ blobs = {}
      /\ broken = FALSE /\ owned = TRUE /\ intent = FALSE /\ floors = << >> /\ work = Nobody
  BY DEF Artifacts!Init
<1>2. \A a \in Addresses : DOMAIN versions[a] = {}
  BY <1>1
<1>3. VersionsOK
  <2>1. Cardinality({}) = 0
    BY FS_EmptySet
  <2> QED BY <1>1, <1>2, <2>1, Limits DEF VersionsOK
<1>4. IsFiniteSet(InUse)
  <2>1. InUse = {}
    BY <1>1 DEF InUse
  <2> QED BY <2>1, FS_EmptySet
<1>5. MemoryTypes
  <2>1. /\ creator \in [Addresses -> Owners \cup {Nobody}] /\ labels \in [Addresses -> SUBSET Labels]
        /\ deleted \in [Addresses -> BOOLEAN] /\ refs \in [Contents -> Int]
    BY <1>1
  <2>2. high \in [Addresses -> 0..MaxVersion] /\ now \in 0..MaxTime
    BY <1>1, Limits
  <2> QED BY <1>1, <1>3, <1>4, <2>1, <2>2 DEF MemoryTypes
<1>6. Artifacts!LabelsAccumulate
  BY <1>2 DEF Artifacts!LabelsAccumulate
<1>7. Exact
  <2>1. \A c \in Contents : Users(versions, c) = {}
    <3> SUFFICES ASSUME NEW c \in Contents, NEW x \in Users(versions, c) PROVE FALSE
      OBVIOUS
    <3>1. x[1] \in Addresses /\ x[2] \in DOMAIN versions[x[1]]
      BY DEF Users
    <3> QED BY <1>2, <3>1
  <2>2. \A c \in Contents : refs[c] = 0
    BY <1>1
  <2>3. Cardinality({}) = 0
    BY FS_EmptySet
  <2>4. \A c \in Contents : refs[c] = Cardinality(Users(versions, c))
    BY ONLY <2>1, <2>2, <2>3
  <2>5. blobs = {c \in Contents : refs[c] > 0}
    <3>0. ~(0 > 0)
      OBVIOUS
    <3>1. \A c \in Contents : ~(refs[c] > 0)
      BY ONLY <2>2, <3>0, Zenon
    <3>2. \A c : ~(c \in blobs)
      BY <1>1
    <3> DEFINE S == {c \in Contents : refs[c] > 0}
    <3>3. \A c : c \in S => c \in Contents /\ refs[c] > 0
      OBVIOUS
    <3> HIDE DEF S
    <3>4. blobs = S
      BY ONLY <3>1, <3>2, <3>3
    <3> QED BY <3>4 DEF S
  <2> QED BY ONLY <2>4, <2>5 DEF Exact
<1>8. RecordOK
  <2>1. DOMAIN floors = {}
    BY <1>1
  <2>2. DOMAIN Artifacts!Snapshot = {}
    BY <1>1, <1>5, SnapshotNow
  <2> QED BY <1>1, <2>1, <2>2 DEF RecordOK, Below, Expires
<1> QED BY <1>5, <1>6, <1>7, <1>8 DEF ArtifactsInv, MemoryOK

\* Messages leave the artifacts alone.
LEMMA ArtifactsRest == ArtifactsInv /\ UNCHANGED artifacts => ArtifactsInv' /\ Onward
<1> SUFFICES ASSUME ArtifactsInv, UNCHANGED artifacts PROVE ArtifactsInv' /\ Onward
  OBVIOUS
<1>1. /\ now' = now /\ UNCHANGED Artifacts!gateway /\ owned' = owned /\ intent' = intent
      /\ floors' = floors /\ work' = work
  BY DEF artifacts, Artifacts!gateway
<1>2. now \in 0..MaxTime /\ owned \in BOOLEAN /\ work \in CallRows \cup {Nobody}
  BY DEF ArtifactsInv, MemoryOK, MemoryTypes, RecordOK
<1> QED BY <1>1, <1>2, QuietStep

\* The invariant of the artifacts holds whatever messages are sent, and no address goes back.
LEMMA ArtifactsAreSound == DataSpec => []ArtifactsInv /\ [][Onward]_artifacts
<1>1. Artifacts!Init => ArtifactsInv
  BY ArtifactsStart
<1>2. ArtifactsInv /\ [DataNext]_<<artifacts, traffic>> => ArtifactsInv' /\ Onward
  <2>1. [DataNext]_<<artifacts, traffic>> => Artifacts!Next \/ UNCHANGED artifacts
    BY DEF DataNext
  <2> QED BY <2>1, ArtifactsStep, ArtifactsRest
<1>3. ArtifactsInv /\ [DataNext]_<<artifacts, traffic>> => [Onward]_artifacts
  BY <1>2
<1> QED BY <1>1, <1>2, <1>3, PTL DEF DataSpec

\* For all agents, addresses, contents and labels and all limits: the bytes are those of the
\* versions, labels accumulate, an effect that is not recorded keeps its intent, the record
\* never claims more than the gateway has, and a number of a version is used once
\* (memory.py, coordinator.py _artifact_transition).
THEOREM ArtifactsStayExact == DataSpec => ArtifactsAgree
<1>1. ArtifactsInv => RecordsAgree
  <2> SUFFICES ASSUME ArtifactsInv PROVE RecordsAgree
    OBVIOUS
  <2>1. MemoryTypes /\ RecordOK /\ Artifacts!LabelsAccumulate /\ (~broken => Exact)
    BY DEF ArtifactsInv, MemoryOK
  <2>2. Artifacts!TypeOK
    <3>1. ASSUME NEW a \in Addresses
          PROVE /\ creator[a] \in Owners \cup {Nobody} /\ high[a] \in 0..MaxVersion
                /\ DOMAIN versions[a] \subseteq 1..high[a]
                /\ Artifacts!Cardinality(DOMAIN versions[a]) <= VersionLimit
                /\ labels[a] \subseteq Labels /\ deleted[a] \in BOOLEAN
      BY <2>1, SizeIsSize DEF MemoryTypes, VersionsOK
    <3> QED BY <2>1, <3>1 DEF MemoryTypes, Artifacts!TypeOK
  <2>3. Artifacts!BytesAreReferenced
    <3> SUFFICES ASSUME ~broken
                 PROVE /\ \A c \in Contents : refs[c] = Artifacts!Cardinality(
                              {x \in Addresses \X (1..MaxVersion) :
                                  x[2] \in DOMAIN versions[x[1]] /\ versions[x[1]][x[2]].content = c})
                       /\ blobs = {c \in Contents : refs[c] > 0}
      BY DEF Artifacts!BytesAreReferenced
    <3>1. /\ \A c \in Contents : refs[c] = Cardinality(Users(versions, c))
          /\ blobs = {c \in Contents : refs[c] > 0}
      BY <2>1 DEF Exact
    <3>2. \A c \in Contents : refs[c] = Artifacts!Cardinality(Users(versions, c))
      BY <3>1, SizeIsSize
    <3> QED BY ONLY <3>1, <3>2 DEF Users
  <2>4. Artifacts!RecordedOrHeld
    BY <2>1 DEF RecordOK, Expires, Artifacts!RecordedOrHeld
  <2>5. Artifacts!FloorsAreReached
    BY <2>1 DEF RecordOK, Below, Artifacts!FloorsAreReached
  <2> QED BY <2>1, <2>2, <2>3, <2>4, <2>5 DEF RecordsAgree
<1>2. Onward => Artifacts!NumbersStep
  BY DEF Onward, Artifacts!NumbersStep
<1> QED BY <1>1, <1>2, ArtifactsAreSound, PTL DEF ArtifactsAgree
=============================================================================
