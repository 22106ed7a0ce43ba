------------------------ MODULE ApprovalServiceProofs ------------------------
(***************************************************************************)
(* Proofs about the approval service for any number of service objects,    *)
(* operators and requests.  What is said of a request follows from its row,*)
(* its lease and the call its maker is executing for it; a call is always  *)
(* that of the maker, so that a step of one request leaves the others      *)
(* alone.                                                                  *)
(***************************************************************************)
EXTENDS ApprovalService, FiniteSetTheorems, TLAPS

\* Positions of a call for an action, and of one that resumes.
Acting == {"held", "leased", "dispatch", "consumed", "begun", "verified", "ran", "failed"}
Resuming == {"resuming", "resumed", "unresumed"}
Calls == {Idle} \cup [request : Requests, step : Acting \cup Resuming]

Statuses == {"none"} \cup Open \cup Refused \cup Spent
Leases == {"none", "reserved", "forwarding", "settled", "canceled"}
Bindings == [fence : 0..MaxFence, revocation : Nat, directory : Nat, context : Nat]
Rows == [maker : Services \cup {None}, expires : 0..(MaxTime + Life), binding : Bindings \cup {None},
         votes : Votes, resolutions : SUBSET [by : Enrollments, key : Keys, choice : Choices]]
Memories == [known : BOOLEAN, receipt : BOOLEAN, ready : BOOLEAN, lease : Leases]

WorldOK ==
    /\ owner \in [id : Services \cup {None}, fence : 0..MaxFence]
    /\ directory \in [members : SUBSET Enrollments, generation : Nat]
    /\ context \in Nat /\ revocation \in Nat /\ contained \in BOOLEAN
    /\ incident \in [epoch : Nat, fence : 0..MaxFence, settled : BOOLEAN, reconciled : BOOLEAN]
    /\ now \in 0..MaxTime
ServiceOK ==
    /\ ns \in [instance : Services \cup {None}, fence : 0..MaxFence]
    /\ closing \subseteq Requests /\ bound \subseteq Services /\ incomplete \in BOOLEAN
    /\ effects \in [Requests -> Nat]
RowsOK == status \in [Requests -> Statuses] /\ row \in [Requests -> Rows]
MemoryOK == memory \in [Requests -> Memories]
CallsOK == call \in [Services -> Calls]
Typed == WorldOK /\ ServiceOK /\ RowsOK /\ MemoryOK /\ CallsOK

\* A call is for a request that exists, and is executed by its maker.
Linked ==
    \A s \in Services : call[s] # Idle =>
        status[call[s].request] # "none" /\ row[call[s].request].maker = s

\* The position of the call that is executed for a request.
CallOf(r) ==
    IF status[r] # "none" /\ call[row[r].maker].request = r THEN call[row[r].maker].step ELSE "idle"

\* The row of a request: who made it, and who voted.
Voters(r) == {h \in Humans : row[r].votes[h] # None}
RowAt(r) ==
    /\ status[r] # "none" => row[r].maker \in Services /\ row[r].binding \in Bindings
    /\ status[r] \in Open \cup {"consumed"} => row[r].maker = ns.instance
    /\ status[r] \in {"held"} \cup Spent => Cardinality(Voters(r)) >= Quorum[r]
    /\ status[r] \notin Refused =>
           \A h \in Humans : row[r].votes[h] # None => row[r].votes[h].choice = "approve"

\* A recovery is bound to one incident, which is reconciled once it resumed.
BoundAt(r) ==
    r \in Recoveries /\ status[r] # "none" =>
        /\ row[r].binding.context = row[r].binding.revocation
        /\ row[r].binding.revocation <= revocation
        /\ effects[r] > 0 /\ row[r].binding.revocation = revocation => incident.reconciled

\* The effect of a request and its lease, when the call for it is at k.
Use(r, k) ==
    /\ effects[r] \in {0, 1}
    /\ effects[r] = 1 => status[r] \in Spent
    /\ effects[r] = 1 /\ r \notin Recoveries => memory[r].lease \notin {"none", "reserved"}
    /\ memory[r].lease = "forwarding" =>
           status[r] \in Spent /\ k \in {"begun", "verified", "ran", "failed"}
    /\ k \in Acting => r \notin Recoveries
    /\ k \in Resuming => r \in Recoveries
    /\ k \in {"begun", "verified"} => memory[r].lease = "forwarding" /\ effects[r] = 0
    /\ k = "ran" => memory[r].lease = "forwarding"
    /\ k = "resuming" => effects[r] = 0 /\ status[r] \in Spent
UseAt(r) == Use(r, CallOf(r))

Local(r) == RowAt(r) /\ BoundAt(r) /\ UseAt(r)

\* The inductive invariant.
IInv == Typed /\ Linked /\ (\A r \in Requests : Local(r)) /\ OneResumePerIncident
-----------------------------------------------------------------------------
(* What a step may leave alone.                                            *)

\* Requests other than r keep what they have, and calls for them go on.
Alone(r) ==
    /\ \A q \in Requests \ {r} : /\ status'[q] = status[q] /\ row'[q] = row[q]
                                 /\ memory'[q] = memory[q] /\ effects'[q] = effects[q]
    /\ \A s \in Services : \/ call'[s] = call[s]
                           \/ {call[s].request, call'[s].request} \subseteq {r, None}
    /\ ns' = ns /\ revocation' = revocation
    /\ incident.reconciled => incident'.reconciled

\* A row stays, with its maker.
Persist ==
    \A q \in Requests : status[q] # "none" => status'[q] # "none" /\ row'[q].maker = row[q].maker

\* No recovery is used that was not used before.
Unused ==
    \A q \in Recoveries : effects'[q] > 0 => effects[q] > 0 /\ row'[q].binding = row[q].binding

LEMMA LinkedKept ==
    ASSUME Typed, Linked, Persist,
           \A s \in Services :
              \/ call'[s] \in {Idle, call[s]}
              \/ /\ call'[s].request \in Requests /\ status[call'[s].request] # "none"
                 /\ row[call'[s].request].maker = s
    PROVE  Linked'
<1> SUFFICES ASSUME NEW s \in Services, call'[s] # Idle
             PROVE  status'[call'[s].request] # "none" /\ row'[call'[s].request].maker = s
    BY DEF Linked
<1>1. call'[s].request \in Requests /\ status[call'[s].request] # "none"
      /\ row[call'[s].request].maker = s
    <2>1. CASE call'[s] = call[s]
        BY <2>1 DEF Linked, Typed, CallsOK, Calls
    <2> QED
        BY <2>1
<1> QED
    BY <1>1 DEF Persist

LEMMA ResumesKept ==
    ASSUME OneResumePerIncident, Unused
    PROVE  OneResumePerIncident'
BY DEF OneResumePerIncident, Resumed, Unused

\* The invariant holds after a step that keeps it for the only request it is about.
LEMMA FrameKeeps ==
    ASSUME IInv, NEW r \in Requests, Alone(r), Typed', Linked', Local(r)', OneResumePerIncident'
    PROVE  IInv'
<1> SUFFICES ASSUME NEW q \in Requests, q # r PROVE Local(q)'
    BY DEF IInv
<1>1. Local(q) /\ q # None
    BY ApprovalConstants DEF IInv
<1>2. status'[q] = status[q] /\ row'[q] = row[q] /\ memory'[q] = memory[q] /\ effects'[q] = effects[q]
      /\ ns' = ns /\ revocation' = revocation /\ (incident.reconciled => incident'.reconciled)
    BY DEF Alone
<1>3. \A s \in Services : call'[s] # call[s] => call[s].request # q /\ call'[s].request # q
    BY <1>1 DEF Alone
<1>4. RowAt(q)'
    BY <1>1, <1>2 DEF Local, RowAt, Voters
<1>5. BoundAt(q)'
    BY <1>1, <1>2 DEF Local, BoundAt
<1>6. CallOf(q)' = CallOf(q)
    BY <1>1, <1>2, <1>3 DEF CallOf, Local, RowAt
<1>7. UseAt(q)'
    BY <1>1, <1>2, <1>6 DEF Local, UseAt, Use
<1> QED
    BY <1>4, <1>5, <1>7 DEF Local

\* Nothing that the invariant speaks of changes, or time passes for the world only.
LEMMA Calm ==
    ASSUME IInv, Typed', UNCHANGED <<ns, status, row, memory, call, effects>>,
           \/ revocation' = revocation /\ (incident.reconciled => incident'.reconciled)
           \/ revocation' > revocation
    PROVE  IInv'
<1>1. Linked'
    BY DEF IInv, Linked
<1>2. OneResumePerIncident'
    BY ResumesKept DEF IInv, Unused
<1>3. ASSUME NEW q \in Requests PROVE Local(q)'
    <2>1. Local(q)
        BY DEF IInv
    <2>2. RowAt(q)'
        BY <2>1 DEF Local, RowAt, Voters
    <2>3. BoundAt(q)'
        <3>1. revocation \in Nat /\ revocation' \in Nat
            BY DEF IInv, Typed, WorldOK
        <3>2. q \in Recoveries /\ status[q] # "none" => row[q].binding.revocation \in Nat
            BY <2>1 DEF Local, RowAt, Bindings
        <3> QED
            BY <2>1, <3>1, <3>2 DEF Local, BoundAt
    <2>4. UseAt(q)'
        BY <2>1 DEF Local, UseAt, Use, CallOf
    <2> QED
        BY <2>2, <2>3, <2>4 DEF Local
<1> QED
    BY <1>1, <1>2, <1>3 DEF IInv
-----------------------------------------------------------------------------
(* The environment.                                                        *)

LEMMA WorldStep ==
    ASSUME IInv,
           \/ \E s \in Services : Claim(s)
           \/ \E e \in Enrollments : Enroll(e) \/ RevokeOperator(e)
           \/ IncidentSettles \/ ChangeContext \/ Tick
    PROVE  IInv'
<1>1. /\ UNCHANGED <<ns, status, row, memory, closing, call, bound, incomplete, effects>>
      /\ revocation' = revocation /\ (incident.reconciled => incident'.reconciled)
    BY DEF Claim, Enroll, RevokeOperator, IncidentSettles, ChangeContext, Tick, IInv, Typed, WorldOK
<1>2. WorldOK'
    <2> USE ApprovalConstants DEF IInv, Typed, WorldOK
    <2>1. ASSUME NEW s \in Services, Claim(s) PROVE WorldOK'
        BY <2>1 DEF Claim
    <2>2. ASSUME NEW e \in Enrollments, Enroll(e) \/ RevokeOperator(e) PROVE WorldOK'
        <3>1. directory' \in [members : SUBSET Enrollments, generation : Nat]
            BY <2>2 DEF Enroll, RevokeOperator
        <3>2. UNCHANGED <<owner, context, revocation, contained, incident, now>>
            BY <2>2 DEF Enroll, RevokeOperator
        <3> QED
            BY <3>1, <3>2
    <2>3. CASE IncidentSettles
        <3>1. incident' \in [epoch : Nat, fence : 0..MaxFence, settled : BOOLEAN, reconciled : BOOLEAN]
            BY <2>3 DEF IncidentSettles
        <3>2. UNCHANGED <<owner, directory, context, revocation, contained, now>>
            BY <2>3 DEF IncidentSettles
        <3> QED
            BY <3>1, <3>2
    <2>4. CASE ChangeContext \/ Tick
        BY <2>4 DEF ChangeContext, Tick
    <2> QED
        BY <2>1, <2>2, <2>3, <2>4
<1>3. Typed'
    BY <1>1, <1>2 DEF IInv, Typed, ServiceOK, RowsOK, MemoryOK, CallsOK
<1> QED
    BY <1>1, <1>3, Calm

LEMMA FenceStep ==
    ASSUME IInv, NEW realm \in BOOLEAN, Fence(realm)
    PROVE  IInv'
<1>1. UNCHANGED <<ns, status, row, memory, closing, call, bound, incomplete, effects>>
    BY DEF Fence
<1>2. WorldOK' /\ revocation' > revocation
    BY ApprovalConstants DEF Fence, IInv, Typed, WorldOK
<1>3. Typed'
    BY <1>1, <1>2 DEF IInv, Typed, ServiceOK, RowsOK, MemoryOK, CallsOK
<1> QED
    BY <1>1, <1>2, <1>3, Calm

\* A takeover closes what was open.
LEMMA InitializeStep ==
    ASSUME IInv, NEW s \in Services, NEW recover \in BOOLEAN, NEW o \in Outcomes,
           Initialize(s, recover, o)
    PROVE  IInv'
<1>1. UNCHANGED <<world, row, memory, closing, call, effects>>
    BY DEF Initialize
<1>2. \/ ns' = ns /\ status' = status
      \/ ns' = [instance |-> s, fence |-> owner.fence] /\ status' = [r \in Requests |-> TakenOver(r)]
    BY DEF Initialize
<1>3. bound' \subseteq Services /\ incomplete' \in BOOLEAN
    <2>1. incomplete \in BOOLEAN /\ bound \subseteq Services
        BY DEF IInv, Typed, ServiceOK
    <2>2. bound' \subseteq Services
        BY <2>1 DEF Initialize
    <2>3. incomplete' = (incomplete \/ o = "full")
        BY DEF Initialize, Journal
    <2> QED
        BY <2>1, <2>2, <2>3
<1>4. ns' \in [instance : Services \cup {None}, fence : 0..MaxFence]
    BY <1>2 DEF IInv, Typed, WorldOK, ServiceOK
<1>5. status' \in [Requests -> Statuses]
    BY <1>2 DEF IInv, Typed, RowsOK, TakenOver, Statuses, Open, Refused, Spent
<1>6. Typed'
    BY <1>1, <1>3, <1>4, <1>5 DEF world, IInv, Typed, WorldOK, ServiceOK, RowsOK, MemoryOK, CallsOK
<1>7. Persist
    BY <1>1, <1>2 DEF Persist, TakenOver, Open
<1>8. Linked'
    BY <1>1, <1>7, LinkedKept DEF IInv
<1>9. OneResumePerIncident'
    BY <1>1, ResumesKept DEF IInv, Unused
<1>10. ASSUME NEW q \in Requests PROVE Local(q)'
    <2>1. Local(q) /\ status[q] \in Statuses
        BY DEF IInv, Typed, RowsOK
    <2>2. \/ status'[q] = status[q] /\ ns' = ns
          \/ status'[q] = TakenOver(q)
        BY <1>2
    <2>3. /\ status[q] = "none" <=> status'[q] = "none"
          /\ status'[q] \in Open \cup {"consumed"} => status'[q] = status[q] /\ ns' = ns
          /\ status[q] \in Spent <=> status'[q] \in Spent
          /\ status[q] \in Refused => status'[q] \in Refused
          /\ status'[q] = "held" => status[q] = "held"
        BY <2>1, <2>2 DEF TakenOver, Statuses, Open, Refused, Spent
    <2>4. RowAt(q)'
        BY <1>1, <2>1, <2>3 DEF Local, RowAt, Voters
    <2>5. BoundAt(q)'
        BY <1>1, <2>1, <2>3 DEF Local, BoundAt, world
    <2>6. CallOf(q)' = CallOf(q)
        BY <1>1, <2>3, Zenon DEF CallOf
    <2>7. UseAt(q)'
        BY <1>1, <2>1, <2>3, <2>6 DEF Local, UseAt, Use
    <2> QED
        BY <2>4, <2>5, <2>7 DEF Local
<1> QED
    BY <1>6, <1>8, <1>9, <1>10 DEF IInv
-----------------------------------------------------------------------------
(* Steps of a call.                                                        *)

\* A call is that of the maker of its request.
LEMMA Position ==
    ASSUME IInv, NEW s \in Services, call[s] # Idle
    PROVE  LET r == call[s].request
           IN  /\ r \in Requests /\ row[r].maker = s /\ status[r] # "none"
               /\ CallOf(r) = call[s].step /\ call[s].step \in Acting \cup Resuming
               /\ call[s].step \in Acting => r \notin Recoveries
               /\ call[s].step \in Resuming => r \in Recoveries
               /\ Use(r, call[s].step)
<1> DEFINE r == call[s].request
<1>1. r \in Requests /\ call[s].step \in Acting \cup Resuming
    BY DEF IInv, Typed, CallsOK, Calls
<1>2. row[r].maker = s /\ status[r] # "none"
    BY DEF IInv, Linked
<1>3. CallOf(r) = call[s].step
    BY <1>2 DEF CallOf
<1>4. UseAt(r)
    BY <1>1 DEF IInv, Local
<1> QED
    BY <1>1, <1>2, <1>3, <1>4 DEF UseAt, Use

\* A maker that executes no call executes none for its requests.
LEMMA NoPosition ==
    ASSUME IInv, NEW s \in Services, NEW r \in Requests, row[r].maker = s, call[s] = Idle
    PROVE  CallOf(r) = "idle"
BY ApprovalConstants DEF CallOf, Idle

\* Where a status may go without a new vote.
Move(r) ==
    /\ status[r] = "none" <=> status'[r] = "none"
    /\ status'[r] \in Open \cup {"consumed"} => status[r] \in Open \cup {"consumed"}
    /\ status'[r] \in {"held"} \cup Spent =>
           status[r] \in {"held"} \cup Spent \/ Cardinality(Voters(r)) >= Quorum[r]
    /\ status[r] \in Refused => status'[r] \in Refused
    /\ status[r] \in Spent => status'[r] \in Spent

\* A step that moves one status, adds no vote and has no effect.
LEMMA MoveStep ==
    ASSUME IInv, NEW r \in Requests, Alone(r), Typed', Linked', Move(r), UseAt(r)',
           UNCHANGED <<row, effects>>
    PROVE  IInv'
<1>1. Local(r)
    BY DEF IInv
<1>2. RowAt(r)'
    BY <1>1 DEF Local, RowAt, Voters, Move, Alone
<1>3. BoundAt(r)'
    BY <1>1 DEF Local, BoundAt, Move, Alone
<1>4. OneResumePerIncident'
    BY ResumesKept DEF IInv, Unused
<1> QED
    BY <1>2, <1>3, <1>4, FrameKeeps DEF Local

LEMMA PersistsByMove ==
    ASSUME NEW r \in Requests, Alone(r), Move(r), row' = row
    PROVE  Persist
BY DEF Persist, Alone, Move

\* Operators on record counted by Enough have voted.
LEMMA EnoughVoted ==
    ASSUME Typed, NEW r \in Requests, Enough(r, row[r].votes)
    PROVE  Cardinality(Voters(r)) >= Quorum[r]
<1>1. IsFiniteSet(Humans)
    <2>1. [e \in Enrollments |-> Principal[e]] \in Surjection(Enrollments, Humans)
        BY DEF Surjection, Humans
    <2> QED
        BY <2>1, FS_Surjection, ApprovalConstants
<1>2. VotesFor(r, row[r].votes) \subseteq Voters(r) /\ Voters(r) \subseteq Humans
    BY DEF VotesFor, Voters
<1>3. /\ IsFiniteSet(Voters(r)) /\ IsFiniteSet(VotesFor(r, row[r].votes))
      /\ Cardinality(VotesFor(r, row[r].votes)) <= Cardinality(Voters(r))
    BY <1>1, <1>2, FS_Subset
<1>4. Cardinality(VotesFor(r, row[r].votes)) \in Nat /\ Cardinality(Voters(r)) \in Nat
      /\ Quorum[r] \in Nat
    BY <1>3, FS_CardinalityType, ApprovalConstants
<1> QED
    BY <1>3, <1>4 DEF Enough
-----------------------------------------------------------------------------
(* Requests and votes.                                                     *)

LEMMA JournalTyped ==
    ASSUME Typed, NEW o \in Outcomes, Journal(o) \/ UNCHANGED incomplete
    PROVE  incomplete' \in BOOLEAN
<1>1. incomplete \in BOOLEAN
    BY DEF Typed, ServiceOK
<1>2. CASE Journal(o)
    <2>1. incomplete' = (incomplete \/ o = "full")
        BY <1>2 DEF Journal
    <2> QED
        BY <1>1, <2>1
<1> QED
    BY <1>1, <1>2

\* What a new row is bound to.
LEMMA BindingTyped ==
    ASSUME Typed, NEW r \in Requests
    PROVE  Binding(r) \in Bindings
<1> DEFINE c == IF r \in Recoveries THEN incident.epoch ELSE context
<1>1. owner.fence \in 0..MaxFence /\ revocation \in Nat /\ directory.generation \in Nat
    BY DEF Typed, WorldOK
<1>2. c \in Nat
    BY DEF Typed, WorldOK
<1>3. Binding(r) = [fence |-> owner.fence, revocation |-> revocation,
                    directory |-> directory.generation, context |-> c]
    BY DEF Binding
<1> HIDE DEF c
<1> QED
    BY <1>1, <1>2, <1>3 DEF Bindings

LEMMA NewRowStep ==
    ASSUME IInv, NEW s \in Services, NEW r \in Requests, NEW o \in Outcomes, NewRow(s, r, o),
           ns.instance = s, r \in Recoveries => Recoverable
    PROVE  IInv'
<1> DEFINE new == [NoRow EXCEPT !.maker = s, !.expires = now + Life, !.binding = Binding(r)]
<1>1. /\ UNCHANGED <<world, ns, closing, call, bound, effects>> /\ Journal(o)
      /\ status[r] = "none" /\ status' = [status EXCEPT ![r] = "pending"]
      /\ row' = [row EXCEPT ![r] = new]
      /\ memory' = [memory EXCEPT ![r].known = (o = "acknowledged")]
    BY DEF NewRow
<1>2. new = [maker |-> s, expires |-> now + Life, binding |-> Binding(r),
             votes |-> [h \in Humans |-> None], resolutions |-> {}]
    <2> DEFINE v == [h \in Humans |-> None]
               b == Binding(r)
               x == now + Life
    <2>1. NoRow = [maker |-> None, expires |-> 0, binding |-> None, votes |-> v, resolutions |-> {}]
        BY DEF NoRow
    <2>2. new = [NoRow EXCEPT !.maker = s, !.expires = x, !.binding = b]
        OBVIOUS
    <2> HIDE DEF new, v, b, x
    <2>3. new = [maker |-> s, expires |-> x, binding |-> b, votes |-> v, resolutions |-> {}]
        BY <2>1, <2>2
    <2> QED
        BY <2>3, Zenon DEF v, b, x
<1>3. new \in Rows
    <2>1. now + Life \in 0..(MaxTime + Life)
        <3>1. now \in 0..MaxTime /\ MaxTime \in Nat /\ Life \in Nat
            BY ApprovalConstants DEF IInv, Typed, WorldOK
        <3> QED
            BY <3>1
    <2>2. [h \in Humans |-> None] \in Votes
        BY DEF Votes
    <2> QED
        BY <1>2, <2>1, <2>2, BindingTyped DEF Rows, IInv
<1> HIDE DEF new
<1>4. Typed'
    <2>1. RowsOK'
        BY <1>1, <1>3 DEF IInv, Typed, RowsOK, Statuses, Open
    <2>2. MemoryOK'
        <3>1. memory'[r] = [memory[r] EXCEPT !.known = (o = "acknowledged")]
            BY <1>1 DEF IInv, Typed, MemoryOK
        <3>2. [memory[r] EXCEPT !.known = (o = "acknowledged")] \in Memories
            BY DEF IInv, Typed, MemoryOK, Memories
        <3>3. memory' = [memory EXCEPT ![r] = memory'[r]]
            BY <1>1, <3>1 DEF IInv, Typed, MemoryOK
        <3> QED
            BY <3>1, <3>2, <3>3 DEF IInv, Typed, MemoryOK
    <2> QED
        BY <1>1, <2>1, <2>2, JournalTyped DEF world, IInv, Typed, WorldOK, ServiceOK, CallsOK
<1>5. /\ status'[r] = "pending" /\ row'[r] = new /\ memory'[r].lease = memory[r].lease
      /\ effects'[r] = effects[r] /\ effects[r] = 0
    BY <1>1 DEF IInv, Typed, RowsOK, MemoryOK, Memories, Local, UseAt, Use, Spent
<1>6. Alone(r)
    BY <1>1 DEF Alone, IInv, Typed, RowsOK, MemoryOK, world
<1>7. Persist
    BY <1>1, <1>6 DEF Persist, Alone
<1>8. Linked'
    BY <1>1, <1>7, LinkedKept DEF IInv
<1>9. OneResumePerIncident'
    BY <1>5, <1>6, ResumesKept, ApprovalConstants DEF IInv, Unused, Alone
<1>10. RowAt(r)'
    <2>1. /\ new.maker = s /\ new.binding = Binding(r) /\ \A h \in Humans : new.votes[h] = None
        BY <1>2
    <2> QED
        BY <1>1, <1>5, <2>1, BindingTyped DEF RowAt, Refused, Spent, IInv
<1>11. BoundAt(r)'
    <2>1. new.binding = Binding(r)
        BY <1>2
    <2>2. r \in Recoveries => Binding(r).context = Binding(r).revocation
                              /\ Binding(r).revocation = revocation
        BY DEF Binding, Recoverable
    <2> QED
        BY <1>1, <1>5, <2>1, <2>2 DEF BoundAt, IInv, Typed, WorldOK, world
<1>12. UseAt(r)'
    <2>1. CallOf(r)' = "idle"
        BY <1>1, <1>2, <1>5, Position, ApprovalConstants DEF CallOf, Idle
    <2>2. memory[r].lease # "forwarding"
        BY <1>1 DEF IInv, Local, UseAt, Use, Spent
    <2> QED
        BY <1>5, <2>1, <2>2 DEF UseAt, Use, Acting, Resuming
<1> QED
    BY <1>4, <1>6, <1>8, <1>9, <1>10, <1>11, <1>12, FrameKeeps DEF Local

LEMMA VotedTyped ==
    ASSUME Typed, NEW r \in Requests, NEW e \in Enrollments, NEW choice \in Choices
    PROVE  Voted(r, e, choice) \in Votes
<1>1. row[r].votes \in Votes
    BY DEF Typed, RowsOK, Rows
<1>2. [by |-> e, choice |-> choice] \in [by : Enrollments, choice : Choices]
    OBVIOUS
<1> QED
    BY <1>1, <1>2 DEF Voted, Votes

\* A counted vote: the request was open, and is open or denied afterwards.
LEMMA VoteStep ==
    ASSUME IInv, NEW r \in Requests, NEW e \in Enrollments, NEW choice \in Choices,
           Alone(r), Typed', status[r] \in {"pending", "approved"},
           status'[r] = StatusAfter(r, e, choice), row'[r].votes = Voted(r, e, choice),
           row'[r].maker = row[r].maker, row'[r].binding = row[r].binding,
           memory'[r].lease = memory[r].lease, UNCHANGED <<effects, call>>
    PROVE  IInv'
<1>1. Local(r) /\ status'[r] \in {"pending", "approved", "denied"}
    BY DEF IInv, StatusAfter
<1>2. effects[r] = 0 /\ memory[r].lease # "forwarding"
    BY <1>1 DEF Local, UseAt, Use, Spent
<1>3. CallOf(r)' = CallOf(r)
    BY <1>1 DEF CallOf
<1>4. RowAt(r)'
    <2>1. /\ row[r].maker \in Services /\ row[r].binding \in Bindings /\ row[r].maker = ns.instance
          /\ \A h \in Humans : row[r].votes[h] # None => row[r].votes[h].choice = "approve"
        BY <1>1 DEF Local, RowAt, Open, Refused
    <2>2. ASSUME status'[r] # "denied", NEW h \in Humans, row'[r].votes[h] # None
          PROVE  row'[r].votes[h].choice = "approve"
        <3>1. choice = "approve"
            BY <2>2 DEF StatusAfter, Choices
        <3>2. row[r].votes \in [Humans -> [by : Enrollments, choice : Choices] \cup {None}]
            BY DEF IInv, Typed, RowsOK, Rows, Votes
        <3> QED
            BY <2>1, <2>2, <3>1, <3>2 DEF Voted
    <2> QED
        BY <1>1, <2>1, <2>2 DEF RowAt, Open, Refused, Spent, Alone
<1>5. BoundAt(r)'
    BY <1>1, <1>2 DEF Local, BoundAt, Alone
<1>6. UseAt(r)'
    BY <1>1, <1>2, <1>3 DEF Local, UseAt, Use, Acting, Resuming, Spent
<1>7. Linked'
    <2>1. Persist
        BY <1>1 DEF Persist, Alone
    <2> QED
        BY <2>1, LinkedKept DEF IInv
<1>8. OneResumePerIncident'
    BY <1>2, ResumesKept, ApprovalConstants DEF IInv, Unused, Alone
<1> QED
    BY <1>4, <1>5, <1>6, <1>7, <1>8, FrameKeeps DEF Local

\* The receipt of a request is the only part of the memory a vote may change.
LEMMA ReceiptTyped ==
    ASSUME Typed, NEW r \in Requests, NEW got \in BOOLEAN,
           memory' = [memory EXCEPT ![r].receipt = @ \/ got]
    PROVE  /\ MemoryOK' /\ memory'[r].lease = memory[r].lease
           /\ \A q \in Requests \ {r} : memory'[q] = memory[q]
<1>1. memory \in [Requests -> Memories]
    BY DEF Typed, MemoryOK
<1>2. (memory[r].receipt \/ got) \in BOOLEAN
    OBVIOUS
<1>3. [memory[r] EXCEPT !.receipt = memory[r].receipt \/ got] \in Memories
    BY <1>1, <1>2 DEF Memories
<1>4. memory' = [memory EXCEPT ![r] = [memory[r] EXCEPT !.receipt = memory[r].receipt \/ got]]
    BY <1>1
<1>5. [memory[r] EXCEPT !.receipt = memory[r].receipt \/ got].lease = memory[r].lease
    BY <1>1 DEF Memories
<1> QED
    BY <1>1, <1>3, <1>4, <1>5 DEF MemoryOK

\* The row after a vote.
LEMMA RowTyped ==
    ASSUME Typed, NEW r \in Requests, NEW e \in Enrollments, NEW choice \in Choices, NEW new,
           new \subseteq [by : Enrollments, key : Keys, choice : Choices],
           \/ row' = [row EXCEPT ![r].votes = Voted(r, e, choice)]
           \/ row' = [row EXCEPT ![r].votes = Voted(r, e, choice), ![r].resolutions = @ \cup new]
    PROVE  /\ row' \in [Requests -> Rows] /\ row'[r].votes = Voted(r, e, choice)
           /\ row'[r].maker = row[r].maker /\ row'[r].binding = row[r].binding
           /\ \A q \in Requests \ {r} : row'[q] = row[q]
<1> DEFINE v == Voted(r, e, choice)
<1>1. v \in Votes
    BY VotedTyped
<1> HIDE DEF v
<1>2. row \in [Requests -> Rows]
    BY DEF Typed, RowsOK
<1>3. CASE row' = [row EXCEPT ![r].votes = v]
    <2> DEFINE one == [row[r] EXCEPT !.votes = v]
    <2>1. one \in Rows /\ one.votes = v /\ one.maker = row[r].maker /\ one.binding = row[r].binding
        BY <1>1, <1>2 DEF Rows
    <2>2. row' = [row EXCEPT ![r] = one]
        BY <1>2, <1>3
    <2> HIDE DEF one
    <2> QED
        BY <1>2, <2>1, <2>2 DEF v
<1>4. CASE row' = [row EXCEPT ![r].votes = v, ![r].resolutions = @ \cup new]
    <2> DEFINE one == [row[r] EXCEPT !.votes = v, !.resolutions = row[r].resolutions \cup new]
    <2>1. one \in Rows /\ one.votes = v /\ one.maker = row[r].maker /\ one.binding = row[r].binding
        <3>1. row[r] \in Rows
            BY <1>2
        <3> HIDE DEF v
        <3> QED
            BY <1>1, <3>1 DEF Rows
    <2>2. row' = [row EXCEPT ![r] = one]
        BY <1>2, <1>4
    <2> HIDE DEF one
    <2> QED
        BY <1>2, <2>1, <2>2 DEF v
<1> QED
    BY <1>3, <1>4 DEF v

\* An open request that AfterExpiry calls open is open.
LEMMA StillOpen ==
    ASSUME NEW r \in Requests, AfterExpiry(r) \in {"pending", "approved"}
    PROVE  status[r] \in {"pending", "approved"}
BY DEF AfterExpiry

LEMMA ResolveStep ==
    ASSUME IInv, NEW s \in Services, NEW e \in Enrollments, NEW r \in Requests,
           NEW choice \in Choices, NEW k \in Keys, NEW o \in Outcomes,
           Resolve(s, e, r, choice, k, o)
    PROVE  IInv'
<1> DEFINE new == {[by |-> e, key |-> k, choice |-> choice]}
<1>1. /\ UNCHANGED <<world, ns, call, bound, effects>> /\ Countable(r, e, choice, k)
      /\ status' = [status EXCEPT ![r] = StatusAfter(r, e, choice)]
    BY DEF Resolve
<1>2. \/ /\ row' = [row EXCEPT ![r].votes = Voted(r, e, choice)]
         /\ UNCHANGED <<memory, closing, incomplete>>
      \/ /\ row' = [row EXCEPT ![r].votes = Voted(r, e, choice), ![r].resolutions = @ \cup new]
         /\ Journal(o)
         /\ memory' = [memory EXCEPT ![r].receipt =
                         @ \/ (o = "acknowledged" /\ status'[r] = "approved")]
         /\ closing' \in {closing, closing \cup {r}}
    BY DEF Resolve
<1>3. status[r] \in {"pending", "approved"}
    BY <1>1, StillOpen DEF Countable
<1>4. /\ row' \in [Requests -> Rows] /\ row'[r].votes = Voted(r, e, choice)
      /\ row'[r].maker = row[r].maker /\ row'[r].binding = row[r].binding
      /\ \A q \in Requests \ {r} : row'[q] = row[q]
    <2>1. new \subseteq [by : Enrollments, key : Keys, choice : Choices]
        OBVIOUS
    <2> HIDE DEF new
    <2>2. \/ row' = [row EXCEPT ![r].votes = Voted(r, e, choice)]
          \/ row' = [row EXCEPT ![r].votes = Voted(r, e, choice), ![r].resolutions = @ \cup new]
        BY <1>2, Zenon
    <2> QED
        <3>1. CASE row' = [row EXCEPT ![r].votes = Voted(r, e, choice)]
            BY <2>1, <3>1, RowTyped DEF IInv
        <3>2. CASE row' = [row EXCEPT ![r].votes = Voted(r, e, choice), ![r].resolutions = @ \cup new]
            BY <2>1, <3>2, RowTyped DEF IInv
        <3> QED
            BY <2>2, <3>1, <3>2
<1>5. /\ MemoryOK' /\ memory'[r].lease = memory[r].lease
      /\ \A q \in Requests \ {r} : memory'[q] = memory[q]
    <2>1. (o = "acknowledged" /\ status'[r] = "approved") \in BOOLEAN
        OBVIOUS
    <2>2. CASE UNCHANGED memory
        BY <2>2 DEF IInv, Typed, MemoryOK
    <2>3. CASE memory' = [memory EXCEPT ![r].receipt =
                            @ \/ (o = "acknowledged" /\ status'[r] = "approved")]
        BY <2>1, <2>3, ReceiptTyped DEF IInv
    <2> QED
        BY <1>2, <2>2, <2>3
<1>6. status' \in [Requests -> Statuses] /\ status'[r] = StatusAfter(r, e, choice)
      /\ \A q \in Requests \ {r} : status'[q] = status[q]
    BY <1>1 DEF IInv, Typed, RowsOK, StatusAfter, Statuses, Open, Refused
<1>7. incomplete' \in BOOLEAN /\ closing' \subseteq Requests
    <2>1. incomplete' \in BOOLEAN
        BY <1>2, JournalTyped DEF IInv
    <2> QED
        BY <1>2, <2>1 DEF IInv, Typed, ServiceOK
<1>8. Typed'
    BY <1>1, <1>4, <1>5, <1>6, <1>7 DEF world, IInv, Typed, WorldOK, ServiceOK, RowsOK, CallsOK
<1>9. Alone(r)
    BY <1>1, <1>4, <1>5, <1>6 DEF Alone, world
<1> QED
    BY <1>1, <1>3, <1>4, <1>5, <1>6, <1>8, <1>9, VoteStep

LEMMA ResolveRecoveryStep ==
    ASSUME IInv, NEW s \in Services, NEW e \in Enrollments, NEW r \in Requests,
           NEW choice \in Choices, NEW k \in Keys, NEW o \in Outcomes,
           ResolveRecovery(s, e, r, choice, k, o)
    PROVE  IInv'
<1> DEFINE new == {[by |-> e, key |-> k, choice |-> choice]}
<1>1. /\ UNCHANGED <<world, ns, closing, call, bound, effects>> /\ Countable(r, e, choice, k)
      /\ status' = [status EXCEPT ![r] = StatusAfter(r, e, choice)]
      /\ row' = [row EXCEPT ![r].votes = Voted(r, e, choice), ![r].resolutions = @ \cup new]
      /\ Journal(o)
      /\ memory' = [memory EXCEPT ![r].receipt =
                      @ \/ (o = "acknowledged" /\ status'[r] = "approved")]
    BY DEF ResolveRecovery
<1>2. status[r] \in {"pending", "approved"}
    BY <1>1, StillOpen DEF Countable
<1>3. /\ row' \in [Requests -> Rows] /\ row'[r].votes = Voted(r, e, choice)
      /\ row'[r].maker = row[r].maker /\ row'[r].binding = row[r].binding
      /\ \A q \in Requests \ {r} : row'[q] = row[q]
    <2>1. new \subseteq [by : Enrollments, key : Keys, choice : Choices]
        OBVIOUS
    <2> HIDE DEF new
    <2> QED
        BY <1>1, <2>1, RowTyped DEF IInv
<1>4. /\ MemoryOK' /\ memory'[r].lease = memory[r].lease
      /\ \A q \in Requests \ {r} : memory'[q] = memory[q]
    <2>1. (o = "acknowledged" /\ status'[r] = "approved") \in BOOLEAN
        OBVIOUS
    <2> QED
        BY <1>1, <2>1, ReceiptTyped DEF IInv
<1>5. status' \in [Requests -> Statuses] /\ status'[r] = StatusAfter(r, e, choice)
      /\ \A q \in Requests \ {r} : status'[q] = status[q]
    BY <1>1 DEF IInv, Typed, RowsOK, StatusAfter, Statuses, Open, Refused
<1>6. Typed'
    BY <1>1, <1>3, <1>4, <1>5, JournalTyped
       DEF world, IInv, Typed, WorldOK, ServiceOK, RowsOK, CallsOK
<1>7. Alone(r)
    BY <1>1, <1>3, <1>4, <1>5 DEF Alone, world
<1> QED
    BY <1>1, <1>2, <1>3, <1>4, <1>5, <1>6, <1>7, VoteStep

\* A status that expires moves within what Move allows.
LEMMA ExpiryMoves ==
    ASSUME Typed, NEW r \in Requests, status' = [status EXCEPT ![r] = AfterExpiry(r)]
    PROVE  /\ Move(r) /\ status' \in [Requests -> Statuses]
           /\ \A q \in Requests \ {r} : status'[q] = status[q]
BY DEF Typed, RowsOK, AfterExpiry, Move, Statuses, Open, Refused, Spent

\* A step that moves the status of one request outside of calls.
LEMMA QuietMoveStep ==
    ASSUME IInv, NEW r \in Requests, Alone(r), Typed', Move(r), UNCHANGED <<row, effects, call>>,
           memory'[r].lease = memory[r].lease
    PROVE  IInv'
<1>1. Linked'
    BY PersistsByMove, LinkedKept DEF IInv
<1>2. UseAt(r)'
    <2>1. Local(r) /\ CallOf(r)' = CallOf(r)
        BY DEF IInv, CallOf, Move
    <2> QED
        BY <2>1 DEF Local, UseAt, Use, Move
<1> QED
    BY <1>1, <1>2, MoveStep

LEMMA ResolveAgainStep ==
    ASSUME IInv, NEW s \in Services, NEW e \in Enrollments, NEW r \in Requests,
           NEW choice \in Choices, NEW k \in Keys, NEW o \in Outcomes,
           ResolveAgain(s, e, r, choice, k, o)
    PROVE  IInv'
<1> DEFINE got == o = "acknowledged" /\ Answered(r, e, choice, k) /\ status'[r] = "approved"
<1>1. /\ UNCHANGED <<world, ns, row, call, bound, effects>>
      /\ status' = [status EXCEPT ![r] = AfterExpiry(r)]
      /\ Journal(o) \/ UNCHANGED incomplete
      /\ memory' = [memory EXCEPT ![r].receipt = @ \/ got]
      /\ closing' \in {closing, closing \cup {r}}
    BY DEF ResolveAgain
<1>2. Move(r) /\ status' \in [Requests -> Statuses] /\ \A q \in Requests \ {r} : status'[q] = status[q]
    BY <1>1, ExpiryMoves DEF IInv
<1>3. /\ MemoryOK' /\ memory'[r].lease = memory[r].lease
      /\ \A q \in Requests \ {r} : memory'[q] = memory[q]
    <2>1. got \in BOOLEAN
        OBVIOUS
    <2> HIDE DEF got
    <2> QED
        BY <1>1, <2>1, ReceiptTyped DEF IInv
<1>4. Typed'
    <2>1. incomplete' \in BOOLEAN
        BY <1>1, JournalTyped DEF IInv
    <2> QED
        BY <1>1, <1>2, <1>3, <2>1 DEF world, IInv, Typed, WorldOK, ServiceOK, RowsOK, CallsOK
<1>5. Alone(r)
    BY <1>1, <1>2, <1>3 DEF Alone, world
<1> QED
    BY <1>1, <1>2, <1>3, <1>4, <1>5, QuietMoveStep

LEMMA TerminalStep ==
    ASSUME IInv, NEW s \in Services, NEW e \in Enrollments, NEW r \in Requests,
           NEW choice \in {"cancel", "expire"}, NEW o \in Outcomes, Terminal(s, e, r, choice, o)
    PROVE  IInv'
<1>1. /\ UNCHANGED <<world, ns, row, memory, call, bound, effects>> /\ status[r] # "none"
      /\ AfterExpiry(r) \notin Spent
      /\ status' = [status EXCEPT ![r] = IF AfterExpiry(r) \in Open THEN "canceled" ELSE AfterExpiry(r)]
      /\ Journal(o) \/ UNCHANGED incomplete
      /\ closing' \in {closing, closing \cup {r}}
    BY DEF Terminal
<1>2. Move(r) /\ status' \in [Requests -> Statuses] /\ \A q \in Requests \ {r} : status'[q] = status[q]
    BY <1>1 DEF IInv, Typed, RowsOK, AfterExpiry, Move, Statuses, Open, Refused, Spent
<1>3. Typed'
    <2>1. incomplete' \in BOOLEAN
        BY <1>1, JournalTyped DEF IInv
    <2> QED
        BY <1>1, <1>2, <2>1 DEF world, IInv, Typed, WorldOK, ServiceOK, RowsOK, MemoryOK, CallsOK
<1>4. Alone(r)
    BY <1>1, <1>2 DEF Alone, world
<1> QED
    BY <1>1, <1>2, <1>3, <1>4, QuietMoveStep
-----------------------------------------------------------------------------
(* Steps of a call.                                                        *)

\* Only the lease of one request changes.
LEMMA LeaseTyped ==
    ASSUME Typed, NEW r \in Requests, NEW x \in Leases,
           memory' = [memory EXCEPT ![r].lease = x]
    PROVE  /\ MemoryOK' /\ memory'[r].lease = x
           /\ \A q \in Requests \ {r} : memory'[q] = memory[q]
<1>1. memory \in [Requests -> Memories]
    BY DEF Typed, MemoryOK
<1> DEFINE one == [memory[r] EXCEPT !.lease = x]
<1>2. one \in Memories /\ one.lease = x
    BY <1>1 DEF Memories
<1>3. memory' = [memory EXCEPT ![r] = one]
    BY <1>1
<1> HIDE DEF one
<1> QED
    BY <1>1, <1>2, <1>3 DEF MemoryOK

\* A finished lease is not forwarding.
LEMMA FinishedLease ==
    ASSUME NEW r \in Requests
    PROVE  Finished(r) \in {"settled", "canceled"} /\ Finished(r) \in Leases
BY DEF Finished, Leases

\* A maker enters, continues or leaves the call for its request: what is left is to say
\* what the request is afterwards.
LEMMA CallStep ==
    ASSUME IInv, NEW s \in Services, NEW r \in Requests, row[r].maker = s, status[r] # "none",
           call[s].request \in {r, None}, NEW c \in Calls, c.request \in {r, None},
           call' = [call EXCEPT ![s] = c], UNCHANGED <<row, ns, revocation>>,
           incident.reconciled => incident'.reconciled,
           \A q \in Requests \ {r} :
               status'[q] = status[q] /\ memory'[q] = memory[q] /\ effects'[q] = effects[q],
           Move(r), WorldOK', ServiceOK', MemoryOK', status' \in [Requests -> Statuses],
           Use(r, IF c.request = r THEN c.step ELSE "idle")', BoundAt(r)', OneResumePerIncident'
    PROVE  IInv'
<1>1. call \in [Services -> Calls] /\ row \in [Requests -> Rows]
    BY DEF IInv, Typed, CallsOK, RowsOK
<1>2. Typed'
    BY <1>1 DEF Typed, CallsOK, RowsOK
<1>3. Alone(r)
    BY <1>1 DEF Alone
<1>4. Linked'
    <2>1. Persist
        BY <1>3, PersistsByMove
    <2>2. c = Idle \/ c.request \in Requests
        BY DEF Calls
    <2>3. c # Idle => c.request = r
        BY <2>2, ApprovalConstants
    <2> QED
        BY <1>1, <2>1, <2>3, LinkedKept DEF IInv
<1>5. RowAt(r)'
    <2>1. RowAt(r)
        BY DEF IInv, Local
    <2> QED
        BY <2>1 DEF RowAt, Voters, Move
<1>6. UseAt(r)'
    <2>1. CallOf(r)' = (IF c.request = r THEN c.step ELSE "idle")'
        BY <1>1 DEF CallOf, Move
    <2> QED
        BY <2>1 DEF UseAt
<1> QED
    BY <1>2, <1>3, <1>4, <1>5, <1>6, FrameKeeps DEF Local

LEMMA PlainCallStep ==
    ASSUME IInv, NEW s \in Services, NEW r \in Requests, row[r].maker = s, status[r] # "none",
           call[s].request \in {r, None}, NEW c \in Calls, c.request \in {r, None},
           call' = [call EXCEPT ![s] = c], UNCHANGED <<world, row, ns, closing, bound, effects>>,
           \A q \in Requests \ {r} : status'[q] = status[q] /\ memory'[q] = memory[q],
           Move(r), incomplete' \in BOOLEAN, MemoryOK', status' \in [Requests -> Statuses],
           Use(r, IF c.request = r THEN c.step ELSE "idle")'
    PROVE  IInv'
<1>1. WorldOK' /\ ServiceOK'
    BY DEF world, IInv, Typed, WorldOK, ServiceOK
<1>2. BoundAt(r)'
    BY DEF IInv, Local, BoundAt, Move, world
<1>3. OneResumePerIncident'
    BY ResumesKept DEF IInv, Unused
<1>4. revocation' = revocation /\ incident' = incident
    BY DEF world
<1> QED
    BY <1>1, <1>2, <1>3, <1>4, CallStep

\* Only the position changes.
LEMMA GoStep ==
    ASSUME IInv, NEW s \in Services, NEW r \in Requests, row[r].maker = s, status[r] # "none",
           call[s].request \in {r, None}, NEW k \in Acting \cup Resuming,
           call' = [call EXCEPT ![s] = [request |-> r, step |-> k]],
           UNCHANGED <<world, ns, status, row, memory, closing, bound, incomplete, effects>>,
           Use(r, k)
    PROVE  IInv'
<1> DEFINE c == [request |-> r, step |-> k]
<1>1. c \in Calls /\ c.request = r /\ c.step = k
    BY DEF Calls
<1>2. Use(r, k)'
    BY DEF Use
<1>3. Move(r)
    BY DEF Move
<1>4. MemoryOK' /\ incomplete' \in BOOLEAN /\ status' \in [Requests -> Statuses]
    BY DEF IInv, Typed, MemoryOK, ServiceOK, RowsOK
<1> HIDE DEF c
<1>5. call' = [call EXCEPT ![s] = c]
    BY DEF c
<1> QED
    BY <1>1, <1>2, <1>3, <1>4, <1>5, PlainCallStep

LEMMA DispatchStep ==
    ASSUME IInv, NEW s \in Services, NEW r \in Requests, Dispatch(s, r)
    PROVE  IInv'
<1>1. /\ call[s] = Idle /\ row[r].maker = s /\ status[r] = "held" /\ r \notin Recoveries
      /\ call' = [call EXCEPT ![s] = [request |-> r, step |-> "dispatch"]]
      /\ UNCHANGED <<world, ns, status, row, memory, closing, bound, incomplete, effects>>
    BY DEF Dispatch, Free, Known, Enter
<1>2. Use(r, "dispatch")
    BY <1>1 DEF IInv, Local, UseAt, Use, Spent, Resuming
<1>3. call[s].request = None
    BY <1>1 DEF Idle
<1> QED
    BY <1>1, <1>2, <1>3, GoStep DEF Acting

LEMMA VerifyExecutionStep ==
    ASSUME IInv, NEW s \in Services, VerifyExecution(s)
    PROVE  IInv'
<1> DEFINE r == call[s].request
<1>1. /\ call[s].step = "begun" /\ memory[r].lease = "forwarding"
      /\ call' = [call EXCEPT ![s] = [request |-> r, step |-> "verified"]]
      /\ UNCHANGED <<world, ns, status, row, memory, closing, bound, incomplete, effects>>
    BY DEF VerifyExecution, Enter
<1>2. r \in Requests /\ row[r].maker = s /\ status[r] # "none" /\ Use(r, "begun")
    BY <1>1, Position DEF Idle
<1>3. Use(r, "verified")
    BY <1>2 DEF Use, Acting, Resuming
<1> QED
    BY <1>1, <1>2, <1>3, GoStep DEF Acting

LEMMA FailDispatchStep ==
    ASSUME IInv, NEW s \in Services, FailDispatch(s)
    PROVE  IInv'
<1> DEFINE r == call[s].request
<1>1. /\ call[s].step \in {"dispatch", "consumed", "begun", "verified", "ran"}
      /\ call' = [call EXCEPT ![s] = [request |-> r, step |-> "failed"]]
      /\ UNCHANGED <<world, ns, status, row, memory, closing, bound, incomplete, effects>>
    BY DEF FailDispatch, Enter
<1>2. r \in Requests /\ row[r].maker = s /\ status[r] # "none" /\ Use(r, call[s].step)
    BY <1>1, Position DEF Idle
<1>3. Use(r, "failed")
    BY <1>1, <1>2 DEF Use, Acting, Resuming
<1> QED
    BY <1>1, <1>2, <1>3, GoStep DEF Acting

LEMMA FailResumeStep ==
    ASSUME IInv, NEW s \in Services, FailResume(s)
    PROVE  IInv'
<1> DEFINE r == call[s].request
<1>1. /\ call[s].step = "resuming"
      /\ call' = [call EXCEPT ![s] = [request |-> r, step |-> "unresumed"]]
      /\ UNCHANGED <<world, ns, status, row, memory, closing, bound, incomplete, effects>>
    BY DEF FailResume, Enter
<1>2. r \in Requests /\ row[r].maker = s /\ status[r] # "none" /\ Use(r, "resuming")
    BY <1>1, Position DEF Idle
<1>3. Use(r, "unresumed")
    BY <1>2 DEF Use, Acting, Resuming
<1> QED
    BY <1>1, <1>2, <1>3, GoStep DEF Resuming

\* The caller closes a request; its maker executes nothing.
LEMMA CloseStep ==
    ASSUME IInv, NEW r \in Requests, Close(r)
    PROVE  IInv'
<1> DEFINE x == IF memory[r].lease = "none" THEN "none" ELSE Finished(r)
<1>1. /\ r \in closing /\ call[row[r].maker] = Idle /\ closing' = closing \ {r}
      /\ memory' = [memory EXCEPT ![r].lease = IF @ = "none" THEN @ ELSE Finished(r)]
      /\ UNCHANGED <<world, ns, status, row, call, bound, incomplete, effects>>
    BY DEF Close, Free
<1>2. memory' = [memory EXCEPT ![r].lease = x] /\ x \in Leases
    BY <1>1, FinishedLease DEF IInv, Typed, MemoryOK, Memories, Leases
<1>3. x # "forwarding" /\ (x = "none" => memory[r].lease = "none") /\ x # "reserved"
    BY FinishedLease
<1> HIDE DEF x
<1>4. /\ MemoryOK' /\ memory'[r].lease = x
      /\ \A q \in Requests \ {r} : memory'[q] = memory[q]
    BY <1>2, LeaseTyped DEF IInv
<1>5. Typed'
    BY <1>1, <1>4 DEF world, IInv, Typed, WorldOK, ServiceOK, RowsOK, CallsOK
<1>6. Alone(r)
    BY <1>1, <1>4 DEF Alone, world
<1>7. Move(r) /\ Persist
    BY <1>1 DEF Move, Persist
<1>8. Linked'
    BY <1>1, <1>7, LinkedKept DEF IInv
<1>9. UseAt(r)'
    <2>1. CallOf(r) = "idle"
        BY <1>1, ApprovalConstants DEF CallOf, Idle
    <2>2. CallOf(r)' = CallOf(r)
        BY <1>1 DEF CallOf
    <2>3. UseAt(r)
        BY DEF IInv, Local
    <2> QED
        BY <1>1, <1>3, <1>4, <2>1, <2>2, <2>3 DEF UseAt, Use, Acting, Resuming
<1> QED
    BY <1>1, <1>5, <1>6, <1>7, <1>8, <1>9, MoveStep
-----------------------------------------------------------------------------
(* prepare.                                                                *)

\* A transaction moves the status of a request, and its maker enters a call for it or,
\* if the answer is an exception, does not.
LEMMA EnterStep ==
    ASSUME IInv, NEW s \in Services, NEW r \in Requests, NEW o \in Outcomes, Journal(o),
           row[r].maker = s, call[s] = Idle, NEW k \in Acting \cup Resuming,
           NEW to \in Statuses, status' = [status EXCEPT ![r] = to], Move(r),
           \/ call' = [call EXCEPT ![s] = [request |-> r, step |-> k]]
           \/ call' = call,
           status[r] # "none", Use(r, k)', Use(r, "idle")',
           UNCHANGED <<world, ns, row, memory, closing, bound, effects>>
    PROVE  IInv'
<1>1. /\ status' \in [Requests -> Statuses]
      /\ \A q \in Requests \ {r} : status'[q] = status[q] /\ memory'[q] = memory[q]
    BY DEF IInv, Typed, RowsOK
<1>2. incomplete' \in BOOLEAN /\ MemoryOK' /\ call[s].request = None
    BY JournalTyped DEF IInv, Typed, MemoryOK, Idle
<1>3. CASE call' = [call EXCEPT ![s] = [request |-> r, step |-> k]]
    <2> DEFINE c == [request |-> r, step |-> k]
    <2>1. c \in Calls /\ c.request = r /\ c.step = k
        BY DEF Calls
    <2> HIDE DEF c
    <2>2. call' = [call EXCEPT ![s] = c]
        BY <1>3 DEF c
    <2> QED
        BY <1>1, <1>2, <2>1, <2>2, PlainCallStep
<1>4. CASE call' = call
    <2>1. call' = [call EXCEPT ![s] = Idle] /\ Idle \in Calls /\ Idle.request = None /\ r # None
        BY <1>4, ApprovalConstants DEF IInv, Typed, CallsOK, Calls, Idle
    <2> QED
        BY <1>1, <1>2, <2>1, PlainCallStep
<1> QED
    BY <1>3, <1>4

LEMMA HoldStep ==
    ASSUME IInv, NEW s \in Services, NEW r \in Requests, NEW o \in Outcomes, Hold(s, r, o)
    PROVE  IInv'
<1>1. /\ call[s] = Idle /\ row[r].maker = s /\ status[r] = "approved" /\ r \notin Recoveries
      /\ Enough(r, row[r].votes) /\ Journal(o)
      /\ status' = [status EXCEPT ![r] = "held"]
      /\ \/ call' = [call EXCEPT ![s] = [request |-> r, step |-> "held"]]
         \/ call' = call
      /\ UNCHANGED <<world, ns, row, memory, closing, bound, effects>>
    BY DEF Hold, Free, Known, Enter
<1>2. status'[r] = "held"
    BY <1>1 DEF IInv, Typed, RowsOK
<1>3. Move(r)
    BY <1>1, <1>2, EnoughVoted DEF IInv, Move, Open, Refused, Spent
<1>4. effects[r] = 0 /\ memory[r].lease # "forwarding"
    BY <1>1 DEF IInv, Local, UseAt, Use, Spent
<1>5. Use(r, "held")' /\ Use(r, "idle")'
    BY <1>1, <1>2, <1>4 DEF Use, Acting, Resuming, Spent
<1>6. "held" \in Acting /\ "held" \in Statuses
    BY DEF Acting, Statuses, Open
<1> QED
    BY <1>1, <1>3, <1>5, <1>6, EnterStep

LEMMA ResumeStep ==
    ASSUME IInv, NEW s \in Services, NEW e \in Enrollments, NEW r \in Requests, NEW o \in Outcomes,
           Resume(s, e, r, o)
    PROVE  IInv'
<1>1. /\ call[s] = Idle /\ row[r].maker = s /\ status[r] = "approved" /\ r \in Recoveries
      /\ Enough(r, row[r].votes) /\ Journal(o)
      /\ status' = [status EXCEPT ![r] = "consumed"]
      /\ \/ call' = [call EXCEPT ![s] = [request |-> r, step |-> "resuming"]]
         \/ call' = call
      /\ UNCHANGED <<world, ns, row, memory, closing, bound, effects>>
    BY DEF Resume, Free, Known, Enter
<1>2. status'[r] = "consumed"
    BY <1>1 DEF IInv, Typed, RowsOK
<1>3. Move(r)
    BY <1>1, <1>2, EnoughVoted DEF IInv, Move, Open, Refused, Spent
<1>4. effects[r] = 0 /\ memory[r].lease # "forwarding"
    BY <1>1 DEF IInv, Local, UseAt, Use, Spent
<1>5. Use(r, "resuming")' /\ Use(r, "idle")'
    BY <1>1, <1>2, <1>4 DEF Use, Acting, Resuming, Spent
<1>6. "resuming" \in Resuming /\ "consumed" \in Statuses
    BY DEF Resuming, Statuses, Spent
<1> QED
    BY <1>1, <1>3, <1>5, <1>6, EnterStep

LEMMA LeaseStep ==
    ASSUME IInv, NEW s \in Services, NEW ok \in BOOLEAN, Lease(s, ok)
    PROVE  IInv'
<1>1. PICK r : r = call[s].request
    OBVIOUS
<1>2. /\ call[s].step = "held" /\ (ok => memory[r].lease = "none")
      /\ memory' = IF ok THEN [memory EXCEPT ![r].lease = "reserved"] ELSE memory
      /\ call' = [call EXCEPT ![s] = IF ok THEN [request |-> r, step |-> "leased"] ELSE Idle]
      /\ UNCHANGED <<world, ns, status, row, closing, bound, incomplete, effects>>
    BY <1>1 DEF Lease, Leasable, Enter, Leave
<1>3. r \in Requests /\ row[r].maker = s /\ status[r] # "none" /\ Use(r, "held") /\ r # None
    BY <1>1, <1>2, Position, ApprovalConstants DEF Idle
<1>4. Move(r) /\ incomplete' \in BOOLEAN /\ status' \in [Requests -> Statuses]
    BY <1>2 DEF IInv, Typed, ServiceOK, RowsOK, Move
<1>5. CASE ok
    <2>1. /\ MemoryOK' /\ memory'[r].lease = "reserved"
          /\ \A q \in Requests \ {r} : memory'[q] = memory[q]
        BY <1>2, <1>3, <1>5, LeaseTyped DEF IInv, Leases
    <2>2. Use(r, "leased")'
        BY <1>2, <1>3, <1>5, <2>1 DEF Use, Acting, Resuming
    <2> DEFINE c == [request |-> r, step |-> "leased"]
    <2>3. c \in Calls /\ c.request = r /\ c.step = "leased"
        BY <1>3 DEF Calls, Acting
    <2>4. call' = [call EXCEPT ![s] = c]
        BY <1>2, <1>5
    <2> HIDE DEF c
    <2>5. Use(r, IF c.request = r THEN c.step ELSE "idle")'
        BY <2>2, <2>3
    <2>6. call[s].request \in {r, None} /\ UNCHANGED <<world, row, ns, closing, bound, effects>>
          /\ \A q \in Requests \ {r} : status'[q] = status[q]
        BY <1>1, <1>2
    <2> QED
        BY <1>3, <1>4, <2>1, <2>3, <2>4, <2>5, <2>6, PlainCallStep
<1>6. CASE ~ok
    <2>1. memory' = memory /\ MemoryOK'
        BY <1>2, <1>6 DEF IInv, Typed, MemoryOK
    <2>2. Use(r, "idle")'
        BY <1>2, <1>3, <2>1 DEF Use, Acting, Resuming
    <2>3. Idle \in Calls /\ Idle.request = None /\ call' = [call EXCEPT ![s] = Idle]
        BY <1>2, <1>6 DEF Calls, Idle
    <2> QED
        BY <1>1, <1>2, <1>3, <1>4, <2>1, <2>2, <2>3, PlainCallStep
<1> QED
    BY <1>5, <1>6

\* A call ends; its request may have moved and its lease changed.
LEMMA LeaveStep ==
    ASSUME IInv, NEW s \in Services, NEW r \in Requests, r = call[s].request, call[s] # Idle,
           call' = [call EXCEPT ![s] = Idle],
           NEW to \in Statuses, status' = [status EXCEPT ![r] = to], Move(r),
           NEW x \in Leases, memory' = [memory EXCEPT ![r].lease = x],
           incomplete' \in BOOLEAN, Use(r, "idle")',
           UNCHANGED <<world, ns, row, closing, bound, effects>>
    PROVE  IInv'
<1>1. /\ status' \in [Requests -> Statuses]
      /\ \A q \in Requests \ {r} : status'[q] = status[q]
    BY DEF IInv, Typed, RowsOK
<1>2. /\ MemoryOK' /\ \A q \in Requests \ {r} : memory'[q] = memory[q]
    BY LeaseTyped DEF IInv
<1>3. row[r].maker = s /\ status[r] # "none" /\ r # None
    BY Position, ApprovalConstants
<1>4. Idle \in Calls /\ Idle.request = None
    BY DEF Calls, Idle
<1> QED
    BY <1>1, <1>2, <1>3, <1>4, PlainCallStep

LEMMA ReserveStep ==
    ASSUME IInv, NEW s \in Services, Reserve(s)
    PROVE  IInv'
<1>1. PICK r : r = call[s].request
    OBVIOUS
<1>2. /\ call[s].step = "leased" /\ memory' = [memory EXCEPT ![r].ready = TRUE]
      /\ call' = [call EXCEPT ![s] = Idle]
      /\ UNCHANGED <<world, ns, status, row, closing, bound, incomplete, effects>>
    BY <1>1 DEF Reserve, Leave
<1>3. r \in Requests /\ row[r].maker = s /\ status[r] # "none" /\ Use(r, "leased") /\ r # None
    BY <1>1, <1>2, Position, ApprovalConstants DEF Idle
<1>4. Move(r) /\ incomplete' \in BOOLEAN /\ status' \in [Requests -> Statuses]
    BY <1>2 DEF IInv, Typed, ServiceOK, RowsOK, Move
<1>5. /\ MemoryOK' /\ memory'[r].lease = memory[r].lease
      /\ \A q \in Requests \ {r} : memory'[q] = memory[q]
    <2>1. memory \in [Requests -> Memories]
        BY DEF IInv, Typed, MemoryOK
    <2> DEFINE one == [memory[r] EXCEPT !.ready = TRUE]
    <2>2. one \in Memories /\ one.lease = memory[r].lease
        BY <1>3, <2>1 DEF Memories
    <2>3. memory' = [memory EXCEPT ![r] = one]
        BY <1>2, <1>3, <2>1
    <2> HIDE DEF one
    <2> QED
        BY <1>3, <2>1, <2>2, <2>3 DEF MemoryOK
<1>6. Use(r, "idle")'
    BY <1>2, <1>3, <1>5 DEF Use, Acting, Resuming
<1>7. Idle \in Calls /\ Idle.request = None
    BY DEF Calls, Idle
<1> QED
    BY <1>1, <1>2, <1>3, <1>4, <1>5, <1>6, <1>7, PlainCallStep

LEMMA AbortPreparationStep ==
    ASSUME IInv, NEW s \in Services, NEW o \in Outcomes, AbortPreparation(s, o)
    PROVE  IInv'
<1>1. PICK r : r = call[s].request
    OBVIOUS
<1>2. /\ call[s].step = "leased" /\ call' = [call EXCEPT ![s] = Idle]
      /\ UNCHANGED <<world, ns, row, closing, bound, effects>>
      /\ \/ status' = [status EXCEPT ![r] = IF @ = "held" THEN "canceled" ELSE @]
         \/ status' = status
      /\ Journal(o) \/ UNCHANGED incomplete
      /\ memory' = [memory EXCEPT ![r].lease = Finished(r)] \/ memory' = memory
    BY <1>1 DEF AbortPreparation, Leave
<1>3. r \in Requests /\ status[r] # "none" /\ Use(r, "leased") /\ call[s] # Idle
    BY <1>1, <1>2, Position DEF Idle
<1>4. PICK to \in {status[r], "canceled"} :
         status' = [status EXCEPT ![r] = to] /\ (to # status[r] => status[r] = "held")
    BY <1>2, <1>3 DEF IInv, Typed, RowsOK
<1>5. PICK x \in {memory[r].lease, "settled", "canceled"} :
         memory' = [memory EXCEPT ![r].lease = x]
    BY <1>2, <1>3, FinishedLease DEF IInv, Typed, MemoryOK, Memories
<1>6. x \in Leases /\ to \in Statuses /\ status'[r] = to /\ memory'[r].lease = x
    BY <1>3, <1>4, <1>5, LeaseTyped DEF IInv, Typed, MemoryOK, RowsOK, Memories, Leases, Statuses, Refused
<1>7. Move(r)
    BY <1>3, <1>4, <1>6 DEF Move, Open, Refused, Spent
<1>8. Use(r, "idle")'
    BY <1>2, <1>3, <1>4, <1>5, <1>6 DEF Use, Acting, Resuming, Spent
<1>9. incomplete' \in BOOLEAN
    BY <1>2, JournalTyped DEF IInv
<1> QED
    BY <1>1, <1>2, <1>3, <1>4, <1>5, <1>6, <1>7, <1>8, <1>9, LeaveStep
-----------------------------------------------------------------------------
(* dispatch and resume.                                                    *)

LEMMA ConsumeStep ==
    ASSUME IInv, NEW s \in Services, NEW o \in Outcomes, Consume(s, o)
    PROVE  IInv'
<1>1. PICK r : r = call[s].request
    OBVIOUS
<1>2. PICK k \in {"consumed", "failed"} : call' = [call EXCEPT ![s] = [request |-> r, step |-> k]]
    BY <1>1 DEF Consume, Enter
<1>3. /\ call[s].step = "dispatch" /\ status[r] = "held" /\ Journal(o)
      /\ status' = [status EXCEPT ![r] = "consumed"]
      /\ UNCHANGED <<world, ns, row, memory, closing, bound, effects>>
    BY <1>1 DEF Consume, Consumable
<1>4. r \in Requests /\ row[r].maker = s /\ Use(r, "dispatch")
    BY <1>1, <1>3, Position DEF Idle
<1>5. /\ status'[r] = "consumed" /\ status' \in [Requests -> Statuses]
      /\ \A q \in Requests \ {r} : status'[q] = status[q]
    BY <1>3, <1>4 DEF IInv, Typed, RowsOK, Statuses, Spent
<1>6. Move(r)
    BY <1>3, <1>5 DEF Move, Open, Refused, Spent
<1>7. Use(r, k)'
    BY <1>3, <1>4, <1>5 DEF Use, Acting, Resuming, Spent
<1>8. MemoryOK' /\ incomplete' \in BOOLEAN
    BY <1>3, JournalTyped DEF IInv, Typed, MemoryOK
<1> DEFINE c == [request |-> r, step |-> k]
<1>9. c \in Calls /\ c.request = r /\ c.step = k
    BY <1>4 DEF Calls, Acting
<1>10. call' = [call EXCEPT ![s] = c]
    BY <1>2
<1> HIDE DEF c
<1> QED
    BY <1>1, <1>3, <1>4, <1>5, <1>6, <1>7, <1>8, <1>9, <1>10, PlainCallStep

LEMMA BeginStep ==
    ASSUME IInv, NEW s \in Services, Begin(s)
    PROVE  IInv'
<1>1. PICK r : r = call[s].request
    OBVIOUS
<1>2. /\ call[s].step = "consumed" /\ memory[r].lease = "reserved" /\ status[r] = "consumed"
      /\ memory' = [memory EXCEPT ![r].lease = "forwarding"]
      /\ call' = [call EXCEPT ![s] = [request |-> r, step |-> "begun"]]
      /\ UNCHANGED <<world, ns, status, row, closing, bound, incomplete, effects>>
    BY <1>1 DEF Begin, Lifecycle, Enter
<1>3. r \in Requests /\ row[r].maker = s /\ Use(r, "consumed")
    BY <1>1, <1>2, Position DEF Idle
<1>4. /\ MemoryOK' /\ memory'[r].lease = "forwarding"
      /\ \A q \in Requests \ {r} : memory'[q] = memory[q]
    BY <1>2, <1>3, LeaseTyped DEF IInv, Leases
<1>5. Use(r, "begun")'
    BY <1>2, <1>3, <1>4 DEF Use, Acting, Resuming, Spent
<1>6. Move(r) /\ incomplete' \in BOOLEAN /\ status' \in [Requests -> Statuses]
    BY <1>2 DEF IInv, Typed, ServiceOK, RowsOK, Move
<1> DEFINE c == [request |-> r, step |-> "begun"]
<1>7. c \in Calls /\ c.request = r /\ c.step = "begun"
    BY <1>3 DEF Calls, Acting
<1>8. call' = [call EXCEPT ![s] = c]
    BY <1>2
<1> HIDE DEF c
<1>9. Use(r, IF c.request = r THEN c.step ELSE "idle")'
    BY <1>5, <1>7
<1>10. call[s].request \in {r, None} /\ UNCHANGED <<world, row, ns, closing, bound, effects>>
       /\ (\A q \in Requests \ {r} : status'[q] = status[q]) /\ status[r] # "none"
    BY <1>1, <1>2
<1> QED
    BY <1>3, <1>4, <1>6, <1>7, <1>8, <1>9, <1>10, PlainCallStep

\* The job runs: the effect of an action that had none.
LEMMA RunJobStep ==
    ASSUME IInv, NEW s \in Services, RunJob(s)
    PROVE  IInv'
<1>1. PICK r : r = call[s].request
    OBVIOUS
<1>2. /\ call[s].step = "verified" /\ effects' = [effects EXCEPT ![r] = @ + 1]
      /\ call' = [call EXCEPT ![s] = [request |-> r, step |-> "ran"]]
      /\ UNCHANGED <<world, ns, status, row, memory, closing, bound, incomplete>>
    BY <1>1 DEF RunJob, Enter
<1>3. r \in Requests /\ row[r].maker = s /\ status[r] # "none" /\ Use(r, "verified") /\ r \notin Recoveries
    BY <1>1, <1>2, Position DEF Idle, Acting
<1>4. effects[r] = 0 /\ status[r] \in Spent /\ memory[r].lease = "forwarding"
    BY <1>3 DEF Use
<1>5. /\ effects' \in [Requests -> Nat] /\ effects'[r] = 1
      /\ \A q \in Requests \ {r} : effects'[q] = effects[q]
    BY <1>2, <1>3, <1>4 DEF IInv, Typed, ServiceOK
<1>6. Use(r, "ran")'
    BY <1>2, <1>3, <1>4, <1>5 DEF Use, Acting, Resuming
<1>7. Move(r) /\ MemoryOK' /\ status' \in [Requests -> Statuses]
    BY <1>2 DEF IInv, Typed, MemoryOK, RowsOK, Move
<1>8. WorldOK' /\ ServiceOK'
    BY <1>2, <1>5 DEF world, IInv, Typed, WorldOK, ServiceOK
<1>9. BoundAt(r)' /\ OneResumePerIncident'
    BY <1>2, <1>3, <1>5, ResumesKept, ApprovalConstants DEF BoundAt, IInv, Unused
<1>10. revocation' = revocation /\ incident' = incident /\ ns' = ns /\ row' = row
    BY <1>2 DEF world
<1> DEFINE c == [request |-> r, step |-> "ran"]
<1>11. c \in Calls /\ c.request = r /\ c.step = "ran"
    BY <1>3 DEF Calls, Acting
<1>12. call' = [call EXCEPT ![s] = c]
    BY <1>2
<1>13. \A q \in Requests \ {r} :
           status'[q] = status[q] /\ memory'[q] = memory[q] /\ effects'[q] = effects[q]
    BY <1>2, <1>5
<1> HIDE DEF c
<1> QED
    BY <1>1, <1>3, <1>6, <1>7, <1>8, <1>9, <1>10, <1>11, <1>12, <1>13, CallStep

LEMMA SettleStep ==
    ASSUME IInv, NEW s \in Services, NEW o \in Outcomes, Settle(s, o)
    PROVE  IInv'
<1>1. PICK r : r = call[s].request
    OBVIOUS
<1>2. PICK x : x = Finished(r)
    OBVIOUS
<1> DEFINE outcome == IF call[s].step = "failed"
                      THEN IF status[r] \in {"held", "consumed"} THEN {"uncertain"} ELSE {status[r]}
                      ELSE {"completed", "uncertain"}
           moved == {[status EXCEPT ![r] = st] : st \in outcome}
<1>3. /\ call[s].step \in {"failed", "ran"} /\ call' = [call EXCEPT ![s] = Idle]
      /\ UNCHANGED <<world, ns, row, closing, bound, effects>>
      /\ Journal(o) \/ UNCHANGED incomplete
    BY DEF Settle, Leave
<1>4. memory' = [memory EXCEPT ![r].lease = x]
    BY <1>1, <1>2 DEF Settle
<1>5. status' \in moved \/ status' = status
    BY <1>1 DEF Settle
<1>6. /\ r \in Requests /\ status[r] # "none" /\ Use(r, call[s].step) /\ call[s] # Idle
      /\ r \notin Recoveries
    BY <1>1, <1>3, Position DEF Idle, Acting
<1>7. status[r] \in Statuses /\ (call[s].step = "ran" => status[r] \in Spent)
    BY <1>6 DEF IInv, Typed, RowsOK, Use
<1>8. PICK to \in outcome \cup {status[r]} : status' = [status EXCEPT ![r] = to]
    <2>1. CASE status' \in moved
        <3>1. PICK st \in outcome : status' = [status EXCEPT ![r] = st]
            BY <2>1
        <3> QED
            BY <3>1
    <2>2. CASE status' = status
        <3>1. status = [status EXCEPT ![r] = status[r]]
            BY <1>6 DEF IInv, Typed, RowsOK
        <3> HIDE DEF outcome
        <3> QED
            BY <2>2, <3>1
    <2> HIDE DEF outcome, moved
    <2> QED
        BY <1>5, <2>1, <2>2
<1>9. /\ to \in Statuses /\ to # "none"
      /\ status[r] \notin {"held", "consumed"} \cup Spent => to = status[r]
      /\ status[r] \in {"consumed"} \cup Spent => to \in Spent
      /\ status[r] = "held" => to \in {"held", "uncertain"}
      /\ to = "consumed" => status[r] = "consumed"
    BY <1>3, <1>6, <1>7, <1>8 DEF Statuses, Spent
<1> HIDE DEF outcome, moved
<1>10. x \in Leases /\ x \in {"settled", "canceled"}
    BY <1>2, <1>6, FinishedLease
<1>11. status'[r] = to /\ memory'[r].lease = x
    BY <1>4, <1>6, <1>8, <1>10, LeaseTyped DEF IInv, Typed, RowsOK
<1>12. Move(r)
    BY <1>6, <1>7, <1>9, <1>11 DEF Move, Open, Refused, Spent
<1>13. Use(r, "idle")'
    <2>1. effects'[r] = effects[r] /\ effects[r] \in {0, 1} /\ (effects[r] = 1 => status[r] \in Spent)
        BY <1>3, <1>6 DEF Use
    <2>2. effects'[r] = 1 => status'[r] \in Spent
        BY <1>9, <1>11, <2>1
    <2>3. memory'[r].lease \notin {"none", "reserved", "forwarding"}
        BY <1>10, <1>11
    <2> QED
        BY <2>1, <2>2, <2>3 DEF Use, Acting, Resuming
<1>14. incomplete' \in BOOLEAN
    BY <1>3, JournalTyped DEF IInv
<1> QED
    BY <1>1, <1>3, <1>4, <1>6, <1>8, <1>9, <1>10, <1>12, <1>13, <1>14, LeaveStep

LEMMA RecordRecoveryStep ==
    ASSUME IInv, NEW s \in Services, NEW o \in Outcomes, RecordRecovery(s, o)
    PROVE  IInv'
<1>1. PICK r : r = call[s].request
    OBVIOUS
<1>2. /\ call[s].step \in {"resumed", "unresumed"} /\ call' = [call EXCEPT ![s] = Idle]
      /\ UNCHANGED <<world, ns, row, memory, closing, bound, effects>>
      /\ \/ /\ status[r] = "consumed"
            /\ status' = [status EXCEPT ![r] =
                            IF call[s].step = "resumed" THEN "completed" ELSE "uncertain"]
         \/ status' = status
      /\ Journal(o) \/ UNCHANGED incomplete
    BY <1>1 DEF RecordRecovery, Leave
<1>3. r \in Requests /\ status[r] # "none" /\ Use(r, call[s].step) /\ call[s] # Idle
    BY <1>1, <1>2, Position DEF Idle, Resuming
<1>4. PICK to \in {status[r], "completed", "uncertain"} :
         status' = [status EXCEPT ![r] = to] /\ (to # status[r] => status[r] = "consumed")
    BY <1>2, <1>3 DEF IInv, Typed, RowsOK
<1>5. PICK x \in Leases : x = memory[r].lease
    BY <1>3 DEF IInv, Typed, MemoryOK, Memories
<1>6. memory' = [memory EXCEPT ![r].lease = x] /\ to \in Statuses /\ status'[r] = to
    BY <1>2, <1>3, <1>4, <1>5 DEF IInv, Typed, MemoryOK, Memories, RowsOK, Statuses, Spent
<1>7. Move(r)
    BY <1>3, <1>4, <1>6 DEF Move, Open, Refused, Spent
<1>8. Use(r, "idle")'
    BY <1>2, <1>3, <1>4, <1>6 DEF Use, Acting, Resuming, Spent
<1>9. incomplete' \in BOOLEAN
    BY <1>2, JournalTyped DEF IInv
<1> QED
    BY <1>1, <1>2, <1>3, <1>4, <1>6, <1>7, <1>8, <1>9, LeaveStep

\* The controller resumes: the incident of the request was not reconciled, so that no
\* other request has resumed it.
LEMMA ControllerResumeStep ==
    ASSUME IInv, NEW s \in Services, NEW o \in Outcomes, ControllerResume(s, o)
    PROVE  IInv'
<1>1. PICK r : r = call[s].request
    OBVIOUS
<1>2. PICK k \in {"resumed", "unresumed"} : call' = [call EXCEPT ![s] = [request |-> r, step |-> k]]
    BY <1>1 DEF ControllerResume, Enter
<1>3. /\ call[s].step = "resuming" /\ ~incident.reconciled /\ row[r].binding.revocation = revocation
      /\ incident' = [incident EXCEPT !.reconciled = TRUE] /\ contained' = FALSE
      /\ effects' = [effects EXCEPT ![r] = @ + 1] /\ Journal(o)
      /\ UNCHANGED <<owner, directory, context, revocation, now, ns, status, row, memory, closing, bound>>
    BY <1>1 DEF ControllerResume, Reconcilable, Recoverable
<1>4. r \in Requests /\ row[r].maker = s /\ status[r] # "none" /\ Use(r, "resuming") /\ r \in Recoveries
    BY <1>1, <1>3, Position DEF Idle, Resuming
<1>5. effects[r] = 0 /\ status[r] \in Spent /\ memory[r].lease # "forwarding"
    BY <1>4 DEF Use
<1>6. /\ effects' \in [Requests -> Nat] /\ effects'[r] = 1
      /\ \A q \in Requests \ {r} : effects'[q] = effects[q]
    BY <1>3, <1>4, <1>5 DEF IInv, Typed, ServiceOK
<1>7. incident'.reconciled = TRUE
      /\ incident' \in [epoch : Nat, fence : 0..MaxFence, settled : BOOLEAN, reconciled : BOOLEAN]
    BY <1>3 DEF IInv, Typed, WorldOK
<1>8. Use(r, k)'
    BY <1>3, <1>4, <1>5, <1>6 DEF Use, Acting, Resuming
<1>9. Move(r) /\ MemoryOK' /\ status' \in [Requests -> Statuses]
    BY <1>3 DEF IInv, Typed, MemoryOK, RowsOK, Move
<1>10. WorldOK' /\ ServiceOK'
    <2>1. incomplete' \in BOOLEAN
        BY <1>3, JournalTyped DEF IInv
    <2>2. contained' \in BOOLEAN /\ UNCHANGED <<owner, directory, context, revocation, now>>
          /\ UNCHANGED <<ns, closing, bound>>
        BY <1>3
    <2>3. WorldOK'
        BY <1>7, <2>2 DEF IInv, Typed, WorldOK
    <2> QED
        BY <1>6, <2>1, <2>2, <2>3 DEF IInv, Typed, ServiceOK
<1>11. BoundAt(r)'
    <2>1. BoundAt(r) /\ status'[r] = status[r] /\ row'[r] = row[r] /\ revocation' = revocation
        BY <1>3, <1>4 DEF IInv, Local
    <2>2. incident'.reconciled
        BY <1>7
    <2> QED
        BY <2>1, <2>2 DEF BoundAt
<1>12. OneResumePerIncident'
    <2>1. ASSUME NEW q \in Recoveries, q # r, effects'[q] > 0
          PROVE  row[q].binding.context # row[r].binding.context
        <3>1. effects[q] = 1 /\ q \in Requests
            BY <1>6, <2>1, ApprovalConstants DEF IInv, Local, UseAt, Use
        <3>2. status[q] # "none"
            BY <3>1 DEF IInv, Local, UseAt, Use, Spent
        <3>3. /\ row[q].binding.context = row[q].binding.revocation
              /\ row[q].binding.revocation # revocation
            BY <1>3, <2>1, <3>1, <3>2 DEF IInv, Local, BoundAt
        <3>4. row[r].binding.context = revocation
            BY <1>3, <1>4 DEF IInv, Local, BoundAt
        <3> QED
            BY <3>3, <3>4
    <2>2. ASSUME NEW p \in Recoveries, NEW q \in Recoveries, p # q, effects'[p] > 0, effects'[q] > 0
          PROVE  row[p].binding.context # row[q].binding.context
        <3>1. CASE p = r \/ q = r
            BY <2>1, <2>2, <3>1
        <3>2. CASE p # r /\ q # r
            BY <1>6, <2>2, <3>2, ApprovalConstants DEF IInv, OneResumePerIncident, Resumed
        <3> QED
            BY <3>1, <3>2
    <2> QED
        BY <1>3, <2>2 DEF OneResumePerIncident, Resumed
<1> DEFINE c == [request |-> r, step |-> k]
<1>13. c \in Calls /\ c.request = r /\ c.step = k
    BY <1>4 DEF Calls, Resuming
<1>14. call' = [call EXCEPT ![s] = c]
    BY <1>2
<1>15. \A q \in Requests \ {r} :
           status'[q] = status[q] /\ memory'[q] = memory[q] /\ effects'[q] = effects[q]
    BY <1>3, <1>6
<1> HIDE DEF c
<1> QED
    BY <1>1, <1>3, <1>4, <1>7, <1>8, <1>9, <1>10, <1>11, <1>12, <1>13, <1>14, <1>15, CallStep
-----------------------------------------------------------------------------
(* The invariant is inductive.                                             *)

LEMMA InitIInv == Init => IInv
<1> SUFFICES ASSUME Init PROVE IInv
    OBVIOUS
<1>1. NoRow \in Rows
    <2>1. [h \in Humans |-> None] \in Votes
        BY DEF Votes
    <2>2. 0 \in 0..(MaxTime + Life)
        BY ApprovalConstants
    <2> QED
        BY <2>1, <2>2 DEF NoRow, Rows
<1>2. WorldOK
    <2>1. 0 \in 0..MaxFence /\ 0 \in 0..MaxTime
        BY ApprovalConstants
    <2>2. owner \in [id : Services \cup {None}, fence : 0..MaxFence]
        BY <2>1 DEF Init
    <2>3. directory \in [members : SUBSET Enrollments, generation : Nat]
        <3>1. PICK m \in Foundings : directory = [members |-> m, generation |-> 0]
            BY DEF Init
        <3> QED
            BY <3>1, ApprovalConstants
    <2>4. incident \in [epoch : Nat, fence : 0..MaxFence, settled : BOOLEAN, reconciled : BOOLEAN]
        BY <2>1 DEF Init
    <2>5. context \in Nat /\ revocation \in Nat /\ contained \in BOOLEAN /\ now \in 0..MaxTime
        BY <2>1 DEF Init
    <2> QED
        BY <2>2, <2>3, <2>4, <2>5 DEF WorldOK
<1>3. ServiceOK /\ CallsOK
    <2>1. ns \in [instance : Services \cup {None}, fence : 0..MaxFence]
        BY ApprovalConstants DEF Init
    <2>2. /\ closing \subseteq Requests /\ bound \subseteq Services /\ incomplete \in BOOLEAN
          /\ effects \in [Requests -> Nat]
        BY DEF Init
    <2>3. CallsOK
        BY DEF Init, CallsOK, Calls
    <2> QED
        BY <2>1, <2>2, <2>3 DEF ServiceOK
<1>4. RowsOK
    BY <1>1 DEF Init, RowsOK, Statuses
<1>5. MemoryOK
    BY DEF Init, MemoryOK, Memories, NoMemory, Leases
<1>6. Linked /\ OneResumePerIncident
    BY ApprovalConstants DEF Init, Linked, OneResumePerIncident, Resumed
<1>7. ASSUME NEW r \in Requests PROVE Local(r)
    <2>1. /\ status[r] = "none" /\ effects[r] = 0 /\ memory[r].lease = "none"
          /\ \A h \in Humans : row[r].votes[h] = None
        BY DEF Init, NoMemory, NoRow
    <2>2. RowAt(r) /\ BoundAt(r)
        BY <2>1 DEF RowAt, BoundAt, Open, Spent
    <2>3. CallOf(r) = "idle"
        BY <2>1 DEF CallOf
    <2> QED
        BY <2>1, <2>2, <2>3 DEF Local, UseAt, Use, Acting, Resuming
<1> QED
    BY <1>2, <1>3, <1>4, <1>5, <1>6, <1>7 DEF IInv, Typed

LEMMA DecideStep == IInv /\ Decide => IInv'
<1> SUFFICES ASSUME IInv, NEW s \in Services, NEW e \in Enrollments, NEW r \in Requests,
                    NEW o \in Outcomes,
                    \/ \E choice \in Choices, k \in Keys :
                          \/ Resolve(s, e, r, choice, k, o)
                          \/ ResolveAgain(s, e, r, choice, k, o)
                          \/ ResolveRecovery(s, e, r, choice, k, o)
                    \/ \E choice \in {"cancel", "expire"} : Terminal(s, e, r, choice, o)
                    \/ RequestRecovery(s, e, r, o)
                    \/ Resume(s, e, r, o)
             PROVE  IInv'
    BY DEF Decide
<1>1. ASSUME NEW choice \in Choices, NEW k \in Keys, Resolve(s, e, r, choice, k, o) PROVE IInv'
    BY <1>1, ResolveStep
<1>2. ASSUME NEW choice \in Choices, NEW k \in Keys, ResolveAgain(s, e, r, choice, k, o) PROVE IInv'
    BY <1>2, ResolveAgainStep
<1>3. ASSUME NEW choice \in Choices, NEW k \in Keys, ResolveRecovery(s, e, r, choice, k, o) PROVE IInv'
    BY <1>3, ResolveRecoveryStep
<1>4. ASSUME NEW choice \in {"cancel", "expire"}, Terminal(s, e, r, choice, o) PROVE IInv'
    BY <1>4, TerminalStep
<1>5. CASE RequestRecovery(s, e, r, o)
    <2>1. NewRow(s, r, o) /\ ns.instance = s /\ Recoverable
        BY <1>5 DEF RequestRecovery, Contained
    <2> QED
        BY <2>1, NewRowStep
<1>6. CASE Resume(s, e, r, o)
    BY <1>6, ResumeStep
<1> QED
    BY <1>1, <1>2, <1>3, <1>4, <1>5, <1>6

LEMMA OperateStep == IInv /\ Operate => IInv'
<1> SUFFICES ASSUME IInv, NEW s \in Services, NEW o \in Outcomes,
                    \/ \E recover \in BOOLEAN : Initialize(s, recover, o)
                    \/ \E r \in Requests : Request(s, r, o) \/ Hold(s, r, o)
                    \/ AbortPreparation(s, o) \/ Consume(s, o) \/ Settle(s, o)
                    \/ ControllerResume(s, o) \/ RecordRecovery(s, o)
             PROVE  IInv'
    BY DEF Operate
<1>1. ASSUME NEW recover \in BOOLEAN, Initialize(s, recover, o) PROVE IInv'
    BY <1>1, InitializeStep
<1>2. ASSUME NEW r \in Requests, Request(s, r, o) PROVE IInv'
    <2>1. NewRow(s, r, o) /\ ns.instance = s /\ r \notin Recoveries
        BY <1>2 DEF Request, Namespace
    <2> QED
        BY <2>1, NewRowStep
<1>3. ASSUME NEW r \in Requests, Hold(s, r, o) PROVE IInv'
    BY <1>3, HoldStep
<1>4. CASE AbortPreparation(s, o)
    BY <1>4, AbortPreparationStep
<1>5. CASE Consume(s, o)
    BY <1>5, ConsumeStep
<1>6. CASE Settle(s, o)
    BY <1>6, SettleStep
<1>7. CASE ControllerResume(s, o)
    BY <1>7, ControllerResumeStep
<1>8. CASE RecordRecovery(s, o)
    BY <1>8, RecordRecoveryStep
<1> QED
    BY <1>1, <1>2, <1>3, <1>4, <1>5, <1>6, <1>7, <1>8

LEMMA AdvanceStep == IInv /\ Advance => IInv'
<1> SUFFICES ASSUME IInv, NEW s \in Services,
                    \/ \E ok \in BOOLEAN : Lease(s, ok)
                    \/ \E r \in Requests : Dispatch(s, r)
                    \/ Reserve(s) \/ Begin(s) \/ VerifyExecution(s) \/ RunJob(s) \/ FailDispatch(s)
                    \/ FailResume(s) \/ Claim(s)
             PROVE  IInv'
    BY DEF Advance
<1>1. ASSUME NEW ok \in BOOLEAN, Lease(s, ok) PROVE IInv'
    BY <1>1, LeaseStep
<1>2. ASSUME NEW r \in Requests, Dispatch(s, r) PROVE IInv'
    BY <1>2, DispatchStep
<1>3. CASE Reserve(s)
    BY <1>3, ReserveStep
<1>4. CASE Begin(s)
    BY <1>4, BeginStep
<1>5. CASE VerifyExecution(s)
    BY <1>5, VerifyExecutionStep
<1>6. CASE RunJob(s)
    BY <1>6, RunJobStep
<1>7. CASE FailDispatch(s)
    BY <1>7, FailDispatchStep
<1>8. CASE FailResume(s)
    BY <1>8, FailResumeStep
<1>9. CASE Claim(s)
    BY <1>9, WorldStep
<1> QED
    BY <1>1, <1>2, <1>3, <1>4, <1>5, <1>6, <1>7, <1>8, <1>9

LEMMA EnvironmentStep == IInv /\ Environment => IInv'
<1> SUFFICES ASSUME IInv, Environment PROVE IInv'
    OBVIOUS
<1>1. ASSUME NEW e \in Enrollments, Enroll(e) \/ RevokeOperator(e) PROVE IInv'
    BY <1>1, WorldStep
<1>2. ASSUME NEW r \in Requests, Close(r) PROVE IInv'
    BY <1>2, CloseStep
<1>3. ASSUME NEW realm \in BOOLEAN, Fence(realm) PROVE IInv'
    BY <1>3, FenceStep
<1>4. CASE IncidentSettles \/ ChangeContext \/ Tick
    BY <1>4, WorldStep
<1> QED
    BY <1>1, <1>2, <1>3, <1>4 DEF Environment

LEMMA StepIInv == IInv /\ [Next]_vars => IInv'
<1> SUFFICES ASSUME IInv, [Next]_vars PROVE IInv'
    OBVIOUS
<1>1. CASE Next
    BY <1>1, DecideStep, OperateStep, AdvanceStep, EnvironmentStep DEF Next
<1>2. CASE UNCHANGED vars
    <2>1. UNCHANGED <<ns, status, row, memory, call, effects>> /\ UNCHANGED <<closing, bound, incomplete>>
          /\ UNCHANGED world
        BY <1>2 DEF vars
    <2>2. Typed'
        BY <2>1 DEF world, IInv, Typed, WorldOK, ServiceOK, RowsOK, MemoryOK, CallsOK
    <2> QED
        BY <2>1, <2>2, Calm DEF world
<1> QED
    BY <1>1, <1>2

LEMMA Inductive == Spec => []IInv
BY InitIInv, StepIInv, PTL DEF Spec
-----------------------------------------------------------------------------
(* What follows.                                                           *)

\* Whatever operators, objects, fences and lost answers do on the way, one approval
\* is used for one effect, a refused one for none, a lease that may be running
\* stands behind a consumed row, and an incident is resumed once.
THEOREM OnlyOnce == Spec => []ApprovedOnce
<1>1. ASSUME IInv PROVE ApprovedOnce
    <2> USE <1>1
    <2>1. TypeOK
        <3>1. /\ owner \in [id : Services \cup {None}, fence : 0..MaxFence]
              /\ directory.members \subseteq Enrollments /\ contained \in BOOLEAN
            BY DEF IInv, Typed, WorldOK
        <3>2. ASSUME NEW r \in Requests
              PROVE  /\ row[r].maker \in Services \cup {None}
                     /\ row[r].expires \in 0..(MaxTime + Life)
                     /\ row[r].votes \in Votes
                     /\ status[r] # "none" => row[r].maker # None
            BY <3>2, ApprovalConstants DEF IInv, Typed, RowsOK, Rows, Local, RowAt
        <3>3. \A r \in Requests : memory[r].lease \in
                  {"none", "reserved", "forwarding", "settled", "canceled"}
            BY DEF IInv, Typed, MemoryOK, Memories, Leases
        <3>4. \A s \in Services : call[s].request \in Requests \cup {None}
            BY DEF IInv, Typed, CallsOK, Calls, Idle
        <3>5. status \in [Requests -> {"none"} \cup Open \cup Refused \cup Spent]
            BY DEF IInv, Typed, RowsOK, Statuses
        <3>6. /\ ns \in [instance : Services \cup {None}, fence : 0..MaxFence]
              /\ closing \subseteq Requests /\ bound \subseteq Services /\ incomplete \in BOOLEAN
              /\ effects \in [Requests -> Nat]
            BY DEF IInv, Typed, ServiceOK
        <3> QED
            BY <3>1, <3>2, <3>3, <3>4, <3>5, <3>6 DEF TypeOK
    <2>2. OneUse
        BY DEF OneUse, IInv, Local, UseAt, Use, Refused, Spent
    <2>3. LeaseBehindRow
        BY DEF LeaseBehindRow, IInv, Local, UseAt, Use
    <2> QED
        BY <2>1, <2>2, <2>3 DEF ApprovedOnce, IInv
<1> QED
    BY <1>1, Inductive, PTL

\* Whatever ran had a quorum of distinct humans behind it, each with an approving
\* vote in the record, and nobody against it.
THEOREM QuorumRan == Spec => []RunsByQuorum
<1>1. ASSUME IInv PROVE RunsByQuorum
    <2> SUFFICES ASSUME NEW r \in Requests, effects[r] > 0
                 PROVE  /\ Cardinality({h \in Humans : row[r].votes[h] # None}) >= Quorum[r]
                        /\ \A h \in Humans :
                              row[r].votes[h] # None => row[r].votes[h].choice = "approve"
        BY DEF RunsByQuorum
    <2>1. RowAt(r) /\ status[r] \in Spent
        BY <1>1 DEF IInv, Local, UseAt, Use
    <2> QED
        BY <2>1 DEF RowAt, Voters, Spent, Refused
<1> QED
    BY <1>1, Inductive, PTL

\* A lease starts by Begin alone, and only a started lease has an effect.
LEMMA Starts ==
    ASSUME IInv, [Next]_vars, NEW r \in Requests, memory[r].lease # "forwarding"
    PROVE  /\ memory'[r].lease = "forwarding" =>
                 \E s \in Services : Begin(s) /\ call[s].request = r
           /\ r \notin Recoveries => effects'[r] = effects[r]
<1> DEFINE Quiet == memory'[r].lease # "forwarding" /\ effects'[r] = effects[r]
<1>1. memory \in [Requests -> Memories] /\ effects \in [Requests -> Nat]
    BY DEF IInv, Typed, MemoryOK, ServiceOK
<1>2. ASSUME UNCHANGED <<memory, effects>> PROVE Quiet
    BY <1>2
<1>3. ASSUME NEW q \in Requests, NEW x, x # "forwarding", memory' = [memory EXCEPT ![q].lease = x],
             UNCHANGED effects
      PROVE  Quiet
    BY <1>1, <1>3 DEF Memories
<1>4. ASSUME NEW q \in Requests, NEW x, memory' = [memory EXCEPT ![q].known = x], UNCHANGED effects
      PROVE  Quiet
    BY <1>1, <1>4 DEF Memories
<1>5. ASSUME NEW q \in Requests, NEW x, memory' = [memory EXCEPT ![q].receipt = x], UNCHANGED effects
      PROVE  Quiet
    BY <1>1, <1>5 DEF Memories
<1>6. ASSUME NEW q \in Requests, memory' = [memory EXCEPT ![q].ready = TRUE], UNCHANGED effects
      PROVE  Quiet
    BY <1>1, <1>6 DEF Memories
<1> HIDE DEF Quiet
<1>7. ASSUME NEW s \in Services, call[s] # Idle
      PROVE  call[s].request \in Requests /\ Use(call[s].request, call[s].step)
             /\ (call[s].step \in Resuming => call[s].request \in Recoveries)
    BY <1>7, Position
<1>8. \A q : Finished(q) # "forwarding"
    BY DEF Finished
<1>9. CASE Decide
    <2>1. PICK s \in Services, e \in Enrollments, q \in Requests, o \in Outcomes :
               \/ \E choice \in Choices, k \in Keys :
                     \/ Resolve(s, e, q, choice, k, o)
                     \/ ResolveAgain(s, e, q, choice, k, o)
                     \/ ResolveRecovery(s, e, q, choice, k, o)
               \/ \E choice \in {"cancel", "expire"} : Terminal(s, e, q, choice, o)
               \/ RequestRecovery(s, e, q, o)
               \/ Resume(s, e, q, o)
        BY <1>9 DEF Decide
    <2>2. ASSUME NEW choice \in Choices, NEW k \in Keys, Resolve(s, e, q, choice, k, o) PROVE Quiet
        BY <2>2, <1>2, <1>5 DEF Resolve
    <2>3. ASSUME NEW choice \in Choices, NEW k \in Keys, ResolveAgain(s, e, q, choice, k, o) PROVE Quiet
        BY <2>3, <1>5 DEF ResolveAgain
    <2>4. ASSUME NEW choice \in Choices, NEW k \in Keys, ResolveRecovery(s, e, q, choice, k, o)
          PROVE  Quiet
        BY <2>4, <1>5 DEF ResolveRecovery
    <2>5. ASSUME NEW choice \in {"cancel", "expire"}, Terminal(s, e, q, choice, o) PROVE Quiet
        BY <2>5, <1>2 DEF Terminal
    <2>6. ASSUME RequestRecovery(s, e, q, o) PROVE Quiet
        BY <2>6, <1>4 DEF RequestRecovery, NewRow
    <2>7. ASSUME Resume(s, e, q, o) PROVE Quiet
        BY <2>7, <1>2 DEF Resume
    <2>8. Quiet
        BY <2>1, <2>2, <2>3, <2>4, <2>5, <2>6, <2>7
    <2> QED
        BY <2>8 DEF Quiet
<1>10. CASE Operate
    <2>1. PICK s \in Services, o \in Outcomes :
               \/ \E recover \in BOOLEAN : Initialize(s, recover, o)
               \/ \E q \in Requests : Request(s, q, o) \/ Hold(s, q, o)
               \/ AbortPreparation(s, o) \/ Consume(s, o) \/ Settle(s, o)
               \/ ControllerResume(s, o) \/ RecordRecovery(s, o)
        BY <1>10 DEF Operate
    <2>2. CASE \E recover \in BOOLEAN : Initialize(s, recover, o)
        BY <2>2, <1>2 DEF Initialize, Quiet
    <2>3. ASSUME NEW q \in Requests, Request(s, q, o) PROVE Quiet
        BY <2>3, <1>4 DEF Request, NewRow
    <2>4. ASSUME NEW q \in Requests, Hold(s, q, o) PROVE Quiet
        BY <2>4, <1>2 DEF Hold
    <2>5. CASE AbortPreparation(s, o)
        <3>1. call[s] # Idle /\ UNCHANGED effects
              /\ \/ UNCHANGED memory
                 \/ memory' = [memory EXCEPT ![call[s].request].lease = Finished(call[s].request)]
            BY <2>5 DEF AbortPreparation, Idle
        <3> QED
            BY <3>1, <1>2, <1>3, <1>7, <1>8 DEF Quiet
    <2>6. CASE Consume(s, o) \/ RecordRecovery(s, o)
        BY <2>6, <1>2 DEF Consume, RecordRecovery, Quiet
    <2>7. CASE Settle(s, o)
        <3>1. call[s] # Idle /\ UNCHANGED effects
              /\ memory' = [memory EXCEPT ![call[s].request].lease = Finished(call[s].request)]
            BY <2>7 DEF Settle, Idle
        <3> QED
            BY <3>1, <1>3, <1>7, <1>8 DEF Quiet
    <2>8. CASE ControllerResume(s, o)
        <3>1. /\ call[s].step = "resuming" /\ call[s] # Idle /\ UNCHANGED memory
              /\ effects' = [effects EXCEPT ![call[s].request] = @ + 1]
            BY <2>8 DEF ControllerResume, Idle
        <3> QED
            BY <3>1, <1>1, <1>7 DEF Resuming
    <2> QED
        BY <2>1, <2>2, <2>3, <2>4, <2>5, <2>6, <2>7, <2>8 DEF Quiet
<1>11. CASE Advance
    <2>1. PICK s \in Services :
               \/ \E ok \in BOOLEAN : Lease(s, ok)
               \/ \E q \in Requests : Dispatch(s, q)
               \/ Reserve(s) \/ Begin(s) \/ VerifyExecution(s) \/ RunJob(s) \/ FailDispatch(s)
               \/ FailResume(s) \/ Claim(s)
        BY <1>11 DEF Advance
    <2>2. ASSUME NEW ok \in BOOLEAN, Lease(s, ok) PROVE Quiet
        <3>1. call[s] # Idle /\ UNCHANGED effects
              /\ \/ UNCHANGED memory
                 \/ memory' = [memory EXCEPT ![call[s].request].lease = "reserved"]
            BY <2>2 DEF Lease, Idle
        <3> QED
            BY <3>1, <1>2, <1>3, <1>7
    <2>3. CASE \/ \E q \in Requests : Dispatch(s, q)
               \/ VerifyExecution(s) \/ FailDispatch(s) \/ FailResume(s) \/ Claim(s)
        BY <2>3, <1>2 DEF Dispatch, VerifyExecution, FailDispatch, FailResume, Claim, Quiet
    <2>4. CASE Reserve(s)
        <3>1. call[s] # Idle /\ UNCHANGED effects
              /\ memory' = [memory EXCEPT ![call[s].request].ready = TRUE]
            BY <2>4 DEF Reserve, Idle
        <3> QED
            BY <3>1, <1>6, <1>7 DEF Quiet
    <2>5. CASE Begin(s)
        <3>1. /\ call[s] # Idle /\ UNCHANGED effects
              /\ memory' = [memory EXCEPT ![call[s].request].lease = "forwarding"]
            BY <2>5 DEF Begin, Idle
        <3>2. r # call[s].request => memory'[r] = memory[r]
            BY <3>1, <1>1, <1>7
        <3> QED
            BY <2>5, <3>1, <3>2
    <2>6. CASE RunJob(s)
        <3>1. /\ call[s].step = "verified" /\ call[s] # Idle /\ UNCHANGED memory
              /\ effects' = [effects EXCEPT ![call[s].request] = @ + 1]
            BY <2>6 DEF RunJob, Idle
        <3>2. memory[call[s].request].lease = "forwarding"
            BY <3>1, <1>7 DEF Use
        <3> QED
            BY <3>1, <3>2, <1>1, <1>7
    <2> QED
        BY <2>1, <2>2, <2>3, <2>4, <2>5, <2>6 DEF Quiet
<1>12. CASE Environment \/ UNCHANGED vars
    <2>1. ASSUME NEW q \in Requests, Close(q) PROVE Quiet
        <3> DEFINE x == IF memory[q].lease = "none" THEN "none" ELSE Finished(q)
        <3>1. memory' = [memory EXCEPT ![q].lease = x] /\ UNCHANGED effects
            BY <1>1, <2>1 DEF Close, Memories
        <3>2. x # "forwarding"
            BY <1>8
        <3> QED
            BY <3>1, <3>2, <1>3
    <2>2. ASSUME Environment, ~\E q \in Requests : Close(q) PROVE Quiet
        BY <2>2, <1>2 DEF Environment, Enroll, RevokeOperator, Fence, IncidentSettles, ChangeContext,
              Tick
    <2>3. ASSUME UNCHANGED vars PROVE Quiet
        BY <2>3, <1>2 DEF vars
    <2>4. Quiet
        BY <1>12, <2>1, <2>2, <2>3 DEF Environment
    <2> QED
        BY <2>4 DEF Quiet
<1> QED
    BY <1>9, <1>10, <1>11, <1>12 DEF Next

\* Only requests of the present controller are open or running, and what was overtaken
\* by expiry, a new owner, a fence or a change of the directory before its lease
\* started is never started.
THEOREM OvertakenStays == Spec => StaleNeverStarts
<1> DEFINE A == \A r \in Requests :
                    status[r] # "none" /\ Stale(r) /\ memory[r].lease # "forwarding"
                        => memory'[r].lease # "forwarding"
                           /\ (r \notin Recoveries => effects'[r] = effects[r])
<1>1. ASSUME IInv PROVE TakeoverCloses
    BY <1>1 DEF TakeoverCloses, IInv, Local, RowAt
<1>2. ASSUME IInv, [Next]_vars PROVE A
    <2> SUFFICES ASSUME NEW r \in Requests, status[r] # "none", Stale(r),
                        memory[r].lease # "forwarding"
                 PROVE  memory'[r].lease # "forwarding"
                        /\ (r \notin Recoveries => effects'[r] = effects[r])
        OBVIOUS
    <2>1. ASSUME NEW s \in Services, Begin(s), call[s].request = r PROVE FALSE
        <3>1. Lifecycle(s, r, {"consumed"})
            BY <2>1 DEF Begin
        <3> QED
            BY <3>1 DEF Lifecycle, Stale
    <2> QED
        BY <1>2, <2>1, Starts
<1>3. []TakeoverCloses /\ [][A]_vars => StaleNeverStarts
    BY PTL DEF StaleNeverStarts
<1> HIDE DEF A
<1>4. Spec => []TakeoverCloses
    BY <1>1, Inductive, PTL
<1>5. Spec => [][A]_vars
    BY <1>2, Inductive, PTL DEF Spec
<1> QED
    BY <1>3, <1>4, <1>5, PTL
=============================================================================
