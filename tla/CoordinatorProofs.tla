------------------------- MODULE CoordinatorProofs --------------------------
(***************************************************************************)
(* Proofs about the coordinator for every number of coordinator objects,   *)
(* workloads, reservations and buckets, and for every policy.              *)
(***************************************************************************)
EXTENDS Coordinator, FiniteSetTheorems, TLAPS

-----------------------------------------------------------------------------
(* Sums of reservations: a sum is a natural number and adds up over        *)
(* disjoint sets; that of one reservation is its amount.                   *)

\* The units granted to a finite set are finitely many, so a sum is a natural
\* number: the held and consumed counters of a bucket can be totals.
LEMMA UnitSumType ==
    ASSUME NEW f, NEW S, IsFiniteSet(S), NEW bound \in Nat
    PROVE  /\ IsFiniteSet(Units(f, S, bound))
           /\ UnitSum(f, S, bound) \in Nat
<1>1. IsFiniteSet(1..bound)
    BY FS_Interval
<1>2. IsFiniteSet(S \X (1..bound))
    BY <1>1, FS_Product
<1>3. Units(f, S, bound) \in SUBSET (S \X (1..bound))
    BY DEF Units
<1>4. IsFiniteSet(Units(f, S, bound))
    BY <1>2, <1>3, FS_Subset
<1> QED
    BY <1>4, FS_CardinalityType DEF UnitSum

\* Nothing holds nothing.
LEMMA UnitSumEmpty ==
    ASSUME NEW f, NEW bound
    PROVE  UnitSum(f, {}, bound) = 0
<1>1. Units(f, {}, bound) = {}
    BY DEF Units
<1> QED
    BY <1>1, FS_EmptySet DEF UnitSum

\* Splitting the reservations splits the sum.
LEMMA UnitSumDisjoint ==
    ASSUME NEW f, NEW S, NEW T, IsFiniteSet(S), IsFiniteSet(T), S \cap T = {},
           NEW bound \in Nat
    PROVE  UnitSum(f, S \cup T, bound) = UnitSum(f, S, bound) + UnitSum(f, T, bound)
<1>1. Units(f, S \cup T, bound) = Units(f, S, bound) \cup Units(f, T, bound)
    BY DEF Units
<1>2. Units(f, S, bound) \cap Units(f, T, bound) = {}
    <2> SUFFICES ASSUME NEW p \in Units(f, S, bound) \cap Units(f, T, bound)
                 PROVE  FALSE
        OBVIOUS
    <2>1. p[1] \in S /\ p[1] \in T
        BY DEF Units
    <2> QED
        BY <2>1
<1>3. IsFiniteSet(Units(f, S, bound)) /\ IsFiniteSet(Units(f, T, bound))
    BY UnitSumType
<1>4. Cardinality(Units(f, S \cup T, bound)) =
        Cardinality(Units(f, S, bound)) + Cardinality(Units(f, T, bound))
        - Cardinality(Units(f, S, bound) \cap Units(f, T, bound))
    BY <1>1, <1>3, FS_Union
<1>5. Cardinality(Units(f, S, bound) \cap Units(f, T, bound)) = 0
    BY <1>2, FS_EmptySet
<1>6. UnitSum(f, S, bound) \in Nat /\ UnitSum(f, T, bound) \in Nat
    BY UnitSumType
<1> QED
    BY <1>4, <1>5, <1>6 DEF UnitSum

\* One reservation alone contributes exactly its amount.
LEMMA UnitSumSingle ==
    ASSUME NEW f, NEW x, NEW bound \in Nat, f[x] \in 0..bound
    PROVE  UnitSum(f, {x}, bound) = f[x]
<1> DEFINE n == f[x]
<1> DEFINE h == [u \in 1..n |-> <<x, u>>]
<1>1. Units(f, {x}, bound) = {x} \X (1..n)
    <2>1. ASSUME NEW p \in {x} \X (1..bound), p[2] <= f[p[1]] PROVE p \in {x} \X (1..n)
        <3>1. p[1] = x /\ p[2] \in 1..bound /\ p = <<p[1], p[2]>>
            OBVIOUS
        <3>2. p[2] \in 1..n
            BY <3>1, <2>1
        <3> QED
            BY <3>1, <3>2
    <2>2. ASSUME NEW p \in {x} \X (1..n) PROVE p \in {x} \X (1..bound) /\ p[2] <= f[p[1]]
        <3>1. p[1] = x /\ p[2] \in 1..n /\ p = <<p[1], p[2]>>
            OBVIOUS
        <3> QED
            BY <3>1
    <2> QED
        BY <2>1, <2>2 DEF Units
<1>2. h \in Bijection(1..n, {x} \X (1..n))
    <2>1. h \in [1..n -> {x} \X (1..n)]
        OBVIOUS
    <2>2. \A a, b \in 1..n : h[a] = h[b] => a = b
        OBVIOUS
    <2>3. \A t \in {x} \X (1..n) : \E s \in 1..n : h[s] = t
        <3> TAKE t \in {x} \X (1..n)
        <3>1. t[1] = x /\ t[2] \in 1..n /\ t = <<t[1], t[2]>>
            OBVIOUS
        <3> QED
            BY <3>1
    <2> QED
        BY <2>1, <2>2, <2>3 DEF Bijection, Injection, Surjection, IsInjective
<1>3. IsFiniteSet(1..n) /\ Cardinality(1..n) = n
    <2>1. n \in Int /\ n >= 0 /\ 1 \in Int
        OBVIOUS
    <2>2. Cardinality(1..n) = IF 1 > n THEN 0 ELSE n - 1 + 1
        BY <2>1, FS_Interval
    <2>3. Cardinality(1..n) = n
        BY <2>1, <2>2
    <2>4. IsFiniteSet(1..n)
        BY <2>1, FS_Interval
    <2> QED
        BY <2>3, <2>4
<1>4. Cardinality({x} \X (1..n)) = n
    BY <1>2, <1>3, FS_Bijection DEF ExistsBijection
<1> QED
    BY <1>1, <1>4 DEF UnitSum
-----------------------------------------------------------------------------
(* The coordinator: parts of its inductive invariant.                      *)

Phase == Booked \cup Previews

\* The types that the progress of reservations and dispatches needs.
ProgressOK ==
    /\ status \in [Reservations -> Phase]
    /\ dispatch \in [Reservations -> Results \cup {"idle", "begun"}]
    /\ effects \in [Reservations -> Nat]

\* The moves a reservation makes unless it is evaluated, reserved or committed.
Quiet(r, st) ==
    \/ st = status[r]
    \/ status[r] = "previewed" /\ st = "stale"
    \/ status[r] = "reserved" /\ st \in {"expired", "canceled", "forwarding"}
    \/ status[r] = "forwarding" /\ st = "uncertain"

\* A step in which every reservation moves quietly.
AllQuiet ==
    /\ status' \in [Reservations -> Phase]
    /\ \A r \in Reservations : Quiet(r, status'[r])

\* A step in which all but r move quietly.
OthersQuiet(r) ==
    /\ status' \in [Reservations -> Phase]
    /\ \A q \in Reservations \ {r} : Quiet(q, status'[q])

\* Expiry is quiet.
LEMMA ExpiryQuiet ==
    ASSUME ProgressOK, NEW r \in Reservations
    PROVE  /\ Expired(r) \in Phase
           /\ Quiet(r, Expired(r))
           /\ Expired(r) = "reserved" => status[r] = "reserved"
BY DEF ProgressOK, Expired, Quiet, Phase, Booked, Live, Previews

\* A step that only expires what is due is quiet.
LEMMA ExpiryStep == ProgressOK /\ status' = AfterExpiry => AllQuiet
<1> SUFFICES ASSUME ProgressOK, status' = AfterExpiry PROVE AllQuiet
    OBVIOUS
<1>1. \A r \in Reservations : Expired(r) \in Phase /\ Quiet(r, Expired(r))
    BY ExpiryQuiet
<1> QED
    BY <1>1 DEF AllQuiet, AfterExpiry

\* A step that expires what is due and gives r the phase st.
LEMMA ExpiryExcept ==
    ASSUME ProgressOK, NEW r \in Reservations, NEW st \in Phase,
           status' = [AfterExpiry EXCEPT ![r] = st]
    PROVE  /\ OthersQuiet(r)
           /\ status'[r] = st
           /\ Quiet(r, st) => AllQuiet
<1>1. \A q \in Reservations : Expired(q) \in Phase /\ Quiet(q, Expired(q))
    BY ExpiryQuiet
<1>2. \A q \in Reservations : status'[q] = IF q = r THEN st ELSE Expired(q)
    BY DEF AfterExpiry
<1>3. status' \in [Reservations -> Phase]
    BY <1>1 DEF AfterExpiry
<1> QED
    BY <1>1, <1>2, <1>3 DEF OthersQuiet, AllQuiet

\* A new owner moves everything quietly.
LEMMA StartQuiet ==
    ASSUME ProgressOK, NEW i \in Instances, NEW ok \in BOOLEAN, Start(i, ok)
    PROVE  AllQuiet
<1>1. status' = [r \in Reservations |-> TakenOver(r)]
    BY DEF Start
<1>2. \A r \in Reservations : TakenOver(r) \in Phase /\ Quiet(r, TakenOver(r))
    BY DEF ProgressOK, TakenOver, Quiet, Phase, Booked, Live, Previews
<1> QED
    BY <1>1, <1>2 DEF AllQuiet

\* A fence moves everything quietly, from phases that already did.
LEMMA FenceQuiet ==
    ASSUME ProgressOK, NEW f, NEW st \in [Reservations -> Phase], NEW realm,
           \A r \in Reservations : Quiet(r, st[r]),
           \A r \in Reservations : st[r] = "forwarding" => status[r] = "forwarding",
           FenceState(f, st, realm)
    PROVE  AllQuiet
<1> DEFINE to(r) == IF r \notin Affected(f) THEN st[r]
                    ELSE IF st[r] = "reserved" THEN "canceled"
                    ELSE IF st[r] = "forwarding" THEN "uncertain" ELSE st[r]
<1>1. status' = [r \in Reservations |-> to(r)]
    BY Zenon DEF FenceState
<1>2. ASSUME NEW r \in Reservations PROVE to(r) \in Phase /\ Quiet(r, to(r))
    <2>1. st[r] \in Phase /\ Quiet(r, st[r])
        OBVIOUS
    <2>2. st[r] = "reserved" => status[r] = "reserved"
        BY <2>1 DEF Quiet
    <2>3. st[r] = "forwarding" => status[r] = "forwarding"
        OBVIOUS
    <2> QED
        BY <2>1, <2>2, <2>3 DEF Quiet, Phase, Booked, Live
<1> HIDE DEF to
<1> QED
    BY <1>1, <1>2 DEF AllQuiet

\* The steps that move a reservation in another way.
Booking(r) == \E i \in Instances, ok \in BOOLEAN :
    Evaluate(i, r, ok) \/ Commit(i, r, ok) \/ \E ack \in BOOLEAN : Reserve(i, r, ok, ack)

\* Every other step moves all reservations quietly.
LEMMA QuietStep ==
    ProgressOK /\ [Next]_vars => AllQuiet \/ \E r \in Reservations : Booking(r)
<1> SUFFICES ASSUME ProgressOK, [Next]_vars, \A r \in Reservations : ~Booking(r)
             PROVE  AllQuiet
    OBVIOUS
<1> USE CoordinatorConstants
<1>0. ASSUME status' = status PROVE AllQuiet
    BY <1>0 DEF AllQuiet, Quiet, ProgressOK
<1>1. ASSUME NEW r \in Reservations, NEW st \in Phase, Quiet(r, st),
             status' = [AfterExpiry EXCEPT ![r] = st]
      PROVE  AllQuiet
    BY <1>1, ExpiryExcept
<1>2. CASE Tick \/ UNCHANGED vars
    BY <1>0, <1>2 DEF Tick, vars
<1>3. ASSUME NEW f \in FenceRequests, NEW ok \in BOOLEAN, RecordFence(f, ok)
      PROVE  AllQuiet
    <2>1. status \in [Reservations -> Phase] /\ \A r \in Reservations : Quiet(r, status[r])
        BY DEF ProgressOK, Quiet
    <2>2. FenceState(f, status, ok /\ f.kind = "swarm")
        BY <1>3 DEF RecordFence
    <2> QED
        BY <2>1, <2>2, FenceQuiet
<1>4. ASSUME NEW r \in Reservations, NEW result \in Results,
             Effect(r, result) \/ NoEffect(r, result)
      PROVE  AllQuiet
    BY <1>0, <1>4 DEF Effect, NoEffect
<1>5. ASSUME NEW i \in Instances, Housekeep(i) \/ CheckRecovery(i)
      PROVE  AllQuiet
    BY <1>5, ExpiryStep DEF Housekeep, CheckRecovery
<1>6. ASSUME NEW i \in Instances, NEW r \in Reservations, Deny(i, r) \/ GoOffline(i, r)
      PROVE  AllQuiet
    BY <1>0, <1>6, ExpiryStep DEF Deny, GoOffline
<1>7. ASSUME NEW i \in Instances, NEW r \in Reservations, NEW b \in Buckets,
             NEW S \in SUBSET Buckets, RefuseBudget(i, r, b, S)
      PROVE  AllQuiet
    BY <1>7, ExpiryStep DEF RefuseBudget
<1>8. ASSUME NEW i \in Instances, NEW ok \in BOOLEAN,
             Start(i, ok) \/ Heartbeat(i, ok) \/ ReconcileFence(i, ok)
      PROVE  AllQuiet
    <2>1. CASE Start(i, ok)
        BY <2>1, StartQuiet
    <2>2. CASE Heartbeat(i, ok)
        BY <2>2, ExpiryStep DEF Heartbeat
    <2>3. CASE ReconcileFence(i, ok)
        BY <2>3, ExpiryStep DEF ReconcileFence
    <2> QED
        BY <1>8, <2>1, <2>2, <2>3
<1>9. ASSUME NEW i \in Instances, NEW ok \in BOOLEAN, NEW s \in Subjects,
             Admit(i, s, ok) \/ RevokeLease(i, s, ok)
      PROVE  AllQuiet
    <2>1. CASE Admit(i, s, ok)
        BY <2>1, ExpiryStep DEF Admit
    <2>2. CASE RevokeLease(i, s, ok)
        <3>1. \A r \in Reservations : Expired(r) \in Phase /\ Quiet(r, Expired(r))
            BY ExpiryQuiet
        <3>2. AfterExpiry \in [Reservations -> Phase]
              /\ \A r \in Reservations : Quiet(r, AfterExpiry[r])
            BY <3>1 DEF AfterExpiry
        <3>3. \A r \in Reservations : AfterExpiry[r] = "forwarding" => status[r] = "forwarding"
            BY DEF AfterExpiry, Expired
        <3>4. FenceState([kind |-> "agent", subject |-> s, action |-> None], AfterExpiry, FALSE)
            BY <2>2 DEF RevokeLease
        <3> QED
            BY <3>2, <3>3, <3>4, FenceQuiet
    <2> QED
        BY <1>9, <2>1, <2>2
<1>10. ASSUME NEW i \in Instances, NEW ok \in BOOLEAN, NEW g \in Grants, BindGrant(i, g, ok)
       PROVE  AllQuiet
    BY <1>10, ExpiryStep DEF BindGrant
<1>11. ASSUME NEW i \in Instances, NEW ok \in BOOLEAN, NEW r \in Reservations,
              \/ Cancel(i, r, ok) \/ Uncertain(i, r, ok) \/ RecordOutcome(i, r, ok)
       PROVE  AllQuiet
    <2>2. CASE Cancel(i, r, ok)
        <3>1. "canceled" \in Phase /\ Quiet(r, "canceled")
              /\ status' = [AfterExpiry EXCEPT ![r] = "canceled"]
            BY <2>2, ExpiryQuiet DEF Cancel, Quiet, Phase, Booked
        <3> QED
            BY <3>1, <1>1
    <2>3. CASE Uncertain(i, r, ok)
        <3>1. "uncertain" \in Phase /\ Quiet(r, "uncertain")
              /\ status' = [AfterExpiry EXCEPT ![r] = "uncertain"]
            BY <2>3 DEF Uncertain, Quiet, Phase, Booked, Live
        <3> QED
            BY <3>1, <1>1
    <2>4. CASE RecordOutcome(i, r, ok)
        BY <1>0, <2>4 DEF RecordOutcome
    <2> QED
        BY <1>11, <2>2, <2>3, <2>4
<1>12. ASSUME NEW i \in Instances, NEW ok \in BOOLEAN, NEW r \in Reservations,
              NEW ack \in BOOLEAN, BeginForward(i, r, ok, ack)
       PROVE  AllQuiet
    <2>1. "forwarding" \in Phase /\ Quiet(r, "forwarding")
          /\ status' = [AfterExpiry EXCEPT ![r] = "forwarding"]
        BY <1>12, ExpiryQuiet DEF BeginForward, Quiet, Phase, Booked, Live
    <2> QED
        BY <2>1, <1>1
<1> QED
    BY <1>2, <1>3, <1>4, <1>5, <1>6, <1>7, <1>8, <1>9, <1>10, <1>11, <1>12
       DEF Next, Booking

\* What the three other steps do to the reservation they are about.
LEMMA BookingStep ==
    ASSUME ProgressOK, NEW r \in Reservations, Booking(r)
    PROVE  /\ OthersQuiet(r)
           /\ \/ status[r] = "none" /\ status'[r] = "previewed"
              \/ status[r] = "previewed" /\ status'[r] = "reserved"
              \/ status[r] \in {"forwarding", "uncertain"} /\ status'[r] = "committed"
<1> PICK i \in Instances, ok \in BOOLEAN :
        Evaluate(i, r, ok) \/ Commit(i, r, ok) \/ \E ack \in BOOLEAN : Reserve(i, r, ok, ack)
    BY DEF Booking
<1>1. CASE Evaluate(i, r, ok)
    <2>1. "previewed" \in Phase /\ status[r] = "none"
          /\ status' = [AfterExpiry EXCEPT ![r] = "previewed"]
        BY <1>1 DEF Evaluate, Phase, Previews
    <2> QED
        BY <2>1, ExpiryExcept
<1>2. CASE Commit(i, r, ok)
    <2>1. "committed" \in Phase /\ status[r] \in {"forwarding", "uncertain"}
          /\ status' = [AfterExpiry EXCEPT ![r] = "committed"]
        BY <1>2 DEF Commit, Phase, Booked
    <2> QED
        BY <2>1, ExpiryExcept
<1>3. CASE \E ack \in BOOLEAN : Reserve(i, r, ok, ack)
    <2>1. "reserved" \in Phase /\ status[r] = "previewed"
          /\ status' = [AfterExpiry EXCEPT ![r] = "reserved"]
        BY <1>3 DEF Reserve, Reservable, Phase, Booked, Live
    <2> QED
        BY <2>1, ExpiryExcept
<1> QED
    BY <1>1, <1>2, <1>3

\* A dispatch begins only where a reservation is consumed, and runs at most once.
DispatchMove(r) ==
    /\ dispatch'[r] = "begun" /\ dispatch[r] # "begun"
          => status[r] = "reserved" /\ status'[r] = "forwarding"
    /\ \/ effects'[r] = effects[r]
       \/ /\ dispatch[r] = "begun" /\ dispatch'[r] # "begun"
          /\ effects'[r] = effects[r] + 1

LEMMA DispatchStep ==
    ProgressOK /\ [Next]_vars =>
        /\ dispatch' \in [Reservations -> Results \cup {"idle", "begun"}]
        /\ effects' \in [Reservations -> Nat]
        /\ \A r \in Reservations : DispatchMove(r)
<1> SUFFICES ASSUME ProgressOK, [Next]_vars
             PROVE  /\ dispatch' \in [Reservations -> Results \cup {"idle", "begun"}]
                    /\ effects' \in [Reservations -> Nat]
                    /\ \A r \in Reservations : DispatchMove(r)
    OBVIOUS
<1>1. CASE UNCHANGED <<dispatch, effects>>
    BY <1>1 DEF ProgressOK, DispatchMove
<1>2. ASSUME NEW q \in Reservations, NEW result \in Results, Effect(q, result)
      PROVE  /\ dispatch' \in [Reservations -> Results \cup {"idle", "begun"}]
             /\ effects' \in [Reservations -> Nat]
             /\ \A r \in Reservations : DispatchMove(r)
    BY <1>2 DEF ProgressOK, DispatchMove, Effect, Results
<1>3. ASSUME NEW q \in Reservations, NEW result \in Results, NoEffect(q, result)
      PROVE  /\ dispatch' \in [Reservations -> Results \cup {"idle", "begun"}]
             /\ effects' \in [Reservations -> Nat]
             /\ \A r \in Reservations : DispatchMove(r)
    BY <1>3 DEF ProgressOK, DispatchMove, NoEffect, Results
<1>4. ASSUME NEW i \in Instances, NEW q \in Reservations, NEW ok \in BOOLEAN,
             NEW ack \in BOOLEAN, BeginForward(i, q, ok, ack)
      PROVE  /\ dispatch' \in [Reservations -> Results \cup {"idle", "begun"}]
             /\ effects' \in [Reservations -> Nat]
             /\ \A r \in Reservations : DispatchMove(r)
    <2>1. status[q] = "reserved" /\ status'[q] = "forwarding"
        BY <1>4, ExpiryQuiet DEF BeginForward, AfterExpiry
    <2>2. effects' = effects
          /\ dispatch' = IF ack THEN [dispatch EXCEPT ![q] = "begun"] ELSE dispatch
        BY <1>4 DEF BeginForward
    <2> QED
        BY <2>1, <2>2 DEF ProgressOK, DispatchMove
<1>5. CASE Tick \/ UNCHANGED vars \/ \E f \in FenceRequests, ok \in BOOLEAN : RecordFence(f, ok)
    BY <1>1, <1>5 DEF Tick, vars, RecordFence, memory
<1>6. ASSUME NEW i \in Instances, Housekeep(i) \/ CheckRecovery(i)
      PROVE  UNCHANGED <<dispatch, effects>>
    BY <1>6 DEF Housekeep, CheckRecovery, memory
<1>7. ASSUME NEW i \in Instances, NEW r \in Reservations, Deny(i, r) \/ GoOffline(i, r)
      PROVE  UNCHANGED <<dispatch, effects>>
    BY <1>7 DEF Deny, GoOffline, memory
<1>8. ASSUME NEW i \in Instances, NEW r \in Reservations, NEW b \in Buckets,
             NEW S \in SUBSET Buckets, RefuseBudget(i, r, b, S)
      PROVE  UNCHANGED <<dispatch, effects>>
    BY <1>8 DEF RefuseBudget, memory
<1>9. ASSUME NEW i \in Instances, NEW ok \in BOOLEAN,
             Start(i, ok) \/ Heartbeat(i, ok) \/ ReconcileFence(i, ok)
      PROVE  UNCHANGED <<dispatch, effects>>
    BY <1>9 DEF Start, Heartbeat, ReconcileFence, memory
<1>10. ASSUME NEW i \in Instances, NEW ok \in BOOLEAN, NEW s \in Subjects,
              Admit(i, s, ok) \/ RevokeLease(i, s, ok)
       PROVE  UNCHANGED <<dispatch, effects>>
    BY <1>10 DEF Admit, RevokeLease, memory
<1>11. ASSUME NEW i \in Instances, NEW ok \in BOOLEAN, NEW g \in Grants, BindGrant(i, g, ok)
       PROVE  UNCHANGED <<dispatch, effects>>
    BY <1>11 DEF BindGrant, memory
<1>12. ASSUME NEW i \in Instances, NEW ok \in BOOLEAN, NEW r \in Reservations,
              \/ Evaluate(i, r, ok) \/ Cancel(i, r, ok) \/ Commit(i, r, ok)
              \/ Uncertain(i, r, ok) \/ RecordOutcome(i, r, ok)
              \/ \E ack \in BOOLEAN : Reserve(i, r, ok, ack)
       PROVE  UNCHANGED <<dispatch, effects>>
    BY <1>12 DEF Evaluate, Cancel, Commit, Uncertain, RecordOutcome, Reserve, memory
<1> QED
    BY <1>1, <1>2, <1>3, <1>4, <1>5, <1>6, <1>7, <1>8, <1>9, <1>10, <1>11, <1>12 DEF Next
-----------------------------------------------------------------------------
(* One-shot effects.                                                       *)

LEMMA ProgressStep == ProgressOK /\ [Next]_vars => ProgressOK'
<1> SUFFICES ASSUME ProgressOK, [Next]_vars PROVE ProgressOK'
    OBVIOUS
<1>1. status' \in [Reservations -> Phase]
    BY QuietStep, BookingStep DEF AllQuiet, OthersQuiet
<1> QED
    BY <1>1, DispatchStep DEF ProgressOK

LEMMA Progress == Spec => []ProgressOK
<1>1. Init => ProgressOK
    BY DEF Init, ProgressOK, Phase, Previews
<1> QED
    BY <1>1, ProgressStep, PTL DEF Spec

\* A quiet move, an evaluation, a reservation and a commit are moves of the
\* abstract accounting.
LEMMA AccountingMove ==
    ASSUME ProgressOK, [Next]_vars, NEW r \in Reservations
    PROVE  \/ PhaseOf(status'[r]) = PhaseOf(status[r])
           \/ PhaseOf(status[r]) = "free" /\ PhaseOf(status'[r]) = "held"
           \/ PhaseOf(status[r]) = "held" /\ PhaseOf(status'[r]) \in {"refunded", "licensed"}
           \/ PhaseOf(status[r]) = "licensed" /\ PhaseOf(status'[r]) = "charged"
<1>1. ASSUME Quiet(r, status'[r])
      PROVE  \/ PhaseOf(status'[r]) = PhaseOf(status[r])
             \/ PhaseOf(status[r]) = "held" /\ PhaseOf(status'[r]) \in {"refunded", "licensed"}
    BY <1>1 DEF Quiet, PhaseOf, Previews
<1>2. CASE Booking(r)
    BY <1>2, BookingStep DEF PhaseOf, Previews
<1>3. CASE AllQuiet
    BY <1>1, <1>3 DEF AllQuiet
<1>4. ASSUME NEW q \in Reservations, Booking(q), q # r PROVE Quiet(r, status'[r])
    BY <1>4, BookingStep DEF OthersQuiet
<1> QED
    BY <1>1, <1>2, <1>3, <1>4, QuietStep

\* The coordinators implement EffectLicense for every number of objects,
\* workloads, reservations, buckets and fences: no interleaving of takeovers,
\* fences, expiries and lost acknowledgements runs an action twice, runs it
\* without a durable license, or refunds what was licensed.
THEOREM EffectsAreOneShot == Spec => OneShotEffects
<1>1. Init => License!Init
    BY DEF Init, License!Init, PhaseOf, Previews
<1>2. ProgressOK /\ [Next]_vars => [License!Next]_(License!licenseVars)
    <2> SUFFICES ASSUME ProgressOK, [Next]_vars PROVE License!Next
        OBVIOUS
    <2> SUFFICES ASSUME NEW r \in Reservations
                 PROVE  License!Moves(r) /\ License!Licenses(r) /\ License!Runs(r)
        BY DEF License!Next
    <2>1. License!Moves(r)
        BY AccountingMove DEF License!Moves
    <2>2. DispatchMove(r)
        BY DispatchStep
    <2>3. License!Licenses(r)
        BY <2>2 DEF DispatchMove, License!Licenses, PhaseOf, Previews
    <2>4. License!Runs(r)
        BY <2>2 DEF DispatchMove, License!Runs
    <2> QED
        BY <2>1, <2>3, <2>4
<1> QED
    BY <1>1, <1>2, Progress, PTL DEF Spec, OneShotEffects, License!Spec
-----------------------------------------------------------------------------
(* Budgets.                                                                *)

LiveSet == {r \in Reservations : status[r] \in Live}

\* The counters and the stored maxima are integers; Conservation says which.
CountersOK ==
    /\ held \in [Buckets -> Int]
    /\ consumed \in [Buckets -> Int]
    /\ maximum \in [Buckets -> Nat \cup {-1}]

\* Taking a part F away from S takes its units away.
LEMMA SumWithout ==
    ASSUME NEW S \in SUBSET Reservations, NEW F \in SUBSET S, NEW b \in Buckets
    PROVE  /\ UnitSum(Amount(b), S, MaxUnits) \in Nat
           /\ UnitSum(Amount(b), F, MaxUnits) \in Nat
           /\ UnitSum(Amount(b), S \ F, MaxUnits) \in Nat
           /\ UnitSum(Amount(b), S \ F, MaxUnits)
                = UnitSum(Amount(b), S, MaxUnits) - UnitSum(Amount(b), F, MaxUnits)
<1> USE CoordinatorConstants
<1>1. IsFiniteSet(S) /\ IsFiniteSet(F) /\ IsFiniteSet(S \ F)
    BY FS_Subset
<1>2. UnitSum(Amount(b), S, MaxUnits) \in Nat /\ UnitSum(Amount(b), F, MaxUnits) \in Nat
      /\ UnitSum(Amount(b), S \ F, MaxUnits) \in Nat
    BY <1>1, UnitSumType
<1>3. S = F \cup (S \ F) /\ F \cap (S \ F) = {}
    OBVIOUS
<1>4. UnitSum(Amount(b), F \cup (S \ F), MaxUnits)
        = UnitSum(Amount(b), F, MaxUnits) + UnitSum(Amount(b), S \ F, MaxUnits)
    BY <1>1, <1>3, UnitSumDisjoint
<1>5. UnitSum(Amount(b), S, MaxUnits) = UnitSum(Amount(b), F \cup (S \ F), MaxUnits)
    BY <1>3, Zenon
<1> QED
    BY <1>2, <1>4, <1>5

\* One reservation more is its cost more.
LEMMA SumWith ==
    ASSUME NEW S \in SUBSET Reservations, NEW r \in Reservations \ S, NEW b \in Buckets
    PROVE  /\ Cost[r][b] \in Nat
           /\ UnitSum(Amount(b), S, MaxUnits) \in Nat
           /\ UnitSum(Amount(b), S \cup {r}, MaxUnits)
                = UnitSum(Amount(b), S, MaxUnits) + Cost[r][b]
<1> USE CoordinatorConstants
<1>1. Cost[r][b] \in 0..MaxUnits /\ Amount(b)[r] = Cost[r][b]
    BY DEF Amount
<1>2. S \cap {r} = {} /\ IsFiniteSet({r}) /\ IsFiniteSet(S)
    BY FS_Subset, FS_Singleton
<1>3. UnitSum(Amount(b), S \cup {r}, MaxUnits)
        = UnitSum(Amount(b), S, MaxUnits) + UnitSum(Amount(b), {r}, MaxUnits)
    BY <1>2, UnitSumDisjoint
<1>4. Amount(b)[r] \in 0..MaxUnits
    BY <1>1
<1>5. UnitSum(Amount(b), {r}, MaxUnits) = Amount(b)[r]
    BY <1>4, UnitSumSingle
<1>6. UnitSum(Amount(b), S, MaxUnits) \in Nat
    BY <1>2, UnitSumType
<1> QED
    BY <1>1, <1>3, <1>5, <1>6

\* Which reservations are live and which committed after a step.
LEMMA LiveAfter ==
    ASSUME ProgressOK, [Next]_vars
    PROVE  /\ Freed(status') \in SUBSET LiveSet
           /\ AllQuiet => LiveSet' = LiveSet \ Freed(status') /\ Committed' = Committed
           /\ \A r \in Reservations : Booking(r) =>
                /\ status[r] = "none" =>
                     LiveSet' = LiveSet \ Freed(status') /\ Committed' = Committed
                /\ status[r] = "previewed" =>
                     /\ r \notin LiveSet
                     /\ LiveSet' = (LiveSet \ Freed(status')) \cup {r}
                     /\ Committed' = Committed
                /\ status[r] \in {"forwarding", "uncertain"} =>
                     /\ r \notin LiveSet' /\ r \notin Committed
                     /\ LiveSet \ Freed(status') = LiveSet' \cup {r}
                     /\ Committed' = Committed \cup {r}
<1>1. Freed(status') \in SUBSET LiveSet
    BY DEF Freed, LiveSet, Live
<1>2. ASSUME NEW q \in Reservations, Quiet(q, status'[q])
      PROVE  /\ q \in LiveSet' <=> q \in LiveSet \ Freed(status')
             /\ q \in Committed' <=> q \in Committed
    BY <1>2 DEF Quiet, LiveSet, Live, Freed, Committed
<1>3. LiveSet \in SUBSET Reservations /\ LiveSet' \in SUBSET Reservations
      /\ Committed \in SUBSET Reservations /\ Committed' \in SUBSET Reservations
    BY DEF LiveSet, Committed
<1>4. AllQuiet => LiveSet' = LiveSet \ Freed(status') /\ Committed' = Committed
    BY <1>2, <1>3 DEF AllQuiet
<1>5. ASSUME NEW r \in Reservations, Booking(r)
      PROVE  /\ status[r] = "none" =>
                  LiveSet' = LiveSet \ Freed(status') /\ Committed' = Committed
             /\ status[r] = "previewed" =>
                  /\ r \notin LiveSet
                  /\ LiveSet' = (LiveSet \ Freed(status')) \cup {r}
                  /\ Committed' = Committed
             /\ status[r] \in {"forwarding", "uncertain"} =>
                  /\ r \notin LiveSet' /\ r \notin Committed
                  /\ LiveSet \ Freed(status') = LiveSet' \cup {r}
                  /\ Committed' = Committed \cup {r}
    <2>1. \A q \in Reservations \ {r} :
             /\ q \in LiveSet' <=> q \in LiveSet \ Freed(status')
             /\ q \in Committed' <=> q \in Committed
        BY <1>2, <1>5, BookingStep DEF OthersQuiet
    <2>2. r \in LiveSet <=> status[r] \in Live
        BY DEF LiveSet
    <2>3. r \in LiveSet' <=> status'[r] \in Live
        BY DEF LiveSet
    <2>4. r \in Freed(status') <=> status[r] = "reserved" /\ status'[r] \in {"canceled", "expired"}
        BY DEF Freed
    <2>5. (r \in Committed <=> status[r] = "committed")
          /\ (r \in Committed' <=> status'[r] = "committed")
        BY DEF Committed
    <2>6. CASE status[r] = "none" /\ status'[r] = "previewed"
        BY <1>3, <2>1, <2>2, <2>3, <2>4, <2>5, <2>6 DEF Live
    <2>7. CASE status[r] = "previewed" /\ status'[r] = "reserved"
        BY <1>1, <1>3, <2>1, <2>2, <2>3, <2>4, <2>5, <2>7 DEF Live
    <2>8. CASE status[r] \in {"forwarding", "uncertain"} /\ status'[r] = "committed"
        BY <1>1, <1>3, <2>1, <2>2, <2>3, <2>4, <2>5, <2>8 DEF Live
    <2> QED
        BY <1>5, <2>6, <2>7, <2>8, BookingStep
<1> QED
    BY <1>1, <1>4, <1>5

\* The steps that change a counter other than by returning what was freed.
Spending(r) == \E i \in Instances, ok \in BOOLEAN :
    Commit(i, r, ok) \/ \E ack \in BOOLEAN : Reserve(i, r, ok, ack)

LEMMA NothingFreed ==
    ASSUME CountersOK, status' = status, held' = held
    PROVE  held' = Returned(status')
<1>1. Freed(status') = {}
    BY DEF Freed
<1>2. ASSUME NEW b \in Buckets PROVE UnitSum(Amount(b), Freed(status'), MaxUnits) = 0
    BY <1>1, UnitSumEmpty
<1> QED
    BY <1>2 DEF CountersOK, Returned

\* The denials, which may create or narrow the row of a bucket.
Pricing == \E i \in Instances, r \in Reservations :
    Deny(i, r) \/ \E b \in Buckets, S \in SUBSET Buckets : RefuseBudget(i, r, b, S)

Plain ==
    /\ held' = Returned(status')
    /\ consumed' = consumed
    /\ maximum' = maximum \/ Pricing

LEMMA PlainStep ==
    ASSUME CountersOK, [Next]_vars, \A r \in Reservations : ~Spending(r)
    PROVE  Plain
<1>2. CASE Tick \/ UNCHANGED vars
    BY <1>2, NothingFreed DEF Plain, Tick, vars, budget
<1>3. ASSUME NEW f \in FenceRequests, NEW ok \in BOOLEAN, RecordFence(f, ok)
      PROVE  Plain
    BY <1>3 DEF Plain, RecordFence, FenceState
<1>4. ASSUME NEW r \in Reservations, NEW result \in Results,
             Effect(r, result) \/ NoEffect(r, result)
      PROVE  Plain
    BY <1>4, NothingFreed DEF Plain, Effect, NoEffect, budget
<1>5. ASSUME NEW i \in Instances, Housekeep(i) \/ CheckRecovery(i)
      PROVE  Plain
    BY <1>5 DEF Plain, Housekeep, CheckRecovery
<1>6. ASSUME NEW i \in Instances, NEW r \in Reservations, GoOffline(i, r)
      PROVE  Plain
    BY <1>6, NothingFreed DEF Plain, GoOffline, budget
<1>7. ASSUME NEW i \in Instances, NEW r \in Reservations,
             \/ Deny(i, r)
             \/ \E b \in Buckets, S \in SUBSET Buckets : RefuseBudget(i, r, b, S)
      PROVE  Plain
    <2>1. held' = Returned(status') /\ consumed' = consumed
        BY <1>7 DEF Deny, RefuseBudget
    <2> QED
        BY <1>7, <2>1 DEF Plain, Pricing
<1>8. ASSUME NEW i \in Instances, NEW ok \in BOOLEAN,
             Start(i, ok) \/ Heartbeat(i, ok) \/ ReconcileFence(i, ok)
      PROVE  Plain
    BY <1>8 DEF Plain, Start, Heartbeat, ReconcileFence
<1>9. ASSUME NEW i \in Instances, NEW ok \in BOOLEAN, NEW s \in Subjects,
             Admit(i, s, ok) \/ RevokeLease(i, s, ok)
      PROVE  Plain
    BY <1>9 DEF Plain, Admit, RevokeLease, FenceState
<1>10. ASSUME NEW i \in Instances, NEW ok \in BOOLEAN, NEW g \in Grants, BindGrant(i, g, ok)
       PROVE  Plain
    BY <1>10 DEF Plain, BindGrant
<1>11. ASSUME NEW i \in Instances, NEW ok \in BOOLEAN, NEW r \in Reservations,
              \/ Evaluate(i, r, ok) \/ Cancel(i, r, ok) \/ Uncertain(i, r, ok)
              \/ \E ack \in BOOLEAN : BeginForward(i, r, ok, ack)
       PROVE  Plain
    BY <1>11 DEF Plain, Evaluate, Cancel, Uncertain, BeginForward
<1>12. ASSUME NEW i \in Instances, NEW ok \in BOOLEAN, NEW r \in Reservations,
              RecordOutcome(i, r, ok)
       PROVE  Plain
    BY <1>12, NothingFreed DEF Plain, RecordOutcome, budget
<1> QED
    BY <1>2, <1>3, <1>4, <1>5, <1>6, <1>7, <1>8, <1>9, <1>10, <1>11, <1>12
       DEF Next, Spending

\* The units held by what is live and not freed in this step.
LEMMA ReturnedIsKept ==
    ASSUME ProgressOK, Conservation, [Next]_vars, NEW b \in Buckets
    PROVE  /\ Returned(status')[b] = UnitSum(Amount(b), LiveSet \ Freed(status'), MaxUnits)
           /\ Returned(status')[b] \in Nat
           /\ Returned(status')[b] <= held[b]
<1>1. LiveSet \in SUBSET Reservations /\ Freed(status') \in SUBSET LiveSet
    BY LiveAfter DEF LiveSet
<1>2. held[b] = UnitSum(Amount(b), LiveSet, MaxUnits)
    BY DEF Conservation, LiveSet
<1>3. Returned(status')[b] = held[b] - UnitSum(Amount(b), Freed(status'), MaxUnits)
    BY DEF Returned
<1> QED
    BY <1>1, <1>2, <1>3, SumWithout

\* The ledger after a step: the live reservations and the committed ones.
LedgerOK(b) ==
    /\ held[b] = UnitSum(Amount(b), LiveSet, MaxUnits)
    /\ consumed[b] = IF b \in Transient THEN 0 ELSE UnitSum(Amount(b), Committed, MaxUnits)

LEMMA PlainLedger ==
    ASSUME ProgressOK, CountersOK, Conservation, [Next]_vars,
           \A r \in Reservations : ~Spending(r), NEW b \in Buckets
    PROVE  LedgerOK(b)'
<1>1. held' = Returned(status') /\ consumed' = consumed
    BY PlainStep DEF Plain
<1>2. LiveSet' = LiveSet \ Freed(status') /\ Committed' = Committed
    <2>1. ASSUME NEW r \in Reservations, Booking(r) PROVE status[r] = "none"
        BY <2>1 DEF Booking, Spending, Evaluate
    <2> QED
        BY <2>1, LiveAfter, QuietStep
<1>3. consumed[b] = IF b \in Transient THEN 0 ELSE UnitSum(Amount(b), Committed, MaxUnits)
    BY DEF Conservation
<1> QED
    BY <1>1, <1>2, <1>3, ReturnedIsKept DEF LedgerOK

LEMMA ReserveLedger ==
    ASSUME ProgressOK, CountersOK, Conservation, [Next]_vars,
           NEW i \in Instances, NEW r \in Reservations, NEW ok \in BOOLEAN, NEW ack \in BOOLEAN,
           Reserve(i, r, ok, ack), NEW b \in Buckets
    PROVE  LedgerOK(b)'
<1> DEFINE kept == LiveSet \ Freed(status')
<1>1. held'[b] = Returned(status')[b] + Cost[r][b] /\ consumed' = consumed
    BY DEF Reserve
<1>2. r \notin LiveSet /\ LiveSet' = kept \cup {r} /\ Committed' = Committed
    <2>1. Booking(r) /\ status[r] = "previewed"
        BY DEF Booking, Reserve, Reservable
    <2> QED
        BY <2>1, LiveAfter
<1>3. consumed[b] = IF b \in Transient THEN 0 ELSE UnitSum(Amount(b), Committed, MaxUnits)
    BY DEF Conservation
<1>4. kept \in SUBSET Reservations /\ r \in Reservations \ kept
    BY <1>2 DEF LiveSet
<1>5. Returned(status')[b] = UnitSum(Amount(b), kept, MaxUnits)
    BY ReturnedIsKept
<1> HIDE DEF kept
<1>6. UnitSum(Amount(b), kept \cup {r}, MaxUnits)
        = UnitSum(Amount(b), kept, MaxUnits) + Cost[r][b]
    BY <1>4, SumWith
<1> QED
    BY <1>1, <1>2, <1>3, <1>5, <1>6 DEF LedgerOK

LEMMA CommitLedger ==
    ASSUME ProgressOK, CountersOK, Conservation, [Next]_vars,
           NEW i \in Instances, NEW r \in Reservations, NEW ok \in BOOLEAN,
           Commit(i, r, ok), NEW b \in Buckets
    PROVE  LedgerOK(b)'
<1> DEFINE kept == LiveSet \ Freed(status')
<1>1. /\ held'[b] = Returned(status')[b] - Cost[r][b]
      /\ consumed'[b] = consumed[b] + (IF b \in Transient THEN 0 ELSE Cost[r][b])
    BY DEF Commit
<1>2. r \notin LiveSet' /\ kept = LiveSet' \cup {r}
      /\ r \notin Committed /\ Committed' = Committed \cup {r}
    <2>1. Booking(r) /\ status[r] \in {"forwarding", "uncertain"}
        BY DEF Booking, Commit
    <2> QED
        BY <2>1, LiveAfter
<1>3. consumed[b] = IF b \in Transient THEN 0 ELSE UnitSum(Amount(b), Committed, MaxUnits)
    BY DEF Conservation
<1>4. LiveSet' \in SUBSET Reservations /\ r \in Reservations \ LiveSet'
      /\ Committed \in SUBSET Reservations /\ r \in Reservations \ Committed
    BY <1>2 DEF LiveSet, Committed
<1>5. Returned(status')[b] = UnitSum(Amount(b), kept, MaxUnits)
    BY ReturnedIsKept
<1> HIDE DEF kept
<1>6. /\ UnitSum(Amount(b), kept, MaxUnits)
            = UnitSum(Amount(b), LiveSet', MaxUnits) + Cost[r][b]
      /\ UnitSum(Amount(b), LiveSet', MaxUnits) \in Nat /\ Cost[r][b] \in Nat
    BY <1>2, <1>4, SumWith
<1>7. /\ UnitSum(Amount(b), Committed', MaxUnits)
            = UnitSum(Amount(b), Committed, MaxUnits) + Cost[r][b]
      /\ UnitSum(Amount(b), Committed, MaxUnits) \in Nat
    BY <1>2, <1>4, SumWith
<1>8. held'[b] = UnitSum(Amount(b), LiveSet', MaxUnits)
    BY <1>1, <1>5, <1>6
<1>9. consumed'[b] = IF b \in Transient THEN 0 ELSE UnitSum(Amount(b), Committed', MaxUnits)
    BY <1>1, <1>3, <1>7
<1> QED
    BY <1>8, <1>9 DEF LedgerOK

\* Ledger is inductive: the books balance, over rows and phases of the right type.
Ledger == ProgressOK /\ CountersOK /\ Conservation

LEMMA NarrowedType ==
    ASSUME CountersOK, NEW i \in Instances, NEW b \in Buckets
    PROVE  /\ Limit[i][b] \in Nat /\ Narrowed(i, b) \in Nat
           /\ Narrowed(i, b) = Limit[i][b] \/ Narrowed(i, b) = maximum[b]
BY CoordinatorConstants DEF CountersOK, Narrowed, Least

LEMMA MaximumType ==
    ASSUME CountersOK, [Next]_vars
    PROVE  maximum' \in [Buckets -> Nat \cup {-1}]
<1>1. ASSUME NEW i \in Instances, NEW r \in Reservations,
             maximum' = [b \in Buckets |-> IF b \in Scope[r] THEN Narrowed(i, b) ELSE maximum[b]]
      PROVE  maximum' \in [Buckets -> Nat \cup {-1}]
    BY <1>1, NarrowedType DEF CountersOK
<1>2. ASSUME NEW i \in Instances, NEW r \in Reservations, NEW b \in Buckets,
             NEW S \in SUBSET Buckets, RefuseBudget(i, r, b, S)
      PROVE  maximum' \in [Buckets -> Nat \cup {-1}]
    BY <1>2, NarrowedType DEF CountersOK, RefuseBudget
<1>3. CASE \E r \in Reservations : Spending(r)
    <2>1. PICK r \in Reservations : Spending(r)
        BY <1>3
    <2>2. PICK i \in Instances, ok \in BOOLEAN :
            Commit(i, r, ok) \/ \E ack \in BOOLEAN : Reserve(i, r, ok, ack)
        BY <2>1 DEF Spending
    <2>3. CASE Commit(i, r, ok)
        BY <2>3 DEF Commit, CountersOK
    <2>4. CASE \E ack \in BOOLEAN : Reserve(i, r, ok, ack)
        BY <1>1, <2>4 DEF Reserve
    <2> QED
        BY <2>2, <2>3, <2>4
<1>4. CASE Pricing
    BY <1>1, <1>2, <1>4 DEF Pricing, Deny
<1> QED
    BY <1>3, <1>4, PlainStep DEF Plain, CountersOK

LEMMA LedgerStep == Ledger /\ [Next]_vars => Ledger'
<1> SUFFICES ASSUME Ledger, [Next]_vars PROVE Ledger'
    OBVIOUS
<1> USE DEF Ledger
<1>1. \A b \in Buckets : LedgerOK(b)'
    BY PlainLedger, ReserveLedger, CommitLedger DEF Spending
<1>2. Conservation'
    BY <1>1 DEF LedgerOK, LiveSet, Conservation
<1>3. \A b \in Buckets : held'[b] \in Int /\ consumed'[b] \in Int
    <2> SUFFICES ASSUME NEW b \in Buckets PROVE held'[b] \in Int /\ consumed'[b] \in Int
        OBVIOUS
    <2>1. LiveSet' \in SUBSET Reservations /\ Committed' \in SUBSET Reservations
        BY DEF LiveSet, Committed
    <2>2. UnitSum(Amount(b), LiveSet', MaxUnits) \in Nat
          /\ UnitSum(Amount(b), Committed', MaxUnits) \in Nat
        BY <2>1, SumWithout
    <2> QED
        BY <1>1, <2>2 DEF LedgerOK
<1>4. held' = [b \in Buckets |-> held'[b]] /\ consumed' = [b \in Buckets |-> consumed'[b]]
    <2>1. CASE \E r \in Reservations : Spending(r)
        BY <2>1 DEF Spending, Reserve, Commit, CountersOK
    <2>2. CASE \A r \in Reservations : ~Spending(r)
        BY <2>2, PlainStep DEF Plain, Returned, CountersOK
    <2> QED
        BY <2>1, <2>2
<1> QED
    BY <1>2, <1>3, <1>4, ProgressStep, MaximumType DEF CountersOK

LEMMA LedgerHolds == Spec => []Ledger
<1>1. Init => Ledger
    <2> SUFFICES ASSUME Init PROVE Ledger
        OBVIOUS
    <2>1. ProgressOK /\ CountersOK
        BY DEF Init, ProgressOK, Phase, Previews, CountersOK
    <2>2. {r \in Reservations : status[r] \in Live} = {} /\ Committed = {}
        BY DEF Init, Live, Committed
    <2> QED
        BY <2>1, <2>2, UnitSumEmpty DEF Init, Ledger, Conservation
<1> QED
    BY <1>1, LedgerStep, PTL DEF Spec

\* Conservation for every instance: the shared counters never drift from the
\* reservations, whatever handler fails after it has written.
THEOREM SharedBooksBalance == Spec => []Conservation
<1>1. Ledger => Conservation
    BY DEF Ledger
<1> QED
    BY <1>1, LedgerHolds, PTL

\* Counters are natural numbers once the books balance.
LEMMA CountersNat ==
    ASSUME Ledger, NEW b \in Buckets
    PROVE  held[b] \in Nat /\ consumed[b] \in Nat
<1>1. LiveSet \in SUBSET Reservations /\ Committed \in SUBSET Reservations
    BY DEF LiveSet, Committed
<1>2. UnitSum(Amount(b), LiveSet, MaxUnits) \in Nat
      /\ UnitSum(Amount(b), Committed, MaxUnits) \in Nat
    BY <1>1, SumWithout
<1> QED
    BY <1>2 DEF Ledger, Conservation, LiveSet

\* The limit of one bucket.
BucketOK(b) ==
    IF maximum[b] = -1 THEN held[b] + consumed[b] = 0
    ELSE /\ held[b] + consumed[b] <= maximum[b]
         /\ \E i \in Instances : maximum[b] = Limit[i][b]

\* A bucket whose row is left alone stays within its limit when it is not charged.
LEMMA SmallerFits ==
    ASSUME CountersOK, NEW b \in Buckets, BucketOK(b), maximum'[b] = maximum[b],
           held[b] \in Nat, consumed[b] \in Nat, held'[b] \in Nat, consumed'[b] \in Nat,
           held'[b] + consumed'[b] <= held[b] + consumed[b]
    PROVE  BucketOK(b)'
BY DEF BucketOK, CountersOK

\* A bucket that was found to have room, and whose maximum was narrowed.
LEMMA NarrowedFits ==
    ASSUME CountersOK, NEW b \in Buckets, BucketOK(b), NEW i \in Instances,
           maximum'[b] = Narrowed(i, b), held'[b] \in Nat, consumed'[b] \in Nat,
           held'[b] + consumed'[b] <= Narrowed(i, b)
    PROVE  BucketOK(b)'
BY NarrowedType DEF BucketOK, CountersOK

\* What a step without a booking frees, and what Fits counted on.
LEMMA FitsAfter ==
    ASSUME Ledger, [Next]_vars, NEW i \in Instances, NEW r \in Reservations,
           NEW b \in Buckets, Fits(i, b, r),
           Freed(status') = Freed(AfterExpiry)
    PROVE  Returned(status')[b] + consumed[b] + Cost[r][b] <= Narrowed(i, b)
BY DEF Fits, Returned

LEMMA WithinLimitStep == Ledger /\ WithinLimit /\ [Next]_vars => WithinLimit'
<1> SUFFICES ASSUME Ledger, WithinLimit, [Next]_vars, NEW b \in Buckets PROVE BucketOK(b)'
    BY DEF WithinLimit, BucketOK
<1>1. BucketOK(b) /\ ProgressOK /\ CountersOK /\ Conservation
    BY DEF WithinLimit, BucketOK, Ledger
<1>2. Ledger' /\ held[b] \in Nat /\ consumed[b] \in Nat
    BY LedgerStep, CountersNat
<1>3. held'[b] \in Nat /\ consumed'[b] \in Nat
    <2>1. LiveSet' \in SUBSET Reservations /\ Committed' \in SUBSET Reservations
        BY DEF LiveSet, Committed
    <2>2. UnitSum(Amount(b), LiveSet', MaxUnits) \in Nat
          /\ UnitSum(Amount(b), Committed', MaxUnits) \in Nat
        BY <2>1, SumWithout
    <2> QED
        BY <1>2, <2>2 DEF Ledger, Conservation, LiveSet
<1>4. Returned(status')[b] \in Nat /\ Returned(status')[b] <= held[b]
    BY <1>1, ReturnedIsKept
<1>5. ASSUME NEW i \in Instances, NEW r \in Reservations, NEW ok \in BOOLEAN, Commit(i, r, ok)
      PROVE  BucketOK(b)'
    <2>1. /\ held'[b] = Returned(status')[b] - Cost[r][b]
          /\ consumed'[b] = consumed[b] + (IF b \in Transient THEN 0 ELSE Cost[r][b])
          /\ maximum' = maximum
        BY <1>5 DEF Commit
    <2>2. Cost[r][b] \in Nat
        BY CoordinatorConstants
    <2>3. held'[b] + consumed'[b] <= held[b] + consumed[b]
        BY <1>2, <1>4, <2>1, <2>2
    <2> QED
        BY <1>1, <1>2, <1>3, <2>1, <2>3, SmallerFits
<1>6. ASSUME NEW i \in Instances, NEW r \in Reservations, NEW ok \in BOOLEAN,
             NEW ack \in BOOLEAN, Reserve(i, r, ok, ack)
      PROVE  BucketOK(b)'
    <2>1. /\ held'[b] = Returned(status')[b] + Cost[r][b]
          /\ consumed' = consumed
          /\ maximum'[b] = IF b \in Scope[r] THEN Narrowed(i, b) ELSE maximum[b]
          /\ status' = [AfterExpiry EXCEPT ![r] = "reserved"]
          /\ status[r] = "previewed"
        BY <1>6 DEF Reserve, Reservable
    <2>2. Freed(status') = Freed(AfterExpiry)
        BY <2>1 DEF Freed, AfterExpiry
    <2>3. CASE b \in Scope[r]
        <3>1. Fits(i, b, r)
            BY <1>6, <2>3 DEF Reserve
        <3>2. Returned(status')[b] + consumed[b] + Cost[r][b] <= Narrowed(i, b)
            BY <2>2, <3>1, FitsAfter
        <3>3. Cost[r][b] \in Nat /\ Narrowed(i, b) \in Nat
            BY <1>1, CoordinatorConstants, NarrowedType
        <3>4. held'[b] + consumed'[b] <= Narrowed(i, b)
            BY <1>2, <1>4, <2>1, <3>2, <3>3
        <3> QED
            BY <1>1, <1>3, <2>1, <2>3, <3>4, NarrowedFits
    <2>4. CASE b \notin Scope[r]
        <3>1. Cost[r][b] = 0
            BY <2>4, CoordinatorConstants
        <3>2. held'[b] + consumed'[b] <= held[b] + consumed[b]
            BY <1>2, <1>4, <2>1, <3>1
        <3> QED
            BY <1>1, <1>2, <1>3, <2>1, <2>4, <3>2, SmallerFits
    <2> QED
        BY <2>3, <2>4
<1>7. CASE \A r \in Reservations : ~Spending(r)
    <2>1. held' = Returned(status') /\ consumed' = consumed /\ (maximum' = maximum \/ Pricing)
        BY <1>1, <1>7, PlainStep DEF Plain
    <2>2. held'[b] + consumed'[b] <= held[b] + consumed[b]
        BY <1>2, <1>4, <2>1
    <2>3. CASE maximum' = maximum
        BY <1>1, <1>2, <1>3, <2>2, <2>3, SmallerFits
    <2>4. ASSUME NEW i \in Instances, NEW r \in Reservations, Deny(i, r)
          PROVE  BucketOK(b)'
        <3>1. /\ maximum'[b] = IF b \in Scope[r] THEN Narrowed(i, b) ELSE maximum[b]
              /\ status' = AfterExpiry
            BY <2>4 DEF Deny
        <3>2. CASE b \in Scope[r]
            <4>1. Fits(i, b, r)
                BY <2>4, <3>2 DEF Deny
            <4>2. Returned(status')[b] + consumed[b] + Cost[r][b] <= Narrowed(i, b)
                BY <3>1, <4>1, FitsAfter
            <4>3. Cost[r][b] \in Nat /\ Narrowed(i, b) \in Nat
                BY <1>1, CoordinatorConstants, NarrowedType
            <4>4. held'[b] + consumed'[b] <= Narrowed(i, b)
                BY <1>2, <1>4, <2>1, <4>2, <4>3
            <4> QED
                BY <1>1, <1>3, <3>1, <3>2, <4>4, NarrowedFits
        <3>3. CASE b \notin Scope[r]
            BY <1>1, <1>2, <1>3, <2>2, <3>1, <3>3, SmallerFits
        <3> QED
            BY <3>2, <3>3
    <2>5. ASSUME NEW i \in Instances, NEW r \in Reservations, NEW a \in Buckets,
                 NEW S \in SUBSET Buckets, RefuseBudget(i, r, a, S)
          PROVE  BucketOK(b)'
        <3>1. maximum'[b] = IF b \in S \cup {a} /\ maximum[b] = -1 THEN Limit[i][b] ELSE maximum[b]
            BY <2>5 DEF RefuseBudget
        <3>2. CASE b \in S \cup {a} /\ maximum[b] = -1
            <4>1. Limit[i][b] \in Nat /\ held[b] + consumed[b] = 0 /\ maximum'[b] = Limit[i][b]
                BY <1>1, <3>1, <3>2, NarrowedType DEF BucketOK
            <4> QED
                BY <1>2, <1>3, <2>2, <4>1 DEF BucketOK
        <3>3. CASE ~(b \in S \cup {a} /\ maximum[b] = -1)
            BY <1>1, <1>2, <1>3, <2>2, <3>1, <3>3, SmallerFits
        <3> QED
            BY <3>2, <3>3
    <2> QED
        BY <2>1, <2>3, <2>4, <2>5 DEF Pricing
<1> QED
    BY <1>5, <1>6, <1>7 DEF Spending

\* No bucket is ever committed beyond the stored maximum, and that maximum is
\* one that a policy in use has set: for every number of objects and policies.
THEOREM SharedLimitHolds == Spec => []WithinLimit
<1>1. Init => WithinLimit
    BY DEF Init, WithinLimit
<1> QED
    BY <1>1, LedgerHolds, WithinLimitStep, PTL DEF Spec
-----------------------------------------------------------------------------
(* Types, and takeover.                                                    *)

OwnerRow == [id : Instances \cup {None}, fence : Nat, expires : Nat, policy : Nat]
SubjectRow == [gen : Nat, revoked : BOOLEAN, lease : Nat, fence : Nat]
GrantRow == [status : {"none", "current", "requires_revalidation", "revoked"},
             gen : Nat, fence : Nat]
ReservationRow == [gen : Nat, fence : Nat, expires : Nat, epoch : Nat]

\* The part of TypeOK that Ledger does not imply.
RowsOK ==
    /\ owner \in OwnerRow
    /\ subject \in [Subjects -> SubjectRow]
    /\ grant \in [Grants -> GrantRow]
    /\ row \in [Reservations -> ReservationRow]
    /\ outcome \in [Reservations -> Nat]
    /\ fences \in Seq(Intents)
    /\ barrier \in [blocked : BOOLEAN, intent : Nat]
    /\ banned \subseteq (Actions \cup {None}) \X (Subjects \cup {None})
    /\ incomplete \in BOOLEAN
    /\ available \in [Instances -> BOOLEAN]
    /\ maker \in [Reservations -> Instances \cup {None}]
    /\ prepared \in [Reservations -> {"none", "live", "retired"}]
    /\ verified \in [Instances -> [epoch : Nat, fence : Nat]]
    /\ now \in Nat

LEMMA OwnerFacts ==
    ASSUME RowsOK PROVE owner.fence \in Nat /\ owner.expires \in Nat
BY DEF RowsOK, OwnerRow

\* Updates of one field keep a row well formed.
LEMMA SubjectFields ==
    ASSUME NEW x \in SubjectRow
    PROVE  x.gen \in Nat /\ x.revoked \in BOOLEAN /\ x.lease \in Nat /\ x.fence \in Nat
BY DEF SubjectRow

LEMMA SubjectEdits ==
    ASSUME NEW x \in SubjectRow
    PROVE  /\ [x EXCEPT !.lease = 0] \in SubjectRow
           /\ [x EXCEPT !.revoked = TRUE, !.lease = 0] \in SubjectRow
           /\ [x EXCEPT !.revoked = FALSE, !.lease = 0, !.gen = @ + 1] \in SubjectRow
<1>2. [x EXCEPT !.lease = 0] \in SubjectRow
    BY DEF SubjectRow
<1>3. [x EXCEPT !.revoked = TRUE, !.lease = 0] \in SubjectRow
    BY DEF SubjectRow
<1>4. [x EXCEPT !.revoked = FALSE, !.lease = 0, !.gen = @ + 1] \in SubjectRow
    <2> DEFINE n == x.gen + 1
               z == [x EXCEPT !.revoked = FALSE, !.lease = 0]
    <2>1. n \in Nat
        BY SubjectFields
    <2> HIDE DEF n
    <2>2. z \in SubjectRow
        BY DEF SubjectRow
    <2> HIDE DEF z
    <2>3. [z EXCEPT !.gen = n] \in SubjectRow
        BY <2>1, <2>2 DEF SubjectRow
    <2> QED
        BY <2>3, Zenon DEF n, z
<1> QED
    BY <1>2, <1>3, <1>4, Zenon

LEMMA GrantEdits ==
    ASSUME NEW x \in GrantRow
    PROVE  /\ [x EXCEPT !.status = "revoked"] \in GrantRow
           /\ [x EXCEPT !.status = "requires_revalidation"] \in GrantRow
BY DEF GrantRow

LEMMA LeastNat == ASSUME NEW x \in Nat, NEW y \in Nat PROVE Least(x, y) \in Nat
BY DEF Least

\* What a fence does to the rows.
LEMMA FenceRows ==
    ASSUME RowsOK, NEW f \in FenceKinds, NEW st, NEW realm \in BOOLEAN, FenceState(f, st, realm)
    PROVE  /\ subject' \in [Subjects -> SubjectRow]
           /\ grant' \in [Grants -> GrantRow]
           /\ fences' \in Seq(Intents)
           /\ banned' \subseteq (Actions \cup {None}) \X (Subjects \cup {None})
<1>1. Targets(f) \in SUBSET Subjects /\ Affected(f) \in SUBSET Reservations
    BY DEF Targets, Affected, Admitted, Subtree
<1>2. subject' \in [Subjects -> SubjectRow]
    <2>1. \A s \in Subjects : subject[s] \in SubjectRow
          /\ [subject[s] EXCEPT !.revoked = TRUE, !.lease = 0] \in SubjectRow
        BY SubjectEdits DEF RowsOK
    <2> QED
        BY <2>1 DEF FenceState
<1>3. grant' \in [Grants -> GrantRow]
    <2>1. \A g \in Grants : grant[g] \in GrantRow
          /\ [grant[g] EXCEPT !.status = "revoked"] \in GrantRow
        BY GrantEdits DEF RowsOK
    <2> QED
        BY <2>1 DEF FenceState
<1>4. fences' \in Seq(Intents)
    <2> DEFINE intent == [fence |-> f, subjects |-> Targets(f), reservations |-> Affected(f),
                          owner |-> owner.fence, realm |-> realm, reconciled |-> FALSE]
    <2>1. intent \in Intents
        BY <1>1, OwnerFacts DEF Intents
    <2>2. fences \in Seq(Intents)
        BY DEF RowsOK
    <2>3. fences' = Append(fences, intent)
        BY DEF FenceState
    <2> HIDE DEF intent
    <2> QED
        BY <2>1, <2>2, <2>3
<1>5. banned' \subseteq (Actions \cup {None}) \X (Subjects \cup {None})
    <2>1. f.action \in Actions \cup {None} /\ f.subject \in Subjects \cup {None}
        BY DEF FenceKinds
    <2>2. banned \subseteq (Actions \cup {None}) \X (Subjects \cup {None})
        BY DEF RowsOK
    <2>3. banned' = IF f.kind = "action" THEN banned \cup {<<f.action, f.subject>>} ELSE banned
        BY DEF FenceState
    <2> QED
        BY <2>1, <2>2, <2>3
<1> QED
    BY <1>2, <1>3, <1>4, <1>5

LEMMA RowsStep == RowsOK /\ [Next]_vars => RowsOK'
<1> SUFFICES ASSUME RowsOK, [Next]_vars PROVE RowsOK'
    OBVIOUS
<1>1. CASE Tick \/ UNCHANGED vars
    BY <1>1 DEF RowsOK, Tick, vars, incident, memory
<1>2. ASSUME NEW f \in FenceRequests, NEW ok \in BOOLEAN, RecordFence(f, ok)
      PROVE  RowsOK'
    <2>1. f \in FenceKinds /\ (ok /\ f.kind = "swarm") \in BOOLEAN
        BY CoordinatorConstants
    <2>2. FenceState(f, status, ok /\ f.kind = "swarm")
        BY <1>2 DEF RecordFence
    <2>3. barrier' \in [blocked : BOOLEAN, intent : Nat] /\ incomplete' \in BOOLEAN
        <3>1. barrier \in [blocked : BOOLEAN, intent : Nat] /\ Len(fences) \in Nat
            BY DEF RowsOK
        <3>2. incomplete' \in BOOLEAN
            BY <1>2 DEF RecordFence
        <3>3. barrier' = IF f.kind # "swarm" THEN barrier
                ELSE [blocked |-> TRUE, intent |-> IF ok THEN Len(fences) + 1 ELSE 0]
            BY <1>2 DEF RecordFence
        <3> QED
            BY <3>1, <3>2, <3>3
    <2> QED
        BY <1>2, <2>1, <2>2, <2>3, FenceRows DEF RecordFence, RowsOK, memory
<1>3. ASSUME NEW r \in Reservations, NEW result \in Results,
             Effect(r, result) \/ NoEffect(r, result)
      PROVE  RowsOK'
    BY <1>3 DEF RowsOK, Effect, NoEffect, incident
<1>4. ASSUME NEW i \in Instances, Housekeep(i) PROVE RowsOK'
    BY <1>4 DEF RowsOK, Housekeep, incident, memory
<1>5. ASSUME NEW i \in Instances, CheckRecovery(i) PROVE RowsOK'
    <2>1. [epoch |-> Len(fences), fence |-> owner.fence] \in [epoch : Nat, fence : Nat]
          /\ verified \in [Instances -> [epoch : Nat, fence : Nat]]
        BY OwnerFacts DEF RowsOK
    <2>2. verified' = [verified EXCEPT ![i] = [epoch |-> Len(fences), fence |-> owner.fence]]
        BY <1>5 DEF CheckRecovery
    <2>3. verified' \in [Instances -> [epoch : Nat, fence : Nat]]
        BY <2>1, <2>2
    <2> QED
        BY <1>5, <2>3 DEF RowsOK, CheckRecovery, incident
<1>6. ASSUME NEW i \in Instances, NEW r \in Reservations, Deny(i, r) \/ GoOffline(i, r)
      PROVE  RowsOK'
    BY <1>6 DEF RowsOK, Deny, GoOffline, incident, memory
<1>7. ASSUME NEW i \in Instances, NEW r \in Reservations, NEW b \in Buckets,
             NEW S \in SUBSET Buckets, RefuseBudget(i, r, b, S)
      PROVE  RowsOK'
    BY <1>7 DEF RowsOK, RefuseBudget, incident, memory
<1>8. ASSUME NEW i \in Instances, NEW ok \in BOOLEAN, Start(i, ok) PROVE RowsOK'
    <2>1. owner' \in OwnerRow
        <3>1. owner.fence + 1 \in Nat /\ now + OwnerLife \in Nat /\ Epoch[i] \in Nat
            BY OwnerFacts, CoordinatorConstants DEF RowsOK
        <3> QED
            BY <1>8, <3>1 DEF Start, OwnerRow
    <2>2. \A s \in Subjects : [subject[s] EXCEPT !.lease = 0] \in SubjectRow
        BY SubjectEdits DEF RowsOK
    <2>3. \A g \in Grants : grant[g] \in GrantRow
          /\ [grant[g] EXCEPT !.status = "requires_revalidation"] \in GrantRow
        BY GrantEdits DEF RowsOK
    <2>4. subject' \in [Subjects -> SubjectRow] /\ grant' \in [Grants -> GrantRow]
        BY <1>8, <2>2, <2>3 DEF Start
    <2>5. /\ prepared' \in [Reservations -> {"none", "live", "retired"}]
          /\ available' \in [Instances -> BOOLEAN]
          /\ incomplete' \in BOOLEAN
        BY <1>8 DEF Start, RowsOK, Journal
    <2> QED
        BY <1>8, <2>1, <2>4, <2>5 DEF Start, RowsOK, incident
<1>9. ASSUME NEW i \in Instances, NEW ok \in BOOLEAN, Heartbeat(i, ok) PROVE RowsOK'
    <2>1. owner' \in OwnerRow
        <3>1. owner \in OwnerRow /\ now + OwnerLife \in Nat
            BY CoordinatorConstants DEF RowsOK
        <3> QED
            BY <1>9, <3>1 DEF Heartbeat, OwnerRow
    <2> QED
        BY <1>9, <2>1 DEF Heartbeat, RowsOK, Journal, incident, memory
<1>10. ASSUME NEW i \in Instances, NEW ok \in BOOLEAN, ReconcileFence(i, ok) PROVE RowsOK'
    <2>1. \A s \in Subjects : subject[s] \in SubjectRow
          /\ [subject[s] EXCEPT !.revoked = FALSE, !.lease = 0, !.gen = @ + 1] \in SubjectRow
        BY SubjectEdits DEF RowsOK
    <2>2. subject' \in [Subjects -> SubjectRow]
        BY <1>10, <2>1 DEF ReconcileFence
    <2>3. Len(fences) \in DOMAIN fences /\ fences[Len(fences)] \in Intents
        <3>1. fences \in Seq(Intents) /\ Len(fences) > 0
            BY <1>10 DEF ReconcileFence, Pending, RowsOK
        <3> QED
            BY <3>1
    <2>4. fences' \in Seq(Intents)
        <3>1. [fences[Len(fences)] EXCEPT !.reconciled = TRUE] \in Intents
            BY <2>3 DEF Intents
        <3>2. fences' = [fences EXCEPT ![Len(fences)] = [fences[Len(fences)] EXCEPT !.reconciled = TRUE]]
            BY <1>10 DEF ReconcileFence
        <3> QED
            BY <2>3, <3>1, <3>2 DEF RowsOK
    <2>5. barrier' \in [blocked : BOOLEAN, intent : Nat]
        BY <1>10 DEF ReconcileFence, RowsOK
    <2>6. banned' \subseteq (Actions \cup {None}) \X (Subjects \cup {None})
        BY <1>10 DEF ReconcileFence, RowsOK
    <2>7. verified' \in [Instances -> [epoch : Nat, fence : Nat]] /\ incomplete' \in BOOLEAN
        BY <1>10 DEF ReconcileFence, RowsOK, Journal
    <2> QED
        BY <1>10, <2>2, <2>4, <2>5, <2>6, <2>7 DEF ReconcileFence, RowsOK
<1>11. ASSUME NEW i \in Instances, NEW ok \in BOOLEAN, NEW s \in Subjects, Admit(i, s, ok)
       PROVE  RowsOK'
    <2>1. subject[s].gen \in Nat /\ owner.fence \in Nat /\ owner.expires \in Nat
          /\ now + LeaseLife \in Nat
        BY SubjectFields, OwnerFacts, CoordinatorConstants DEF RowsOK
    <2>2. Least(now + LeaseLife, owner.expires) \in Nat
        BY <2>1, LeastNat
    <2>3. subject' \in [Subjects -> SubjectRow]
        BY <1>11, <2>1, <2>2 DEF Admit, RowsOK, SubjectRow
    <2> QED
        BY <1>11, <2>3 DEF Admit, RowsOK, Journal, incident, memory
<1>12. ASSUME NEW i \in Instances, NEW ok \in BOOLEAN, NEW s \in Subjects, RevokeLease(i, s, ok)
       PROVE  RowsOK'
    <2>1. [kind |-> "agent", subject |-> s, action |-> None] \in FenceKinds
        BY DEF FenceKinds
    <2>2. FenceState([kind |-> "agent", subject |-> s, action |-> None], AfterExpiry, FALSE)
        BY <1>12 DEF RevokeLease
    <2>3. incomplete' \in BOOLEAN
        BY <1>12 DEF RevokeLease, Journal
    <2> QED
        BY <1>12, <2>1, <2>2, <2>3, FenceRows DEF RevokeLease, RowsOK, memory
<1>13. ASSUME NEW i \in Instances, NEW ok \in BOOLEAN, NEW g \in Grants, BindGrant(i, g, ok)
       PROVE  RowsOK'
    <2>1. [status |-> "current", gen |-> subject[Holder[g]].gen, fence |-> owner.fence] \in GrantRow
        BY SubjectFields, OwnerFacts, CoordinatorConstants DEF RowsOK, GrantRow
    <2>2. grant' \in [Grants -> GrantRow]
        BY <1>13, <2>1 DEF BindGrant, RowsOK
    <2> QED
        BY <1>13, <2>2 DEF BindGrant, RowsOK, Journal, incident, memory
<1>14. ASSUME NEW i \in Instances, NEW ok \in BOOLEAN, NEW r \in Reservations, Evaluate(i, r, ok)
       PROVE  RowsOK'
    <2>1. subject[Subj(r)] \in SubjectRow
        BY CoordinatorConstants DEF RowsOK, Subj
    <2>2. subject[Subj(r)].gen \in Nat /\ subject[Subj(r)].lease \in Nat
          /\ now + PreviewLife \in Nat /\ owner.fence \in Nat /\ Len(fences) \in Nat
        BY <2>1, SubjectFields, OwnerFacts, CoordinatorConstants DEF RowsOK
    <2>a. Least(subject[Subj(r)].lease, now + PreviewLife) \in Nat
        BY <2>2, LeastNat
    <2>3. [gen |-> subject[Subj(r)].gen, fence |-> owner.fence,
           expires |-> Least(subject[Subj(r)].lease, now + PreviewLife),
           epoch |-> Len(fences)] \in ReservationRow
        BY <2>2, <2>a DEF ReservationRow
    <2>4. row' \in [Reservations -> ReservationRow]
        BY <1>14, <2>3 DEF Evaluate, RowsOK
    <2> QED
        BY <1>14, <2>4 DEF Evaluate, RowsOK, Journal, incident, memory
<1>15. ASSUME NEW i \in Instances, NEW ok \in BOOLEAN, NEW r \in Reservations,
              NEW ack \in BOOLEAN, Reserve(i, r, ok, ack)
       PROVE  RowsOK'
    <2>1. subject[Subj(r)] \in SubjectRow /\ row[r] \in ReservationRow
        BY CoordinatorConstants DEF RowsOK, Subj
    <2>a. row[r].expires \in Nat /\ subject[Subj(r)].lease \in Nat /\ now + HoldLife \in Nat
        BY <2>1, SubjectFields, CoordinatorConstants DEF RowsOK, ReservationRow
    <2>b. Least(subject[Subj(r)].lease, now + HoldLife) \in Nat
        BY <2>a, LeastNat
    <2> DEFINE x == Least(row[r].expires, Least(subject[Subj(r)].lease, now + HoldLife))
    <2>2. x \in Nat
        BY <2>a, <2>b, LeastNat
    <2>3. row' = [row EXCEPT ![r] = [row[r] EXCEPT !.expires = x]]
        BY <1>15 DEF Reserve
    <2> HIDE DEF x
    <2>4. [row[r] EXCEPT !.expires = x] \in ReservationRow
        BY <2>1, <2>2 DEF ReservationRow
    <2>5. row' \in [Reservations -> ReservationRow]
        BY <2>3, <2>4 DEF RowsOK
    <2>6. /\ maker' \in [Reservations -> Instances \cup {None}]
          /\ prepared' \in [Reservations -> {"none", "live", "retired"}]
        BY <1>15 DEF Reserve, RowsOK
    <2> QED
        BY <1>15, <2>5, <2>6 DEF Reserve, RowsOK, Journal, incident
<1>16. ASSUME NEW i \in Instances, NEW ok \in BOOLEAN, NEW r \in Reservations,
              NEW ack \in BOOLEAN, BeginForward(i, r, ok, ack)
       PROVE  RowsOK'
    BY <1>16 DEF BeginForward, RowsOK, Journal, incident
<1>17. ASSUME NEW i \in Instances, NEW ok \in BOOLEAN, NEW r \in Reservations,
              Cancel(i, r, ok) \/ Commit(i, r, ok) \/ Uncertain(i, r, ok)
       PROVE  RowsOK'
    BY <1>17 DEF Cancel, Commit, Uncertain, RowsOK, Journal, incident
<1>18. ASSUME NEW i \in Instances, NEW ok \in BOOLEAN, NEW r \in Reservations,
              RecordOutcome(i, r, ok)
       PROVE  RowsOK'
    BY <1>18 DEF RecordOutcome, RowsOK, Journal, memory
<1> QED
    BY <1>1, <1>2, <1>3, <1>4, <1>5, <1>6, <1>7, <1>8, <1>9, <1>10, <1>11, <1>12,
       <1>13, <1>14, <1>15, <1>16, <1>17, <1>18 DEF Next

LEMMA Rows == Spec => []RowsOK
<1>1. Init => RowsOK
    <2> SUFFICES ASSUME Init PROVE RowsOK
        OBVIOUS
    <2>1. owner \in OwnerRow /\ barrier \in [blocked : BOOLEAN, intent : Nat]
          /\ verified \in [Instances -> [epoch : Nat, fence : Nat]]
        BY DEF Init, OwnerRow
    <2>2. subject \in [Subjects -> SubjectRow] /\ grant \in [Grants -> GrantRow]
        BY DEF Init, SubjectRow, GrantRow
    <2>3. row \in [Reservations -> ReservationRow] /\ fences \in Seq(Intents)
        BY DEF Init, ReservationRow
    <2> QED
        BY <2>1, <2>2, <2>3 DEF Init, RowsOK
<1> QED
    BY <1>1, RowsStep, PTL DEF Spec

\* Type correctness: every handler, also one rejected after it has written,
\* leaves well-formed rows, and no counter of a bucket is ever negative.
THEOREM WellFormed == Spec => []TypeOK
<1>1. RowsOK /\ Ledger => TypeOK
    <2> SUFFICES ASSUME RowsOK, Ledger PROVE TypeOK
        OBVIOUS
    <2>1. held \in [Buckets -> Nat] /\ consumed \in [Buckets -> Nat]
        BY CountersNat DEF Ledger, CountersOK
    <2> QED
        BY <2>1 DEF TypeOK, RowsOK, OwnerRow, SubjectRow, GrantRow, ReservationRow,
           Ledger, ProgressOK, CountersOK, Phase
<1> QED
    BY <1>1, Rows, LedgerHolds, PTL

\* Only a new owner changes the fence, and only an evaluation records another
\* one than before: the present owner's.
FencesKept ==
    /\ owner'.fence = owner.fence
    /\ \A q \in Reservations : row'[q].fence \in {row[q].fence, owner.fence}

LEMMA FencesKeptStep ==
    ASSUME RowsOK, [Next]_vars,
           \A i \in Instances, ok \in BOOLEAN : ~Start(i, ok)
    PROVE  FencesKept
<1>1. CASE UNCHANGED <<owner, row>>
    BY <1>1 DEF FencesKept
<1>2. ASSUME NEW i \in Instances, NEW ok \in BOOLEAN, Heartbeat(i, ok)
      PROVE  FencesKept
    <2>1. owner' = [owner EXCEPT !.expires = now + OwnerLife] /\ row' = row
        BY <1>2 DEF Heartbeat
    <2>2. owner \in OwnerRow
        BY DEF RowsOK
    <2>3. owner'.fence = owner.fence
        BY <2>1, <2>2 DEF OwnerRow
    <2> QED
        BY <2>1, <2>3 DEF FencesKept
<1>3. ASSUME NEW i \in Instances, NEW ok \in BOOLEAN, NEW r \in Reservations, Evaluate(i, r, ok)
      PROVE  FencesKept
    <2>1. owner' = owner /\ row \in [Reservations -> ReservationRow]
        BY <1>3 DEF Evaluate, RowsOK
    <2>2. \A q \in Reservations : q # r => row'[q] = row[q]
        BY <1>3, <2>1 DEF Evaluate
    <2>3. row'[r].fence = owner.fence
        BY <1>3, <2>1 DEF Evaluate
    <2> QED
        BY <2>1, <2>2, <2>3 DEF FencesKept
<1>4. ASSUME NEW i \in Instances, NEW ok \in BOOLEAN, NEW r \in Reservations,
             NEW ack \in BOOLEAN, Reserve(i, r, ok, ack)
      PROVE  FencesKept
    <2> DEFINE x == Least(row[r].expires, Least(subject[Subj(r)].lease, now + HoldLife))
    <2>1. owner' = owner /\ row' = [row EXCEPT ![r] = [row[r] EXCEPT !.expires = x]]
        BY <1>4 DEF Reserve
    <2>2. row \in [Reservations -> ReservationRow]
        BY DEF RowsOK
    <2> HIDE DEF x
    <2>3. row'[r].fence = row[r].fence /\ \A q \in Reservations : q # r => row'[q] = row[q]
        BY <2>1, <2>2 DEF ReservationRow
    <2> QED
        BY <2>1, <2>3 DEF FencesKept
<1>5. CASE Tick \/ UNCHANGED vars \/ \E f \in FenceRequests, ok \in BOOLEAN : RecordFence(f, ok)
    BY <1>1, <1>5 DEF Tick, vars, RecordFence
<1>6. ASSUME NEW r \in Reservations, NEW result \in Results,
             Effect(r, result) \/ NoEffect(r, result)
      PROVE  UNCHANGED <<owner, row>>
    BY <1>6 DEF Effect, NoEffect
<1>7. ASSUME NEW i \in Instances, Housekeep(i) \/ CheckRecovery(i)
      PROVE  UNCHANGED <<owner, row>>
    BY <1>7 DEF Housekeep, CheckRecovery
<1>8. ASSUME NEW i \in Instances, NEW r \in Reservations, Deny(i, r) \/ GoOffline(i, r)
      PROVE  UNCHANGED <<owner, row>>
    BY <1>8 DEF Deny, GoOffline
<1>9. ASSUME NEW i \in Instances, NEW r \in Reservations, NEW b \in Buckets,
             NEW S \in SUBSET Buckets, RefuseBudget(i, r, b, S)
      PROVE  UNCHANGED <<owner, row>>
    BY <1>9 DEF RefuseBudget
<1>10. ASSUME NEW i \in Instances, NEW ok \in BOOLEAN, ReconcileFence(i, ok)
       PROVE  UNCHANGED <<owner, row>>
    BY <1>10 DEF ReconcileFence
<1>11. ASSUME NEW i \in Instances, NEW ok \in BOOLEAN, NEW s \in Subjects,
              Admit(i, s, ok) \/ RevokeLease(i, s, ok)
       PROVE  UNCHANGED <<owner, row>>
    BY <1>11 DEF Admit, RevokeLease
<1>12. ASSUME NEW i \in Instances, NEW ok \in BOOLEAN, NEW g \in Grants, BindGrant(i, g, ok)
       PROVE  UNCHANGED <<owner, row>>
    BY <1>12 DEF BindGrant
<1>13. ASSUME NEW i \in Instances, NEW ok \in BOOLEAN, NEW r \in Reservations,
              \/ Cancel(i, r, ok) \/ Commit(i, r, ok)
              \/ Uncertain(i, r, ok) \/ RecordOutcome(i, r, ok)
              \/ \E ack \in BOOLEAN : BeginForward(i, r, ok, ack)
       PROVE  UNCHANGED <<owner, row>>
    BY <1>13 DEF Cancel, Commit, Uncertain, RecordOutcome, BeginForward
<1> QED
    BY <1>1, <1>2, <1>3, <1>4, <1>5, <1>6, <1>7, <1>8, <1>9, <1>10, <1>11, <1>12, <1>13
       DEF Next

LEMMA LiveIsCurrentStep ==
    RowsOK /\ ProgressOK /\ LiveIsCurrent /\ [Next]_vars => LiveIsCurrent'
<1> SUFFICES ASSUME RowsOK, ProgressOK, LiveIsCurrent, [Next]_vars, NEW q \in Reservations,
                    status'[q] \in {"previewed", "reserved", "forwarding"}
             PROVE  row'[q].fence = owner'.fence
    BY DEF LiveIsCurrent
<1>1. ASSUME NEW i \in Instances, NEW ok \in BOOLEAN, Start(i, ok) PROVE FALSE
    <2>1. status'[q] = TakenOver(q)
        BY <1>1 DEF Start
    <2> QED
        BY <2>1 DEF TakenOver
<1>2. FencesKept
    BY <1>1, FencesKeptStep
<1>3. CASE status[q] \in {"previewed", "reserved", "forwarding"}
    BY <1>2, <1>3 DEF FencesKept, LiveIsCurrent
<1>4. CASE status[q] \notin {"previewed", "reserved", "forwarding"}
    <2>1. ~Quiet(q, status'[q])
        BY <1>4 DEF Quiet
    <2>2. Booking(q)
        BY <2>1, QuietStep, BookingStep DEF AllQuiet, OthersQuiet
    <2>3. status[q] = "none"
        BY <1>4, <2>2, BookingStep
    <2>4. PICK i \in Instances, ok \in BOOLEAN : Evaluate(i, q, ok)
        BY <2>2, <2>3 DEF Booking, Commit, Reserve, Reservable
    <2>5. row \in [Reservations -> ReservationRow] /\ owner' = owner
        BY <2>4 DEF RowsOK, Evaluate
    <2> QED
        BY <2>4, <2>5 DEF Evaluate
<1> QED
    BY <1>3, <1>4

\* Takeover is complete for any number of objects: whatever can still be
\* reserved or forwarded was evaluated under the present owner.
THEOREM NothingOutlivesItsOwner == Spec => []LiveIsCurrent
<1>1. Init => LiveIsCurrent
    BY DEF Init, LiveIsCurrent
<1> QED
    BY <1>1, Rows, Progress, LiveIsCurrentStep, PTL DEF Spec
-----------------------------------------------------------------------------
(* Containment.                                                            *)

\* Intents are recorded by owners in the order of their fences.
Ordered ==
    \A e \in DOMAIN fences :
        /\ fences[e].owner <= owner.fence
        /\ \A d \in DOMAIN fences : d <= e => fences[d].owner <= fences[e].owner

\* What was verified is an intent of an earlier owner.
Verified ==
    \A i \in Instances : verified[i].epoch # 0 =>
        /\ verified[i].epoch \in DOMAIN fences
        /\ fences[verified[i].epoch].owner < verified[i].fence

\* What was evaluated was evaluated by some owner for an admitted workload,
\* under grants that were bound.
Evaluated ==
    \A r \in Reservations : status[r] # "none" =>
        /\ subject[Subj(r)].gen > 0
        /\ row[r].fence <= owner.fence
        /\ \A h \in Ancestry[GrantOf[r]] : grant[h].status # "none"

\* What a fence that covers r has done to it for good: the grant is revoked or
\* the action banned, and r is in the intent if it is in flight.
Caught(n, r) ==
    /\ n.fence.kind # "action" => Subj(r) \in n.subjects
    /\ status[r] # "reserved"
    /\ status[r] \in Live => r \in n.reservations
    /\ (n.fence.kind = "action" /\ status[r] = "previewed")
          => <<n.fence.action, n.fence.subject>> \in banned

\* What any fence has done to a reservation evaluated before it.
Stopped(n, r) ==
    /\ row[r].fence <= n.owner
    /\ \A h \in Ancestry[GrantOf[r]] : Holder[h] \in n.subjects => grant[h].status = "revoked"
    /\ Covers(n, r) => Caught(n, r)

Reached ==
    \A r \in Reservations : status[r] # "none" =>
        \A e \in DOMAIN fences : row[r].epoch < e => Stopped(fences[e], r)

\* Outcomes are recorded of dispatches that have ended, dispatches begin with
\* a consumed reservation, and only an ended one is charged.
Reports ==
    \A r \in Reservations :
        /\ outcome[r] # 0 => dispatch[r] \in Results
        /\ dispatch[r] # "idle" => status[r] \in {"forwarding", "uncertain", "committed"}
        /\ dispatch[r] = "begun" => status[r] # "committed"

Typed == RowsOK /\ ProgressOK
Contained == LiveIsCurrent /\ Ordered /\ Verified /\ Evaluated /\ Reached /\ Reports
CInv == Typed /\ Contained

\* The rows a step must not take back.
Monotone ==
    /\ owner.fence <= owner'.fence
    /\ \A s \in Subjects : subject[s].gen <= subject'[s].gen
    /\ \A g \in Grants :
          /\ grant[g].status # "none" => grant'[g].status # "none"
          /\ grant[g].status = "revoked" => grant'[g].status = "revoked"
    /\ \A r \in Reservations : status[r] # "none" =>
          row'[r].epoch = row[r].epoch /\ row'[r].fence = row[r].fence

\* The parts of an intent that recovery leaves alone.
Same(m, n) ==
    /\ n.fence = m.fence /\ n.subjects = m.subjects
    /\ n.reservations = m.reservations /\ n.owner = m.owner

\* A fence is recorded, by a controller or for a workload that gives up.
Fencing(f) ==
    \E realm \in BOOLEAN : FenceState(f, status, realm) \/ FenceState(f, AfterExpiry, realm)

Reconciling == \E i \in Instances, ok \in BOOLEAN : ReconcileFence(i, ok)

\* Which steps touch the fences, and which touch nothing else of containment.
LEMMA FenceSteps ==
    ASSUME [Next]_vars
    PROVE  \/ fences' = fences /\ banned' = banned
           \/ \E f \in FenceKinds : Fencing(f)
           \/ Reconciling
<1>1. CASE Tick \/ UNCHANGED vars
    BY <1>1 DEF Tick, vars, incident
<1>2. ASSUME NEW f \in FenceRequests, NEW ok \in BOOLEAN, RecordFence(f, ok)
      PROVE  \E x \in FenceKinds : Fencing(x)
    <2>1. f \in FenceKinds /\ (ok /\ f.kind = "swarm") \in BOOLEAN
        BY CoordinatorConstants
    <2>2. FenceState(f, status, ok /\ f.kind = "swarm")
        BY <1>2 DEF RecordFence
    <2> QED
        BY <2>1, <2>2 DEF Fencing
<1>3. ASSUME NEW r \in Reservations, NEW result \in Results,
             Effect(r, result) \/ NoEffect(r, result)
      PROVE  fences' = fences /\ banned' = banned
    BY <1>3 DEF Effect, NoEffect, incident
<1>4. ASSUME NEW i \in Instances, Housekeep(i) \/ CheckRecovery(i)
      PROVE  fences' = fences /\ banned' = banned
    BY <1>4 DEF Housekeep, CheckRecovery, incident
<1>5. ASSUME NEW i \in Instances, NEW r \in Reservations, Deny(i, r) \/ GoOffline(i, r)
      PROVE  fences' = fences /\ banned' = banned
    BY <1>5 DEF Deny, GoOffline, incident
<1>6. ASSUME NEW i \in Instances, NEW r \in Reservations, NEW b \in Buckets,
             NEW S \in SUBSET Buckets, RefuseBudget(i, r, b, S)
      PROVE  fences' = fences /\ banned' = banned
    BY <1>6 DEF RefuseBudget, incident
<1>7. ASSUME NEW i \in Instances, NEW ok \in BOOLEAN, Start(i, ok) \/ Heartbeat(i, ok)
      PROVE  fences' = fences /\ banned' = banned
    BY <1>7 DEF Start, Heartbeat, incident
<1>8. ASSUME NEW i \in Instances, NEW ok \in BOOLEAN, ReconcileFence(i, ok)
      PROVE  Reconciling
    BY <1>8 DEF Reconciling
<1>9. ASSUME NEW i \in Instances, NEW ok \in BOOLEAN, NEW s \in Subjects, Admit(i, s, ok)
      PROVE  fences' = fences /\ banned' = banned
    BY <1>9 DEF Admit, incident
<1>10. ASSUME NEW i \in Instances, NEW ok \in BOOLEAN, NEW s \in Subjects, RevokeLease(i, s, ok)
       PROVE  \E f \in FenceKinds : Fencing(f)
    <2>1. [kind |-> "agent", subject |-> s, action |-> None] \in FenceKinds
        BY DEF FenceKinds
    <2>2. FenceState([kind |-> "agent", subject |-> s, action |-> None], AfterExpiry, FALSE)
        BY <1>10 DEF RevokeLease
    <2> QED
        BY <2>1, <2>2 DEF Fencing
<1>11. ASSUME NEW i \in Instances, NEW ok \in BOOLEAN, NEW g \in Grants, BindGrant(i, g, ok)
       PROVE  fences' = fences /\ banned' = banned
    BY <1>11 DEF BindGrant, incident
<1>12. ASSUME NEW i \in Instances, NEW ok \in BOOLEAN, NEW r \in Reservations,
              \/ Evaluate(i, r, ok) \/ Cancel(i, r, ok) \/ Commit(i, r, ok)
              \/ Uncertain(i, r, ok) \/ RecordOutcome(i, r, ok)
              \/ \E ack \in BOOLEAN : Reserve(i, r, ok, ack) \/ BeginForward(i, r, ok, ack)
       PROVE  fences' = fences /\ banned' = banned
    BY <1>12 DEF Evaluate, Cancel, Commit, Uncertain, RecordOutcome, Reserve, BeginForward, incident
<1> QED
    BY <1>1, <1>2, <1>3, <1>4, <1>5, <1>6, <1>7, <1>8, <1>9, <1>10, <1>11, <1>12 DEF Next

\* What a fence does to the intents and the bans.
LEMMA FencingAppends ==
    ASSUME Typed, NEW f \in FenceKinds, Fencing(f)
    PROVE  /\ DOMAIN fences' = DOMAIN fences \cup {Len(fences) + 1}
           /\ Len(fences) + 1 \notin DOMAIN fences
           /\ \A e \in DOMAIN fences : fences'[e] = fences[e] /\ e <= Len(fences) + 1
           /\ fences'[Len(fences) + 1].fence = f
           /\ fences'[Len(fences) + 1].subjects = Targets(f)
           /\ fences'[Len(fences) + 1].reservations = Affected(f)
           /\ fences'[Len(fences) + 1].owner = owner.fence
           /\ ~fences'[Len(fences) + 1].reconciled
           /\ banned \subseteq banned'
           /\ f.kind = "action" => <<f.action, f.subject>> \in banned'
<1>0. PICK realm \in BOOLEAN : FenceState(f, status, realm) \/ FenceState(f, AfterExpiry, realm)
    BY DEF Fencing
<1> DEFINE intent == [fence |-> f, subjects |-> Targets(f), reservations |-> Affected(f),
                      owner |-> owner.fence, realm |-> realm, reconciled |-> FALSE]
<1>1. fences' = Append(fences, intent)
    BY <1>0, Zenon DEF FenceState
<1>2. banned' = IF f.kind = "action" THEN banned \cup {<<f.action, f.subject>>} ELSE banned
    BY <1>0, Zenon DEF FenceState
<1>3. fences \in Seq(Intents)
    BY DEF Typed, RowsOK
<1>4. /\ intent.fence = f /\ intent.subjects = Targets(f) /\ intent.reservations = Affected(f)
      /\ intent.owner = owner.fence /\ ~intent.reconciled
    OBVIOUS
<1> HIDE DEF intent
<1>5. /\ DOMAIN fences' = DOMAIN fences \cup {Len(fences) + 1}
      /\ Len(fences) + 1 \notin DOMAIN fences
      /\ \A e \in DOMAIN fences : fences'[e] = fences[e] /\ e <= Len(fences) + 1
      /\ fences'[Len(fences) + 1] = intent
    BY <1>1, <1>3
<1> QED
    BY <1>2, <1>4, <1>5

\* What recovery does to the intents.
LEMMA ReconcilingMarks ==
    ASSUME Typed, NEW i \in Instances, NEW ok \in BOOLEAN, ReconcileFence(i, ok)
    PROVE  /\ DOMAIN fences' = DOMAIN fences /\ Len(fences) \in DOMAIN fences
           /\ \A e \in DOMAIN fences :
                 /\ e <= Len(fences) /\ Same(fences[e], fences'[e])
                 /\ fences'[e].reconciled /\ ~fences[e].reconciled => e = Len(fences)
<1>a. fences' = [fences EXCEPT ![Len(fences)].reconciled = TRUE] /\ Len(fences) > 0
    BY Zenon DEF ReconcileFence, Pending
<1>1. fences \in Seq(Intents) /\ Len(fences) > 0
    BY <1>a DEF Typed, RowsOK
<1> HIDE DEF ReconcileFence
<1>2. fences' = [fences EXCEPT ![Len(fences)] = [fences[Len(fences)] EXCEPT !.reconciled = TRUE]]
    BY <1>a
<1>3. DOMAIN fences' = DOMAIN fences /\ Len(fences) \in DOMAIN fences
      /\ \A e \in DOMAIN fences : e <= Len(fences) /\ (e # Len(fences) => fences'[e] = fences[e])
    BY <1>1, <1>2
<1>4. fences'[Len(fences)] = [fences[Len(fences)] EXCEPT !.reconciled = TRUE]
      /\ fences[Len(fences)] \in Intents
    BY <1>1, <1>2, <1>3
<1>5. Same(fences[Len(fences)], fences'[Len(fences)])
    BY <1>4 DEF Same, Intents
<1> QED
    BY <1>3, <1>5 DEF Same

\* Intents stay; a new one comes with a fence.
LEMMA IntentsStay ==
    ASSUME Typed, [Next]_vars, NEW e \in DOMAIN fences'
    PROVE  \/ e \in DOMAIN fences /\ Same(fences[e], fences'[e])
           \/ \E f \in FenceKinds : Fencing(f) /\ e = Len(fences) + 1
<1>1. CASE fences' = fences
    BY <1>1 DEF Same
<1>2. ASSUME NEW f \in FenceKinds, Fencing(f)
      PROVE  \/ e \in DOMAIN fences /\ Same(fences[e], fences'[e])
             \/ e = Len(fences) + 1
    BY <1>2, FencingAppends DEF Same
<1>3. CASE Reconciling
    BY <1>3, ReconcilingMarks DEF Reconciling
<1> QED
    BY <1>1, <1>2, <1>3, FenceSteps

LEMMA IntentsKept ==
    ASSUME Typed, [Next]_vars, NEW e \in DOMAIN fences
    PROVE  e \in DOMAIN fences' /\ Same(fences[e], fences'[e])
<1>1. CASE fences' = fences
    BY <1>1 DEF Same
<1>2. ASSUME NEW f \in FenceKinds, Fencing(f)
      PROVE  e \in DOMAIN fences' /\ Same(fences[e], fences'[e])
    BY <1>2, FencingAppends DEF Same
<1>3. CASE Reconciling
    BY <1>3, ReconcilingMarks DEF Reconciling
<1> QED
    BY <1>1, <1>2, <1>3, FenceSteps

\* No step takes back a generation, a revocation or the fence of an owner, and
\* rows in use keep where they came from.
LEMMA MonotoneStep == Typed /\ [Next]_vars => Monotone
<1> SUFFICES ASSUME Typed, [Next]_vars PROVE Monotone
    OBVIOUS
<1> DEFINE Owners == owner.fence <= owner'.fence
           Gens == \A s \in Subjects : subject[s].gen <= subject'[s].gen
           Bound == \A g \in Grants :
              /\ grant[g].status # "none" => grant'[g].status # "none"
              /\ grant[g].status = "revoked" => grant'[g].status = "revoked"
           Origins == \A r \in Reservations : status[r] # "none" =>
              row'[r].epoch = row[r].epoch /\ row'[r].fence = row[r].fence
<1>0. /\ owner.fence \in Nat
      /\ \A s \in Subjects : subject[s] \in SubjectRow /\ subject[s].gen \in Nat
      /\ \A g \in Grants : grant[g] \in GrantRow
    BY OwnerFacts, SubjectFields DEF Typed, RowsOK
<1>a. owner' = owner => Owners
    BY <1>0
<1>b. subject' = subject => Gens
    BY <1>0
<1>c. grant' = grant => Bound
    OBVIOUS
<1>d. row' = row => Origins
    OBVIOUS
<1>e. \A f \in FenceKinds : Fencing(f) => Gens /\ Bound
    <2> SUFFICES ASSUME NEW f \in FenceKinds, Fencing(f) PROVE Gens /\ Bound
        OBVIOUS
    <2>0. PICK st, realm : FenceState(f, st, realm)
        BY Zenon DEF Fencing
    <2>1. \A s \in Subjects : [subject[s] EXCEPT !.revoked = TRUE, !.lease = 0].gen = subject[s].gen
        BY <1>0 DEF SubjectRow
    <2>2. \A g \in Grants : [grant[g] EXCEPT !.status = "revoked"].status = "revoked"
        BY <1>0 DEF GrantRow
    <2>3. \A s \in Subjects : subject'[s].gen = subject[s].gen
        BY <2>0, <2>1 DEF FenceState
    <2>4. Gens
        BY <1>0, <2>3
    <2>5. Bound
        BY <2>0, <2>2 DEF FenceState
    <2> QED
        BY <2>4, <2>5
<1> HIDE DEF Owners, Gens, Bound, Origins
<1>m. Owners /\ Gens /\ Bound /\ Origins => Monotone
    BY DEF Monotone, Owners, Gens, Bound, Origins
<1>1. CASE Tick \/ UNCHANGED vars
    BY <1>1, <1>a, <1>b, <1>c, <1>d, <1>m DEF Tick, vars
<1>2. ASSUME NEW f \in FenceRequests, NEW ok \in BOOLEAN, RecordFence(f, ok)
      PROVE  Monotone
    <2>1. f \in FenceKinds /\ (ok /\ f.kind = "swarm") \in BOOLEAN
        BY CoordinatorConstants
    <2>2. FenceState(f, status, ok /\ f.kind = "swarm") /\ owner' = owner /\ row' = row
        BY <1>2 DEF RecordFence
    <2> QED
        BY <2>1, <2>2, <1>a, <1>d, <1>e, <1>m DEF Fencing
<1>3. ASSUME NEW r \in Reservations, NEW result \in Results,
             Effect(r, result) \/ NoEffect(r, result)
      PROVE  Monotone
    BY <1>3, <1>a, <1>b, <1>c, <1>d, <1>m DEF Effect, NoEffect
<1>4. ASSUME NEW i \in Instances, Housekeep(i) \/ CheckRecovery(i)
      PROVE  Monotone
    BY <1>4, <1>a, <1>b, <1>c, <1>d, <1>m DEF Housekeep, CheckRecovery
<1>5. ASSUME NEW i \in Instances, NEW r \in Reservations, Deny(i, r) \/ GoOffline(i, r)
      PROVE  Monotone
    BY <1>5, <1>a, <1>b, <1>c, <1>d, <1>m DEF Deny, GoOffline
<1>6. ASSUME NEW i \in Instances, NEW r \in Reservations, NEW b \in Buckets,
             NEW S \in SUBSET Buckets, RefuseBudget(i, r, b, S)
      PROVE  Monotone
    BY <1>6, <1>a, <1>b, <1>c, <1>d, <1>m DEF RefuseBudget
<1>7. ASSUME NEW i \in Instances, NEW ok \in BOOLEAN, Start(i, ok)
      PROVE  Monotone
    <2>0. owner' = [id |-> i, fence |-> owner.fence + 1,
                    expires |-> now + OwnerLife, policy |-> Epoch[i]] /\ row' = row
        BY <1>7, Zenon DEF Start
    <2>1. owner'.fence = owner.fence + 1 /\ row' = row
        BY <2>0
    <2>2. \A s \in Subjects : [subject[s] EXCEPT !.lease = 0].gen = subject[s].gen
        BY <1>0 DEF SubjectRow
    <2>3. \A g \in Grants :
             [grant[g] EXCEPT !.status = "requires_revalidation"].status = "requires_revalidation"
        BY <1>0 DEF GrantRow
    <2>4. \A s \in Subjects : subject'[s].gen = subject[s].gen
        BY <1>7, <2>2 DEF Start
    <2>5. Owners
        BY <1>0, <2>1 DEF Owners
    <2>6. Gens
        BY <1>0, <2>4 DEF Gens
    <2>7. Bound
        BY <1>7, <2>3 DEF Start, Bound
    <2> QED
        BY <2>1, <2>5, <2>6, <2>7, <1>d, <1>m
<1>8. ASSUME NEW i \in Instances, NEW ok \in BOOLEAN, Heartbeat(i, ok)
      PROVE  Monotone
    <2>1. /\ owner' = [owner EXCEPT !.expires = now + OwnerLife]
          /\ subject' = subject /\ grant' = grant /\ row' = row
        BY <1>8 DEF Heartbeat
    <2>2. owner \in OwnerRow
        BY DEF Typed, RowsOK
    <2>3. owner'.fence = owner.fence
        BY <2>1, <2>2 DEF OwnerRow
    <2> QED
        BY <1>0, <2>1, <2>3, <1>b, <1>c, <1>d, <1>m DEF Owners
<1>9. ASSUME NEW i \in Instances, NEW ok \in BOOLEAN, ReconcileFence(i, ok)
      PROVE  Monotone
    <2>1. owner' = owner /\ grant' = grant /\ row' = row
        BY <1>9 DEF ReconcileFence
    <2>2. ASSUME NEW s \in Subjects
          PROVE  [subject[s] EXCEPT !.revoked = FALSE, !.lease = 0, !.gen = @ + 1].gen
                    = subject[s].gen + 1
        <3> DEFINE n == subject[s].gen + 1
                   z == [subject[s] EXCEPT !.revoked = FALSE, !.lease = 0]
        <3>1. z \in SubjectRow
            BY <1>0 DEF SubjectRow
        <3> HIDE DEF n, z
        <3>2. [z EXCEPT !.gen = n].gen = n
            BY <3>1 DEF SubjectRow
        <3> QED
            BY <3>2, Zenon DEF n, z
    <2>3. \A s \in Subjects : subject'[s].gen \in {subject[s].gen, subject[s].gen + 1}
        BY <1>9, <2>2 DEF ReconcileFence
    <2>4. Gens
        BY <1>0, <2>3 DEF Gens
    <2> QED
        BY <2>1, <2>4, <1>a, <1>c, <1>d, <1>m
<1>10. ASSUME NEW i \in Instances, NEW ok \in BOOLEAN, NEW s \in Subjects, Admit(i, s, ok)
       PROVE  Monotone
    <2> DEFINE n == IF subject[s].gen = 0 \/ now >= subject[s].lease
                          \/ subject[s].fence # owner.fence
                    THEN subject[s].gen + 1 ELSE subject[s].gen
               l == Least(now + LeaseLife, owner.expires)
    <2>1. owner' = owner /\ grant' = grant /\ row' = row
        BY <1>10 DEF Admit
    <2>2. subject' = [subject EXCEPT ![s] = [gen |-> n, revoked |-> FALSE, lease |-> l,
                                             fence |-> owner.fence]]
        BY <1>10 DEF Admit
    <2>3. subject[s].gen <= n
        BY <1>0
    <2> HIDE DEF n, l
    <2>4. Gens
        BY <1>0, <2>2, <2>3 DEF Gens, Typed, RowsOK
    <2> QED
        BY <2>1, <2>4, <1>a, <1>c, <1>d, <1>m
<1>11. ASSUME NEW i \in Instances, NEW ok \in BOOLEAN, NEW s \in Subjects, RevokeLease(i, s, ok)
       PROVE  Monotone
    <2>1. [kind |-> "agent", subject |-> s, action |-> None] \in FenceKinds
        BY DEF FenceKinds
    <2>2. FenceState([kind |-> "agent", subject |-> s, action |-> None], AfterExpiry, FALSE)
          /\ owner' = owner /\ row' = row
        BY <1>11 DEF RevokeLease
    <2> QED
        BY <2>1, <2>2, <1>a, <1>d, <1>e, <1>m DEF Fencing
<1>12. ASSUME NEW i \in Instances, NEW ok \in BOOLEAN, NEW g \in Grants, BindGrant(i, g, ok)
       PROVE  Monotone
    <2>1. /\ owner' = owner /\ subject' = subject /\ row' = row
          /\ grant[g].status # "revoked"
          /\ grant' = [grant EXCEPT ![g] = [status |-> "current",
                          gen |-> subject[Holder[g]].gen, fence |-> owner.fence]]
        BY <1>12 DEF BindGrant
    <2>2. Bound
        BY <2>1 DEF Bound, Typed, RowsOK
    <2> QED
        BY <2>1, <2>2, <1>a, <1>b, <1>d, <1>m
<1>13. ASSUME NEW i \in Instances, NEW ok \in BOOLEAN, NEW r \in Reservations, Evaluate(i, r, ok)
       PROVE  Monotone
    <2>1. owner' = owner /\ subject' = subject /\ grant' = grant /\ status[r] = "none"
        BY <1>13 DEF Evaluate
    <2>2. \A q \in Reservations : q # r => row'[q] = row[q]
        BY <1>13 DEF Evaluate, Typed, RowsOK
    <2>3. Origins
        BY <2>1, <2>2 DEF Origins
    <2> QED
        BY <2>1, <2>3, <1>a, <1>b, <1>c, <1>m
<1>14. ASSUME NEW i \in Instances, NEW ok \in BOOLEAN, NEW r \in Reservations,
              NEW ack \in BOOLEAN, Reserve(i, r, ok, ack)
       PROVE  Monotone
    <2> DEFINE x == Least(row[r].expires, Least(subject[Subj(r)].lease, now + HoldLife))
    <2>1. owner' = owner /\ subject' = subject /\ grant' = grant
          /\ row' = [row EXCEPT ![r] = [row[r] EXCEPT !.expires = x]]
        BY <1>14 DEF Reserve
    <2>2. row \in [Reservations -> ReservationRow]
        BY DEF Typed, RowsOK
    <2> HIDE DEF x
    <2>3. Origins
        BY <2>1, <2>2 DEF ReservationRow, Origins
    <2> QED
        BY <2>1, <2>3, <1>a, <1>b, <1>c, <1>m
<1>15. ASSUME NEW i \in Instances, NEW ok \in BOOLEAN, NEW r \in Reservations,
              \/ Cancel(i, r, ok) \/ Commit(i, r, ok)
              \/ Uncertain(i, r, ok) \/ RecordOutcome(i, r, ok)
              \/ \E ack \in BOOLEAN : BeginForward(i, r, ok, ack)
       PROVE  Monotone
    BY <1>15, <1>a, <1>b, <1>c, <1>d, <1>m
       DEF Cancel, Commit, Uncertain, RecordOutcome, BeginForward
<1> QED
    BY <1>1, <1>2, <1>3, <1>4, <1>5, <1>6, <1>7, <1>8, <1>9, <1>10, <1>11, <1>12, <1>13,
       <1>14, <1>15 DEF Next

\* What a step does to one reservation, and which steps do more than expire it.
LEMMA Moves ==
    ASSUME Typed, [Next]_vars, NEW r \in Reservations
    PROVE  \/ Quiet(r, status'[r])
           \/ /\ status[r] = "none" /\ status'[r] = "previewed"
              /\ \E i \in Instances, ok \in BOOLEAN : Evaluate(i, r, ok)
           \/ /\ status[r] = "previewed" /\ status'[r] = "reserved"
              /\ \E i \in Instances, ok, ack \in BOOLEAN : Reserve(i, r, ok, ack)
           \/ /\ status[r] \in {"forwarding", "uncertain"} /\ status'[r] = "committed"
              /\ \E i \in Instances, ok \in BOOLEAN : Commit(i, r, ok)
<1>1. CASE AllQuiet
    BY <1>1 DEF AllQuiet
<1>2. ASSUME NEW q \in Reservations, Booking(q), q # r
      PROVE  Quiet(r, status'[r])
    BY <1>2, BookingStep DEF OthersQuiet, Typed
<1>3. CASE Booking(r)
    <2>1. \/ status[r] = "none" /\ status'[r] = "previewed"
          \/ status[r] = "previewed" /\ status'[r] = "reserved"
          \/ status[r] \in {"forwarding", "uncertain"} /\ status'[r] = "committed"
        BY <1>3, BookingStep DEF Typed
    <2>2. PICK i \in Instances, ok \in BOOLEAN :
             Evaluate(i, r, ok) \/ Commit(i, r, ok) \/ \E ack \in BOOLEAN : Reserve(i, r, ok, ack)
        BY <1>3 DEF Booking
    <2>3. CASE Evaluate(i, r, ok)
        <3>1. status[r] = "none"
            BY <2>3 DEF Evaluate
        <3> QED
            BY <2>1, <2>3, <3>1
    <2>4. CASE Commit(i, r, ok)
        <3>1. status[r] \in {"forwarding", "uncertain"}
            BY <2>4 DEF Commit
        <3> QED
            BY <2>1, <2>4, <3>1
    <2>5. ASSUME NEW ack \in BOOLEAN, Reserve(i, r, ok, ack)
          PROVE  /\ status[r] = "previewed" /\ status'[r] = "reserved"
                 /\ \E j \in Instances, o, a \in BOOLEAN : Reserve(j, r, o, a)
        <3>1. status[r] = "previewed"
            BY <2>5 DEF Reserve, Reservable
        <3> QED
            BY <2>1, <2>5, <3>1
    <2> QED
        BY <2>2, <2>3, <2>4, <2>5
<1> QED
    BY <1>1, <1>2, <1>3, QuietStep DEF Typed

\* Forwarding begins in begin_forward only.
LEMMA ForwardStep ==
    ASSUME Typed, [Next]_vars, NEW r \in Reservations,
           status[r] # "forwarding", status'[r] = "forwarding"
    PROVE  \E i \in Instances, ok, ack \in BOOLEAN : BeginForward(i, r, ok, ack)
<1> SUFFICES ASSUME \A i \in Instances, ok, ack \in BOOLEAN : ~BeginForward(i, r, ok, ack)
             PROVE  FALSE
    OBVIOUS
<1>0. Expired(r) # "forwarding"
    BY DEF Expired
<1>a. status' # status /\ status' # AfterExpiry
    BY <1>0 DEF AfterExpiry
<1>b. ASSUME NEW q \in Reservations, NEW st, q # r \/ st # "forwarding"
      PROVE  status' # [AfterExpiry EXCEPT ![q] = st]
    BY <1>0, <1>b DEF AfterExpiry
<1>c. ASSUME NEW f, NEW realm
      PROVE  ~FenceState(f, status, realm) /\ ~FenceState(f, AfterExpiry, realm)
    <2>1. AfterExpiry[r] # "forwarding"
        BY <1>0 DEF AfterExpiry
    <2>2. ~FenceState(f, status, realm)
        BY DEF FenceState
    <2>3. ~FenceState(f, AfterExpiry, realm)
        BY <2>1 DEF FenceState
    <2> QED
        BY <2>2, <2>3
<1>1. CASE Tick \/ UNCHANGED vars
    BY <1>1, <1>a DEF Tick, vars
<1>2. ASSUME NEW f \in FenceRequests, NEW ok \in BOOLEAN, RecordFence(f, ok)
      PROVE  FALSE
    BY <1>2, <1>c DEF RecordFence
<1>3. ASSUME NEW q \in Reservations, NEW result \in Results,
             Effect(q, result) \/ NoEffect(q, result)
      PROVE  FALSE
    BY <1>3, <1>a DEF Effect, NoEffect
<1>4. ASSUME NEW i \in Instances, Housekeep(i) \/ CheckRecovery(i)
      PROVE  FALSE
    BY <1>4, <1>a DEF Housekeep, CheckRecovery
<1>5. ASSUME NEW i \in Instances, NEW q \in Reservations, Deny(i, q) \/ GoOffline(i, q)
      PROVE  FALSE
    BY <1>5, <1>a DEF Deny, GoOffline
<1>6. ASSUME NEW i \in Instances, NEW q \in Reservations, NEW b \in Buckets,
             NEW S \in SUBSET Buckets, RefuseBudget(i, q, b, S)
      PROVE  FALSE
    BY <1>6, <1>a DEF RefuseBudget
<1>7. ASSUME NEW i \in Instances, NEW ok \in BOOLEAN, Start(i, ok)
      PROVE  FALSE
    <2>1. status'[r] = TakenOver(r)
        BY <1>7 DEF Start
    <2> QED
        BY <2>1 DEF TakenOver
<1>8. ASSUME NEW i \in Instances, NEW ok \in BOOLEAN,
             Heartbeat(i, ok) \/ ReconcileFence(i, ok)
      PROVE  FALSE
    BY <1>8, <1>a DEF Heartbeat, ReconcileFence
<1>9. ASSUME NEW i \in Instances, NEW ok \in BOOLEAN, NEW s \in Subjects,
             Admit(i, s, ok) \/ RevokeLease(i, s, ok)
      PROVE  FALSE
    BY <1>9, <1>a, <1>c DEF Admit, RevokeLease
<1>10. ASSUME NEW i \in Instances, NEW ok \in BOOLEAN, NEW g \in Grants, BindGrant(i, g, ok)
       PROVE  FALSE
    BY <1>10, <1>a DEF BindGrant
<1>11. ASSUME NEW i \in Instances, NEW ok \in BOOLEAN, NEW q \in Reservations,
              \/ Evaluate(i, q, ok) \/ Cancel(i, q, ok) \/ Commit(i, q, ok)
              \/ Uncertain(i, q, ok) \/ \E ack \in BOOLEAN : Reserve(i, q, ok, ack)
       PROVE  FALSE
    BY <1>11, <1>b DEF Evaluate, Cancel, Commit, Uncertain, Reserve
<1>12. ASSUME NEW i \in Instances, NEW ok \in BOOLEAN, NEW q \in Reservations,
              RecordOutcome(i, q, ok)
       PROVE  FALSE
    BY <1>12, <1>a, Zenon DEF RecordOutcome
<1>13. ASSUME NEW i \in Instances, NEW ok \in BOOLEAN, NEW q \in Reservations,
              NEW ack \in BOOLEAN, BeginForward(i, q, ok, ack)
       PROVE  FALSE
    <2>1. q # r
        BY <1>13
    <2> QED
        BY <2>1, <1>13, <1>b DEF BeginForward
<1> QED
    BY <1>1, <1>2, <1>3, <1>4, <1>5, <1>6, <1>7, <1>8, <1>9, <1>10, <1>11, <1>12, <1>13
       DEF Next

\* What a step does to what objects verified, recorded and dispatched.
LEMMA MemorySteps ==
    ASSUME [Next]_vars
    PROVE  \/ UNCHANGED <<verified, outcome, dispatch>>
           \/ \E i \in Instances : CheckRecovery(i)
           \/ Reconciling
           \/ \E i \in Instances, r \in Reservations, ok \in BOOLEAN : RecordOutcome(i, r, ok)
           \/ \E r \in Reservations, result \in Results : Effect(r, result) \/ NoEffect(r, result)
           \/ \E i \in Instances, r \in Reservations, ok, ack \in BOOLEAN : BeginForward(i, r, ok, ack)
<1> DEFINE Kept == UNCHANGED <<verified, outcome, dispatch>>
<1>1. CASE Tick \/ UNCHANGED vars
    BY <1>1 DEF Tick, vars, incident, memory
<1>2. ASSUME NEW f \in FenceRequests, NEW ok \in BOOLEAN, RecordFence(f, ok)
      PROVE  Kept
    BY <1>2 DEF RecordFence, memory
<1>3. ASSUME NEW i \in Instances, Housekeep(i)
      PROVE  Kept
    BY <1>3 DEF Housekeep, incident, memory
<1>4. ASSUME NEW i \in Instances, NEW r \in Reservations, Deny(i, r) \/ GoOffline(i, r)
      PROVE  Kept
    BY <1>4 DEF Deny, GoOffline, incident, memory
<1>5. ASSUME NEW i \in Instances, NEW r \in Reservations, NEW b \in Buckets,
             NEW S \in SUBSET Buckets, RefuseBudget(i, r, b, S)
      PROVE  Kept
    BY <1>5 DEF RefuseBudget, incident, memory
<1>6. ASSUME NEW i \in Instances, NEW ok \in BOOLEAN, Start(i, ok) \/ Heartbeat(i, ok)
      PROVE  Kept
    BY <1>6 DEF Start, Heartbeat, incident, memory
<1>7. ASSUME NEW i \in Instances, NEW ok \in BOOLEAN, NEW s \in Subjects,
             Admit(i, s, ok) \/ RevokeLease(i, s, ok)
      PROVE  Kept
    BY <1>7 DEF Admit, RevokeLease, incident, memory
<1>8. ASSUME NEW i \in Instances, NEW ok \in BOOLEAN, NEW g \in Grants, BindGrant(i, g, ok)
      PROVE  Kept
    BY <1>8 DEF BindGrant, incident, memory
<1>9. ASSUME NEW i \in Instances, NEW ok \in BOOLEAN, NEW r \in Reservations,
             \/ Evaluate(i, r, ok) \/ Cancel(i, r, ok) \/ Commit(i, r, ok)
             \/ Uncertain(i, r, ok) \/ \E ack \in BOOLEAN : Reserve(i, r, ok, ack)
      PROVE  Kept
    BY <1>9 DEF Evaluate, Cancel, Commit, Uncertain, Reserve, incident, memory
<1> QED
    BY <1>1, <1>2, <1>3, <1>4, <1>5, <1>6, <1>7, <1>8, <1>9 DEF Next, Reconciling

LEMMA IntentRows ==
    ASSUME Typed
    PROVE  /\ Len(fences) \in Nat /\ (Len(fences) > 0 => Len(fences) \in DOMAIN fences)
           /\ \A e \in DOMAIN fences :
                 e \in Nat /\ e > 0 /\ e <= Len(fences) /\ fences[e].owner \in Nat
<1>1. fences \in Seq(Intents)
    BY DEF Typed, RowsOK
<1>2. Len(fences) \in Nat /\ (Len(fences) > 0 => Len(fences) \in DOMAIN fences)
      /\ \A e \in DOMAIN fences : fences[e] \in Intents /\ e \in Nat /\ e > 0 /\ e <= Len(fences)
    BY <1>1
<1>3. \A n \in Intents : n.owner \in Nat
    BY DEF Intents
<1> QED
    BY <1>2, <1>3

LEMMA OrderedStep == Typed /\ Ordered /\ [Next]_vars => Ordered'
<1> SUFFICES ASSUME Typed, Ordered, [Next]_vars PROVE Ordered'
    OBVIOUS
<1>1. owner.fence \in Nat /\ owner'.fence \in Nat /\ owner.fence <= owner'.fence
    BY MonotoneStep, RowsStep, OwnerFacts DEF Monotone, Typed, RowsOK, OwnerRow
<1>2. \A e \in DOMAIN fences : fences[e].owner \in Nat /\ e \in Nat /\ e <= Len(fences)
    BY IntentRows
<1>3. \A e \in DOMAIN fences' :
         \/ e \in DOMAIN fences /\ fences'[e].owner = fences[e].owner
         \/ e = Len(fences) + 1 /\ fences'[e].owner = owner.fence
    BY IntentsStay, FencingAppends DEF Same
<1>4. Len(fences) \in Nat
    BY DEF Typed, RowsOK
<1>5. \A e \in DOMAIN fences' : fences'[e].owner <= owner'.fence
    BY <1>1, <1>2, <1>3 DEF Ordered
<1>6. ASSUME NEW e \in DOMAIN fences', NEW d \in DOMAIN fences', d <= e
      PROVE  fences'[d].owner <= fences'[e].owner
    BY <1>1, <1>2, <1>3, <1>4, <1>6 DEF Ordered
<1> QED
    BY <1>5, <1>6 DEF Ordered

LEMMA VerifiedStep == Typed /\ Verified /\ [Next]_vars => Verified'
<1> SUFFICES ASSUME Typed, Verified, [Next]_vars, NEW j \in Instances, verified'[j].epoch # 0
             PROVE  /\ verified'[j].epoch \in DOMAIN fences'
                    /\ fences'[verified'[j].epoch].owner < verified'[j].fence
    BY DEF Verified
<1>1. CASE verified'[j] = verified[j]
    BY <1>1, IntentsKept DEF Verified, Same
<1>2. ASSUME NEW i \in Instances, CheckRecovery(i), verified'[j] # verified[j]
      PROVE  /\ verified'[j].epoch \in DOMAIN fences'
             /\ fences'[verified'[j].epoch].owner < verified'[j].fence
    <2>1. /\ verified' = [verified EXCEPT ![i] = [epoch |-> Len(fences), fence |-> owner.fence]]
          /\ Len(fences) > 0 /\ owner.fence > fences[Len(fences)].owner /\ fences' = fences
        BY <1>2 DEF CheckRecovery, Pending, Newest, incident
    <2>2. verified'[j] = [epoch |-> Len(fences), fence |-> owner.fence]
        BY <1>2, <2>1 DEF Typed, RowsOK
    <2>3. Len(fences) \in DOMAIN fences /\ fences[Len(fences)].owner \in Nat
        BY <2>1, IntentRows
    <2> QED
        BY <2>1, <2>2, <2>3, OwnerFacts DEF Typed
<1>3. ASSUME Reconciling, verified'[j] # verified[j] PROVE FALSE
    <2>1. PICK i \in Instances : verified' = [verified EXCEPT ![i] = [epoch |-> 0, fence |-> 0]]
        BY <1>3, Zenon DEF Reconciling, ReconcileFence
    <2> QED
        BY <1>3, <2>1 DEF Typed, RowsOK
<1>4. ASSUME NEW i \in Instances, NEW r \in Reservations, NEW ok \in BOOLEAN,
             RecordOutcome(i, r, ok) \/ \E ack \in BOOLEAN : BeginForward(i, r, ok, ack)
      PROVE  verified' = verified
    BY <1>4 DEF RecordOutcome, BeginForward, memory
<1>5. ASSUME NEW r \in Reservations, NEW result \in Results,
             Effect(r, result) \/ NoEffect(r, result)
      PROVE  verified' = verified
    BY <1>5 DEF Effect, NoEffect
<1> QED
    BY <1>1, <1>2, <1>3, <1>4, <1>5, MemorySteps

\* Recovery needs a newer owner than that of every intent.
LEMMA RecoveredLater ==
    ASSUME Typed, Ordered, Verified, NEW i \in Instances, NEW ok \in BOOLEAN,
           ReconcileFence(i, ok), NEW e \in DOMAIN fences
    PROVE  fences[e].owner < owner.fence
<1>1. verified[i] = [epoch |-> Len(fences), fence |-> owner.fence] /\ Len(fences) > 0
    BY Zenon DEF ReconcileFence, StillVerified, Pending
<1>2. /\ Len(fences) \in DOMAIN fences /\ e <= Len(fences) /\ Len(fences) # 0
      /\ fences[e].owner \in Nat /\ fences[Len(fences)].owner \in Nat
    BY <1>1, IntentRows
<1>3. fences[Len(fences)].owner < owner.fence
    BY <1>1, <1>2 DEF Verified
<1>4. fences[e].owner <= fences[Len(fences)].owner
    BY <1>2 DEF Ordered
<1> QED
    BY <1>2, <1>3, <1>4, OwnerFacts DEF Typed

LEMMA Constants ==
    ASSUME NEW r \in Reservations
    PROVE  /\ Subj(r) \in Subjects
           /\ GrantOf[r] \in Ancestry[GrantOf[r]] /\ Ancestry[GrantOf[r]] \subseteq Grants
BY CoordinatorConstants DEF Subj

LEMMA EvaluatedStep == Typed /\ Evaluated /\ [Next]_vars => Evaluated'
<1> SUFFICES ASSUME Typed, Evaluated, [Next]_vars, NEW r \in Reservations, status'[r] # "none"
             PROVE  /\ subject'[Subj(r)].gen > 0
                    /\ row'[r].fence <= owner'.fence
                    /\ \A h \in Ancestry[GrantOf[r]] : grant'[h].status # "none"
    BY DEF Evaluated, Subj
<1>1. owner.fence \in Nat /\ owner'.fence \in Nat /\ row[r].fence \in Nat
    BY RowsStep, OwnerFacts DEF Typed, RowsOK, OwnerRow, ReservationRow
<1>2. subject[Subj(r)].gen \in Nat /\ subject'[Subj(r)].gen \in Nat
    BY Constants, RowsStep, SubjectFields DEF Typed, RowsOK
<1>3. CASE status[r] # "none"
    BY <1>1, <1>2, <1>3, MonotoneStep, Constants DEF Monotone, Evaluated
<1>4. CASE status[r] = "none"
    <2>1. PICK i \in Instances, ok \in BOOLEAN : Evaluate(i, r, ok)
        BY <1>4, Moves DEF Quiet
    <2>2. owner' = owner /\ subject' = subject /\ grant' = grant /\ subject[Subj(r)].gen > 0
          /\ GrantCurrent(GrantOf[r])
        BY <2>1 DEF Evaluate, Leased
    <2>3. row'[r].fence = owner.fence
        BY <2>1 DEF Evaluate, Typed, RowsOK
    <2> QED
        BY <1>1, <2>2, <2>3 DEF GrantCurrent
<1> QED
    BY <1>3, <1>4

LEMMA ReportsStep == Typed /\ Reports /\ [Next]_vars => Reports'
<1> SUFFICES ASSUME Typed, Reports, [Next]_vars, NEW r \in Reservations
             PROVE  /\ outcome'[r] # 0 => dispatch'[r] \in Results
                    /\ dispatch'[r] # "idle" => status'[r] \in {"forwarding", "uncertain", "committed"}
                    /\ dispatch'[r] = "begun" => status'[r] # "committed"
    BY DEF Reports
<1>1. status[r] \in {"forwarding", "uncertain", "committed"}
         => status'[r] \in {"forwarding", "uncertain", "committed"}
    BY Moves DEF Quiet
<1>2. dispatch[r] = "begun" => status'[r] # "committed"
    <2>1. \A i \in Instances, ok \in BOOLEAN : Commit(i, r, ok) => dispatch[r] = "completed"
        BY DEF Commit
    <2>2. dispatch[r] = "begun" => status[r] # "committed"
        BY DEF Reports
    <2> QED
        BY <2>1, <2>2, Moves DEF Quiet
<1>3. CASE dispatch'[r] = dispatch[r] /\ outcome'[r] = outcome[r]
    BY <1>1, <1>2, <1>3 DEF Reports
<1>4. ASSUME NEW i \in Instances, CheckRecovery(i) \/ \E ok \in BOOLEAN : ReconcileFence(i, ok)
      PROVE  dispatch' = dispatch /\ outcome' = outcome
    BY <1>4 DEF CheckRecovery, ReconcileFence, incident
<1>5. ASSUME NEW i \in Instances, NEW q \in Reservations, NEW ok \in BOOLEAN,
             RecordOutcome(i, q, ok), q = r
      PROVE  dispatch' = dispatch /\ dispatch[r] \in Results
    BY <1>5 DEF RecordOutcome, memory
<1>6. ASSUME NEW i \in Instances, NEW q \in Reservations, NEW ok \in BOOLEAN,
             RecordOutcome(i, q, ok), q # r
      PROVE  dispatch' = dispatch /\ outcome'[r] = outcome[r]
    BY <1>6 DEF RecordOutcome, memory, Typed, RowsOK
<1>7. ASSUME NEW q \in Reservations, NEW result \in Results,
             Effect(q, result) \/ NoEffect(q, result), q = r
      PROVE  /\ dispatch'[r] \in Results /\ status' = status
             /\ dispatch[r] = "begun" \/ status[r] \in {"forwarding", "uncertain"}
    BY <1>7 DEF Effect, NoEffect, Typed, ProgressOK
<1>8. ASSUME NEW q \in Reservations, NEW result \in Results,
             Effect(q, result) \/ NoEffect(q, result), q # r
      PROVE  dispatch'[r] = dispatch[r] /\ outcome' = outcome
    BY <1>8 DEF Effect, NoEffect, Typed, ProgressOK, incident
<1>9. ASSUME NEW i \in Instances, NEW q \in Reservations, NEW ok \in BOOLEAN, NEW ack \in BOOLEAN,
             BeginForward(i, q, ok, ack), q = r
      PROVE  /\ status[r] = "reserved" /\ status'[r] = "forwarding" /\ outcome' = outcome
    BY <1>9, ExpiryQuiet DEF BeginForward, AfterExpiry, Typed, incident
<1>10. ASSUME NEW i \in Instances, NEW q \in Reservations, NEW ok \in BOOLEAN, NEW ack \in BOOLEAN,
              BeginForward(i, q, ok, ack), q # r
       PROVE  dispatch'[r] = dispatch[r] /\ outcome' = outcome
    BY <1>10 DEF BeginForward, Typed, ProgressOK, incident
<1>11. "begun" \notin Results /\ "idle" \notin Results
    BY DEF Results
<1> QED
    BY <1>1, <1>3, <1>4, <1>5, <1>6, <1>7, <1>8, <1>9, <1>10, <1>11, MemorySteps
       DEF Reconciling, Reports

\* A fence that covers the workload of r has it among its targets.
LEMMA CoveredIsTarget ==
    ASSUME NEW f \in FenceKinds, NEW r \in Reservations, NEW n,
           n.fence = f, n.subjects = Targets(f), subject[Subj(r)].gen > 0,
           Covers(n, r), f.kind # "action"
    PROVE  Subj(r) \in Targets(f)
<1> DEFINE s == Subj(r)
<1>1. s \in Admitted
    BY Constants DEF Admitted
<1>2. f.kind = "swarm" => s \in Targets(f)
    BY <1>1 DEF Targets
<1>3. f.kind = "agent" /\ f.subject = s => s \in Targets(f)
    BY <1>1 DEF Targets
<1>4. f.kind = "subtree" /\ f.subject = s => s \in Targets(f)
    BY <1>1 DEF Targets, Subtree
<1>5. ASSUME f.kind = "subtree", f.subject = Parent[s], f.subject \in Targets(f)
      PROVE  s \in Targets(f)
    <2>1. f.subject \in Admitted /\ Targets(f) = Subtree(f.subject)
        BY <1>5 DEF Targets
    <2>2. s \in Subtree(f.subject)
        BY <1>1, <1>5 DEF Subtree
    <2> QED
        BY <2>1, <2>2
<1> QED
    BY <1>2, <1>3, <1>4, <1>5 DEF Covers

\* What a fence does to a reservation there is.
LEMMA FenceStops ==
    ASSUME Typed, Evaluated, [Next]_vars, NEW f \in FenceKinds, Fencing(f),
           NEW r \in Reservations, status[r] # "none",
           NEW n, n.fence = f, n.subjects = Targets(f), n.reservations = Affected(f),
           n.owner = owner.fence
    PROVE  /\ row'[r].fence <= n.owner
           /\ \A h \in Ancestry[GrantOf[r]] :
                 Holder[h] \in n.subjects => grant'[h].status = "revoked"
           /\ Covers(n, r) =>
                 /\ n.fence.kind # "action" => Subj(r) \in n.subjects
                 /\ status'[r] # "reserved"
                 /\ status'[r] \in Live => r \in n.reservations
                 /\ n.fence.kind = "action" => <<n.fence.action, n.fence.subject>> \in banned'
<1>0. PICK st, realm : FenceState(f, st, realm) /\ st \in {status, AfterExpiry}
    BY Zenon DEF Fencing
<1>1. row'[r].fence <= n.owner
    BY MonotoneStep DEF Monotone, Evaluated
<1>2. ASSUME NEW h \in Ancestry[GrantOf[r]], Holder[h] \in n.subjects
      PROVE  grant'[h].status = "revoked"
    <2>1. h \in Grants /\ grant[h].status # "none" /\ grant[h] \in GrantRow
        BY Constants DEF Evaluated, Typed, RowsOK
    <2>2. [grant[h] EXCEPT !.status = "revoked"].status = "revoked"
        BY <2>1 DEF GrantRow
    <2> QED
        BY <1>0, <1>2, <2>1, <2>2 DEF FenceState
<1>3. st[r] \in {status[r], Expired(r)}
    BY <1>0 DEF AfterExpiry
<1>4. status'[r] = IF r \notin Affected(f) THEN st[r]
                   ELSE IF st[r] = "reserved" THEN "canceled"
                   ELSE IF st[r] = "forwarding" THEN "uncertain" ELSE st[r]
    BY <1>0 DEF FenceState
<1>5. ASSUME Covers(n, r)
      PROVE  /\ n.fence.kind # "action" => Subj(r) \in n.subjects
             /\ status'[r] # "reserved"
             /\ status'[r] \in Live => r \in n.reservations
             /\ n.fence.kind = "action" => <<n.fence.action, n.fence.subject>> \in banned'
    <2>1. f.kind # "action" => Subj(r) \in Targets(f)
        BY <1>5, CoveredIsTarget DEF Evaluated
    <2>2. f.kind = "action" => ActionOf[r] = f.action /\ f.subject \in {None, Subj(r)}
        BY <1>5 DEF Covers
    <2>3. status[r] \in Booked => r \in Affected(f)
        BY <2>1, <2>2 DEF Affected
    <2>4. Expired(r) = "reserved" => status[r] = "reserved"
        BY DEF Expired
    <2>5. Expired(r) \in Live => status[r] \in Live
        BY DEF Expired, Live
    <2>6. status'[r] # "reserved"
        BY <1>3, <1>4, <2>3, <2>4 DEF Booked, Live
    <2>7. status'[r] \in Live => r \in Affected(f)
        BY <1>3, <1>4, <2>3, <2>5 DEF Booked
    <2>8. f.kind = "action" => <<f.action, f.subject>> \in banned'
        BY FencingAppends
    <2> QED
        BY <2>1, <2>6, <2>7, <2>8
<1> QED
    BY <1>1, <1>2, <1>5

\* What has been stopped stays stopped, whoever recovers and takes over.
LEMMA StoppedStays ==
    ASSUME Typed, LiveIsCurrent, Ordered, Verified, [Next]_vars,
           NEW r \in Reservations, status[r] # "none", NEW e \in DOMAIN fences,
           Stopped(fences[e], r)
    PROVE  /\ row'[r].fence <= fences[e].owner
           /\ \A h \in Ancestry[GrantOf[r]] :
                 Holder[h] \in fences[e].subjects => grant'[h].status = "revoked"
           /\ Covers(fences[e], r) =>
                 /\ fences[e].fence.kind # "action" => Subj(r) \in fences[e].subjects
                 /\ status'[r] # "reserved"
                 /\ status'[r] \in Live => r \in fences[e].reservations
                 /\ (fences[e].fence.kind = "action" /\ status'[r] = "previewed")
                       => <<fences[e].fence.action, fences[e].fence.subject>> \in banned'
<1>1. row'[r].fence <= fences[e].owner
    BY MonotoneStep DEF Monotone, Stopped
<1>2. \A h \in Ancestry[GrantOf[r]] :
         Holder[h] \in fences[e].subjects => grant'[h].status = "revoked"
    BY MonotoneStep, Constants DEF Monotone, Stopped
<1>3. ASSUME Covers(fences[e], r)
      PROVE  /\ fences[e].fence.kind # "action" => Subj(r) \in fences[e].subjects
             /\ status'[r] # "reserved"
             /\ status'[r] \in Live => r \in fences[e].reservations
             /\ (fences[e].fence.kind = "action" /\ status'[r] = "previewed")
                   => <<fences[e].fence.action, fences[e].fence.subject>> \in banned'
    <2>1. Caught(fences[e], r)
        BY <1>3 DEF Stopped
    <2>2. ASSUME NEW i \in Instances, NEW ok \in BOOLEAN, NEW ack \in BOOLEAN, Reserve(i, r, ok, ack)
          PROVE  FALSE
        <3>1. GrantCurrent(GrantOf[r]) /\ status[r] = "previewed" /\ ~Banned(r)
            BY <2>2, Zenon DEF Reserve, Reservable
        <3>2. CASE fences[e].fence.kind # "action"
            <4>1. Holder[GrantOf[r]] \in fences[e].subjects
                BY <2>1, <3>2 DEF Caught, Subj
            <4>2. grant[GrantOf[r]].status = "revoked"
                BY <4>1, Constants DEF Stopped
            <4> QED
                BY <3>1, <4>2, Constants DEF GrantCurrent
        <3>3. CASE fences[e].fence.kind = "action"
            <4>1. <<fences[e].fence.action, fences[e].fence.subject>> \in banned
                BY <2>1, <3>1, <3>3 DEF Caught
            <4>2. fences[e].fence.action = ActionOf[r] /\ fences[e].fence.subject \in {None, Subj(r)}
                BY <1>3, <3>3 DEF Covers
            <4> QED
                BY <3>1, <4>1, <4>2 DEF Banned
        <3> QED
            BY <3>2, <3>3
    <2>3. \/ Quiet(r, status'[r])
          \/ status[r] \in {"forwarding", "uncertain"} /\ status'[r] = "committed"
        BY <2>2, Moves
    <2>4. status'[r] # "reserved" /\ (status'[r] \in Live => status[r] \in Live)
          /\ (status'[r] = "previewed" => status[r] = "previewed")
        BY <2>1, <2>3 DEF Quiet, Caught, Live
    <2>5. ASSUME fences[e].fence.kind = "action", status'[r] = "previewed"
          PROVE  <<fences[e].fence.action, fences[e].fence.subject>> \in banned'
        <3>1. <<fences[e].fence.action, fences[e].fence.subject>> \in banned
            BY <2>1, <2>4, <2>5 DEF Caught
        <3>2. ASSUME NEW i \in Instances, NEW ok \in BOOLEAN, ReconcileFence(i, ok)
              PROVE  FALSE
            <4>1. fences[e].owner < owner.fence
                BY <3>2, RecoveredLater
            <4>2. row[r].fence = owner.fence
                BY <2>4, <2>5 DEF LiveIsCurrent
            <4>3. row[r].fence <= fences[e].owner
                BY DEF Stopped
            <4> QED
                BY <4>1, <4>2, <4>3, IntentRows, OwnerFacts DEF Typed
        <3>3. ASSUME NEW f \in FenceKinds, Fencing(f) PROVE banned \subseteq banned'
            BY <3>3, FencingAppends
        <3> QED
            BY <3>1, <3>2, <3>3, FenceSteps DEF Reconciling
    <2> QED
        BY <2>1, <2>4, <2>5 DEF Caught
<1> QED
    BY <1>1, <1>2, <1>3

LEMMA ReachedStep ==
    /\ Typed /\ LiveIsCurrent /\ Ordered /\ Verified /\ Evaluated /\ Reached
    /\ [Next]_vars
    => Reached'
<1> SUFFICES ASSUME Typed, LiveIsCurrent, Ordered, Verified, Evaluated, Reached, [Next]_vars,
                    NEW r \in Reservations, status'[r] # "none",
                    NEW e \in DOMAIN fences', row'[r].epoch < e
             PROVE  Stopped(fences[e], r)'
    BY DEF Reached
<1>1. CASE status[r] = "none"
    <2>1. PICK i \in Instances, ok \in BOOLEAN : Evaluate(i, r, ok)
        BY <1>1, Moves DEF Quiet
    <2>2. row'[r].epoch = Len(fences) /\ fences' = fences
        BY <2>1 DEF Evaluate, incident, Typed, RowsOK
    <2> QED
        BY <2>2, IntentRows
<1>2. CASE status[r] # "none" /\ e \in DOMAIN fences /\ Same(fences[e], fences'[e])
    <2>1. row[r].epoch < e
        BY <1>2, MonotoneStep DEF Monotone
    <2>2. Stopped(fences[e], r)
        BY <1>2, <2>1 DEF Reached
    <2>3. Covers(fences[e], r)' => Covers(fences[e], r)
        BY <1>2 DEF Covers, Same, Subj
    <2> QED
        BY <1>2, <2>2, <2>3, StoppedStays DEF Stopped, Caught, Same, Subj
<1>3. ASSUME NEW f \in FenceKinds, Fencing(f), e = Len(fences) + 1, status[r] # "none"
      PROVE  Stopped(fences[e], r)'
    <2> DEFINE n == fences'[e]
    <2>1. /\ n.fence = f /\ n.subjects = Targets(f) /\ n.reservations = Affected(f)
          /\ n.owner = owner.fence
        BY <1>3, FencingAppends
    <2>2. Covers(fences[e], r)' => Covers(n, r)
        BY DEF Covers, Subj
    <2> HIDE DEF n
    <2>3. /\ row'[r].fence <= n.owner
          /\ \A h \in Ancestry[GrantOf[r]] :
                Holder[h] \in n.subjects => grant'[h].status = "revoked"
          /\ Covers(n, r) =>
                /\ n.fence.kind # "action" => Subj(r) \in n.subjects
                /\ status'[r] # "reserved"
                /\ status'[r] \in Live => r \in n.reservations
                /\ n.fence.kind = "action" => <<n.fence.action, n.fence.subject>> \in banned'
        BY <1>3, <2>1, FenceStops
    <2> QED
        BY <2>2, <2>3 DEF n, Stopped, Caught, Subj
<1> QED
    BY <1>1, <1>2, <1>3, IntentsStay

LEMMA ContainedStep == CInv /\ [Next]_vars => CInv'
BY RowsStep, ProgressStep, LiveIsCurrentStep, OrderedStep, VerifiedStep, EvaluatedStep,
   ReachedStep, ReportsStep DEF CInv, Typed, Contained

LEMMA Containment == Spec => []CInv
<1>1. Init => LiveIsCurrent /\ Ordered /\ Verified /\ Evaluated /\ Reached /\ Reports
    BY DEF Init, LiveIsCurrent, Ordered, Verified, Evaluated, Reached, Reports
<1>2. Init /\ Typed => CInv
    BY <1>1 DEF CInv, Contained
<1> QED
    BY <1>2, Rows, Progress, ContainedStep, PTL DEF Spec, Typed

\* No interleaving of fences, recoveries, takeovers and new admissions lets
\* begin_forward go on with work evaluated before a fence that covers it, or
\* under a grant that derives from a workload the fence revoked.
THEOREM FencedStaysStopped == Spec => FencedWorkStaysStopped
<1>1. ASSUME CInv, [Next]_vars, NEW r \in Reservations,
             status[r] # "forwarding", status'[r] = "forwarding",
             NEW e \in DOMAIN fences, row[r].epoch < e
      PROVE  /\ ~Covers(fences[e], r)
             /\ \A h \in Ancestry[GrantOf[r]] : Holder[h] \notin fences[e].subjects
    <2>1. PICK i \in Instances, ok \in BOOLEAN, ack \in BOOLEAN : BeginForward(i, r, ok, ack)
        BY <1>1, ForwardStep DEF CInv
    <2>2. GrantCurrent(GrantOf[r]) /\ Expired(r) = "reserved"
        BY <2>1, Zenon DEF BeginForward, Current
    <2>3. status[r] = "reserved"
        BY <2>2 DEF Expired
    <2>4. Stopped(fences[e], r)
        BY <1>1, <2>3 DEF CInv, Contained, Reached
    <2> QED
        BY <2>2, <2>3, <2>4, Constants DEF Stopped, Caught, GrantCurrent
<1>2. CInv /\ [Next]_vars =>
        \A r \in Reservations : (status[r] # "forwarding" /\ status'[r] = "forwarding")
          => \A e \in DOMAIN fences : row[r].epoch < e =>
                /\ ~Covers(fences[e], r)
                /\ \A h \in Ancestry[GrantOf[r]] : Holder[h] \notin fences[e].subjects
    BY <1>1
<1>3. CInv /\ [Next]_vars =>
        [\A r \in Reservations : (status[r] # "forwarding" /\ status'[r] = "forwarding")
          => \A e \in DOMAIN fences : row[r].epoch < e =>
                /\ ~Covers(fences[e], r)
                /\ \A h \in Ancestry[GrantOf[r]] : Holder[h] \notin fences[e].subjects]_vars
    BY <1>2
<1> QED
    BY <1>3, Containment, PTL DEF Spec, FencedWorkStaysStopped

\* reconcile_fence never lifts a fence while an action it covers may still be
\* carried out by a broker that has not reported its outcome.
THEOREM RecoveryWaits == Spec => RecoveryIsSettled
<1>1. ASSUME CInv, [Next]_vars, NEW e \in DOMAIN fences,
             fences'[e].reconciled, ~fences[e].reconciled,
             NEW r \in Reservations, row[r].epoch < e, Covers(fences[e], r), dispatch[r] = "begun"
      PROVE  FALSE
    <2>1. PICK i \in Instances, ok \in BOOLEAN : ReconcileFence(i, ok)
        <3>1. ASSUME NEW f \in FenceKinds, Fencing(f) PROVE fences'[e] = fences[e]
            BY <1>1, <3>1, FencingAppends DEF CInv
        <3> QED
            BY <1>1, <3>1, FenceSteps DEF Reconciling
    <2>2. e = Len(fences) /\ OutcomesKnown /\ Len(fences) > 0
        BY <1>1, <2>1, ReconcilingMarks DEF CInv, ReconcileFence, Pending
    <2>3. status[r] \in {"forwarding", "uncertain"}
        BY <1>1 DEF CInv, Contained, Reports
    <2>4. Stopped(fences[e], r)
        BY <1>1, <2>3 DEF CInv, Contained, Reached
    <2>5. r \in fences[e].reservations
        BY <1>1, <2>3, <2>4 DEF Stopped, Caught, Live
    <2>6. outcome[r] = Len(fences)
        BY <2>2, <2>3, <2>5 DEF OutcomesKnown, Newest
    <2>7. dispatch[r] \in Results
        <3>1. Len(fences) \in Nat
            BY <1>1, IntentRows DEF CInv
        <3>2. outcome[r] # 0
            BY <2>2, <2>6, <3>1
        <3> QED
            BY <1>1, <3>2 DEF CInv, Contained, Reports
    <2> QED
        BY <1>1, <2>7 DEF Results
<1>2. CInv /\ [Next]_vars =>
        \A e \in DOMAIN fences : (fences'[e].reconciled /\ ~fences[e].reconciled)
          => \A r \in Reservations :
                (row[r].epoch < e /\ Covers(fences[e], r)) => dispatch[r] # "begun"
    BY <1>1
<1>3. CInv /\ [Next]_vars =>
        [\A e \in DOMAIN fences : (fences'[e].reconciled /\ ~fences[e].reconciled)
          => \A r \in Reservations :
                (row[r].epoch < e /\ Covers(fences[e], r)) => dispatch[r] # "begun"]_vars
    BY <1>2
<1> QED
    BY <1>3, Containment, PTL DEF Spec, RecoveryIsSettled
=============================================================================
