------------------------ MODULE IncidentControlProofs ------------------------
(***************************************************************************)
(* Proofs about containment of any number of scopes, realms, signals and   *)
(* jobs.  What a fence closed stays closed because every intent names a    *)
(* recovery that has lifted it, or is still enforced: by a revoked         *)
(* workload, by a banned action, or by the barrier of its realm.           *)
(***************************************************************************)
EXTENDS IncidentControl, FiniteSetTheorems, SequenceTheorems, TLAPS

\* Fences are those of signals, and of workloads that give up their lease.
Fences == {Ask[g] : g \in Signals}
          \cup {[kind |-> "agent", subject |-> s, action |-> "none"] : s \in Subjects}
Groups == UNION {[S -> Nat] : S \in SUBSET Scopes}
Intents == [fence : Fences, subjects : SUBSET Subjects, jobs : SUBSET Jobs, owner : Nat,
            reconciled : BOOLEAN, by : Nat, signal : Signals \cup {"none"}, members : Groups,
            realm : BOOLEAN]
Bans == {<<f.action, f.subject>> : f \in Fences}
Rows == {"none", "reserved", "forwarding", "uncertain", "committed", "canceled"}
Ended == {"completed", "canceled", "unknown"}
Brokers == Active \cup Ended \cup {"none", "gone"}
Containments == [step : Steps, todo : SUBSET Jobs, jobs : SUBSET Jobs, error : BOOLEAN,
              epoch : Nat, resumed : BOOLEAN]

Uncollected == {"unused", "admitted", "lost", "failed", "fenced"}

DurableOK ==
    /\ intents \in [Scopes -> Seq(Intents)]
    /\ barrier \in [Realms -> [blocked : BOOLEAN, intent : Nat]]
    /\ owner \in [Scopes -> 1..MaxOwner] /\ serving \subseteq Scopes
    /\ revoked \subseteq Subjects /\ banned \in [Scopes -> SUBSET Bans]
    /\ row \in [Jobs -> Rows]
    /\ outcome \in [Jobs -> Nat] /\ \A j \in Jobs : outcome[j] <= Epoch(HomeOf(j))
WorkOK ==
    broker \in [Jobs -> Brokers] /\ stop \subseteq Jobs /\ killed \subseteq Jobs /\ dead \subseteq Jobs
ControlOK ==
    /\ incident \in [Signals -> Containments]
    /\ \A g \in Signals : /\ incident[g].todo \subseteq incident[g].jobs
                          /\ incident[g].step \in Uncollected => incident[g].todo = {}
    /\ approval \in [Signals -> [issued : BOOLEAN, fresh : BOOLEAN, owner : Groups,
          evidence : UNION {[J -> [status : {"canceled", "completed", "unknown"}, state : Brokers]] :
                               J \in SUBSET Jobs}]]
    /\ resume \in [Signals -> [step : {"idle", "look", "verify", "commit"}, left : Seq(Scopes),
                               owner : Nat]]
Typed == DurableOK /\ WorkOK /\ ControlOK

\* An intent: what its fence revoked and caught, where a signal may have put it, and the group.
IntentAt(k, d) ==
    LET i == intents[k][d] IN
    /\ i.subjects = FenceTargets(i.fence, k) /\ \A j \in i.jobs : HomeOf(j) = k
    /\ i.signal \in Signals => i.fence = Ask[i.signal] /\ k \in Members(i.signal)
    /\ DOMAIN i.members # {} \/ i.realm =>
           /\ k = Primary /\ i.signal \in Signals /\ DOMAIN i.members = Members(i.signal)
           /\ i.members[Primary] = d
           /\ \A m \in Members(i.signal) :
                  i.members[m] \in 1..Epoch(m) /\ intents[m][i.members[m]].signal = i.signal
           /\ i.realm => i.fence.kind \in Realms
IntentsOK == \A k \in Scopes : \A d \in DOMAIN intents[k] : IntentAt(k, d)

\* A signal that was not used has no fence, and in no scope has one two.
SignalsOnce ==
    \A g \in Signals, k \in Scopes : \A d, e \in DOMAIN intents[k] :
        intents[k][d].signal = g /\ intents[k][e].signal = g =>
            d = e /\ incident[g].step \notin {"unused", "admitted"}

\* An incident in progress knows its intent, which has the group.
KnownAt(g) ==
    /\ incident[g].step \in {"fenced", "pausing", "stopping", "cleaning", "done"} => incident[g].epoch > 0
    /\ incident[g].epoch > 0 =>
           /\ incident[g].epoch \in DOMAIN intents[Primary]
           /\ intents[Primary][incident[g].epoch].signal = g
           /\ DOMAIN intents[Primary][incident[g].epoch].members # {}
    /\ approval[g].issued => incident[g].epoch > 0
    /\ resume[g].step # "idle" =>
           /\ incident[g].epoch > 0
           /\ \A n \in DOMAIN resume[g].left : resume[g].left[n] \in Members(g)
    /\ resume[g].step \in {"verify", "commit"} => resume[g].left # <<>>

\* The barrier of a realm is that of the newest fence on it.
BarrierAt(x) ==
    /\ barrier[x].intent = 0 /\ ~barrier[x].blocked =>
           \A k \in Scopes : \A d \in DOMAIN intents[k] : intents[k][d].fence.kind # x
    /\ barrier[x].intent > 0 =>
           LET i == intents[Primary][barrier[x].intent] IN
           /\ barrier[x].intent \in DOMAIN intents[Primary] /\ i.realm /\ i.fence.kind = x
           /\ \A k \in Span[x] : \A d \in DOMAIN intents[k] :
                  intents[k][d].fence.kind = x => d <= i.members[k]
           /\ ~barrier[x].blocked => \A k \in Span[x] : intents[k][i.members[k]].reconciled

\* What an intent closed for a job is still closed, or a recovery came after it.
LiftedAfter(j, d) ==
    \E e \in DOMAIN intents[HomeOf(j)] :
        d <= e /\ intents[HomeOf(j)][e].reconciled /\ Names(HomeOf(j), e, j)
Enforced(j) == Subj[j] \in revoked \/ <<Action[j], Subj[j]>> \in banned[HomeOf(j)]
ShutAt(j) ==
    \A d \in DOMAIN intents[HomeOf(j)] :
        Names(HomeOf(j), d, j) => Enforced(j) \/ LiftedAfter(j, d)

\* The outcome of a job is recorded for the newest intent only when it has ended.
OutcomesAt(g) ==
    incident[g].epoch > 0 =>
        \A j \in Jobs :
            HomeOf(j) \in Members(g) /\ Group(g)[HomeOf(j)] = Epoch(HomeOf(j))
                /\ outcome[j] = Epoch(HomeOf(j)) => EndedFor(j)

\* The jobs an incident collected, and those it has asked to stop.
CollectedAt(g) ==
    /\ incident[g].step \in {"pausing", "stopping", "cleaning", "done"} =>
           \A j \in Jobs : Reaches(g, j) /\ broker[j] \in Active =>
               j \in incident[g].jobs \/ Recovered(g, j)
    /\ incident[g].step \in {"stopping", "cleaning", "done"} =>
           \A j \in incident[g].jobs :
               \/ j \in stop \/ incident[g].error \/ broker[j] = "gone"
               \/ incident[g].step = "stopping" /\ j \in incident[g].todo

\* The inductive invariant.
IInv ==
    /\ Typed /\ IntentsOK /\ SignalsOnce
    /\ \A g \in Signals : KnownAt(g) /\ OutcomesAt(g) /\ CollectedAt(g)
    /\ \A x \in Realms : BarrierAt(x)
    /\ \A j \in Jobs : ShutAt(j)
-----------------------------------------------------------------------------
(* What was recorded stays recorded.                                       *)

\* Intents are only added and reconciled.
History ==
    \A k \in Scopes :
        /\ DOMAIN intents[k] \subseteq DOMAIN intents'[k] /\ Epoch(k) <= Epoch(k)'
        /\ \A d \in DOMAIN intents[k] :
              LET i == intents[k][d] n == intents'[k][d] IN
              /\ n.fence = i.fence /\ n.subjects = i.subjects /\ n.jobs = i.jobs
              /\ n.signal = i.signal /\ n.members = i.members /\ n.realm = i.realm
              /\ i.reconciled => n.reconciled

\* The state of the fences stays.
FencesStay == UNCHANGED <<intents, barrier, revoked, banned>>

\* Every job has a subject, and its home is one of the scopes.
LEMMA HomeTyped ==
    ASSUME NEW j \in Jobs
    PROVE  HomeOf(j) \in Scopes /\ Subj[j] \in Subjects
BY IncidentConstants DEF HomeOf

\* The intents of a scope are the sequence 1..Epoch(k): epochs have no gap.
LEMMA EpochTyped ==
    ASSUME Typed, NEW k \in Scopes
    PROVE  /\ Epoch(k) \in Nat /\ DOMAIN intents[k] = 1..Epoch(k)
           /\ \A d \in DOMAIN intents[k] : intents[k][d] \in Intents
BY DEF Typed, DurableOK, Epoch

\* A fence is of a realm, an agent or an action, and no realm has the name of the other two.
LEMMA FenceKinds ==
    ASSUME NEW f \in Fences
    PROVE  /\ f.kind \in Realms \cup {"agent", "action"}
           /\ f.kind = "agent" => f.kind \notin Realms
           /\ f.kind = "action" => f.kind \notin Realms
BY IncidentConstants DEF Fences

\* The group a signal fences has the controller's own scope.
LEMMA MembersTyped ==
    ASSUME NEW g \in Signals
    PROVE  Members(g) \subseteq Scopes /\ Primary \in Members(g)
BY IncidentConstants DEF Members

\* What an intent closed follows from its fence, and its fence from its signal.
LEMMA IntentNamesTargets ==
    ASSUME NEW k, NEW d, IntentAt(k, d)
    PROVE  /\ intents[k][d].subjects = FenceTargets(intents[k][d].fence, k)
           /\ intents[k][d].signal \in Signals => intents[k][d].fence = Ask[intents[k][d].signal]
    BY DEF IntentAt

\* A step that records no intent keeps the history of intents.
LEMMA UnchangedHistory ==
    ASSUME Typed, UNCHANGED intents
    PROVE  History
BY EpochTyped DEF History, Epoch

\* What a recorded intent closes for a job is never changed by later steps.
LEMMA NamesKept ==
    ASSUME History, NEW j \in Jobs, NEW d \in DOMAIN intents[HomeOf(j)]
    PROVE  Names(HomeOf(j), d, j)' <=> Names(HomeOf(j), d, j)
<1>1. HomeOf(j) \in Scopes
    BY HomeTyped
<1>2. /\ intents'[HomeOf(j)][d].subjects = intents[HomeOf(j)][d].subjects
      /\ intents'[HomeOf(j)][d].fence = intents[HomeOf(j)][d].fence
    BY <1>1 DEF History
<1> QED
    BY <1>2 DEF Names, HomeOf

\* A later intent that reconciled a job stays in the history.
LEMMA LiftedKept ==
    ASSUME History, NEW j \in Jobs, NEW d, LiftedAfter(j, d)
    PROVE  LiftedAfter(j, d)'
<1>1. PICK e \in DOMAIN intents[HomeOf(j)] :
         d <= e /\ intents[HomeOf(j)][e].reconciled /\ Names(HomeOf(j), e, j)
    BY DEF LiftedAfter
<1>2. HomeOf(j) \in Scopes /\ HomeOf(j)' = HomeOf(j)
    BY HomeTyped DEF HomeOf
<1>3. e \in DOMAIN intents'[HomeOf(j)] /\ intents'[HomeOf(j)][e].reconciled
    BY <1>1, <1>2 DEF History
<1>4. Names(HomeOf(j), e, j)'
    BY <1>1, NamesKept
<1> QED
    BY <1>1, <1>2, <1>3, <1>4 DEF LiftedAfter

\* A recovered job stays recovered while its signal records no new intent.
LEMMA RecoveredKept ==
    ASSUME History, NEW g \in Signals, NEW j \in Jobs, Recovered(g, j),
           \A d \in DOMAIN intents'[HomeOf(j)] :
               intents'[HomeOf(j)][d].signal = g => d \in DOMAIN intents[HomeOf(j)]
    PROVE  Recovered(g, j)'
<1>1. PICK e \in DOMAIN intents[HomeOf(j)] :
         /\ intents[HomeOf(j)][e].reconciled /\ Names(HomeOf(j), e, j)
         /\ \A d \in DOMAIN intents[HomeOf(j)] : intents[HomeOf(j)][d].signal = g => d <= e
    BY DEF Recovered
<1>2. HomeOf(j) \in Scopes /\ HomeOf(j)' = HomeOf(j)
    BY HomeTyped DEF HomeOf
<1>3. e \in DOMAIN intents'[HomeOf(j)] /\ intents'[HomeOf(j)][e].reconciled
    BY <1>1, <1>2 DEF History
<1>4. Names(HomeOf(j), e, j)'
    BY <1>1, NamesKept
<1>5. \A d \in DOMAIN intents'[HomeOf(j)] : intents'[HomeOf(j)][d].signal = g => d <= e
    BY <1>1, <1>2 DEF History
<1> QED
    BY <1>2, <1>3, <1>4, <1>5 DEF Recovered

\* Without a new intent all that is said of the fences stays.
LEMMA FencesKept ==
    ASSUME IInv, FencesStay,
           \A g \in Signals : incident'[g].step \in {"unused", "admitted"} =>
                              incident[g].step \in {"unused", "admitted"}
    PROVE  /\ IntentsOK' /\ SignalsOnce'
           /\ (\A x \in Realms : BarrierAt(x)') /\ (\A j \in Jobs : ShutAt(j)')
<1>1. intents' = intents /\ barrier' = barrier /\ revoked' = revoked /\ banned' = banned
    BY DEF FencesStay
<1>2. ASSUME NEW k \in Scopes, NEW d \in DOMAIN intents'[k] PROVE IntentAt(k, d)'
    <2>1. IntentAt(k, d)
        BY <1>1 DEF IInv, IntentsOK
    <2>2. \A m : Epoch(m)' = Epoch(m)
        BY <1>1 DEF Epoch
    <2> QED
        BY <1>1, <2>1, <2>2 DEF IntentAt, FenceTargets, Members, HomeOf
<1>3. SignalsOnce'
    BY <1>1 DEF IInv, SignalsOnce
<1>4. ASSUME NEW x \in Realms PROVE BarrierAt(x)'
    <2>1. BarrierAt(x)
        BY DEF IInv
    <2> QED
        BY <1>1, <2>1 DEF BarrierAt
<1>5. ASSUME NEW j \in Jobs PROVE ShutAt(j)'
    <2>1. ShutAt(j)
        BY DEF IInv
    <2> QED
        <3>1. Enforced(j)' = Enforced(j) /\ HomeOf(j)' = HomeOf(j)
            BY <1>1 DEF Enforced, HomeOf
        <3>2. \A d : Names(HomeOf(j), d, j)' = Names(HomeOf(j), d, j)
            BY <1>1 DEF Names, HomeOf
        <3>3. \A d : LiftedAfter(j, d)' = LiftedAfter(j, d)
            BY <1>1, <3>1, <3>2 DEF LiftedAfter
        <3> QED
            BY <1>1, <2>1, <3>1, <3>2, <3>3 DEF ShutAt
<1> QED
    BY <1>2, <1>3, <1>4, <1>5 DEF IntentsOK
-----------------------------------------------------------------------------
(* What a fence closes is open only after a recovery.                      *)

\* A job that a fence reaches has a current route only when every intent of the
\* fence that closed it has been reconciled.
LEMMA RouteLifted ==
    ASSUME IInv, NEW g \in Signals, NEW j \in Jobs, RouteCurrent(j), Reaches(g, j),
           NEW s \in Scopes, NEW n \in DOMAIN intents[s], intents[s][n].signal = g
    PROVE  Lifted(g, j)
<1> DEFINE k == HomeOf(j)
<1>1. k \in Scopes /\ k \in Members(g) /\ Subj[j] \in Affected(g)
    BY HomeTyped DEF Reaches, Covers
<1>2. \A m \in Scopes : \A d \in DOMAIN intents[m] :
         intents[m][d].signal = g => intents[m][d].fence = Ask[g] /\ m \in Members(g)
    BY DEF IInv, IntentsOK, IntentAt
<1>3. CASE Ask[g].kind \in Realms
    <2> DEFINE x == Ask[g].kind
               b == barrier[x].intent
               i == intents[Primary][b]
               e == i.members[k]
    <2>1. k \in Span[x] /\ ~barrier[x].blocked
        BY <1>1, <1>3 DEF Members, RouteCurrent, Open
    <2>2. BarrierAt(x) /\ b \in Nat
        BY <1>3 DEF IInv, Typed, DurableOK
    <2>3. b # 0
        BY <1>2, <2>1, <2>2 DEF BarrierAt
    <2>4. /\ b \in DOMAIN intents[Primary] /\ i.realm /\ i.fence.kind = x
          /\ \A d \in DOMAIN intents[k] : intents[k][d].fence.kind = x => d <= e
          /\ intents[k][e].reconciled
        <3>1. b > 0
            BY <2>2, <2>3
        <3>2. /\ b \in DOMAIN intents[Primary] /\ i.realm /\ i.fence.kind = x
              /\ \A m \in Span[x] : \A d \in DOMAIN intents[m] :
                     intents[m][d].fence.kind = x => d <= i.members[m]
              /\ \A m \in Span[x] : intents[m][i.members[m]].reconciled
            BY <2>1, <2>2, <3>1 DEF BarrierAt
        <3> QED
            BY <2>1, <3>2
    <2>5. IntentAt(Primary, b)
        BY <2>4, IncidentConstants DEF IInv, IntentsOK
    <2>6. /\ i.signal \in Signals /\ i.fence = Ask[i.signal] /\ DOMAIN i.members = Members(i.signal)
          /\ \A m \in Members(i.signal) :
                 i.members[m] \in 1..Epoch(m) /\ intents[m][i.members[m]].signal = i.signal
        BY <2>4, <2>5 DEF IntentAt
    <2>7. k \in Members(i.signal)
        BY <1>3, <2>1, <2>4, <2>6 DEF Members
    <2>8. e \in DOMAIN intents[k] /\ intents[k][e].signal = i.signal
        BY <1>1, <2>6, <2>7, EpochTyped DEF IInv
    <2>9. intents[k][e].fence.kind = x /\ intents[k][e].subjects = FenceTargets(intents[k][e].fence, k)
        <3>1. IntentAt(k, e)
            BY <1>1, <2>8 DEF IInv, IntentsOK
        <3> HIDE DEF e, i
        <3>2. /\ intents[k][e].signal \in Signals => intents[k][e].fence = Ask[intents[k][e].signal]
              /\ intents[k][e].subjects = FenceTargets(intents[k][e].fence, k)
            BY <3>1, IntentNamesTargets
        <3>3. intents[k][e].fence = i.fence
            BY <2>6, <2>8, <3>2
        <3> QED
            BY <2>4, <3>2, <3>3
    <2>10. Names(k, e, j)
        BY <1>3, <2>9, HomeTyped DEF Names, FenceTargets, HomeOf
    <2>11. \A d \in DOMAIN intents[k] : intents[k][d].signal = g => d <= e
        BY <1>1, <1>2, <2>4
    <2> HIDE DEF e, i, b
    <2> QED
        BY <1>3, <2>1, <2>4, <2>8, <2>10, <2>11 DEF Lifted, Recovered
<1>4. CASE Ask[g].kind \notin Realms
    <2>1. Members(g) = {Primary} /\ k = Primary /\ s = k
        BY <1>1, <1>2, <1>4 DEF Members
    <2>2. /\ intents[k][n].fence = Ask[g] /\ Subj[j] = Ask[g].subject
          /\ intents[k][n].subjects = FenceTargets(Ask[g], k)
        BY <1>1, <1>2, <1>4, <2>1 DEF Affected, IInv, IntentsOK, IntentAt
    <2>3. Names(k, n, j)
        <3>1. CASE Ask[g].kind = "agent"
            BY <1>4, <2>2, <3>1, HomeTyped DEF Names, FenceTargets, HomeOf
        <3>2. CASE Ask[g].kind = "action"
            BY <2>2, <3>2 DEF Names, Reaches, Covers
        <3> QED
            BY <1>4, <3>1, <3>2, IncidentConstants
    <2>4. ~Enforced(j)
        BY DEF RouteCurrent, Enforced
    <2>5. LiftedAfter(j, n)
        BY <2>1, <2>3, <2>4 DEF IInv, ShutAt
    <2>6. \A d \in DOMAIN intents[k] : intents[k][d].signal = g => d = n
        BY <1>1, <2>1 DEF IInv, SignalsOnce
    <2> QED
        BY <1>4, <2>5, <2>6 DEF Lifted, Recovered, LiftedAfter
<1> QED
    BY <1>3, <1>4
-----------------------------------------------------------------------------
(* What a step keeps of a signal it is not about.                          *)

\* An incident that a step does not touch still knows its intent and its group.
LEMMA KnownKept ==
    ASSUME IInv, History, NEW h \in Signals, incident'[h] = incident[h], resume'[h] = resume[h],
           approval'[h].issued => approval[h].issued
    PROVE  KnownAt(h)'
<1>1. KnownAt(h) /\ Primary \in Scopes
    BY IncidentConstants DEF IInv
<1>2. incident[h].epoch > 0 =>
         /\ incident[h].epoch \in DOMAIN intents'[Primary]
         /\ intents'[Primary][incident[h].epoch].signal = h
         /\ DOMAIN intents'[Primary][incident[h].epoch].members # {}
    BY <1>1 DEF KnownAt, History
<1> QED
    BY <1>1, <1>2 DEF KnownAt, Members

\* The group of an incident, as recorded.
LEMMA GroupTyped ==
    ASSUME IInv, NEW h \in Signals, incident[h].epoch > 0
    PROVE  /\ DOMAIN Group(h) = Members(h) /\ Group(h)[Primary] = incident[h].epoch
           /\ \A m \in Members(h) : /\ Group(h)[m] \in 1..Epoch(m)
                                    /\ intents[m][Group(h)[m]].signal = h
<1>1. KnownAt(h)
    BY DEF IInv
<1>2. IntentAt(Primary, incident[h].epoch)
    BY <1>1, IncidentConstants DEF KnownAt, IInv, IntentsOK
<1> QED
    BY <1>1, <1>2 DEF KnownAt, IntentAt, Group

\* The outcomes of a signal stay true while its incident keeps its epoch and ended jobs stay ended.
LEMMA OutcomesKept ==
    ASSUME IInv, History, NEW h \in Signals, incident'[h].epoch = incident[h].epoch,
           UNCHANGED outcome, \A j \in Jobs : EndedFor(j) => EndedFor(j)'
    PROVE  OutcomesAt(h)'
<1> SUFFICES ASSUME incident[h].epoch > 0, NEW j \in Jobs, (HomeOf(j) \in Members(h))',
                    (Group(h)[HomeOf(j)] = Epoch(HomeOf(j)))', (outcome[j] = Epoch(HomeOf(j)))'
             PROVE  EndedFor(j)'
    BY DEF OutcomesAt
<1> DEFINE k == HomeOf(j)
<1>1. k \in Scopes /\ k \in Members(h) /\ HomeOf(j)' = k
    BY HomeTyped DEF HomeOf, Members
<1>2. Group(h)' = Group(h)
    <2>1. KnownAt(h) /\ Primary \in Scopes
        BY IncidentConstants DEF IInv
    <2> QED
        BY <2>1 DEF KnownAt, History, Group
<1>3. Group(h)[k] \in 1..Epoch(k)
    BY <1>1, GroupTyped
<1>4. Epoch(k) \in Nat /\ Epoch(k) <= Epoch(k)'
    BY <1>1, EpochTyped DEF IInv, History
<1>5. Epoch(k)' = Group(h)[k] /\ outcome[j] = Epoch(k)'
    BY <1>1, <1>2
<1>6. Group(h)[k] = Epoch(k) /\ outcome[j] = Epoch(k)
    BY <1>3, <1>4, <1>5
<1>7. EndedFor(j)
    BY <1>1, <1>6 DEF IInv, OutcomesAt
<1> QED
    BY <1>7

\* What was collected stays collected: jobs become active only through a current route.
LEMMA CollectedKept ==
    ASSUME IInv, History, NEW h \in Signals, incident'[h] = incident[h], stop \subseteq stop',
           \A j \in Jobs :
               /\ broker'[j] \in Active => broker[j] \in Active \/ RouteCurrent(j)
               /\ broker[j] = "gone" => broker'[j] = "gone",
           \A k \in Scopes : \A d \in DOMAIN intents'[k] :
               intents'[k][d].signal = h => d \in DOMAIN intents[k]
    PROVE  CollectedAt(h)'
<1>1. CollectedAt(h) /\ KnownAt(h)
    BY DEF IInv
<1>2. ASSUME incident[h].step \in {"pausing", "stopping", "cleaning", "done"},
             NEW j \in Jobs, Reaches(h, j)', broker'[j] \in Active
      PROVE  j \in incident[h].jobs \/ Recovered(h, j)'
    <2>1. Reaches(h, j) /\ HomeOf(j) \in Scopes
        BY <1>2, HomeTyped DEF Reaches, Covers, Affected, Members, HomeOf
    <2>2. CASE broker[j] \in Active
        <3>1. j \in incident[h].jobs \/ Recovered(h, j)
            BY <1>1, <1>2, <2>1, <2>2 DEF CollectedAt
        <3> QED
            BY <2>1, <3>1, RecoveredKept
    <2>3. CASE RouteCurrent(j)
        <3>1. incident[h].epoch > 0
            BY <1>1, <1>2 DEF KnownAt
        <3>2. /\ incident[h].epoch \in DOMAIN intents[Primary]
              /\ intents[Primary][incident[h].epoch].signal = h
            BY <1>1, <3>1 DEF KnownAt
        <3>3. Lifted(h, j)
            BY <2>1, <2>3, <3>2, RouteLifted, IncidentConstants
        <3> QED
            BY <2>1, <3>3, RecoveredKept DEF Lifted
    <2> QED
        BY <1>2, <2>2, <2>3
<1>3. ASSUME incident[h].step \in {"stopping", "cleaning", "done"}, NEW j \in incident[h].jobs
      PROVE  \/ j \in stop' \/ incident[h].error \/ broker'[j] = "gone"
             \/ incident[h].step = "stopping" /\ j \in incident[h].todo
    <2>1. j \in Jobs
        BY <1>3 DEF IInv, Typed, ControlOK, Containments
    <2> QED
        BY <1>1, <1>3, <2>1 DEF CollectedAt
<1> QED
    BY <1>2, <1>3 DEF CollectedAt

\* A step of the jobs, their brokers and the owners of the scopes.
LEMMA WorkStep ==
    ASSUME IInv, FencesStay, UNCHANGED <<outcome, control, stop>>, DurableOK', WorkOK',
           \A j \in Jobs :
               /\ broker'[j] \in Active => broker[j] \in Active \/ RouteCurrent(j)
               /\ broker[j] = "gone" => broker'[j] = "gone"
               /\ EndedFor(j) => EndedFor(j)'
    PROVE  IInv'
<1>1. History /\ ControlOK'
    BY UnchangedHistory DEF IInv, FencesStay, Typed, ControlOK, control
<1>2. /\ IntentsOK' /\ SignalsOnce'
      /\ (\A x \in Realms : BarrierAt(x)') /\ (\A j \in Jobs : ShutAt(j)')
    BY FencesKept DEF control
<1>3. ASSUME NEW h \in Signals PROVE KnownAt(h)' /\ OutcomesAt(h)' /\ CollectedAt(h)'
    <2>1. incident' = incident /\ approval' = approval /\ resume' = resume /\ intents' = intents
        BY DEF control, FencesStay
    <2>2. KnownAt(h)'
        BY <1>1, <2>1, KnownKept
    <2>3. OutcomesAt(h)'
        BY <1>1, <2>1, OutcomesKept
    <2>4. CollectedAt(h)'
        BY <1>1, <2>1, CollectedKept
    <2> QED
        BY <2>2, <2>3, <2>4
<1> QED
    BY <1>1, <1>2, <1>3 DEF IInv, Typed
-----------------------------------------------------------------------------
(* Jobs, brokers and owners.                                               *)

\* A change of the rows alone keeps the types of what the databases hold.
LEMMA RowChange ==
    ASSUME Typed, FencesStay, UNCHANGED <<owner, outcome, serving>>, row' \in [Jobs -> Rows]
    PROVE  DurableOK'
BY DEF FencesStay, Typed, DurableOK, Epoch, HomeOf

\* reserve, which needs a current route, keeps the invariant.
LEMMA ReserveStep ==
    ASSUME IInv, NEW j \in Jobs, Reserve(j)
    PROVE  IInv'
<1>1. /\ broker[j] = "none" /\ RouteCurrent(j)
      /\ row' = [row EXCEPT ![j] = "reserved"] /\ broker' = [broker EXCEPT ![j] = "prepared"]
      /\ UNCHANGED <<owner, outcome, serving, stop, killed, dead>> /\ FencesStay /\ UNCHANGED control
    BY DEF Reserve, FencesStay
<1>2. DurableOK'
    <2>1. row' \in [Jobs -> Rows]
        BY <1>1 DEF IInv, Typed, DurableOK, Rows
    <2> QED
        BY <1>1, <2>1, RowChange DEF IInv
<1>3. WorkOK'
    BY <1>1 DEF IInv, Typed, WorkOK, Brokers, Active
<1>4. ASSUME NEW i \in Jobs
      PROVE  /\ broker'[i] \in Active => broker[i] \in Active \/ RouteCurrent(i)
             /\ broker[i] = "gone" => broker'[i] = "gone"
             /\ EndedFor(i) => EndedFor(i)'
    BY <1>1 DEF IInv, Typed, WorkOK, EndedFor
<1> QED
    BY <1>1, <1>2, <1>3, <1>4, WorkStep

\* A step that changes the durable row of a job only.
LEMMA RowStep ==
    ASSUME IInv, NEW j \in Jobs, BeginForward(j) \/ Settle(j)
    PROVE  IInv'
<1>1. /\ UNCHANGED <<owner, outcome, serving>> /\ UNCHANGED work /\ FencesStay /\ UNCHANGED control
    BY DEF BeginForward, Settle, FencesStay
<1>2. row' \in [Jobs -> Rows]
    BY DEF BeginForward, Settle, IInv, Typed, DurableOK, Rows
<1>3. DurableOK'
    BY <1>1, <1>2, RowChange DEF IInv
<1>4. WorkOK' /\ UNCHANGED <<broker, stop, killed>>
    BY <1>1 DEF work, IInv, Typed, WorkOK
<1>5. ASSUME NEW i \in Jobs
      PROVE  /\ broker'[i] \in Active => broker[i] \in Active \/ RouteCurrent(i)
             /\ broker[i] = "gone" => broker'[i] = "gone"
             /\ EndedFor(i) => EndedFor(i)'
    BY <1>4 DEF EndedFor
<1> QED
    BY <1>1, <1>3, <1>4, <1>5, WorkStep

\* A step of the broker of an active job.
LEMMA BrokerStep ==
    ASSUME IInv, NEW j \in Jobs, Claim(j) \/ License(j) \/ Kill(j) \/ Finish(j)
    PROVE  IInv'
<1>1. UNCHANGED <<durable, serving, stop, dead, control>>
    BY DEF Claim, License, Kill, Finish, control
<1>2. DurableOK' /\ FencesStay /\ UNCHANGED outcome
    BY <1>1 DEF durable, FencesStay, IInv, Typed, DurableOK, Epoch, HomeOf
<1>3. /\ broker[j] \in Active /\ killed \subseteq killed' /\ killed' \subseteq Jobs
      /\ \E to \in Brokers \ {"gone"} : broker' = [broker EXCEPT ![j] = to]
    <2>1. broker \in [Jobs -> Brokers] /\ killed \subseteq Jobs
        BY DEF IInv, Typed, WorkOK
    <2>2. CASE Claim(j)
        BY <2>1, <2>2 DEF Claim, Active, Brokers
    <2>3. CASE License(j)
        BY <2>1, <2>3 DEF License, Active, Brokers, Ended
    <2>4. CASE Kill(j)
        <3>1. broker' = [broker EXCEPT ![j] = "running"]
            BY <2>1, <2>4 DEF Kill
        <3> QED
            BY <2>1, <2>4, <3>1 DEF Kill, Active, Brokers
    <2>5. CASE Finish(j)
        BY <2>1, <2>5 DEF Finish, Active, Brokers, Ended
    <2> QED
        BY <2>2, <2>3, <2>4, <2>5
<1>4. PICK to \in Brokers \ {"gone"} : broker' = [broker EXCEPT ![j] = to]
    BY <1>3
<1>5. WorkOK'
    BY <1>1, <1>3, <1>4 DEF IInv, Typed, WorkOK
<1>6. ASSUME NEW i \in Jobs
      PROVE  /\ broker'[i] \in Active => broker[i] \in Active \/ RouteCurrent(i)
             /\ broker[i] = "gone" => broker'[i] = "gone"
             /\ EndedFor(i) => EndedFor(i)'
    <2>1. i # j => broker'[i] = broker[i]
        BY <1>4 DEF IInv, Typed, WorkOK
    <2> QED
        BY <1>3, <2>1 DEF EndedFor, Active
<1> QED
    BY <1>1, <1>2, <1>5, <1>6, WorkStep

\* A new owner, which cancels or doubts the rows of its scope, keeps the invariant.
LEMMA StartStep ==
    ASSUME IInv, NEW k \in Scopes, Start(k)
    PROVE  IInv'
<1>1. /\ UNCHANGED outcome /\ UNCHANGED work /\ FencesStay /\ UNCHANGED control
      /\ owner[k] < MaxOwner /\ owner' = [owner EXCEPT ![k] = @ + 1] /\ serving' = serving \cup {k}
    BY DEF Start, FencesStay
<1>2. row' \in [Jobs -> Rows]
    BY DEF Start, IInv, Typed, DurableOK, Rows
<1>3. owner' \in [Scopes -> 1..MaxOwner]
    BY <1>1, IncidentConstants DEF IInv, Typed, DurableOK
<1>4. DurableOK'
    BY <1>1, <1>2, <1>3 DEF FencesStay, IInv, Typed, DurableOK, Epoch, HomeOf
<1>5. WorkOK' /\ UNCHANGED <<broker, stop, killed>>
    BY <1>1 DEF work, IInv, Typed, WorkOK
<1>6. ASSUME NEW i \in Jobs
      PROVE  /\ broker'[i] \in Active => broker[i] \in Active \/ RouteCurrent(i)
             /\ broker[i] = "gone" => broker'[i] = "gone"
             /\ EndedFor(i) => EndedFor(i)'
    BY <1>5 DEF EndedFor
<1> QED
    BY <1>1, <1>4, <1>5, <1>6, WorkStep
-----------------------------------------------------------------------------
(* A new fence.                                                            *)

\* What a fence is asked for: module IncidentControl passes it field by field.
Requests == [fence : Fences, scopes : SUBSET Scopes, group : Groups, realm : BOOLEAN,
             signal : Signals \cup {"none"}]
Fencing(r) == FenceScopes(r.fence, r.scopes, r.group, r.realm, r.signal)

NewIntent(r, k) ==
    [fence |-> r.fence, subjects |-> FenceTargets(r.fence, k), jobs |-> FenceJobs(r.fence, k),
     owner |-> owner[k], reconciled |-> FALSE, by |-> 0, signal |-> r.signal,
     members |-> IF k = Primary THEN r.group ELSE <<>>, realm |-> k = Primary /\ r.realm]

\* The fields of a fence request have their types.
LEMMA RequestTyped ==
    ASSUME NEW r \in Requests
    PROVE  /\ r.fence \in Fences /\ r.scopes \subseteq Scopes /\ r.group \in Groups
           /\ r.realm \in BOOLEAN /\ r.signal \in Signals \cup {"none"}
BY DEF Requests

\* The intent a request records in a scope is an intent.
LEMMA NewIntentTyped ==
    ASSUME Typed, NEW r \in Requests, NEW k \in Scopes
    PROVE  NewIntent(r, k) \in Intents
<1> /\ r.fence \in Fences /\ r.scopes \subseteq Scopes /\ r.group \in Groups
    /\ r.realm \in BOOLEAN /\ r.signal \in Signals \cup {"none"}
    BY RequestTyped
<1>1. FenceTargets(r.fence, k) \subseteq Subjects
    <2>1. r.fence.kind = "agent" => r.fence.subject \in Subjects
        BY IncidentConstants DEF Fences
    <2> QED
        BY <2>1 DEF FenceTargets
<1>2. FenceJobs(r.fence, k) \subseteq Jobs
    BY DEF FenceJobs
<1>3. owner[k] \in Nat
    BY IncidentConstants DEF Typed, DurableOK
<1>4. <<>> \in Groups
    <2>1. <<>> = [x \in {} |-> 0]
        OBVIOUS
    <2>2. [x \in {} |-> 0] \in [{} -> Nat]
        OBVIOUS
    <2>3. {} \in SUBSET Scopes
        OBVIOUS
    <2>4. [{} -> Nat] \in {[S -> Nat] : S \in SUBSET Scopes}
        BY <2>3
    <2> QED
        BY <2>1, <2>2, <2>4 DEF Groups
<1> QED
    BY <1>1, <1>2, <1>3, <1>4 DEF NewIntent, Intents

\* A fence appends one intent to every scope it names and leaves the older intents alone.
LEMMA FenceAppends ==
    ASSUME Typed, NEW r \in Requests, Fencing(r)
    PROVE  /\ intents' \in [Scopes -> Seq(Intents)] /\ History
           /\ \A k \in Scopes \ r.scopes : intents'[k] = intents[k]
           /\ \A k \in r.scopes :
                  /\ Epoch(k)' = Epoch(k) + 1
                  /\ \A d \in DOMAIN intents[k] : intents'[k][d] = intents[k][d]
                  /\ intents'[k][Epoch(k) + 1] = NewIntent(r, k)
<1> /\ r.fence \in Fences /\ r.scopes \subseteq Scopes /\ r.group \in Groups
    /\ r.realm \in BOOLEAN /\ r.signal \in Signals \cup {"none"}
    BY RequestTyped
<1>1. intents' = [k \in Scopes |-> IF k \notin r.scopes THEN intents[k]
                                   ELSE Append(intents[k], NewIntent(r, k))]
    BY DEF Fencing, FenceScopes, NewIntent
<1>2. \A k \in Scopes : intents[k] \in Seq(Intents) /\ NewIntent(r, k) \in Intents
    BY NewIntentTyped DEF Typed, DurableOK
<1>3. ASSUME NEW k \in r.scopes
      PROVE  /\ intents'[k] \in Seq(Intents) /\ Len(intents'[k]) = Len(intents[k]) + 1
             /\ \A d \in DOMAIN intents[k] : intents'[k][d] = intents[k][d]
             /\ intents'[k][Len(intents[k]) + 1] = NewIntent(r, k)
    <2> DEFINE n == NewIntent(r, k)
               s == intents[k]
    <2>1. s \in Seq(Intents) /\ n \in Intents /\ intents'[k] = Append(s, n)
        BY <1>1, <1>2
    <2> HIDE DEF n, s
    <2>2. /\ Append(s, n) \in Seq(Intents) /\ Len(Append(s, n)) = Len(s) + 1
          /\ \A d \in DOMAIN s : Append(s, n)[d] = s[d]
          /\ Append(s, n)[Len(s) + 1] = n
        BY <2>1
    <2> QED
        BY <2>1, <2>2 DEF n, s
<1>4. \A k \in Scopes \ r.scopes : intents'[k] = intents[k]
    BY <1>1
<1>5. intents' \in [Scopes -> Seq(Intents)]
    BY <1>1, <1>2, <1>3, <1>4
<1>6. ASSUME NEW k \in r.scopes
      PROVE  /\ Epoch(k)' = Epoch(k) + 1 /\ Epoch(k) \in Nat
             /\ DOMAIN intents[k] \subseteq DOMAIN intents'[k]
             /\ intents'[k][Epoch(k) + 1] = NewIntent(r, k)
    <2>1. Epoch(k)' = Epoch(k) + 1 /\ Epoch(k) \in Nat
        BY <1>2, <1>3 DEF Epoch
    <2>2. DOMAIN intents[k] = 1..Len(intents[k]) /\ DOMAIN intents'[k] = 1..Len(intents'[k])
        BY <1>2, <1>3
    <2> QED
        BY <1>3, <2>1, <2>2 DEF Epoch
<1>7. History
    <2> SUFFICES ASSUME NEW k \in Scopes
                 PROVE  /\ DOMAIN intents[k] \subseteq DOMAIN intents'[k] /\ Epoch(k) <= Epoch(k)'
                        /\ \A d \in DOMAIN intents[k] : intents'[k][d] = intents[k][d]
        BY DEF History
    <2>1. CASE k \in r.scopes
        BY <1>3, <1>6, <2>1
    <2>2. CASE k \notin r.scopes
        BY <1>4, <2>2, EpochTyped DEF Epoch
    <2> QED
        BY <2>1, <2>2
<1> QED
    BY <1>3, <1>4, <1>5, <1>6, <1>7

\* An intent that a fence adds is the newest of its scope.
LEMMA FenceNew ==
    ASSUME Typed, NEW r \in Requests, Fencing(r),
           NEW k \in Scopes, NEW d \in DOMAIN intents'[k], d \notin DOMAIN intents[k]
    PROVE  /\ k \in r.scopes /\ Epoch(k) \in Nat /\ d = Epoch(k) + 1 /\ Epoch(k)' = Epoch(k) + 1
           /\ intents'[k][d] = NewIntent(r, k)
<1> /\ r.fence \in Fences /\ r.scopes \subseteq Scopes /\ r.group \in Groups
    /\ r.realm \in BOOLEAN /\ r.signal \in Signals \cup {"none"}
    BY RequestTyped
<1>1. /\ intents' \in [Scopes -> Seq(Intents)]
      /\ \A m \in Scopes \ r.scopes : intents'[m] = intents[m]
      /\ \A m \in r.scopes : /\ Epoch(m)' = Epoch(m) + 1
                      /\ intents'[m][Epoch(m) + 1] = NewIntent(r, m)
    BY FenceAppends
<1>2. k \in r.scopes
    BY <1>1
<1>3. Epoch(k) \in Nat /\ DOMAIN intents[k] = 1..Epoch(k)
    BY EpochTyped
<1>4. DOMAIN intents'[k] = 1..Epoch(k)'
    BY <1>1 DEF Epoch
<1>5. Epoch(k)' = Epoch(k) + 1
    BY <1>1, <1>2
<1>6. d \in 1..Epoch(k)' /\ d \notin 1..Epoch(k)
    BY <1>3, <1>4
<1>7. d = Epoch(k) + 1
    BY <1>3, <1>5, <1>6
<1> QED
    BY <1>1, <1>2, <1>3, <1>5, <1>7

\* The intents of a fence are those of its signal; only a whole group is recorded.
LEMMA FenceIntents ==
    ASSUME IInv, NEW r \in Requests, Fencing(r),
           r.signal \in Signals => r.fence = Ask[r.signal] /\ r.scopes \subseteq Members(r.signal),
           DOMAIN r.group # {} \/ r.realm =>
               /\ r.signal \in Signals /\ r.scopes = Members(r.signal) /\ r.group = [k \in r.scopes |-> Epoch(k) + 1]
               /\ r.realm => r.fence.kind \in Realms
    PROVE  IntentsOK'
<1> /\ r.fence \in Fences /\ r.scopes \subseteq Scopes /\ r.group \in Groups
    /\ r.realm \in BOOLEAN /\ r.signal \in Signals \cup {"none"}
    BY RequestTyped
<1> SUFFICES ASSUME NEW k \in Scopes, NEW d \in DOMAIN intents'[k] PROVE IntentAt(k, d)'
    BY DEF IntentsOK
<1>1. History /\ Typed
    BY FenceAppends DEF IInv
<1>2. CASE d \in DOMAIN intents[k]
    <2> DEFINE i == intents[k][d]
               n == intents'[k][d]
    <2>1. IntentAt(k, d)
        BY <1>2 DEF IInv, IntentsOK
    <2>2. /\ n.fence = i.fence /\ n.subjects = i.subjects /\ n.signal = i.signal
          /\ n.members = i.members /\ n.realm = i.realm /\ n.jobs = i.jobs
        BY <1>1, <1>2 DEF History
    <2>3. ASSUME NEW h \in Signals, NEW m \in Members(h), NEW e \in 1..Epoch(m)
          PROVE  /\ e \in 1..Epoch(m)' /\ intents'[m][e].signal = intents[m][e].signal
        <3>1. m \in Scopes
            BY MembersTyped
        <3>2. Epoch(m) \in Nat /\ Epoch(m)' \in Nat /\ Epoch(m) <= Epoch(m)' /\ e \in DOMAIN intents[m]
            BY <1>1, <3>1, EpochTyped, FenceAppends DEF History, Epoch
        <3> QED
            BY <1>1, <3>1, <3>2 DEF History
    <2> HIDE DEF i, n
    <2>4. ASSUME DOMAIN n.members # {} \/ n.realm
          PROVE  /\ k = Primary /\ n.signal \in Signals /\ DOMAIN n.members = Members(n.signal)
                 /\ n.members[Primary] = d
                 /\ \A m \in Members(n.signal) :
                       n.members[m] \in 1..Epoch(m)' /\ intents'[m][n.members[m]].signal = n.signal
                 /\ n.realm => n.fence.kind \in Realms
        <3>1. /\ k = Primary /\ i.signal \in Signals /\ DOMAIN i.members = Members(i.signal)
              /\ i.members[Primary] = d
              /\ \A m \in Members(i.signal) :
                     i.members[m] \in 1..Epoch(m) /\ intents[m][i.members[m]].signal = i.signal
              /\ i.realm => i.fence.kind \in Realms
            BY <2>1, <2>2, <2>4 DEF IntentAt, i
        <3> QED
            BY <2>2, <2>3, <3>1
    <2>5. /\ n.subjects = FenceTargets(n.fence, k) /\ \A j \in n.jobs : HomeOf(j) = k
          /\ n.signal \in Signals => n.fence = Ask[n.signal] /\ k \in Members(n.signal)
        BY <2>1, <2>2 DEF IntentAt, i
    <2> QED
        BY <2>4, <2>5 DEF IntentAt, n, FenceTargets, Members, HomeOf
<1>3. CASE d \notin DOMAIN intents[k]
    <2> DEFINE n == intents'[k][d]
    <2>1. k \in r.scopes /\ d = Epoch(k) + 1 /\ n = NewIntent(r, k)
        BY <1>1, <1>3, FenceNew
    <2>5. /\ n.fence = r.fence /\ n.subjects = FenceTargets(r.fence, k) /\ n.signal = r.signal
          /\ n.members = (IF k = Primary THEN r.group ELSE <<>>) /\ n.realm = (k = Primary /\ r.realm)
          /\ n.jobs = FenceJobs(r.fence, k)
        BY <2>1 DEF NewIntent
    <2> HIDE DEF n
    <2>6. DOMAIN <<>> = {}
        OBVIOUS
    <2>7. ASSUME DOMAIN n.members # {} \/ n.realm
          PROVE  /\ k = Primary /\ n.signal \in Signals /\ DOMAIN n.members = Members(n.signal)
                 /\ n.members[Primary] = d
                 /\ \A m \in Members(n.signal) :
                       n.members[m] \in 1..Epoch(m)' /\ intents'[m][n.members[m]].signal = n.signal
                 /\ n.realm => n.fence.kind \in Realms
        <3>1. k = Primary
            BY <2>5, <2>6, <2>7
        <3>2. n.members = r.group /\ (DOMAIN r.group # {} \/ r.realm)
            BY <2>5, <2>7, <3>1
        <3>3. /\ r.signal \in Signals /\ r.scopes = Members(r.signal) /\ r.group = [m \in r.scopes |-> Epoch(m) + 1]
              /\ r.realm => r.fence.kind \in Realms
            BY <3>2
        <3>4. ASSUME NEW m \in r.scopes
              PROVE  r.group[m] \in 1..Epoch(m)' /\ intents'[m][r.group[m]].signal = r.signal
            <4>1. m \in Scopes /\ Epoch(m) \in Nat
                BY <1>1, EpochTyped
            <4>2. /\ Epoch(m)' = Epoch(m) + 1
                  /\ intents'[m][Epoch(m) + 1] = NewIntent(r, m)
                BY <1>1, FenceAppends
            <4>3. r.group[m] = Epoch(m) + 1
                BY <3>3
            <4> QED
                BY <4>1, <4>2, <4>3 DEF NewIntent
        <3> QED
            BY <2>1, <2>5, <3>1, <3>2, <3>3, <3>4, MembersTyped
    <2>8. /\ n.subjects = FenceTargets(n.fence, k)
          /\ n.signal \in Signals => n.fence = Ask[n.signal] /\ k \in Members(n.signal)
        BY <2>1, <2>5
    <2>9. \A j \in n.jobs : HomeOf(j) = k
        BY <2>5 DEF FenceJobs
    <2> QED
        BY <2>7, <2>8, <2>9 DEF IntentAt, n, FenceTargets, Members, HomeOf
<1> QED
    BY <1>2, <1>3

\* What a fence names it closes.
LEMMA FenceShuts ==
    ASSUME IInv, NEW r \in Requests, Fencing(r), NEW j \in Jobs
    PROVE  ShutAt(j)'
<1> /\ r.fence \in Fences /\ r.scopes \subseteq Scopes /\ r.group \in Groups
    /\ r.realm \in BOOLEAN /\ r.signal \in Signals \cup {"none"}
    BY RequestTyped
<1> DEFINE k == HomeOf(j)
<1>1. History /\ Typed /\ k \in Scopes /\ HomeOf(j)' = k
    BY FenceAppends, HomeTyped DEF IInv, HomeOf
<1>2. revoked' = revoked \cup UNION {FenceTargets(r.fence, m) : m \in r.scopes}
      /\ banned' = [m \in Scopes |-> IF m \notin r.scopes \/ r.fence.kind # "action" THEN banned[m]
                                     ELSE banned[m] \cup {<<r.fence.action, r.fence.subject>>}]
    BY DEF Fencing, FenceScopes
<1>3. Enforced(j) => Enforced(j)'
    BY <1>1, <1>2 DEF Enforced
<1> SUFFICES ASSUME NEW d \in DOMAIN intents'[k], Names(k, d, j)'
             PROVE  Enforced(j)' \/ LiftedAfter(j, d)'
    BY <1>1 DEF ShutAt
<1>4. CASE d \in DOMAIN intents[k]
    <2>1. Names(k, d, j)
        BY <1>1, <1>4, NamesKept
    <2>2. Enforced(j) \/ LiftedAfter(j, d)
        BY <1>4, <2>1 DEF IInv, ShutAt
    <2> QED
        BY <1>1, <1>3, <2>2, LiftedKept
<1>5. CASE d \notin DOMAIN intents[k]
    <2> HIDE DEF k
    <2>1. k \in r.scopes /\ intents'[k][d] = NewIntent(r, k)
        BY <1>1, <1>5, FenceNew
    <2>2. \/ Subj[j] \in FenceTargets(r.fence, k)
          \/ r.fence.kind = "action" /\ <<r.fence.action, r.fence.subject>> = <<Action[j], Subj[j]>>
        BY <2>1 DEF Names, NewIntent
    <2> QED
        BY <1>1, <1>2, <2>1, <2>2 DEF Enforced
<1> QED
    BY <1>4, <1>5

\* A signal is used for one fence.
LEMMA FenceSignals ==
    ASSUME IInv, NEW r \in Requests, Fencing(r),
           \A h \in Signals \ {r.signal} : incident'[h] = incident[h],
           r.signal \in Signals => /\ incident[r.signal].step = "admitted"
                            /\ incident'[r.signal].step \notin {"unused", "admitted"}
    PROVE  SignalsOnce'
<1> /\ r.fence \in Fences /\ r.scopes \subseteq Scopes /\ r.group \in Groups
    /\ r.realm \in BOOLEAN /\ r.signal \in Signals \cup {"none"}
    BY RequestTyped
<1> SUFFICES ASSUME NEW h \in Signals, NEW k \in Scopes, NEW d \in DOMAIN intents'[k],
                    NEW e \in DOMAIN intents'[k],
                    intents'[k][d].signal = h, intents'[k][e].signal = h
             PROVE  d = e /\ incident'[h].step \notin {"unused", "admitted"}
    BY DEF SignalsOnce
<1>1. History /\ Typed
    BY FenceAppends DEF IInv
<1>2. ASSUME NEW n \in DOMAIN intents'[k], n \notin DOMAIN intents[k]
      PROVE  n = Epoch(k) + 1 /\ intents'[k][n].signal = r.signal
    <2>1. n = Epoch(k) + 1 /\ intents'[k][n] = NewIntent(r, k)
        BY <1>1, <1>2, FenceNew
    <2> QED
        BY <2>1 DEF NewIntent
<1>3. \A n \in DOMAIN intents[k] : intents'[k][n].signal = intents[k][n].signal
    BY <1>1 DEF History
<1>4. CASE h = r.signal
    <2>1. \A n \in DOMAIN intents[k] : intents[k][n].signal # r.signal
        BY <1>4 DEF IInv, SignalsOnce
    <2> QED
        BY <1>2, <1>3, <1>4, <2>1
<1>5. CASE h # r.signal
    <2>1. d \in DOMAIN intents[k] /\ e \in DOMAIN intents[k]
        BY <1>2, <1>5
    <2> QED
        BY <1>3, <1>5, <2>1 DEF IInv, SignalsOnce
<1> QED
    BY <1>4, <1>5

\* A fence of another kind leaves the barrier of a realm as it was.
LEMMA FenceBarrier ==
    ASSUME IInv, NEW r \in Requests, Fencing(r),
           NEW x \in Realms, barrier'[x] = barrier[x], r.fence.kind # x
    PROVE  BarrierAt(x)'
<1> /\ r.fence \in Fences /\ r.scopes \subseteq Scopes /\ r.group \in Groups
    /\ r.realm \in BOOLEAN /\ r.signal \in Signals \cup {"none"}
    BY RequestTyped
<1>1. History /\ Typed /\ BarrierAt(x) /\ Primary \in Scopes
    BY FenceAppends, IncidentConstants DEF IInv
<1>2. ASSUME NEW k \in Scopes, NEW d \in DOMAIN intents'[k], intents'[k][d].fence.kind = x
      PROVE  d \in DOMAIN intents[k] /\ intents[k][d].fence.kind = x
    <2>1. d \in DOMAIN intents[k]
        <3> SUFFICES ASSUME d \notin DOMAIN intents[k] PROVE FALSE
            OBVIOUS
        <3>1. intents'[k][d] = NewIntent(r, k)
            BY <1>1, FenceNew
        <3> QED
            BY <1>2, <3>1 DEF NewIntent
    <2> QED
        BY <1>1, <1>2, <2>1 DEF History
<1>3. CASE barrier[x].intent = 0 /\ ~barrier[x].blocked
    BY <1>1, <1>2, <1>3 DEF BarrierAt
<1>4. CASE barrier[x].intent > 0
    <2> DEFINE b == barrier[x].intent
               i == intents[Primary][b]
    <2>1. /\ b \in DOMAIN intents[Primary] /\ i.realm /\ i.fence.kind = x
          /\ \A k \in Span[x] : \A d \in DOMAIN intents[k] :
                 intents[k][d].fence.kind = x => d <= i.members[k]
          /\ ~barrier[x].blocked => \A k \in Span[x] : intents[k][i.members[k]].reconciled
        BY <1>1, <1>4 DEF BarrierAt
    <2>2. /\ b \in DOMAIN intents'[Primary] /\ intents'[Primary][b].realm
          /\ intents'[Primary][b].fence.kind = x /\ intents'[Primary][b].members = i.members
        BY <1>1, <2>1 DEF History
    <2>3. ASSUME NEW k \in Span[x]
          PROVE  k \in Scopes /\ i.members[k] \in DOMAIN intents[k]
        <3>1. k \in Scopes
            BY IncidentConstants
        <3>2. i.signal \in Signals /\ i.fence = Ask[i.signal]
              /\ \A m \in Members(i.signal) : i.members[m] \in 1..Epoch(m)
            BY <1>1, <2>1 DEF IInv, IntentsOK, IntentAt
        <3>3. k \in Members(i.signal)
            BY <2>1, <3>2 DEF Members
        <3> QED
            BY <1>1, <3>1, <3>2, <3>3, EpochTyped
    <2> HIDE DEF i
    <2>4. ASSUME NEW k \in Span[x], intents[k][i.members[k]].reconciled
          PROVE  intents'[k][i.members[k]].reconciled
        BY <1>1, <2>3, <2>4 DEF History
    <2>5. ASSUME NEW k \in Span[x], NEW d \in DOMAIN intents'[k], intents'[k][d].fence.kind = x
          PROVE  d <= i.members[k]
        BY <1>2, <2>1, <2>3, <2>5
    <2> HIDE DEF b
    <2>6. b > 0 /\ barrier'[x].intent = b /\ barrier'[x].blocked = barrier[x].blocked
        BY <1>4 DEF b
    <2> QED
        BY <2>1, <2>2, <2>4, <2>5, <2>6 DEF BarrierAt
<1>5. barrier[x].intent \in Nat
    BY <1>1 DEF Typed, DurableOK
<1>6. CASE barrier[x].intent = 0 /\ barrier[x].blocked
    BY <1>6 DEF BarrierAt
<1> QED
    BY <1>3, <1>4, <1>5, <1>6

\* A fence of signal g, or of a workload that gives up its lease.
LEMMA FenceStep ==
    ASSUME IInv, NEW r \in Requests, Fencing(r),
           r.signal \in Signals => r.fence = Ask[r.signal] /\ r.scopes \subseteq Members(r.signal),
           DOMAIN r.group # {} \/ r.realm =>
               /\ r.signal \in Signals /\ r.scopes = Members(r.signal) /\ r.group = [k \in r.scopes |-> Epoch(k) + 1]
               /\ r.realm => r.fence.kind \in Realms,
           UNCHANGED <<owner, outcome, serving, approval, resume>>, UNCHANGED work,
           barrier' \in [Realms -> [blocked : BOOLEAN, intent : Nat]],
           \A x \in Realms : BarrierAt(x)',
           incident' \in [Signals -> Containments],
           \A h \in Signals : incident'[h].todo = incident[h].todo /\ incident'[h].jobs = incident[h].jobs,
           \A h \in Signals \ {r.signal} : incident'[h] = incident[h],
           r.signal \in Signals =>
               /\ incident[r.signal].step = "admitted" /\ incident'[r.signal].step \notin {"unused", "admitted"}
               /\ KnownAt(r.signal)' /\ OutcomesAt(r.signal)' /\ CollectedAt(r.signal)'
    PROVE  IInv'
<1> /\ r.fence \in Fences /\ r.scopes \subseteq Scopes /\ r.group \in Groups
    /\ r.realm \in BOOLEAN /\ r.signal \in Signals \cup {"none"}
    BY RequestTyped
<1>1. Typed /\ History /\ intents' \in [Scopes -> Seq(Intents)]
    BY FenceAppends DEF IInv
<1>2. IntentsOK'
    BY FenceIntents
<1>3. SignalsOnce'
    BY FenceSignals
<1>4. \A j \in Jobs : ShutAt(j)'
    BY FenceShuts
<1>5. DurableOK'
    <2>1. revoked' \subseteq Subjects
        <3>1. r.fence.kind = "agent" => r.fence.subject \in Subjects
            BY IncidentConstants DEF Fences
        <3>2. \A k \in r.scopes : FenceTargets(r.fence, k) \subseteq Subjects
            BY <3>1 DEF FenceTargets
        <3> QED
            BY <1>1, <3>2 DEF Fencing, FenceScopes, Typed, DurableOK
    <2>2. banned' \in [Scopes -> SUBSET Bans]
        <3>1. <<r.fence.action, r.fence.subject>> \in Bans
            BY DEF Bans
        <3> QED
            BY <1>1, <3>1 DEF Fencing, FenceScopes, Typed, DurableOK
    <2>3. row' \in [Jobs -> Rows]
        BY <1>1 DEF Fencing, FenceScopes, Typed, DurableOK, Rows
    <2>4. ASSUME NEW j \in Jobs PROVE outcome'[j] <= Epoch(HomeOf(j))'
        <3>1. HomeOf(j) \in Scopes /\ HomeOf(j)' = HomeOf(j)
            BY HomeTyped DEF HomeOf
        <3>2. Epoch(HomeOf(j)) <= Epoch(HomeOf(j))' /\ Epoch(HomeOf(j)) \in Nat
            BY <1>1, <3>1, EpochTyped DEF History
        <3>3. Epoch(HomeOf(j))' \in Nat
            BY <1>1, <3>1 DEF Epoch
        <3>4. outcome'[j] \in Nat /\ outcome'[j] <= Epoch(HomeOf(j))
            BY <1>1 DEF Typed, DurableOK
        <3> QED
            BY <3>2, <3>3, <3>4
    <2> QED
        BY <1>1, <2>1, <2>2, <2>3, <2>4 DEF Typed, DurableOK
<1>6. WorkOK' /\ ControlOK' /\ UNCHANGED <<broker, stop, killed>>
    <2>1. WorkOK' /\ UNCHANGED <<broker, stop, killed>>
        BY <1>1 DEF Typed, WorkOK, work
    <2>2. ASSUME NEW h \in Signals
          PROVE  /\ incident'[h].todo \subseteq incident'[h].jobs
                 /\ incident'[h].step \in Uncollected => incident'[h].todo = {}
        <3>1. /\ incident[h].todo \subseteq incident[h].jobs
              /\ incident[h].step \in Uncollected => incident[h].todo = {}
            BY <1>1 DEF Typed, ControlOK
        <3>2. CASE h = r.signal
            BY <3>1, <3>2 DEF Uncollected
        <3>3. CASE h # r.signal
            BY <3>1, <3>3
        <3> QED
            BY <3>2, <3>3
    <2> QED
        BY <1>1, <2>1, <2>2 DEF Typed, ControlOK
<1>7. ASSUME NEW h \in Signals PROVE KnownAt(h)' /\ OutcomesAt(h)' /\ CollectedAt(h)'
    <2>1. CASE h = r.signal
        BY <2>1
    <2>2. CASE h # r.signal
        <3>1. incident'[h] = incident[h] /\ resume'[h] = resume[h] /\ approval'[h] = approval[h]
            BY <2>2
        <3>2. KnownAt(h)'
            BY <1>1, <3>1, KnownKept
        <3>3. OutcomesAt(h)'
            BY <1>1, <1>6, <3>1, OutcomesKept DEF EndedFor
        <3>4. ASSUME NEW k \in Scopes, NEW d \in DOMAIN intents'[k], intents'[k][d].signal = h
              PROVE  d \in DOMAIN intents[k]
            <4> SUFFICES ASSUME d \notin DOMAIN intents[k] PROVE FALSE
                OBVIOUS
            <4>1. intents'[k][d] = NewIntent(r, k)
                BY <1>1, FenceNew
            <4> QED
                BY <2>2, <3>4, <4>1 DEF NewIntent
        <3>5. CollectedAt(h)'
            BY <1>1, <1>6, <3>1, <3>4, CollectedKept
        <3> QED
            BY <3>2, <3>3, <3>5
    <2> QED
        BY <2>1, <2>2
<1> QED
    BY <1>2, <1>3, <1>4, <1>5, <1>6, <1>7 DEF IInv, Typed

\* The group of an ungrouped fence is the empty function.
LEMMA EmptyTyped == <<>> \in Groups
<1>1. <<>> = [x \in {} |-> 0]
    OBVIOUS
<1>2. [x \in {} |-> 0] \in [{} -> Nat]
    OBVIOUS
<1>3. {} \in SUBSET Scopes
    OBVIOUS
<1>4. [{} -> Nat] \in {[S -> Nat] : S \in SUBSET Scopes}
    BY <1>3
<1> QED
    BY <1>1, <1>2, <1>4 DEF Groups

\* A lease given up, which is a fence outside any incident, keeps the invariant.
LEMMA RevokeLeaseStep ==
    ASSUME IInv, NEW s \in Subjects, RevokeLease(s)
    PROVE  IInv'
<1> PICK r : r = [fence |-> [kind |-> "agent", subject |-> s, action |-> "none"],
                  scopes |-> {Home[s]}, group |-> <<>>, realm |-> FALSE, signal |-> "none"]
    OBVIOUS
<1>1. r.fence \in Fences /\ r.scopes \in SUBSET Scopes
    BY IncidentConstants DEF Fences
<1>2. r \in Requests
    BY <1>1, EmptyTyped DEF Requests
<1>3. Fencing(r)
    BY DEF RevokeLease, Fencing
<1>4. /\ UNCHANGED <<owner, outcome, serving, approval, resume>> /\ UNCHANGED work
      /\ UNCHANGED <<barrier, incident>>
    BY DEF RevokeLease, control
<1>5. \A x \in Realms : BarrierAt(x)'
    <2>1. \A x \in Realms : r.fence.kind # x /\ barrier'[x] = barrier[x]
        BY <1>1, <1>4, FenceKinds
    <2> QED
        BY <1>2, <1>3, <2>1, FenceBarrier
<1>6. /\ r.signal \notin Signals /\ DOMAIN r.group = {} /\ ~r.realm
    BY IncidentConstants
<1>7. /\ barrier' \in [Realms -> [blocked : BOOLEAN, intent : Nat]]
      /\ incident' \in [Signals -> Containments]
      /\ \A h \in Signals : incident'[h].todo = incident[h].todo /\ incident'[h].jobs = incident[h].jobs
      /\ \A h \in Signals \ {r.signal} : incident'[h] = incident[h]
    BY <1>4 DEF IInv, Typed, DurableOK, ControlOK
<1> HIDE DEF Fencing
<1> QED
    BY <1>2, <1>3, <1>4, <1>5, <1>6, <1>7, FenceStep

\* The signal of a fence that is yet to be recorded is in no intent.
LEMMA AdmittedFresh ==
    ASSUME IInv, NEW g \in Signals, incident[g].step \in {"unused", "admitted"}
    PROVE  incident[g].epoch = 0 /\ ~approval[g].issued /\ resume[g].step = "idle"
<1>1. KnownAt(g) /\ Primary \in Scopes
    BY IncidentConstants DEF IInv
<1>2. ~(incident[g].epoch > 0)
    <2> SUFFICES ASSUME incident[g].epoch > 0 PROVE FALSE
        OBVIOUS
    <2>1. /\ incident[g].epoch \in DOMAIN intents[Primary]
          /\ intents[Primary][incident[g].epoch].signal = g
        BY <1>1 DEF KnownAt
    <2> QED
        BY <1>1, <2>1 DEF IInv, SignalsOnce
<1>3. incident[g].epoch \in Nat
    BY DEF IInv, Typed, ControlOK, Containments
<1>4. incident[g].epoch = 0
    BY <1>2, <1>3
<1>5. approval[g] \in [issued : BOOLEAN, fresh : BOOLEAN, owner : Groups,
          evidence : UNION {[J -> [status : {"canceled", "completed", "unknown"}, state : Brokers]] :
                               J \in SUBSET Jobs}]
    BY DEF IInv, Typed, ControlOK
<1> QED
    BY <1>1, <1>2, <1>4, <1>5 DEF KnownAt

\* The whole fence of an incident, its answer received or lost, keeps the invariant.
LEMMA RecordFenceStep ==
    ASSUME IInv, NEW g \in Signals, NEW ack \in BOOLEAN, RecordFence(g, ack)
    PROVE  IInv'
<1> PICK r : r = [fence |-> Ask[g], scopes |-> Members(g),
                  group |-> [k \in Members(g) |-> Epoch(k) + 1],
                  realm |-> Ask[g].kind \in Realms, signal |-> g]
    OBVIOUS
<1>1. /\ Typed /\ Primary \in Scopes /\ Members(g) \subseteq Scopes /\ Primary \in Members(g)
      /\ \A k \in Scopes : Epoch(k) \in Nat
    BY MembersTyped, EpochTyped, IncidentConstants DEF IInv
<1>2. r \in Requests
    <2>1. Ask[g] \in Fences
        BY DEF Fences
    <2>2. [k \in Members(g) |-> Epoch(k) + 1] \in [Members(g) -> Nat]
        BY <1>1
    <2>3. [Members(g) -> Nat] \in {[S -> Nat] : S \in SUBSET Scopes}
        BY <1>1
    <2>4. [k \in Members(g) |-> Epoch(k) + 1] \in Groups
        BY <2>2, <2>3 DEF Groups
    <2> QED
        BY <1>1, <2>1, <2>4 DEF Requests
<1>3. /\ incident[g].step = "admitted" /\ Fencing(r)
      /\ UNCHANGED <<owner, outcome, serving, approval, resume>> /\ UNCHANGED work
      /\ barrier' = [x \in Realms |-> IF x # Ask[g].kind THEN barrier[x]
                      ELSE [blocked |-> TRUE, intent |-> Epoch(Primary) + 1]]
      /\ incident' = [incident EXCEPT ![g].step = IF ack THEN "fenced" ELSE "lost",
                                      ![g].epoch = IF ack THEN Epoch(Primary) + 1 ELSE 0]
    BY DEF RecordFence, Fencing
<1>4. r.signal = g /\ r.fence = Ask[g] /\ r.scopes = Members(g)
      /\ r.group = [k \in Members(g) |-> Epoch(k) + 1] /\ r.realm = (Ask[g].kind \in Realms)
    OBVIOUS
<1>5. /\ History /\ intents' \in [Scopes -> Seq(Intents)]
      /\ \A k \in Members(g) : /\ Epoch(k)' = Epoch(k) + 1
                               /\ intents'[k][Epoch(k) + 1] = NewIntent(r, k)
    BY <1>1, <1>2, <1>3, <1>4, FenceAppends
<1>6. \A k \in Scopes : DOMAIN intents'[k] = 1..Epoch(k)'
    BY <1>5 DEF Epoch
<1> DEFINE n == intents'[Primary][Epoch(Primary) + 1]
<1>7. /\ Epoch(Primary) + 1 \in DOMAIN intents'[Primary] /\ n.fence = Ask[g] /\ n.signal = g
      /\ n.members = [k \in Members(g) |-> Epoch(k) + 1] /\ DOMAIN n.members = Members(g)
      /\ Ask[g].kind \in Realms => n.realm
    <2>1. n = NewIntent(r, Primary) /\ Epoch(Primary) + 1 \in 1..(Epoch(Primary) + 1)
        BY <1>1, <1>5
    <2>2. Epoch(Primary) + 1 \in DOMAIN intents'[Primary]
        BY <1>1, <1>5, <1>6, <2>1
    <2> HIDE DEF n
    <2> QED
        BY <1>4, <2>1, <2>2 DEF NewIntent
<1> HIDE DEF n
<1>8. ASSUME NEW x \in Realms PROVE BarrierAt(x)'
    <2>1. CASE x # Ask[g].kind
        <3>1. barrier'[x] = barrier[x] /\ r.fence.kind # x
            BY <1>3, <1>4, <2>1
        <3> QED
            BY <1>2, <1>3, <3>1, FenceBarrier
    <2>2. CASE x = Ask[g].kind
        <3>1. barrier'[x].intent = Epoch(Primary) + 1 /\ barrier'[x].blocked
            BY <1>3, <2>2
        <3>2. Members(g) = Span[x]
            BY <2>2 DEF Members
        <3>3. ASSUME NEW k \in Span[x], NEW d \in DOMAIN intents'[k] PROVE d <= n.members[k]
            <4>1. k \in Members(g) /\ k \in Scopes
                BY <1>1, <3>2
            <4>2. d \in 1..Epoch(k)' /\ Epoch(k)' = Epoch(k) + 1 /\ Epoch(k) \in Nat
                BY <1>1, <1>5, <1>6, <4>1
            <4>3. n.members[k] = Epoch(k) + 1
                BY <1>7, <4>1
            <4> QED
                BY <4>2, <4>3
        <3>4. n = intents'[Primary][barrier'[x].intent]
            BY <3>1 DEF n
        <3>5. barrier'[x].intent # 0 /\ barrier'[x].intent \in DOMAIN intents'[Primary] /\ n.realm /\ n.fence.kind = x
            BY <1>1, <1>7, <2>2, <3>1
        <3> QED
            BY <3>1, <3>3, <3>4, <3>5 DEF BarrierAt
    <2> QED
        BY <2>1, <2>2
<1>9. incident[g].epoch = 0 /\ ~approval[g].issued /\ resume[g].step = "idle"
    BY <1>3, AdmittedFresh
<1>10. /\ incident'[g].step = (IF ack THEN "fenced" ELSE "lost")
       /\ incident'[g].epoch = (IF ack THEN Epoch(Primary) + 1 ELSE 0)
       /\ incident' \in [Signals -> Containments]
       /\ \A h \in Signals : incident'[h].todo = incident[h].todo /\ incident'[h].jobs = incident[h].jobs
       /\ \A h \in Signals \ {g} : incident'[h] = incident[h]
    <2>1. incident \in [Signals -> Containments]
        BY <1>1 DEF Typed, ControlOK
    <2> DEFINE step == IF ack THEN "fenced" ELSE "lost"
               epoch == IF ack THEN Epoch(Primary) + 1 ELSE 0
    <2>2. step \in Steps /\ epoch \in Nat
        BY <1>1 DEF Steps
    <2> HIDE DEF step, epoch
    <2>3. incident' = [incident EXCEPT ![g].step = step, ![g].epoch = epoch]
        BY <1>3, Zenon DEF step, epoch
    <2>4. /\ incident' = [incident EXCEPT ![g] = incident'[g]]
          /\ incident'[g] = [incident[g] EXCEPT !.step = step, !.epoch = epoch]
        BY <2>1, <2>3
    <2>5. incident[g] \in Containments
        BY <2>1
    <2>6. /\ incident'[g] \in Containments /\ incident'[g].step = step /\ incident'[g].epoch = epoch
          /\ incident'[g].todo = incident[g].todo /\ incident'[g].jobs = incident[g].jobs
        BY <2>2, <2>4, <2>5 DEF Containments
    <2>7. \A h \in Signals \ {g} : incident'[h] = incident[h]
        BY <2>1, <2>4
    <2>8. incident' \in [Signals -> Containments]
        BY <2>1, <2>4, <2>6
    <2> QED
        BY <2>6, <2>7, <2>8 DEF step, epoch
<1>11. KnownAt(g)'
    <2>1. CASE ack
        BY <1>1, <1>3, <1>7, <1>9, <1>10, <2>1 DEF KnownAt, n
    <2>2. CASE ~ack
        BY <1>3, <1>9, <1>10, <2>2 DEF KnownAt
    <2> QED
        BY <2>1, <2>2
<1>12. OutcomesAt(g)'
    <2> SUFFICES ASSUME NEW j \in Jobs, (HomeOf(j) \in Members(g))', outcome'[j] = Epoch(HomeOf(j))'
                 PROVE  FALSE
        BY DEF OutcomesAt
    <2>1. HomeOf(j) \in Scopes /\ HomeOf(j)' = HomeOf(j) /\ HomeOf(j) \in Members(g)
        BY HomeTyped DEF HomeOf, Members
    <2>2. Epoch(HomeOf(j))' = Epoch(HomeOf(j)) + 1 /\ Epoch(HomeOf(j)) \in Nat
        BY <1>1, <1>5, <2>1
    <2>3. outcome'[j] <= Epoch(HomeOf(j)) /\ outcome'[j] \in Nat
        BY <1>1, <1>3 DEF Typed, DurableOK
    <2> QED
        BY <2>1, <2>2, <2>3
<1>13. CollectedAt(g)'
    BY <1>10 DEF CollectedAt
<1>14. barrier' \in [Realms -> [blocked : BOOLEAN, intent : Nat]]
    <2>1. barrier \in [Realms -> [blocked : BOOLEAN, intent : Nat]] /\ Epoch(Primary) + 1 \in Nat
        BY <1>1 DEF Typed, DurableOK
    <2> QED
        BY <1>3, <2>1
<1>15. /\ r.signal \in Signals => r.fence = Ask[r.signal] /\ r.scopes \subseteq Members(r.signal)
       /\ DOMAIN r.group # {} \/ r.realm =>
             /\ r.signal \in Signals /\ r.scopes = Members(r.signal)
             /\ r.group = [k \in r.scopes |-> Epoch(k) + 1]
             /\ r.realm => r.fence.kind \in Realms
       /\ r.signal \in Signals =>
             /\ incident[r.signal].step = "admitted"
             /\ incident'[r.signal].step \notin {"unused", "admitted"}
             /\ KnownAt(r.signal)' /\ OutcomesAt(r.signal)' /\ CollectedAt(r.signal)'
    <2>1. incident'[g].step \notin {"unused", "admitted"}
        BY <1>10
    <2>2. KnownAt(r.signal)' /\ OutcomesAt(r.signal)' /\ CollectedAt(r.signal)'
        BY <1>4, <1>11, <1>12, <1>13
    <2> QED
        BY <1>3, <1>4, <2>1, <2>2
<1>16. \A h \in Signals \ {r.signal} : incident'[h] = incident[h]
    BY <1>4, <1>10
<1> QED
    BY <1>2, <1>3, <1>8, <1>10, <1>14, <1>15, <1>16, FenceStep

\* A fence that a member's full journal rejected keeps the invariant: it has intents
\* without a group, and a barrier without an intent.
LEMMA RecordFencePartlyStep ==
    ASSUME IInv, NEW g \in Signals, NEW M \in SUBSET Scopes, RecordFencePartly(g, M)
    PROVE  IInv'
<1> PICK r : r = [fence |-> Ask[g], scopes |-> M, group |-> <<>>, realm |-> FALSE, signal |-> g]
    OBVIOUS
<1>1. r \in Requests
    <2>1. Ask[g] \in Fences
        BY DEF Fences
    <2> QED
        BY <2>1, EmptyTyped DEF Requests
<1>2. /\ incident[g].step = "admitted" /\ Fencing(r) /\ M \subseteq Members(g)
      /\ UNCHANGED <<owner, outcome, serving, approval, resume>> /\ UNCHANGED work
      /\ barrier' = [x \in Realms |-> IF x # Ask[g].kind THEN barrier[x]
                      ELSE [blocked |-> TRUE, intent |-> 0]]
      /\ incident' = [incident EXCEPT ![g].step = "lost"]
    BY DEF RecordFencePartly, Fencing
<1>3. r.signal = g /\ r.fence = Ask[g] /\ r.scopes = M /\ DOMAIN r.group = {} /\ ~r.realm
    OBVIOUS
<1>4. ASSUME NEW x \in Realms PROVE BarrierAt(x)'
    <2>1. CASE x # Ask[g].kind
        <3>1. barrier'[x] = barrier[x] /\ r.fence.kind # x
            BY <1>2, <1>3, <2>1
        <3> QED
            BY <1>1, <1>2, <3>1, FenceBarrier
    <2>2. CASE x = Ask[g].kind
        <3>1. barrier'[x].intent = 0 /\ barrier'[x].blocked
            BY <1>2, <2>2
        <3> QED
            BY <3>1 DEF BarrierAt
    <2> QED
        BY <2>1, <2>2
<1>5. incident[g].epoch = 0 /\ ~approval[g].issued /\ resume[g].step = "idle"
    BY <1>2, AdmittedFresh
<1>6. /\ incident'[g].step = "lost" /\ incident'[g].epoch = 0
      /\ incident' \in [Signals -> Containments]
      /\ \A h \in Signals : incident'[h].todo = incident[h].todo /\ incident'[h].jobs = incident[h].jobs
      /\ \A h \in Signals \ {g} : incident'[h] = incident[h]
    <2>1. incident \in [Signals -> Containments]
        BY DEF IInv, Typed, ControlOK
    <2> QED
        BY <1>2, <1>5, <2>1 DEF Containments, Steps
<1>7. KnownAt(g)' /\ OutcomesAt(g)' /\ CollectedAt(g)'
    BY <1>2, <1>5, <1>6 DEF KnownAt, OutcomesAt, CollectedAt
<1>8. barrier' \in [Realms -> [blocked : BOOLEAN, intent : Nat]]
    <2>1. barrier \in [Realms -> [blocked : BOOLEAN, intent : Nat]]
        BY DEF IInv, Typed, DurableOK
    <2> QED
        BY <1>2, <2>1
<1>9. /\ r.signal \in Signals => r.fence = Ask[r.signal] /\ r.scopes \subseteq Members(r.signal)
      /\ DOMAIN r.group # {} \/ r.realm =>
            /\ r.signal \in Signals /\ r.scopes = Members(r.signal)
            /\ r.group = [k \in r.scopes |-> Epoch(k) + 1]
            /\ r.realm => r.fence.kind \in Realms
      /\ r.signal \in Signals =>
            /\ incident[r.signal].step = "admitted"
            /\ incident'[r.signal].step \notin {"unused", "admitted"}
            /\ KnownAt(r.signal)' /\ OutcomesAt(r.signal)' /\ CollectedAt(r.signal)'
    BY <1>2, <1>3, <1>6, <1>7
<1>10. \A h \in Signals \ {r.signal} : incident'[h] = incident[h]
    BY <1>3, <1>6
<1> QED
    BY <1>1, <1>2, <1>4, <1>6, <1>8, <1>9, <1>10, FenceStep
-----------------------------------------------------------------------------
(* The controller.                                                         *)

InProgress == {"fenced", "pausing", "stopping", "cleaning", "done"}

\* A step of the controller for one signal leaves the durable state alone.
LEMMA ControlStep ==
    ASSUME IInv, NEW g \in Signals, UNCHANGED <<durable, serving>>, WorkOK', ControlOK',
           \A h \in Signals \ {g} : /\ incident'[h] = incident[h] /\ resume'[h] = resume[h]
                                    /\ approval'[h].issued => approval[h].issued,
           stop \subseteq stop',
           \A j \in Jobs : /\ broker'[j] \in Active => broker[j] \in Active
                           /\ broker[j] = "gone" => broker'[j] = "gone"
                           /\ EndedFor(j) => EndedFor(j)',
           incident'[g].step \in {"unused", "admitted"} => incident[g].step \in {"unused", "admitted"},
           incident'[g].epoch = incident[g].epoch, KnownAt(g)', CollectedAt(g)'
    PROVE  IInv'
<1>1. FencesStay /\ UNCHANGED <<intents, outcome>> /\ DurableOK' /\ Typed
    BY DEF durable, FencesStay, IInv, Typed, DurableOK, Epoch, HomeOf
<1>2. History
    BY <1>1, UnchangedHistory
<1>3. \A h \in Signals : incident'[h].step \in {"unused", "admitted"} =>
                            incident[h].step \in {"unused", "admitted"}
    OBVIOUS
<1>4. /\ IntentsOK' /\ SignalsOnce'
      /\ (\A x \in Realms : BarrierAt(x)') /\ (\A j \in Jobs : ShutAt(j)')
    BY <1>1, <1>3, FencesKept
<1>5. ASSUME NEW h \in Signals PROVE KnownAt(h)' /\ OutcomesAt(h)' /\ CollectedAt(h)'
    <2>1. OutcomesAt(h)'
        <3>1. incident'[h].epoch = incident[h].epoch
            OBVIOUS
        <3> QED
            BY <1>1, <1>2, <3>1, OutcomesKept
    <2>2. CASE h = g
        BY <2>1, <2>2
    <2>3. CASE h # g
        <3>1. KnownAt(h)'
            BY <1>2, <2>3, KnownKept
        <3>2. CollectedAt(h)'
            BY <1>1, <1>2, <2>3, CollectedKept
        <3> QED
            BY <2>1, <3>1, <3>2
    <2> QED
        BY <2>2, <2>3
<1> QED
    BY <1>1, <1>4, <1>5 DEF IInv, Typed

\* Without a new intent a job is recovered after a step just when it was before.
LEMMA RecoveredSame ==
    ASSUME UNCHANGED intents, NEW h \in Signals, NEW j \in Jobs
    PROVE  /\ Recovered(h, j)' = Recovered(h, j)
           /\ Reaches(h, j)' = Reaches(h, j)
BY DEF Recovered, Names, HomeOf, Reaches, Covers, Affected, Members

\* A step of contain or of the cleanup thread.
LEMMA IncidentStep ==
    ASSUME IInv, NEW g \in Signals, NEW c \in Containments, incident' = [incident EXCEPT ![g] = c],
           UNCHANGED <<durable, serving, approval, resume>>, WorkOK', stop \subseteq stop',
           \A j \in Jobs : /\ broker'[j] \in Active => broker[j] \in Active
                           /\ broker[j] = "gone" => broker'[j] = "gone"
                           /\ EndedFor(j) => EndedFor(j)',
           c.step \in {"unused", "admitted"} => incident[g].step \in {"unused", "admitted"},
           c.step \in InProgress => incident[g].step \in InProgress,
           c.epoch = incident[g].epoch, c.todo \subseteq c.jobs, c.step \in Uncollected => c.todo = {},
           CollectedAt(g)'
    PROVE  IInv'
<1>1. /\ incident \in [Signals -> Containments] /\ KnownAt(g)
      /\ \A h \in Signals : /\ incident[h].todo \subseteq incident[h].jobs
                            /\ incident[h].step \in Uncollected => incident[h].todo = {}
    BY DEF IInv, Typed, ControlOK
<1>2. incident'[g] = c /\ \A h \in Signals \ {g} : incident'[h] = incident[h]
    BY <1>1
<1>3. ControlOK'
    BY <1>1, <1>2 DEF IInv, Typed, ControlOK
<1>4. KnownAt(g)'
    <2>1. intents' = intents /\ approval' = approval /\ resume' = resume
        BY DEF durable
    <2> QED
        BY <1>1, <1>2, <2>1 DEF KnownAt, InProgress, Members
<1> QED
    BY <1>2, <1>3, <1>4, ControlStep

\* The jobs the controller has collected and stopped, for a step that stops more of them.
LEMMA CollectedAfter ==
    ASSUME IInv, NEW g \in Signals, UNCHANGED intents, stop \subseteq stop',
           \A j \in Jobs : /\ broker'[j] \in Active => broker[j] \in Active
                           /\ broker[j] = "gone" => broker'[j] = "gone",
           incident'[g].jobs = incident[g].jobs,
           incident[g].step \in {"pausing", "stopping", "cleaning", "done"},
           \A j \in incident[g].jobs :
               incident'[g].step \in {"stopping", "cleaning", "done"} =>
               \/ j \in stop' \/ incident'[g].error \/ broker'[j] = "gone"
               \/ incident'[g].step = "stopping" /\ j \in incident'[g].todo
    PROVE  CollectedAt(g)'
<1>1. CollectedAt(g)
    BY DEF IInv
<1>2. ASSUME NEW j \in Jobs, Reaches(g, j)', broker'[j] \in Active
      PROVE  j \in incident'[g].jobs \/ Recovered(g, j)'
    <2>1. Reaches(g, j) /\ broker[j] \in Active
        BY <1>2, RecoveredSame
    <2>2. j \in incident[g].jobs \/ Recovered(g, j)
        BY <1>1, <2>1 DEF CollectedAt
    <2> QED
        BY <2>2, RecoveredSame
<1> QED
    BY <1>2 DEF CollectedAt

\* Stopping a set of jobs starts none of them and keeps what was gone or ended.
LEMMA StoppedWork ==
    ASSUME Typed, NEW S \in SUBSET Jobs, Stopped(S)
    PROVE  /\ broker' \in [Jobs -> Brokers] /\ stop' \subseteq Jobs /\ killed' \subseteq Jobs
           /\ stop' = stop \cup S
           /\ \A j \in Jobs : /\ broker'[j] \in Active => broker[j] \in Active
                              /\ broker[j] = "gone" => broker'[j] = "gone"
                              /\ EndedFor(j) => EndedFor(j)'
<1>1. broker \in [Jobs -> Brokers] /\ stop \subseteq Jobs /\ killed \subseteq Jobs
    BY DEF Typed, WorkOK
<1>2. /\ broker' = [j \in Jobs |-> IF j \in S /\ broker[j] = "prepared" THEN "canceled" ELSE broker[j]]
      /\ killed' = killed \cup {j \in S : broker[j] \in {"prepared", "checking"}}
      /\ stop' = stop \cup S
    BY DEF Stopped
<1>3. broker' \in [Jobs -> Brokers]
    BY <1>1, <1>2 DEF Brokers, Ended
<1> QED
    BY <1>1, <1>2, <1>3 DEF EndedFor, Active

\* Steps that leave the work alone.
LEMMA SameWork ==
    ASSUME Typed, UNCHANGED <<broker, stop, killed>>, dead' \subseteq Jobs
    PROVE  /\ WorkOK' /\ stop \subseteq stop'
           /\ \A j \in Jobs : /\ broker'[j] \in Active => broker[j] \in Active
                              /\ broker[j] = "gone" => broker'[j] = "gone"
                              /\ EndedFor(j) => EndedFor(j)'
BY DEF Typed, WorkOK, EndedFor

\* A signal admitted, or its fence refused before anything was written, keeps the
\* invariant.
LEMMA ContainStep ==
    ASSUME IInv, NEW g \in Signals, Contain(g) \/ FenceUnavailable(g)
    PROVE  IInv'
<1>1. Typed /\ incident \in [Signals -> Containments] /\ incident[g] \in Containments
    BY DEF IInv, Typed, ControlOK
<1>2. UNCHANGED <<durable, serving, approval, resume>> /\ UNCHANGED <<broker, stop, killed, dead>>
    BY DEF Contain, FenceUnavailable, work
<1>3. PICK s \in {"admitted", "lost"} : /\ incident' = [incident EXCEPT ![g].step = s]
                                        /\ incident[g].step \in {"unused", "admitted"}
    BY DEF Contain, FenceUnavailable, Admissible
<1>4. PICK c : c = [incident[g] EXCEPT !.step = s]
    OBVIOUS
<1>5. /\ c \in Containments /\ c.step = s /\ c.epoch = incident[g].epoch
      /\ c.todo = incident[g].todo /\ c.jobs = incident[g].jobs
    BY <1>1, <1>4 DEF Containments, Steps
<1>6. incident' = [incident EXCEPT ![g] = c]
    BY <1>1, <1>3, <1>4
<1>7. CollectedAt(g)'
    <2>1. incident'[g].step = s
        BY <1>1, <1>5, <1>6
    <2> QED
        BY <2>1 DEF CollectedAt
<1>8. /\ WorkOK' /\ stop \subseteq stop'
      /\ \A j \in Jobs : /\ broker'[j] \in Active => broker[j] \in Active
                         /\ broker[j] = "gone" => broker'[j] = "gone"
                         /\ EndedFor(j) => EndedFor(j)'
    <2>1. dead' \subseteq Jobs
        BY <1>1, <1>2 DEF Typed, WorkOK
    <2> QED
        BY <1>1, <1>2, <2>1, SameWork
<1>9. c.todo \subseteq c.jobs /\ c.todo = {} /\ c.step \notin InProgress
    BY <1>3, <1>5 DEF IInv, Typed, ControlOK, InProgress, Uncollected
<1> QED
    BY <1>2, <1>3, <1>5, <1>6, <1>7, <1>8, <1>9, IncidentStep

\* Stopping after a failed fence keeps the invariant: the intents stay.
LEMMA GiveUpStep ==
    ASSUME IInv, NEW g \in Signals, GiveUp(g)
    PROVE  IInv'
<1>1. Typed /\ incident \in [Signals -> Containments] /\ incident[g] \in Containments
    BY DEF IInv, Typed, ControlOK
<1>2. /\ UNCHANGED <<durable, serving, approval, resume>> /\ Stopped(ActiveJobs(g))
      /\ incident' = [incident EXCEPT ![g].step = "failed"]
      /\ \E P \in SUBSET Paused(g) : dead' = dead \cup P
    BY DEF GiveUp
<1>3. PICK c : c = [incident[g] EXCEPT !.step = "failed"]
    OBVIOUS
<1>4. /\ c \in Containments /\ c.step = "failed" /\ c.epoch = incident[g].epoch
      /\ c.todo = incident[g].todo /\ c.jobs = incident[g].jobs
    BY <1>1, <1>3 DEF Containments, Steps
<1>5. incident' = [incident EXCEPT ![g] = c]
    BY <1>1, <1>2, <1>3
<1>6. CollectedAt(g)'
    <2>1. incident'[g].step = "failed"
        BY <1>1, <1>4, <1>5
    <2> QED
        BY <2>1 DEF CollectedAt
<1>7. ActiveJobs(g) \in SUBSET Jobs
    BY DEF ActiveJobs
<1>8. /\ broker' \in [Jobs -> Brokers] /\ stop' \subseteq Jobs /\ killed' \subseteq Jobs
      /\ stop \subseteq stop'
      /\ \A j \in Jobs : /\ broker'[j] \in Active => broker[j] \in Active
                         /\ broker[j] = "gone" => broker'[j] = "gone"
                         /\ EndedFor(j) => EndedFor(j)'
    BY <1>1, <1>2, <1>7, StoppedWork
<1>9. WorkOK'
    <2>1. dead' \subseteq Jobs
        BY <1>1, <1>2 DEF Typed, WorkOK, Paused
    <2> QED
        BY <1>8, <2>1 DEF WorkOK
<1>10. c.todo \subseteq c.jobs /\ c.todo = {} /\ c.step \notin InProgress \cup {"unused", "admitted"}
    BY <1>2, <1>4 DEF IInv, Typed, ControlOK, InProgress, Uncollected, GiveUp
<1> QED
    BY <1>2, <1>4, <1>5, <1>6, <1>8, <1>9, <1>10, IncidentStep

\* Collecting the jobs keeps the invariant: no active job of the signal is left out.
LEMMA CollectStep ==
    ASSUME IInv, NEW g \in Signals, Collect(g)
    PROVE  IInv'
<1>1. Typed /\ incident \in [Signals -> Containments] /\ incident[g] \in Containments
    BY DEF IInv, Typed, ControlOK
<1>2. /\ UNCHANGED <<durable, serving, approval, resume>> /\ UNCHANGED <<broker, stop, killed, dead>>
      /\ incident[g].step = "fenced"
      /\ incident' = [incident EXCEPT ![g].step = "pausing", ![g].jobs = ActiveJobs(g)]
    BY DEF Collect, work
<1>3. PICK c : c = [incident[g] EXCEPT !.step = "pausing", !.jobs = ActiveJobs(g)]
    OBVIOUS
<1>4. /\ c \in Containments /\ c.step = "pausing" /\ c.epoch = incident[g].epoch
      /\ c.todo = incident[g].todo /\ c.jobs = ActiveJobs(g)
    BY <1>1, <1>3 DEF Containments, Steps, ActiveJobs
<1>5. incident' = [incident EXCEPT ![g] = c]
    BY <1>1, <1>2, <1>3
<1>6. CollectedAt(g)'
    <2>1. incident'[g] = c
        BY <1>1, <1>5
    <2>2. ASSUME NEW j \in Jobs, Reaches(g, j)', broker'[j] \in Active
          PROVE  j \in ActiveJobs(g)
        <3>1. Reaches(g, j)
            BY <1>2, <2>2, RecoveredSame DEF durable
        <3> QED
            BY <1>2, <2>2, <3>1 DEF ActiveJobs, Reaches
    <2> QED
        BY <1>4, <2>1, <2>2 DEF CollectedAt
<1>7. /\ WorkOK' /\ stop \subseteq stop'
      /\ \A j \in Jobs : /\ broker'[j] \in Active => broker[j] \in Active
                         /\ broker[j] = "gone" => broker'[j] = "gone"
                         /\ EndedFor(j) => EndedFor(j)'
    <2>1. dead' \subseteq Jobs
        BY <1>1, <1>2 DEF Typed, WorkOK
    <2> QED
        BY <1>1, <1>2, <2>1, SameWork
<1>8. c.todo \subseteq c.jobs /\ c.todo = {}
    BY <1>2, <1>4 DEF IInv, Typed, ControlOK, Uncollected
<1>9. incident[g].step \in InProgress
    BY <1>2 DEF InProgress
<1> QED
    BY <1>2, <1>4, <1>5, <1>6, <1>7, <1>8, <1>9, IncidentStep

\* Pausing the registry contexts, which may fail, keeps the invariant.
LEMMA PauseStep ==
    ASSUME IInv, NEW g \in Signals, NEW ok \in BOOLEAN, Pause(g, ok)
    PROVE  IInv'
<1>1. Typed /\ incident \in [Signals -> Containments] /\ incident[g] \in Containments
    BY DEF IInv, Typed, ControlOK
<1>2. /\ UNCHANGED <<durable, serving, approval, resume>> /\ UNCHANGED <<broker, stop, killed>>
      /\ incident[g].step = "pausing"
      /\ incident' = [incident EXCEPT ![g].step = "stopping", ![g].todo = incident[g].jobs,
                                      ![g].error = @ \/ ~ok]
      /\ dead' \subseteq dead \cup Paused(g)
    BY DEF Pause
<1>3. PICK c : c = [incident[g] EXCEPT !.step = "stopping", !.todo = incident[g].jobs,
                                       !.error = @ \/ ~ok]
    OBVIOUS
<1>4. /\ c \in Containments /\ c.step = "stopping" /\ c.epoch = incident[g].epoch
      /\ c.todo = incident[g].jobs /\ c.jobs = incident[g].jobs
    BY <1>1, <1>3 DEF Containments, Steps
<1>5. incident' = [incident EXCEPT ![g] = c]
    BY <1>1, <1>2, <1>3
<1>6. incident'[g] = c
    BY <1>1, <1>5
<1>7. /\ WorkOK' /\ stop \subseteq stop'
      /\ \A j \in Jobs : /\ broker'[j] \in Active => broker[j] \in Active
                         /\ broker[j] = "gone" => broker'[j] = "gone"
                         /\ EndedFor(j) => EndedFor(j)'
    <2>1. dead' \subseteq Jobs
        BY <1>1, <1>2 DEF Typed, WorkOK, Paused
    <2> QED
        BY <1>1, <1>2, <2>1, SameWork
<1>8. CollectedAt(g)'
    <2>1. UNCHANGED intents
        BY <1>2 DEF durable
    <2> QED
        BY <1>2, <1>4, <1>6, <1>7, <2>1, CollectedAfter
<1>9. c.todo \subseteq c.jobs /\ c.step \notin Uncollected
    BY <1>4 DEF Uncollected
<1>10. incident[g].step \in InProgress
    BY <1>2 DEF InProgress
<1> QED
    BY <1>2, <1>4, <1>5, <1>7, <1>8, <1>9, <1>10, IncidentStep

\* Stopping one collected job, which may fail, keeps the invariant.
LEMMA StopJobStep ==
    ASSUME IInv, NEW g \in Signals, NEW j \in Jobs, NEW ok \in BOOLEAN, StopJob(g, j, ok)
    PROVE  IInv'
<1>1. Typed /\ incident \in [Signals -> Containments] /\ incident[g] \in Containments
    BY DEF IInv, Typed, ControlOK
<1>2. /\ UNCHANGED <<durable, serving, approval, resume>> /\ dead' = dead
      /\ incident[g].step \in {"stopping", "cleaning"} /\ j \in incident[g].todo
      /\ incident' = [incident EXCEPT ![g].todo = @ \ {j}, ![g].error = @ \/ ~ok]
    BY DEF StopJob
<1>3. PICK c : c = [incident[g] EXCEPT !.todo = @ \ {j}, !.error = @ \/ ~ok]
    OBVIOUS
<1>4. /\ c \in Containments /\ c.step = incident[g].step /\ c.epoch = incident[g].epoch
      /\ c.todo = incident[g].todo \ {j} /\ c.jobs = incident[g].jobs
      /\ c.error = (incident[g].error \/ ~ok)
    BY <1>1, <1>3 DEF Containments, Steps
<1>5. incident' = [incident EXCEPT ![g] = c]
    BY <1>1, <1>2, <1>3
<1>6. incident'[g] = c
    BY <1>1, <1>5
<1> DEFINE S == {j} \cap {x \in Jobs : broker[x] # "gone"}
<1>7. /\ WorkOK' /\ stop \subseteq stop'
      /\ \A i \in Jobs : /\ broker'[i] \in Active => broker[i] \in Active
                         /\ broker[i] = "gone" => broker'[i] = "gone"
                         /\ EndedFor(i) => EndedFor(i)'
      /\ ok => S \subseteq stop'
    <2>1. CASE ok
        <3>1. Stopped(S) /\ S \in SUBSET Jobs
            BY <2>1 DEF StopJob
        <3> HIDE DEF S
        <3>2. /\ broker' \in [Jobs -> Brokers] /\ stop' \subseteq Jobs /\ killed' \subseteq Jobs
              /\ stop' = stop \cup S
              /\ \A i \in Jobs : /\ broker'[i] \in Active => broker[i] \in Active
                                 /\ broker[i] = "gone" => broker'[i] = "gone"
                                 /\ EndedFor(i) => EndedFor(i)'
            BY <1>1, <3>1, StoppedWork
        <3> QED
            BY <1>1, <1>2, <3>2 DEF Typed, WorkOK
    <2>2. CASE ~ok
        <3>1. UNCHANGED <<broker, stop, killed>>
            BY <2>2 DEF StopJob
        <3>2. dead' \subseteq Jobs
            BY <1>1, <1>2 DEF Typed, WorkOK
        <3> QED
            BY <1>1, <2>2, <3>1, <3>2, SameWork
    <2> QED
        BY <2>1, <2>2
<1>8. CollectedAt(g)'
    <2>1. ASSUME NEW i \in incident[g].jobs
          PROVE  \/ i \in stop' \/ c.error \/ broker'[i] = "gone"
                 \/ c.step = "stopping" /\ i \in c.todo
        <3>1. i \in Jobs
            BY <1>1 DEF Containments
        <3>2. \/ i \in stop \/ incident[g].error \/ broker[i] = "gone"
              \/ incident[g].step = "stopping" /\ i \in incident[g].todo
            BY <1>2 DEF IInv, CollectedAt
        <3>3. CASE i = j /\ ok
            BY <1>7, <3>1, <3>3
        <3>4. CASE ~ok
            BY <1>4, <3>4
        <3>5. CASE i # j
            BY <1>4, <1>7, <3>1, <3>2, <3>5
        <3> QED
            BY <3>3, <3>4, <3>5
    <2>2. UNCHANGED intents
        BY <1>2 DEF durable
    <2>3. incident[g].step \in {"pausing", "stopping", "cleaning", "done"}
        BY <1>2
    <2> QED
        BY <1>4, <1>6, <1>7, <2>1, <2>2, <2>3, CollectedAfter
<1>9. c.todo \subseteq c.jobs /\ c.step \notin Uncollected \cup {"unused", "admitted"}
    BY <1>2, <1>4 DEF Uncollected, IInv, Typed, ControlOK
<1>10. incident[g].step \in InProgress
    BY <1>2 DEF InProgress
<1> HIDE DEF S
<1> QED
    BY <1>2, <1>4, <1>5, <1>7, <1>8, <1>9, <1>10, IncidentStep

\* The start and the end of the cleanup keep the invariant.
LEMMA CleanupStep ==
    ASSUME IInv, NEW g \in Signals, StartCleanup(g) \/ EndCleanup(g)
    PROVE  IInv'
<1>1. Typed /\ incident \in [Signals -> Containments] /\ incident[g] \in Containments
    BY DEF IInv, Typed, ControlOK
<1>2. /\ UNCHANGED <<durable, serving, approval, resume>> /\ UNCHANGED <<broker, stop, killed, dead>>
      /\ incident[g].step \in {"stopping", "cleaning"} /\ incident[g].todo = {}
    BY DEF StartCleanup, EndCleanup, work
<1>3. PICK c \in Containments :
        /\ incident' = [incident EXCEPT ![g] = c]
        /\ c.step \in {"cleaning", "done"} /\ c.epoch = incident[g].epoch
        /\ c.todo \subseteq c.jobs /\ c.jobs = incident[g].jobs
        /\ incident[g].error => c.error
    <2>1. CASE StartCleanup(g)
        <3>1. PICK c : c = [incident[g] EXCEPT !.step = "cleaning", !.todo = incident[g].jobs]
            OBVIOUS
        <3>2. incident' = [incident EXCEPT ![g] = c]
            BY <1>1, <2>1, <3>1 DEF StartCleanup
        <3>3. /\ c \in Containments /\ c.step = "cleaning" /\ c.epoch = incident[g].epoch
              /\ c.todo = incident[g].jobs /\ c.jobs = incident[g].jobs /\ c.error = incident[g].error
            BY <1>1, <3>1 DEF Containments, Steps
        <3> QED
            BY <3>2, <3>3
    <2>2. CASE EndCleanup(g)
        <3>1. PICK gap \in BOOLEAN :
                 incident' = [incident EXCEPT ![g].step = "done", ![g].error = @ \/ gap]
            BY <2>2 DEF EndCleanup
        <3>2. PICK c : c = [incident[g] EXCEPT !.step = "done", !.error = @ \/ gap]
            OBVIOUS
        <3>3. incident' = [incident EXCEPT ![g] = c]
            BY <1>1, <3>1, <3>2
        <3>4. /\ c \in Containments /\ c.step = "done" /\ c.epoch = incident[g].epoch
              /\ c.todo = incident[g].todo /\ c.jobs = incident[g].jobs
              /\ c.error = (incident[g].error \/ gap)
            BY <1>1, <3>2 DEF Containments, Steps
        <3> QED
            BY <1>2, <3>3, <3>4
    <2> QED
        BY <2>1, <2>2
<1>4. incident'[g] = c
    BY <1>1, <1>3
<1>5. /\ WorkOK' /\ stop \subseteq stop'
      /\ \A j \in Jobs : /\ broker'[j] \in Active => broker[j] \in Active
                         /\ broker[j] = "gone" => broker'[j] = "gone"
                         /\ EndedFor(j) => EndedFor(j)'
    <2>1. dead' \subseteq Jobs
        BY <1>1, <1>2 DEF Typed, WorkOK
    <2> QED
        BY <1>1, <1>2, <2>1, SameWork
<1>6. CollectedAt(g)'
    <2>1. ASSUME NEW i \in incident[g].jobs
          PROVE  i \in stop' \/ c.error \/ broker'[i] = "gone"
        <3>1. i \in stop \/ incident[g].error \/ broker[i] = "gone"
            BY <1>2 DEF IInv, CollectedAt
        <3> QED
            BY <1>2, <1>3, <3>1
    <2>2. UNCHANGED intents
        BY <1>2 DEF durable
    <2>3. incident[g].step \in {"pausing", "stopping", "cleaning", "done"}
        BY <1>2
    <2> QED
        BY <1>3, <1>4, <1>5, <2>1, <2>2, <2>3, CollectedAfter
<1>7. c.step \notin Uncollected \cup {"unused", "admitted"} /\ incident[g].step \in InProgress
    BY <1>2, <1>3 DEF Uncollected, InProgress
<1> QED
    BY <1>2, <1>3, <1>5, <1>6, <1>7, IncidentStep
-----------------------------------------------------------------------------
(* Recovery, up to its second transaction.                                 *)

Evidences == UNION {[J -> [status : {"canceled", "completed", "unknown"}, state : Brokers]] :
                       J \in SUBSET Jobs}
Approvals == [issued : BOOLEAN, fresh : BOOLEAN, owner : Groups, evidence : Evidences]
Resumes == [step : {"idle", "look", "verify", "commit"}, left : Seq(Scopes), owner : Nat]

\* The recovery of signal g moves on and leaves the fences alone.
Recovering(g, a, r, c) ==
    /\ UNCHANGED <<durable, serving>> /\ UNCHANGED work
    /\ approval' = [approval EXCEPT ![g] = a]
    /\ a.issued => incident[g].epoch > 0
    /\ resume' = [resume EXCEPT ![g] = r]
    /\ r.step # "idle" =>
           incident[g].epoch > 0 /\ \A n \in DOMAIN r.left : r.left[n] \in Members(g)
    /\ r.step \in {"verify", "commit"} => r.left # <<>>
    /\ incident' = [incident EXCEPT ![g] = c]
    /\ c.step = incident[g].step /\ c.epoch = incident[g].epoch /\ c.todo = incident[g].todo
    /\ c.jobs = incident[g].jobs /\ c.error = incident[g].error

\* A step of the recovery on approval, resume record and containment alone keeps the
\* invariant.
LEMMA RecoveryStep ==
    ASSUME IInv, NEW g \in Signals, NEW a \in Approvals, NEW r \in Resumes,
           NEW c \in Containments, Recovering(g, a, r, c)
    PROVE  IInv'
<1> /\ UNCHANGED <<durable, serving>> /\ UNCHANGED work
    /\ approval' = [approval EXCEPT ![g] = a]
    /\ resume' = [resume EXCEPT ![g] = r]
    /\ incident' = [incident EXCEPT ![g] = c]
    /\ a.issued => incident[g].epoch > 0
    /\ r.step # "idle" =>
           incident[g].epoch > 0 /\ \A n \in DOMAIN r.left : r.left[n] \in Members(g)
    /\ r.step \in {"verify", "commit"} => r.left # <<>>
    /\ c.step = incident[g].step /\ c.epoch = incident[g].epoch /\ c.todo = incident[g].todo
    /\ c.jobs = incident[g].jobs /\ c.error = incident[g].error
    BY DEF Recovering
<1>1. /\ Typed /\ incident \in [Signals -> Containments] /\ KnownAt(g) /\ CollectedAt(g)
      /\ approval \in [Signals -> Approvals] /\ resume \in [Signals -> Resumes]
    BY DEF IInv, Typed, ControlOK, Approvals, Evidences, Resumes
<1>2. /\ incident'[g] = c /\ resume'[g] = r /\ approval'[g] = a
      /\ \A h \in Signals \ {g} : incident'[h] = incident[h] /\ resume'[h] = resume[h]
                                  /\ approval'[h] = approval[h]
    BY <1>1
<1>3. ControlOK'
    <2>1. /\ incident' \in [Signals -> Containments] /\ approval' \in [Signals -> Approvals]
          /\ resume' \in [Signals -> Resumes]
        BY <1>1
    <2>2. ASSUME NEW h \in Signals
          PROVE  /\ incident'[h].todo \subseteq incident'[h].jobs
                 /\ incident'[h].step \in Uncollected => incident'[h].todo = {}
        BY <1>1, <1>2 DEF Typed, ControlOK
    <2> QED
        BY <2>1, <2>2 DEF ControlOK, Approvals, Evidences, Resumes
<1>4. UNCHANGED intents /\ UNCHANGED <<broker, stop, killed, dead>>
    BY DEF durable, work
<1>5. KnownAt(g)'
    BY <1>1, <1>2, <1>4 DEF KnownAt, Members
<1>6. CollectedAt(g)'
    <2>1. ASSUME NEW j \in Jobs
          PROVE  Reaches(g, j)' = Reaches(g, j) /\ Recovered(g, j)' = Recovered(g, j)
        BY <1>4, RecoveredSame
    <2> QED
        BY <1>1, <1>2, <1>4, <2>1 DEF CollectedAt
<1>7. /\ WorkOK' /\ stop \subseteq stop'
      /\ \A j \in Jobs : /\ broker'[j] \in Active => broker[j] \in Active
                         /\ broker[j] = "gone" => broker'[j] = "gone"
                         /\ EndedFor(j) => EndedFor(j)'
    <2>1. dead' \subseteq Jobs
        BY <1>1, <1>4 DEF Typed, WorkOK
    <2> QED
        BY <1>1, <1>4, <2>1, SameWork
<1> QED
    BY <1>2, <1>3, <1>5, <1>6, <1>7, ControlStep

\* The same when only the call of resume moves on.
LEMMA ResumeMoves ==
    ASSUME IInv, NEW g \in Signals, UNCHANGED <<durable, serving, work, incident, approval>>,
           NEW r \in Resumes, resume' = [resume EXCEPT ![g] = r],
           r.step # "idle" =>
               incident[g].epoch > 0 /\ \A n \in DOMAIN r.left : r.left[n] \in Members(g),
           r.step \in {"verify", "commit"} => r.left # <<>>
    PROVE  IInv'
<1>1. /\ incident \in [Signals -> Containments] /\ KnownAt(g)
      /\ approval \in [Signals -> Approvals]
    BY DEF IInv, Typed, ControlOK, Approvals, Evidences
<1>2. PICK c \in Containments : c = incident[g]
    BY <1>1
<1>3. PICK a \in Approvals : a = approval[g]
    BY <1>1
<1>4. incident' = [incident EXCEPT ![g] = c] /\ approval' = [approval EXCEPT ![g] = a]
    BY <1>1, <1>2, <1>3
<1>5. a.issued => incident[g].epoch > 0
    BY <1>1, <1>3 DEF KnownAt
<1>6. UNCHANGED <<durable, serving>> /\ UNCHANGED work
    OBVIOUS
<1>7. /\ c.step = incident[g].step /\ c.epoch = incident[g].epoch /\ c.todo = incident[g].todo
      /\ c.jobs = incident[g].jobs /\ c.error = incident[g].error
    BY <1>2
<1>8. Recovering(g, a, r, c)
    BY <1>4, <1>5, <1>6, <1>7 DEF Recovering
<1> QED
    BY <1>8, RecoveryStep

\* The approval of a resume keeps the invariant.
LEMMA ApproveResumeStep ==
    ASSUME IInv, NEW g \in Signals, ApproveResume(g)
    PROVE  IInv'
<1>1. /\ Typed /\ incident \in [Signals -> Containments] /\ incident[g] \in Containments
      /\ KnownAt(g) /\ approval \in [Signals -> Approvals] /\ resume \in [Signals -> Resumes]
    BY DEF IInv, Typed, ControlOK, Approvals, Evidences, Resumes
<1>2. /\ incident[g].step = "done" /\ UNCHANGED <<durable, serving, work, incident, resume>>
      /\ approval' = [approval EXCEPT ![g] = [issued |-> TRUE, fresh |-> TRUE,
                      owner |-> [k \in DOMAIN Group(g) |-> owner[k]], evidence |-> Evidence(g)]]
    BY DEF ApproveResume
<1>3. incident[g].epoch > 0
    BY <1>1, <1>2 DEF KnownAt
<1>4. [k \in DOMAIN Group(g) |-> owner[k]] \in Groups
    <2>1. DOMAIN Group(g) \in SUBSET Scopes
        BY <1>3, GroupTyped, MembersTyped
    <2>2. \A k \in Scopes : owner[k] \in Nat
        BY <1>1, IncidentConstants DEF Typed, DurableOK
    <2>3. [k \in DOMAIN Group(g) |-> owner[k]] \in [DOMAIN Group(g) -> Nat]
        BY <2>1, <2>2
    <2>4. [DOMAIN Group(g) -> Nat] \in {[S -> Nat] : S \in SUBSET Scopes}
        BY <2>1
    <2> QED
        BY <2>3, <2>4 DEF Groups
<1>5. Evidence(g) \in Evidences
    <2> DEFINE J == incident[g].jobs
               R == [status : {"canceled", "completed", "unknown"}, state : Brokers]
    <2>1. J \in SUBSET Jobs
        BY <1>1 DEF Containments
    <2>2. \A j \in J : Report(j) \in R
        BY <1>1, <2>1 DEF Typed, WorkOK, Report
    <2>3. Evidence(g) \in [J -> R]
        BY <2>2 DEF Evidence
    <2> HIDE DEF J, R
    <2>4. [J -> R] \in {[K -> R] : K \in SUBSET Jobs}
        BY <2>1
    <2>5. Evidences = UNION {[K -> R] : K \in SUBSET Jobs}
        BY DEF Evidences, R
    <2> QED
        BY <2>3, <2>4, <2>5
<1>6. PICK a : a = [issued |-> TRUE, fresh |-> TRUE,
                    owner |-> [k \in DOMAIN Group(g) |-> owner[k]], evidence |-> Evidence(g)]
    OBVIOUS
<1>7. a \in Approvals /\ approval' = [approval EXCEPT ![g] = a]
    BY <1>2, <1>4, <1>5, <1>6 DEF Approvals
<1>8. PICK r \in Resumes : r = resume[g]
    BY <1>1
<1>9. resume' = [resume EXCEPT ![g] = r] /\ incident' = [incident EXCEPT ![g] = incident[g]]
    BY <1>1, <1>2, <1>8
<1>10. /\ r.step # "idle" => \A n \in DOMAIN r.left : r.left[n] \in Members(g)
       /\ r.step \in {"verify", "commit"} => r.left # <<>>
    BY <1>1, <1>8 DEF KnownAt
<1>11. PICK c \in Containments : c = incident[g]
    BY <1>1
<1>12. UNCHANGED <<durable, serving>> /\ UNCHANGED work /\ incident' = [incident EXCEPT ![g] = c]
    BY <1>2, <1>9, <1>11
<1>13. Recovering(g, a, r, c)
    BY <1>3, <1>7, <1>9, <1>10, <1>11, <1>12 DEF Recovering
<1> QED
    BY <1>7, <1>13, RecoveryStep

\* The expiry of an approval keeps the invariant.
LEMMA ExpireApprovalStep ==
    ASSUME IInv, NEW g \in Signals, ExpireApproval(g)
    PROVE  IInv'
<1>1. /\ incident \in [Signals -> Containments] /\ KnownAt(g)
      /\ approval \in [Signals -> Approvals] /\ resume \in [Signals -> Resumes]
    BY DEF IInv, Typed, ControlOK, Approvals, Evidences, Resumes
<1>2. /\ UNCHANGED <<durable, serving>> /\ UNCHANGED work /\ UNCHANGED <<incident, resume>>
      /\ approval' = [approval EXCEPT ![g].fresh = FALSE]
    BY DEF ExpireApproval
<1>3. PICK a : a = [approval[g] EXCEPT !.fresh = FALSE]
    OBVIOUS
<1>4. approval[g] \in Approvals
    BY <1>1
<1>5. a \in Approvals /\ a.issued = approval[g].issued
    BY <1>3, <1>4 DEF Approvals
<1>6. approval' = [approval EXCEPT ![g] = a]
    BY <1>1, <1>2, <1>3
<1>7. PICK r \in Resumes : r = resume[g]
    BY <1>1
<1>8. PICK c \in Containments : c = incident[g]
    BY <1>1
<1>9. resume' = [resume EXCEPT ![g] = r] /\ incident' = [incident EXCEPT ![g] = c]
    BY <1>1, <1>2, <1>7, <1>8
<1>10. /\ r.step # "idle" =>
              incident[g].epoch > 0 /\ \A n \in DOMAIN r.left : r.left[n] \in Members(g)
       /\ r.step \in {"verify", "commit"} => r.left # <<>>
       /\ a.issued => incident[g].epoch > 0
    BY <1>1, <1>5, <1>7 DEF KnownAt
<1>11. /\ c.step = incident[g].step /\ c.epoch = incident[g].epoch /\ c.todo = incident[g].todo
       /\ c.jobs = incident[g].jobs /\ c.error = incident[g].error
    BY <1>8
<1>12. UNCHANGED <<durable, serving>> /\ UNCHANGED work
    BY <1>2
<1>13. Recovering(g, a, r, c)
    BY <1>5, <1>6, <1>9, <1>10, <1>11, <1>12 DEF Recovering
<1> QED
    BY <1>5, <1>13, RecoveryStep

\* The members that a recovery goes through are those of the group.
LEMMA BundleTyped ==
    ASSUME IInv, NEW g \in Signals, incident[g].epoch > 0
    PROVE  /\ Bundle(g) \in Seq(Scopes)
           /\ \A n \in DOMAIN Bundle(g) : Bundle(g)[n] \in Members(g)
<1> PICK M : M = Members(g) \ {Primary}
    OBVIOUS
<1> PICK q : q = CHOOSE o \in [1..Cardinality(M) -> M] : \A k \in M : \E n \in DOMAIN o : o[n] = k
    OBVIOUS
<1>1. DOMAIN Group(g) = Members(g) /\ Members(g) \subseteq Scopes /\ Primary \in Members(g)
    BY GroupTyped, MembersTyped
<1>2. Bundle(g) = q \o <<Primary>>
    BY <1>1 DEF Bundle
<1>3. Cardinality(M) \in Nat /\ ExistsBijection(1..Cardinality(M), M)
    <2>1. IsFiniteSet(M)
        BY <1>1, IncidentConstants, FS_Subset
    <2> QED
        BY <2>1, FS_CardinalityType
<1>4. PICK f : f \in Bijection(1..Cardinality(M), M)
    BY <1>3 DEF ExistsBijection
<1>5. f \in [1..Cardinality(M) -> M] /\ \A k \in M : \E n \in DOMAIN f : f[n] = k
    BY <1>4 DEF Bijection, Injection, Surjection
<1>6. q \in [1..Cardinality(M) -> M]
    BY <1>5
<1>7. q \in Seq(Members(g)) /\ <<Primary>> \in Seq(Members(g))
    <2>1. PICK n \in Nat : n = Cardinality(M)
        BY <1>3
    <2>2. PICK N : N = Members(g)
        OBVIOUS
    <2>3. M \subseteq N /\ Primary \in N
        BY <1>1, <2>2
    <2>4. q \in [1..n -> N]
        BY <1>6, <2>1, <2>3
    <2>5. q \in Seq(N)
        <3>1. [1..n -> N] \in {[1..m -> N] : m \in Nat}
            OBVIOUS
        <3> QED
            BY <2>4, <3>1, SeqDef
    <2>6. <<Primary>> \in Seq(N)
        BY <2>3
    <2> QED
        BY <2>2, <2>5, <2>6
<1>8. Bundle(g) \in Seq(Members(g))
    BY <1>2, <1>7
<1> QED
    BY <1>1, <1>8

\* The start of a resume keeps the invariant.
LEMMA ResumeStep ==
    ASSUME IInv, NEW g \in Signals, Resume(g)
    PROVE  IInv'
<1>1. /\ UNCHANGED <<durable, serving, work, incident, approval>> /\ approval[g].issued
      /\ resume' = [resume EXCEPT ![g] = [step |-> "look", left |-> Bundle(g), owner |-> 0]]
    BY DEF Resume
<1>2. incident[g].epoch > 0
    BY <1>1 DEF IInv, KnownAt
<1>3. PICK r : r = [step |-> "look", left |-> Bundle(g), owner |-> 0]
    OBVIOUS
<1>4. /\ r \in Resumes /\ \A n \in DOMAIN r.left : r.left[n] \in Members(g)
      /\ r.step = "look" /\ resume' = [resume EXCEPT ![g] = r]
    BY <1>1, <1>2, <1>3, BundleTyped DEF Resumes
<1> QED
    BY <1>1, <1>2, <1>4, ResumeMoves

\* What is left after one member was committed are still members of the group.
LEMMA TailMembers ==
    ASSUME NEW g \in Signals, NEW s \in Seq(Scopes), s # <<>>,
           \A n \in DOMAIN s : s[n] \in Members(g)
    PROVE  /\ Head(s) \in Members(g) /\ Tail(s) \in Seq(Scopes)
           /\ \A n \in DOMAIN Tail(s) : Tail(s)[n] \in Members(g)
<1>1. Head(s) = s[1] /\ 1 \in DOMAIN s
    OBVIOUS
<1>2. Tail(s) \in Seq(Scopes) /\ Len(Tail(s)) = Len(s) - 1
      /\ \A n \in 1..Len(Tail(s)) : Tail(s)[n] = s[n + 1] /\ n + 1 \in DOMAIN s
    OBVIOUS
<1> QED
    BY <1>1, <1>2

\* The steps of resume that look at a member.
LEMMA MemberStep ==
    ASSUME IInv, NEW g \in Signals, SkipMember(g) \/ CheckMember(g) \/ VerifyMember(g)
    PROVE  IInv'
<1>1. /\ KnownAt(g) /\ resume \in [Signals -> Resumes] /\ resume[g] \in Resumes
      /\ owner \in [Scopes -> 1..MaxOwner]
    BY DEF IInv, Typed, DurableOK, ControlOK, Resumes
<1>2. /\ UNCHANGED <<durable, serving, work, incident, approval>>
      /\ resume[g].step # "idle" /\ resume[g].left # <<>>
    BY <1>1 DEF SkipMember, CheckMember, VerifyMember, KnownAt
<1>3. /\ incident[g].epoch > 0 /\ resume[g].left \in Seq(Scopes)
      /\ \A n \in DOMAIN resume[g].left : resume[g].left[n] \in Members(g)
    BY <1>1, <1>2 DEF KnownAt, Resumes
<1>4. PICK s : s = resume[g].left
    OBVIOUS
<1>5. /\ Head(s) \in Members(g) /\ Tail(s) \in Seq(Scopes)
      /\ \A n \in DOMAIN Tail(s) : Tail(s)[n] \in Members(g)
    BY <1>2, <1>3, <1>4, TailMembers
<1>6. PICK r \in Resumes :
        /\ resume' = [resume EXCEPT ![g] = r]
        /\ r.left = s \/ (r.step = "look" /\ r.left = Tail(s))
    <2>1. CASE SkipMember(g)
        <3>1. PICK r : r = [resume[g] EXCEPT !.left = Tail(s)]
            OBVIOUS
        <3>2. resume' = [resume EXCEPT ![g] = r]
            BY <1>1, <1>4, <2>1, <3>1 DEF SkipMember
        <3>3. r \in Resumes /\ r.step = "look" /\ r.left = Tail(s)
            BY <1>1, <1>5, <2>1, <3>1 DEF Resumes, SkipMember
        <3> QED
            BY <3>2, <3>3
    <2>2. CASE CheckMember(g)
        <3>1. owner[At(g)] \in Nat
            BY <1>1, <1>4, <1>5, MembersTyped, IncidentConstants DEF At
        <3>2. PICK o : o = owner[At(g)]
            OBVIOUS
        <3>3. PICK r : r = [resume[g] EXCEPT !.step = "verify", !.owner = o]
            OBVIOUS
        <3>4. resume' = [resume EXCEPT ![g] = r]
            BY <1>1, <2>2, <3>2, <3>3 DEF CheckMember
        <3>5. r \in Resumes /\ r.left = s
            BY <1>1, <1>4, <3>1, <3>2, <3>3 DEF Resumes
        <3> QED
            BY <3>4, <3>5
    <2>3. CASE VerifyMember(g)
        <3>1. PICK r : r = [resume[g] EXCEPT !.step = "commit"]
            OBVIOUS
        <3>2. resume' = [resume EXCEPT ![g] = r]
            BY <1>1, <2>3, <3>1 DEF VerifyMember
        <3>3. r \in Resumes /\ r.left = s
            BY <1>1, <1>4, <3>1 DEF Resumes
        <3> QED
            BY <3>2, <3>3
    <2> QED
        BY <2>1, <2>2, <2>3
<1>7. /\ \A n \in DOMAIN r.left : r.left[n] \in Members(g)
      /\ r.step \in {"verify", "commit"} => r.left # <<>>
    BY <1>2, <1>3, <1>4, <1>5, <1>6
<1> QED
    BY <1>2, <1>3, <1>6, <1>7, ResumeMoves

\* A resume that fails, wherever it was, keeps the invariant.
LEMMA AbandonResumeStep ==
    ASSUME IInv, NEW g \in Signals, AbandonResume(g)
    PROVE  IInv'
<1>1. Idle \in Resumes /\ Idle.step = "idle"
    BY DEF Idle, Resumes
<1>2. PICK r : r = Idle
    OBVIOUS
<1>3. /\ UNCHANGED <<durable, serving, work, incident, approval>>
      /\ resume' = [resume EXCEPT ![g] = r]
    BY <1>2 DEF AbandonResume
<1> QED
    BY <1>1, <1>2, <1>3, ResumeMoves

\* The absent approval is an approval that was not issued.
LEMMA NoApprovalTyped == NoApproval \in Approvals /\ ~NoApproval.issued
<1>1. <<>> \in Evidences
    <2> DEFINE R == [status : {"canceled", "completed", "unknown"}, state : Brokers]
    <2>1. <<>> = [x \in {} |-> 0] /\ [x \in {} |-> 0] \in [{} -> R]
        OBVIOUS
    <2>2. {} \in SUBSET Jobs
        OBVIOUS
    <2>3. Evidences = UNION {[K -> R] : K \in SUBSET Jobs}
        BY DEF Evidences
    <2> HIDE DEF R
    <2>4. [{} -> R] \in {[K -> R] : K \in SUBSET Jobs}
        BY <2>2
    <2> QED
        BY <2>1, <2>3, <2>4
<1> QED
    BY <1>1, EmptyTyped DEF NoApproval, Approvals

\* The end of a resume, after its last member, keeps the invariant.
LEMMA EndResumeStep ==
    ASSUME IInv, NEW g \in Signals, EndResume(g)
    PROVE  IInv'
<1>1. incident \in [Signals -> Containments] /\ incident[g] \in Containments
    BY DEF IInv, Typed, ControlOK
<1>2. Idle \in Resumes /\ Idle.step = "idle"
    BY DEF Idle, Resumes
<1>3. PICK r : r = Idle
    OBVIOUS
<1>4. PICK a : a = NoApproval
    OBVIOUS
<1>5. PICK c : c = [incident[g] EXCEPT !.resumed = TRUE]
    OBVIOUS
<1>6. /\ c \in Containments /\ c.step = incident[g].step /\ c.epoch = incident[g].epoch
      /\ c.todo = incident[g].todo /\ c.jobs = incident[g].jobs /\ c.error = incident[g].error
    BY <1>1, <1>5 DEF Containments
<1>7. /\ UNCHANGED <<durable, serving>> /\ UNCHANGED work
      /\ resume' = [resume EXCEPT ![g] = r] /\ approval' = [approval EXCEPT ![g] = a]
    BY <1>3, <1>4 DEF EndResume
<1>8. incident' = [incident EXCEPT ![g] = c]
    BY <1>1, <1>5 DEF EndResume
<1>9. a \in Approvals /\ ~a.issued
    BY <1>4, NoApprovalTyped
<1>10. Recovering(g, a, r, c)
    BY <1>2, <1>3, <1>6, <1>7, <1>8, <1>9 DEF Recovering
<1>11. r \in Resumes
    BY <1>2, <1>3
<1> QED
    BY <1>6, <1>9, <1>10, <1>11, RecoveryStep
-----------------------------------------------------------------------------
(* Reconciliation, recovery and restart.                                   *)

\* The intent of a signal in a member of its group, once it is the newest.
LEMMA NewestTyped ==
    ASSUME IInv, NEW g \in Signals, incident[g].epoch > 0, NEW k \in Members(g),
           Group(g)[k] = Epoch(k)
    PROVE  /\ k \in Scopes /\ Epoch(k) \in DOMAIN intents[k] /\ Epoch(k) \in Nat \ {0}
           /\ Newest(k) \in Intents /\ Newest(k).signal = g /\ Newest(k).fence = Ask[g]
           /\ Newest(k).subjects = FenceTargets(Ask[g], k)
           /\ \A j \in Newest(k).jobs : j \in Jobs /\ HomeOf(j) = k
<1>1. Typed /\ k \in Scopes
    BY MembersTyped DEF IInv
<1>2. Epoch(k) \in 1..Epoch(k) /\ intents[k][Epoch(k)].signal = g
    BY GroupTyped
<1>3. /\ Epoch(k) \in Nat /\ DOMAIN intents[k] = 1..Epoch(k)
      /\ \A d \in DOMAIN intents[k] : intents[k][d] \in Intents
    BY <1>1, EpochTyped
<1>4. Epoch(k) \in DOMAIN intents[k] /\ Newest(k) \in Intents
    BY <1>2, <1>3 DEF Newest
<1>5. IntentAt(k, Epoch(k))
    BY <1>1, <1>4 DEF IInv, IntentsOK
<1>6. Newest(k).jobs \subseteq Jobs
    BY <1>4 DEF Intents
<1> QED
    BY <1>1, <1>2, <1>3, <1>4, <1>5, <1>6 DEF IntentAt, Newest

\* The reconciliation of one job in the coordinator keeps the invariant.
LEMMA ReconcileJobStep ==
    ASSUME IInv, NEW g \in Signals, NEW k \in Scopes, NEW j \in Jobs, ReconcileJob(g, k, j)
    PROVE  IInv'
<1>1. /\ incident[g].epoch > 0 /\ k \in DOMAIN Group(g) /\ Group(g)[k] = Epoch(k)
      /\ j \in Newest(k).jobs /\ EndedFor(j) /\ outcome' = [outcome EXCEPT ![j] = Epoch(k)]
      /\ UNCHANGED <<intents, barrier, owner, revoked, banned, row, serving>>
      /\ UNCHANGED work /\ UNCHANGED control
    BY DEF ReconcileJob, Group
<1>2. k \in Members(g)
    BY <1>1, GroupTyped
<1>3. Epoch(k) \in Nat /\ HomeOf(j) = k
    BY <1>1, <1>2, NewestTyped
<1>4. FencesStay /\ History /\ Typed
    BY <1>1, UnchangedHistory DEF FencesStay, IInv
<1>5. UNCHANGED <<incident, approval, resume>> /\ UNCHANGED <<broker, stop, killed, dead>>
    BY <1>1 DEF control, work
<1>6. /\ IntentsOK' /\ SignalsOnce'
      /\ (\A x \in Realms : BarrierAt(x)') /\ (\A i \in Jobs : ShutAt(i)')
    BY <1>4, <1>5, FencesKept
<1>7. DurableOK'
    <2>1. outcome' \in [Jobs -> Nat] /\ \A i \in Jobs : outcome'[i] <= Epoch(HomeOf(i))
        BY <1>1, <1>3, <1>4 DEF Typed, DurableOK
    <2>2. \A i \in Jobs : Epoch(HomeOf(i))' = Epoch(HomeOf(i))
        BY <1>1 DEF Epoch, HomeOf
    <2> QED
        BY <1>1, <1>4, <2>1, <2>2 DEF Typed, DurableOK
<1>8. WorkOK' /\ ControlOK'
    BY <1>4, <1>5 DEF Typed, WorkOK, ControlOK
<1>9. ASSUME NEW h \in Signals PROVE KnownAt(h)' /\ OutcomesAt(h)' /\ CollectedAt(h)'
    <2>1. KnownAt(h)'
        BY <1>4, <1>5, KnownKept
    <2>2. CollectedAt(h)'
        BY <1>1, <1>4, <1>5, CollectedKept
    <2>3. OutcomesAt(h)'
        <3> SUFFICES ASSUME incident[h].epoch > 0, NEW i \in Jobs, HomeOf(i) \in Members(h),
                            Group(h)[HomeOf(i)] = Epoch(HomeOf(i)), outcome'[i] = Epoch(HomeOf(i))
                     PROVE  EndedFor(i)
            BY <1>1, <1>5 DEF OutcomesAt, EndedFor, HomeOf, Members, Group, Epoch
        <3>1. CASE i = j
            BY <1>1, <3>1
        <3>2. CASE i # j
            <4>1. outcome'[i] = outcome[i]
                BY <1>1, <1>4, <3>2 DEF Typed, DurableOK
            <4> QED
                BY <4>1 DEF IInv, OutcomesAt
        <3> QED
            BY <3>1, <3>2
    <2> QED
        BY <2>1, <2>2, <2>3
<1> QED
    BY <1>6, <1>7, <1>8, <1>9 DEF IInv, Typed

\* The second transaction of a recovery, without its guards: what it writes.
LEMMA LiftWrites ==
    ASSUME IInv, NEW g \in Signals, CommitMember(g), NEW k, k = At(g)
    PROVE  /\ incident[g].epoch > 0 /\ k \in Members(g) /\ Group(g)[k] = Epoch(k)
           /\ intents' \in [Scopes -> Seq(Intents)] /\ History
           /\ \A m \in Scopes : Epoch(m)' = Epoch(m)
           /\ \A m \in Scopes : DOMAIN intents'[m] = DOMAIN intents[m]
           /\ intents'[k][Epoch(k)].reconciled
<1>1. /\ KnownAt(g) /\ resume[g].step = "commit" /\ resume \in [Signals -> Resumes]
      /\ intents \in [Scopes -> Seq(Intents)] /\ owner \in [Scopes -> 1..MaxOwner]
    BY DEF CommitMember, IInv, Typed, DurableOK, ControlOK, Resumes
<1>2. /\ incident[g].epoch > 0 /\ resume[g].left \in Seq(Scopes) /\ resume[g].left # <<>>
      /\ \A n \in DOMAIN resume[g].left : resume[g].left[n] \in Members(g)
    BY <1>1 DEF KnownAt, Resumes
<1>3. PICK s : s = resume[g].left
    OBVIOUS
<1>4. k \in Members(g)
    BY <1>2, <1>3, TailMembers DEF At
<1>5. Group(g)[k] = Epoch(k) /\ owner[k] \in Nat
    <2>1. Recoverable(g, k)
        BY DEF CommitMember
    <2> QED
        BY <1>1, <1>4, <2>1, MembersTyped, IncidentConstants DEF Recoverable
<1>6. k \in Scopes /\ Epoch(k) \in DOMAIN intents[k] /\ Newest(k) \in Intents
    BY <1>2, <1>4, <1>5, NewestTyped
<1>7. PICK e : e = Epoch(k)
    OBVIOUS
<1>8. PICK o \in Nat : o = owner[k]
    BY <1>5
<1>9. PICK q : q = intents[k]
    OBVIOUS
<1>10. PICK i : i = [q[e] EXCEPT !.reconciled = TRUE, !.by = o]
    OBVIOUS
<1>11. /\ q \in Seq(Intents) /\ e \in DOMAIN q /\ q[e] \in Intents
    BY <1>1, <1>6, <1>7, <1>9 DEF Newest
<1>12. /\ i \in Intents /\ i.reconciled /\ i.fence = q[e].fence /\ i.subjects = q[e].subjects
       /\ i.jobs = q[e].jobs /\ i.signal = q[e].signal /\ i.members = q[e].members
       /\ i.realm = q[e].realm
    BY <1>8, <1>10, <1>11 DEF Intents
<1>13. intents' = [intents EXCEPT ![k] = [q EXCEPT ![e] = i]]
    <2>1. intents' = [intents EXCEPT ![k][e].reconciled = TRUE, ![k][e].by = o]
        BY <1>7, <1>8, Zenon DEF CommitMember
    <2> QED
        BY <1>1, <1>6, <1>9, <1>10, <1>11, <2>1
<1>14. PICK w : w = [q EXCEPT ![e] = i]
    OBVIOUS
<1>15. w \in Seq(Intents) /\ Len(w) = Len(q) /\ DOMAIN w = DOMAIN q /\ w[e] = i
       /\ \A d \in DOMAIN q : d # e => w[d] = q[d]
    BY <1>11, <1>12, <1>14
<1>16. intents'[k] = w /\ \A m \in Scopes \ {k} : intents'[m] = intents[m]
    BY <1>1, <1>6, <1>13, <1>14
<1>17. intents' \in [Scopes -> Seq(Intents)]
    BY <1>1, <1>13, <1>14, <1>15
<1>18. ASSUME NEW m \in Scopes PROVE Epoch(m)' = Epoch(m) /\ DOMAIN intents'[m] = DOMAIN intents[m]
    BY <1>9, <1>15, <1>16 DEF Epoch
<1>19. ASSUME NEW m \in Scopes, NEW d \in DOMAIN intents[m]
       PROVE  LET a == intents[m][d] b == intents'[m][d] IN
              /\ b.fence = a.fence /\ b.subjects = a.subjects /\ b.jobs = a.jobs
              /\ b.signal = a.signal /\ b.members = a.members /\ b.realm = a.realm
              /\ a.reconciled => b.reconciled
    <2>1. CASE m = k /\ d = e
        BY <1>9, <1>12, <1>15, <1>16, <2>1
    <2>2. CASE ~(m = k /\ d = e)
        <3>1. intents'[m][d] = intents[m][d]
            BY <1>9, <1>15, <1>16, <2>2
        <3> QED
            BY <3>1
    <2> QED
        BY <2>1, <2>2
<1>20. History
    <2>1. \A m \in Scopes : Epoch(m) \in Nat
        BY EpochTyped DEF IInv
    <2> QED
        BY <1>18, <1>19, <2>1 DEF History
<1>21. intents'[k][Epoch(k)].reconciled
    BY <1>7, <1>12, <1>15, <1>16
<1> QED
    BY <1>2, <1>4, <1>5, <1>17, <1>18, <1>20, <1>21

\* What the recovery of a member opens for a job it has recovered for that job.
LEMMA LiftShuts ==
    ASSUME IInv, NEW g \in Signals, CommitMember(g), NEW j \in Jobs
    PROVE  ShutAt(j)'
<1> PICK k : k = At(g)
    OBVIOUS
<1> PICK e : e = Epoch(k)
    OBVIOUS
<1>1. /\ incident[g].epoch > 0 /\ k \in Members(g) /\ Group(g)[k] = Epoch(k) /\ History
      /\ \A m \in Scopes : DOMAIN intents'[m] = DOMAIN intents[m]
      /\ intents'[k][e].reconciled
    BY LiftWrites
<1>2. /\ k \in Scopes /\ e \in DOMAIN intents[k] /\ e \in Nat \ {0} /\ DOMAIN intents[k] = 1..e
      /\ Newest(k) = intents[k][e] /\ Newest(k).subjects = FenceTargets(Newest(k).fence, k)
    BY <1>1, NewestTyped, EpochTyped DEF IInv, Newest
<1>3. /\ revoked' = revoked \ Newest(k).subjects
      /\ banned' = IF Newest(k).fence.kind # "action" THEN banned
              ELSE [banned EXCEPT ![k] = @ \ {<<Newest(k).fence.action, Newest(k).fence.subject>>}]
    BY Zenon DEF CommitMember
<1>4. HomeOf(j) \in Scopes /\ HomeOf(j)' = HomeOf(j) /\ banned \in [Scopes -> SUBSET Bans]
    BY HomeTyped DEF HomeOf, IInv, Typed, DurableOK
<1> SUFFICES ASSUME NEW d \in DOMAIN intents[HomeOf(j)], Names(HomeOf(j), d, j)
             PROVE  Enforced(j)' \/ LiftedAfter(j, d)'
    BY <1>1, <1>4, NamesKept DEF ShutAt
<1>5. Enforced(j) \/ LiftedAfter(j, d)
    BY DEF IInv, ShutAt
<1>6. CASE LiftedAfter(j, d)
    BY <1>1, <1>6, LiftedKept
<1>7. CASE Enforced(j) /\ Enforced(j)'
    BY <1>7
<1>8. CASE Enforced(j) /\ ~Enforced(j)'
    <2>1. HomeOf(j) = k /\ Names(k, e, j)
        <3>1. CASE Subj[j] \in revoked
            <4>1. Subj[j] \in FenceTargets(Newest(k).fence, k)
                BY <1>2, <1>3, <1>8, <3>1 DEF Enforced
            <4>2. HomeOf(j) = k
                BY <4>1 DEF FenceTargets, HomeOf
            <4> QED
                BY <1>2, <4>1, <4>2 DEF Names
        <3>2. CASE <<Action[j], Subj[j]>> \in banned[HomeOf(j)]
            <4>1. <<Action[j], Subj[j]>> \notin banned'[HomeOf(j)]
                BY <1>4, <1>8 DEF Enforced
            <4>2. /\ Newest(k).fence.kind = "action" /\ HomeOf(j) = k
                  /\ <<Action[j], Subj[j]>> = <<Newest(k).fence.action, Newest(k).fence.subject>>
                BY <1>2, <1>3, <1>4, <3>2, <4>1
            <4> QED
                BY <1>2, <4>2 DEF Names
        <3> QED
            BY <1>8, <3>1, <3>2 DEF Enforced
    <2>2. Names(HomeOf(j), e, j)'
        BY <1>1, <1>2, <2>1, NamesKept
    <2>3. e \in DOMAIN intents'[HomeOf(j)] /\ d <= e /\ intents'[HomeOf(j)][e].reconciled
        BY <1>1, <1>2, <2>1
    <2> QED
        BY <1>4, <2>2, <2>3 DEF LiftedAfter
<1> QED
    BY <1>5, <1>6, <1>7, <1>8

\* The barrier of a realm is opened by the last of its scopes to recover.
LEMMA LiftBarrier ==
    ASSUME IInv, NEW g \in Signals, CommitMember(g), NEW x \in Realms
    PROVE  BarrierAt(x)'
<1> PICK k : k = At(g)
    OBVIOUS
<1> PICK e : e = Epoch(k)
    OBVIOUS
<1> PICK i : i = Newest(k)
    OBVIOUS
<1>1. /\ incident[g].epoch > 0 /\ k \in Members(g) /\ Group(g)[k] = e /\ History
      /\ \A m \in Scopes : DOMAIN intents'[m] = DOMAIN intents[m]
      /\ intents'[k][e].reconciled
    BY LiftWrites
<1>2. /\ k \in Scopes /\ e \in DOMAIN intents[k] /\ e # 0 /\ i = intents[k][e]
      /\ i.signal = g /\ i.fence = Ask[g]
    BY <1>1, NewestTyped DEF Newest
<1>3. /\ i.realm => barrier[i.fence.kind].intent = e
      /\ barrier' = IF i.realm THEN [barrier EXCEPT ![i.fence.kind].blocked = FALSE] ELSE barrier
      /\ k = Primary => MembersRecovered(g)
    BY Zenon DEF CommitMember
<1>4. /\ BarrierAt(x) /\ Primary \in Scopes
      /\ barrier \in [Realms -> [blocked : BOOLEAN, intent : Nat]]
      /\ barrier[x] \in [blocked : BOOLEAN, intent : Nat]
    BY IncidentConstants DEF IInv, Typed, DurableOK
<1>5. /\ barrier'[x].intent = barrier[x].intent
      /\ ~barrier'[x].blocked => ~barrier[x].blocked \/ (i.realm /\ i.fence.kind = x)
    <2>1. CASE ~i.realm
        BY <1>3, <2>1
    <2>2. CASE i.realm /\ i.fence.kind # x
        BY <1>3, <1>4, <2>2
    <2>3. CASE i.realm /\ i.fence.kind = x
        BY <1>3, <1>4, <2>3
    <2> QED
        BY <2>1, <2>2, <2>3
<1>6. ASSUME barrier'[x].intent = 0, ~barrier'[x].blocked, NEW m \in Scopes, NEW d \in DOMAIN intents'[m]
      PROVE  intents'[m][d].fence.kind # x
    <2>1. ~barrier[x].blocked
        BY <1>2, <1>3, <1>5, <1>6
    <2>2. d \in DOMAIN intents[m] /\ intents[m][d].fence.kind # x
        BY <1>1, <1>4, <1>5, <1>6, <2>1 DEF BarrierAt
    <2> QED
        BY <1>1, <2>2 DEF History
<1>7. ASSUME barrier[x].intent > 0
      PROVE  LET b == barrier[x].intent n == intents'[Primary][b] IN
             /\ b \in DOMAIN intents'[Primary] /\ n.realm /\ n.fence.kind = x
             /\ \A m \in Span[x] : \A d \in DOMAIN intents'[m] :
                    intents'[m][d].fence.kind = x => d <= n.members[m]
             /\ ~barrier'[x].blocked => \A m \in Span[x] : intents'[m][n.members[m]].reconciled
    <2> PICK b : b = barrier[x].intent
        OBVIOUS
    <2> PICK a : a = intents[Primary][b]
        OBVIOUS
    <2>1. /\ b \in DOMAIN intents[Primary] /\ a.realm /\ a.fence.kind = x
          /\ \A m \in Span[x] : \A d \in DOMAIN intents[m] :
                 intents[m][d].fence.kind = x => d <= a.members[m]
          /\ ~barrier[x].blocked => \A m \in Span[x] : intents[m][a.members[m]].reconciled
        BY <1>4, <1>7 DEF BarrierAt
    <2>2. /\ b \in DOMAIN intents'[Primary] /\ intents'[Primary][b].realm
          /\ intents'[Primary][b].fence.kind = x /\ intents'[Primary][b].members = a.members
        BY <1>1, <1>4, <2>1 DEF History
    <2>3. /\ a.signal \in Signals /\ a.fence = Ask[a.signal]
          /\ \A m \in Members(a.signal) : a.members[m] \in 1..Epoch(m)
        BY <1>4, <2>1 DEF IInv, IntentsOK, IntentAt
    <2>4. ASSUME NEW m \in Span[x] PROVE m \in Scopes /\ a.members[m] \in DOMAIN intents[m]
        <3>1. m \in Scopes
            BY IncidentConstants
        <3>2. m \in Members(a.signal)
            BY <2>1, <2>3 DEF Members
        <3> QED
            BY <2>3, <3>1, <3>2, EpochTyped DEF IInv
    <2>5. ASSUME NEW m \in Span[x], NEW d \in DOMAIN intents'[m], intents'[m][d].fence.kind = x
          PROVE  d <= a.members[m]
        <3>1. d \in DOMAIN intents[m] /\ m \in Scopes
            BY <1>1, <2>4
        <3>2. intents[m][d].fence.kind = x
            BY <1>1, <2>5, <3>1 DEF History
        <3> QED
            BY <2>1, <3>1, <3>2
    <2>6. ASSUME ~barrier'[x].blocked, NEW m \in Span[x]
          PROVE  intents'[m][a.members[m]].reconciled
        <3>1. CASE ~barrier[x].blocked
            BY <1>1, <2>1, <2>4, <3>1 DEF History
        <3>2. CASE barrier[x].blocked
            <4>1. i.realm /\ i.fence.kind = x
                BY <1>5, <2>6, <3>2
            <4>2. k = Primary
                BY <1>2, <4>1 DEF IInv, IntentsOK, IntentAt
            <4>3. b = e /\ a = i
                BY <1>2, <1>3, <4>1, <4>2
            <4>4. Group(g)[Primary] = incident[g].epoch /\ DOMAIN Group(g) = Members(g)
                BY <1>1, GroupTyped
            <4>5. Group(g) = a.members
                BY <1>1, <1>2, <4>2, <4>3, <4>4 DEF Group
            <4>6. Members(g) = Span[x]
                BY <1>2, <4>1 DEF Members
            <4>7. Epoch(m) = a.members[m] /\ (m # Primary => Newest(m).reconciled)
                BY <1>3, <4>2, <4>4, <4>5, <4>6 DEF MembersRecovered
            <4>8. CASE m = Primary
                BY <1>1, <4>2, <4>7, <4>8
            <4>9. CASE m # Primary
                BY <1>1, <2>4, <4>7, <4>9 DEF History, Newest
            <4> QED
                BY <4>8, <4>9
        <3> QED
            BY <3>1, <3>2
    <2> QED
        BY <2>2, <2>5, <2>6
<1>8. barrier[x].intent = 0 \/ barrier[x].intent > 0
    BY <1>4
<1> QED
    BY <1>5, <1>6, <1>7, <1>8 DEF BarrierAt

\* Committing a member keeps the invariant: what it reopens, its own intent had closed.
LEMMA CommitMemberStep ==
    ASSUME IInv, NEW g \in Signals, CommitMember(g)
    PROVE  IInv'
<1> PICK k : k = At(g)
    OBVIOUS
<1>1. /\ incident[g].epoch > 0 /\ k \in Members(g) /\ Group(g)[k] = Epoch(k) /\ History /\ Typed
      /\ intents' \in [Scopes -> Seq(Intents)]
      /\ \A m \in Scopes : Epoch(m)' = Epoch(m) /\ DOMAIN intents'[m] = DOMAIN intents[m]
    BY LiftWrites DEF IInv
<1>2. /\ UNCHANGED <<owner, row, outcome, serving, incident, approval>>
      /\ UNCHANGED <<broker, stop, killed, dead>>
      /\ resume' = [resume EXCEPT ![g].step = "look", ![g].left = Tail(@)]
      /\ resume[g].step = "commit"
    BY DEF CommitMember, work
<1>3. IntentsOK'
    <2> SUFFICES ASSUME NEW m \in Scopes, NEW d \in DOMAIN intents[m] PROVE IntentAt(m, d)'
        BY <1>1 DEF IntentsOK
    <2>1. IntentAt(m, d)
        BY DEF IInv, IntentsOK
    <2> PICK i : i = intents[m][d]
        OBVIOUS
    <2> DEFINE n == intents'[m][d]
    <2>2. /\ n.fence = i.fence /\ n.subjects = i.subjects /\ n.jobs = i.jobs /\ n.signal = i.signal
          /\ n.members = i.members /\ n.realm = i.realm
        BY <1>1 DEF History
    <2>3. ASSUME NEW h \in Signals, NEW p \in Members(h), NEW c \in 1..Epoch(p)
          PROVE  c \in 1..Epoch(p)' /\ intents'[p][c].signal = intents[p][c].signal
        <3>1. p \in Scopes /\ c \in DOMAIN intents[p]
            BY <1>1, MembersTyped, EpochTyped
        <3> QED
            BY <1>1, <3>1 DEF History
    <2> HIDE DEF n
    <2>4. ASSUME DOMAIN n.members # {} \/ n.realm
          PROVE  /\ m = Primary /\ n.signal \in Signals /\ DOMAIN n.members = Members(n.signal)
                 /\ n.members[Primary] = d
                 /\ \A p \in Members(n.signal) :
                       n.members[p] \in 1..Epoch(p)' /\ intents'[p][n.members[p]].signal = n.signal
                 /\ n.realm => n.fence.kind \in Realms
        <3>1. /\ m = Primary /\ i.signal \in Signals /\ DOMAIN i.members = Members(i.signal)
              /\ i.members[Primary] = d
              /\ \A p \in Members(i.signal) :
                     i.members[p] \in 1..Epoch(p) /\ intents[p][i.members[p]].signal = i.signal
              /\ i.realm => i.fence.kind \in Realms
            BY <2>1, <2>2, <2>4 DEF IntentAt
        <3> QED
            BY <2>2, <2>3, <3>1
    <2>5. /\ n.subjects = FenceTargets(n.fence, m) /\ \A j \in n.jobs : HomeOf(j) = m
          /\ n.signal \in Signals => n.fence = Ask[n.signal] /\ m \in Members(n.signal)
        BY <2>1, <2>2 DEF IntentAt
    <2> QED
        BY <2>4, <2>5 DEF IntentAt, n, FenceTargets, Members, HomeOf
<1>4. SignalsOnce'
    <2> SUFFICES ASSUME NEW h \in Signals, NEW m \in Scopes, NEW c \in DOMAIN intents[m],
                        NEW d \in DOMAIN intents[m],
                        intents'[m][c].signal = h, intents'[m][d].signal = h
                 PROVE  c = d /\ incident[h].step \notin {"unused", "admitted"}
        BY <1>1, <1>2 DEF SignalsOnce
    <2>1. intents[m][c].signal = h /\ intents[m][d].signal = h
        BY <1>1 DEF History
    <2> QED
        BY <2>1 DEF IInv, SignalsOnce
<1>5. \A x \in Realms : BarrierAt(x)'
    BY LiftBarrier
<1>6. \A j \in Jobs : ShutAt(j)'
    BY LiftShuts
<1>7. DurableOK'
    <2>1. barrier' \in [Realms -> [blocked : BOOLEAN, intent : Nat]]
        <3>1. barrier \in [Realms -> [blocked : BOOLEAN, intent : Nat]]
            BY <1>1 DEF Typed, DurableOK
        <3>2. PICK x : \/ barrier' = [barrier EXCEPT ![x].blocked = FALSE]
                       \/ barrier' = barrier
            BY Zenon DEF CommitMember
        <3> QED
            BY <3>1, <3>2
    <2>2. revoked' \subseteq Subjects
        BY <1>1 DEF Typed, DurableOK, CommitMember
    <2>3. banned' \in [Scopes -> SUBSET Bans]
        <3>1. banned \in [Scopes -> SUBSET Bans]
            BY <1>1 DEF Typed, DurableOK
        <3>2. PICK p : \/ banned' = banned
                       \/ banned' = [banned EXCEPT ![k] = @ \ {p}]
            BY Zenon DEF CommitMember
        <3> QED
            BY <3>1, <3>2
    <2>4. ASSUME NEW j \in Jobs PROVE outcome'[j] <= Epoch(HomeOf(j))'
        <3>1. HomeOf(j) \in Scopes /\ HomeOf(j)' = HomeOf(j)
            BY HomeTyped DEF HomeOf
        <3> QED
            BY <1>1, <1>2, <3>1 DEF Typed, DurableOK
    <2> QED
        BY <1>1, <1>2, <2>1, <2>2, <2>3, <2>4 DEF Typed, DurableOK
<1>8. /\ resume \in [Signals -> Resumes] /\ resume[g] \in Resumes /\ KnownAt(g)
    BY DEF IInv, Typed, ControlOK, Resumes
<1>9. PICK s : s = resume[g].left
    OBVIOUS
<1>10. s \in Seq(Scopes) /\ s # <<>> /\ \A n \in DOMAIN s : s[n] \in Members(g)
    BY <1>2, <1>8, <1>9 DEF KnownAt, Resumes
<1>11. Tail(s) \in Seq(Scopes) /\ \A n \in DOMAIN Tail(s) : Tail(s)[n] \in Members(g)
    BY <1>10, TailMembers
<1>12. PICK r : r = [resume[g] EXCEPT !.step = "look", !.left = Tail(s)]
    OBVIOUS
<1>13. /\ r \in Resumes /\ r.step = "look" /\ r.left = Tail(s)
       /\ resume' = [resume EXCEPT ![g] = r]
    BY <1>2, <1>8, <1>9, <1>11, <1>12 DEF Resumes
<1>14. WorkOK' /\ ControlOK'
    <2>1. resume' \in [Signals -> Resumes]
        BY <1>8, <1>13
    <2> QED
        BY <1>1, <1>2, <2>1 DEF Typed, WorkOK, ControlOK, Resumes
<1>15. ASSUME NEW h \in Signals PROVE KnownAt(h)' /\ OutcomesAt(h)' /\ CollectedAt(h)'
    <2>1. OutcomesAt(h)'
        BY <1>1, <1>2, OutcomesKept DEF EndedFor
    <2>2. CollectedAt(h)'
        BY <1>1, <1>2, CollectedKept
    <2>3. CASE h # g
        <3>1. resume'[h] = resume[h]
            BY <1>8, <1>13, <2>3
        <3>2. KnownAt(h)'
            BY <1>1, <1>2, <3>1, KnownKept
        <3> QED
            BY <2>1, <2>2, <3>2
    <2>4. CASE h = g
        <3>1. resume'[g] = r
            BY <1>8, <1>13
        <3>2. /\ incident[g].epoch \in DOMAIN intents'[Primary]
              /\ intents'[Primary][incident[g].epoch].signal = g
              /\ DOMAIN intents'[Primary][incident[g].epoch].members # {}
            BY <1>1, <1>8, IncidentConstants DEF KnownAt, History
        <3>3. KnownAt(g)'
            BY <1>1, <1>2, <1>8, <1>11, <1>13, <3>1, <3>2 DEF KnownAt, Members
        <3> QED
            BY <2>1, <2>2, <2>4, <3>3
    <2> QED
        BY <2>3, <2>4
<1> QED
    BY <1>3, <1>4, <1>5, <1>6, <1>7, <1>14, <1>15 DEF IInv, Typed

\* A crash of the controller keeps the invariant: the intents outlive it, the incident in memory does not.
LEMMA CrashStep ==
    ASSUME IInv, Crash
    PROVE  IInv'
<1>1. /\ Typed /\ UNCHANGED durable /\ stop' = stop /\ dead' = dead /\ serving' = {} /\ killed' = {}
      /\ broker' = [j \in Jobs |-> IF broker[j] = "none" THEN "none" ELSE "gone"]
      /\ incident' = [g \in Signals |-> IF incident[g].step = "unused" THEN incident[g]
                         ELSE [Unused EXCEPT !.step = "failed"]]
      /\ approval' = [g \in Signals |-> NoApproval] /\ resume' = [g \in Signals |-> Idle]
    BY DEF Crash, IInv
<1>2. FencesStay /\ DurableOK'
    BY <1>1 DEF durable, FencesStay, Typed, DurableOK, Epoch, HomeOf
<1>3. WorkOK'
    BY <1>1 DEF Typed, WorkOK, Brokers
<1>4. PICK c : c = [Unused EXCEPT !.step = "failed"]
    OBVIOUS
<1>5. c \in Containments /\ c.step = "failed" /\ c.epoch = 0 /\ c.todo = {} /\ c.jobs = {}
    BY <1>4 DEF Unused, Containments, Steps
<1>6. incident \in [Signals -> Containments]
    BY <1>1 DEF Typed, ControlOK
<1>7. ASSUME NEW g \in Signals
      PROVE  /\ incident'[g] \in Containments /\ incident'[g].step \in {"unused", "failed"}
             /\ incident'[g].epoch = 0 /\ incident'[g].todo = {}
             /\ incident'[g].step = "unused" => incident[g].step = "unused"
    <2>1. CASE incident[g].step = "unused"
        <3>1. incident'[g] = incident[g]
            BY <1>1, <2>1
        <3>2. incident[g].epoch = 0
            BY <2>1, AdmittedFresh
        <3> QED
            BY <1>1, <1>6, <2>1, <3>1, <3>2 DEF Typed, ControlOK, Uncollected
    <2>2. CASE incident[g].step # "unused"
        <3>1. incident'[g] = c
            BY <1>1, <1>4, <2>2
        <3> QED
            BY <1>5, <3>1
    <2> QED
        BY <2>1, <2>2
<1>8. /\ IntentsOK' /\ SignalsOnce'
      /\ (\A x \in Realms : BarrierAt(x)') /\ (\A j \in Jobs : ShutAt(j)')
    BY <1>2, <1>7, FencesKept
<1>9. approval' \in [Signals -> Approvals] /\ resume' \in [Signals -> Resumes]
    <2>1. Idle \in Resumes
        BY DEF Idle, Resumes
    <2> QED
        BY <1>1, <2>1, NoApprovalTyped
<1>10. ControlOK'
    <2>1. incident' \in [Signals -> Containments]
        BY <1>1, <1>7
    <2> QED
        BY <1>7, <1>9, <2>1 DEF ControlOK, Approvals, Evidences, Resumes
<1>11. ASSUME NEW g \in Signals PROVE KnownAt(g)' /\ OutcomesAt(g)' /\ CollectedAt(g)'
    <2>1. ~approval'[g].issued /\ resume'[g].step = "idle"
        BY <1>1, NoApprovalTyped DEF Idle
    <2> QED
        BY <1>7, <2>1 DEF KnownAt, OutcomesAt, CollectedAt
<1> QED
    BY <1>2, <1>3, <1>8, <1>10, <1>11 DEF IInv, Typed
-----------------------------------------------------------------------------
(* The invariant.                                                          *)

\* The first state, without intents, barriers and incidents, satisfies the invariant.
LEMMA InitOK == Init => IInv
<1> SUFFICES ASSUME Init PROVE IInv
    OBVIOUS
<1>1. /\ \A k \in Scopes : intents[k] = <<>> /\ DOMAIN intents[k] = {} /\ Epoch(k) = 0
      /\ \A j \in Jobs : HomeOf(j) \in Scopes
    BY HomeTyped DEF Init, Epoch
<1>2. DurableOK
    <2>1. intents \in [Scopes -> Seq(Intents)]
        <3>1. <<>> \in Seq(Intents)
            OBVIOUS
        <3> QED
            BY <3>1 DEF Init
    <2>2. owner \in [Scopes -> 1..MaxOwner] /\ serving \subseteq Scopes
        BY IncidentConstants DEF Init
    <2>3. /\ barrier \in [Realms -> [blocked : BOOLEAN, intent : Nat]]
          /\ revoked \subseteq Subjects /\ banned \in [Scopes -> SUBSET Bans]
          /\ row \in [Jobs -> Rows] /\ outcome \in [Jobs -> Nat]
        BY DEF Init, Rows
    <2>4. \A j \in Jobs : outcome[j] <= Epoch(HomeOf(j))
        BY <1>1 DEF Init
    <2> QED
        BY <2>1, <2>2, <2>3, <2>4 DEF DurableOK
<1>3. WorkOK
    BY DEF Init, WorkOK, Brokers
<1>4. \A g \in Signals : incident[g] = Unused /\ approval[g] = NoApproval /\ resume[g] = Idle
    BY DEF Init
<1>5. ControlOK
    <2>1. Unused \in Containments /\ Idle \in Resumes
        BY DEF Unused, Containments, Steps, Idle, Resumes
    <2>2. /\ incident \in [Signals -> Containments] /\ approval \in [Signals -> Approvals]
          /\ resume \in [Signals -> Resumes]
        BY <2>1, NoApprovalTyped DEF Init
    <2> QED
        BY <1>4, <2>2 DEF ControlOK, Approvals, Evidences, Resumes, Unused
<1>6. IntentsOK /\ SignalsOnce
    BY <1>1 DEF IntentsOK, SignalsOnce
<1>7. ASSUME NEW g \in Signals PROVE KnownAt(g) /\ OutcomesAt(g) /\ CollectedAt(g)
    <2>1. incident[g].step = "unused" /\ incident[g].epoch = 0 /\ ~approval[g].issued
          /\ resume[g].step = "idle"
        BY <1>4 DEF Unused, NoApproval, Idle
    <2> QED
        BY <2>1 DEF KnownAt, OutcomesAt, CollectedAt
<1>8. ASSUME NEW x \in Realms PROVE BarrierAt(x)
    <2>1. barrier[x].intent = 0
        BY DEF Init
    <2> QED
        BY <1>1, <2>1 DEF BarrierAt
<1>9. ASSUME NEW j \in Jobs PROVE ShutAt(j)
    BY <1>1 DEF ShutAt
<1> QED
    BY <1>2, <1>3, <1>5, <1>6, <1>7, <1>8, <1>9 DEF IInv, Typed

\* One step for each of the actions that threads, brokers and the controller take.
LEMMA NextOK == IInv /\ [Next]_vars => IInv'
<1> SUFFICES ASSUME IInv, [Next]_vars PROVE IInv'
    OBVIOUS
<1>1. CASE UNCHANGED vars
    <2>1. /\ UNCHANGED <<outcome, owner, serving, row>> /\ UNCHANGED work /\ UNCHANGED control
          /\ FencesStay
        BY <1>1 DEF vars, durable, FencesStay
    <2>2. WorkOK' /\ DurableOK' /\ UNCHANGED <<broker, stop, killed>>
        BY <2>1 DEF FencesStay, work, IInv, Typed, WorkOK, DurableOK, Epoch, HomeOf
    <2>3. \A j \in Jobs : EndedFor(j)' = EndedFor(j)
        BY <2>2 DEF EndedFor
    <2> QED
        BY <2>1, <2>2, <2>3, WorkStep
<1>2. CASE Crash
    BY <1>2, CrashStep
<1>3. ASSUME NEW j \in Jobs,
             \/ Reserve(j) \/ BeginForward(j) \/ Claim(j) \/ License(j)
             \/ Kill(j) \/ Finish(j) \/ Settle(j)
      PROVE  IInv'
    BY <1>3, ReserveStep, RowStep, BrokerStep
<1>4. ASSUME NEW k \in Scopes, Start(k) PROVE IInv'
    BY <1>4, StartStep
<1>5. ASSUME NEW s \in Subjects, RevokeLease(s) PROVE IInv'
    BY <1>5, RevokeLeaseStep
<1>6. ASSUME NEW g \in Signals, Contain(g) \/ FenceUnavailable(g) PROVE IInv'
    BY <1>6, ContainStep
<1>7. ASSUME NEW g \in Signals, Notify(g) PROVE IInv'
    <2>1. CASE GiveUp(g)
        BY <2>1, GiveUpStep
    <2>2. CASE Collect(g)
        BY <2>2, CollectStep
    <2>3. CASE StartCleanup(g) \/ EndCleanup(g)
        BY <2>3, CleanupStep
    <2>4. ASSUME NEW ok \in BOOLEAN, Pause(g, ok) PROVE IInv'
        BY <2>4, PauseStep
    <2>5. ASSUME NEW ok \in BOOLEAN, NEW j \in Jobs, StopJob(g, j, ok) PROVE IInv'
        BY <2>5, StopJobStep
    <2> QED
        BY <1>7, <2>1, <2>2, <2>3, <2>4, <2>5 DEF Notify
<1>8. ASSUME NEW g \in Signals, NEW ack \in BOOLEAN, RecordFence(g, ack) PROVE IInv'
    BY <1>8, RecordFenceStep
<1>9. ASSUME NEW g \in Signals, NEW M \in SUBSET Scopes, RecordFencePartly(g, M) PROVE IInv'
    BY <1>9, RecordFencePartlyStep
<1>10. ASSUME NEW g \in Signals, NEW k \in Scopes, NEW j \in Jobs, ReconcileJob(g, k, j) PROVE IInv'
    BY <1>10, ReconcileJobStep
<1>11. ASSUME NEW g \in Signals,
              \/ ApproveResume(g) \/ ExpireApproval(g) \/ Resume(g) \/ SkipMember(g)
              \/ CheckMember(g) \/ VerifyMember(g) \/ CommitMember(g)
              \/ AbandonResume(g) \/ EndResume(g)
       PROVE  IInv'
    <2>1. CASE ApproveResume(g)
        BY <2>1, ApproveResumeStep
    <2>2. CASE ExpireApproval(g)
        BY <2>2, ExpireApprovalStep
    <2>3. CASE Resume(g)
        BY <2>3, ResumeStep
    <2>4. CASE SkipMember(g) \/ CheckMember(g) \/ VerifyMember(g)
        BY <2>4, MemberStep
    <2>5. CASE CommitMember(g)
        BY <2>5, CommitMemberStep
    <2>6. CASE AbandonResume(g)
        BY <2>6, AbandonResumeStep
    <2>7. CASE EndResume(g)
        BY <2>7, EndResumeStep
    <2> QED
        BY <1>11, <2>1, <2>2, <2>3, <2>4, <2>5, <2>6, <2>7
<1> QED
    BY <1>1, <1>2, <1>3, <1>4, <1>5, <1>6, <1>7, <1>8, <1>9, <1>10, <1>11 DEF Next

\* Every reachable state satisfies the inductive invariant.
THEOREM Consistent == Spec => []IInv
<1>1. Init => IInv
    BY InitOK
<1>2. IInv /\ [Next]_vars => IInv'
    BY NextOK
<1> QED
    BY <1>1, <1>2, PTL DEF Spec
-----------------------------------------------------------------------------
(* What follows.                                                           *)

\* The inductive invariant has the type invariant of the runs.
LEMMA TypesFollow == IInv => TypeOK
<1> SUFFICES ASSUME IInv PROVE TypeOK
    OBVIOUS
<1>1. Typed /\ Primary \in Scopes /\ \A k \in Scopes : Epoch(k) \in Nat
    BY EpochTyped, IncidentConstants DEF IInv
<1>2. ASSUME NEW k \in Scopes, NEW e \in DOMAIN intents[k]
      PROVE  /\ intents[k][e].subjects \subseteq Subjects /\ intents[k][e].jobs \subseteq Jobs
             /\ \A m \in DOMAIN intents[k][e].members : intents[k][e].members[m] \in 1..Epoch(m)
    <2>1. intents[k][e] \in Intents
        BY <1>1, EpochTyped
    <2>2. IntentAt(k, e)
        BY DEF IInv, IntentsOK
    <2>3. ASSUME NEW m \in DOMAIN intents[k][e].members PROVE intents[k][e].members[m] \in 1..Epoch(m)
        BY <2>2 DEF IntentAt
    <2> QED
        BY <2>1, <2>3 DEF Intents
<1>3. ASSUME NEW x \in Realms PROVE barrier[x].intent \in 0..Epoch(Primary)
    <2>1. BarrierAt(x) /\ barrier[x].intent \in Nat
        BY <1>1 DEF IInv, Typed, DurableOK
    <2>2. CASE barrier[x].intent > 0
        <3>1. barrier[x].intent \in DOMAIN intents[Primary]
            BY <2>1, <2>2 DEF BarrierAt
        <3> QED
            BY <1>1, <3>1, EpochTyped
    <2> QED
        BY <1>1, <2>1, <2>2
<1>4. \A j \in Jobs : outcome[j] \in 0..Epoch(HomeOf(j))
    BY <1>1, HomeTyped DEF Typed, DurableOK
<1>5. /\ owner \in [Scopes -> 1..MaxOwner] /\ serving \subseteq Scopes /\ revoked \subseteq Subjects
      /\ row \in [Jobs -> {"none", "reserved", "forwarding", "uncertain", "committed", "canceled"}]
    BY <1>1 DEF Typed, DurableOK, Rows
<1>6. /\ broker \in [Jobs -> Active \cup {"none", "completed", "canceled", "unknown", "gone"}]
      /\ stop \cup killed \cup dead \subseteq Jobs
    <2>1. Brokers = Active \cup {"none", "completed", "canceled", "unknown", "gone"}
        BY DEF Brokers, Ended
    <2> QED
        BY <1>1, <2>1 DEF Typed, WorkOK
<1>7. ASSUME NEW g \in Signals
      PROVE  /\ incident[g].step \in Steps /\ incident[g].epoch \in 0..Epoch(Primary)
             /\ incident[g].todo \subseteq incident[g].jobs
             /\ resume[g].step \in {"idle", "look", "verify", "commit"}
    <2>1. /\ incident[g] \in Containments /\ KnownAt(g) /\ incident[g].todo \subseteq incident[g].jobs
          /\ resume[g].step \in {"idle", "look", "verify", "commit"}
        BY DEF IInv, Typed, ControlOK
    <2>2. incident[g].step \in Steps /\ incident[g].epoch \in Nat
        BY <2>1 DEF Containments
    <2>3. CASE incident[g].epoch > 0
        <3>1. incident[g].epoch \in DOMAIN intents[Primary]
            BY <2>1, <2>3 DEF KnownAt
        <3> QED
            BY <1>1, <2>1, <2>2, <3>1, EpochTyped
    <2> QED
        BY <1>1, <2>1, <2>2, <2>3
<1> QED
    BY <1>2, <1>3, <1>4, <1>5, <1>6, <1>7 DEF TypeOK

\* The inductive invariant gives the whole containment of a fenced incident.
LEMMA WholeFollows == IInv => ContainmentIsWhole
<1> SUFFICES ASSUME IInv PROVE ContainmentIsWhole
    OBVIOUS
<1>1. TypeOK
    BY TypesFollow
<1>2. OneFencePerSignal
    <2> SUFFICES ASSUME NEW g \in Signals
                 PROVE  Cardinality({e \in DOMAIN intents[Primary] :
                                        intents[Primary][e].signal = g}) <= 1
        BY DEF OneFencePerSignal
    <2> PICK E : E = {e \in DOMAIN intents[Primary] : intents[Primary][e].signal = g}
        OBVIOUS
    <2>1. \A d, e \in E : d = e
        BY IncidentConstants DEF IInv, SignalsOnce
    <2>2. CASE E = {}
        BY <2>2, FS_EmptySet
    <2>3. CASE E # {}
        <3>1. PICK e : e \in E
            BY <2>3
        <3>2. E = {e}
            BY <2>1, <3>1
        <3>3. Cardinality(E) = 1
            BY <3>2, FS_Singleton
        <3> QED
            BY <3>3
    <2> QED
        BY <2>2, <2>3
<1>3. GroupOpensTogether
    <2> SUFFICES ASSUME NEW x \in Realms, ~barrier[x].blocked, barrier[x].intent > 0
                 PROVE  LET members == intents[Primary][barrier[x].intent].members
                        IN DOMAIN members = Span[x] /\ \A k \in Span[x] : intents[k][members[k]].reconciled
        BY DEF GroupOpensTogether
    <2> PICK b : b = barrier[x].intent
        OBVIOUS
    <2> PICK i : i = intents[Primary][b]
        OBVIOUS
    <2>1. /\ b \in DOMAIN intents[Primary] /\ i.realm /\ i.fence.kind = x
          /\ \A k \in Span[x] : intents[k][i.members[k]].reconciled
        BY DEF IInv, BarrierAt
    <2>2. i.signal \in Signals /\ i.fence = Ask[i.signal] /\ DOMAIN i.members = Members(i.signal)
        <3>1. IntentAt(Primary, b)
            BY <2>1, IncidentConstants DEF IInv, IntentsOK
        <3> QED
            BY <2>1, <3>1 DEF IntentAt
    <2>3. Members(i.signal) = Span[x]
        BY <2>1, <2>2 DEF Members
    <2> QED
        BY <2>1, <2>2, <2>3
<1>4. ContainedJobsAreStopped
    <2> SUFFICES ASSUME NEW g \in Signals, incident[g].step \in {"cleaning", "done"},
                        ~incident[g].error, NEW j \in Jobs, Reaches(g, j), broker[j] = "running"
                 PROVE  j \in stop \/ Recovered(g, j)
        BY DEF ContainedJobsAreStopped
    <2>1. CollectedAt(g) /\ broker[j] \in Active
        BY DEF IInv, Active
    <2> QED
        BY <2>1 DEF CollectedAt
<1> QED
    BY <1>1, <1>2, <1>3, <1>4 DEF ContainmentIsWhole

\* An incident is contained as a whole, for any set of scopes, realms, signals and
\* jobs: one fence, barriers that open with the whole group, and no job missed.
THEOREM WholeContainment == Spec => []ContainmentIsWhole
<1>1. IInv => ContainmentIsWhole
    BY WholeFollows
<1> QED
    BY <1>1, Consistent, PTL

\* A job starts to run only by a license, which looks at the fences again.
LEMMA StartsByLicense ==
    ASSUME IInv, [Next]_vars, NEW j \in Jobs, broker[j] # "running", broker'[j] = "running"
    PROVE  RouteCurrent(j)
<1>1. broker \in [Jobs -> Brokers]
    BY DEF IInv, Typed, WorkOK
<1>2. broker' # broker
    OBVIOUS
<1>3. CASE UNCHANGED vars
    BY <1>2, <1>3 DEF vars, work
<1>4. CASE Crash
    BY <1>4 DEF Crash
<1>5. ASSUME NEW i \in Jobs,
             \/ Reserve(i) \/ BeginForward(i) \/ Claim(i) \/ License(i)
             \/ Kill(i) \/ Finish(i) \/ Settle(i)
      PROVE  RouteCurrent(j)
    <2>1. CASE Reserve(i)
        BY <1>1, <2>1 DEF Reserve
    <2>2. CASE Claim(i)
        BY <1>1, <2>2 DEF Claim
    <2>3. CASE License(i)
        <3>1. i = j
            BY <1>1, <2>3 DEF License
        <3>2. CASE RouteCurrent(i)
            BY <3>1, <3>2
        <3>3. CASE broker' = [broker EXCEPT ![i] = IF i \in stop THEN "canceled" ELSE "completed"]
            BY <1>1, <3>1, <3>3
        <3> QED
            BY <2>3, <3>2, <3>3 DEF License
    <2>4. CASE Finish(i)
        BY <1>1, <2>4 DEF Finish
    <2>5. CASE Kill(i)
        BY <1>2, <2>5 DEF Kill
    <2>6. CASE BeginForward(i) \/ Settle(i)
        BY <1>2, <2>6 DEF BeginForward, Settle, work
    <2> QED
        BY <1>5, <2>1, <2>2, <2>3, <2>4, <2>5, <2>6
<1>6. ASSUME NEW k \in Scopes, Start(k) PROVE FALSE
    BY <1>2, <1>6 DEF Start, work
<1>7. ASSUME NEW s \in Subjects, RevokeLease(s) PROVE FALSE
    BY <1>2, <1>7 DEF RevokeLease, work
<1>8. ASSUME NEW g \in Signals, Contain(g) \/ FenceUnavailable(g) PROVE FALSE
    BY <1>2, <1>8 DEF Contain, FenceUnavailable, work
<1>9. ASSUME NEW g \in Signals, Notify(g) PROVE FALSE
    <2>1. ASSUME NEW S, Stopped(S) PROVE FALSE
        BY <1>1, <2>1 DEF Stopped
    <2>2. CASE GiveUp(g)
        BY <2>1, <2>2 DEF GiveUp
    <2>3. CASE Collect(g) \/ StartCleanup(g) \/ EndCleanup(g)
        BY <1>2, <2>3 DEF Collect, StartCleanup, EndCleanup, work
    <2>4. ASSUME NEW ok \in BOOLEAN, Pause(g, ok) PROVE FALSE
        BY <1>2, <2>4 DEF Pause
    <2>5. ASSUME NEW ok \in BOOLEAN, NEW i \in Jobs, StopJob(g, i, ok) PROVE FALSE
        BY <1>2, <2>1, <2>5 DEF StopJob
    <2> QED
        BY <1>9, <2>2, <2>3, <2>4, <2>5 DEF Notify
<1>10. ASSUME NEW g \in Signals, NEW ack \in BOOLEAN, RecordFence(g, ack) PROVE FALSE
    BY <1>2, <1>10 DEF RecordFence, work
<1>11. ASSUME NEW g \in Signals, NEW M \in SUBSET Scopes, RecordFencePartly(g, M) PROVE FALSE
    BY <1>2, <1>11 DEF RecordFencePartly, work
<1>12. ASSUME NEW g \in Signals, NEW k \in Scopes, NEW i \in Jobs, ReconcileJob(g, k, i) PROVE FALSE
    BY <1>2, <1>12 DEF ReconcileJob, work
<1>13. ASSUME NEW g \in Signals,
              \/ ApproveResume(g) \/ ExpireApproval(g) \/ Resume(g) \/ SkipMember(g)
              \/ CheckMember(g) \/ VerifyMember(g) \/ CommitMember(g)
              \/ AbandonResume(g) \/ EndResume(g)
       PROVE  FALSE
    <2>1. UNCHANGED work
        BY <1>13 DEF ApproveResume, ExpireApproval, Resume, SkipMember, CheckMember, VerifyMember,
                     CommitMember, AbandonResume, EndResume
    <2> QED
        BY <1>2, <2>1 DEF work
<1> QED
    BY <1>3, <1>4, <1>5, <1>6, <1>7, <1>8, <1>9, <1>10, <1>11, <1>12, <1>13 DEF Next

\* An intent is reconciled only by the second transaction of a recovery.
LEMMA LiftsByRecovery ==
    ASSUME IInv, [Next]_vars, NEW k \in Scopes, NEW e \in DOMAIN intents[k],
           intents'[k][e].reconciled, ~intents[k][e].reconciled
    PROVE  \E g \in Signals : CommitMember(g) /\ k = At(g) /\ e = Epoch(k)
<1>1. intents[k] \in Seq(Intents) /\ intents \in [Scopes -> Seq(Intents)]
    BY DEF IInv, Typed, DurableOK
<1>2. intents'[k][e] # intents[k][e]
    OBVIOUS
<1>3. ASSUME NEW i, intents'[k] = Append(intents[k], i) PROVE FALSE
    <2> PICK q \in Seq(Intents) : q = intents[k]
        BY <1>1
    <2>1. e \in 1..Len(q) /\ Append(q, i)[e] = q[e]
        OBVIOUS
    <2> QED
        BY <1>2, <1>3, <2>1
<1>4. CASE UNCHANGED vars
    BY <1>2, <1>4 DEF vars, durable
<1>5. CASE Crash
    BY <1>2, <1>5 DEF Crash, durable
<1>6. ASSUME NEW j \in Jobs,
             \/ Reserve(j) \/ BeginForward(j) \/ Claim(j) \/ License(j)
             \/ Kill(j) \/ Finish(j) \/ Settle(j)
      PROVE  FALSE
    <2>1. UNCHANGED intents
        BY <1>6 DEF Reserve, BeginForward, Claim, License, Kill, Finish, Settle, durable
    <2> QED
        BY <1>2, <2>1
<1>7. ASSUME NEW m \in Scopes, Start(m) PROVE FALSE
    BY <1>2, <1>7 DEF Start
<1>8. ASSUME NEW s \in Subjects, RevokeLease(s) PROVE FALSE
    <2>1. PICK i : intents'[k] = intents[k] \/ intents'[k] = Append(intents[k], i)
        BY <1>8 DEF RevokeLease, FenceScopes
    <2> QED
        BY <1>2, <1>3, <2>1
<1>9. ASSUME NEW g \in Signals, NEW ack \in BOOLEAN, RecordFence(g, ack) PROVE FALSE
    <2>1. PICK i : intents'[k] = intents[k] \/ intents'[k] = Append(intents[k], i)
        BY <1>9 DEF RecordFence, FenceScopes
    <2> QED
        BY <1>2, <1>3, <2>1
<1>10. ASSUME NEW g \in Signals, NEW M \in SUBSET Scopes, RecordFencePartly(g, M) PROVE FALSE
    <2>1. PICK i : intents'[k] = intents[k] \/ intents'[k] = Append(intents[k], i)
        BY <1>10 DEF RecordFencePartly, FenceScopes
    <2> QED
        BY <1>2, <1>3, <2>1
<1>11. ASSUME NEW g \in Signals, Contain(g) \/ FenceUnavailable(g) PROVE FALSE
    BY <1>2, <1>11 DEF Contain, FenceUnavailable, durable
<1>12. ASSUME NEW g \in Signals, Notify(g) PROVE FALSE
    <2>1. UNCHANGED durable
        BY <1>12 DEF Notify, GiveUp, Collect, StartCleanup, EndCleanup, Pause, StopJob
    <2> QED
        BY <1>2, <2>1 DEF durable
<1>13. ASSUME NEW g \in Signals, NEW m \in Scopes, NEW j \in Jobs, ReconcileJob(g, m, j) PROVE FALSE
    BY <1>2, <1>13 DEF ReconcileJob
<1>14. ASSUME NEW g \in Signals,
              \/ ApproveResume(g) \/ ExpireApproval(g) \/ Resume(g) \/ SkipMember(g)
              \/ CheckMember(g) \/ VerifyMember(g) \/ AbandonResume(g) \/ EndResume(g)
       PROVE  FALSE
    <2>1. UNCHANGED durable
        BY <1>14 DEF ApproveResume, ExpireApproval, Resume, SkipMember, CheckMember, VerifyMember,
                     AbandonResume, EndResume
    <2> QED
        BY <1>2, <2>1 DEF durable
<1>15. ASSUME NEW g \in Signals, CommitMember(g) PROVE k = At(g) /\ e = Epoch(k)
    <2> PICK m : m = At(g)
        OBVIOUS
    <2> PICK d : d = Epoch(m)
        OBVIOUS
    <2>1. PICK o : intents' = [intents EXCEPT ![m][d].reconciled = TRUE, ![m][d].by = o]
        BY <1>15, Zenon DEF CommitMember
    <2>2. CASE k # m
        BY <1>1, <1>2, <2>1, <2>2
    <2>3. CASE k = m /\ e # d
        <3>1. PICK q \in Seq(Intents) : q = intents[k]
            BY <1>1
        <3>2. PICK i : intents'[k] = [q EXCEPT ![d] = i]
            BY <1>1, <2>1, <2>3, <3>1
        <3>3. intents'[k][e] = q[e]
            BY <2>3, <3>1, <3>2
        <3> QED
            BY <1>2, <3>1, <3>3
    <2> QED
        BY <2>2, <2>3
<1> QED
    BY <1>4, <1>5, <1>6, <1>7, <1>8, <1>9, <1>10, <1>11, <1>12, <1>13, <1>14, <1>15 DEF Next

\* What a fence covers starts only after a recovery, and a recovery waits for every
\* job its fence caught, for any set of scopes, realms, signals and jobs.
THEOREM RouteClosed == Spec => ContainedRouteIsClosed
<1>1. IInv /\ [Next]_vars =>
        \A j \in Jobs : (broker[j] # "running" /\ broker'[j] = "running") =>
            \A g \in Signals :
                (Reaches(g, j) /\ \E k \in Scopes : \E e \in DOMAIN intents[k] : intents[k][e].signal = g)
                => Lifted(g, j)
    <2> SUFFICES ASSUME IInv, [Next]_vars, NEW j \in Jobs, broker[j] # "running",
                        broker'[j] = "running", NEW g \in Signals, Reaches(g, j),
                        NEW k \in Scopes, NEW e \in DOMAIN intents[k], intents[k][e].signal = g
                 PROVE  Lifted(g, j)
        OBVIOUS
    <2>1. RouteCurrent(j)
        BY StartsByLicense
    <2> QED
        BY <2>1, RouteLifted
<1>2. IInv /\ [Next]_vars =>
        \A k \in Scopes : \A e \in DOMAIN intents[k] :
            (intents'[k][e].reconciled /\ ~intents[k][e].reconciled) =>
                \A j \in intents[k][e].jobs : \/ row[j] \in {"canceled", "committed"} \/ j \in killed
                                            \/ broker[j] \in {"completed", "canceled", "unknown"}
    <2> SUFFICES ASSUME IInv, [Next]_vars, NEW k \in Scopes, NEW e \in DOMAIN intents[k],
                        intents'[k][e].reconciled, ~intents[k][e].reconciled,
                        NEW j \in intents[k][e].jobs
                 PROVE  row[j] \in {"canceled", "committed"} \/ EndedFor(j)
        BY DEF EndedFor
    <2>1. PICK g \in Signals : CommitMember(g) /\ k = At(g) /\ e = Epoch(k)
        BY LiftsByRecovery
    <2>2. incident[g].epoch > 0 /\ k \in Members(g) /\ Group(g)[k] = Epoch(k)
        BY <2>1, LiftWrites
    <2>3. j \in Jobs /\ HomeOf(j) = k
        BY <2>1, <2>2, NewestTyped DEF Newest
    <2>4. DurablyKnown(k, e)
        BY <2>1 DEF CommitMember, Recoverable
    <2>5. row[j] \in {"canceled", "committed"} \/ outcome[j] = e
        BY <2>4 DEF DurablyKnown
    <2>6. OutcomesAt(g)
        BY DEF IInv
    <2> QED
        BY <2>1, <2>2, <2>3, <2>5, <2>6 DEF OutcomesAt
<1> QED
    BY <1>1, <1>2, Consistent, PTL DEF Spec, ContainedRouteIsClosed
=============================================================================
