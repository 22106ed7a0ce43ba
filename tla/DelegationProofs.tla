-------------------------- MODULE DelegationProofs --------------------------
(***************************************************************************)
(* Proofs about delegated authority, for any number of workloads, grants   *)
(* and reviews and for any terms and limits.                               *)
(*                                                                         *)
(* The lines of grants only ever grow at a new grant, so what a grant has  *)
(* of its line when it is issued it keeps.  Tickets are only taken by a    *)
(* review that counted those that are open, and only a dispatch turns one  *)
(* into a use.                                                             *)
(***************************************************************************)
EXTENDS Delegation, FiniteSetTheorems, TLAPS

\* A grant is in its line, its line holds the lines of its members, and none
\* of them may delegate less deep than it does.
Lineage ==
    \A g \in Issued :
        /\ g \in grant[g].line /\ grant[g].line \subseteq Issued
        /\ \A h \in grant[g].line :
              grant[h].line \subseteq grant[g].line /\ grant[g].limit <= grant[h].limit

\* A pending admission is on a grant that covers its action.
Admitted ==
    /\ DOMAIN ticket = Reviews
    /\ \A q \in Reviews : admission[q] = "pending" =>
          ticket[q].grant \in Issued /\ Needs[q] \subseteq grant[ticket[q].grant].rights

\* The parts of QuotaHolds: what was used, what can still be used, and the
\* grants below.
Uses(g) == {q \in Forwarded : ticket[q].grant = g}
Spent == \A g \in Grants : used[g] = Cardinality(Uses(g))
Open ==
    \A g \in Grants :
        used[g] + Cardinality(Holding(g)) <= ActionsPerGrant /\ Cardinality(Holding(g)) <= InFlight
Children(g) == {h \in Issued : grant[h].parent = g /\ Valid(h)}
Few == \A g \in Grants : Cardinality(Children(g)) <= ActiveChildren

GrantsOK == Lineage /\ Attenuation /\ OneGrantEach /\ Few
TicketsOK == Admitted /\ NoSlotLeaks /\ Spent /\ Open

IInv == TypeOK /\ GrantsOK /\ TicketsOK

LEMMA InvImplies == IInv => Integrity /\ Attenuation /\ QuotaHolds
BY DEF IInv, GrantsOK, TicketsOK, Integrity, QuotaHolds, Spent, Open, Few, Uses, Children
-----------------------------------------------------------------------------
(* Counting.                                                               *)

\* The sets that are counted are finite.
LEMMA Counted ==
    ASSUME TypeOK, NEW g
    PROVE  /\ IsFiniteSet(Uses(g)) /\ Cardinality(Uses(g)) \in Nat
           /\ IsFiniteSet(Holding(g)) /\ Cardinality(Holding(g)) \in Nat
           /\ IsFiniteSet(Children(g)) /\ Cardinality(Children(g)) \in Nat
<1>1. Uses(g) \in SUBSET Reviews /\ Holding(g) \in SUBSET Reviews
    BY DEF Uses, Holding, Forwarded, TypeOK
<1>2. Children(g) \in SUBSET Grants
    BY DEF Children, Issued
<1> QED
    BY <1>1, <1>2, FS_Subset, FS_CardinalityType, DelegationConstants

\* Fewer is not more.
LEMMA Fewer ==
    ASSUME NEW S, IsFiniteSet(S), NEW T \in SUBSET S, NEW n \in Int, Cardinality(S) <= n
    PROVE  IsFiniteSet(T) /\ Cardinality(T) \in Nat /\ Cardinality(T) <= n
BY FS_Subset, FS_CardinalityType
-----------------------------------------------------------------------------
(* Grants.                                                                 *)

\* Time and revocation take away; as long as a revocation reaches all that
\* derives from what it ends, the grants stay in order.
LEMMA GrantsKept ==
    ASSUME TypeOK, GrantsOK,
           grant' = grant, now' \in Nat, now <= now', revoked \subseteq revoked',
           \A g \in Issued : \A h \in grant[g].line :
              h \in revoked' \ revoked => g \in revoked'
    PROVE  GrantsOK'
<1> USE DEF GrantsOK
<1>1. Issued' = Issued
    BY DEF Issued
<1>2. \A h \in Issued : Valid(h)' => Valid(h)
    BY DEF Valid, TypeOK, Issued
<1>3. Lineage'
    BY <1>1 DEF Lineage
<1>4. Attenuation'
    BY <1>1 DEF Attenuation
<1>5. OneGrantEach'
    BY <1>1, <1>2 DEF OneGrantEach, Owner
<1>6. Few'
    <2> SUFFICES ASSUME NEW g \in Grants PROVE Cardinality(Children(g))' <= ActiveChildren
        BY DEF Few
    <2>1. Children(g)' \in SUBSET Children(g)
        BY <1>1, <1>2 DEF Children
    <2> QED
        BY <2>1, Fewer, Counted, DelegationConstants DEF Few
<1> QED
    BY <1>3, <1>4, <1>5, <1>6

\* What _issue does to the table of grants.
Issuance(g, w, p, o) ==
    /\ g \in Grants /\ g \notin Issued /\ g # None /\ g \notin revoked
    /\ \A h \in Issued : grant'[h] = grant[h]
    /\ Issued' = Issued \cup {g}
    /\ grant'[g].principal = w /\ grant'[g].parent = p /\ grant'[g].rights = o.rights
    /\ grant'[g].expires = now + o.life /\ grant'[g].limit = o.depth
    /\ p = None => grant'[g].line = {g} /\ grant'[g].depth = 0
    /\ p # None => /\ grant'[g].line = {g} \cup grant[p].line
                   /\ grant'[g].depth = grant[p].depth + 1
    /\ now + o.life \in Nat /\ o.depth \in Nat /\ o.rights \in SUBSET Rights

LEMMA Issuing ==
    ASSUME TypeOK, NEW g, NEW w \in Workloads, NEW p \in Grants \cup {None},
           NEW o \in Offers, p # None => p \in Issued, Issue(g, w, p, o)
    PROVE  /\ Issuance(g, w, p, o)
           /\ grant' \in [Grants -> [principal : Workloads \cup {None}, parent : Grants \cup {None},
                rights : SUBSET Rights, expires : Nat, depth : Nat, limit : Nat,
                line : SUBSET Grants]]
<1> USE DelegationConstants DEF TypeOK, Issue
<1>1. g \in Grants /\ g \notin Issued /\ g # None /\ g \notin revoked
    OBVIOUS
<1>2. o.rights \in SUBSET Rights /\ o.life \in Nat /\ o.depth \in Nat /\ now + o.life \in Nat
    OBVIOUS
<1> DEFINE new == [principal |-> w, parent |-> p, rights |-> o.rights, expires |-> now + o.life,
           depth |-> IF p = None THEN 0 ELSE grant[p].depth + 1, limit |-> o.depth,
           line |-> {g} \cup (IF p = None THEN {} ELSE grant[p].line)]
<1>3. p # None => p \in Grants /\ grant[p].depth \in Nat /\ grant[p].line \in SUBSET Grants
    OBVIOUS
<1>4. new \in [principal : Workloads \cup {None}, parent : Grants \cup {None},
          rights : SUBSET Rights, expires : Nat, depth : Nat, limit : Nat, line : SUBSET Grants]
    BY <1>1, <1>2, <1>3
<1>5. grant' = [grant EXCEPT ![g] = new]
    OBVIOUS
<1>6. grant'[g] = new /\ \A h \in Grants : h # g => grant'[h] = grant[h]
    BY <1>1, <1>5
<1>7. new.principal = w /\ w # None
    OBVIOUS
<1>8. Issued' = Issued \cup {g}
    BY <1>1, <1>6, <1>7 DEF Issued
<1>9. \A h \in Issued : grant'[h] = grant[h]
    BY <1>1, <1>6 DEF Issued
<1> HIDE DEF new
<1>10. grant' \in [Grants -> [principal : Workloads \cup {None}, parent : Grants \cup {None},
          rights : SUBSET Rights, expires : Nat, depth : Nat, limit : Nat, line : SUBSET Grants]]
    BY <1>4, <1>5
<1> QED
    BY <1>1, <1>2, <1>6, <1>8, <1>9, <1>10 DEF new, Issuance

\* A new grant is within its line, and disturbs no other.
LEMMA GrantsExtended ==
    ASSUME TypeOK, GrantsOK, NEW g, NEW w \in Workloads, NEW p \in Grants \cup {None},
           NEW o \in Offers, p # None => Current(p), Issue(g, w, p, o)
    PROVE  GrantsOK'
<1> USE DEF GrantsOK
<1>1. p # None => p \in Issued /\ p \in Grants
    BY DEF Current, Issued
<1>2. Issuance(g, w, p, o)
    BY <1>1, Issuing
<1> USE DEF Issuance
<1>3. revoked' = revoked /\ now' = now /\ now \in Nat
    BY DEF Issue, TypeOK
<1>4. \A h \in Issued : grant[h].limit \in Nat /\ grant[h].depth \in Nat /\ grant[h].expires \in Nat
    BY DEF TypeOK, Issued
<1>5. /\ Alone(w, p) /\ o.rights \subseteq Maximum
      /\ p # None =>
            /\ o.rights \subseteq grant[p].rights /\ now + o.life <= grant[p].expires
            /\ o.depth <= grant[p].limit /\ grant[p].depth + 1 <= o.depth
            /\ Cardinality(Children(p)) < ActiveChildren
    BY DEF Issue, Children
<1>6. \A h \in Issued : Valid(h)' = Valid(h)
    BY <1>2, <1>3 DEF Valid
<1>7. \A h \in grant'[g].line : h = g \/ (p # None /\ h \in grant[p].line /\ h \in Issued)
    BY <1>1, <1>2 DEF Lineage
<1>8. Lineage'
    <2> SUFFICES ASSUME NEW x \in Issued'
                 PROVE  /\ x \in grant'[x].line /\ grant'[x].line \subseteq Issued'
                        /\ \A h \in grant'[x].line : /\ grant'[h].line \subseteq grant'[x].line
                                                     /\ grant'[x].limit <= grant'[h].limit
        BY DEF Lineage
    <2>1. CASE x \in Issued
        BY <2>1, <1>2 DEF Lineage
    <2>2. CASE x = g
        <3>1. x \in grant'[x].line /\ grant'[x].line \subseteq Issued'
            BY <2>2, <1>2, <1>7
        <3>2. ASSUME NEW h \in grant'[g].line
              PROVE  grant'[h].line \subseteq grant'[g].line /\ grant'[g].limit <= grant'[h].limit
            <4>1. CASE h = g
                BY <4>1, <1>2
            <4>2. CASE p # None /\ h \in grant[p].line /\ h \in Issued
                <5>1. grant[h].line \subseteq grant[p].line /\ grant[p].limit <= grant[h].limit
                    BY <4>2, <1>1 DEF Lineage
                <5>2. grant'[h] = grant[h]
                    BY <4>2, <1>2
                <5>3. grant'[g].limit <= grant'[h].limit
                    BY <5>1, <5>2, <4>2, <1>1, <1>2, <1>4, <1>5
                <5> QED
                    BY <5>1, <5>2, <5>3, <4>2, <1>2
            <4> QED
                BY <3>2, <4>1, <4>2, <1>7
        <3> QED
            BY <2>2, <3>1, <3>2
    <2> QED
        BY <2>1, <2>2, <1>2
<1>9. Attenuation'
    <2> SUFFICES ASSUME NEW x \in Issued', NEW h \in grant'[x].line
                 PROVE  /\ grant'[x].rights \subseteq grant'[h].rights \cap Maximum
                        /\ h \in revoked => x \in revoked
                        /\ grant'[x].expires <= grant'[h].expires
                        /\ grant'[x].depth <= grant'[h].limit
        BY <1>3 DEF Attenuation
    <2>1. CASE x \in Issued
        <3>1. grant'[x] = grant[x] /\ h \in Issued /\ grant'[h] = grant[h]
            BY <2>1, <1>2 DEF Lineage
        <3> QED
            BY <2>1, <3>1 DEF Attenuation
    <2>2. CASE x = g /\ h = g
        BY <2>2, <1>1, <1>2, <1>4, <1>5
    <2>3. CASE x = g /\ p # None /\ h \in grant[p].line /\ h \in Issued
        <3>1. /\ grant[p].rights \subseteq grant[h].rights \cap Maximum
              /\ grant[p].expires <= grant[h].expires
              /\ grant[p].limit <= grant[h].limit
            BY <2>3, <1>1 DEF Attenuation, Lineage
        <3>2. h \notin revoked
            BY <2>3 DEF Current, Valid
        <3>3. grant'[h] = grant[h]
            BY <2>3, <1>2
        <3>4. grant'[x].rights \subseteq grant'[h].rights \cap Maximum
            BY <2>3, <3>1, <3>3, <1>2, <1>5
        <3>5. grant'[x].expires <= grant'[h].expires
            BY <2>3, <3>1, <3>3, <1>1, <1>2, <1>4, <1>5
        <3>6. grant'[x].depth <= grant'[h].limit
            BY <2>3, <3>1, <3>3, <1>1, <1>2, <1>4, <1>5
        <3> QED
            BY <3>2, <3>4, <3>5, <3>6
    <2> QED
        BY <2>1, <2>2, <2>3, <1>2, <1>7
<1>10. OneGrantEach'
    <2>1. \A x \in Issued : Owner(x)' = Owner(x)
        BY <1>2 DEF Owner
    <2>2. Owner(g)' = w
        BY <1>2 DEF Owner
    <2> QED
        BY <2>1, <2>2, <1>2, <1>5, <1>6 DEF OneGrantEach, Alone
<1>11. Few'
    <2> SUFFICES ASSUME NEW x \in Grants PROVE Cardinality(Children(x)') <= ActiveChildren
        BY DEF Few
    <2>1. CASE x # p
        <3>1. Children(x)' \in SUBSET Children(x)
            BY <2>1, <1>2, <1>6 DEF Children
        <3> QED
            BY <3>1, Fewer, Counted, DelegationConstants DEF Few
    <2>2. CASE x = p
        <3>1. Children(x)' \in SUBSET (Children(x) \cup {g})
            BY <2>2, <1>2, <1>6 DEF Children
        <3>2. g \notin Children(x)
            BY <1>2 DEF Children
        <3>3. /\ IsFiniteSet(Children(x) \cup {g})
              /\ Cardinality(Children(x) \cup {g}) = Cardinality(Children(x)) + 1
            BY <3>2, Counted, FS_AddElement
        <3>4. p # None
            BY <2>2, DelegationConstants
        <3>5. Cardinality(Children(x) \cup {g}) <= ActiveChildren
            BY <2>2, <3>3, <3>4, <1>5, Counted, DelegationConstants
        <3> QED
            BY <3>1, <3>3, <3>5, Fewer, DelegationConstants
    <2> QED
        BY <2>1, <2>2
<1> QED
    BY <1>8, <1>9, <1>10, <1>11
-----------------------------------------------------------------------------
(* Tickets.                                                                *)

\* Admissions end, and slots are given back, without a use.
LEMMA TicketsKept ==
    ASSUME TypeOK, TicketsOK,
           Issued \subseteq Issued', \A g \in Issued : grant'[g] = grant[g],
           used' = used, ticket' = ticket, slots' \subseteq slots,
           \A q \in Reviews : \/ admission'[q] = admission[q]
                              \/ /\ admission[q] = "pending" /\ q \notin slots'
                                 /\ admission'[q] \in {"expired", "fenced", "canceled", "denied"}
    PROVE  TicketsOK'
<1> USE DEF TicketsOK
<1>1. Admitted'
    BY DEF Admitted, TypeOK
<1>2. NoSlotLeaks'
    BY DEF NoSlotLeaks, TypeOK
<1>3. Spent'
    <2>1. Forwarded' = Forwarded
        BY DEF Forwarded
    <2> QED
        BY <2>1 DEF Spent, Uses
<1>4. Open'
    <2> SUFFICES ASSUME NEW g \in Grants
                 PROVE  /\ used[g] + Cardinality(Holding(g)') <= ActionsPerGrant
                        /\ Cardinality(Holding(g)') <= InFlight
        BY DEF Open
    <2>1. Holding(g)' \in SUBSET Holding(g)
        BY DEF Holding
    <2>2. Cardinality(Holding(g)') \in Nat /\ Cardinality(Holding(g)') <= Cardinality(Holding(g))
        BY <2>1, Fewer, Counted
    <2> QED
        BY <2>2, Counted, DelegationConstants DEF Open, TypeOK
<1> QED
    BY <1>1, <1>2, <1>3, <1>4

\* A review takes a ticket only where the quotas leave room for one more.
LEMMA TicketsReviewed ==
    ASSUME TypeOK, TicketsOK, NEW q \in Reviews, NEW g \in Grants,
           NEW end \in {"pending", "failed", "refused"}, Review(q, g, end)
    PROVE  TicketsOK'
<1> USE DEF TicketsOK
<1> DEFINE kept == {x \in slots : ~Lapsed(x)}
<1>1. /\ admission[q] = "none" /\ g \in Issued /\ grant' = grant /\ used' = used
      /\ admission' = [AfterExpiry EXCEPT ![q] = end]
    BY DEF Review, Usable, Current
<1>2. \/ end = "refused" /\ slots' = kept
      \/ /\ end \in {"pending", "failed"} /\ Needs[q] \subseteq grant[g].rights
         /\ WithinQuota(g, {x \in kept : ticket[x].grant = g})
         /\ slots' = kept \cup {q}
    BY DEF Review
<1>3. /\ DOMAIN ticket' = Reviews /\ ticket'[q].grant = g
      /\ \A x \in Reviews : x # q => ticket'[x] = ticket[x]
    BY DEF Review, Admitted
<1>4. /\ admission'[q] = end
      /\ \A x \in Reviews : x # q =>
            admission'[x] = IF Lapsed(x) THEN "expired" ELSE admission[x]
    BY <1>1 DEF AfterExpiry
<1>5. \A x \in Reviews : Lapsed(x) => admission[x] = "pending"
    BY DEF Lapsed
<1>6. q \notin slots /\ kept \subseteq slots /\ slots \subseteq Reviews
    BY <1>1 DEF NoSlotLeaks, TypeOK
<1>7. Issued' = Issued
    BY <1>1 DEF Issued
<1>8. Admitted'
    BY <1>1, <1>2, <1>3, <1>4, <1>5, <1>7 DEF Admitted
<1>9. NoSlotLeaks'
    BY <1>2, <1>4, <1>5, <1>6 DEF NoSlotLeaks
<1>10. Spent'
    <2>1. Forwarded' = Forwarded /\ q \notin Forwarded
        BY <1>1, <1>4, <1>5 DEF Forwarded
    <2>2. \A x \in Grants : Uses(x)' = Uses(x)
        BY <2>1, <1>3 DEF Uses, Forwarded
    <2> QED
        BY <2>2, <1>1 DEF Spent
<1>11. Open'
    <2> SUFFICES ASSUME NEW x \in Grants
                 PROVE  /\ used[x] + Cardinality(Holding(x)') <= ActionsPerGrant
                        /\ Cardinality(Holding(x)') <= InFlight
        BY <1>1 DEF Open
    <2> DEFINE open == {y \in kept : ticket[y].grant = x}
    <2>1. open \in SUBSET Holding(x)
        BY DEF Holding
    <2>2. /\ IsFiniteSet(open) /\ Cardinality(open) \in Nat
          /\ Cardinality(open) <= Cardinality(Holding(x))
        <3> HIDE DEF open
        <3> QED BY <2>1, Fewer, Counted
    <2>3. CASE slots' = kept \/ x # g
        <3>1. Holding(x)' = open
            BY <2>3, <1>2, <1>3, <1>6 DEF Holding
        <3> HIDE DEF open
        <3> QED
            BY <2>2, <3>1, Counted, DelegationConstants DEF Open, TypeOK
    <2>4. CASE slots' = kept \cup {q} /\ x = g /\ WithinQuota(g, {y \in kept : ticket[y].grant = g})
        <3>1. Holding(x)' = open \cup {q}
            BY <2>4, <1>3, <1>6 DEF Holding
        <3>2. q \notin open
            BY <1>6
        <3>3. Cardinality(open) < InFlight /\ used[x] + Cardinality(open) < ActionsPerGrant
            BY <2>4 DEF WithinQuota
        <3> HIDE DEF open
        <3>4. Cardinality(open \cup {q}) = Cardinality(open) + 1
            BY <2>2, <3>2, FS_AddElement
        <3> QED
            BY <2>2, <3>1, <3>3, <3>4, DelegationConstants DEF TypeOK
    <2> QED
        BY <2>3, <2>4, <1>2
<1> QED
    BY <1>8, <1>9, <1>10, <1>11

\* A dispatch turns the ticket it holds into a use.
LEMMA TicketsUsed ==
    ASSUME TypeOK, TicketsOK, NEW q \in Reviews, NEW end \in {"completed", "uncertain"},
           Dispatch(q, end)
    PROVE  TicketsOK'
<1> USE DEF TicketsOK
<1> DEFINE g == ticket[q].grant
<1>1. /\ admission[q] = "pending" /\ q \in slots /\ g \in Grants
      /\ grant' = grant /\ ticket' = ticket /\ slots' = slots \ {q}
      /\ admission' = [admission EXCEPT ![q] = end]
      /\ used' = [used EXCEPT ![g] = @ + 1]
    BY DEF Dispatch, Committable, Usable, Current, Issued
<1> HIDE DEF g
<1>2. Issued' = Issued
    BY <1>1 DEF Issued
<1>3. admission'[q] = end /\ \A x \in Reviews : x # q => admission'[x] = admission[x]
    BY <1>1 DEF TypeOK
<1>4. used'[g] = used[g] + 1 /\ \A x \in Grants : x # g => used'[x] = used[x]
    BY <1>1 DEF TypeOK
<1>5. Admitted'
    BY <1>1, <1>2, <1>3 DEF Admitted
<1>6. NoSlotLeaks'
    BY <1>1, <1>3 DEF NoSlotLeaks, TypeOK
<1>7. q \notin Forwarded /\ Forwarded' = Forwarded \cup {q}
    BY <1>1, <1>3 DEF Forwarded
<1>8. Spent'
    <2> SUFFICES ASSUME NEW x \in Grants PROVE used'[x] = Cardinality(Uses(x)')
        BY DEF Spent
    <2>1. CASE x # g
        <3>1. Uses(x)' = Uses(x)
            BY <2>1, <1>1, <1>7 DEF Uses, g
        <3> QED
            BY <2>1, <3>1, <1>4 DEF Spent
    <2>2. CASE x = g
        <3>1. Uses(x)' = Uses(x) \cup {q} /\ q \notin Uses(x)
            BY <2>2, <1>1, <1>7 DEF Uses, g
        <3>2. Cardinality(Uses(x) \cup {q}) = Cardinality(Uses(x)) + 1
            BY <3>1, Counted, FS_AddElement
        <3> QED
            BY <2>2, <3>1, <3>2, <1>4 DEF Spent
    <2> QED
        BY <2>1, <2>2
<1>9. Open'
    <2> SUFFICES ASSUME NEW x \in Grants
                 PROVE  /\ used'[x] + Cardinality(Holding(x)') <= ActionsPerGrant
                        /\ Cardinality(Holding(x)') <= InFlight
        BY DEF Open
    <2>1. CASE x # g
        <3>1. Holding(x)' = Holding(x)
            BY <2>1, <1>1 DEF Holding, g
        <3> QED
            BY <2>1, <3>1, <1>4 DEF Open
    <2>2. CASE x = g
        <3>1. Holding(x)' = Holding(x) \ {q} /\ q \in Holding(x)
            BY <2>2, <1>1 DEF Holding, g
        <3>2. Cardinality(Holding(x) \ {q}) = Cardinality(Holding(x)) - 1
            BY <3>1, Counted, FS_RemoveElement
        <3> QED
            BY <2>2, <3>1, <3>2, <1>4, Counted, DelegationConstants DEF Open, TypeOK
    <2> QED
        BY <2>1, <2>2
<1> QED
    BY <1>5, <1>6, <1>8, <1>9
-----------------------------------------------------------------------------
(* Identity.                                                               *)

\* A live workload is itself enrolled and active.
LEMMA LiveIsActive == ASSUME NEW w, Live(w) PROVE w \in active
<1>1. w \in Chain(w)
    BY DEF Chain
<1> QED
    BY <1>1 DEF Live
-----------------------------------------------------------------------------
(* One lemma per kind of step.                                             *)

LEMMA InitIInv == Init => IInv
<1> SUFFICES ASSUME Init PROVE IInv
    OBVIOUS
<1>1. Issued = {} /\ Forwarded = {}
    BY DEF Init, Issued, Unissued, Forwarded
<1>2. \A g \in Grants : Uses(g) = {} /\ Holding(g) = {} /\ Children(g) = {}
    BY <1>1 DEF Init, Uses, Holding, Children
<1>3. TypeOK
    <2>1. Unissued \in [principal : Workloads \cup {None}, parent : Grants \cup {None},
            rights : SUBSET Rights, expires : Nat, depth : Nat, limit : Nat, line : SUBSET Grants]
        BY DEF Unissued
    <2>2. NoTicket.grant = None
        BY DEF NoTicket
    <2> QED
        BY <1>1, <2>1, <2>2 DEF Init, TypeOK
<1>4. Spent /\ Open /\ Few
    <2>1. Cardinality({}) = 0
        BY FS_EmptySet
    <2>2. \A g \in Grants : used[g] = 0
        BY DEF Init
    <2>3. \A g \in Grants : /\ Cardinality(Uses(g)) = 0 /\ Cardinality(Holding(g)) = 0
                            /\ Cardinality(Children(g)) = 0
        BY <1>2, <2>1
    <2> QED
        BY <2>2, <2>3, DelegationConstants DEF Spent, Open, Few
<1>5. Lineage /\ Attenuation /\ OneGrantEach
    BY <1>1 DEF Lineage, Attenuation, OneGrantEach
<1>6. Admitted /\ NoSlotLeaks
    BY DEF Init, Admitted, NoSlotLeaks
<1> QED
    BY <1>3, <1>4, <1>5, <1>6 DEF IInv, GrantsOK, TicketsOK

\* Issuing, by the host or below another grant.
LEMMA IssueStep ==
    ASSUME IInv, NEW g \in Grants, NEW w \in Workloads, NEW p \in Grants \cup {None},
           NEW o \in Offers, p # None => Current(p), Issue(g, w, p, o),
           published' \in {published, published \cup {g}}
    PROVE  IInv'
<1> USE DEF IInv
<1>1. p # None => p \in Issued
    BY DEF Current
<1>2. /\ Issuance(g, w, p, o)
      /\ grant' \in [Grants -> [principal : Workloads \cup {None}, parent : Grants \cup {None},
           rights : SUBSET Rights, expires : Nat, depth : Nat, limit : Nat, line : SUBSET Grants]]
    BY <1>1, Issuing
<1>3. TypeOK'
    BY <1>2 DEF TypeOK, Issue, identity, Issuance
<1>4. GrantsOK'
    BY GrantsExtended
<1>5. TicketsOK'
    BY <1>2, TicketsKept DEF Issue, Issuance
<1> QED
    BY <1>3, <1>4, <1>5

\* Steps that leave grants and tickets alone.
LEMMA QuietStep ==
    ASSUME IInv, TypeOK', grant' = grant, revoked' = revoked, now' = now,
           used' = used, slots' = slots, ticket' = ticket, admission' = admission
    PROVE  IInv'
<1> USE DEF IInv
<1>1. GrantsOK'
    BY GrantsKept DEF TypeOK
<1>2. Issued' = Issued
    BY DEF Issued
<1>3. TicketsOK'
    BY <1>2, TicketsKept
<1> QED
    BY <1>1, <1>3

\* A revocation ends every grant below, because lines hold the lines of their
\* members.
LEMMA Revoking ==
    ASSUME IInv, NEW g \in Grants, RevokeGrant(g), now' = now
    PROVE  GrantsOK' /\ Issued' = Issued /\ revoked' \subseteq Issued
<1> USE DEF IInv
<1>1. grant' = grant /\ revoked' = revoked \cup Below(g) /\ Issued' = Issued
    BY DEF RevokeGrant, Issued
<1>2. revoked' \subseteq Issued
    BY <1>1 DEF Below, TypeOK
<1>3. \A x \in Issued : \A h \in grant[x].line : h \in revoked' \ revoked => x \in revoked'
    BY <1>1 DEF Below, GrantsOK, Lineage
<1> QED
    BY <1>1, <1>2, <1>3, GrantsKept DEF TypeOK

LEMMA RevokeStep ==
    ASSUME IInv, NEW g \in Grants, Revoke(g) \/ GateReset(g)
    PROVE  IInv'
<1> USE DEF IInv
<1>1. RevokeGrant(g) /\ now' = now /\ ticket' = ticket
    BY DEF Revoke, GateReset, service
<1>2. GrantsOK' /\ Issued' = Issued /\ revoked' \subseteq Issued
    BY <1>1, Revoking
<1>3. slots' = {} /\ used' = used /\ grant' = grant /\ generation' = generation + 1
    BY <1>1 DEF RevokeGrant
<1>4. \A q \in Reviews : \/ admission'[q] = admission[q]
                         \/ admission[q] = "pending" /\ admission'[q] = "fenced"
    BY DEF Revoke, GateReset, service, AfterFence
<1>5. TicketsOK'
    BY <1>1, <1>2, <1>3, <1>4, TicketsKept
<1>6. TypeOK'
    <2>1. admission' \in [Reviews -> {"none", "pending", "failed", "refused", "expired", "fenced",
                                      "canceled", "denied", "completed", "uncertain"}]
        BY DEF Revoke, GateReset, service, AfterFence, TypeOK
    <2> QED
        BY <2>1, <1>1, <1>2, <1>3 DEF Revoke, GateReset, service, identity, TypeOK
<1> QED
    BY <1>2, <1>5, <1>6

\* Steps that end admissions, or give slots back, and use nothing.
LEMMA EndingStep ==
    ASSUME IInv, TypeOK', grant' = grant, revoked' = revoked, now' = now,
           used' = used, ticket' = ticket, slots' \subseteq slots,
           \A q \in Reviews : \/ admission'[q] = admission[q]
                              \/ /\ admission[q] = "pending" /\ q \notin slots'
                                 /\ admission'[q] \in {"expired", "fenced", "canceled", "denied"}
    PROVE  IInv'
<1> USE DEF IInv
<1>1. GrantsOK'
    BY GrantsKept DEF TypeOK
<1>2. Issued' = Issued
    BY DEF Issued
<1>3. TicketsOK'
    BY <1>2, TicketsKept
<1> QED
    BY <1>1, <1>3

LEMMA BindStep ==
    ASSUME IInv, NEW g \in Grants, BindContext(g)
    PROVE  IInv'
<1> USE DEF IInv
<1> DEFINE w == Owner(g)
           above == Owner(grant[g].parent)
           to == [grant |-> g, cites |-> context[above]]
           step == IF bound[w] = to THEN 0 ELSE 1
           ends == {q \in Reviews : Lapsed(q) \/
                      (step = 1 /\ admission[q] = "pending" /\ w \in DOMAIN ticket[q].ancestry)}
<1>1. /\ grant' = grant /\ revoked' = revoked /\ now' = now /\ used' = used /\ ticket' = ticket
      /\ generation' = generation /\ epoch' = epoch /\ active' = active
      /\ available' = available /\ published' = published
    BY DEF BindContext
<1>2. /\ w \in active /\ Live(above) /\ bound' = [bound EXCEPT ![w] = to]
      /\ context' = [context EXCEPT ![w] = @ + step]
      /\ session' = [session EXCEPT ![w] = @ + step]
      /\ admission' = [q \in Reviews |-> IF q \in ends THEN "expired" ELSE admission[q]]
      /\ slots' = slots \ ends
    BY DEF BindContext
<1>3. \A q \in ends : admission[q] = "pending"
    BY DEF Lapsed
<1>4. step \in Nat
    OBVIOUS
<1>5. above \in Workloads
    BY <1>2, LiveIsActive DEF TypeOK
<1>6. to \in [grant : Grants \cup {None}, cites : Nat]
    BY <1>5 DEF TypeOK
<1>7. Issued' = Issued
    BY <1>1 DEF Issued
<1> HIDE DEF w, above, to, step, ends
<1>8. TypeOK'
    BY <1>1, <1>2, <1>4, <1>6, <1>7 DEF TypeOK
<1>9. \A q \in Reviews : \/ admission'[q] = admission[q]
                         \/ /\ admission[q] = "pending" /\ q \notin slots'
                            /\ admission'[q] = "expired"
    BY <1>2, <1>3
<1> QED
    BY <1>1, <1>2, <1>8, <1>9, EndingStep

\* Reviews, dispatches and their ends.
LEMMA ReviewStep ==
    ASSUME IInv, NEW q \in Reviews, NEW g \in Grants,
           NEW end \in {"pending", "failed", "refused"}, Review(q, g, end)
    PROVE  IInv'
<1> USE DEF IInv
<1>1. /\ grant' = grant /\ revoked' = revoked /\ now' = now /\ used' = used
      /\ generation' = generation /\ epoch' = epoch /\ UNCHANGED identity
      /\ available' = available /\ published' = published
      /\ admission' = [AfterExpiry EXCEPT ![q] = end]
      /\ slots' \subseteq slots \cup {q}
    BY DEF Review
<1>2. Issued' = Issued
    BY <1>1 DEF Issued
<1>3. \A x \in Reviews : ticket'[x].grant \in Grants \cup {None}
    BY DEF Review, TypeOK, TicketsOK, Admitted
<1>4. admission' \in [Reviews -> {"none", "pending", "failed", "refused", "expired", "fenced",
                                  "canceled", "denied", "completed", "uncertain"}]
    BY <1>1 DEF AfterExpiry, TypeOK
<1>5. TypeOK'
    BY <1>1, <1>2, <1>3, <1>4 DEF TypeOK, identity
<1>6. GrantsOK'
    BY <1>1, GrantsKept DEF TypeOK
<1> QED
    BY <1>5, <1>6, TicketsReviewed

LEMMA DispatchStep ==
    ASSUME IInv, NEW q \in Reviews, NEW end \in {"completed", "uncertain"}, Dispatch(q, end)
    PROVE  IInv'
<1> USE DEF IInv
<1>1. /\ grant' = grant /\ revoked' = revoked /\ now' = now /\ ticket' = ticket
      /\ generation' = generation /\ epoch' = epoch /\ UNCHANGED identity
      /\ available' = available /\ published' = published
      /\ admission' = [admission EXCEPT ![q] = end] /\ slots' = slots \ {q}
      /\ used' = [used EXCEPT ![ticket[q].grant] = @ + 1] /\ ticket[q].grant \in Grants
    BY DEF Dispatch, Committable, Usable, Current, Issued
<1>2. Issued' = Issued
    BY <1>1 DEF Issued
<1>3. used' \in [Grants -> Nat]
    BY <1>1 DEF TypeOK
<1>4. TypeOK'
    BY <1>1, <1>2, <1>3 DEF TypeOK, identity
<1>5. GrantsOK'
    BY <1>1, GrantsKept DEF TypeOK
<1> QED
    BY <1>4, <1>5, TicketsUsed

LEMMA CancelStep ==
    ASSUME IInv, NEW q \in Reviews, Cancel(q) \/ Refuse(q)
    PROVE  IInv'
<1> USE DEF IInv
<1>1. /\ grant' = grant /\ revoked' = revoked /\ now' = now /\ used' = used /\ ticket' = ticket
      /\ generation' = generation /\ epoch' = epoch /\ UNCHANGED identity
      /\ available' = available /\ published' = published
      /\ slots' = slots \ {q} /\ admission[q] = "pending"
      /\ \/ admission' = [admission EXCEPT ![q] = "canceled"]
         \/ admission' = [admission EXCEPT ![q] = "denied"]
    BY DEF Cancel, Refuse
<1>2. Issued' = Issued
    BY <1>1 DEF Issued
<1>3. TypeOK'
    BY <1>1, <1>2 DEF TypeOK, identity
<1> QED
    BY <1>1, <1>3, EndingStep DEF TypeOK

\* The fences of the service.
LEMMA AvailableStep ==
    ASSUME IInv, SetAvailable
    PROVE  IInv'
<1> USE DEF IInv
<1>1. /\ grant' = grant /\ revoked' = revoked /\ now' = now /\ used' = used /\ ticket' = ticket
      /\ generation' = generation /\ epoch' = epoch + 1 /\ UNCHANGED identity
      /\ available' = ~available /\ published' = published
      /\ slots' = {q \in slots : admission[q] # "pending"}
      /\ admission' = AfterFence
    BY DEF SetAvailable
<1>2. Issued' = Issued
    BY <1>1 DEF Issued
<1>3. TypeOK'
    BY <1>1, <1>2 DEF TypeOK, identity, AfterFence
<1>4. \A q \in Reviews : \/ admission'[q] = admission[q]
                         \/ /\ admission[q] = "pending" /\ q \notin slots'
                            /\ admission'[q] = "fenced"
    BY <1>1 DEF AfterFence
<1>5. slots' \subseteq slots
    BY <1>1
<1> QED
    BY <1>1, <1>3, <1>4, <1>5, EndingStep

LEMMA FencePolicyStep ==
    ASSUME IInv, FencePolicy
    PROVE  IInv'
<1> USE DEF IInv
<1>1. /\ grant' = grant /\ revoked' = revoked \cup Issued /\ now' = now /\ used' = used
      /\ ticket' = ticket /\ generation' = generation + 1 /\ epoch' = epoch + 1
      /\ active' = active /\ context' = context /\ bound' = bound
      /\ session' = [w \in Workloads |-> session[w] + 1]
      /\ available' = available /\ published' = published /\ slots' = {}
      /\ admission' = AfterFence
    BY DEF FencePolicy
<1>2. Issued' = Issued
    BY <1>1 DEF Issued
<1>3. TypeOK'
    BY <1>1, <1>2 DEF TypeOK, AfterFence
<1>4. GrantsOK'
    BY <1>1, GrantsKept DEF TypeOK
<1>5. \A q \in Reviews : \/ admission'[q] = admission[q]
                         \/ admission[q] = "pending" /\ admission'[q] = "fenced"
    BY <1>1 DEF AfterFence
<1>6. TicketsOK'
    BY <1>1, <1>2, <1>5, TicketsKept
<1> QED
    BY <1>3, <1>4, <1>6

\* Time, channels and enrollments.
LEMMA TickStep ==
    ASSUME IInv, Tick
    PROVE  IInv'
<1> USE DEF IInv
<1>1. now' = now + 1 /\ UNCHANGED <<issuer, identity, service>>
    BY DEF Tick
<1>2. Issued' = Issued
    BY <1>1 DEF Issued, issuer
<1>3. TypeOK'
    BY <1>1, <1>2 DEF TypeOK, issuer, identity, service
<1>4. GrantsOK'
    BY <1>1, GrantsKept DEF TypeOK, issuer
<1>5. TicketsOK'
    BY <1>1, <1>2, TicketsKept DEF issuer, service
<1> QED
    BY <1>3, <1>4, <1>5

LEMMA IdentityStep ==
    ASSUME IInv, NEW w \in Workloads, CloseChannel(w) \/ Deactivate(w)
    PROVE  IInv'
<1>1. UNCHANGED <<issuer, context, bound, service, now>>
    BY DEF CloseChannel, Deactivate
<1>2. TypeOK'
    BY <1>1 DEF IInv, TypeOK, CloseChannel, Deactivate, issuer, service, Issued
<1> QED
    BY <1>1, <1>2, QuietStep DEF issuer, service

LEMMA PublishStep ==
    ASSUME IInv, NEW g \in Grants, PublishRoot(g)
    PROVE  IInv'
<1>1. /\ UNCHANGED <<issuer, identity, available, epoch, admission, ticket, now>>
      /\ published' = published \cup {g} /\ g \in Issued
    BY DEF PublishRoot
<1>2. TypeOK'
    BY <1>1 DEF IInv, TypeOK, issuer, identity, Issued
<1> QED
    BY <1>1, <1>2, QuietStep DEF issuer

LEMMA NextIInv == IInv /\ [Next]_vars => IInv'
<1> SUFFICES ASSUME IInv, [Next]_vars PROVE IInv'
    OBVIOUS
<1>1. ASSUME NEW g \in Grants, NEW o \in Offers, AuthorizeRoot(g, o) PROVE IInv'
    BY <1>1, IssueStep, DelegationConstants DEF AuthorizeRoot
<1>2. ASSUME NEW g \in Grants, NEW o \in Offers, NEW p \in Grants, NEW w \in Workloads,
             IssueChild(p, g, w, o)
      PROVE  IInv'
    <2>1. Current(p)
        BY <1>2 DEF IssueChild, Usable
    <2> QED
        BY <1>2, <2>1, IssueStep DEF IssueChild
<1>3. CASE UNCHANGED vars
    <2>1. UNCHANGED <<issuer, identity, service, now>>
        BY <1>3 DEF vars
    <2>2. TypeOK'
        BY <2>1 DEF IInv, TypeOK, issuer, identity, service, Issued
    <2> QED
        BY <2>1, <2>2, QuietStep DEF issuer, service
<1> QED
    BY <1>1, <1>2, <1>3, TickStep, AvailableStep, FencePolicyStep, IdentityStep, PublishStep,
       BindStep, RevokeStep, CancelStep, DispatchStep, ReviewStep DEF Next
-----------------------------------------------------------------------------
(* Theorems.                                                               *)

LEMMA Invariant == Spec => []IInv
<1>1. Init => IInv
    BY InitIInv
<1>2. IInv /\ [Next]_vars => IInv'
    BY NextIInv
<1> QED
    BY <1>1, <1>2, PTL DEF Spec

\* The tables of issuer, gate and service stay well formed, a principal never
\* holds two grants in force, and every ticket is given back, on all paths of
\* delegation.py and delegating_gate.py.
THEOREM RecordsAgree == Spec => []Integrity
<1>1. IInv => Integrity
    BY InvImplies
<1> QED
    BY <1>1, Invariant, PTL

\* No grant outlives or outranks anything it derives from, however grants are
\* issued, revoked and expire.
THEOREM AuthorityAttenuates == Spec => []Attenuation
<1>1. IInv => Attenuation
    BY InvImplies
<1> QED
    BY <1>1, Invariant, PTL

\* The quotas of _preview_operation and _issue hold over the whole life of a
\* grant, whatever reviews are open when they are counted.
THEOREM QuotasHold == Spec => []QuotaHolds
<1>1. IInv => QuotaHolds
    BY InvImplies
<1> QED
    BY <1>1, Invariant, PTL

\* guarded_dispatch forwards an action only on the chain it was reviewed for,
\* and only while every grant of it covers the action and is in force.
THEOREM OnlyReviewedIsForwarded == Spec => ForwardedAsReviewed
<1> DEFINE Forwarding(q) ==
        \A h \in grant[ticket[q].grant].line :
            /\ Valid(h) /\ Needs[q] \subseteq grant[h].rights
            /\ Owner(h) \in active /\ context[Owner(h)] = ticket[q].ancestry[Owner(h)]
<1>1. ASSUME IInv, NEW q \in Reviews, NEW end, Dispatch(q, end)
      PROVE  Forwarding(q)
    <2> DEFINE g == ticket[q].grant
    <2>1. /\ admission[q] = "pending" /\ Traceable(g) /\ Current(g)
          /\ Ancestry(g) = ticket[q].ancestry
        BY <1>1 DEF Dispatch, Committable, Usable
    <2>2. g \in Issued /\ Needs[q] \subseteq grant[g].rights
        BY <1>1, <2>1 DEF IInv, TicketsOK, Admitted
    <2> HIDE DEF g
    <2>3. ASSUME NEW h \in grant[g].line
          PROVE  /\ Valid(h) /\ Needs[q] \subseteq grant[h].rights
                 /\ Owner(h) \in active /\ context[Owner(h)] = ticket[q].ancestry[Owner(h)]
        <3>1. Valid(h)
            BY <2>1, <2>3 DEF Current
        <3>2. Needs[q] \subseteq grant[h].rights
            BY <1>1, <2>2, <2>3 DEF IInv, GrantsOK, Attenuation
        <3>3. Owner(h) \in active
            BY <2>1, <2>3, LiveIsActive DEF Traceable
        <3>4. context[Owner(h)] = ticket[q].ancestry[Owner(h)]
            BY <2>1, <2>3 DEF Ancestry
        <3> QED
            BY <3>1, <3>2, <3>3, <3>4
    <2> QED
        BY <2>3 DEF g
<1>2. ASSUME IInv, [Next]_vars, NEW q \in Reviews, q \notin Forwarded, q \in Forwarded'
      PROVE  \E end \in {"completed", "uncertain"} : Dispatch(q, end)
    <2> USE <1>2
    <2>1. admission[q] \notin {"completed", "uncertain"} /\ admission'[q] \in {"completed", "uncertain"}
        BY DEF Forwarded
    <2>2. CASE UNCHANGED vars
        BY <2>1, <2>2 DEF vars, service
    <2>3. CASE Tick \/ SetAvailable \/ FencePolicy
        BY <2>1, <2>3 DEF Tick, SetAvailable, FencePolicy, AfterFence, service
    <2>4. ASSUME NEW w \in Workloads, CloseChannel(w) \/ Deactivate(w) PROVE FALSE
        BY <2>1, <2>4 DEF CloseChannel, Deactivate, service
    <2>5. ASSUME NEW g \in Grants, PublishRoot(g) \/ BindContext(g) \/ Revoke(g) \/ GateReset(g)
          PROVE  FALSE
        BY <2>1, <2>5 DEF PublishRoot, BindContext, Revoke, GateReset, AfterFence, service
    <2>6. ASSUME NEW g, NEW w, NEW p, NEW o, Issue(g, w, p, o) PROVE FALSE
        BY <2>1, <2>6 DEF Issue
    <2>7. ASSUME NEW x \in Reviews, Cancel(x) \/ Refuse(x) PROVE FALSE
        BY <2>1, <2>7 DEF Cancel, Refuse, IInv, TypeOK
    <2>8. ASSUME NEW x \in Reviews, NEW g \in Grants, NEW end \in {"pending", "failed", "refused"},
                 Review(x, g, end)
          PROVE  FALSE
        BY <2>1, <2>8 DEF Review, AfterExpiry
    <2>9. ASSUME NEW x \in Reviews, NEW end \in {"completed", "uncertain"}, Dispatch(x, end)
          PROVE  x = q
        BY <2>1, <2>9 DEF Dispatch, IInv, TypeOK
    <2> QED
        BY <2>2, <2>3, <2>4, <2>5, <2>6, <2>7, <2>8, <2>9 DEF Next, AuthorizeRoot, IssueChild
<1> HIDE DEF Forwarding
<1>3. ASSUME IInv, [Next]_vars
      PROVE  \A q \in Reviews : (q \notin Forwarded /\ q \in Forwarded') => Forwarding(q)
    BY <1>1, <1>2, <1>3
<1>4. IInv /\ [Next]_vars =>
        [\A q \in Reviews : (q \notin Forwarded /\ q \in Forwarded') =>
            \A h \in grant[ticket[q].grant].line :
                /\ Valid(h) /\ Needs[q] \subseteq grant[h].rights
                /\ Owner(h) \in active /\ context[Owner(h)] = ticket[q].ancestry[Owner(h)]]_vars
    BY <1>3 DEF Forwarding
<1> QED
    BY <1>4, Invariant, PTL DEF Spec, ForwardedAsReviewed
=============================================================================
