------------------------- MODULE BudgetLedgerProofs -------------------------
(***************************************************************************)
(* Proofs about the budget ledger for every number of ledger processes,    *)
(* reservations, buckets and every policy.                                 *)
(***************************************************************************)
EXTENDS BudgetLedger, FiniteSetTheorems, TLAPS

-----------------------------------------------------------------------------
(* Sums of reservations: a sum is a natural number and adds up over        *)
(* disjoint sets; that of one reservation is its amount.                   *)

\* The units granted to a finite set are finitely many, so a sum is a natural
\* number: the held and consumed counters of a bucket can be totals.
LEMMA UnitSumType ==
    ASSUME NEW f, NEW S, IsFiniteSet(S), NEW bound \in Nat
    PROVE  /\ IsFiniteSet(Units(f, S, bound))
           /\ UnitSum(f, S, bound) \in Nat
<1>1. IsFiniteSet(1..bound)
    BY FS_Interval
<1>2. IsFiniteSet(S \X (1..bound))
    BY <1>1, FS_Product
<1>3. Units(f, S, bound) \in SUBSET (S \X (1..bound))
    BY DEF Units
<1>4. IsFiniteSet(Units(f, S, bound))
    BY <1>2, <1>3, FS_Subset
<1> QED
    BY <1>4, FS_CardinalityType DEF UnitSum

\* A reservation outside the set does not matter to its sum.
LEMMA UnitSumCong ==
    ASSUME NEW f, NEW g, NEW S, NEW bound, \A x \in S : f[x] = g[x]
    PROVE  UnitSum(f, S, bound) = UnitSum(g, S, bound)
<1>1. ASSUME NEW p PROVE p \in Units(f, S, bound) <=> p \in Units(g, S, bound)
    <2>1. CASE p \in S \X (1..bound)
        <3>1. p[1] \in S
            BY <2>1
        <3> QED
            BY <2>1, <3>1 DEF Units
    <2>2. CASE p \notin S \X (1..bound)
        BY <2>2 DEF Units
    <2> QED
        BY <2>1, <2>2
<1>2. Units(f, S, bound) = Units(g, S, bound)
    BY <1>1
<1> QED
    BY <1>2 DEF UnitSum

\* Nothing holds nothing.
LEMMA UnitSumEmpty ==
    ASSUME NEW f, NEW bound
    PROVE  UnitSum(f, {}, bound) = 0
<1>1. Units(f, {}, bound) = {}
    BY DEF Units
<1> QED
    BY <1>1, FS_EmptySet DEF UnitSum

\* Splitting the reservations splits the sum.
LEMMA UnitSumDisjoint ==
    ASSUME NEW f, NEW S, NEW T, IsFiniteSet(S), IsFiniteSet(T), S \cap T = {},
           NEW bound \in Nat
    PROVE  UnitSum(f, S \cup T, bound) = UnitSum(f, S, bound) + UnitSum(f, T, bound)
<1>1. Units(f, S \cup T, bound) = Units(f, S, bound) \cup Units(f, T, bound)
    BY DEF Units
<1>2. Units(f, S, bound) \cap Units(f, T, bound) = {}
    <2> SUFFICES ASSUME NEW p \in Units(f, S, bound) \cap Units(f, T, bound)
                 PROVE  FALSE
        OBVIOUS
    <2>1. p[1] \in S /\ p[1] \in T
        BY DEF Units
    <2> QED
        BY <2>1
<1>3. IsFiniteSet(Units(f, S, bound)) /\ IsFiniteSet(Units(f, T, bound))
    BY UnitSumType
<1>4. Cardinality(Units(f, S \cup T, bound)) =
        Cardinality(Units(f, S, bound)) + Cardinality(Units(f, T, bound))
        - Cardinality(Units(f, S, bound) \cap Units(f, T, bound))
    BY <1>1, <1>3, FS_Union
<1>5. Cardinality(Units(f, S, bound) \cap Units(f, T, bound)) = 0
    BY <1>2, FS_EmptySet
<1>6. UnitSum(f, S, bound) \in Nat /\ UnitSum(f, T, bound) \in Nat
    BY UnitSumType
<1> QED
    BY <1>4, <1>5, <1>6 DEF UnitSum

\* One reservation alone contributes exactly its amount.
LEMMA UnitSumSingle ==
    ASSUME NEW f, NEW x, NEW bound \in Nat, f[x] \in 0..bound
    PROVE  UnitSum(f, {x}, bound) = f[x]
<1> DEFINE n == f[x]
<1> DEFINE h == [u \in 1..n |-> <<x, u>>]
<1>1. Units(f, {x}, bound) = {x} \X (1..n)
    <2>1. ASSUME NEW p \in {x} \X (1..bound), p[2] <= f[p[1]] PROVE p \in {x} \X (1..n)
        <3>1. p[1] = x /\ p[2] \in 1..bound /\ p = <<p[1], p[2]>>
            OBVIOUS
        <3>2. p[2] \in 1..n
            BY <3>1, <2>1
        <3> QED
            BY <3>1, <3>2
    <2>2. ASSUME NEW p \in {x} \X (1..n) PROVE p \in {x} \X (1..bound) /\ p[2] <= f[p[1]]
        <3>1. p[1] = x /\ p[2] \in 1..n /\ p = <<p[1], p[2]>>
            OBVIOUS
        <3> QED
            BY <3>1
    <2> QED
        BY <2>1, <2>2 DEF Units
<1>2. h \in Bijection(1..n, {x} \X (1..n))
    <2>1. h \in [1..n -> {x} \X (1..n)]
        OBVIOUS
    <2>2. \A a, b \in 1..n : h[a] = h[b] => a = b
        OBVIOUS
    <2>3. \A t \in {x} \X (1..n) : \E s \in 1..n : h[s] = t
        <3> TAKE t \in {x} \X (1..n)
        <3>1. t[1] = x /\ t[2] \in 1..n /\ t = <<t[1], t[2]>>
            OBVIOUS
        <3> QED
            BY <3>1
    <2> QED
        BY <2>1, <2>2, <2>3 DEF Bijection, Injection, Surjection, IsInjective
<1>3. IsFiniteSet(1..n) /\ Cardinality(1..n) = n
    <2>1. n \in Int /\ n >= 0 /\ 1 \in Int
        OBVIOUS
    <2>2. Cardinality(1..n) = IF 1 > n THEN 0 ELSE n - 1 + 1
        BY <2>1, FS_Interval
    <2>3. Cardinality(1..n) = n
        BY <2>1, <2>2
    <2>4. IsFiniteSet(1..n)
        BY <2>1, FS_Interval
    <2> QED
        BY <2>3, <2>4
<1>4. Cardinality({x} \X (1..n)) = n
    BY <1>2, <1>3, FS_Bijection DEF ExistsBijection
<1> QED
    BY <1>1, <1>4 DEF UnitSum

\* Taking one reservation out of a total takes out exactly its amount.
LEMMA UnitSumRemove ==
    ASSUME NEW f, NEW S, IsFiniteSet(S), NEW x \in S, NEW bound \in Nat,
           f[x] \in 0..bound
    PROVE  UnitSum(f, S, bound) = UnitSum(f, S \ {x}, bound) + f[x]
<1>1. IsFiniteSet(S \ {x}) /\ IsFiniteSet({x})
    BY FS_Difference, FS_Singleton
<1>2. S = (S \ {x}) \cup {x} /\ (S \ {x}) \cap {x} = {}
    OBVIOUS
<1>3. UnitSum(f, (S \ {x}) \cup {x}, bound)
        = UnitSum(f, S \ {x}, bound) + UnitSum(f, {x}, bound)
    BY <1>1, <1>2, UnitSumDisjoint
<1> QED
    BY <1>2, <1>3, UnitSumSingle

\* Changing one reservation's amount changes the total by the difference.
LEMMA UnitSumUpdate ==
    ASSUME NEW f, NEW g, NEW S, IsFiniteSet(S), NEW x \in S, NEW bound \in Nat,
           f[x] \in 0..bound, g[x] \in 0..bound,
           \A y \in S \ {x} : f[y] = g[y]
    PROVE  UnitSum(g, S, bound) = UnitSum(f, S, bound) - f[x] + g[x]
<1>1. UnitSum(f, S, bound) = UnitSum(f, S \ {x}, bound) + f[x]
    BY UnitSumRemove
<1>2. UnitSum(g, S, bound) = UnitSum(g, S \ {x}, bound) + g[x]
    BY UnitSumRemove
<1>3. UnitSum(f, S \ {x}, bound) = UnitSum(g, S \ {x}, bound)
    BY UnitSumCong
<1>4. IsFiniteSet(S \ {x})
    BY FS_Difference
<1>5. UnitSum(f, S \ {x}, bound) \in Nat
    BY <1>4, UnitSumType
<1> QED
    BY <1>1, <1>2, <1>3, <1>5
-----------------------------------------------------------------------------
(* The ledger: parts of its inductive invariant.                           *)

LiveSet == {r \in Reservations : status[r] \in Live}
ItemsOf(b) == [r \in Reservations |-> items[r][b]]
ChargesOf(b) == [r \in Reservations |-> Charged(r, b)]

\* A reservation has no units in a bucket its context does not select.
ItemsInScope ==
    \A r \in Reservations, b \in Buckets : ~InScope(r, b) => items[r][b] = 0

\* The part of the type invariant that does not speak of the counters.
RowsOK ==
    /\ meta \in [gen : Nat, nonce : Ledgers \cup {None}, epoch : Nat, lastNow : Nat]
    /\ status \in [Reservations -> Statuses]
    /\ row \in [Reservations -> Rows]
    /\ items \in [Reservations -> [Buckets -> 0..MaxUnits]]
    /\ settlement \in [Reservations -> Settlements]
    /\ blocked \in [Buckets -> Nat \cup {-1}]
    /\ generation \in [Ledgers -> Nat]
    /\ issued \in [Ledgers -> SUBSET Reservations]
    /\ permit \in [Ledgers -> SUBSET Reservations]
    /\ spent \in [Reservations -> Observed \cup {None}]
    /\ now \in Nat

CountersOK == held \in [Buckets -> Int] /\ consumed \in [Buckets -> Int]

IInv == RowsOK /\ CountersOK /\ ItemsInScope /\ Conservation

\* What a settlement charges is a bounded number of units.
LEMMA ChargeType ==
    ASSUME RowsOK, NEW r \in Reservations, NEW b \in Buckets, NEW o \in Settlements
    PROVE  Charge(r, b, o) \in 0..MaxUnits
<1> USE LedgerConstants
<1>1. items[r][b] \in 0..MaxUnits
    BY DEF RowsOK
<1>2. Metric[b] \in Metrics
    OBVIOUS
<1>3. CASE o = None
    BY <1>1, <1>3 DEF Charge
<1>4. CASE o # None
    <2>1. o.cost \in Observed
        BY <1>4 DEF Settlements, NoEffect, ZeroCost, Observed
    <2>2. o.cost[Metric[b]] \in 0..MaxUnits
        BY <2>1, <1>2 DEF Observed
    <2> QED
        BY <1>4, <2>2 DEF Charge
<1> QED
    BY <1>3, <1>4

\* Releasing live reservations leaves exactly the holds of the others.
LEMMA ReturnedLive ==
    ASSUME IInv, NEW S \in SUBSET LiveSet, NEW b \in Buckets
    PROVE  /\ Returned(S)[b] = Amounts(LiveSet \ S, b)
           /\ Returned(S)[b] \in Nat
<1> USE LedgerConstants
<1>1. IsFiniteSet(LiveSet) /\ IsFiniteSet(S) /\ IsFiniteSet(LiveSet \ S)
    <2>1. LiveSet \in SUBSET Reservations /\ S \in SUBSET Reservations
          /\ LiveSet \ S \in SUBSET Reservations
        BY DEF LiveSet
    <2> QED
        BY <2>1, FS_Subset
<1>2. LiveSet = S \cup (LiveSet \ S) /\ S \cap (LiveSet \ S) = {}
    OBVIOUS
<1>3. UnitSum(ItemsOf(b), S \cup (LiveSet \ S), MaxUnits)
        = UnitSum(ItemsOf(b), S, MaxUnits) + UnitSum(ItemsOf(b), LiveSet \ S, MaxUnits)
    BY <1>1, <1>2, UnitSumDisjoint
<1>4. Amounts(LiveSet, b) = Amounts(S, b) + Amounts(LiveSet \ S, b)
    BY <1>2, <1>3 DEF Amounts, ItemsOf
<1>5. Amounts(S, b) \in Nat /\ Amounts(LiveSet \ S, b) \in Nat
    BY <1>1, UnitSumType DEF Amounts
<1>6. held[b] = Amounts(LiveSet, b)
    BY DEF IInv, Conservation, LiveSet
<1> QED
    BY <1>4, <1>5, <1>6 DEF Returned

\* Initially every counter is zero and so is every sum.
LEMMA InitInv == Init => IInv
<1> SUFFICES ASSUME Init PROVE IInv
    OBVIOUS
<1> USE LedgerConstants
<1>1. RowsOK
    BY DEF Init, RowsOK, NoMeta, NoRow, Rows, Statuses, Live, Settled, Settlements
<1>2. CountersOK
    BY DEF Init, CountersOK
<1>3. ItemsInScope
    BY DEF Init, ItemsInScope
<1>4. ASSUME NEW b \in Buckets PROVE held[b] = Amounts(LiveSet, b)
    <2>1. LiveSet = {}
        BY DEF LiveSet, Init, Live
    <2> QED
        BY <2>1, UnitSumEmpty DEF Amounts, Init
<1>5. ASSUME NEW b \in Buckets
      PROVE  consumed[b] = UnitSum(ChargesOf(b), Reservations, MaxUnits)
    <2>1. ASSUME NEW p PROVE p \notin Units(ChargesOf(b), Reservations, MaxUnits)
        <3> SUFFICES ASSUME p \in Reservations \X (1..MaxUnits) PROVE ~(p[2] <= ChargesOf(b)[p[1]])
            BY DEF Units
        <3>1. p[1] \in Reservations /\ p[2] \in 1..MaxUnits
            OBVIOUS
        <3>2. ChargesOf(b)[p[1]] = 0
            BY <3>1 DEF ChargesOf, Charged, Init
        <3> QED
            BY <3>1, <3>2
    <2>2. Units(ChargesOf(b), Reservations, MaxUnits) = {}
        BY <2>1
    <2> QED
        BY <2>2, FS_EmptySet DEF UnitSum, Init
<1> QED
    BY <1>1, <1>2, <1>3, <1>4, <1>5 DEF IInv, Conservation, LiveSet, ChargesOf

\* The two halves of Conservation, as totals over the reservations.
Holds == \A b \in Buckets : held[b] = Amounts(LiveSet, b)
Charges == \A b \in Buckets : consumed[b] = UnitSum(ChargesOf(b), Reservations, MaxUnits)

\* Conservation is the conjunction of its two halves, in both states.
LEMMA ConservationParts ==
    /\ Conservation <=> Holds /\ Charges
    /\ Conservation' <=> Holds' /\ Charges'
BY DEF Conservation, Holds, Charges, LiveSet, ChargesOf

\* A step that only releases the reservations S keeps the holds exact.
LEMMA ReleaseStep ==
    ASSUME IInv, NEW S \in SUBSET LiveSet,
           held' = Returned(S), LiveSet' = LiveSet \ S, items' = items
    PROVE  Holds' /\ held' \in [Buckets -> Int]
<1>1. \A b \in Buckets : held'[b] = Amounts(LiveSet \ S, b) /\ held'[b] \in Nat
    BY ReturnedLive
<1>2. \A b \in Buckets : Amounts(LiveSet, b)' = Amounts(LiveSet \ S, b)
    BY DEF Amounts
<1>3. held' \in [Buckets -> Int]
    BY <1>1 DEF Returned
<1> QED
    BY <1>1, <1>2, <1>3 DEF Holds

\* A step that settles nothing keeps the charges exact.
LEMMA NoChargeStep ==
    ASSUME IInv, consumed' = consumed, settlement' = settlement,
           \A r \in Reservations :
              /\ status'[r] \in {"committed", "overrun"} <=> status[r] \in {"committed", "overrun"}
              /\ status[r] \in {"committed", "overrun"}
                   => items'[r] = items[r] /\ row'[r] = row[r]
    PROVE  Charges'
<1>1. ASSUME NEW b \in Buckets, NEW r \in Reservations
      PROVE  ChargesOf(b)'[r] = ChargesOf(b)[r]
    BY <1>1 DEF ChargesOf, Charged, Charge, InScope
<1>2. ASSUME NEW b \in Buckets
      PROVE  UnitSum(ChargesOf(b)', Reservations, MaxUnits)
               = UnitSum(ChargesOf(b), Reservations, MaxUnits)
    BY <1>1, UnitSumCong
<1>3. Charges
    BY ConservationParts DEF IInv
<1> QED
    BY <1>2, <1>3 DEF Charges

\* Expiry takes live reservations only.
LEMMA DueIsLive == RowsOK => Due \in SUBSET LiveSet
BY DEF Due, LiveSet, Live

\* Starting a ledger object keeps the books exact.
LEMMA StartStep ==
    ASSUME IInv, NEW l \in Ledgers, Start(l)
    PROVE  IInv'
<1> USE LedgerConstants
<1> DEFINE R == {r \in Reservations : status[r] = "reserved"}
<1>1. R \in SUBSET LiveSet
    BY DEF LiveSet, Live
<1>2. held' = Returned(R) /\ items' = items
    BY DEF Start
<1>0. status' = [r \in Reservations |->
        IF status[r] = "reserved" THEN "canceled"
        ELSE IF status[r] = "forwarding" THEN "uncertain" ELSE status[r]]
    BY Zenon DEF Start
<1>3. \A r \in Reservations :
        status'[r] = IF status[r] = "reserved" THEN "canceled"
                     ELSE IF status[r] = "forwarding" THEN "uncertain" ELSE status[r]
    BY <1>0
<1>4. LiveSet' = LiveSet \ R
    BY <1>3 DEF LiveSet, Live
<1>5. Holds' /\ held' \in [Buckets -> Int]
    BY <1>1, <1>2, <1>4, ReleaseStep
<1>6. Charges'
    BY <1>3, NoChargeStep DEF Start
<1>7. RowsOK'
    <2>1. \A r \in Reservations : status'[r] \in Statuses
        BY <1>3 DEF IInv, RowsOK, Statuses, Live
    <2>3. status' \in [Reservations -> Statuses]
        BY <1>0, <2>1
    <2>4. meta.gen + 1 \in Nat /\ Epoch[l] \in Nat /\ now \in Nat
        BY DEF IInv, RowsOK
    <2>5. meta' \in [gen : Nat, nonce : Ledgers \cup {None}, epoch : Nat, lastNow : Nat]
        BY <2>4 DEF Start
    <2>6. generation' \in [Ledgers -> Nat]
        BY <2>4 DEF Start, IInv, RowsOK
    <2> QED
        BY <2>3, <2>5, <2>6 DEF Start, IInv, RowsOK
<1>8. ItemsInScope'
    BY DEF Start, IInv, ItemsInScope, InScope
<1> QED
    BY <1>5, <1>6, <1>7, <1>8, ConservationParts DEF Start, IInv, CountersOK

\* The housekeeping of a rejected or read-only operation keeps them exact.
LEMMA HousekeepStep ==
    ASSUME IInv, NEW l \in Ledgers, Housekeep(l)
    PROVE  IInv'
<1> USE LedgerConstants
<1>1. Due \in SUBSET LiveSet
    BY DueIsLive DEF IInv
<1>2. \A r \in Reservations : status'[r] = IF r \in Due THEN "expired" ELSE status[r]
    BY DEF Housekeep, AfterExpiry
<1>3. LiveSet' = LiveSet \ Due
    BY <1>1, <1>2 DEF LiveSet, Live
<1>4. Holds' /\ held' \in [Buckets -> Int]
    BY <1>1, <1>3, ReleaseStep DEF Housekeep
<1>5. Charges'
    BY <1>2, NoChargeStep DEF Housekeep, Due
<1>6. RowsOK'
    BY DEF Housekeep, AfterExpiry, Touched, IInv, RowsOK, Statuses
<1>7. ItemsInScope'
    BY DEF Housekeep, IInv, ItemsInScope, InScope
<1> QED
    BY <1>4, <1>5, <1>6, <1>7, ConservationParts DEF Housekeep, IInv, CountersOK

\* A refused settlement changes no book.
LEMMA RefusedStep ==
    ASSUME IInv, NEW l \in Ledgers, Refused(l)
    PROVE  IInv'
<1>1. RowsOK'
    BY DEF Refused, Touched, IInv, RowsOK
<1>2. Holds' /\ Charges'
    BY ConservationParts DEF Refused, IInv, Holds, Charges, LiveSet, ChargesOf,
       Amounts, Charged, Charge, InScope
<1> QED
    BY <1>1, <1>2, ConservationParts
       DEF Refused, IInv, CountersOK, ItemsInScope, InScope

\* A new reservation adds its units to the holds of its buckets, after the
\* expired ones gave theirs back.
LEMMA ReserveStep ==
    ASSUME IInv, NEW l \in Ledgers, NEW r \in Reservations, NEW k \in Keys,
           NEW c \in Contexts, NEW cost \in Costs, NEW ack \in BOOLEAN,
           Reserve(l, r, k, c, cost, ack)
    PROVE  IInv'
<1> USE LedgerConstants
<1> DEFINE Left == LiveSet \ Due
<1>1. Due \in SUBSET LiveSet /\ r \notin LiveSet /\ r \notin Due
    BY DueIsLive DEF IInv, Reserve, LiveSet, Live, Due
<1>2. /\ \A q \in Reservations \ {r} :
           /\ status'[q] = IF q \in Due THEN "expired" ELSE status[q]
           /\ items'[q] = items[q] /\ row'[q] = row[q]
      /\ status'[r] = "reserved"
      /\ status' \in [Reservations -> Statuses]
    BY DEF Reserve, AfterExpiry, IInv, RowsOK, Statuses, Live
<1>3. LiveSet' = Left \cup {r}
    BY <1>1, <1>2 DEF LiveSet, Live
<1>4. items' \in [Reservations -> [Buckets -> 0..MaxUnits]]
    <2>1. \A b \in Buckets : cost[Metric[b]] \in 0..MaxUnits
        OBVIOUS
    <2>2. [b \in Buckets |-> IF b \in Scope[c] THEN cost[Metric[b]] ELSE 0]
            \in [Buckets -> 0..MaxUnits]
        BY <2>1
    <2> QED
        BY <2>2 DEF Reserve, IInv, RowsOK
<1>5. ASSUME NEW b \in Buckets
      PROVE  held'[b] = Amounts(LiveSet, b)' /\ held'[b] \in Int
    <2>1. IsFiniteSet(Left) /\ IsFiniteSet({r})
        <3>1. Left \in SUBSET Reservations
            BY DEF LiveSet
        <3> QED
            BY <3>1, FS_Subset, FS_Singleton
    <2>2. UnitSum(ItemsOf(b)', Left \cup {r}, MaxUnits)
            = UnitSum(ItemsOf(b)', Left, MaxUnits) + UnitSum(ItemsOf(b)', {r}, MaxUnits)
        BY <1>1, <2>1, UnitSumDisjoint
    <2>3. UnitSum(ItemsOf(b)', {r}, MaxUnits) = items'[r][b]
        <3>1. ItemsOf(b)'[r] = items'[r][b] /\ items'[r][b] \in 0..MaxUnits
            BY <1>4 DEF ItemsOf
        <3> QED
            BY <3>1, UnitSumSingle
    <2>4. UnitSum(ItemsOf(b)', Left, MaxUnits) = UnitSum(ItemsOf(b), Left, MaxUnits)
        <3>1. \A q \in Left : ItemsOf(b)'[q] = ItemsOf(b)[q]
            BY <1>1, <1>2 DEF ItemsOf, LiveSet
        <3> QED
            BY <3>1, UnitSumCong
    <2>5. Returned(Due)[b] = UnitSum(ItemsOf(b), Left, MaxUnits) /\ Returned(Due)[b] \in Nat
        BY <1>1, ReturnedLive DEF Amounts, ItemsOf
    <2>6. held'[b] = Returned(Due)[b] + items'[r][b]
        BY DEF Reserve
    <2>7. items'[r][b] \in Int
        BY <1>4
    <2> QED
        BY <1>3, <2>2, <2>3, <2>4, <2>5, <2>6, <2>7 DEF Amounts, ItemsOf
<1>6. Holds' /\ held' \in [Buckets -> Int]
    BY <1>5 DEF Holds, Reserve
<1>7. Charges'
    <2>1. status[r] \notin {"committed", "overrun"}
        BY DEF Reserve
    <2> QED
        BY <1>1, <1>2, <2>1, NoChargeStep DEF Reserve, Due
<1>8. RowsOK'
    <2>1. row' \in [Reservations -> Rows]
        BY DEF Reserve, IInv, RowsOK, Rows
    <2>2. issued' \in [Ledgers -> SUBSET Reservations]
        BY DEF Reserve, IInv, RowsOK
    <2>3. meta' \in [gen : Nat, nonce : Ledgers \cup {None}, epoch : Nat, lastNow : Nat]
        BY DEF Reserve, Touched, IInv, RowsOK
    <2> QED
        BY <1>2, <1>4, <2>1, <2>2, <2>3 DEF Reserve, IInv, RowsOK
<1>9. ItemsInScope'
    <2>1. ASSUME NEW b \in Buckets, ~InScope(r, b)' PROVE items'[r][b] = 0
        BY <2>1 DEF Reserve, InScope, IInv, RowsOK
    <2>2. ASSUME NEW q \in Reservations \ {r}, NEW b \in Buckets, ~InScope(q, b)'
          PROVE  items'[q][b] = 0
        BY <1>2, <2>2 DEF InScope, IInv, ItemsInScope
    <2> QED
        BY <2>1, <2>2 DEF ItemsInScope
<1> QED
    BY <1>6, <1>7, <1>8, <1>9, ConservationParts DEF Reserve, IInv, CountersOK

\* The permission to forward releases nothing but what expired.
LEMMA BeginForwardStep ==
    ASSUME IInv, NEW l \in Ledgers, NEW r \in Reservations, NEW ack \in BOOLEAN,
           BeginForward(l, r, ack)
    PROVE  IInv'
<1> USE LedgerConstants
<1>1. Due \in SUBSET LiveSet
    BY DueIsLive DEF IInv
<1>2. /\ \A q \in Reservations \ {r} :
            status'[q] = IF q \in Due THEN "expired" ELSE status[q]
      /\ status'[r] = "forwarding" /\ status[r] = "reserved" /\ r \notin Due
      /\ status' \in [Reservations -> Statuses]
    BY DEF BeginForward, AfterExpiry, IInv, RowsOK, Statuses, Live
<1>3. LiveSet' = LiveSet \ Due
    BY <1>1, <1>2 DEF LiveSet, Live
<1>4. Holds' /\ held' \in [Buckets -> Int]
    BY <1>1, <1>3, ReleaseStep DEF BeginForward
<1>5. Charges'
    BY <1>2, NoChargeStep DEF BeginForward, Due
<1>6. RowsOK'
    <2>1. permit' \in [Ledgers -> SUBSET Reservations]
        BY DEF BeginForward, IInv, RowsOK
    <2> QED
        BY <1>2, <2>1 DEF BeginForward, Touched, IInv, RowsOK
<1>7. ItemsInScope'
    BY DEF BeginForward, IInv, ItemsInScope, InScope
<1> QED
    BY <1>4, <1>5, <1>6, <1>7, ConservationParts DEF BeginForward, IInv, CountersOK

\* A cancellation gives back exactly the canceled reservation's units.
LEMMA CancelStep ==
    ASSUME IInv, NEW l \in Ledgers, NEW r \in Reservations, Cancel(l, r)
    PROVE  IInv'
<1> USE LedgerConstants
<1>1. {r} \in SUBSET LiveSet
    BY DEF Cancel, LiveSet, Live
<1>2. /\ \A q \in Reservations \ {r} : status'[q] = status[q]
      /\ status'[r] = "canceled" /\ status[r] = "reserved"
      /\ status' \in [Reservations -> Statuses]
    BY DEF Cancel, IInv, RowsOK, Statuses
<1>3. LiveSet' = LiveSet \ {r}
    BY <1>1, <1>2 DEF LiveSet, Live
<1>4. Holds' /\ held' \in [Buckets -> Int]
    BY <1>1, <1>3, ReleaseStep DEF Cancel
<1>5. Charges'
    BY <1>2, NoChargeStep DEF Cancel
<1>6. RowsOK'
    BY <1>2 DEF Cancel, Touched, IInv, RowsOK
<1>7. ItemsInScope'
    BY DEF Cancel, IInv, ItemsInScope, InScope
<1> QED
    BY <1>4, <1>5, <1>6, <1>7, ConservationParts DEF Cancel, IInv, CountersOK

\* A reservation in doubt keeps its units.
LEMMA UncertainStep ==
    ASSUME IInv, NEW l \in Ledgers, NEW r \in Reservations, Uncertain(l, r)
    PROVE  IInv'
<1> USE LedgerConstants
<1>1. /\ \A q \in Reservations \ {r} : status'[q] = status[q]
      /\ status'[r] = "uncertain" /\ status[r] = "forwarding"
      /\ status' \in [Reservations -> Statuses]
    BY DEF Uncertain, IInv, RowsOK, Statuses, Live
<1>2. LiveSet' = LiveSet
    BY <1>1 DEF LiveSet, Live
<1>3. Holds
    BY ConservationParts DEF IInv
<1>4. Holds' /\ held' \in [Buckets -> Int]
    BY <1>2, <1>3 DEF Uncertain, Holds, Amounts, IInv, CountersOK
<1>5. Charges'
    BY <1>1, NoChargeStep DEF Uncertain
<1>6. RowsOK'
    BY <1>1 DEF Uncertain, Touched, IInv, RowsOK
<1>7. ItemsInScope'
    BY DEF Uncertain, IInv, ItemsInScope, InScope
<1> QED
    BY <1>4, <1>5, <1>6, <1>7, ConservationParts DEF Uncertain, IInv, CountersOK

\* A settlement moves the reservation's units from held to consumed, and a
\* late one corrects what it had been charged.
LEMMA SettleStep ==
    ASSUME IInv, NEW l \in Ledgers, NEW r \in Reservations, NEW o \in Settlements,
           Settle(l, r, o), items' = items, row' = row
    PROVE  Holds' /\ Charges' /\ CountersOK' /\ ItemsInScope'
           /\ status' \in [Reservations -> Statuses]
           /\ settlement' \in [Reservations -> Settlements]
           /\ blocked' \in [Buckets -> Nat \cup {-1}]
<1> USE LedgerConstants
<1>1. /\ \A q \in Reservations \ {r} :
           status'[q] = status[q] /\ settlement'[q] = settlement[q]
      /\ status'[r] \in Settled /\ settlement'[r] = o
      /\ status' \in [Reservations -> Statuses]
      /\ settlement' \in [Reservations -> Settlements]
    BY DEF Settle, IInv, RowsOK, Statuses, Settled
<1>2. blocked' \in [Buckets -> Nat \cup {-1}]
    BY DEF Settle, IInv, RowsOK
<1>3. Holds' /\ held' \in [Buckets -> Int]
    <2>1. CASE Late(r, o)
        <3>1. LiveSet' = LiveSet
            BY <1>1, <2>1 DEF LiveSet, Live, Settled, Late
        <3>2. Holds
            BY ConservationParts DEF IInv
        <3> QED
            BY <2>1, <3>1, <3>2 DEF Settle, Holds, Amounts, IInv, CountersOK
    <2>2. CASE ~Late(r, o)
        <3>1. {r} \in SUBSET LiveSet
            BY <2>2 DEF Settle, LiveSet, Live
        <3>2. LiveSet' = LiveSet \ {r}
            BY <1>1 DEF LiveSet, Live, Settled
        <3> QED
            BY <2>2, <3>1, <3>2, ReleaseStep DEF Settle
    <2> QED
        BY <2>1, <2>2
<1>4. ASSUME NEW b \in Buckets
      PROVE  /\ consumed'[b] = UnitSum(ChargesOf(b)', Reservations, MaxUnits)
             /\ consumed'[b] \in Int
    <2>1. Charge(r, b, o) \in 0..MaxUnits /\ Charge(r, b, settlement[r]) \in 0..MaxUnits
        BY ChargeType DEF IInv, RowsOK
    <2>2. Charged(r, b) \in 0..MaxUnits /\ Charged(r, b) = Refund(r, b, o)
        <3>1. CASE Late(r, o)
            <4>1. Charged(r, b) = Charge(r, b, None)
                BY <3>1 DEF Late, Charged
            <4>2. InScope(r, b) \/ items[r][b] = 0
                BY DEF IInv, ItemsInScope
            <4> QED
                BY <2>1, <3>1, <4>1, <4>2 DEF Charge, Refund, Charged
        <3>2. CASE ~Late(r, o)
            BY <3>2 DEF Settle, Charged, Refund
        <3> QED
            BY <3>1, <3>2
    <2>3. Charged(r, b)' \in 0..MaxUnits /\ Charged(r, b)' = Charge(r, b, o)
        <3>1. Charge(r, b, settlement[r])' = Charge(r, b, o)
            BY <1>1 DEF Charge, InScope
        <3>2. CASE status'[r] # "released"
            BY <1>1, <2>1, <3>1, <3>2 DEF Charged, Settled
        <3>3. CASE status'[r] = "released"
            <4>1. o # None /\ o.outcome = "no_effect"
                BY <3>3 DEF Settle, IInv, RowsOK
            <4>2. o = NoEffect
                BY <4>1 DEF Settlements
            <4>3. Charge(r, b, o) = 0
                BY <4>1, <4>2 DEF Charge, NoEffect, ZeroCost
            <4> QED
                BY <3>3, <4>3 DEF Charged
        <3> QED
            BY <3>2, <3>3
    <2>4. UnitSum(ChargesOf(b)', Reservations, MaxUnits)
            = UnitSum(ChargesOf(b), Reservations, MaxUnits) - Charged(r, b) + Charged(r, b)'
        <3>1. \A q \in Reservations \ {r} : ChargesOf(b)[q] = ChargesOf(b)'[q]
            BY <1>1 DEF ChargesOf, Charged, Charge, InScope
        <3>2. ChargesOf(b)[r] = Charged(r, b) /\ ChargesOf(b)'[r] = Charged(r, b)'
            BY DEF ChargesOf
        <3> QED
            BY <2>2, <2>3, <3>1, <3>2, UnitSumUpdate
    <2>5. consumed[b] = UnitSum(ChargesOf(b), Reservations, MaxUnits) /\ consumed[b] \in Int
        BY ConservationParts DEF IInv, Charges, CountersOK
    <2>6. consumed'[b] = consumed[b] + Charge(r, b, o) - Refund(r, b, o)
        BY DEF Settle
    <2> QED
        BY <2>2, <2>3, <2>4, <2>5, <2>6
<1>5. Charges' /\ consumed' \in [Buckets -> Int]
    BY <1>4 DEF Charges, Settle
<1>6. ItemsInScope'
    BY DEF IInv, ItemsInScope, InScope
<1> QED
    BY <1>1, <1>2, <1>3, <1>5, <1>6 DEF CountersOK

\* Attested observations are settlements.
LEMMA AttestedType ==
    ASSUME RowsOK, NEW r \in Reservations
    PROVE  Attested(r) \subseteq Settlements
BY DEF RowsOK, Attested, Settlements

\* commit and reconcile keep the books exact.
LEMMA CommitStep ==
    ASSUME IInv, NEW l \in Ledgers, NEW r \in Reservations, NEW o \in Settlements,
           Commit(l, r, o) \/ Reconcile(l, r, o)
    PROVE  IInv'
<1>1. /\ Settle(l, r, o) /\ meta' = Touched
      /\ UNCHANGED <<row, items, generation, issued, permit, spent, now>>
    BY DEF Commit, Reconcile
<1>2. /\ Holds' /\ Charges' /\ CountersOK' /\ ItemsInScope'
      /\ status' \in [Reservations -> Statuses]
      /\ settlement' \in [Reservations -> Settlements]
      /\ blocked' \in [Buckets -> Nat \cup {-1}]
    BY <1>1, SettleStep
<1>3. meta' \in [gen : Nat, nonce : Ledgers \cup {None}, epoch : Nat, lastNow : Nat]
    BY <1>1 DEF IInv, RowsOK, Touched
<1>4. RowsOK'
    BY <1>1, <1>2, <1>3 DEF IInv, RowsOK
<1> QED
    BY <1>2, <1>4, ConservationParts DEF IInv

\* What the callers and the clock do leaves the database alone.
LEMMA CallerStep ==
    ASSUME IInv, UNCHANGED durable, RowsOK'
    PROVE  IInv'
BY DEF IInv, durable, CountersOK, ItemsInScope, InScope, Conservation, Amounts, Charged, Charge

\* Every step of the ledger keeps the invariant: one case per action.
LEMMA NextInv == IInv /\ [Next]_vars => IInv'
<1> SUFFICES ASSUME IInv, [Next]_vars PROVE IInv'
    OBVIOUS
<1> USE LedgerConstants
<1>1. CASE Tick
    <2>1. RowsOK' /\ UNCHANGED durable
        BY <1>1 DEF Tick, IInv, RowsOK, durable
    <2> QED
        BY <2>1, CallerStep
<1>2. CASE \E l \in Ledgers : Start(l)
    BY <1>2, StartStep
<1>3. CASE \E l \in Ledgers : Housekeep(l)
    BY <1>3, HousekeepStep
<1>4. CASE \E l \in Ledgers : Refused(l)
    BY <1>4, RefusedStep
<1>5. CASE \E l \in Ledgers, r \in Reservations, k \in Keys, c \in Contexts,
              cost \in Costs, ack \in BOOLEAN : Reserve(l, r, k, c, cost, ack)
    BY <1>5, ReserveStep
<1>6. CASE \E l \in Ledgers, r \in Reservations, ack \in BOOLEAN : BeginForward(l, r, ack)
    BY <1>6, BeginForwardStep
<1>7. CASE \E l \in Ledgers, r \in Reservations : Cancel(l, r)
    BY <1>7, CancelStep
<1>8. CASE \E l \in Ledgers, r \in Reservations : Uncertain(l, r)
    BY <1>8, UncertainStep
<1>9. CASE \E l \in Ledgers, r \in Reservations : \E o \in Attested(r) \cup {None} :
              Commit(l, r, o) \/ Reconcile(l, r, o)
    <2>1. PICK l \in Ledgers, r \in Reservations : \E o \in Attested(r) \cup {None} :
              Commit(l, r, o) \/ Reconcile(l, r, o)
        BY <1>9
    <2>2. PICK o \in Attested(r) \cup {None} : Commit(l, r, o) \/ Reconcile(l, r, o)
        BY <2>1
    <2>3. o \in Settlements
        BY AttestedType DEF IInv, Settlements
    <2> QED
        BY <2>2, <2>3, CommitStep
<1>10. CASE \E l \in Ledgers, r \in Reservations :
              Abandon(l, r) \/ \E cost \in Observed : Effect(l, r, cost)
    <2>1. PICK l \in Ledgers, r \in Reservations :
              Abandon(l, r) \/ \E cost \in Observed : Effect(l, r, cost)
        BY <1>10
    <2>2. UNCHANGED durable /\ UNCHANGED <<generation, issued, now>>
        BY <2>1 DEF Abandon, Effect
    <2>3. permit' \in [Ledgers -> SUBSET Reservations]
        <3>1. permit \in [Ledgers -> SUBSET Reservations]
            BY DEF IInv, RowsOK
        <3>2. permit' = [permit EXCEPT ![l] = permit[l] \ {r}]
            BY <2>1 DEF Abandon, Effect
        <3> QED
            BY <3>1, <3>2
    <2>4. spent' \in [Reservations -> Observed \cup {None}]
        <3>1. spent \in [Reservations -> Observed \cup {None}]
            BY DEF IInv, RowsOK
        <3>2. spent' = spent \/ \E cost \in Observed : spent' = [spent EXCEPT ![r] = cost]
            BY <2>1 DEF Abandon, Effect
        <3> QED
            BY <3>1, <3>2
    <2>5. RowsOK'
        BY <2>2, <2>3, <2>4 DEF IInv, RowsOK, durable
    <2> QED
        BY <2>2, <2>5, CallerStep
<1>11. CASE UNCHANGED vars
    <2>1. RowsOK' /\ UNCHANGED durable
        BY <1>11 DEF vars, durable, IInv, RowsOK
    <2> QED
        BY <2>1, CallerStep
<1> QED
    BY <1>1, <1>2, <1>3, <1>4, <1>5, <1>6, <1>7, <1>8, <1>9, <1>10, <1>11 DEF Next

\* The counters are totals of natural quantities, hence naturals themselves.
LEMMA InvImplies == IInv => TypeOK /\ Conservation
<1> SUFFICES ASSUME IInv PROVE TypeOK
    BY DEF IInv
<1> USE LedgerConstants
<1>1. IsFiniteSet(LiveSet)
    <2>1. LiveSet \in SUBSET Reservations
        BY DEF LiveSet
    <2> QED
        BY <2>1, FS_Subset
<1>2. \A b \in Buckets : held[b] \in Nat /\ consumed[b] \in Nat
    <2>1. Holds /\ Charges
        BY ConservationParts DEF IInv
    <2>2. \A b \in Buckets : Amounts(LiveSet, b) \in Nat
        BY <1>1, UnitSumType DEF Amounts
    <2>3. \A b \in Buckets : UnitSum(ChargesOf(b), Reservations, MaxUnits) \in Nat
        BY UnitSumType
    <2> QED
        BY <2>1, <2>2, <2>3 DEF Holds, Charges
<1>3. held \in [Buckets -> Nat] /\ consumed \in [Buckets -> Nat]
    BY <1>2 DEF IInv, CountersOK
<1> QED
    BY <1>3 DEF IInv, RowsOK, TypeOK

\* The ledger's state is always well formed; in particular no counter of
\* budget_buckets ever goes negative.
THEOREM TypeCorrect == Spec => []TypeOK
<1>1. Spec => []IInv
    BY InitInv, NextInv, PTL DEF Spec
<1> QED
    BY <1>1, InvImplies, PTL

\* The held and consumed counters of every bucket are exactly the totals over
\* the reservations, however processes restart, retry, expire and settle.
THEOREM BooksBalance == Spec => []Conservation
<1>1. Spec => []IInv
    BY InitInv, NextInv, PTL DEF Spec
<1> QED
    BY <1>1, InvImplies, PTL
-----------------------------------------------------------------------------
Outstanding(r) == spent[r] # None \/ \E l \in Ledgers : r \in permit[l]
Chargeable == {"forwarding", "uncertain", "committed", "overrun"}

\* A settlement of a reservation that may have had an effect charges it.
LEMMA SettleCharges ==
    ASSUME IInv, NEW l \in Ledgers, NEW r \in Reservations,
           NEW o \in Attested(r) \cup {None}, Settle(l, r, o), Outstanding(r)
    PROVE  status'[r] \in Chargeable
<1>1. o = None \/ o.outcome # "no_effect"
    BY DEF Attested, Outstanding
<1> QED
    BY <1>1 DEF Settle, Chargeable, IInv, RowsOK

\* No step refunds a reservation whose effect happened or still may.
LEMMA NextNoFree == IInv /\ NoFreeEffect /\ [Next]_vars => NoFreeEffect'
<1> SUFFICES ASSUME IInv, NoFreeEffect, [Next]_vars,
                    NEW r \in Reservations, Outstanding(r)'
             PROVE  status'[r] \in Chargeable
    BY DEF NoFreeEffect, Outstanding, Chargeable
<1>0. Outstanding(r) => status[r] \in Chargeable
    BY DEF NoFreeEffect, Outstanding, Chargeable
<1>1. ASSUME NEW l \in Ledgers, Start(l) PROVE status'[r] \in Chargeable
    <2>1. Outstanding(r)
        BY <1>1 DEF Start, Outstanding
    <2> QED
        BY <1>0, <1>1, <2>1 DEF Start, Chargeable
<1>2. ASSUME NEW l \in Ledgers, Housekeep(l) \/ Refused(l) PROVE status'[r] \in Chargeable
    <2>1. Outstanding(r)
        BY <1>2 DEF Housekeep, Refused, Outstanding
    <2> QED
        BY <1>0, <1>2, <2>1 DEF Housekeep, Refused, AfterExpiry, Due, Chargeable
<1>3. ASSUME NEW l \in Ledgers, NEW q \in Reservations, NEW k \in Keys, NEW c \in Contexts,
             NEW cost \in Costs, NEW ack \in BOOLEAN, Reserve(l, q, k, c, cost, ack)
      PROVE  status'[r] \in Chargeable
    <2>1. Outstanding(r)
        BY <1>3 DEF Reserve, Outstanding
    <2>2. r # q /\ r \notin Due
        BY <1>0, <1>3, <2>1 DEF Reserve, Due, Chargeable
    <2> QED
        BY <1>0, <1>3, <2>1, <2>2 DEF Reserve, AfterExpiry
<1>4. ASSUME NEW l \in Ledgers, NEW q \in Reservations, NEW ack \in BOOLEAN,
             BeginForward(l, q, ack)
      PROVE  status'[r] \in Chargeable
    <2>1. CASE r = q
        BY <1>4, <2>1 DEF BeginForward, AfterExpiry, Chargeable
    <2>2. CASE r # q
        <3>1. Outstanding(r)
            BY <1>4, <2>2 DEF BeginForward, Outstanding, IInv, RowsOK
        <3> QED
            BY <1>0, <1>4, <2>2, <3>1 DEF BeginForward, AfterExpiry, Due, Chargeable
    <2> QED
        BY <2>1, <2>2
<1>5. ASSUME NEW l \in Ledgers, NEW q \in Reservations, Cancel(l, q) \/ Uncertain(l, q)
      PROVE  status'[r] \in Chargeable
    <2>1. Outstanding(r)
        BY <1>5 DEF Cancel, Uncertain, Outstanding
    <2> QED
        BY <1>0, <1>5, <2>1 DEF Cancel, Uncertain, Chargeable, IInv, RowsOK
<1>6. ASSUME NEW l \in Ledgers, NEW q \in Reservations, NEW o \in Attested(q) \cup {None},
             Commit(l, q, o) \/ Reconcile(l, q, o)
      PROVE  status'[r] \in Chargeable
    <2>1. Outstanding(r) /\ Settle(l, q, o)
        BY <1>6 DEF Commit, Reconcile, Outstanding
    <2>2. CASE r = q
        BY <2>1, <2>2, SettleCharges
    <2>3. CASE r # q
        BY <1>0, <2>1, <2>3 DEF Settle, IInv, RowsOK
    <2> QED
        BY <2>2, <2>3
<1>7. ASSUME NEW l \in Ledgers, NEW q \in Reservations,
             Abandon(l, q) \/ \E cost \in Observed : Effect(l, q, cost)
      PROVE  status'[r] \in Chargeable
    <2>1. Outstanding(r)
        <3>1. CASE r = q
            BY <1>7, <3>1 DEF Abandon, Effect, Outstanding
        <3>2. CASE r # q
            BY <1>7, <3>2 DEF Abandon, Effect, Outstanding, IInv, RowsOK
        <3> QED
            BY <3>1, <3>2
    <2> QED
        BY <1>0, <1>7, <2>1 DEF Abandon, Effect, durable
<1>8. CASE Tick \/ UNCHANGED vars
    BY <1>0, <1>8 DEF Tick, vars, durable, Outstanding
<1> QED
    BY <1>1, <1>2, <1>3, <1>4, <1>5, <1>6, <1>7, <1>8 DEF Next

\* Whatever restarts, expires, is retried or is acknowledged late, a
\* reservation with an effect, or with a caller still told to run one, has its
\* units held or charged, never refunded.
THEOREM NoEffectIsFree == Spec => []NoFreeEffect
<1>1. Init => NoFreeEffect
    BY DEF Init, NoFreeEffect
<1>2. Spec => []IInv
    BY InitInv, NextInv, PTL DEF Spec
<1> QED
    BY <1>1, <1>2, NextNoFree, PTL DEF Spec
-----------------------------------------------------------------------------
ExcessOf(b) == [r \in Reservations |-> Excess(r, b)]
Overruns(b) == UnitSum(ExcessOf(b), Reservations, MaxUnits)

\* An excess is a bounded number of units, and a reservation that is not
\* overrun has none.
LEMMA ExcessType ==
    ASSUME IInv, NEW r \in Reservations, NEW b \in Buckets
    PROVE  Excess(r, b) \in 0..MaxUnits /\ Overruns(b) \in Nat
<1> USE LedgerConstants
<1>1. Charge(r, b, settlement[r]) \in 0..MaxUnits /\ items[r][b] \in 0..MaxUnits
    BY ChargeType DEF IInv, RowsOK
<1>2. Charged(r, b) \in 0..MaxUnits
    BY <1>1 DEF Charged
<1>3. Overruns(b) \in Nat
    BY UnitSumType DEF Overruns
<1> QED
    BY <1>1, <1>2, <1>3 DEF Excess

\* The books are natural numbers.
LEMMA NetParts ==
    ASSUME IInv, NEW b \in Buckets
    PROVE  /\ held[b] \in Nat /\ consumed[b] \in Nat /\ Overruns(b) \in Nat
           /\ Net(b) = held[b] + consumed[b] - Overruns(b)
           /\ Net(b) \in Int
<1> USE LedgerConstants
<1>1. held[b] \in Nat /\ consumed[b] \in Nat
    BY InvImplies DEF TypeOK
<1>2. Overruns(b) \in Nat
    BY UnitSumType DEF Overruns
<1>3. Net(b) = held[b] + consumed[b] - Overruns(b)
    BY DEF Net, Overruns, ExcessOf
<1> QED
    BY <1>1, <1>2, <1>3

\* A step that settles nothing leaves the overruns alone.
LEMMA SameOverruns ==
    ASSUME IInv, NEW b \in Buckets, settlement' = settlement,
           \A r \in Reservations :
              /\ status'[r] = "overrun" <=> status[r] = "overrun"
              /\ status[r] = "overrun" => items'[r] = items[r] /\ row'[r] = row[r]
    PROVE  Overruns(b)' = Overruns(b)
<1>1. \A r \in Reservations : ExcessOf(b)'[r] = ExcessOf(b)[r]
    BY DEF ExcessOf, Excess, Charged, Charge, InScope
<1> QED
    BY <1>1, UnitSumCong DEF Overruns

\* Releasing units never raises what a bucket owes.
LEMMA ReleaseNet ==
    ASSUME IInv, IInv', NEW S \in SUBSET LiveSet, held' = Returned(S), items' = items,
           row' = row, consumed' = consumed, settlement' = settlement,
           \A r \in Reservations : status'[r] = "overrun" <=> status[r] = "overrun",
           NEW b \in Buckets
    PROVE  Net(b)' <= Net(b)
<1> USE LedgerConstants
<1>1. Overruns(b)' = Overruns(b)
    BY SameOverruns
<1>2. S \in SUBSET Reservations
    BY DEF LiveSet
<1>3. Amounts(S, b) \in Nat
    BY <1>2, FS_Subset, UnitSumType DEF Amounts
<1>4. held'[b] = held[b] - Amounts(S, b)
    BY DEF Returned
<1>5. held[b] \in Nat /\ consumed[b] \in Nat /\ Overruns(b) \in Nat
      /\ Net(b) = held[b] + consumed[b] - Overruns(b)
    BY NetParts
<1>6. Net(b)' = held'[b] + consumed'[b] - Overruns(b)'
    BY DEF Net, Overruns, ExcessOf
<1> QED
    BY <1>1, <1>3, <1>4, <1>5, <1>6

\* A settlement owes at most what was held or charged before, once what was
\* observed beyond the reserved bound is set aside.
LEMMA SettleNet ==
    ASSUME IInv, IInv', NEW l \in Ledgers, NEW r \in Reservations, NEW o \in Settlements,
           Settle(l, r, o), items' = items, row' = row, NEW b \in Buckets
    PROVE  Net(b)' <= Net(b)
<1> USE LedgerConstants
<1>1. /\ \A q \in Reservations \ {r} :
           status'[q] = status[q] /\ settlement'[q] = settlement[q]
      /\ settlement'[r] = o
    BY DEF Settle, IInv, RowsOK
<1>2. Excess(r, b) = 0 /\ Excess(r, b)' \in 0..MaxUnits
    <2>1. status[r] # "overrun"
        BY DEF Settle, Late
    <2>2. Charge(r, b, settlement[r])' \in 0..MaxUnits /\ items'[r][b] \in 0..MaxUnits
        <3>1. Charge(r, b, settlement[r])' = Charge(r, b, o)
            BY <1>1 DEF Charge, InScope
        <3> QED
            BY <3>1, ChargeType DEF IInv, RowsOK
    <2>3. Charged(r, b)' \in 0..MaxUnits
        BY <2>2 DEF Charged
    <2> QED
        BY <2>1, <2>2, <2>3 DEF Excess
<1>3. Overruns(b)' = Overruns(b) + Excess(r, b)'
    <2>1. \A q \in Reservations \ {r} : ExcessOf(b)[q] = ExcessOf(b)'[q]
        BY <1>1 DEF ExcessOf, Excess, Charged, Charge, InScope
    <2>2. ExcessOf(b)[r] = 0 /\ ExcessOf(b)'[r] = Excess(r, b)' /\ 0 \in 0..MaxUnits
        BY <1>2 DEF ExcessOf
    <2>3. UnitSum(ExcessOf(b)', Reservations, MaxUnits)
            = UnitSum(ExcessOf(b), Reservations, MaxUnits) - ExcessOf(b)[r] + ExcessOf(b)'[r]
        <3>1. ExcessOf(b)[r] \in 0..MaxUnits /\ ExcessOf(b)'[r] \in 0..MaxUnits
            BY <1>2, <2>2
        <3> QED
            BY <2>1, <3>1, UnitSumUpdate
    <2>4. Overruns(b) \in Nat
        BY NetParts
    <2> QED
        BY <1>2, <2>2, <2>3, <2>4 DEF Overruns
<1>4. Charge(r, b, o) \in 0..MaxUnits /\ items[r][b] \in 0..MaxUnits
    BY ChargeType DEF IInv, RowsOK
<1>5. Charge(r, b, o) - Excess(r, b)' <= items[r][b]
    <2>1. CASE Charge(r, b, o) <= items[r][b]
        BY <1>2, <1>4, <2>1
    <2>2. CASE ~(Charge(r, b, o) <= items[r][b])
        <3>1. o # None /\ Exceeds(r, b, o) /\ Charge(r, b, o) = o.cost[Metric[b]]
            BY <1>4, <2>2 DEF Charge, Exceeds
        <3>2. o.outcome # "no_effect"
            BY <1>4, <2>2, <3>1 DEF Settlements, NoEffect, ZeroCost
        <3>3. status'[r] = "overrun"
            BY <3>1, <3>2 DEF Settle, IInv, RowsOK
        <3>4. Charged(r, b)' = Charge(r, b, o)
            BY <1>1, <3>3 DEF Charged, Charge, InScope
        <3>5. Excess(r, b)' = Charge(r, b, o) - items[r][b]
            BY <1>4, <2>2, <3>3, <3>4 DEF Excess
        <3> QED
            BY <1>4, <3>5
    <2> QED
        BY <2>1, <2>2
<1>6. consumed'[b] = consumed[b] + Charge(r, b, o) - Refund(r, b, o)
    BY DEF Settle
<1>7. held'[b] - Refund(r, b, o) + Charge(r, b, o) - Excess(r, b)' <= held[b]
    <2>1. CASE Late(r, o)
        <3>1. held'[b] = held[b] /\ held[b] \in Nat
            BY <2>1, NetParts DEF Settle
        <3>2. CASE Metric[b] # Concurrency
            BY <1>2, <1>4, <1>5, <2>1, <3>1, <3>2 DEF Refund
        <3>3. CASE Metric[b] = Concurrency
            BY <1>2, <2>1, <3>1, <3>3 DEF Refund, Charge
        <3> QED
            BY <3>2, <3>3
    <2>2. CASE ~Late(r, o)
        <3>1. held'[b] = held[b] - Amounts({r}, b)
            BY <2>2 DEF Settle, Returned
        <3>2. Amounts({r}, b) = items[r][b]
            BY <1>4, UnitSumSingle DEF Amounts
        <3>3. held[b] \in Nat /\ Refund(r, b, o) = 0
            BY <2>2, NetParts DEF Refund
        <3> QED
            BY <1>2, <1>4, <1>5, <3>1, <3>2, <3>3
    <2> QED
        BY <2>1, <2>2
<1>8. held[b] \in Nat /\ consumed[b] \in Nat /\ Overruns(b) \in Nat
      /\ Net(b) = held[b] + consumed[b] - Overruns(b) /\ Refund(r, b, o) \in Int
    BY <1>4, NetParts DEF Refund
<1>9. Net(b)' = held'[b] + consumed'[b] - Overruns(b)'
    BY DEF Net, Overruns, ExcessOf
<1>10. held'[b] \in Int
    BY DEF IInv, CountersOK
<1> QED
    BY <1>2, <1>3, <1>4, <1>6, <1>7, <1>8, <1>9, <1>10

\* No step lifts what a bucket owes above the limit it was admitted under.
LEMMA NextWithinLimit == IInv /\ IInv' /\ WithinLimit /\ [Next]_vars => WithinLimit'
<1> SUFFICES ASSUME IInv, IInv', WithinLimit, [Next]_vars PROVE WithinLimit'
    OBVIOUS
<1> USE LedgerConstants
<1>0. ASSUME \A b \in Buckets : Net(b)' <= Net(b),
             \A l \in Ledgers : generation[l] # 0 => generation'[l] # 0
      PROVE  WithinLimit'
    <2> SUFFICES ASSUME NEW b \in Buckets
                 PROVE  Net(b)' <= 0
                        \/ \E l \in Ledgers : generation'[l] # 0 /\ Net(b)' <= Maximum[l][b]
        BY DEF WithinLimit
    <2>1. Net(b) \in Int /\ Net(b)' \in Int
        <3>1. Net(b) \in Int
            BY NetParts
        <3>2. held'[b] \in Int /\ consumed'[b] \in Int
            BY DEF IInv, CountersOK
        <3>3. Overruns(b)' \in Nat
            BY UnitSumType DEF Overruns
        <3>4. Net(b)' = held'[b] + consumed'[b] - Overruns(b)'
            BY DEF Net, Overruns, ExcessOf
        <3> QED
            BY <3>1, <3>2, <3>3, <3>4
    <2>2. Net(b)' <= Net(b)
        BY <1>0
    <2>3. \A l \in Ledgers : Maximum[l][b] \in Int
        OBVIOUS
    <2> QED
        BY <1>0, <2>1, <2>2, <2>3 DEF WithinLimit
<1>1. ASSUME NEW l \in Ledgers, Start(l) PROVE WithinLimit'
    <2> DEFINE R == {r \in Reservations : status[r] = "reserved"}
    <2>1. R \in SUBSET LiveSet
        BY DEF LiveSet, Live
    <2>2. \A r \in Reservations : status'[r] = "overrun" <=> status[r] = "overrun"
        BY <1>1 DEF Start
    <2>3. \A b \in Buckets : Net(b)' <= Net(b)
        BY <1>1, <2>1, <2>2, ReleaseNet DEF Start
    <2>4. \A k \in Ledgers : generation[k] # 0 => generation'[k] # 0
        BY <1>1 DEF Start, IInv, RowsOK
    <2> QED
        BY <1>0, <2>3, <2>4
<1>2. ASSUME NEW l \in Ledgers, Housekeep(l) PROVE WithinLimit'
    <2>1. Due \in SUBSET LiveSet
        BY DueIsLive DEF IInv
    <2>2. \A r \in Reservations : status'[r] = "overrun" <=> status[r] = "overrun"
        BY <1>2 DEF Housekeep, AfterExpiry, Due
    <2>3. \A b \in Buckets : Net(b)' <= Net(b)
        BY <1>2, <2>1, <2>2, ReleaseNet DEF Housekeep
    <2> QED
        BY <1>0, <1>2, <2>3 DEF Housekeep
<1>3. ASSUME NEW l \in Ledgers, NEW r \in Reservations, NEW k \in Keys, NEW c \in Contexts,
             NEW cost \in Costs, NEW ack \in BOOLEAN, Reserve(l, r, k, c, cost, ack)
      PROVE  WithinLimit'
    <2> SUFFICES ASSUME NEW b \in Buckets
                 PROVE  Net(b)' <= 0
                        \/ \E m \in Ledgers : generation'[m] # 0 /\ Net(b)' <= Maximum[m][b]
        BY DEF WithinLimit
    <2>1. Due \in SUBSET LiveSet
        BY DueIsLive DEF IInv
    <2>2. Overruns(b)' = Overruns(b) /\ Overruns(b) \in Nat
        <3>1. \A q \in Reservations :
                /\ status'[q] = "overrun" <=> status[q] = "overrun"
                /\ status[q] = "overrun" => items'[q] = items[q] /\ row'[q] = row[q]
            BY <1>3 DEF Reserve, AfterExpiry, Due, IInv, RowsOK
        <3> QED
            BY <1>3, <3>1, SameOverruns, NetParts DEF Reserve
    <2>3. held'[b] = Returned(Due)[b] + items'[r][b] /\ consumed' = consumed
        BY <1>3 DEF Reserve
    <2>4. Returned(Due)[b] \in Nat /\ Returned(Due)[b] = held[b] - Amounts(Due, b)
        BY <2>1, ReturnedLive DEF Returned
    <2>5. Net(b)' = held'[b] + consumed'[b] - Overruns(b)'
        BY DEF Net, Overruns, ExcessOf
    <2>6. held[b] \in Nat /\ consumed[b] \in Nat /\ Net(b) = held[b] + consumed[b] - Overruns(b)
        BY NetParts
    <2>7. CASE b \in Scope[c]
        <3>1. Fits(l, b, cost[Metric[b]]) /\ items'[r][b] = cost[Metric[b]] /\ generation'[l] # 0
            BY <1>3, <2>7 DEF Reserve, Current, IInv, RowsOK
        <3>2. cost[Metric[b]] \in Nat /\ Maximum[l][b] \in Nat
            OBVIOUS
        <3>3. Net(b)' <= Maximum[l][b]
            BY <2>2, <2>3, <2>4, <2>5, <2>6, <3>1, <3>2 DEF Fits
        <3> QED
            BY <3>1, <3>3
    <2>8. CASE b \notin Scope[c]
        <3>1. items'[r][b] = 0
            BY <1>3, <2>8 DEF Reserve, IInv, RowsOK
        <3>2. Amounts(Due, b) \in Nat
            <4>1. Due \in SUBSET Reservations
                BY DEF Due
            <4> QED
                BY <4>1, FS_Subset, UnitSumType DEF Amounts
        <3>3. Net(b)' <= Net(b) /\ Net(b)' \in Int /\ Net(b) \in Int
            BY <2>2, <2>3, <2>4, <2>5, <2>6, <3>1, <3>2
        <3>4. \A m \in Ledgers : Maximum[m][b] \in Int
            OBVIOUS
        <3>5. generation' = generation
            BY <1>3 DEF Reserve
        <3> QED
            BY <3>3, <3>4, <3>5 DEF WithinLimit
    <2> QED
        BY <2>7, <2>8
<1>4. ASSUME NEW l \in Ledgers, NEW r \in Reservations, NEW ack \in BOOLEAN,
             BeginForward(l, r, ack)
      PROVE  WithinLimit'
    <2>1. Due \in SUBSET LiveSet
        BY DueIsLive DEF IInv
    <2>2. \A q \in Reservations : status'[q] = "overrun" <=> status[q] = "overrun"
        BY <1>4 DEF BeginForward, AfterExpiry, Due
    <2>3. \A b \in Buckets : Net(b)' <= Net(b)
        BY <1>4, <2>1, <2>2, ReleaseNet DEF BeginForward
    <2> QED
        BY <1>0, <1>4, <2>3 DEF BeginForward
<1>5. ASSUME NEW l \in Ledgers, NEW r \in Reservations, Cancel(l, r) PROVE WithinLimit'
    <2>1. {r} \in SUBSET LiveSet
        BY <1>5 DEF Cancel, LiveSet, Live
    <2>2. \A q \in Reservations : status'[q] = "overrun" <=> status[q] = "overrun"
        BY <1>5 DEF Cancel, IInv, RowsOK
    <2>3. \A b \in Buckets : Net(b)' <= Net(b)
        BY <1>5, <2>1, <2>2, ReleaseNet DEF Cancel
    <2> QED
        BY <1>0, <1>5, <2>3 DEF Cancel
<1>6. ASSUME NEW l \in Ledgers, NEW r \in Reservations, NEW o \in Settlements,
             Commit(l, r, o) \/ Reconcile(l, r, o)
      PROVE  WithinLimit'
    <2>1. Settle(l, r, o) /\ items' = items /\ row' = row /\ generation' = generation
        BY <1>6 DEF Commit, Reconcile
    <2>2. \A b \in Buckets : Net(b)' <= Net(b)
        BY <2>1, SettleNet
    <2> QED
        BY <1>0, <2>1, <2>2
<1>7. ASSUME held' = held, consumed' = consumed, settlement' = settlement, items' = items,
             row' = row, generation' = generation,
             \A r \in Reservations : status'[r] = "overrun" <=> status[r] = "overrun"
      PROVE  WithinLimit'
    <2>1. ASSUME NEW b \in Buckets PROVE Net(b)' = Net(b) /\ Net(b) \in Int
        <3>1. Overruns(b)' = Overruns(b)
            BY <1>7, SameOverruns
        <3> QED
            BY <1>7, <3>1, NetParts DEF Net, Overruns, ExcessOf
    <2> QED
        BY <1>7, <2>1 DEF WithinLimit
<1>8. CASE \E l \in Ledgers : Refused(l) \/ \E r \in Reservations :
              Uncertain(l, r) \/ Abandon(l, r) \/ \E cost \in Observed : Effect(l, r, cost)
    BY <1>7, <1>8 DEF Refused, Uncertain, Abandon, Effect, durable, IInv, RowsOK
<1>9. CASE Tick \/ UNCHANGED vars
    BY <1>7, <1>9 DEF Tick, vars, durable
<1>10. \A r \in Reservations : Attested(r) \cup {None} \subseteq Settlements
    BY AttestedType DEF IInv, Settlements
<1> QED
    BY <1>1, <1>2, <1>3, <1>4, <1>5, <1>6, <1>8, <1>9, <1>10 DEF Next

\* For every policy, every number of processes and every interleaving, the
\* units a bucket owes (apart from observed overruns) stay within the limit
\* of a policy that was in force.
THEOREM NeverOvercommitted == Spec => []WithinLimit
<1>1. Init => WithinLimit
    <2> SUFFICES ASSUME Init, NEW b \in Buckets PROVE Net(b) <= 0
        BY DEF WithinLimit
    <2>1. held[b] = 0 /\ consumed[b] = 0
        BY DEF Init
    <2>2. Overruns(b) \in Nat /\ Net(b) = held[b] + consumed[b] - Overruns(b)
        BY InitInv, NetParts
    <2> QED
        BY <2>1, <2>2
<1>2. Spec => []IInv
    BY InitInv, NextInv, PTL DEF Spec
<1> QED
    BY <1>1, <1>2, NextWithinLimit, PTL DEF Spec
-----------------------------------------------------------------------------
(* New rows.                                                               *)

\* Only reserve creates a row: every other step leaves rows and items as they
\* are, and the reservations that exist.
OldRows ==
    /\ row' = row /\ items' = items
    /\ \A r \in Reservations : status[r] = "none" <=> status'[r] = "none"

LEMMA RowStep ==
    ASSUME IInv, [Next]_vars
    PROVE  \/ OldRows
           \/ \E l \in Ledgers, r \in Reservations, k \in Keys, c \in Contexts, cost \in Costs,
                 ack \in BOOLEAN : Reserve(l, r, k, c, cost, ack)
<1> USE DEF OldRows
<1>1. ASSUME NEW l \in Ledgers, Start(l) PROVE OldRows
    BY <1>1 DEF Start
<1>2. ASSUME NEW l \in Ledgers, Housekeep(l) \/ Refused(l) PROVE OldRows
    BY <1>2 DEF Housekeep, Refused, AfterExpiry, Due
<1>3. ASSUME NEW l \in Ledgers, NEW q \in Reservations, NEW ack \in BOOLEAN,
             BeginForward(l, q, ack)
      PROVE  OldRows
    BY <1>3 DEF BeginForward, AfterExpiry, Due
<1>4. ASSUME NEW l \in Ledgers, NEW q \in Reservations, Cancel(l, q) \/ Uncertain(l, q)
      PROVE  OldRows
    BY <1>4 DEF Cancel, Uncertain, IInv, RowsOK
<1>5. ASSUME NEW l \in Ledgers, NEW q \in Reservations, NEW o,
             Commit(l, q, o) \/ Reconcile(l, q, o)
      PROVE  OldRows
    <2>1. row' = row /\ items' = items /\ Settle(l, q, o)
        BY <1>5 DEF Commit, Reconcile
    <2>2. status[q] # "none" /\ status'[q] # "none"
        BY <2>1 DEF Settle, Late, IInv, RowsOK
    <2>3. \A r \in Reservations : r # q => status'[r] = status[r]
        BY <2>1 DEF Settle, IInv, RowsOK
    <2> QED
        BY <2>1, <2>2, <2>3
<1>6. ASSUME NEW l \in Ledgers, NEW q \in Reservations,
             Abandon(l, q) \/ \E cost \in Observed : Effect(l, q, cost)
      PROVE  OldRows
    BY <1>6 DEF Abandon, Effect, durable
<1>7. CASE Tick \/ UNCHANGED vars
    BY <1>7 DEF Tick, vars, durable
<1> QED
    BY <1>1, <1>2, <1>3, <1>4, <1>5, <1>6, <1>7 DEF Next

\* What reserve writes, whatever it expires on the way.
LEMMA NewRow ==
    ASSUME IInv, NEW l \in Ledgers, NEW r \in Reservations, NEW k \in Keys, NEW c \in Contexts,
           NEW cost \in Costs, NEW ack \in BOOLEAN, Reserve(l, r, k, c, cost, ack)
    PROVE  /\ status[r] = "none" /\ row'[r].key = k
           /\ \A q \in Reservations \ {r} :
                 row'[q] = row[q] /\ (status[q] = "none" <=> status'[q] = "none")
<1>1. status[r] = "none"
    BY DEF Reserve
<1>2. row'[r].key = k /\ \A q \in Reservations \ {r} : row'[q] = row[q]
    BY DEF Reserve, IInv, RowsOK
<1>3. \A q \in Reservations \ {r} : status'[q] = AfterExpiry[q]
    BY DEF Reserve, AfterExpiry
<1>4. \A q \in Reservations : status[q] = "none" <=> AfterExpiry[q] = "none"
    BY DEF AfterExpiry, Due
<1> QED
    BY <1>1, <1>2, <1>3, <1>4

LEMMA NextOneKey == IInv /\ OneReservationPerKey /\ [Next]_vars => OneReservationPerKey'
<1> SUFFICES ASSUME IInv, OneReservationPerKey, [Next]_vars PROVE OneReservationPerKey'
    OBVIOUS
<1>1. CASE OldRows
    BY <1>1 DEF OldRows, OneReservationPerKey
<1>2. ASSUME NEW l \in Ledgers, NEW r \in Reservations, NEW k \in Keys, NEW c \in Contexts,
             NEW cost \in Costs, NEW ack \in BOOLEAN, Reserve(l, r, k, c, cost, ack)
      PROVE  OneReservationPerKey'
    <2>1. /\ status[r] = "none" /\ row'[r].key = k
          /\ \A q \in Reservations \ {r} :
                row'[q] = row[q] /\ (status[q] = "none" <=> status'[q] = "none")
        BY <1>2, NewRow
    <2>2. \A q \in Reservations : status[q] # "none" => row[q].key # k
        BY <1>2 DEF Reserve, FreshKey
    <2> QED
        BY <2>1, <2>2 DEF OneReservationPerKey
<1> QED
    BY <1>1, <1>2, RowStep

\* However often and in whichever process reserve is retried, and whatever has
\* become of the first reservation, a key names one reservation for ever.
THEOREM KeysAreIdempotent == Spec => []OneReservationPerKey
<1>1. Init => OneReservationPerKey
    BY DEF Init, OneReservationPerKey
<1>2. Spec => []IInv
    BY InitInv, NextInv, PTL DEF Spec
<1> QED
    BY <1>1, <1>2, NextOneKey, PTL DEF Spec

\* The epoch of the meta row is that of the ledger object that wrote it, so a
\* ledger that may act judges blocked buckets by the epoch on disk.
EpochIsCurrent == meta.nonce # None => meta.epoch = Epoch[meta.nonce]

LEMMA NextEpoch == IInv /\ EpochIsCurrent /\ [Next]_vars => EpochIsCurrent'
<1> SUFFICES ASSUME IInv, EpochIsCurrent, [Next]_vars PROVE EpochIsCurrent'
    OBVIOUS
<1>1. ASSUME NEW l \in Ledgers, Start(l) PROVE EpochIsCurrent'
    BY <1>1 DEF Start, EpochIsCurrent
<1>2. CASE meta' = Touched \/ meta' = meta
    BY <1>2 DEF Touched, EpochIsCurrent, IInv, RowsOK
<1>3. ASSUME NEW l \in Ledgers, Housekeep(l) \/ Refused(l) PROVE meta' = Touched
    BY <1>3 DEF Housekeep, Refused
<1>4. ASSUME NEW l \in Ledgers, NEW r \in Reservations, NEW k, NEW c, NEW cost, NEW ack,
             Reserve(l, r, k, c, cost, ack) \/ BeginForward(l, r, ack)
      PROVE  meta' = Touched
    BY <1>4 DEF Reserve, BeginForward
<1>5. ASSUME NEW l \in Ledgers, NEW r \in Reservations, NEW o,
             Cancel(l, r) \/ Uncertain(l, r) \/ Commit(l, r, o) \/ Reconcile(l, r, o)
      PROVE  meta' = Touched
    BY <1>5 DEF Cancel, Uncertain, Commit, Reconcile
<1>6. ASSUME NEW l \in Ledgers, NEW r \in Reservations, NEW cost,
             Effect(l, r, cost) \/ Abandon(l, r)
      PROVE  meta' = meta
    BY <1>6 DEF Effect, Abandon, durable
<1>7. CASE Tick \/ UNCHANGED vars
    BY <1>2, <1>7 DEF Tick, vars, durable
<1> QED
    BY <1>1, <1>2, <1>3, <1>4, <1>5, <1>6, <1>7 DEF Next

\* After an overrun was observed, no process reserves in the bucket until one
\* with a newer policy epoch has started, restarts and retries included.
THEOREM OverrunsBlock == Spec => OverrunStopsBucket
<1>1. Init => EpochIsCurrent
    BY DEF Init, EpochIsCurrent, NoMeta
<1>2. Spec => []IInv
    BY InitInv, NextInv, PTL DEF Spec
<1>3. IInv /\ EpochIsCurrent /\ [Next]_vars =>
        [\A r \in Reservations, b \in Buckets :
            (status[r] = "none" /\ status'[r] # "none" /\ blocked[b] >= meta.epoch)
                => items'[r][b] = 0]_vars
    <2> SUFFICES ASSUME IInv, EpochIsCurrent, [Next]_vars, NEW r \in Reservations,
                        NEW b \in Buckets, status[r] = "none", status'[r] # "none",
                        blocked[b] >= meta.epoch
                 PROVE  items'[r][b] = 0
        OBVIOUS
    <2>1. ~OldRows
        BY DEF OldRows
    <2>2. PICK l \in Ledgers, q \in Reservations, k \in Keys, c \in Contexts, cost \in Costs,
               ack \in BOOLEAN : Reserve(l, q, k, c, cost, ack)
        BY <2>1, RowStep
    <2>3. q = r
        BY <2>2, NewRow
    <2>4. meta.epoch = Epoch[l]
        BY <2>2, LedgerConstants DEF Reserve, Current, EpochIsCurrent
    <2>5. b \notin Scope[c]
        <3>1. blocked[b] \in Int /\ Epoch[l] \in Int
            BY LedgerConstants DEF IInv, RowsOK
        <3> QED
            BY <2>2, <2>4, <3>1 DEF Reserve, Unblocked
    <2> QED
        BY <2>2, <2>3, <2>5 DEF Reserve, IInv, RowsOK
<1> QED
    BY <1>1, <1>2, <1>3, NextEpoch, PTL DEF Spec, OverrunStopsBucket
=============================================================================
