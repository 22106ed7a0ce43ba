---------------------------- MODULE BudgetLedger ----------------------------
(***************************************************************************)
(* The durable budget ledger of ordin/swarm/budgets.py over the            *)
(* transactional store of ordin/swarm/budget_store.py.                     *)
(*                                                                         *)
(* Several BudgetLedger objects (one per process start) share one          *)
(* database.  Every operation is one BEGIN IMMEDIATE transaction, so it is *)
(* one action here; what lives in process memory (the issued tickets) and  *)
(* what the caller does with a permission to forward are separate steps.   *)
(* A rejected operation still commits its housekeeping, and a commit whose *)
(* acknowledgement is lost leaves the durable change without the local one.*)
(***************************************************************************)
EXTENDS UnitSums

CONSTANTS
    Ledgers,       \* BudgetLedger objects, each constructed at most once
    Reservations,  \* reservation ids
    Keys,          \* digests of tenant and idempotency key
    Contexts,      \* protected contexts (agent identities with their action)
    Buckets,       \* accounting buckets: a scope's subject and a metric
    Metrics,       \* the metrics of budgets.METRICS that the policy limits
    Concurrency,   \* the metric "concurrency", which is never consumed
    Metric,        \* [Buckets -> Metrics]
    Scope,         \* [Contexts -> SUBSET Buckets]: _select_budget_buckets
    Epoch,         \* [Ledgers -> Nat]: policy epoch a ledger is built with
    Maximum,       \* [Ledgers -> [Buckets -> Nat]]: its policy's limits
    Costs,         \* resolved costs callers declare, subset of [Metrics -> Nat]
    MaxUnits,      \* budgets.MAX_UNITS
    Lifetime,      \* policy.reservation_lifetime
    MaxReservations, \* policy.max_reservations
    MaxTime,       \* bound of the model's clock
    None

ASSUME LedgerConstants ==
    /\ IsFiniteSet(Reservations)
    /\ MaxUnits \in Nat
    /\ Metric \in [Buckets -> Metrics]
    /\ Scope \in [Contexts -> SUBSET Buckets]
    /\ Epoch \in [Ledgers -> Nat]
    /\ Maximum \in [Ledgers -> [Buckets -> Nat]]
    /\ Costs \subseteq [Metrics -> 0..MaxUnits]
    /\ Lifetime \in Nat /\ MaxReservations \in Nat /\ MaxTime \in Nat
    /\ None \notin Ledgers /\ None \notin [Metrics -> 0..MaxUnits]
    /\ None \notin Keys /\ None \notin Contexts

VARIABLES
    meta,        \* the budget_meta row: generation, nonce, epoch, last_now
    status,      \* budget_reservations.status
    row,         \* the reservation's immutable columns
    items,       \* budget_items: units held per bucket
    settlement,  \* the settled observation (its digest in the code)
    held, consumed, blocked,   \* budget_buckets
    generation,  \* self._generation of each ledger object, 0 before __init__
    issued,      \* self._issued: live tickets of each ledger object
    permit,      \* reservations whose caller was told to forward and has not
    spent,       \* what the effect of a reservation really cost
    now          \* the host's clock

durable == <<meta, status, row, items, settlement, held, consumed, blocked>>
vars == <<durable, generation, issued, permit, spent, now>>

Live == {"reserved", "forwarding", "uncertain"}
Settled == {"committed", "released", "overrun"}
Statuses == Live \cup Settled \cup {"none", "canceled", "expired"}
NoRow == [key |-> None, context |-> None, cost |-> None, gen |-> 0, expires |-> 0]
Rows == [key : Keys \cup {None}, context : Contexts \cup {None},
         cost : Costs \cup {None}, gen : Nat, expires : Nat]
Observed == [Metrics -> 0..MaxUnits]
NoMeta == [gen |-> 0, nonce |-> None, epoch |-> 0, lastNow |-> 0]
ZeroCost == [m \in Metrics |-> 0]

Init ==
    /\ meta = NoMeta
    /\ status = [r \in Reservations |-> "none"]
    /\ row = [r \in Reservations |-> NoRow]
    /\ items = [r \in Reservations |-> [b \in Buckets |-> 0]]
    /\ settlement = [r \in Reservations |-> None]
    /\ held = [b \in Buckets |-> 0]
    /\ consumed = [b \in Buckets |-> 0]
    /\ blocked = [b \in Buckets |-> -1]
    /\ generation = [l \in Ledgers |-> 0]
    /\ issued = [l \in Ledgers |-> {}]
    /\ permit = [l \in Ledgers |-> {}]
    /\ spent = [r \in Reservations |-> None]
    /\ now = 0
-----------------------------------------------------------------------------
(* Helpers shared by the operations.                                       *)

\* The units bucket b holds for the reservations of S.
Amounts(S, b) == UnitSum([r \in Reservations |-> items[r][b]], S, MaxUnits)

\* _release for every reservation of S: give back the holds.
Returned(S) == [b \in Buckets |-> held[b] - Amounts(S, b)]

\* _meta: only the newest ledger object acts, and never on an older clock.
Current(l) ==
    /\ generation[l] # 0
    /\ meta.gen = generation[l]
    /\ meta.nonce = l
    /\ now >= meta.lastNow

Touched == [meta EXCEPT !.lastNow = now]

\* Mutant of Due: expiry also takes reservations already being forwarded.
DueForwarding == {r \in Reservations :
    status[r] \in {"reserved", "forwarding"} /\ row[r].expires <= now}

\* _expire: reserved rows whose lifetime has passed.
Due == {r \in Reservations : status[r] = "reserved" /\ row[r].expires <= now}
AfterExpiry == [r \in Reservations |-> IF r \in Due THEN "expired" ELSE status[r]]

\* _ticket: the caller holds the original ticket of this generation.
Ticket(l, r) == r \in issued[l] /\ status[r] # "none" /\ row[r].gen = generation[l]
-----------------------------------------------------------------------------
(* Operations.                                                             *)

\* __init__: fence every older ledger object, release what was never handed
\* to an executor, and put what may have been executed in doubt.
Start(l) ==
    /\ generation[l] = 0
    /\ \/ meta.nonce = None
       \/ /\ now >= meta.lastNow
          /\ \/ Epoch[l] > meta.epoch
             \/ Epoch[l] = meta.epoch /\ Maximum[l] = Maximum[meta.nonce]
    /\ LET Reserved == {r \in Reservations : status[r] = "reserved"}
       IN  /\ held' = Returned(Reserved)
           /\ status' = [r \in Reservations |->
                  IF status[r] = "reserved" THEN "canceled"
                  ELSE IF status[r] = "forwarding" THEN "uncertain" ELSE status[r]]
    /\ meta' = [gen |-> meta.gen + 1, nonce |-> l, epoch |-> Epoch[l], lastNow |-> now]
    /\ generation' = [generation EXCEPT ![l] = meta.gen + 1]
    /\ UNCHANGED <<row, items, settlement, consumed, blocked, issued, permit, spent, now>>

\* The housekeeping of expire, report, reservation_status and audit, which a
\* rejected reserve or begin_forward and an idempotent retry commit as well.
Housekeep(l) ==
    /\ Current(l)
    /\ meta' = Touched
    /\ status' = AfterExpiry
    /\ held' = Returned(Due)
    /\ UNCHANGED <<row, items, settlement, consumed, blocked,
                   generation, issued, permit, spent, now>>

\* A rejected cancel, uncertain, commit or reconcile commits only last_now.
Refused(l) ==
    /\ Current(l)
    /\ meta' = Touched
    /\ UNCHANGED <<status, row, items, settlement, held, consumed, blocked,
                   generation, issued, permit, spent, now>>

\* Mutant of FreshKey: a key is free again once its reservation has ended.
FreshKeyOfLive(k) == \A q \in Reservations : status[q] \in Live => row[q].key # k

\* The idempotency key names no earlier reservation, whatever became of it.
FreshKey(k) == \A q \in Reservations : status[q] # "none" => row[q].key # k

\* Mutant of Unblocked: the comparison with the policy epoch is off by one.
UnblockedSameEpoch(l, b) == blocked[b] <= Epoch[l]

\* No overrun was observed in bucket b under this policy epoch or a later one.
Unblocked(l, b) == blocked[b] < Epoch[l]

\* Mutant of Fits: units held by reservations in flight are not counted.
FitsConsumedOnly(l, b, amount) == consumed[b] + amount <= Maximum[l][b]

Fits(l, b, amount) == Returned(Due)[b] + consumed[b] + amount <= Maximum[l][b]

\* reserve: after expiry, every selected bucket must be unblocked and have
\* room for the declared cost; the ticket is published only once the commit
\* is acknowledged.
Reserve(l, r, k, c, cost, ack) ==
    /\ Current(l)
    /\ status[r] = "none"
    /\ FreshKey(k)
    /\ Cardinality({q \in Reservations : status[q] # "none"}) < MaxReservations
    /\ Scope[c] # {}
    /\ \A b \in Scope[c] : Unblocked(l, b) /\ Fits(l, b, cost[Metric[b]])
    /\ meta' = Touched
    /\ status' = [AfterExpiry EXCEPT ![r] = "reserved"]
    /\ row' = [row EXCEPT ![r] = [key |-> k, context |-> c, cost |-> cost,
                  gen |-> generation[l], expires |-> now + Lifetime]]
    /\ items' = [items EXCEPT ![r] =
                  [b \in Buckets |-> IF b \in Scope[c] THEN cost[Metric[b]] ELSE 0]]
    /\ held' = [b \in Buckets |-> Returned(Due)[b] + items'[r][b]]
    /\ issued' = IF ack THEN [issued EXCEPT ![l] = @ \cup {r}] ELSE issued
    /\ UNCHANGED <<settlement, consumed, blocked, generation, permit, spent, now>>

\* begin_forward: the single permission to execute.  Without the
\* acknowledgement the row is forwarding and nobody executes it.
BeginForward(l, r, ack) ==
    /\ Current(l)
    /\ Ticket(l, r)
    /\ status[r] = "reserved" /\ r \notin Due
    /\ meta' = Touched
    /\ status' = [AfterExpiry EXCEPT ![r] = "forwarding"]
    /\ held' = Returned(Due)
    /\ permit' = IF ack THEN [permit EXCEPT ![l] = @ \cup {r}] ELSE permit
    /\ UNCHANGED <<row, items, settlement, consumed, blocked,
                   generation, issued, spent, now>>

\* cancel: only a reservation that was never forwarded gives its hold back.
Cancel(l, r) ==
    /\ Current(l)
    /\ Ticket(l, r)
    /\ status[r] = "reserved"
    /\ meta' = Touched
    /\ status' = [status EXCEPT ![r] = "canceled"]
    /\ held' = Returned({r})
    /\ UNCHANGED <<row, items, settlement, consumed, blocked,
                   generation, issued, permit, spent, now>>

\* uncertain: the outcome of a forwarded action is not known; keep the hold.
Uncertain(l, r) ==
    /\ Current(l)
    /\ Ticket(l, r)
    /\ status[r] = "forwarding"
    /\ meta' = Touched
    /\ status' = [status EXCEPT ![r] = "uncertain"]
    /\ UNCHANGED <<row, items, settlement, held, consumed, blocked,
                   generation, issued, permit, spent, now>>

\* What a protected BudgetObservationSource can attest about r: the real cost
\* of an effect that happened, or that none happened and none can any more.
\* record() refuses a no_effect receipt with a cost.
NoEffect == [outcome |-> "no_effect", cost |-> ZeroCost]
Attested(r) ==
    IF spent[r] # None THEN {[outcome |-> "completed", cost |-> spent[r]]}
    ELSE {o \in {NoEffect} : \A l \in Ledgers : r \notin permit[l]}

InScope(r, b) == row[r].context # None /\ b \in Scope[row[r].context]

\* The units a settlement o of r charges to bucket b; without an observation
\* the whole reserved bound.
Charge(r, b, o) ==
    IF ~InScope(r, b) \/ Metric[b] = Concurrency THEN 0
    ELSE IF o = None THEN items[r][b] ELSE o.cost[Metric[b]]

Exceeds(r, b, o) == o # None /\ InScope(r, b) /\ o.cost[Metric[b]] > items[r][b]

\* Mutant of Late: a committed reservation can be settled again and again.
LateAgain(r, o) == status[r] = "committed" /\ o # None

\* A reservation committed without an observation may be settled once more.
Late(r, o) == status[r] = "committed" /\ settlement[r] = None /\ o # None

\* The full charge a late settlement takes back from bucket b.
Refund(r, b, o) == IF Late(r, o) /\ Metric[b] # Concurrency THEN items[r][b] ELSE 0

\* _settle: charge a forwarded reservation, or replace the full charge of one
\* committed without an observation by the observed cost.
Settle(l, r, o) ==
    /\ status[r] \in {"forwarding", "uncertain"} \/ Late(r, o)
    /\ status' = [status EXCEPT ![r] =
          IF o # None /\ o.outcome = "no_effect" THEN "released"
          ELSE IF \E b \in Buckets : Exceeds(r, b, o) THEN "overrun" ELSE "committed"]
    /\ settlement' = [settlement EXCEPT ![r] = o]
    /\ held' = IF Late(r, o) THEN held ELSE Returned({r})
    /\ consumed' = [b \in Buckets |-> consumed[b] + Charge(r, b, o) - Refund(r, b, o)]
    /\ blocked' = [b \in Buckets |-> IF Exceeds(r, b, o) THEN Epoch[l] ELSE blocked[b]]

\* commit, by the ticket's holder once its callback has returned.
Commit(l, r, o) ==
    /\ Current(l)
    /\ Ticket(l, r)
    /\ r \notin permit[l]
    /\ Settle(l, r, o)
    /\ meta' = Touched
    /\ UNCHANGED <<row, items, generation, issued, permit, spent, now>>

\* reconcile, by the operator, for a reservation of any generation.
Reconcile(l, r, o) ==
    /\ Current(l)
    /\ status[r] # "none" /\ o # None
    /\ Settle(l, r, o)
    /\ meta' = Touched
    /\ UNCHANGED <<row, items, generation, issued, permit, spent, now>>
-----------------------------------------------------------------------------
(* The callers and the clock.                                              *)

\* The executor runs the action it was permitted to run, at a cost of its own.
Effect(l, r, cost) ==
    /\ r \in permit[l]
    /\ permit' = [permit EXCEPT ![l] = @ \ {r}]
    /\ spent' = [spent EXCEPT ![r] = cost]
    /\ UNCHANGED <<durable, generation, issued, now>>

\* The executor refuses, or its process dies, before any effect.
Abandon(l, r) ==
    /\ r \in permit[l]
    /\ permit' = [permit EXCEPT ![l] = @ \ {r}]
    /\ UNCHANGED <<durable, generation, issued, spent, now>>

\* time.time() may also be stepped back.
Tick ==
    /\ now' \in (0..MaxTime) \ {now}
    /\ UNCHANGED <<durable, generation, issued, permit, spent>>

Next ==
    \/ Tick
    \/ \E l \in Ledgers :
         \/ Start(l) \/ Housekeep(l) \/ Refused(l)
         \/ \E r \in Reservations :
              \/ \E k \in Keys, c \in Contexts, cost \in Costs, ack \in BOOLEAN :
                    Reserve(l, r, k, c, cost, ack)
              \/ \E ack \in BOOLEAN : BeginForward(l, r, ack)
              \/ Cancel(l, r)
              \/ Uncertain(l, r)
              \/ \E o \in Attested(r) \cup {None} : Commit(l, r, o)
              \/ \E o \in Attested(r) : Reconcile(l, r, o)
              \/ \E cost \in Observed : Effect(l, r, cost)
              \/ Abandon(l, r)

Spec == Init /\ [][Next]_vars
-----------------------------------------------------------------------------
(* Properties.                                                             *)

Settlements == [outcome : {"completed"}, cost : Observed] \cup {NoEffect, None}

TypeOK ==
    /\ meta \in [gen : Nat, nonce : Ledgers \cup {None}, epoch : Nat, lastNow : Nat]
    /\ status \in [Reservations -> Statuses]
    /\ row \in [Reservations -> Rows]
    /\ items \in [Reservations -> [Buckets -> 0..MaxUnits]]
    /\ settlement \in [Reservations -> Settlements]
    /\ held \in [Buckets -> Nat]
    /\ consumed \in [Buckets -> Nat]
    /\ blocked \in [Buckets -> Nat \cup {-1}]
    /\ generation \in [Ledgers -> Nat]
    /\ issued \in [Ledgers -> SUBSET Reservations]
    /\ permit \in [Ledgers -> SUBSET Reservations]
    /\ spent \in [Reservations -> Observed \cup {None}]
    /\ now \in Nat

\* The units a reservation has been charged in bucket b so far.
Charged(r, b) ==
    IF status[r] \in {"committed", "overrun"} THEN Charge(r, b, settlement[r]) ELSE 0

\* The counters of a bucket are exactly the sums over the reservations: held
\* is what the live ones hold and consumed what the settled ones were charged,
\* across expiry, restarts, late settlements and lost acknowledgements.
Conservation ==
    \A b \in Buckets :
        /\ held[b] = Amounts({r \in Reservations : status[r] \in Live}, b)
        /\ consumed[b] = UnitSum([r \in Reservations |-> Charged(r, b)],
                                 Reservations, MaxUnits)

\* The units r was observed to spend in bucket b beyond what it reserved.
Excess(r, b) ==
    IF status[r] = "overrun" /\ Charged(r, b) > items[r][b]
    THEN Charged(r, b) - items[r][b] ELSE 0

\* What bucket b owes, apart from observed overruns.
Net(b) == held[b] + consumed[b]
          - UnitSum([r \in Reservations |-> Excess(r, b)], Reservations, MaxUnits)

\* What a bucket owes, apart from observed overruns, never exceeds what some
\* policy in force allowed it: racing reservations, expiry and settlements
\* cannot overcommit it.
WithinLimit ==
    \A b \in Buckets :
        Net(b) <= 0 \/ \E l \in Ledgers : generation[l] # 0 /\ Net(b) <= Maximum[l][b]

\* An effect is never run, nor a permission to run one kept, for a reservation
\* whose units were given back, whichever process restarted or retried.
NoFreeEffect ==
    \A r \in Reservations :
        (spent[r] # None \/ \E l \in Ledgers : r \in permit[l])
            => status[r] \in {"forwarding", "uncertain", "committed", "overrun"}

\* An idempotency key stands for one reservation, whichever process retried.
OneReservationPerKey ==
    \A r, q \in Reservations :
        (r # q /\ status[r] # "none" /\ status[q] # "none") => row[r].key # row[q].key

\* Once a settlement found a bucket overrun, no reservation touches it until
\* a ledger with a newer policy epoch has started.
OverrunStopsBucket ==
    [][\A r \in Reservations, b \in Buckets :
        (status[r] = "none" /\ status'[r] # "none" /\ blocked[b] >= meta.epoch)
            => items'[r][b] = 0]_vars
=============================================================================
