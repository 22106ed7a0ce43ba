------------------------- MODULE CoordinatorEvents -------------------------
(***************************************************************************)
(* Ingest of workload events by the coordinator (coordinator.py            *)
(* ingest_event, producer_snapshot, _event_gaps) together with the leases  *)
(* of the workloads that produce them (admit, _lease, _owner).             *)
(*                                                                         *)
(* Each call is one database transaction.  A workload speaks through the   *)
(* stream of the producer its lease names, which is made of the subject,   *)
(* its context and its certificate.  An event with a missing predecessor   *)
(* or a missing parent leaves the scope incomplete until it is filled in;  *)
(* an incomplete scope admits nobody.  A call that is rejected, or repeats *)
(* an event already stored, changes nothing and is not an action here.     *)
(***************************************************************************)
EXTENDS Integers, Sequences, FiniteSets, FiniteSetsExt, SequencesExt, Functions

CONSTANTS Subjects,     \* workloads
          Offers,       \* the events workloads may send, any number of times
          None,         \* no action, no review
          MaxEvents,    \* event_limit of the scope
          Window,       \* receive window of a stream
          MaxDepth,     \* depth at which the walk over the causal graph gives up
          MaxCerts,     \* how many certificates a workload enrolls with, one after the other
          Expiring,     \* whether leases run out
          AliasOrder    \* the order in which the store returns the events, by their digests

Ids == {o.id : o \in Offers} \cup UNION {Range(o.parents) : o \in Offers}
Producers == Subjects \X (1..MaxCerts)
ReviewBound == {"reserved", "committed", "forwarded", "completed", "failed", "denied", "canceled"}

EventConstants ==
    /\ Range(AliasOrder) = {o.id : o \in Offers}
    /\ \A o \in Offers : o.producer \in Producers /\ o.seq \in Nat \ {0}

VARIABLES
    cert,       \* the certificate a workload is enrolled with now
    lease,      \* the certificate its lease was given for, 0 for no current lease
    events,     \* the stored events, by id
    streams,    \* the numbers received from every producer and how far they are complete
    incomplete  \* event_incomplete

vars == <<cert, lease, events, streams, incomplete>>

Init ==
    /\ cert = [w \in Subjects |-> 1]
    /\ lease = [w \in Subjects |-> 0]
    /\ events = << >>
    /\ streams = [p \in Producers |-> [contiguous |-> 0, highest |-> 0, sequences |-> {}]]
    /\ incomplete = FALSE

\* A workload is admitted; an incomplete history refuses.  While its former lease lasts a
\* further call only extends it, with the certificate it was given for.
Admit(w) ==
    /\ ~incomplete
    /\ lease[w] = 0
    /\ lease' = [lease EXCEPT ![w] = cert[w]]
    /\ UNCHANGED <<cert, events, streams, incomplete>>

\* The lease of a workload runs out, or another owner takes the scope over.
Expire(w) ==
    /\ Expiring
    /\ lease[w] # 0
    /\ lease' = [lease EXCEPT ![w] = 0]
    /\ UNCHANGED <<cert, events, streams, incomplete>>

\* The workload enrolls with a new certificate in its context: its lease no longer fits it.
Rotate(w) ==
    /\ cert[w] < MaxCerts
    /\ cert' = [cert EXCEPT ![w] = @ + 1]
    /\ UNCHANGED <<lease, events, streams, incomplete>>

-----------------------------------------------------------------------------
(* The walk over the prospective graph, with the colors of its nodes.      *)

Walks == [failed : BOOLEAN, open : SUBSET Ids, done : SUBSET Ids]

\* The events are walked from in the order of the store, the new one last.
WalkFails(evs, new) ==
    LET visit[walk \in Walks, key \in Ids, depth \in Nat] ==
            IF walk.failed THEN walk
            ELSE IF depth > MaxDepth \/ key \in walk.open THEN [walk EXCEPT !.failed = TRUE]
            ELSE IF key \in walk.done \/ key \notin DOMAIN evs THEN walk
            ELSE LET above == FoldLeft(LAMBDA acc, parent : visit[acc, parent, depth + 1],
                                       [walk EXCEPT !.open = @ \cup {key}], evs[key].parents)
                 IN  [above EXCEPT !.open = @ \ {key}, !.done = @ \cup {key}]
        keys == SelectSeq(AliasOrder, LAMBDA k : k \in DOMAIN evs \ {new}) \o <<new>>
    IN  FoldLeft(LAMBDA acc, k : visit[acc, k, 0],
                 [failed |-> FALSE, open |-> {}, done |-> {}], keys).failed

\* Whether a number or a parent is missing in any stream of the scope.
HasGaps(evs, strs) ==
    \/ \E p \in Producers : strs[p].highest # strs[p].contiguous
    \/ \E i \in DOMAIN evs : \E q \in Range(evs[i].parents) : q \notin DOMAIN evs


\* A stage after the review cites a stored review of the same subject, action and digest.
Anchored(o) ==
    o.kind \in ReviewBound =>
        /\ o.review \in DOMAIN events
        /\ LET r == events[o.review]
           IN  /\ r.kind = "reviewed" /\ r.producer[1] = o.producer[1]
               /\ r.act = o.act /\ r.dig = o.dig

\* An action has one digest in the context of a workload.
OneDigest(o) == o.act # None =>
    ~\E i \in DOMAIN events : /\ events[i].producer[1] = o.producer[1]
                              /\ events[i].act = o.act /\ events[i].dig # o.dig

\* The stream of a producer once number n has arrived.
Received(stream, n) ==
    LET taken == stream.sequences \cup {n}
    IN  [contiguous |-> CHOOSE c \in stream.contiguous..(stream.contiguous + Cardinality(taken)) :
                            (stream.contiguous + 1)..c \subseteq taken /\ c + 1 \notin taken,
         highest |-> Max({stream.highest, n}),
         sequences |-> taken]


\* Mutant of InWindow: a number that comes late is taken for a repetition.
InAscendingOrder(o) ==
    /\ o.seq <= streams[o.producer].contiguous + Window
    /\ o.seq > streams[o.producer].highest
\* A new number, not too far ahead of what is complete.
InWindow(o) ==
    /\ o.seq <= streams[o.producer].contiguous + Window
    /\ o.seq \notin streams[o.producer].sequences


IngestEvent(o) ==
    LET w == o.producer[1]
        evs == events @@ (o.id :> o)
        strs == [streams EXCEPT ![o.producer] = Received(@, o.seq)]
    IN  /\ lease[w] = cert[w] /\ o.producer[2] = lease[w]
        /\ o.id \notin DOMAIN events
        /\ Cardinality(DOMAIN events) < MaxEvents
        /\ InWindow(o) /\ Anchored(o) /\ OneDigest(o)
        /\ ~WalkFails(evs, o.id)
        /\ events' = evs
        /\ streams' = strs
        /\ incomplete' = HasGaps(evs, strs)
        /\ UNCHANGED <<cert, lease>>

Next == \/ \E w \in Subjects : Admit(w) \/ Expire(w) \/ Rotate(w)
        \/ \E o \in Offers : IngestEvent(o)

Spec == Init /\ [][Next]_vars

\* Workloads ask for admission and send what they have again until it is stored.
Sending == (\E w \in Subjects : Admit(w)) \/ (\E o \in Offers : IngestEvent(o))
FairSpec == Spec /\ WF_vars(Sending)

-----------------------------------------------------------------------------

TypeOK ==
    /\ cert \in [Subjects -> 1..MaxCerts]
    /\ lease \in [Subjects -> 0..MaxCerts]
    /\ DOMAIN events \subseteq Ids /\ Range(events) \subseteq Offers
    /\ \A p \in Producers : /\ streams[p].sequences \subseteq Nat \ {0}
                            /\ 0 <= streams[p].contiguous
                            /\ streams[p].contiguous <= streams[p].highest
                            /\ streams[p].highest <= streams[p].contiguous + Window
    /\ incomplete \in BOOLEAN

Up == [i \in Ids |-> IF i \in DOMAIN events THEN Range(events[i].parents) ELSE {}]

\* What can be reached upwards from an event in at most n steps of its parents.
Above(i, n) ==
    LET reach[k \in 0..n] == IF k = 0 THEN Up[i]
                             ELSE LET r == reach[k - 1] IN r \cup UNION {Up[j] : j \in r}
    IN  reach[n]

\* No stored event is its own ancestor, in whatever order and from whichever workloads the
\* events came (coordinator.py _event_gaps: "coordinator.event_cycle_or_depth").
NoCycle == \A i \in DOMAIN events : i \notin Above(i, Cardinality(Ids))

\* The scope is incomplete exactly when an event was stored of which a predecessor in its
\* stream, or an event named as its parent, was not (coordinator.py event_incomplete).
IncompleteIsTrue ==
    incomplete <=>
        \/ \E i \in DOMAIN events : \E n \in 1..events[i].seq : ~\E j \in DOMAIN events :
               events[j].producer = events[i].producer /\ events[j].seq = n
        \/ \E i \in DOMAIN events : ~(Range(events[i].parents) \subseteq DOMAIN events)

\* A gap in the history does not stay while the leases of all workloads last: sending again
\* what is missing closes it (coordinator.py ingest_event needs a lease, not a complete history).
LeasedGapsClose == []<>(incomplete => \E w \in Subjects : lease[w] # cert[w])
=============================================================================
