---------------------------- MODULE EventIngest ----------------------------
(***************************************************************************)
(* Authenticated ingest of swarm events (ordin/swarm/ingest.py) and the    *)
(* causal projection built from it (ordin/swarm/causal_graph.py).          *)
(*                                                                         *)
(* Every protected sender has its own sequence of events; packets are      *)
(* lost, repeated and reordered, so an event can be admitted before its    *)
(* parents and before its predecessors in its stream.  The ingestor keeps  *)
(* what it derives from the records beside them (the children of an event, *)
(* the depth of an event, the digest and the review of an action, how far  *)
(* a stream is complete) and updates it with every admission.  A packet    *)
(* that is refused or is an exact duplicate, and an append that the        *)
(* journal refuses, change nothing: they are steps that do not occur here, *)
(* and a sender repeats a packet by offering it again.                     *)
(*                                                                         *)
(* An event is a record: its id, kind, sender src, place seq in the stream *)
(* of the sender, evidence class cls, action act with digest dig, the      *)
(* review it cites, its parents, and the resources res it names.  What     *)
(* a collector reports was matched against its sealed observation when the *)
(* packet was made.                                                        *)
(***************************************************************************)
EXTENDS Integers, Sequences, FiniteSets, FiniteSetsExt, SequencesExt, Functions

CONSTANTS Sources,      \* protected sender handles
          Role,         \* [Sources -> {"gateway", "collector", "asserted"}]
          Owner,        \* [Sources -> agent identities]
          Lapsing,      \* the senders whose principal may lapse
          Offers,       \* the packets senders may deliver, any number of times
          None,         \* no action, no review
          MaxEvents,    \* capacity of the journal
          Window,       \* receive window of a stream
          MaxDepth,     \* bound on causal depth
          MaxNodes,     \* node budget of the projection
          MaxEdges,     \* edge budget of the projection
          Delegations   \* pairs of identities with a bound delegation link

Stages == <<"proposed", "reviewed", "reserved", "committed", "forwarded", "completed">>
ActionStages == Range(Stages) \cup {"observed", "failed", "denied", "canceled"}
ReviewBound == ActionStages \ {"proposed", "reviewed"}

\* What the constructor of an event insists on.
WellFormed(o) ==
    /\ o.seq > 0
    /\ o.act = None <=> o.dig = None
    /\ o.kind \in ActionStages => o.act # None
    /\ (o.review # None) <=> (o.kind \in ReviewBound)
    /\ o.review # None => o.review \in o.parents
    /\ o.id \notin o.parents
    /\ o.cls = "backend" => o.kind = "observed"

Ids == {o.id : o \in Offers} \cup UNION {o.parents : o \in Offers}
Attempts == {<<Owner[o.src], o.act>> : o \in {x \in Offers : x.act # None}}

IngestConstants ==
    /\ \A o \in Offers : WellFormed(o) /\ o.src \in Sources
    /\ Ids \subseteq Nat
    /\ {MaxEvents, Window, MaxDepth, MaxNodes, MaxEdges} \subseteq Nat \ {0}

VARIABLES
    status,     \* [Sources -> {"unbound", "live", "stale"}]: a sender and its principal
    recs,       \* _records: the events admitted, by id
    depths,     \* _depths: causal depth of every record
    children,   \* _children: records that name an id as parent, recorded or not
    digests,    \* _action_digests
    reviews,    \* _action_reviews
    seqs,       \* sequences of every sender: number -> id
    contiguous  \* contiguous of every sender

vars == <<status, recs, depths, children, digests, reviews, seqs, contiguous>>

Init ==
    /\ status = [s \in Sources |-> "unbound"]
    /\ recs = << >>
    /\ depths = << >>
    /\ children = [i \in Ids |-> {}]
    /\ digests = [a \in Attempts |-> None]
    /\ reviews = [a \in Attempts |-> None]
    /\ seqs = [s \in Sources |-> << >>]
    /\ contiguous = [s \in Sources |-> 0]

Recorded(i) == i \in DOMAIN recs
Trusts(o) == o.cls # "asserted"
Attempt(o) == <<Owner[o.src], o.act>>

-----------------------------------------------------------------------------
(* Admission.                                                              *)

\* Only the gateway of a principal reports for its host, only a collector for its backend.
Evidence(o) ==
    \/ o.cls = "asserted" /\ Role[o.src] # "collector"
    \/ o.cls = "host" /\ Role[o.src] = "gateway" /\ o.kind # "observed"
    \/ o.cls = "backend" /\ Role[o.src] = "collector" /\ o.kind = "observed"

\* A packet takes a free number of its stream, not too far ahead of what is complete.
InWindow(o) ==
    /\ o.seq \notin DOMAIN seqs[o.src]
    /\ o.seq > contiguous[o.src]
    /\ o.seq <= contiguous[o.src] + Window

\* One digest and one authoritative review for an action attempt.
Consistent(o) ==
    (o.act # None /\ Trusts(o)) =>
        /\ digests[Attempt(o)] \in {None, o.dig}
        /\ o.kind = "reviewed" => reviews[Attempt(o)] = None

\* A stage after the review cites the review of exactly this attempt.
Anchored(o) ==
    o.kind \in ReviewBound =>
        /\ Recorded(o.review)
        /\ LET r == recs[o.review]
           IN  /\ r.kind = "reviewed" /\ r.cls = "host" /\ Role[r.src] = "gateway"
               /\ Attempt(r) = Attempt(o) /\ r.dig = o.dig


\* Everything that can be reached from the set start with the steps of next.
Reach(start, next) ==
    LET reach[n \in 0..Cardinality(Ids)] ==
            IF n = 0 THEN start
            ELSE LET r == reach[n - 1] IN r \cup UNION {next[i] : i \in r}
    IN  reach[Cardinality(Ids)]

\* A late parent changes the depth of every record below it: these are visited again.
Affected(o) == Reach({o.id}, children)


\* The parents of an affected event, the new one included.
ParentsWith(o, i) == IF i = o.id THEN o.parents ELSE recs[i].parents

\* The affected events with a path back to themselves within the affected ones.
OnCycle(o) ==
    LET A == Affected(o)
        up == [i \in Ids |-> IF i \in A THEN ParentsWith(o, i) \cap A ELSE {}]
    IN  {i \in A : i \in Reach(up[i], up)}

\* Mutant of NewDepths: the new event is placed, the records below it stay where they are.
NewDepthsOwn(o) ==
    [i \in {o.id} |-> Max({0} \cup {1 + (IF Recorded(p) THEN depths[p] ELSE 0) : p \in o.parents})]
\* Depth of the affected events; the depth of any other record is the one kept for it.
NewDepths(o) ==
    LET A == Affected(o)
        Known(i) == IF Recorded(i) THEN depths[i] ELSE 0
        d[n \in 0..Cardinality(A)] ==
            IF n = 0 THEN [i \in A |-> 0]
            ELSE LET e == d[n - 1]
                 IN  [i \in A |-> Max({0} \cup {1 + (IF p \in A THEN e[p] ELSE Known(p)) :
                                                p \in ParentsWith(o, i)})]
    IN  d[Cardinality(A)]

\* No affected event gets deeper than the bound.
Shallow(o) == Range(NewDepths(o)) \subseteq 0..MaxDepth


Bind(s) ==
    /\ status[s] = "unbound"
    /\ status' = [status EXCEPT ![s] = "live"]
    /\ UNCHANGED <<recs, depths, children, digests, reviews, seqs, contiguous>>

\* The principal of a sender expires, is paused or restarts: its packets are refused.
Lapse(s) ==
    /\ s \in Lapsing
    /\ status[s] = "live"
    /\ status' = [status EXCEPT ![s] = "stale"]
    /\ UNCHANGED <<recs, depths, children, digests, reviews, seqs, contiguous>>

\* How far a stream is complete once the numbers of taken have arrived.
Advanced(from, taken) == CHOOSE n \in from..(from + Cardinality(taken)) :
    (from + 1)..n \subseteq taken /\ n + 1 \notin taken

Ingest(o) ==
    /\ status[o.src] = "live"
    /\ Evidence(o)
    /\ ~Recorded(o.id)
    /\ Cardinality(DOMAIN recs) < MaxEvents
    /\ InWindow(o) /\ Consistent(o) /\ Anchored(o)
    /\ OnCycle(o) = {}            \* the depth of an event on a cycle is not defined
    /\ Shallow(o)
    /\ recs' = recs @@ (o.id :> o)
    /\ depths' = NewDepths(o) @@ depths
    /\ children' = [i \in Ids |-> IF i \in o.parents THEN children[i] \cup {o.id} ELSE children[i]]
    /\ IF o.act # None /\ Trusts(o)
       THEN /\ digests' = [digests EXCEPT ![Attempt(o)] = o.dig]
            /\ reviews' = IF o.kind = "reviewed" THEN [reviews EXCEPT ![Attempt(o)] = o.id] ELSE reviews
       ELSE UNCHANGED <<digests, reviews>>
    /\ seqs' = [seqs EXCEPT ![o.src] = @ @@ (o.seq :> o.id)]
    /\ contiguous' = [contiguous EXCEPT ![o.src] = Advanced(@, DOMAIN seqs[o.src] \cup {o.seq})]
    /\ UNCHANGED status

Next == \/ \E s \in Sources : Bind(s) \/ Lapse(s)
        \/ \E o \in Offers : Ingest(o)

Spec == Init /\ [][Next]_vars

-----------------------------------------------------------------------------
(* action_state: what the records say about one attempt.                   *)

\* The trusted records of an attempt with this digest.
TrustedOf(a, dig) == {i \in DOMAIN recs : /\ recs[i].act # None /\ Attempt(recs[i]) = a
                                          /\ recs[i].dig = dig /\ Trusts(recs[i])}

\* The records the gaps of a set of records are looked for in: it and its trusted ancestors.
Ancestry(start) ==
    Reach(start, [i \in Ids |-> IF Recorded(i)
                                THEN {p \in recs[i].parents : Recorded(p) /\ Trusts(recs[p])} ELSE {}])

Unresolved(start) == {p \in UNION {recs[i].parents : i \in Ancestry(start)} : ~Recorded(p)}
Untrusted(start) == {p \in UNION {recs[i].parents : i \in Ancestry(start)} :
                        Recorded(p) /\ ~Trusts(recs[p])}
\* Mutant of SequenceGap: only the streams of the records themselves are looked at.
OwnSequenceGap(start) == \E i \in start : contiguous[recs[i].src] < recs[i].seq
SequenceGap(start) == \E i \in Ancestry(start) : contiguous[recs[i].src] < recs[i].seq


\* The records of stage n that continue a chain from a proposal, with the review it went through.
ChainsAt(T) ==
    LET Candidates(n, prior) == {i \in T : recs[i].kind = Stages[n] /\ recs[i].parents \cap DOMAIN prior # {}}
        c[n \in 1..Len(Stages)] ==
            IF n = 1 THEN [i \in {j \in T : recs[j].kind = "proposed"} |-> None]
            ELSE LET prior == c[n - 1]
                     next == Candidates(n, prior)
                 IN  IF n = 2 THEN [i \in next |-> i]
                     ELSE [i \in {j \in next : \E p \in recs[j].parents \cap DOMAIN prior :
                                                 prior[p] = recs[j].review} |-> recs[i].review]
    IN  c

CausallyComplete(a, dig) ==
    LET T == TrustedOf(a, dig)
    IN  /\ DOMAIN ChainsAt(T)[Len(Stages)] # {}
        /\ Unresolved(T) = {} /\ Untrusted(T) = {} /\ ~SequenceGap(T)

-----------------------------------------------------------------------------
(* SwarmCausalGraph.build: the projection a reviewer of the swarm reads.   *)

\* The records whose sender still authenticates, cut to the node budget.
Selected ==
    LET current == {i \in DOMAIN recs : status[recs[i].src] = "live"}
    IN  {i \in current : Cardinality({j \in current : j < i}) < MaxNodes}

\* What kind of edge joins a parent to its child; none joins agents without a common fact.
EdgeKind(p, t) ==
    IF ~Trusts(p) \/ ~Trusts(t) THEN "hypothesized_influence"
    ELSE IF Owner[p.src] = Owner[t.src] THEN "depends_on"
    ELSE IF p.kind = "message_sent" /\ t.kind = "message_received" /\ p.res \cap t.res # {}
    THEN "message_sent/received"
    ELSE IF p.kind = "artifact_write" /\ t.kind = "artifact_read" /\ p.res \cap t.res # {}
    THEN "artifact_written/read"
    ELSE IF p.kind = "delegated" /\ <<Owner[p.src], Owner[t.src]>> \in Delegations THEN "delegated_to"
    ELSE None

Flows == {"message_sent/received", "artifact_written/read"}

\* One causal reference is added to the projection under construction.
AddEdge(view, ref) ==
    LET p == ref[1]
        t == ref[2]
        kind == IF p \in Selected THEN EdgeKind(recs[p], recs[t]) ELSE None
        one == Append(view.edges, <<p, t, kind>>)
    IN  IF p \notin Selected THEN [view EXCEPT !.gaps = @ \cup {"unresolved_parent"}]
        ELSE IF kind = None THEN [view EXCEPT !.gaps = @ \cup {"unauthenticated_cross_agent_join"}]
        ELSE IF Len(view.edges) >= MaxEdges THEN [view EXCEPT !.gaps = @ \cup {"edge_budget_truncated"}]
        ELSE IF kind \notin Flows THEN [view EXCEPT !.edges = one]
        ELSE IF Len(one) >= MaxEdges
        THEN [edges |-> one, gaps |-> view.gaps \cup {"edge_budget_truncated"}]
        ELSE [view EXCEPT !.edges = Append(one, <<p, t, "observed_data_flow">>)]


\* The gaps found while the records are selected.
SelectionGaps ==
    (IF \E i \in DOMAIN recs : contiguous[recs[i].src] < recs[i].seq THEN {"source_sequence_gap"} ELSE {})
    \cup (IF \E i \in DOMAIN recs : ~Trusts(recs[i]) THEN {"caller_asserted_event"} ELSE {})
    \cup (IF \E i \in DOMAIN recs : status[recs[i].src] # "live" THEN {"stale_principal_or_grant"} ELSE {})
    \cup (IF Cardinality({i \in DOMAIN recs : status[recs[i].src] = "live"}) > MaxNodes
          THEN {"node_budget_truncated"} ELSE {})

\* References are taken in the order of the child, then of the parent.
LastRef(refs) == CHOOSE x \in refs : \A y \in refs : y[2] < x[2] \/ (y[2] = x[2] /\ y[1] <= x[1])

View ==
    LET refs == {<<p, t>> \in Ids \X Selected : p \in recs[t].parents}
    IN  MapThenFoldSet(LAMBDA ref, view : AddEdge(view, ref), [edges |-> << >>, gaps |-> SelectionGaps],
                       LAMBDA ref : ref, LastRef, refs)

-----------------------------------------------------------------------------
(* Properties.                                                             *)

TypeOK ==
    /\ status \in [Sources -> {"unbound", "live", "stale"}]
    /\ DOMAIN recs \subseteq Ids /\ Range(recs) \subseteq Offers
    /\ DOMAIN depths = DOMAIN recs /\ Range(depths) \subseteq 0..MaxDepth
    /\ children \in [Ids -> SUBSET Ids]
    /\ contiguous \in [Sources -> Nat]
    /\ \A s \in Sources : DOMAIN seqs[s] \subseteq Nat \ {0} /\ Range(seqs[s]) \subseteq DOMAIN recs

\* The recorded parents of a record, and all the events above it.
Up == [i \in Ids |-> IF Recorded(i) THEN recs[i].parents ELSE {}]
Above(i) == Reach(Up[i], Up)

\* Whatever order the packets arrive in, no record is its own ancestor: a late parent that
\* would close a cycle through its descendants is refused (ingest.py _parents).
NoCycle == \A i \in DOMAIN recs : i \notin Above(i)

\* The depth kept for a record, from updates of affected parts only, is the length of the
\* longest path above it, a missing parent counting as its end (ingest.py _depths).
DepthIsLongestPath ==
    LET longest[i \in Ids] == Max({0} \cup {1 + longest[p] : p \in Up[i]})
    IN  \A i \in DOMAIN recs : depths[i] = longest[i]

\* The graph of the records is well formed.
GraphOK == TypeOK /\ NoCycle /\ DepthIsLongestPath

\* Six trusted records of an attempt, each a parent of the next, through one review; and every
\* event above the trusted records of the attempt, across actions and agents, is recorded, is
\* trusted and has a stream without a hole below it.
WholeLifecycle(T) ==
    LET Whole(i) == /\ Recorded(i) /\ Trusts(recs[i])
                    /\ \A n \in 1..recs[i].seq : \E j \in DOMAIN recs :
                           recs[j].src = recs[i].src /\ recs[j].seq = n
        Is(i, n) == i \in T /\ recs[i].kind = Stages[n]
    IN  /\ \A i \in T \cup UNION {Above(j) : j \in T} : Whole(i)
        /\ \E e6 \in T : Is(e6, 6) /\
           \E e5 \in recs[e6].parents : Is(e5, 5) /\
           \E e4 \in recs[e5].parents : Is(e4, 4) /\
           \E e3 \in recs[e4].parents : Is(e3, 3) /\
           \E e2 \in recs[e3].parents : Is(e2, 2) /\
                /\ {recs[e].review : e \in {e3, e4, e5, e6}} = {e2}
                /\ \E e1 \in recs[e2].parents : Is(e1, 1)

KnownDigests == {recs[i].dig : i \in DOMAIN recs} \ {None}

\* An attempt is called causally complete only with its whole lifecycle on record, in whatever
\* order the packets came (ingest.py _state and _dependencies).
CompleteMeansLifecycle ==
    \A a \in Attempts, dig \in KnownDigests :
        CausallyComplete(a, dig) => WholeLifecycle(TrustedOf(a, dig))

\* Nothing else keeps it from being complete: no hole in an unrelated stream, no packet of
\* another agent, no assertion of a caller and no lapse of a sender (ingest.py _state).
LifecycleMeansComplete ==
    \A a \in Attempts, dig \in KnownDigests :
        WholeLifecycle(TrustedOf(a, dig)) => CausallyComplete(a, dig)

\* No two trusted records of one attempt went through different reviews, and the review
\* they cite is the one kept for the attempt (ingest.py _action_reviews and _review).
OneReviewPerAttempt ==
    \A i \in DOMAIN recs : (Trusts(recs[i]) /\ recs[i].kind \in ReviewBound)
        => recs[i].review = reviews[Attempt(recs[i])]

\* A projection without a gap is whole: all records are nodes, every causal reference is
\* an edge, and every flow between agents is drawn as a flow (causal_graph.py build).
NoSilentOmission ==
    LET view == View
        edges == Range(view.edges)
    IN  view.gaps = {} =>
            /\ Selected = DOMAIN recs
            /\ \A t \in DOMAIN recs : \A p \in recs[t].parents : \E e \in edges : e[1] = p /\ e[2] = t
            /\ \A e \in edges : e[3] \in Flows => <<e[1], e[2], "observed_data_flow">> \in edges
=============================================================================
