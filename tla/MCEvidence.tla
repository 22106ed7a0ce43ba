----------------------------- MODULE MCEvidence -----------------------------
(***************************************************************************)
(* The evidence of a swarm: ingest of events, ingest by the coordinator,   *)
(* and temporal rules over the events.                                     *)
(***************************************************************************)
EXTENDS EventIngest

VARIABLES about,
          cert, lease, events, streams, incomplete,
          now, event, fact, coverage, generation, receipts

coordinator == <<cert, lease, events, streams, incomplete>>
engine == <<now, event, fact, coverage, generation, receipts>>
-----------------------------------------------------------------------------
(* "lifecycle": packets of two agents.  Agent "a" has a gateway "g", a     *)
(* collector "c" and a stream of assertions "s"; agent "b" has a gateway   *)
(* "h".  "flows": what the two exchange, with senders that lapse.          *)

Ev(id, kind, src, seq, cls, act, review, parents, res) ==
    [id |-> id, kind |-> kind, src |-> src, seq |-> seq, cls |-> cls, act |-> act,
     dig |-> IF act = None THEN None ELSE "d", review |-> review, parents |-> parents, res |-> res]

MCRole == [s \in Sources |-> CASE s = "c" -> "collector" [] s = "s" -> "asserted"
                               [] OTHER -> "gateway"]
MCOwner == [s \in Sources |-> IF s = "h" THEN "b" ELSE "a"]

\* The lifecycle of one action of "a".
Lifecycle ==
    {Ev(1, "proposed", "g", 1, "host", "x", None, {}, {}),
     Ev(2, "reviewed", "g", 2, "host", "x", None, {1}, {}),
     Ev(3, "reserved", "g", 3, "host", "x", 2, {2}, {}),
     Ev(4, "committed", "g", 4, "host", "x", 2, {2, 3}, {}),
     Ev(5, "forwarded", "g", 5, "host", "x", 2, {2, 4}, {}),
     Ev(6, "completed", "g", 6, "host", "x", 2, {2, 5}, {})}

\* Messages of "b" before and after it, one of which would close a cycle.
Messages ==
    {Ev(7, "message_sent", "h", 2, "host", None, None, {}, {"m"}),
     Ev(1, "proposed", "g", 1, "host", "x", None, {7}, {}),
     Ev(8, "message_received", "h", 1, "host", None, None, {6}, {"m"}),
     Ev(1, "proposed", "g", 1, "host", "x", None, {8}, {})}

\* A second review, assertions that look like one or like a completion, and observations.
Noise ==
    {Ev(9, "reviewed", "g", 3, "host", "x", None, {1}, {}),
     Ev(10, "reviewed", "s", 1, "asserted", "x", None, {1}, {}),
     Ev(11, "reserved", "g", 3, "host", "x", 10, {10}, {}),
     Ev(12, "completed", "s", 2, "asserted", "x", 2, {2, 4}, {}),
     Ev(13, "observed", "c", 1, "backend", "x", 2, {2, 12}, {}),
     Ev(13, "observed", "c", 2, "backend", "x", 2, {2, 8}, {})}

LifecycleOffers == Lifecycle \cup Messages \cup Noise

\* A message and an artifact between the agents, and a delegation; the first
\* message also as the answer to the last one.
FlowOffers ==
    {Ev(1, "message_sent", "g", 1, "host", None, None, {}, {"m"}),
     Ev(2, "message_received", "h", 1, "host", None, None, {1}, {"m"}),
     Ev(3, "artifact_write", "h", 2, "host", None, None, {2}, {"f"}),
     Ev(4, "artifact_read", "g", 2, "host", None, None, {3, 1}, {"f"}),
     Ev(5, "delegated", "g", 3, "host", None, None, {4}, {}),
     Ev(6, "proposed", "h", 3, "host", "y", None, {5}, {}),
     Ev(1, "message_sent", "g", 1, "host", None, None, {4}, {"m"}),
     Ev(5, "message_sent", "g", 3, "host", None, None, {4}, {"n"}),
     Ev(6, "message_received", "h", 3, "host", None, None, {5}, {"n"}),
     Ev(7, "reviewed", "h", 4, "host", "y", None, {6}, {}),
     Ev(8, "message_received", "s", 1, "asserted", None, None, {1}, {"m"})}

Flow == INSTANCE EventIngest
    WITH Sources <- {"g", "h", "s"}, Offers <- FlowOffers, Lapsing <- {"g", "h", "s"},
         MaxEvents <- 8, Window <- 2, MaxDepth <- 8, MaxNodes <- 7, MaxEdges <- 8,
         Delegations <- {<<"a", "b">>}
-----------------------------------------------------------------------------
(* "workloads": events of the workloads "v" and "w", whose leases expire.  *)
(* "backfill": their leases last and they keep sending.                    *)

Sent(id, kind, producer, seq, act, review, parents) ==
    [id |-> id, kind |-> kind, producer |-> producer, seq |-> seq, act |-> act,
     dig |-> IF act = None THEN None ELSE IF id = 8 THEN "e" ELSE "d", review |-> review, parents |-> parents]

V1 == <<"v", 1>>
V2 == <<"v", 2>>
W1 == <<"w", 1>>

\* Two workloads, one of which enrolls again; a message that would close a cycle; a review
\* that is stored late; an event that changes the digest of its action.
MixedOffers ==
    {Sent(1, "proposed", V1, 1, "x", None, << >>),
     Sent(2, "reviewed", V1, 2, "x", None, <<1>>),
     Sent(3, "committed", V1, 3, "x", 2, <<2>>),
     Sent(4, "message_received", W1, 1, None, None, <<3>>),
     Sent(5, "message_sent", W1, 2, None, None, <<4>>),
     Sent(1, "proposed", V1, 1, "x", None, <<5>>),
     Sent(6, "proposed", V2, 1, "y", None, <<5>>),
     Sent(7, "reviewed", V2, 2, "y", None, <<6, 4>>),
     Sent(8, "proposed", V2, 3, "y", None, << >>)}
MixedOrder == <<3, 7, 1, 5, 2, 8, 6, 4>>

\* A short history in which every event that is named exists.
WholeOffers ==
    {Sent(1, "proposed", V1, 1, "x", None, << >>),
     Sent(2, "reviewed", V1, 2, "x", None, <<1>>),
     Sent(3, "committed", V1, 3, "x", 2, <<2>>),
     Sent(4, "message_received", W1, 1, None, None, <<3>>),
     Sent(5, "message_sent", W1, 2, None, None, <<4, 1>>),
     Sent(6, "proposed", W1, 3, "z", None, <<5>>),
     Sent(7, "completed", V1, 4, "x", 2, <<3, 2>>),
     Sent(9, "message_sent", W1, 4, None, None, <<6, 7>>)}
WholeOrder == <<3, 1, 7, 5, 2, 9, 6, 4>>

Mixed == INSTANCE CoordinatorEvents
    WITH Subjects <- {"v", "w"}, Offers <- MixedOffers, MaxEvents <- 7, Window <- 2,
         MaxDepth <- 6, MaxCerts <- 2, Expiring <- TRUE, AliasOrder <- MixedOrder

Whole == INSTANCE CoordinatorEvents
    WITH Subjects <- {"v", "w"}, Offers <- WholeOffers, MaxEvents <- 8, Window <- 4,
         MaxDepth <- 6, MaxCerts <- 1, Expiring <- FALSE, AliasOrder <- WholeOrder
-----------------------------------------------------------------------------
(* "paths": every graph of three events under a rule of two steps.         *)
(* "receipts": coverage, upgrades and time, with a quota of states that    *)
(* two matching events exceed.  "late": what arrives after a verdict.      *)
(* "quota": a rule that counts agents.                                     *)

\* A read, handed to another agent who uses it, and the proposal.
HandoffRule == [aggregation |-> "path", events |-> 4, seconds |-> 1, quota |-> 1, countBy |-> "events",
               pattern |-> <<[class |-> "p", relation |-> "any", transfer |-> FALSE],
                             [class |-> "q", relation |-> "different", transfer |-> TRUE]>>]

\* A read and the proposal.
ReadRule == [HandoffRule EXCEPT !.events = 3, !.pattern = <<HandoffRule.pattern[1]>>]

\* Reads of two agents before the proposal.
AgentsRule == [ReadRule EXCEPT !.aggregation = "causal_ancestors", !.events = 4,
                                   !.quota = 2, !.countBy = "agents"]

Paths == INSTANCE TemporalEngine
    WITH Events <- {1, 2, 3}, Agents <- {"a", "b"}, Collected <- {}, Proposer <- "a",
         Classes <- {"p", "q"}, Rule <- HandoffRule, StateLimit <- 100, MaxTime <- 0,
         MaxUpgrades <- 0, MaxReceipts <- 0

Receipts == INSTANCE TemporalEngine
    WITH Events <- {1, 2}, Agents <- {"a", "b"}, Collected <- {"a", "b"}, Proposer <- "a",
         Classes <- {"p", "q"}, Rule <- ReadRule, StateLimit <- 2, MaxTime <- 2,
         MaxUpgrades <- 1, MaxReceipts <- 1

Late == INSTANCE TemporalEngine
    WITH Events <- {1, 2}, Agents <- {"a", "b"}, Collected <- {"a", "b"}, Proposer <- "a",
         Classes <- {"p", "q"}, Rule <- ReadRule, StateLimit <- 2, MaxTime <- 1,
         MaxUpgrades <- 0, MaxReceipts <- 0

Quota == INSTANCE TemporalEngine
    WITH Events <- {1, 2, 3}, Agents <- {"a", "b"}, Collected <- {}, Proposer <- "a",
         Classes <- {"p", "q"}, Rule <- AgentsRule, StateLimit <- 3, MaxTime <- 0,
         MaxUpgrades <- 0, MaxReceipts <- 0

ASSUME IngestConstants /\ Flow!IngestConstants /\ Mixed!EventConstants /\ Whole!EventConstants
ASSUME Paths!EngineConstants /\ Receipts!EngineConstants /\ Late!EngineConstants
ASSUME Quota!EngineConstants
-----------------------------------------------------------------------------
MCInit ==
    /\ about \in {"lifecycle", "flows", "workloads", "backfill", "paths", "receipts", "late", "quota"}
    /\ IF about = "flows" THEN Flow!Init ELSE Init
    /\ IF about = "workloads" THEN Mixed!Init ELSE Whole!Init
    /\ Paths!Init
MCNext ==
    /\ \/ about = "lifecycle" /\ Next /\ UNCHANGED <<coordinator, engine>>
       \/ about = "flows" /\ Flow!Next /\ UNCHANGED <<coordinator, engine>>
       \/ about = "workloads" /\ Mixed!Next /\ UNCHANGED <<vars, engine>>
       \/ about = "backfill" /\ Whole!Next /\ UNCHANGED <<vars, engine>>
       \/ about = "paths" /\ Paths!Next /\ UNCHANGED <<vars, coordinator>>
       \/ about = "receipts" /\ Receipts!Next /\ UNCHANGED <<vars, coordinator>>
       \/ about = "late" /\ Late!Next /\ UNCHANGED <<vars, coordinator>>
       \/ about = "quota" /\ Quota!Next /\ UNCHANGED <<vars, coordinator>>
    /\ UNCHANGED about
MCSpec ==
    /\ MCInit /\ [][MCNext]_<<vars, coordinator, engine, about>>
    /\ WF_coordinator(about = "backfill" /\ Whole!Sending)
-----------------------------------------------------------------------------
\* The graph is exact: a late parent makes no record its own ancestor, in ingest and
\* in the coordinator; the depth kept for a record is the longest path above it; and
\* a projection without a gap has every record, reference and flow.
GraphIsExact ==
    /\ IF about = "flows" THEN Flow!GraphOK /\ Flow!NoSilentOmission ELSE GraphOK
    /\ IF about = "workloads" THEN Mixed!TypeOK /\ Mixed!NoCycle ELSE Whole!TypeOK

\* Completeness is exact: an attempt is complete if and only if it has its whole
\* lifecycle through the one review kept for it and no gap above it; the scope of a
\* coordinator is incomplete exactly when a number or a parent is missing.
CompleteIsExact ==
    /\ about = "lifecycle" =>
           CompleteMeansLifecycle /\ LifecycleMeansComplete /\ OneReviewPerAttempt
    /\ about = "workloads" => Mixed!IncompleteIsTrue

\* While all leases last a gap of the coordinator is closed.
LeasedGapsClose ==
    []<>(about = "backfill" /\ incomplete => \E w \in {"v", "w"} : lease[w] # cert[w])

\* The verdicts of temporal rules: a path rule finds a match exactly if a causal path
\* contains the pattern, a counting rule reports only groups that reach the proposal
\* in the window, "satisfied" is said only if no forbidden path exists, a receipt
\* that is not fenced still says what an evaluation says, ...
VerdictsAreRight ==
    /\ about = "paths" => Paths!PathIsExact
    /\ about = "quota" => Quota!CountIsSound
    /\ about = "receipts" => Receipts!TypeOK /\ Receipts!SatisfiedIsSafe /\ Receipts!ReceiptsStaySafe

\* ... and late evidence does not overturn "satisfied".
VerdictsHold == []VerdictsAreRight /\ [][about = "late" => Late!SatisfiedStays]_<<engine, about>>
=============================================================================
