------------------------------- MODULE MCData -------------------------------
(***************************************************************************)
(* What agents share: artifacts and messages.  "bytes": two addresses of   *)
(* one agent.  "record": one address of two agents, grants, a store and a  *)
(* journal that fail.  "relay": contents go from a to b to c, of which the *)
(* first channel may carry secrets and the second may not.  "order": two   *)
(* threads send on one channel.  "threads": two threads send and submit    *)
(* while peers are quarantined or lapse and inboxes fail.                  *)
(***************************************************************************)
EXTENDS DataPlane, FiniteSets, TLC

CONSTANTS t1, t2

Symmetric == Permutations(Threads)

VARIABLE about

\* The content "k" is secret, "m" is public.
SecretOf == [c \in {"k", "m"} |-> IF c = "k" THEN {"secret"} ELSE {}]

\* The bytes are those of "p" and never fail; the record is of the address "x".
Operating == work' # Nobody /\ work'.op.kind # "sweep"
OfBytes == ~broken' /\ grants' = {} /\ high'["y"] <= 2 /\ (Operating => work'.op.agent = "p")
OfRecord == high'["x"] <= 2 /\ (Operating => work'.op.address = "x")
-----------------------------------------------------------------------------
Hops == {"ab", "bc"}
Line == {"a", "b", "c"}
HopFrom == [c \in Hops |-> IF c = "ab" THEN "a" ELSE "b"]
HopTo == [c \in Hops |-> IF c = "ab" THEN "b" ELSE "c"]
HopAllowed == [c \in Hops |-> IF c = "ab" THEN {"secret"} ELSE {}]

\* What "a" collects is secret; in the relay "b" collects contents of both classes, else none.
Relayed == [p \in Line |->
    CASE p = "a" -> {{"secret"}} [] p = "b" -> {{}, {"secret"}} [] OTHER -> {}]
Collected == [p \in Line |-> IF p = "a" THEN {{"secret"}} ELSE {}]

SetupOf == [
    relay |-> [rate |-> 2, messages |-> 2, records |-> 3, depth |-> 3, classes |-> Relayed,
               host |-> {"derive", "declassify"}, failing |-> FALSE],
    order |-> [rate |-> 3, messages |-> 3, records |-> 3, depth |-> 2, classes |-> Collected,
               host |-> {}, failing |-> FALSE],
    threads |-> [rate |-> 2, messages |-> 2, records |-> 2, depth |-> 3, classes |-> Collected,
                 host |-> {"quarantine", "prepare", "lapse"}, failing |-> TRUE]]
MCSetups == {SetupOf[x] : x \in DOMAIN SetupOf}

\* The relay has one thread at a time, the others have one channel.
OfTraffic ==
    /\ about # "threads" => clock' = 0
    /\ about = "relay" => Cardinality({t \in Threads : sends'[t] # Nobody}) <= 1
    /\ about # "relay" => DOMAIN channel' \subseteq {"ab"} /\ "c" \notin stale' \cup quarantined'

\* In "order" the channel is granted and the peer "a" has collected a content.
OrderInit ==
    /\ setup = SetupOf.order /\ clock = 0 /\ stale = {} /\ quarantined = {} /\ drafts = {}
    /\ messages = << >> /\ received = {} /\ halted = FALSE /\ inbox = << >>
    /\ channel = [c \in {"ab"} |-> [expires |-> 1, revoked |-> FALSE, start |-> 0,
                                    attempts |-> 0, sequence |-> 0]]
    /\ lineage = <<[actor |-> "a", content |-> "k", labels |-> {"secret"}, parents |-> {},
                    depth |-> 1, established |-> TRUE, complete |-> TRUE, declassified |-> FALSE]>>
    /\ holder = [c \in Channels |-> Nobody]
    /\ sends = [t \in Threads |-> Nobody]
MCInit ==
    /\ about \in {"bytes", "record", "relay", "order", "threads"}
    /\ Artifacts!Init
    /\ IF about = "order" THEN OrderInit
       ELSE Messages!Init /\ setup = (IF about = "relay" THEN SetupOf.relay ELSE SetupOf.threads)
MCNext ==
    /\ \/ about = "bytes" /\ Artifacts!Next /\ OfBytes /\ UNCHANGED traffic
       \/ about = "record" /\ Artifacts!Next /\ OfRecord /\ UNCHANGED traffic
       \/ about \in DOMAIN SetupOf /\ Messages!Next /\ OfTraffic /\ UNCHANGED artifacts
    /\ UNCHANGED about
MCSpec == MCInit /\ [][MCNext]_<<artifacts, traffic, about>>
=============================================================================
