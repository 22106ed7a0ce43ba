-------------------------------- MODULE MCMcp -------------------------------
(***************************************************************************)
(* The MCP proxy and its HTTP transport.  "calls": tool calls and other    *)
(* requests without pins, some of them withdrawn.  "listings": pinned      *)
(* tools that change while they are listed, and a call that is not         *)
(* withdrawn.  Exchanges of the transport: two calls and a deletion of one *)
(* session; two initializations with a stream that may resume one; a call  *)
(* and a cancellation.  "locks": two threads, each in one operation of the *)
(* swarm services.                                                         *)
(***************************************************************************)
EXTENDS Mcp

CONSTANTS i1, i2, i3, n1, n2, c1, c2, get, cancel, delete,
          Threads, Routes, PolicyRuntime, Containment, Approvals  \* of the locks

VARIABLES about, held, ahead

\* Operations of the delegation service, the coordinator, the broker, the
\* policy runtime, the approval service, the credential broker and a gateway of
\* direct agents.
Common == {"issue", "rebind", "fence", "review", "dispatch", "evaluate", "reserve",
           "guarded_dispatch", "broker_dispatch", "broker_cancel", "broker_stop", "activate",
           "record_fence", "approve", "credential", "gateway_prepare", "gateway_forward"}

MCKind == [r \in Requests |->
             IF r \in {n1, n2} THEN "initialize" ELSE IF r \in {c1, c2} THEN "call"
             ELSE IF r = get THEN "get" ELSE IF r = cancel THEN "cancelled" ELSE "delete"]
Exchanges == [deletion |-> {n1, c1, c2, delete}, resumption |-> {n1, n2, get},
              cancellation |-> {n1, c1, cancel}]

\* Of two requests of a kind, the first comes first.
InOrder ==
    /\ step'[n2] # "idle" => step'[n1] # "idle"
    /\ step'[c2] # "idle" => step'[c1] # "idle"

Locks == INSTANCE LockOrder
locks == <<held, ahead>>

\* The listings have two ids and one call, which is not withdrawn, and the calls no pins.
Listing ==
    /\ pending'[i3] = 0 /\ other'[i3] = "none" /\ withdrawn' = {}
    /\ sequence' <= 1 /\ invalid' <= 1

MCInit ==
    /\ about \in {"calls", "listings", "locks"} \cup DOMAIN Exchanges
    /\ Init /\ (Pinned <=> about # "calls")
    /\ Http!Init
    /\ IF about = "locks" THEN Locks!Init
       ELSE held = [t \in Threads |-> {}] /\ ahead = [t \in Threads |-> <<>>]
MCNext ==
    /\ \/ about = "calls" /\ Next /\ UNCHANGED <<transport, locks>>
       \/ about = "listings" /\ Next /\ Listing /\ UNCHANGED <<transport, locks>>
       \/ /\ about \in DOMAIN Exchanges /\ Http!Next /\ UNCHANGED <<vars, locks>>
          /\ InOrder /\ \A r \in Requests \ Exchanges[about] : step'[r] = "idle"
       \/ about = "locks" /\ Locks!Next /\ UNCHANGED <<vars, transport>>
    /\ UNCHANGED about
MCSpec ==
    /\ MCInit /\ [][MCNext]_<<vars, transport, locks, about>>
    /\ Http!Fairness /\ WF_locks(about = "locks" /\ Locks!Next)
-----------------------------------------------------------------------------
\* The deadlines of the transport hold.  Of any two operations on the locks both end,
\* and never wait for each other in a circle: with the barrier in front, reserve and
\* evaluate, which hold the database and want the issuer, and review, which holds the
\* issuer and wants the database, do not need the database's time-out to come apart.
DeadlinesHold ==
    /\ Http!DeadlinesHold
    /\ [](about = "locks" => Locks!TypeOK /\ Locks!NoCircularWait)
    /\ []<>(about = "locks" => \A t \in Threads : Locks!Ended(t))
=============================================================================
