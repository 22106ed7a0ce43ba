------------------------------ MODULE McpProxy ------------------------------
(***************************************************************************)
(* The MCP reviewer, MCPStdioSafetyProxy of ordin/mcp_proxy.py, with its   *)
(* integration session (ordin/session.py) and its observer of pinned tool  *)
(* contracts (ordin/mcp_contracts.py), between a client and a server.      *)
(*                                                                         *)
(* Each message of the client or of the server is handled under one lock   *)
(* and is one action.  Messages of the server arrive in any order, as they *)
(* do on the streams of the HTTP transport.  A refused message changes     *)
(* nothing unless it is shown.  A tool table is the number of changes it   *)
(* has seen; a listing comes in two pages, and the age of an inventory is  *)
(* that of its oldest page.                                                *)
(***************************************************************************)
EXTENDS Naturals, Sequences, FiniteSets

CONSTANTS
    Ids,        \* JSON-RPC request ids of the client
    History,    \* MAX_ACTION_HISTORY
    MaxCalls,   \* bound of _pending
    MaxOther,   \* bound of _other_pending
    MaxActions, MaxChanges, MaxInvalid,  \* bounds of the model
    None

\* What the proofs and the instances assume of the constants.
ProxyConstants ==
    /\ IsFiniteSet(Ids) /\ None \notin Ids
    /\ {History, MaxCalls, MaxOther} \subseteq Nat \ {0}
    /\ {MaxActions, MaxChanges, MaxInvalid} \subseteq Nat

VARIABLES
    sequence,  \* _sequence: number of the last action
    actions,   \* the retained window of the session, oldest first
    denied,    \* _denied of the session
    evidence,  \* _observations: the retained actions with the action answered
    pending,   \* [Ids -> action in flight, 0 without one]
    other,     \* [Ids -> method of another request in flight]
    contracts, \* the contract observer, of status "none" without a contract lock
    withdrawn, \* history: ids in flight that were canceled or never sent
    owed,      \* requests the server has and did not answer for good
    replies,   \* messages of the server under way
    table,     \* changes of the server's tool table
    notified,  \* changes the proxy was notified of
    invalid    \* malformed answers so far

session == <<sequence, actions, denied, evidence>>
server == <<owed, replies, table, invalid>>
vars == <<session, pending, other, contracts, withdrawn, server, notified>>

Actions == 1..MaxActions
Blank(s) == [request |-> None, cursor |-> FALSE, seen |-> FALSE,
             building |-> None, live |-> None, status |-> s]

Init ==
    /\ sequence = 0 /\ actions = <<>> /\ denied = {} /\ evidence = {}
    /\ pending = [i \in Ids |-> 0] /\ other = [i \in Ids |-> "none"]
    /\ contracts \in {Blank("none"), Blank("missing")} /\ withdrawn = {}
    /\ owed = {} /\ replies = {} /\ table = 0 /\ notified = 0 /\ invalid = 0

Pinned == contracts.status # "none"
InFlight == {i \in Ids : pending[i] # 0}
Waiting == {i \in Ids : other[i] # "none"}
Retained == {actions[n] : n \in 1..Len(actions)}
Answers(a) == {e \in evidence : e.action = a}
-----------------------------------------------------------------------------
(* Messages of the client.                                                 *)

\* One id is in flight once, over all methods.
Duplicate(i) == i \in InFlight \cup Waiting

\* Mutant of WouldEvict: the window is not looked at.
NeverEvicts == FALSE

\* session._would_evict: the next action pushes out one that is in flight.
WouldEvict == Len(actions) >= History /\ \E i \in InFlight : pending[i] = actions[1]

\* The checks of tools/call that precede the review.
Admitted(i) ==
    /\ sequence < MaxActions
    /\ Cardinality(InFlight) < MaxCalls /\ ~WouldEvict /\ ~Duplicate(i)

\* session.evaluate: the action joins the window and the oldest one leaves
\* it, with its denial and its observation.
Evaluate(verdict) ==
    LET a == sequence + 1
        all == Append(actions, a)
        kept == IF Len(all) > History THEN Tail(all) ELSE all
        ids == {kept[n] : n \in 1..Len(kept)} IN
    /\ sequence' = a /\ actions' = kept
    /\ denied' = (denied \cup (IF verdict = "deny" THEN {a} ELSE {})) \cap ids
    /\ evidence' = {e \in evidence : e.action \in ids}

\* With pins, to execute takes a complete inventory.
Reviewed == Pinned => contracts.status = "complete"

\* tools/call: reviewed, and put in flight and forwarded when it may execute.
Call(i, verdict) ==
    /\ Admitted(i)
    /\ verdict = "execute" => Reviewed
    /\ Evaluate(verdict)
    /\ IF verdict = "execute"
       THEN /\ pending' = [pending EXCEPT ![i] = sequence']
            /\ owed' = owed \cup {[id |-> i, kind |-> "call", of |-> sequence']}
            /\ withdrawn' = withdrawn \ {i}
       ELSE UNCHANGED <<pending, owed, withdrawn>>
    /\ UNCHANGED <<other, contracts, replies, table, invalid, notified>>

\* initialize, ping and the like.
Ping(i) ==
    /\ ~Duplicate(i) /\ Cardinality(Waiting) < MaxOther
    /\ other' = [other EXCEPT ![i] = "ping"]
    /\ owed' = owed \cup {[id |-> i, kind |-> "ping", of |-> 0]}
    /\ UNCHANGED <<session, pending, contracts, withdrawn, replies, table, invalid, notified>>

\* tools/list without a cursor begins an inventory, with one it continues it.
ListTools(i, next) ==
    /\ Pinned /\ ~Duplicate(i) /\ Cardinality(Waiting) < MaxOther
    /\ contracts.request = None
    /\ IF next /\ (~contracts.cursor \/ contracts.seen)
       THEN contracts' = Blank("ambiguous") /\ UNCHANGED <<other, owed>>
       ELSE /\ contracts' = IF next THEN [contracts EXCEPT !.request = i, !.seen = TRUE]
                            ELSE [Blank("unverified") EXCEPT !.request = i]
            /\ other' = [other EXCEPT ![i] = "list"]
            /\ owed' = owed \cup {[id |-> i, kind |-> "list", of |-> IF next THEN 2 ELSE 1]}
    /\ UNCHANGED <<session, pending, withdrawn, replies, table, invalid, notified>>

\* SwarmMCPAdapter.call: the proxy has put the call in flight when prepare, or
\* forward before it calls the transport, raises; nothing is sent.
Unsent(i) ==
    /\ Admitted(i) /\ Reviewed
    /\ Evaluate("execute")
    /\ pending' = [pending EXCEPT ![i] = sequence']
    /\ withdrawn' = withdrawn \cup {i}
    /\ UNCHANGED <<other, contracts, server, notified>>

\* notifications/cancelled is forwarded, and the server need not answer a
\* request that was canceled.
Cancel(i) ==
    /\ i \in InFlight
    /\ owed' = {q \in owed : q.id # i}
    /\ withdrawn' = withdrawn \cup {i}
    /\ UNCHANGED <<session, pending, other, contracts, replies, table, invalid, notified>>

\* reset_session.
Reset ==
    /\ InFlight = {} /\ Waiting = {} /\ actions # <<>>
    /\ actions' = <<>> /\ denied' = {} /\ evidence' = {}
    /\ UNCHANGED <<sequence, pending, other, contracts, withdrawn, server, notified>>
-----------------------------------------------------------------------------
(* The server, external: it answers each request once, possibly after a    *)
(* malformed attempt on the same stream, and announces each change of its  *)
(* tool table.                                                             *)

Reply(q, kind) == [id |-> q.id, kind |-> kind, of |-> q.of, at |-> table]

Answer(q) ==
    /\ \A r \in replies : r.id # q.id
    /\ owed' = owed \ {q}
    /\ replies' = replies \cup {Reply(q, q.kind)}
    /\ UNCHANGED <<session, pending, other, contracts, withdrawn, table, invalid, notified>>

Malformed(q) ==
    /\ invalid < MaxInvalid /\ invalid' = invalid + 1
    /\ IF q.kind = "call" THEN UNCHANGED owed ELSE owed' = owed \ {q}
    /\ replies' = replies \cup {Reply(q, "malformed")}
    /\ UNCHANGED <<session, pending, other, contracts, withdrawn, table, notified>>

Change ==
    /\ Pinned /\ table < MaxChanges /\ table' = table + 1
    /\ replies' = replies \cup {[id |-> None, kind |-> "changed", of |-> 0, at |-> table']}
    /\ UNCHANGED <<session, pending, other, contracts, withdrawn, owed, invalid, notified>>
-----------------------------------------------------------------------------
(* observe_server_message.                                                 *)

Older(x, y) == IF x = None \/ y < x THEN y ELSE x

\* response of the observer: only to the request it waits for.
ContractResponse(r) ==
    IF contracts.request # r.id THEN contracts
    ELSE IF r.kind # "list" THEN Blank("invalid")
    ELSE LET age == Older(contracts.building, r.at) IN
         IF r.of = 1
         THEN [contracts EXCEPT !.request = None, !.cursor = TRUE, !.building = age]
         ELSE [contracts EXCEPT !.request = None, !.cursor = FALSE, !.building = None,
                                !.live = age, !.status = "complete"]

\* A terminal response takes another request out of flight ...
ObserveOther(r) ==
    /\ r.id \in Waiting
    /\ other' = [other EXCEPT ![r.id] = "none"]
    /\ contracts' = IF other[r.id] = "list" /\ Pinned THEN ContractResponse(r) ELSE contracts
    /\ UNCHANGED <<session, pending, withdrawn, notified>>

\* ... or is the observation of a tool call; a malformed one raises, and the
\* call stays in flight; an unknown id is only relayed.
ObserveCall(r) ==
    /\ r.id \in Ids \ Waiting
    /\ IF r.id \in InFlight /\ r.kind # "malformed"
       THEN /\ evidence' = evidence \cup {[action |-> pending[r.id], answers |-> r.of]}
            /\ pending' = [pending EXCEPT ![r.id] = 0]
            /\ withdrawn' = withdrawn \ {r.id}
       ELSE UNCHANGED <<evidence, pending, withdrawn>>
    /\ UNCHANGED <<sequence, actions, denied, other, contracts, notified>>

\* invalidate.
Invalidated == Blank("unverified")

\* notifications/tools/list_changed.
ObserveChange(r) ==
    /\ r.kind = "changed"
    /\ contracts' = IF Pinned THEN Invalidated ELSE contracts
    /\ notified' = IF r.at > notified THEN r.at ELSE notified
    /\ UNCHANGED <<session, pending, other, withdrawn>>

Observe(r) ==
    /\ replies' = replies \ {r}
    /\ ObserveOther(r) \/ ObserveCall(r) \/ ObserveChange(r)
    /\ UNCHANGED <<owed, table, invalid>>
-----------------------------------------------------------------------------
Client ==
    \/ \E i \in Ids : \/ \E v \in {"execute", "escalate", "deny"} : Call(i, v)
                      \/ Ping(i) \/ Unsent(i) \/ Cancel(i)
                      \/ \E next \in BOOLEAN : ListTools(i, next)
    \/ Reset

Next ==
    \/ Client \/ Change
    \/ \E q \in owed : Answer(q) \/ Malformed(q)
    \/ \E r \in replies : Observe(r)

Spec == Init /\ [][Next]_vars
-----------------------------------------------------------------------------
\* The types of the variables, with the bounds of the window and of the
\* requests in flight.
TypeOK ==
    /\ sequence \in 0..MaxActions
    /\ actions \in Seq(Actions) /\ Len(actions) <= History
    /\ denied \subseteq Retained
    /\ evidence \subseteq [action : Retained, answers : 0..MaxActions]
    /\ pending \in [Ids -> 0..MaxActions] /\ Cardinality(InFlight) <= MaxCalls
    /\ other \in [Ids -> {"none", "ping", "list"}] /\ Cardinality(Waiting) <= MaxOther
    /\ withdrawn \subseteq InFlight
    /\ contracts.status \in {"none", "missing", "unverified", "ambiguous", "invalid", "complete"}

\* A call in flight is still in the window, was not denied and has no
\* observation yet, so that session.observe accepts its result whenever that
\* comes, however many other actions were reviewed in the meantime.
InFlightRetained ==
    \A i \in InFlight :
        pending[i] \in Retained /\ pending[i] \notin denied /\ Answers(pending[i]) = {}

\* What is on record as the result of an action is the server's answer to
\* that action, and there is one, although ids are used again.
EvidenceIsTheAnswer ==
    \A e \in evidence : e.answers = e.action /\ Answers(e.action) = {e}

\* A complete inventory is not older than the last change the proxy was told
\* of: old pages and late listings do not make it complete again.
InventoryIsCurrent == contracts.status = "complete" => contracts.live >= notified

\* A call in flight is one the server still owes an answer to, or whose answer is
\* under way, also after a malformed attempt; only a call that was withdrawn
\* (canceled by the client or never sent by the gateway) may have neither.  So
\* the result a refused client is told to wait for, and a reset, can come.
Due(i) ==
    \/ \E q \in owed : q.id = i /\ q.of = pending[i]
    \/ \E r \in replies : r.id = i /\ r.kind = "call" /\ r.of = pending[i]
AnswerIsDue == \A i \in InFlight \ withdrawn : Due(i)

\* Answers come in any order, late, twice or malformed: each finds its action in
\* the window, and the inventory is not made of old ones.
AnswersAreKept ==
    TypeOK /\ InFlightRetained /\ EvidenceIsTheAnswer /\ InventoryIsCurrent /\ AnswerIsDue
=============================================================================
