------------------------------- MODULE McpHttp ------------------------------
(***************************************************************************)
(* The HTTP transport of the MCP proxy, ordin/mcp_http.py: one thread for  *)
(* each connection, sessions that the threads share, and a timer that cuts *)
(* the exchange with the upstream off.                                     *)
(*                                                                         *)
(* A request takes a slot, finds or creates its session, is checked and    *)
(* reviewed, connects, sends and reads.  Nothing is locked between these   *)
(* steps.  An initialize request stands for the token of the session it    *)
(* creates.  Header, body, origin and credential checks can only refuse;   *)
(* module McpProxy has the reviewer.                                       *)
(***************************************************************************)
EXTENDS Naturals, FiniteSets

CONSTANTS
    Requests,     \* HTTP requests
    Kind,         \* [Requests -> "initialize", "call", "cancelled", "delete", "get"]
    MaxSlots,     \* MAX_HTTP_CONNECTIONS
    MaxSessions,  \* MAX_HTTP_SESSIONS
    None

Tokens == {r \in Requests : Kind[r] = "initialize"}

\* What is assumed of the constants.
HttpConstants ==
    /\ IsFiniteSet(Requests) /\ None \notin Requests
    /\ Kind \in [Requests -> {"initialize", "call", "cancelled", "delete", "get"}]
    /\ MaxSlots \in Nat \ {0} /\ MaxSessions \in Nat \ {0}

VARIABLES
    step,         \* where the thread of a request is
    of,           \* [Requests -> its session]
    sessions,     \* _sessions
    initialized, failed,  \* sessions with that flag
    active,       \* [Tokens -> active]
    resumable,    \* requests whose stream showed an event id
    answered,     \* requests whose headers were sent
    timer,        \* [Requests -> state of the upstream timer]
    socket,       \* [Requests -> state of _upstream_socket]
    sent,         \* requests the upstream was sent
    expired       \* tokens that _expire has removed

flags == <<initialized, failed>>
table == <<sessions, active, expired>>
wire == <<timer, socket, sent>>
vars == <<step, of, table, flags, resumable, answered, wire>>

Init ==
    /\ step = [r \in Requests |-> "idle"] /\ of = [r \in Requests |-> None]
    /\ sessions = {} /\ initialized = {} /\ failed = {} /\ expired = {}
    /\ active = [t \in Tokens |-> 0]
    /\ resumable = {} /\ answered = {} /\ sent = {}
    /\ timer = [r \in Requests |-> "off"] /\ socket = [r \in Requests |-> "none"]

Goto(r, s) == step' = [step EXCEPT ![r] = s]
Open == {r \in Requests : step[r] \notin {"idle", "done"}}
Users(t) == {r \in Open : of[r] = t}
Posted(r) == Kind[r] \in {"initialize", "call", "cancelled"}
-----------------------------------------------------------------------------
(* Connections and sessions.                                               *)

\* process_request: without a slot the answer is 503.
Accept(r) ==
    /\ step[r] = "idle"
    /\ Goto(r, IF Cardinality(Open) < MaxSlots THEN "open" ELSE "done")
    /\ UNCHANGED <<of, table, flags, resumable, answered, wire>>

\* The sessions that _expire may remove once their time is over.
Idle == {t \in sessions : active[t] = 0}

\* The sessions left after _expire, the ones of gone being too old.
Expire(gone) == expired' = expired \cup gone

\* new_session.
NewSession(r) ==
    /\ step[r] = "open" /\ Kind[r] = "initialize"
    /\ \E gone \in SUBSET Idle :
          /\ Expire(gone)
          /\ IF Cardinality(sessions \ gone) < MaxSessions
             THEN /\ sessions' = (sessions \ gone) \cup {r}
                  /\ active' = [active EXCEPT ![r] = 1]
                  /\ of' = [of EXCEPT ![r] = r] /\ Goto(r, "bound")
             ELSE /\ sessions' = sessions \ gone /\ UNCHANGED <<active, of>>
                  /\ Goto(r, "done")
    /\ UNCHANGED <<flags, resumable, answered, wire>>

\* session: the token of an initialize that the client has seen.
FindSession(r, t) ==
    /\ step[r] = "open" /\ Kind[r] # "initialize" /\ t \in answered
    /\ \E gone \in SUBSET Idle :
          /\ Expire(gone) /\ sessions' = sessions \ gone
          /\ IF t \in sessions \ gone
             THEN /\ active' = [active EXCEPT ![t] = @ + 1]
                  /\ of' = [of EXCEPT ![r] = t] /\ Goto(r, "bound")
             ELSE UNCHANGED <<active, of>> /\ Goto(r, "done")
    /\ UNCHANGED <<flags, resumable, answered, wire>>

\* A request that is malformed, has a wrong credential or names no session.
Malformed(r) ==
    /\ step[r] = "open"
    /\ Goto(r, "done")
    /\ UNCHANGED <<of, table, flags, resumable, answered, wire>>

\* A failed session takes deletions and cancellations only, one that is not
\* initialized also the resumption of its initialization; the reviewer may
\* refuse a message.
Check(r) ==
    /\ step[r] = "bound"
    /\ LET t == of[r]
           barred == \/ t \in failed /\ Kind[r] \notin {"delete", "cancelled"}
                     \/ t \notin initialized /\ Kind[r] = "call" IN
       \/ barred /\ Goto(r, "ending") /\ UNCHANGED answered
       \/ ~barred /\ Goto(r, "reviewed") /\ UNCHANGED answered
       \/ ~barred /\ Posted(r) /\ Goto(r, "ending") /\ answered' = answered \cup {r}
    /\ UNCHANGED <<of, table, flags, resumable, wire>>
-----------------------------------------------------------------------------
(* The exchange with the upstream, and its deadline.                       *)

\* The timer is started before the connection is made.
Connect(r) ==
    /\ step[r] = "reviewed"
    /\ timer' = [timer EXCEPT ![r] = "running"]
    /\ Goto(r, "connected")
    /\ UNCHANGED <<of, table, flags, resumable, answered, socket, sent>>

\* _expire_upstream: the flag is set, then the socket shut down if there is one.
TimerSets(r) ==
    /\ timer[r] = "running"
    /\ timer' = [timer EXCEPT ![r] = "set"]
    /\ UNCHANGED <<step, of, table, flags, resumable, answered, socket, sent>>

TimerShuts(r) ==
    /\ timer[r] = "set"
    /\ timer' = [timer EXCEPT ![r] = "fired"]
    /\ socket' = [socket EXCEPT ![r] = IF @ = "open" THEN "shut" ELSE @]
    /\ UNCHANGED <<step, of, table, flags, resumable, answered, sent>>

\* The connected socket is made visible to the timer.
Publish(r) ==
    /\ step[r] = "connected"
    /\ socket' = [socket EXCEPT ![r] = "open"] /\ Goto(r, "published")
    /\ UNCHANGED <<of, table, flags, resumable, answered, timer, sent>>

\* Mutant of ReadFlag: the flag is not read again after connect.
ReadNothing(r) ==
    /\ step[r] = "published"
    /\ Goto(r, "sending")
    /\ UNCHANGED <<of, table, flags, resumable, answered, wire>>

\* Then its flag is read.
ReadFlag(r) ==
    /\ step[r] = "published"
    /\ Goto(r, IF timer[r] \in {"set", "fired"} THEN "timeout" ELSE "sending")
    /\ UNCHANGED <<of, table, flags, resumable, answered, wire>>

\* upstream.request; a socket that was shut down raises.
Send(r) ==
    /\ step[r] = "sending"
    /\ IF socket[r] = "shut" THEN Goto(r, "broken") /\ UNCHANGED sent
       ELSE Goto(r, "waiting") /\ sent' = sent \cup {r}
    /\ UNCHANGED <<of, table, flags, resumable, answered, timer, socket>>

\* The connection fails, times out or is shut down before it is answered.
Lose(r) ==
    /\ step[r] \in {"connected", "sending", "waiting"}
    /\ Goto(r, "timeout") \/ Goto(r, "broken")
    /\ UNCHANGED <<of, table, flags, resumable, answered, wire>>
-----------------------------------------------------------------------------
(* What the upstream answers.                                              *)

Fail(t) == failed' = failed \cup {t}
Drop(t) == sessions' = sessions \ {t} /\ failed' = failed \cup {t}

\* A status other than success.
HttpError(r) ==
    /\ step[r] = "waiting"
    /\ \/ Drop(of[r])                                     \* 404, or 405 to a DELETE
       \/ UNCHANGED sessions /\ IF Posted(r) THEN Fail(of[r]) ELSE UNCHANGED failed
    /\ Goto(r, "ending")
    /\ UNCHANGED <<of, active, expired, initialized, resumable, answered, wire>>

Deleted(r) ==
    /\ step[r] = "waiting" /\ Kind[r] = "delete"
    /\ Drop(of[r]) /\ Goto(r, "ending")
    /\ UNCHANGED <<of, active, expired, initialized, resumable, answered, wire>>

\* The accepted answer to a notification.
Accepted(r) ==
    /\ step[r] = "waiting" /\ Kind[r] = "cancelled"
    /\ answered' = answered \cup {r} /\ Goto(r, "ending")
    /\ UNCHANGED <<of, table, flags, resumable, wire>>

\* observe: refused for a failed session; the result of an initialize makes
\* the session usable.
Observed(r) ==
    LET t == of[r] IN
    IF t \in failed THEN UNCHANGED initialized
    ELSE \/ initialized' = initialized \cup {t} /\ (Kind[r] \in {"initialize", "get"})
         \/ UNCHANGED initialized /\ Kind[r] # "initialize"

\* A JSON result.
Result(r) ==
    /\ step[r] = "waiting" /\ Kind[r] \in {"initialize", "call"}
    /\ Observed(r)
    /\ answered' = IF of[r] \in failed THEN answered ELSE answered \cup {r}
    /\ Goto(r, "ending")
    /\ UNCHANGED <<of, table, failed, resumable, wire>>

\* The headers of an event stream, and an event with an id.
StreamStarts(r) ==
    /\ step[r] = "waiting" /\ Kind[r] \in {"initialize", "call", "get"}
    /\ answered' = answered \cup {r} /\ Goto(r, "stream")
    /\ UNCHANGED <<of, table, flags, resumable, wire>>

StreamEvent(r) ==
    /\ step[r] = "stream" /\ r \notin resumable
    /\ resumable' = resumable \cup {r}
    /\ UNCHANGED <<step, of, table, flags, answered, wire>>

StreamResult(r) ==
    /\ step[r] = "stream"
    /\ Observed(r) /\ Goto(r, "ending")
    /\ UNCHANGED <<of, table, failed, resumable, answered, wire>>

\* The stream ends or breaks without a result.
StreamEnds(r) ==
    /\ step[r] = "stream"
    /\ \/ UNCHANGED failed                                 \* a disconnect
       \/ r \notin resumable /\ Posted(r) /\ Fail(of[r])   \* its regular end
    /\ Goto(r, "ending")
    /\ UNCHANGED <<of, table, initialized, resumable, answered, wire>>

StreamTimesOut(r) ==
    /\ step[r] = "stream" /\ timer[r] = "fired"
    /\ Goto(r, "timeout")
    /\ UNCHANGED <<of, table, flags, resumable, answered, wire>>

\* An answer that cannot be used.
BadAnswer(r) ==
    /\ step[r] \in {"waiting", "stream"}
    /\ Goto(r, "broken")
    /\ UNCHANGED <<of, table, flags, resumable, answered, wire>>

\* The except clauses of _handle.
Broken(r) ==
    /\ step[r] = "broken"
    /\ Fail(of[r]) /\ Goto(r, "ending")
    /\ UNCHANGED <<of, table, initialized, resumable, answered, wire>>

TimedOut(r) ==
    /\ step[r] = "timeout"
    /\ IF Posted(r) /\ r \notin resumable THEN Fail(of[r]) ELSE UNCHANGED failed
    /\ Goto(r, "ending")
    /\ UNCHANGED <<of, table, initialized, resumable, answered, wire>>

\* Mutant of Stillborn: only a session that failed is given up.
FailedOnly(r) == Kind[r] = "initialize" /\ of[r] \in failed

\* An initialize that failed, or ended without a result that can be resumed.
Stillborn(r) ==
    /\ Kind[r] = "initialize"
    /\ of[r] \in failed \/ (of[r] \notin initialized /\ r \notin resumable)

\* The finally clause; the slot is given back when the thread ends.
End(r) ==
    /\ step[r] = "ending"
    /\ IF Stillborn(r) THEN Drop(of[r]) ELSE UNCHANGED <<sessions, failed>>
    /\ active' = [active EXCEPT ![of[r]] = @ - 1]
    /\ timer' = [timer EXCEPT ![r] = "off"] /\ socket' = [socket EXCEPT ![r] = "none"]
    /\ Goto(r, "done")
    /\ UNCHANGED <<of, expired, initialized, resumable, answered, sent>>
-----------------------------------------------------------------------------
\* Steps that the thread, or its timer, takes without waiting for anybody.
Progress(r) ==
    \/ NewSession(r) \/ Check(r) \/ Connect(r) \/ Publish(r) \/ ReadFlag(r)
    \/ Send(r) \/ StreamTimesOut(r) \/ Broken(r) \/ TimedOut(r) \/ End(r)

Timer(r) == TimerSets(r) \/ TimerShuts(r)

Upstream(r) ==
    \/ HttpError(r) \/ Deleted(r) \/ Accepted(r) \/ Result(r) \/ StreamStarts(r)
    \/ StreamEvent(r) \/ StreamResult(r) \/ StreamEnds(r) \/ BadAnswer(r)

Next ==
    \E r \in Requests :
        \/ Accept(r) \/ Malformed(r) \/ (\E t \in Tokens : FindSession(r, t))
        \/ Progress(r) \/ Timer(r) \/ Lose(r) \/ Upstream(r)

Spec == Init /\ [][Next]_vars

\* Some thread or timer runs whenever one can; a read or a connect ends when its
\* socket is shut down or its own timeout is over.  The upstream owes nothing.
Runs(r) ==
    \/ Progress(r) \/ Timer(r) \/ Malformed(r) \/ (\E t \in Tokens : FindSession(r, t))
    \/ timer[r] = "fired" /\ Lose(r)
Fairness == WF_vars(\E r \in Requests : Runs(r))

FairSpec == Spec /\ Fairness
-----------------------------------------------------------------------------
\* The types of the variables; active counts the threads on a session.
TypeOK ==
    /\ of \in [Requests -> Tokens \cup {None}]
    /\ sessions \subseteq Tokens /\ Cardinality(sessions) <= MaxSessions
    /\ initialized \cup failed \cup expired \subseteq Tokens
    /\ Cardinality(Open) <= MaxSlots
    /\ \A t \in Tokens : active[t] = Cardinality(Users(t))
    /\ resumable \cup answered \cup sent \subseteq Requests

\* A session is not forgotten for its age while a thread works on it.
UsedIsKept == \A t \in expired : Users(t) = {}

\* A session that no thread works on was initialized or can be resumed: a
\* failed initialize does not use up the table of sessions.
NoStillbornSession ==
    \A t \in sessions : active[t] = 0 => t \in initialized \/ t \in resumable

\* The table of sessions is exact: it counts the threads on every session and
\* keeps those in use; of those no thread works on it keeps only the ones that were
\* initialized or can be resumed, none that a failed initialize left behind.
SessionsAreLive == TypeOK /\ UsedIsKept /\ NoStillbornSession

\* The deadline holds whatever the upstream does: nothing is sent once its timer
\* has run, the connections end and their slots are free.
DeadlinesHold ==
    /\ [][\A r \in sent' \ sent : timer[r] # "fired"]_vars
    /\ []<>(Open = {})
=============================================================================
