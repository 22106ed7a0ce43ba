--------------------------- MODULE MessageGateway ---------------------------
(***************************************************************************)
(* Mediated data messages between the agents of a swarm (messages.py) over *)
(* the lineage of labelled contents (source_flow.py, labels.py).           *)
(*                                                                         *)
(* A thread that sends checks its channel, waits for the delivery lock of  *)
(* the channel, admits the message in one critical section, checks again,  *)
(* calls the inbox without the gateway lock and records the outcome in a   *)
(* third section.  Between the sections the operator quarantines peers,    *)
(* enrollments lapse, time passes and other threads send.  An inbox does   *)
(* not send messages itself (docs/swarm/messages.md: callbacks enqueue).   *)
(*                                                                         *)
(* Contents stand for byte strings, the empty set of labels is "public",   *)
(* and the event graph is reduced to what lineage asks of it: whether an   *)
(* output is linked to its inputs, and whether the view has a proof gap,   *)
(* which it has once a peer with events has lapsed.                        *)
(***************************************************************************)
EXTENDS Integers, Sequences, FiniteSets, SequencesExt

CONSTANTS Threads,
          Peers,
          Channels,
          From, To,      \* [Channels -> Peers]
          Allowed,       \* [Channels -> SUBSET Labels]: allowed_labels of the sink
          Contents,
          Labels,        \* the sensitive labels
          Unclassified,
          None,
          Life,          \* ticks a channel and a draft last
          Window,        \* rate_window
          MaxTime,       \* bound on the clock
          Setups         \* what the gateway and its host may be set up to, of Setup

HostActs == {"derive", "declassify", "lapse", "quarantine", "prepare"}

\* rate_limit, max_messages, max_records and max_depth; how the contents that a peer
\* collects are classified; what the host and the operator do; whether event ingestion and
\* inboxes may fail.
Setup ==
    [rate : Nat \ {0}, messages : Nat \ {0}, records : Nat \ {0}, depth : Nat \ {0},
     classes : [Peers -> SUBSET SUBSET (Labels \cup {Unclassified})],
     host : SUBSET HostActs, failing : BOOLEAN]

\* Positions of a thread that has the delivery lock.
Delivering == {"admitted", "checked", "raised", "returned"}

MessageConstants ==
    /\ From \in [Channels -> Peers] /\ To \in [Channels -> Peers]
    /\ Allowed \in [Channels -> SUBSET Labels] /\ Unclassified \notin Labels
    /\ Setups \subseteq Setup /\ {Life, Window} \subseteq Nat \ {0} /\ MaxTime \in Nat
    /\ None \notin Threads
    /\ \A u \in Setups : \A i \in 1..u.messages, c \in Channels, d \in Delivering :
          None # [stage |-> d, channel |-> c, id |-> i]

VARIABLES
    setup,       \* one of Setups
    now,
    stale,       \* peers whose enrollment is no longer current
    quarantined,
    channel,     \* granted channels: expires, revoked, start, attempts, sequence
    lineage,     \* the lineage records, in the order they were saved
    drafts,      \* prepared envelopes
    messages,    \* admitted envelopes, with status; the position is the message id
    received,    \* messages with a message_received event
    gap,         \* _journal_gap
    holder,      \* thread that has the delivery lock of a channel
    call,        \* what each thread is doing
    inbox        \* messages handed to the inbox, in order

flow == <<stale, lineage>>
vars == <<setup, now, stale, quarantined, channel, lineage, drafts, messages, received, gap, holder, call, inbox>>

Init ==
    /\ setup \in Setups
    /\ now = 0 /\ stale = {} /\ quarantined = {}
    /\ channel = << >>
    /\ lineage = << >> /\ drafts = {} /\ messages = << >> /\ received = {}
    /\ gap = FALSE
    /\ holder = [c \in Channels |-> None]
    /\ call = [t \in Threads |-> None]
    /\ inbox = << >>

-----------------------------------------------------------------------------
(* Lineage.                                                                *)

Records == DOMAIN lineage

\* The view of the causal graph has a proof gap.
ViewGap == \E r \in Records : lineage[r].actor \in stale

Depth(parents) == 1 + Max({0} \cup {lineage[p].depth : p \in parents})
Room(parents) == Len(lineage) < setup.records /\ Depth(parents) <= setup.depth

Saved(p, content, ls, parents, established, complete, declassified) ==
    Append(lineage, [actor |-> p, content |-> content, labels |-> ls, parents |-> parents,
                     depth |-> Depth(parents), established |-> established, complete |-> complete,
                     declassified |-> declassified])

Current(r) == lineage[r].actor \notin stale

\* Mutant of Join: the labels of one input.
JoinFirst(parents) == lineage[CHOOSE r \in parents : \A x \in parents : r <= x].labels

\* Sensitivity.join of the inputs.
Join(parents) == UNION {lineage[r].labels : r \in parents}

\* derive: the output has the labels of all inputs, and is unclassified as well if the
\* collector does not know them all.
Derived(p, content, parents, linked, complete) ==
    LET links == linked /\ \A r \in parents : lineage[r].established
    IN  Saved(p, content, Join(parents) \cup (IF complete THEN {} ELSE {Unclassified}), parents,
              links /\ ~ViewGap,
              complete /\ links /\ ~ViewGap /\ \A r \in parents : lineage[r].complete, FALSE)

\* The host registers bytes it has collected and classified for a peer.
Register(p, content, ls) ==
    /\ p \notin stale /\ Room({})
    /\ lineage' = Saved(p, content, ls, {}, ~ViewGap, ~ViewGap, FALSE)
    /\ UNCHANGED <<now, stale, quarantined, channel, drafts, messages, received, gap, holder, call, inbox>>

\* The host reports a transformation.  The graph links it to records of the same peer.
Derive(p, content, parents, linked, complete) ==
    /\ p \notin stale /\ Room(parents) /\ \A r \in parents : Current(r)
    /\ linked => \A r \in parents : lineage[r].actor = p
    /\ lineage' = Derived(p, content, parents, linked, complete)
    /\ UNCHANGED <<now, stale, quarantined, channel, drafts, messages, received, gap, holder, call, inbox>>

Declassify(r, ls) ==
    /\ Current(r) /\ lineage[r].established /\ lineage[r].complete /\ Room({r})
    /\ lineage' = Saved(lineage[r].actor, lineage[r].content, ls, {r}, TRUE, TRUE, TRUE)
    /\ UNCHANGED <<now, stale, quarantined, channel, drafts, messages, received, gap, holder, call, inbox>>

Lapse(p) ==
    /\ p \notin stale /\ stale' = stale \cup {p}
    /\ UNCHANGED <<now, quarantined, channel, lineage, drafts, messages, received, gap, holder, call, inbox>>

\* assess refuses inputs of another peer, or that are not the exact bytes of the body.
Usable(p, content, inputs) ==
    /\ \A r \in inputs : lineage[r].actor = p /\ lineage[r].content = content
    /\ p \notin stale

\* An established sensitive input is not allowed at the sink.
Violated(c, inputs) ==
    \E r \in inputs : /\ lineage[r].established
                      /\ lineage[r].labels \cap Labels # {}
                      /\ ~(lineage[r].labels \ {Unclassified} \subseteq Allowed[c])

Satisfied(c, inputs) ==
    /\ ~Violated(c, inputs) /\ ~ViewGap
    /\ \A r \in inputs : lineage[r].complete /\ Unclassified \notin lineage[r].labels

-----------------------------------------------------------------------------
(* Channels and drafts.                                                    *)

Active(p) == p \notin quarantined /\ p \notin stale

Open(c) == /\ c \in DOMAIN channel /\ ~channel[c].revoked /\ now < channel[c].expires
           /\ Active(From[c]) /\ Active(To[c])

Grant(c) ==
    /\ c \notin DOMAIN channel /\ Active(From[c]) /\ Active(To[c])
    /\ LET row == [expires |-> now + Life, revoked |-> FALSE, start |-> now, attempts |-> 0, sequence |-> 0]
       IN  channel' = [d \in DOMAIN channel \cup {c} |-> IF d = c THEN row ELSE channel[d]]
    /\ UNCHANGED <<now, flow, quarantined, drafts, messages, received, gap, holder, call, inbox>>

\* The channels once those of peer p are revoked.
Cut(chs, p) == [c \in DOMAIN chs |-> IF p \in {From[c], To[c]} THEN [chs[c] EXCEPT !.revoked = TRUE] ELSE chs[c]]

Quarantine(p) ==
    /\ p \notin quarantined
    /\ quarantined' = quarantined \cup {p}
    /\ channel' = Cut(channel, p)
    /\ UNCHANGED <<now, flow, drafts, messages, received, gap, holder, call, inbox>>

Envelope(c, content, inputs) ==
    [channel |-> c, sequence |-> channel[c].sequence + 1, content |-> content, inputs |-> inputs,
     expires |-> IF now + Life < channel[c].expires THEN now + Life ELSE channel[c].expires]

\* A draft is metadata; a proposal that would violate the flow quarantines its sender.
Prepare(c, content, inputs) ==
    /\ Open(c) /\ Usable(From[c], content, inputs)
    /\ LET kept == {d \in drafts : d.expires > now}
       IN  /\ Cardinality(kept) < setup.messages
           /\ \/ /\ Satisfied(c, inputs)
                 /\ drafts' = kept \cup {Envelope(c, content, inputs)}
                 /\ UNCHANGED <<quarantined, channel>>
              \/ /\ ~Satisfied(c, inputs)
                 /\ drafts' = kept
                 /\ quarantined' = IF Violated(c, inputs) THEN quarantined \cup {From[c]} ELSE quarantined
                 /\ channel' = IF Violated(c, inputs) THEN Cut(channel, From[c]) ELSE channel
    /\ UNCHANGED <<now, flow, messages, received, gap, holder, call, inbox>>

-----------------------------------------------------------------------------
(* A send or a submission by thread t.                                     *)

\* send makes its envelope when it is admitted: draft is None.
Enter(t, c, draft, content, inputs) ==
    /\ call[t] = None /\ Open(c)
    /\ draft # None => draft.channel = c /\ draft.content = content /\ draft.inputs = inputs
    /\ call' = [call EXCEPT ![t] = [stage |-> "wait", channel |-> c, draft |-> draft,
                                    content |-> content, inputs |-> inputs]]
    /\ UNCHANGED <<now, flow, quarantined, channel, drafts, messages, received, gap, holder, inbox>>

\* The channel after an attempt is counted in its rate window.
Counted(c) == IF now - channel[c].start >= Window
              THEN [channel[c] EXCEPT !.start = now, !.attempts = 1]
              ELSE [channel[c] EXCEPT !.attempts = @ + 1]

\* The attempts of the window are not used up.
WithinRate(c) == now - channel[c].start >= Window \/ channel[c].attempts < setup.rate

Fresh(c, e) == e.sequence = channel[c].sequence + 1 /\ now < e.expires

\* Why a message is refused, in the order of the code.  The last three have counted the attempt.
Refusal(t) ==
    LET c == call[t].channel
        e == call[t].draft
    IN  IF ~Open(c) \/ gap \/ Len(messages) >= setup.messages \/ ~WithinRate(c) THEN "early"
        ELSE IF (e # None /\ e \notin drafts) \/ ~Usable(From[c], call[t].content, call[t].inputs) THEN "counted"
        ELSE IF ~Satisfied(c, call[t].inputs)
             THEN IF Violated(c, call[t].inputs) THEN "violated" ELSE "counted"
        ELSE IF e # None /\ ~Fresh(c, e) THEN "counted"
        ELSE "none"

Envelopes(t) == IF call[t].draft = None THEN Envelope(call[t].channel, call[t].content, call[t].inputs)
                ELSE call[t].draft

\* The thread has the delivery lock and its message is refused.
Refuse(t) ==
    /\ call[t] # None /\ call[t].stage = "wait" /\ holder[call[t].channel] = None
    /\ Refusal(t) # "none"
    /\ LET c == call[t].channel
           counted == IF Refusal(t) = "early" THEN channel ELSE [channel EXCEPT ![c] = Counted(c)]
       IN  /\ channel' = IF Refusal(t) = "violated" THEN Cut(counted, From[c]) ELSE counted
           /\ quarantined' = IF Refusal(t) = "violated" THEN quarantined \cup {From[c]} ELSE quarantined
    /\ call' = [call EXCEPT ![t] = None]
    /\ UNCHANGED <<now, flow, drafts, messages, received, gap, holder, inbox>>

\* The message is admitted: its id is used, and a message_sent event recorded.  When that
\* fails nothing is delivered and the gateway refuses all further messages.
Admit(t) ==
    /\ call[t] # None /\ call[t].stage = "wait" /\ holder[call[t].channel] = None
    /\ Refusal(t) = "none"
    /\ LET c == call[t].channel
       IN  /\ channel' = [channel EXCEPT ![c] = [Counted(c) EXCEPT !.sequence = @ + 1]]
           /\ messages' = Append(messages, [envelope |-> Envelopes(t), status |-> "unknown"])
           /\ drafts' = drafts \ {call[t].draft}
           /\ \/ /\ gap' = gap
                 /\ holder' = [holder EXCEPT ![c] = t]
                 /\ call' = [call EXCEPT ![t] = [stage |-> "admitted", channel |-> c, id |-> Len(messages) + 1]]
              \/ /\ setup.failing /\ gap' = TRUE
                 /\ holder' = holder
                 /\ call' = [call EXCEPT ![t] = None]
    /\ UNCHANGED <<now, flow, quarantined, received, inbox>>

InStage(t, stage) == call[t] # None /\ call[t].stage = stage
Expired(t) == now >= messages[call[t].id].envelope.expires

\* _deliver looks once more before it calls the inbox.
Check(t) ==
    /\ InStage(t, "admitted")
    /\ call' = [call EXCEPT ![t].stage = IF Open(call[t].channel) /\ ~Expired(t) THEN "checked" ELSE "raised"]
    /\ UNCHANGED <<now, flow, quarantined, channel, drafts, messages, received, gap, holder, inbox>>

\* The inbox takes the message and returns, or raises having taken it or not.
Invoke(t) ==
    /\ InStage(t, "checked")
    /\ \/ inbox' = Append(inbox, call[t].id) /\ call' = [call EXCEPT ![t].stage = "returned"]
       \/ /\ setup.failing /\ inbox' \in {inbox, Append(inbox, call[t].id)}
          /\ call' = [call EXCEPT ![t].stage = "raised"]
    /\ UNCHANGED <<now, flow, quarantined, channel, drafts, messages, received, gap, holder>>

Done(t) == /\ call' = [call EXCEPT ![t] = None]
           /\ holder' = [holder EXCEPT ![call[t].channel] = None]

\* Delivery is uncertain: the channel is closed and the status stays unknown.
Uncertain(t) ==
    /\ InStage(t, "raised")
    /\ channel' = [channel EXCEPT ![call[t].channel].revoked = TRUE]
    /\ Done(t)
    /\ UNCHANGED <<now, flow, quarantined, drafts, messages, received, gap, inbox>>

\* Mutant of Receipt: the message is delivered once the event is recorded.
ReceiptEarly(t) ==
    LET e == messages[call[t].id].envelope
        event == Open(call[t].channel) /\ ~Expired(t)
        derived == event /\ Room(e.inputs) /\ \A r \in e.inputs : Current(r)
        record == Derived(To[call[t].channel], e.content, e.inputs, TRUE, TRUE)
    IN  /\ InStage(t, "returned")
        /\ \/ /\ received' = IF event THEN received \cup {call[t].id} ELSE received
              /\ lineage' = IF derived THEN record ELSE lineage
              /\ IF event
                 THEN messages' = [messages EXCEPT ![call[t].id].status = "delivered"] /\ UNCHANGED gap
                 ELSE gap' = TRUE /\ UNCHANGED messages
           \/ setup.failing /\ gap' = TRUE /\ UNCHANGED <<received, lineage, messages>>
        /\ Done(t)
        /\ UNCHANGED <<now, stale, quarantined, channel, drafts, inbox>>

\* The receipt: a message_received event, the lineage of the recipient, and the outcome.
Receipt(t) ==
    LET e == messages[call[t].id].envelope
        event == Open(call[t].channel) /\ ~Expired(t)
        derived == event /\ Room(e.inputs) /\ \A r \in e.inputs : Current(r)
        record == Derived(To[call[t].channel], e.content, e.inputs, TRUE, TRUE)
    IN  /\ InStage(t, "returned")
        /\ \/ /\ received' = IF event THEN received \cup {call[t].id} ELSE received
              /\ lineage' = IF derived THEN record ELSE lineage
              /\ IF derived /\ Last(record).complete
                 THEN messages' = [messages EXCEPT ![call[t].id].status = "delivered"] /\ UNCHANGED gap
                 ELSE gap' = TRUE /\ UNCHANGED messages
           \/ setup.failing /\ gap' = TRUE /\ UNCHANGED <<received, lineage, messages>>
        /\ Done(t)
        /\ UNCHANGED <<now, stale, quarantined, channel, drafts, inbox>>

Tick == /\ now < MaxTime /\ now' = now + 1
        /\ UNCHANGED <<flow, quarantined, channel, drafts, messages, received, gap, holder, call, inbox>>

-----------------------------------------------------------------------------

\* The sets of records a call may name: one or two.
Inputs == {x \in SUBSET Records : Cardinality(x) \in 1..2}

HostActions ==
    \/ \E p \in Peers, k \in Contents : \E ls \in setup.classes[p] : Register(p, k, ls)
    \/ /\ "derive" \in setup.host
       /\ \E p \in Peers, k \in Contents, x \in Inputs, linked, complete \in BOOLEAN :
              Derive(p, k, x, linked, complete)
    \/ "declassify" \in setup.host /\ \E r \in Records : Declassify(r, {})
    \/ "lapse" \in setup.host /\ \E p \in Peers : Lapse(p)
    \/ "quarantine" \in setup.host /\ \E p \in Peers : Quarantine(p)
    \/ \E c \in Channels : Grant(c)
    \/ /\ "prepare" \in setup.host
       /\ \E c \in Channels, k \in Contents, x \in Inputs : Prepare(c, k, x)
    \/ Tick

Sends(t) ==
    \/ \E c \in Channels, k \in Contents, x \in Inputs, d \in drafts \cup {None} : Enter(t, c, d, k, x)
    \/ Refuse(t) \/ Admit(t) \/ Check(t) \/ Invoke(t) \/ Uncertain(t) \/ Receipt(t)

Next == (HostActions \/ \E t \in Threads : Sends(t)) /\ UNCHANGED setup

Spec == Init /\ [][Next]_vars

-----------------------------------------------------------------------------
(* Properties.                                                             *)

TypeOK ==
    /\ setup \in Setups
    /\ now \in 0..MaxTime /\ stale \subseteq Peers /\ quarantined \subseteq Peers
    /\ DOMAIN channel \subseteq Channels
    /\ \A c \in DOMAIN channel : channel[c].attempts \in 0..setup.rate /\ channel[c].sequence \in 0..setup.messages
    /\ Len(lineage) <= setup.records /\ \A r \in Records : lineage[r].depth \in 1..setup.depth
    /\ Len(messages) <= setup.messages /\ received \subseteq DOMAIN messages
    /\ gap \in BOOLEAN
    /\ \A c \in Channels : holder[c] \in Threads \cup {None}
    /\ \A t \in Threads : call[t] = None \/ call[t].stage \in Delivering \cup {"wait"}

\* The work of no thread.
Settled(i) == \A t \in Threads : call[t] = None \/ call[t].stage = "wait" \/ call[t].id # i

\* No two messages have the same envelope and no message reaches an inbox twice, however often
\* its draft is submitted by whatever threads ("duplicate and conflicting submissions cannot
\* invoke the inbox again", docs/swarm/messages.md; messages.py _admit).
OneInvocation ==
    /\ IsInjective(inbox)
    /\ \A i, j \in DOMAIN messages : (i # j /\ messages[i].envelope.channel = messages[j].envelope.channel) =>
           messages[i].envelope.sequence # messages[j].envelope.sequence

\* An inbox sees the messages of a channel in the order of their sequence numbers although
\* the gateway lock is free while it runs (messages.py delivery_lock).
InOrder ==
    \A i, j \in DOMAIN inbox :
        LET a == messages[inbox[i]].envelope
            b == messages[inbox[j]].envelope
        IN  i < j /\ a.channel = b.channel => a.sequence < b.sequence

\* With a record, the ones it was made from, unless it was declassified.
Traced(S) == \A x \in S : ~lineage[x].declassified => lineage[x].parents \subseteq S

\* Every label of every record from which r was made, without a declassification on the way.
Ancestral(r) ==
    LET traces == {S \in SUBSET Records : r \in S /\ Traced(S)}
    IN  UNION {lineage[x].labels : x \in {y \in Records : \A S \in traces : y \in S}}

\* What an inbox gets is allowed at its sink whatever path it took: over several peers, with
\* several inputs and through transformations, no label of a source is lost unless the
\* operator declassified it (source_flow.py derive, assess).
NoLaundering ==
    \A i \in DOMAIN inbox :
        LET e == messages[inbox[i]].envelope
        IN  \A r \in e.inputs : Ancestral(r) \subseteq Allowed[e.channel]

\* "delivered" is said of a message only if the inbox has it, the received event is recorded
\* and its recipient has a complete record of it; a received event without that outcome has
\* stopped the gateway (messages.py _deliver).
ReceiptsAgree ==
    \A i \in DOMAIN messages : Settled(i) =>
        /\ messages[i].status = "delivered" =>
              /\ i \in received /\ Contains(inbox, i)
              /\ \E r \in Records : /\ lineage[r].actor = To[messages[i].envelope.channel] /\ lineage[r].complete
                                    /\ lineage[r].parents = messages[i].envelope.inputs
        /\ i \in received /\ messages[i].status # "delivered" => gap

\* A message whose delivery is uncertain is the last one of its channel: the channel is
\* closed or the gateway stopped before another thread is admitted to it ("There is no
\* automatic retry after an uncertain external effect", docs/swarm/messages.md).
UncertainIsLast ==
    \A i \in DOMAIN messages :
        LET e == messages[i].envelope
        IN  Settled(i) /\ messages[i].status = "unknown" =>
                /\ gap \/ channel[e.channel].revoked
                /\ \A j \in DOMAIN messages : j > i => messages[j].envelope.channel # e.channel

\* An inbox sees a channel in the order of its numbers, a draft is delivered at most once, an
\* uncertain delivery is the last of its channel, and "delivered" agrees with the inbox, the
\* event and the lineage.
DeliveriesAgree == OneInvocation /\ InOrder /\ UncertainIsLast /\ ReceiptsAgree
=============================================================================
