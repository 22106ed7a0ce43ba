--------------------------- MODULE TemporalEngine ---------------------------
(***************************************************************************)
(* Temporal rules over the causal graph of a swarm (temporal.py,           *)
(* temporal_policy.py): facts recorded for ingested events, the coverage   *)
(* the host declares, the automaton of path rules, the quota of counting   *)
(* rules, the verdict, and the receipts that recorded facts fence.         *)
(*                                                                         *)
(* An event names its parents when it is ingested; a parent may arrive     *)
(* later.  Event ids are numbers, ordered as the ids of the code are, and  *)
(* Current is the proposal under evaluation.  What a predicate of a rule   *)
(* says of an action is one of a few classes.  An edge between two agents  *)
(* is a handoff that the graph verified, the transfer a predicate may ask  *)
(* for; EventIngest models how edges are verified.  The policy has one     *)
(* rule of scope swarm whose last predicate the proposal satisfies.        *)
(***************************************************************************)
EXTENDS Integers, Sequences, FiniteSets, FiniteSetsExt, SequencesExt, Functions

CONSTANTS Events,      \* event ids, positive numbers
          Agents,      \* the agents, each with one source
          Collected,   \* the agents whose host may declare coverage
          Proposer,    \* the agent that proposes the current action
          Classes,     \* what predicates tell apart in an action
          Rule,        \* aggregation, pattern, events, seconds, quota, countBy
          None,
          StateLimit,  \* max_states
          MaxTime,     \* bound on the clock
          MaxUpgrades, \* bound on policy upgrades
          MaxReceipts  \* bound on receipts

Current == 0

\* A path rule of two to eight predicates, or a counting rule of one and the current one.
\* The predicate of the current action is not in the sequence: the proposal satisfies it.
RuleIsCompiled ==
    /\ Rule.aggregation \in {"path", "causal_ancestors"} /\ Rule.countBy \in {"events", "agents"}
    /\ {Rule.events, Rule.quota} \subseteq Nat \ {0} /\ Rule.seconds \in Nat \ {0}
    /\ \A i \in DOMAIN Rule.pattern : /\ Rule.pattern[i].class \in Classes
                                      /\ Rule.pattern[i].relation \in {"any", "same", "different"}
                                      /\ Rule.pattern[i].transfer \in BOOLEAN
    /\ Rule.aggregation = "path" => Len(Rule.pattern) >= 1 /\ Rule.pattern[1].relation = "any"
    /\ Rule.aggregation = "causal_ancestors" => Len(Rule.pattern) = 1 /\ Rule.quota < Rule.events
EngineConstants ==
    RuleIsCompiled /\ Events \subseteq Nat \ {0} /\ Proposer \in Agents /\ Collected \subseteq Agents

VARIABLES
    now,
    event,      \* ingested events: agent and parents
    fact,       \* _facts: class and observed_at of an event
    coverage,   \* [Agents -> complete_from, None if not declared]
    generation, \* _generation
    receipts    \* assessments that are not fenced: when, of which parents and events, status

vars == <<now, event, fact, coverage, generation, receipts>>

Init ==
    /\ now = 0
    /\ event = << >>
    /\ fact = << >>
    /\ coverage = [a \in Agents |-> None]
    /\ generation = 0
    /\ receipts = {}

-----------------------------------------------------------------------------
(* The graph seen from the proposal with the given parents.                *)

AgentOf(e) == IF e = Current THEN Proposer ELSE event[e].agent
ObservedAt(e) == IF e = Current THEN now ELSE IF e \in DOMAIN fact THEN fact[e].at ELSE None

\* A parent of the proposal has to be an event of the proposer.
Incoming(e, parents) ==
    IF e = Current THEN {p \in parents : p \in DOMAIN event /\ event[p].agent = Proposer}
    ELSE event[e].parents \cap DOMAIN event

Transfer(p, e) == AgentOf(p) # AgentOf(e)

InWindow(path) ==
    /\ Len(path) <= Rule.events
    /\ \A i \in DOMAIN path : /\ ObservedAt(path[i]) # None
                              /\ now - Rule.seconds <= ObservedAt(path[i]) /\ ObservedAt(path[i]) <= now

\* For every ancestor one path to the proposal: a shortest one, and of these the first by ids.
AncestorPaths(parents) ==
    LET paths[n \in Nat] ==
          IF n = 0 THEN [e \in {Current} |-> <<Current>>]
          ELSE LET p == paths[n - 1]
                   Next1(e) == {c \in DOMAIN p : Len(p[c]) = n /\ e \in Incoming(c, parents)}
                   new == {e \in DOMAIN event \ DOMAIN p : Next1(e) # {}}
               IN  [e \in DOMAIN p \cup new |-> IF e \in new THEN <<e>> \o p[Min(Next1(e))] ELSE p[e]]
    IN  paths[Cardinality(Events)]

Relation(candidate, previous, relation) ==
    \/ relation = "any"
    \/ relation = "same" /\ candidate = previous
    \/ relation = "different" /\ candidate # previous

\* The predicate holds of an event with a fact, given whether data was transferred to it.
Matches(p, e, transferred) == e \in DOMAIN fact /\ fact[e].class = p.class /\ (p.transfer => transferred)

-----------------------------------------------------------------------------
(* Path rules.                                                             *)

\* A state of the automaton: the events matched so far, the path from the first of them, and
\* whether data was transferred since the last of them.
Start(e, parents) ==
    IF Matches(Rule.pattern[1], e, \E p \in Incoming(e, parents) : Transfer(p, e))
    THEN {[matched |-> <<e>>, path |-> <<e>>, transferred |-> FALSE]} ELSE {}

\* A state moves along an edge to event e: the event is skipped, or matched as well.
Advance(s, e) ==
    LET path == Append(s.path, e)
        moved == s.transferred \/ Transfer(Last(s.path), e)
        k == Len(s.matched) + 1
    IN  IF ~InWindow(path) THEN {}
        ELSE {[matched |-> s.matched, path |-> path, transferred |-> moved]} \cup
             (IF k <= Len(Rule.pattern) /\ Matches(Rule.pattern[k], e, moved)
                 /\ Relation(AgentOf(e), AgentOf(Last(s.matched)), Rule.pattern[k].relation)
              THEN {[matched |-> Append(s.matched, e), path |-> path, transferred |-> FALSE]} ELSE {})

\* All states at the ancestors of the proposal, by length of their path.
States(parents) ==
    LET Ancestors == DOMAIN AncestorPaths(parents) \ {Current}
        upto[n \in Nat] ==
          IF n = 0 THEN UNION {Start(e, parents) : e \in Ancestors}
          ELSE LET u == upto[n - 1]
               IN  u \cup UNION {Advance(x[1], x[2]) :
                     x \in {y \in u \X Ancestors : /\ Len(y[1].path) = n
                                                 /\ Last(y[1].path) \in Incoming(y[2], parents)}}
    IN  upto[Cardinality(Events)]

\* Whether a complete state reaches the proposal, and whether the quota of states is exceeded.
PathResult(parents) ==
    LET states == States(parents)
    IN  [found |-> /\ Cardinality(states) <= StateLimit
                   /\ \E s \in states : /\ Len(s.matched) = Len(Rule.pattern)
                                        /\ Last(s.path) \in Incoming(Current, parents)
                                        /\ InWindow(Append(s.path, Current)),
         exceeded |-> Cardinality(states) > StateLimit]

-----------------------------------------------------------------------------
(* Counting rules.                                                         *)

Group(e) == IF Rule.countBy = "agents" THEN AgentOf(e) ELSE e

\* The ancestors the predicate holds of, whose chosen path is in the window.
Counted(parents) ==
    LET paths == AncestorPaths(parents)
    IN  {e \in DOMAIN paths \ {Current} :
            /\ InWindow(paths[e])
            /\ Matches(Rule.pattern[1], e, \E p \in Incoming(e, parents) : Transfer(p, e))
            /\ Relation(AgentOf(e), Proposer, Rule.pattern[1].relation)}

\* More ancestors than the quota of states allows to look at.
Crowded(parents) == Cardinality(DOMAIN AncestorPaths(parents)) > StateLimit + 1

\* The first event of each group by id; of these as many as the quota, nearest first.
CountResult(parents) ==
    LET paths == AncestorPaths(parents)
        counted == Counted(parents)
        firsts == {Min({e \in counted : Group(e) = g}) : g \in {Group(e) : e \in counted}}
        Before(x, y) == Len(paths[x]) < Len(paths[y]) \/ (Len(paths[x]) = Len(paths[y]) /\ x < y)
        chosen == {x \in firsts : Cardinality({y \in firsts : Before(y, x)}) < Rule.quota}
        path == UNION {Range(paths[x]) : x \in chosen} \cup {Current}
        enough == Cardinality(firsts) >= Rule.quota
    IN  [found |-> ~Crowded(parents) /\ enough /\ Cardinality(path) <= Rule.events,
         exceeded |-> Crowded(parents) \/ (enough /\ Cardinality(path) > Rule.events)]

-----------------------------------------------------------------------------
(* The verdict.                                                            *)

Covered == \A a \in Agents : coverage[a] # None /\ coverage[a] <= now - Rule.seconds

Result(parents) == IF Rule.aggregation = "path" THEN PathResult(parents) ELSE CountResult(parents)

\* A parent that is not an event of the proposer keeps the rule from being evaluated.
Foreign(parents) == \E p \in parents : p \in DOMAIN event /\ event[p].agent # Proposer

\* Mutant of Gap: only what is above the proposal has to be there.
GapAbove(parents) ==
    \/ ~(parents \subseteq DOMAIN event)
    \/ \E e \in DOMAIN AncestorPaths(parents) : ObservedAt(e) = None

\* An event of the view names a parent that is not there, or an ancestor has no fact.
Gap(parents) ==
    \/ \E e \in DOMAIN event : ~(event[e].parents \subseteq DOMAIN event)
    \/ ~(parents \subseteq DOMAIN event)
    \/ \E e \in DOMAIN AncestorPaths(parents) : ObservedAt(e) = None

\* What was found counts, whatever else is missing.
Evaluate(parents) ==
    LET result == Result(parents)
    IN  IF Foreign(parents) THEN "unknown"
        ELSE IF result.found THEN "violated"
        ELSE IF Gap(parents) \/ result.exceeded \/ ~Covered THEN "unknown"
        ELSE "satisfied"

-----------------------------------------------------------------------------
(* Steps.                                                                  *)

\* An event arrives; the ingestor refuses one that would close a cycle.
Ingest(e, a, parents) ==
    /\ e \notin DOMAIN event /\ e \notin parents
    /\ LET grown == [x \in DOMAIN event \cup {e} |-> IF x = e THEN [agent |-> a, parents |-> parents] ELSE event[x]]
           above[n \in Nat] == IF n = 0 THEN parents
                               ELSE LET s == above[n - 1]
                                    IN  s \cup UNION {grown[x].parents : x \in s \cap DOMAIN grown}
       IN  e \notin above[Cardinality(Events)] /\ event' = grown
    /\ UNCHANGED <<now, fact, coverage, generation, receipts>>

\* The fact of an event: what its action was, and when the host captured it.
RecordEvent(e, class, at) ==
    /\ e \in DOMAIN event \ DOMAIN fact /\ at <= now
    /\ fact' = [x \in DOMAIN fact \cup {e} |-> IF x = e THEN [class |-> class, at |-> at] ELSE fact[x]]
    /\ receipts' = {}
    /\ UNCHANGED <<now, event, coverage, generation>>

\* Coverage is declared from a point that is not in the future and never moves back.
Cover(a, from) ==
    /\ from <= now /\ (coverage[a] # None => from > coverage[a])
    /\ coverage' = [coverage EXCEPT ![a] = from]
    /\ receipts' = {}
    /\ UNCHANGED <<now, event, fact, generation>>

UpgradePolicy ==
    /\ generation < MaxUpgrades /\ generation' = generation + 1
    /\ coverage' = [a \in Agents |-> None]
    /\ receipts' = {}
    /\ UNCHANGED <<now, event, fact>>

IssueAssessment(parents) ==
    /\ Cardinality(receipts) < MaxReceipts
    /\ receipts' = receipts \cup {[at |-> now, parents |-> parents, events |-> event, status |-> Evaluate(parents)]}
    /\ UNCHANGED <<now, event, fact, coverage, generation>>

Tick == now < MaxTime /\ now' = now + 1 /\ UNCHANGED <<event, fact, coverage, generation, receipts>>

Next ==
    \/ \E e \in Events, a \in Agents, parents \in SUBSET Events : Ingest(e, a, parents)
    \/ \E e \in Events, class \in Classes, at \in 0..MaxTime : RecordEvent(e, class, at)
    \/ \E a \in Collected, from \in 0..MaxTime : Cover(a, from)
    \/ \E parents \in SUBSET Events : IssueAssessment(parents)
    \/ UpgradePolicy \/ Tick

Spec == Init /\ [][Next]_vars

-----------------------------------------------------------------------------
(* What the rules mean.                                                    *)

\* All causal paths from an event to the proposal.
CausalPaths(parents) ==
    LET upto[n \in Nat] ==
          IF n = 0 THEN {<<Current>>}
          ELSE LET u == upto[n - 1]
               IN  u \cup UNION {{<<p>> \o s : p \in Incoming(s[1], parents)} : s \in {x \in u : Len(x) = n}}
    IN  upto[Cardinality(Events)] \ {<<Current>>}

\* The places of a path at which the predicates of the rule are matched in turn.
Embeds(path, at, parents) ==
    /\ at[1] = 1
    /\ \A k \in DOMAIN at :
          LET moved == IF k = 1 THEN \E p \in Incoming(path[1], parents) : Transfer(p, path[1])
                       ELSE \E i \in (at[k - 1] + 1)..at[k] : Transfer(path[i - 1], path[i])
          IN  /\ Matches(Rule.pattern[k], path[at[k]], moved)
              /\ k > 1 => /\ at[k - 1] < at[k]
                          /\ Relation(AgentOf(path[at[k]]), AgentOf(path[at[k - 1]]), Rule.pattern[k].relation)

\* A causal path in the window that contains the pattern.
Forbidden(parents) ==
    \E path \in CausalPaths(parents) :
        InWindow(path) /\ \E at \in [DOMAIN Rule.pattern -> 1..(Len(path) - 1)] : Embeds(path, at, parents)

\* The groups with an event that the predicate holds of and that reaches the proposal by
\* some path in the window.
Reached(parents) ==
    {Group(path[1]) : path \in {x \in CausalPaths(parents) :
        /\ InWindow(x)
        /\ Matches(Rule.pattern[1], x[1], \E p \in Incoming(x[1], parents) : Transfer(p, x[1]))
        /\ Relation(AgentOf(x[1]), Proposer, Rule.pattern[1].relation)}}

-----------------------------------------------------------------------------
(* Properties.                                                             *)

TypeOK ==
    /\ now \in 0..MaxTime /\ DOMAIN event \subseteq Events /\ DOMAIN fact \subseteq DOMAIN event
    /\ \A e \in DOMAIN fact : fact[e].class \in Classes /\ fact[e].at \in 0..now
    /\ \A a \in Agents : coverage[a] = None \/ coverage[a] \in 0..now
    /\ \A r \in receipts : r.status \in {"violated", "unknown", "satisfied"}

\* The automaton of a path rule finds a match exactly if some causal path of any length and
\* order of arrival contains the pattern within the window, as long as its quota of states
\* lasts (temporal.py _path).
PathIsExact ==
    \A parents \in SUBSET DOMAIN event :
        LET r == PathResult(parents)
        IN  ~r.exceeded => (r.found <=> Forbidden(parents))

\* "satisfied" is said only if no forbidden path exists ("No speculative non-match becomes a
\* safe applicable result", docs/swarm/temporal.md): what is missing, cut off or not covered
\* makes the verdict unknown (temporal.py _evaluate).
SatisfiedIsSafe ==
    \A parents \in SUBSET Events : Evaluate(parents) = "satisfied" => ~Forbidden(parents)

\* A counting rule reports only groups that some path in the window reaches, as many as its
\* quota (temporal.py _count).
CountIsSound ==
    \A parents \in SUBSET DOMAIN event :
        CountResult(parents).found => Cardinality(Reached(parents)) >= Rule.quota

\* A verdict of satisfied is not overturned by evidence that arrives later, in whatever order:
\* an event, parent or fact that could still complete a forbidden path makes it unknown
\* beforehand, so nothing that arrives after it comes above the proposal (temporal.py
\* _evaluate, the gaps).
SatisfiedStays ==
    now' = now => \A parents \in SUBSET Events :
        Evaluate(parents) = "satisfied" =>
            Evaluate(parents)' # "violated" /\ AncestorPaths(parents)' = AncestorPaths(parents)

\* A receipt that is not fenced and about the same events says what an evaluation at its time
\* says, and does not say satisfied of a proposal that is violated by now: facts, coverage and
\* upgrades fence it, and time only moves events out of the window (temporal.py _fence).
ReceiptsStaySafe ==
    \A r \in receipts : r.events = event =>
        /\ r.at = now => r.status = Evaluate(r.parents)
        /\ r.status = "satisfied" => Evaluate(r.parents) # "violated"
=============================================================================
