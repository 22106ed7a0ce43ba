------------------------------ MODULE McpProofs ------------------------------
(***************************************************************************)
(* Proofs about the MCP proxy and its HTTP transport, for any number of    *)
(* ids, requests, slots and sessions: answers find their action whatever   *)
(* order they come in, and the table of sessions is exact.                 *)
(***************************************************************************)
EXTENDS Mcp, FiniteSetTheorems, TLAPS

-----------------------------------------------------------------------------
(* The proxy: its inductive invariant.                                     *)

Statuses == {"none", "missing", "unverified", "ambiguous", "invalid", "complete"}
Kinds == {"call", "ping", "list"}

\* The window is a run of consecutive action numbers that ends with the last one.
Window ==
    /\ sequence \in 0..MaxActions
    /\ actions \in Seq(Nat) /\ Len(actions) <= History /\ Len(actions) <= sequence
    /\ \A n \in 1..Len(actions) : actions[n] = sequence - Len(actions) + n

\* What is on record about retained actions.
Records ==
    /\ denied \subseteq Retained
    /\ evidence \subseteq {[action |-> a, answers |-> a] : a \in Retained}

\* Requests in flight: a call is of a retained action with nothing on record, of its own.
Flights ==
    /\ pending \in [Ids -> 0..MaxActions] /\ other \in [Ids -> {"none", "ping", "list"}]
    /\ Cardinality(InFlight) <= MaxCalls /\ Cardinality(Waiting) <= MaxOther
    /\ InFlight \cap Waiting = {} /\ withdrawn \subseteq InFlight
    /\ \A i \in InFlight : pending[i] \in Retained \ denied
    /\ \A i \in InFlight : \A e \in evidence : e.action # pending[i]
    /\ \A i, j \in InFlight : pending[i] = pending[j] => i = j

\* What the server owes is in flight, once for an id.
OwedOK ==
    /\ owed \subseteq [id : Ids, kind : Kinds, of : Nat]
    /\ \A q \in owed : IF q.kind = "call" THEN q.id \in InFlight /\ q.of = pending[q.id]
                       ELSE other[q.id] = q.kind
    /\ \A q, p \in owed : q.id = p.id => q = p

\* What is under way answers what is in flight: the final answer of an id is alone, and
\* nothing is owed beside it; malformed attempts to answer a call may be several.
RepliesOK ==
    /\ replies \subseteq [id : Ids \cup {None}, kind : Kinds \cup {"malformed", "changed"},
                          of : Nat, at : 0..table]
    /\ \A r \in replies : r.kind = "changed" <=> r.id = None
    /\ \A r \in replies :
          /\ r.kind = "call" => r.id \in InFlight /\ r.of = pending[r.id]
          /\ r.kind \in {"ping", "list"} => other[r.id] = r.kind
          /\ r.kind = "malformed" => r.id \in InFlight \cup Waiting
    /\ \A r \in replies : r.id # None =>
          IF r.kind = "malformed" /\ r.id \in InFlight
          THEN \A s \in replies : s.id = r.id => s.kind = "malformed"
          ELSE /\ \A s \in replies : s.id = r.id => s = r
               /\ \A q \in owed : q.id # r.id

\* The observer of contracts, if there is one, has nothing older than the last
\* notification, and what it waits for will not bring it anything older.
Inventory ==
    /\ contracts \in [request : Ids \cup {None}, cursor : BOOLEAN, seen : BOOLEAN,
                      building : Nat \cup {None}, live : Nat \cup {None}, status : Statuses]
    /\ ~Pinned => contracts = Blank("none")
    /\ table \in Nat /\ notified \in 0..table
    /\ contracts.building # None => contracts.building \in Nat /\ contracts.building >= notified
    /\ contracts.status = "complete" => contracts.live \in Nat /\ contracts.live >= notified
    /\ \A r \in replies : r.kind = "list" /\ contracts.request = r.id => r.at >= notified

ProxyInv ==
    Window /\ Records /\ Flights /\ OwedOK /\ RepliesOK /\ AnswerIsDue /\ Inventory
-----------------------------------------------------------------------------
(* Facts about the state of the proxy.                                     *)

\* What the proofs use of the constants.
LEMMA ProxyNumbers ==
    /\ IsFiniteSet(Ids) /\ None \notin Ids
    /\ History \in Nat /\ MaxCalls \in Nat /\ MaxOther \in Nat
    /\ History >= 1 /\ MaxCalls >= 1 /\ MaxOther >= 1
    /\ MaxActions \in Nat /\ MaxChanges \in Nat /\ MaxInvalid \in Nat
BY McpConstants DEF ProxyConstants

\* The members of a run of consecutive numbers.
LEMMA RunIs ==
    ASSUME NEW s \in Nat, NEW w \in Seq(Nat), Len(w) <= s,
           \A n \in 1..Len(w) : w[n] = s - Len(w) + n
    PROVE  {w[n] : n \in 1..Len(w)} = (s - Len(w) + 1)..s
<1>1. Len(w) \in Nat
    OBVIOUS
<1>2. \A n \in 1..Len(w) : w[n] \in (s - Len(w) + 1)..s
    BY <1>1
<1>3. ASSUME NEW a \in (s - Len(w) + 1)..s PROVE a \in {w[n] : n \in 1..Len(w)}
    <2>1. a - s + Len(w) \in 1..Len(w)
        BY <1>1
    <2>2. w[a - s + Len(w)] = a
        BY <1>1, <2>1
    <2> QED
        BY <2>1, <2>2
<1> QED
    BY <1>2, <1>3

\* The retained actions are those of the window.
LEMMA RetainedIs ==
    ASSUME Window
    PROVE  Retained = (sequence - Len(actions) + 1)..sequence
<1>1. sequence \in Nat /\ actions \in Seq(Nat)
    BY ProxyNumbers DEF Window
<1> QED
    BY <1>1, RunIs DEF Window, Retained

\* The requests in flight are finitely many.
LEMMA FiniteFlights ==
    /\ IsFiniteSet(InFlight) /\ IsFiniteSet(Waiting)
    /\ Cardinality(InFlight) \in Nat /\ Cardinality(Waiting) \in Nat
<1>1. InFlight \subseteq Ids /\ Waiting \subseteq Ids
    BY DEF InFlight, Waiting
<1>2. IsFiniteSet(InFlight) /\ IsFiniteSet(Waiting)
    BY <1>1, ProxyNumbers, FS_Subset
<1> QED
    BY <1>2, FS_CardinalityType

\* The action of a call in flight is in the window.
LEMMA InWindow ==
    ASSUME ProxyInv, NEW i \in InFlight
    PROVE  pending[i] \in (sequence - Len(actions) + 1)..sequence
<1>1. Retained = (sequence - Len(actions) + 1)..sequence
    BY RetainedIs DEF ProxyInv
<1>2. pending[i] \in Retained
    BY DEF ProxyInv, Flights
<1> QED
    BY <1>1, <1>2

\* A set below a bound has room for one more element, and a subset is no larger.
LEMMA Room ==
    ASSUME NEW S, IsFiniteSet(S), NEW T, NEW i, NEW max \in Nat,
           Cardinality(S) <= max,
           T \subseteq S \/ (T \subseteq S \cup {i} /\ Cardinality(S) < max)
    PROVE  Cardinality(T) <= max
<1>1. Cardinality(S) \in Nat
    BY FS_CardinalityType
<1>2. CASE T \subseteq S
    <2>1. IsFiniteSet(T) /\ Cardinality(T) <= Cardinality(S)
        BY <1>2, FS_Subset
    <2>2. Cardinality(T) \in Nat
        BY <2>1, FS_CardinalityType
    <2> QED
        BY <1>1, <2>1, <2>2
<1>3. CASE T \subseteq S \cup {i} /\ Cardinality(S) < max
    <2>1. IsFiniteSet(S \cup {i}) /\ Cardinality(S \cup {i}) <= Cardinality(S) + 1
        BY <1>1, FS_AddElement
    <2>2. IsFiniteSet(T) /\ Cardinality(T) <= Cardinality(S \cup {i})
        BY <1>3, <2>1, FS_Subset
    <2>3. Cardinality(T) \in Nat /\ Cardinality(S \cup {i}) \in Nat
        BY <2>1, <2>2, FS_CardinalityType
    <2> QED
        BY <1>1, <1>3, <2>1, <2>2, <2>3
<1> QED
    BY <1>2, <1>3

\* Nothing is under way for an id that is not in flight, and nothing is owed.
LEMMA FreshId ==
    ASSUME ProxyInv, NEW i \in Ids, ~Duplicate(i)
    PROVE  /\ pending[i] = 0 /\ other[i] = "none" /\ i \notin InFlight /\ i \notin Waiting
           /\ \A q \in owed : q.id # i
           /\ \A r \in replies : r.id # i
<1>1. pending[i] = 0 /\ other[i] = "none" /\ i \notin InFlight /\ i \notin Waiting
    BY DEF Duplicate, InFlight, Waiting
<1>2. ASSUME NEW q \in owed, q.id = i PROVE FALSE
    <2>1. q.kind \in {"call", "ping", "list"}
        BY DEF ProxyInv, OwedOK, Kinds
    <2> QED
        BY <1>1, <1>2, <2>1 DEF ProxyInv, OwedOK
<1>3. ASSUME NEW r \in replies, r.id = i PROVE FALSE
    <2>1. r.kind \in {"call", "ping", "list", "malformed", "changed"} /\ r.id # None
        BY <1>3, ProxyNumbers DEF ProxyInv, RepliesOK, Kinds
    <2>2. /\ r.kind = "changed" => r.id = None
          /\ r.kind = "call" => r.id \in InFlight
          /\ r.kind \in {"ping", "list"} => other[r.id] = r.kind
          /\ r.kind = "malformed" => r.id \in InFlight \cup Waiting
        BY DEF ProxyInv, RepliesOK
    <2> QED
        BY <1>1, <1>3, <2>1, <2>2
<1> QED
    BY <1>1, <1>2, <1>3
-----------------------------------------------------------------------------
(* The review of an action.                                                *)

\* session.evaluate: the new action joins the window, and no action in flight leaves it.
LEMMA EvaluateStep ==
    ASSUME ProxyInv, sequence < MaxActions, ~WouldEvict, NEW v, Evaluate(v)
    PROVE  /\ Window' /\ sequence' = sequence + 1
           /\ sequence' \in Retained' /\ sequence' \notin Retained
           /\ \A i \in InFlight : pending[i] \in Retained'
           /\ denied' \subseteq Retained' /\ denied' \subseteq denied \cup {sequence'}
           /\ v = "execute" => denied' \subseteq denied
           /\ evidence' \subseteq evidence
           /\ evidence' \subseteq {[action |-> a, answers |-> a] : a \in Retained'}
<1> DEFINE a == sequence + 1
<1>7. PICK all : all = Append(actions, a)
    OBVIOUS
<1>0. PICK w : w = IF Len(all) > History THEN Tail(all) ELSE all
    OBVIOUS
<1> DEFINE ids == {w[n] : n \in 1..Len(w)}
<1>1. /\ sequence' = a /\ actions' = w
      /\ denied' = (denied \cup (IF v = "deny" THEN {a} ELSE {})) \cap ids
      /\ evidence' = {e \in evidence : e.action \in ids}
    BY <1>0, <1>7 DEF Evaluate
<1>2. ids = Retained'
    BY <1>1 DEF Retained
<1>3. /\ sequence \in Nat /\ a \in 0..MaxActions /\ actions \in Seq(Nat)
      /\ Len(actions) \in Nat /\ Len(actions) <= History /\ Len(actions) <= sequence
      /\ \A n \in 1..Len(actions) : actions[n] = sequence - Len(actions) + n
    BY ProxyNumbers DEF ProxyInv, Window
<1>4. /\ all \in Seq(Nat) /\ Len(all) = Len(actions) + 1
      /\ \A n \in 1..Len(all) : all[n] = a - Len(all) + n
    BY <1>3, <1>7
<1> HIDE DEF ids
<1>5. CASE Len(all) > History
    <2>0. w = Tail(all) /\ all # <<>>
        BY <1>0, <1>3, <1>4, <1>5
    <2>1. Len(w) = Len(actions) /\ w \in Seq(Nat)
        BY <1>3, <1>4, <2>0
    <2>2. \A n \in 1..Len(w) : w[n] = a - Len(w) + n
        <3>1. \A n \in 1..Len(w) : w[n] = all[n + 1] /\ n + 1 \in 1..Len(all)
            BY <1>3, <1>4, <2>0, <2>1
        <3> QED
            BY <1>3, <1>4, <2>1, <3>1
    <2>3. Window'
        BY <1>1, <1>3, <2>1, <2>2 DEF Window
    <2>4. Len(actions) >= History /\ Len(actions) >= 1 /\ actions[1] = sequence - Len(actions) + 1
        BY <1>3, <1>4, <1>5, ProxyNumbers
    <2>5. Retained' = (a - Len(actions) + 1)..a
        <3>1. ids = (a - Len(w) + 1)..a
            <4>1. a \in Nat /\ Len(w) <= a
                BY <1>3, <2>1
            <4> QED
                BY <2>1, <2>2, <4>1, RunIs DEF ids
        <3> QED
            BY <1>2, <2>1, <3>1
    <2>6. \A i \in InFlight : pending[i] \in Retained'
        <3> SUFFICES ASSUME NEW i \in InFlight PROVE pending[i] \in Retained'
            OBVIOUS
        <3>1. pending[i] # actions[1]
            BY <2>4 DEF WouldEvict
        <3>2. pending[i] \in (sequence - Len(actions) + 1)..sequence
            BY InWindow
        <3> QED
            BY <1>3, <2>4, <2>5, <3>1, <3>2
    <2>7. a \in Retained' /\ a \notin Retained
        <3>1. a \in Retained'
            BY <1>3, <2>5, <2>4
        <3>2. a \notin (sequence - Len(actions) + 1)..sequence
            BY <1>3
        <3> QED
            BY <3>1, <3>2, RetainedIs DEF ProxyInv
    <2> QED
        BY <1>1, <1>2, <2>3, <2>6, <2>7 DEF ProxyInv, Records
<1>6. CASE ~(Len(all) > History)
    <2>1. w = all /\ Len(w) = Len(actions) + 1 /\ w \in Seq(Nat)
        BY <1>0, <1>4, <1>6
    <2>2. \A n \in 1..Len(w) : w[n] = a - Len(w) + n
        BY <1>4, <2>1
    <2>3. Window'
        BY <1>1, <1>3, <1>6, <2>1, <2>2, ProxyNumbers DEF Window
    <2>5. Retained' = (sequence - Len(actions) + 1)..a
        <3>1. ids = (a - Len(w) + 1)..a
            <4>1. a \in Nat /\ Len(w) <= a
                BY <1>3, <2>1
            <4> QED
                BY <2>1, <2>2, <4>1, RunIs DEF ids
        <3> QED
            BY <1>2, <1>3, <2>1, <3>1
    <2>6. \A i \in InFlight : pending[i] \in Retained'
        <3> SUFFICES ASSUME NEW i \in InFlight PROVE pending[i] \in Retained'
            OBVIOUS
        <3>1. pending[i] \in (sequence - Len(actions) + 1)..sequence
            BY InWindow
        <3> QED
            BY <1>3, <2>5, <3>1
    <2>7. a \in Retained' /\ a \notin Retained
        <3>1. a \in Retained'
            BY <1>3, <2>5
        <3>2. a \notin (sequence - Len(actions) + 1)..sequence
            BY <1>3
        <3> QED
            BY <3>1, <3>2, RetainedIs DEF ProxyInv
    <2> QED
        BY <1>1, <1>2, <2>3, <2>6, <2>7 DEF ProxyInv, Records
<1> QED
    BY <1>5, <1>6
\* A call that is put in flight has the new action; nothing else changes its own.
LEMMA NewFlight ==
    ASSUME ProxyInv, NEW i \in Ids, NEW a \in 1..MaxActions,
           pending' = [pending EXCEPT ![i] = a]
    PROVE  /\ pending' \in [Ids -> 0..MaxActions] /\ InFlight' = InFlight \cup {i}
           /\ pending'[i] = a /\ \A j \in Ids \ {i} : pending'[j] = pending[j]
<1>1. pending \in [Ids -> 0..MaxActions] /\ a \in 0..MaxActions /\ a # 0
    BY ProxyNumbers DEF ProxyInv, Flights
<1> QED
    BY <1>1 DEF InFlight

\* An action that is reviewed and put in flight.
LEMMA Executed ==
    ASSUME ProxyInv, NEW i \in Ids, Admitted(i), Evaluate("execute"),
           pending' = [pending EXCEPT ![i] = sequence'], UNCHANGED other,
           withdrawn' \in {withdrawn \ {i}, withdrawn \cup {i}}
    PROVE  /\ Window' /\ Records' /\ Flights'
           /\ InFlight' = InFlight \cup {i} /\ Waiting' = Waiting
           /\ sequence' \in Nat /\ pending'[i] = sequence'
           /\ \A j \in Ids \ {i} : pending'[j] = pending[j]
<1>1. /\ Window' /\ sequence' = sequence + 1
      /\ sequence' \in Retained' /\ sequence' \notin Retained
      /\ \A j \in InFlight : pending[j] \in Retained'
      /\ denied' \subseteq Retained' /\ denied' \subseteq denied
      /\ evidence' \subseteq evidence
      /\ evidence' \subseteq {[action |-> a, answers |-> a] : a \in Retained'}
    BY EvaluateStep DEF Admitted
<1>2. sequence' \in 1..MaxActions
    BY <1>1, ProxyNumbers DEF ProxyInv, Window, Admitted
<1>3. PICK n : n = sequence'
    OBVIOUS
<1>4. /\ pending' \in [Ids -> 0..MaxActions] /\ InFlight' = InFlight \cup {i}
      /\ pending'[i] = n /\ \A j \in Ids \ {i} : pending'[j] = pending[j]
    BY <1>2, <1>3, NewFlight
<1>5. Waiting' = Waiting
    BY DEF Waiting
<1>6. i \notin InFlight /\ i \notin Waiting
    BY FreshId DEF Admitted
<1>7. Cardinality(InFlight') <= MaxCalls
    BY <1>4, ProxyNumbers, FiniteFlights, Room DEF Admitted, ProxyInv, Flights
<1>8. InFlight' \cap Waiting' = {} /\ withdrawn' \subseteq InFlight'
    BY <1>4, <1>5, <1>6 DEF ProxyInv, Flights
<1>9. InFlight \subseteq Ids
    BY DEF InFlight
<1>10. \A j \in InFlight' : pending'[j] \in Retained' \ denied'
    <2>1. \A j \in InFlight : pending[j] \in Retained' \ denied'
        BY <1>1 DEF ProxyInv, Flights
    <2>2. n \in Retained' \ denied'
        BY <1>1, <1>3 DEF ProxyInv, Records
    <2> QED
        BY <1>4, <1>6, <1>9, <2>1, <2>2
<1>11. \A j \in InFlight' : \A e \in evidence' : e.action # pending'[j]
    <2>1. \A e \in evidence : e.action \in Retained
        BY DEF ProxyInv, Records
    <2>2. \A j \in InFlight : \A e \in evidence : e.action # pending[j]
        BY DEF ProxyInv, Flights
    <2> QED
        BY <1>1, <1>3, <1>4, <1>6, <1>9, <2>1, <2>2
<1>12. \A j, k \in InFlight' : pending'[j] = pending'[k] => j = k
    <2>1. \A j \in InFlight : pending[j] # n
        BY <1>1, <1>3 DEF ProxyInv, Flights
    <2>2. \A j, k \in InFlight : pending[j] = pending[k] => j = k
        BY DEF ProxyInv, Flights
    <2> QED
        BY <1>4, <1>6, <1>9, <2>1, <2>2
<1>13. Flights'
    <2>1. other' \in [Ids -> {"none", "ping", "list"}] /\ Cardinality(Waiting') <= MaxOther
        BY <1>5 DEF ProxyInv, Flights
    <2> QED
        BY <1>4, <1>7, <1>8, <1>10, <1>11, <1>12, <2>1 DEF Flights
<1>14. Records'
    BY <1>1 DEF Records
<1> QED
    BY <1>1, <1>2, <1>3, <1>4, <1>5, <1>13, <1>14

\* Replies are of other ids than the one that is put in flight.
LEMMA RepliesPass ==
    ASSUME ProxyInv, NEW i \in Ids, ~Duplicate(i),
           UNCHANGED <<replies, table>>, InFlight' \ {i} = InFlight \ {i},
           Waiting' \ {i} = Waiting \ {i},
           \A j \in Ids \ {i} : pending'[j] = pending[j] /\ other'[j] = other[j],
           \A q \in owed' : q \in owed \/ q.id = i
    PROVE  RepliesOK'
<1>1. \A r \in replies : r.id # i
    BY FreshId
<1>2. \A r \in replies : r.id # None => r.id \in Ids \ {i}
    BY <1>1 DEF ProxyInv, RepliesOK
<1>3. \A r \in replies : r.kind = "call" \/ r.kind = "ping" \/ r.kind = "list" \/ r.kind = "malformed"
          => r.id # None
    BY DEF ProxyInv, RepliesOK
<1>4. \A r \in replies :
          /\ r.kind = "call" => r.id \in InFlight' /\ r.of = pending'[r.id]
          /\ r.kind \in {"ping", "list"} => other'[r.id] = r.kind
          /\ r.kind = "malformed" => r.id \in InFlight' \cup Waiting'
    BY <1>1, <1>2, <1>3 DEF ProxyInv, RepliesOK
<1>5. \A r \in replies : r.id # None =>
          IF r.kind = "malformed" /\ r.id \in InFlight'
          THEN \A s \in replies : s.id = r.id => s.kind = "malformed"
          ELSE /\ \A s \in replies : s.id = r.id => s = r
               /\ \A q \in owed' : q.id # r.id
    <2> SUFFICES ASSUME NEW r \in replies, r.id # None
                 PROVE  IF r.kind = "malformed" /\ r.id \in InFlight'
                        THEN \A s \in replies : s.id = r.id => s.kind = "malformed"
                        ELSE /\ \A s \in replies : s.id = r.id => s = r
                             /\ \A q \in owed' : q.id # r.id
        OBVIOUS
    <2>1. r.id # i /\ (r.id \in InFlight' <=> r.id \in InFlight)
        BY <1>1
    <2>2. IF r.kind = "malformed" /\ r.id \in InFlight
          THEN \A s \in replies : s.id = r.id => s.kind = "malformed"
          ELSE /\ \A s \in replies : s.id = r.id => s = r
               /\ \A q \in owed : q.id # r.id
        BY DEF ProxyInv, RepliesOK
    <2> QED
        BY <2>1, <2>2
<1> QED
    BY <1>4, <1>5 DEF ProxyInv, RepliesOK
\* A request is forwarded once, and is in flight.
LEMMA OwedGrows ==
    ASSUME ProxyInv, NEW i \in Ids, ~Duplicate(i), NEW k \in Kinds, NEW n \in Nat,
           owed' = owed \cup {[id |-> i, kind |-> k, of |-> n]},
           InFlight \ {i} \subseteq InFlight',
           \A j \in Ids \ {i} : pending'[j] = pending[j] /\ other'[j] = other[j],
           IF k = "call" THEN i \in InFlight' /\ pending'[i] = n ELSE other'[i] = k
    PROVE  OwedOK'
<1>1. PICK new : new = [id |-> i, kind |-> k, of |-> n]
    OBVIOUS
<1>2. /\ new.id = i /\ new.kind = k /\ new.of = n /\ new \in [id : Ids, kind : Kinds, of : Nat]
      /\ owed' = owed \cup {new}
    BY <1>1
<1>3. \A q \in owed : q.id \in Ids \ {i}
    BY FreshId DEF ProxyInv, OwedOK
<1>4. \A q \in owed : IF q.kind = "call" THEN q.id \in InFlight' /\ q.of = pending'[q.id]
                      ELSE other'[q.id] = q.kind
    BY <1>3 DEF ProxyInv, OwedOK
<1>5. \A q, p \in owed' : q.id = p.id => q = p
    BY <1>2, <1>3 DEF ProxyInv, OwedOK
<1> QED
    BY <1>2, <1>4, <1>5 DEF ProxyInv, OwedOK

\* What is due stays due while nothing is taken from the wire.
LEMMA DueStays ==
    ASSUME ProxyInv, NEW i, owed \subseteq owed', replies \subseteq replies',
           \A j \in Ids \ {i} : pending'[j] = pending[j]
    PROVE  \A j \in (InFlight \ withdrawn) \ {i} : Due(j)'
<1> SUFFICES ASSUME NEW j \in InFlight \ withdrawn, j # i PROVE Due(j)'
    OBVIOUS
<1>1. Due(j) /\ pending'[j] = pending[j]
    BY DEF ProxyInv, AnswerIsDue, InFlight
<1> QED
    BY <1>1 DEF Due

\* A step that leaves the observer and the replies alone.
LEMMA InventoryStays ==
    ASSUME ProxyInv, UNCHANGED <<contracts, replies, table, notified>>
    PROVE  Inventory'
BY DEF ProxyInv, Inventory, Pinned

\* tools/call.
LEMMA CallStep ==
    ASSUME ProxyInv, NEW i \in Ids, NEW v \in {"execute", "escalate", "deny"}, Call(i, v)
    PROVE  ProxyInv'
<1>1. /\ Admitted(i) /\ Evaluate(v)
      /\ UNCHANGED <<other, contracts, replies, table, invalid, notified>>
    BY DEF Call
<1>2. Inventory'
    BY <1>1, InventoryStays
<1>3. CASE v = "execute"
    <2>1. /\ pending' = [pending EXCEPT ![i] = sequence']
          /\ owed' = owed \cup {[id |-> i, kind |-> "call", of |-> sequence']}
          /\ withdrawn' = withdrawn \ {i}
        BY <1>3 DEF Call
    <2>2. /\ Window' /\ Records' /\ Flights'
          /\ InFlight' = InFlight \cup {i} /\ Waiting' = Waiting
          /\ sequence' \in Nat /\ pending'[i] = sequence'
          /\ \A j \in Ids \ {i} : pending'[j] = pending[j]
        BY <1>1, <1>3, <2>1, Executed
    <2>3. ~Duplicate(i)
        BY <1>1 DEF Admitted
    <2>4. OwedOK'
        <3>1. PICK n \in Nat : n = sequence'
            BY <2>2
        <3>2. /\ "call" \in Kinds /\ InFlight \ {i} \subseteq InFlight'
              /\ i \in InFlight' /\ pending'[i] = n
              /\ \A j \in Ids \ {i} : pending'[j] = pending[j] /\ other'[j] = other[j]
            BY <1>1, <2>2, <3>1 DEF Kinds
        <3>3. owed' = owed \cup {[id |-> i, kind |-> "call", of |-> n]}
            BY <2>1, <3>1
        <3>4. PICK k \in Kinds : k = "call"
            BY <3>2
        <3>5. /\ IF k = "call" THEN i \in InFlight' /\ pending'[i] = n ELSE other'[i] = k
              /\ owed' = owed \cup {[id |-> i, kind |-> k, of |-> n]}
            BY <3>2, <3>3, <3>4
        <3> QED
            BY <2>3, <3>2, <3>5, OwedGrows
    <2>5. RepliesOK'
        BY <1>1, <2>1, <2>2, <2>3, RepliesPass
    <2>6. AnswerIsDue'
        <3>1. \A j \in (InFlight \ withdrawn) \ {i} : Due(j)'
            BY <1>1, <2>1, <2>2, DueStays
        <3>2. Due(i)'
            <4>1. PICK q : q = [id |-> i, kind |-> "call", of |-> sequence']
                OBVIOUS
            <4>2. q \in owed' /\ q.id = i /\ q.of = pending'[i]
                BY <2>1, <2>2, <4>1
            <4> QED
                BY <4>2 DEF Due
        <3>3. (InFlight \ withdrawn)' \subseteq ((InFlight \ withdrawn) \ {i}) \cup {i}
            BY <2>1, <2>2
        <3>4. ASSUME NEW j \in (InFlight \ withdrawn)' PROVE Due(j)'
            BY <3>1, <3>2, <3>3
        <3> QED
            BY <3>4 DEF AnswerIsDue
    <2> QED
        BY <1>2, <2>2, <2>4, <2>5, <2>6 DEF ProxyInv
<1>4. CASE v # "execute"
    <2>1. UNCHANGED <<pending, owed, withdrawn>>
        BY <1>4 DEF Call
    <2>2. /\ Window' /\ sequence' = sequence + 1
          /\ sequence' \in Retained' /\ sequence' \notin Retained
          /\ \A j \in InFlight : pending[j] \in Retained'
          /\ denied' \subseteq Retained' /\ denied' \subseteq denied \cup {sequence'}
          /\ evidence' \subseteq evidence
          /\ evidence' \subseteq {[action |-> a, answers |-> a] : a \in Retained'}
        BY <1>1, EvaluateStep DEF Admitted
    <2>3. InFlight' = InFlight /\ Waiting' = Waiting
        BY <1>1, <2>1 DEF InFlight, Waiting
    <2>4. \A j \in InFlight : pending[j] \in Retained' \ denied'
        BY <2>2 DEF ProxyInv, Flights
    <2>5. Flights'
        BY <1>1, <2>1, <2>2, <2>3, <2>4 DEF ProxyInv, Flights
    <2>6. Records'
        BY <2>2 DEF Records
    <2>7. OwedOK' /\ RepliesOK'
        BY <1>1, <2>1, <2>3 DEF ProxyInv, OwedOK, RepliesOK
    <2>8. AnswerIsDue'
        BY <1>1, <2>1, <2>3 DEF ProxyInv, AnswerIsDue, Due
    <2> QED
        BY <1>2, <2>2, <2>5, <2>6, <2>7, <2>8 DEF ProxyInv
<1> QED
    BY <1>3, <1>4

\* The call of the adapter that is never sent.
LEMMA UnsentStep ==
    ASSUME ProxyInv, NEW i \in Ids, Unsent(i)
    PROVE  ProxyInv'
<1>1. /\ Admitted(i) /\ Evaluate("execute")
      /\ pending' = [pending EXCEPT ![i] = sequence'] /\ withdrawn' = withdrawn \cup {i}
      /\ UNCHANGED <<other, contracts, owed, replies, table, invalid, notified>>
    BY DEF Unsent, server
<1>2. Inventory'
    BY <1>1, InventoryStays
<1>3. /\ Window' /\ Records' /\ Flights'
      /\ InFlight' = InFlight \cup {i} /\ Waiting' = Waiting
      /\ \A j \in Ids \ {i} : pending'[j] = pending[j]
    BY <1>1, Executed
<1>4. ~Duplicate(i)
    BY <1>1 DEF Admitted
<1>5. RepliesOK'
    BY <1>1, <1>3, <1>4, RepliesPass
<1>6. OwedOK'
    <2>1. \A q \in owed : q.id \in Ids \ {i}
        BY <1>4, FreshId DEF ProxyInv, OwedOK
    <2> QED
        BY <1>1, <1>3, <2>1 DEF ProxyInv, OwedOK
<1>7. AnswerIsDue'
    <2>1. \A j \in (InFlight \ withdrawn) \ {i} : Due(j)'
        BY <1>1, <1>3, DueStays
    <2> QED
        BY <1>1, <1>3, <2>1 DEF AnswerIsDue
<1> QED
    BY <1>2, <1>3, <1>5, <1>6, <1>7 DEF ProxyInv
-----------------------------------------------------------------------------
(* Other requests of the client.                                           *)

\* Another request is put in flight.
LEMMA Waits ==
    ASSUME ProxyInv, NEW i \in Ids, ~Duplicate(i), Cardinality(Waiting) < MaxOther,
           NEW k \in {"ping", "list"}, NEW n \in Nat,
           other' = [other EXCEPT ![i] = k],
           owed' = owed \cup {[id |-> i, kind |-> k, of |-> n]},
           UNCHANGED <<session, pending, withdrawn, replies, table>>
    PROVE  /\ Window' /\ Records' /\ Flights' /\ OwedOK' /\ RepliesOK' /\ AnswerIsDue'
<1>1. other \in [Ids -> {"none", "ping", "list"}]
    BY DEF ProxyInv, Flights
<1>2. /\ other' \in [Ids -> {"none", "ping", "list"}] /\ other'[i] = k
      /\ \A j \in Ids \ {i} : other'[j] = other[j]
    BY <1>1
<1>3. Waiting' = Waiting \cup {i} /\ InFlight' = InFlight
    BY <1>2 DEF Waiting, InFlight
<1>4. Retained' = Retained /\ Window' /\ Records'
    BY DEF ProxyInv, Window, Records, Retained, session
<1>5. i \notin InFlight /\ i \notin Waiting
    BY FreshId
<1>6. Flights'
    <2>1. Cardinality(Waiting') <= MaxOther
        BY <1>3, ProxyNumbers, FiniteFlights, Room DEF ProxyInv, Flights
    <2>2. InFlight' \cap Waiting' = {}
        BY <1>3, <1>5 DEF ProxyInv, Flights
    <2> QED
        BY <1>2, <1>3, <1>4, <2>1, <2>2 DEF ProxyInv, Flights, session
<1>7. OwedOK'
    <2>1. k \in Kinds /\ k # "call"
        BY DEF Kinds
    <2> QED
        BY <1>2, <1>3, <2>1, OwedGrows
<1>8. RepliesOK'
    BY <1>2, <1>3, RepliesPass
<1>9. AnswerIsDue'
    <2>1. \A j \in (InFlight \ withdrawn) \ {i} : Due(j)'
        BY DueStays
    <2> QED
        BY <1>3, <1>5, <2>1 DEF AnswerIsDue
<1> QED
    BY <1>4, <1>6, <1>7, <1>8, <1>9

\* initialize, ping and the like.
LEMMA PingStep ==
    ASSUME ProxyInv, NEW i \in Ids, Ping(i)
    PROVE  ProxyInv'
<1>1. Window' /\ Records' /\ Flights' /\ OwedOK' /\ RepliesOK' /\ AnswerIsDue'
    BY Waits DEF Ping
<1>2. Inventory'
    BY InventoryStays DEF Ping
<1> QED
    BY <1>1, <1>2 DEF ProxyInv

\* A page of the tool list is asked for.
LEMMA ListStep ==
    ASSUME ProxyInv, NEW i \in Ids, NEW next \in BOOLEAN, ListTools(i, next)
    PROVE  ProxyInv'
<1>1. /\ Pinned /\ ~Duplicate(i) /\ Cardinality(Waiting) < MaxOther /\ contracts.request = None
      /\ UNCHANGED <<session, pending, withdrawn, replies, table, invalid, notified>>
    BY DEF ListTools
<1>2. /\ table \in Nat /\ notified \in 0..table
      /\ contracts \in [request : Ids \cup {None}, cursor : BOOLEAN, seen : BOOLEAN,
                        building : Nat \cup {None}, live : Nat \cup {None}, status : Statuses]
      /\ contracts.building # None => contracts.building \in Nat /\ contracts.building >= notified
      /\ contracts.status = "complete" => contracts.live \in Nat /\ contracts.live >= notified
    BY DEF ProxyInv, Inventory
<1>3. \A r \in replies : r.id # i
    BY <1>1, FreshId
<1>4. CASE next /\ (~contracts.cursor \/ contracts.seen)
    <2>1. contracts' = Blank("ambiguous") /\ UNCHANGED <<other, owed>>
        BY <1>4 DEF ListTools
    <2>2. Window' /\ Records' /\ Flights' /\ OwedOK' /\ RepliesOK' /\ AnswerIsDue'
        <3>1. Retained' = Retained /\ InFlight' = InFlight /\ Waiting' = Waiting
            BY <1>1, <2>1 DEF Retained, InFlight, Waiting, session
        <3> QED
            BY <1>1, <2>1, <3>1
               DEF ProxyInv, Window, Records, Flights, OwedOK, RepliesOK, AnswerIsDue, Due, session
    <2>3. Inventory'
        <3>1. /\ contracts'.request = None /\ contracts'.building = None
              /\ contracts'.status = "ambiguous" /\ Pinned'
              /\ contracts' \in [request : Ids \cup {None}, cursor : BOOLEAN, seen : BOOLEAN,
                                 building : Nat \cup {None}, live : Nat \cup {None},
                                 status : Statuses]
            BY <2>1 DEF Blank, Statuses, Pinned
        <3>2. \A r \in replies : r.kind = "list" => r.id # None
            BY DEF ProxyInv, RepliesOK
        <3> QED
            BY <1>1, <1>2, <3>1, <3>2 DEF Inventory
    <2> QED
        BY <2>2, <2>3 DEF ProxyInv
<1>5. CASE ~(next /\ (~contracts.cursor \/ contracts.seen))
    <2>1. PICK n \in Nat : n = IF next THEN 2 ELSE 1
        OBVIOUS
    <2>2. /\ contracts' = IF next THEN [contracts EXCEPT !.request = i, !.seen = TRUE]
                          ELSE [Blank("unverified") EXCEPT !.request = i]
          /\ other' = [other EXCEPT ![i] = "list"]
          /\ owed' = owed \cup {[id |-> i, kind |-> "list", of |-> n]}
        BY <1>5, <2>1 DEF ListTools
    <2>3. Window' /\ Records' /\ Flights' /\ OwedOK' /\ RepliesOK' /\ AnswerIsDue'
        BY <1>1, <2>2, Waits
    <2>4. Inventory'
        <3>1. /\ contracts' \in [request : Ids \cup {None}, cursor : BOOLEAN, seen : BOOLEAN,
                                 building : Nat \cup {None}, live : Nat \cup {None},
                                 status : Statuses]
              /\ contracts'.request = i
            <4>1. CASE next
                BY <1>2, <2>2, <4>1
            <4>2. CASE ~next
                BY <2>2, <4>2 DEF Blank, Statuses
            <4> QED
                BY <4>1, <4>2
        <3>2. /\ contracts'.building = contracts.building \/ contracts'.building = None
              /\ contracts'.status = "complete" =>
                    contracts.status = "complete" /\ contracts'.live = contracts.live
              /\ contracts'.status # "none"
            <4>1. CASE next
                BY <1>1, <1>2, <2>2, <4>1 DEF Pinned
            <4>2. CASE ~next
                BY <2>2, <4>2 DEF Blank
            <4> QED
                BY <4>1, <4>2
        <3> QED
            BY <1>1, <1>2, <1>3, <3>1, <3>2 DEF Inventory, Pinned
    <2> QED
        BY <2>3, <2>4 DEF ProxyInv
<1> QED
    BY <1>4, <1>5

\* A call is canceled.
LEMMA CancelStep ==
    ASSUME ProxyInv, NEW i \in Ids, Cancel(i)
    PROVE  ProxyInv'
<1>1. /\ i \in InFlight /\ owed' = {q \in owed : q.id # i} /\ withdrawn' = withdrawn \cup {i}
      /\ UNCHANGED <<session, pending, other, contracts, replies, table, invalid, notified>>
    BY DEF Cancel
<1>2. Retained' = Retained /\ InFlight' = InFlight /\ Waiting' = Waiting
    BY <1>1 DEF Retained, InFlight, Waiting, session
<1>3. Window' /\ Records' /\ Flights'
    BY <1>1, <1>2 DEF ProxyInv, Window, Records, Flights, session
<1>4. OwedOK'
    BY <1>1, <1>2 DEF ProxyInv, OwedOK
<1>5. RepliesOK'
    BY <1>1, <1>2 DEF ProxyInv, RepliesOK
<1>6. AnswerIsDue'
    <2> SUFFICES ASSUME NEW j \in InFlight \ withdrawn, j # i PROVE Due(j)'
        BY <1>1, <1>2 DEF AnswerIsDue
    <2>1. Due(j)
        BY DEF ProxyInv, AnswerIsDue
    <2> QED
        BY <1>1, <2>1 DEF Due
<1>7. Inventory'
    BY <1>1, InventoryStays
<1> QED
    BY <1>3, <1>4, <1>5, <1>6, <1>7 DEF ProxyInv

\* reset_session.
LEMMA ResetStep ==
    ASSUME ProxyInv, Reset
    PROVE  ProxyInv'
<1>1. /\ InFlight = {} /\ Waiting = {}
      /\ actions' = <<>> /\ denied' = {} /\ evidence' = {}
      /\ UNCHANGED <<sequence, pending, other, contracts, withdrawn, owed, replies, table,
                     invalid, notified>>
    BY DEF Reset, server
<1>2. InFlight' = InFlight /\ Waiting' = Waiting
    BY <1>1 DEF InFlight, Waiting
<1>3. Window'
    BY <1>1, ProxyNumbers DEF ProxyInv, Window
<1>4. Records' /\ Flights'
    BY <1>1, <1>2 DEF ProxyInv, Records, Flights
<1>5. OwedOK' /\ RepliesOK'
    BY <1>1, <1>2 DEF ProxyInv, OwedOK, RepliesOK
<1>6. AnswerIsDue'
    BY <1>1, <1>2 DEF AnswerIsDue
<1>7. Inventory'
    BY <1>1, InventoryStays
<1> QED
    BY <1>3, <1>4, <1>5, <1>6, <1>7 DEF ProxyInv
-----------------------------------------------------------------------------
(* The server.                                                             *)

\* Steps of the server leave the session and the requests in flight alone.
LEMMA ServerSide ==
    ASSUME ProxyInv, UNCHANGED <<session, pending, other, withdrawn>>
    PROVE  /\ Window' /\ Records' /\ Flights'
           /\ InFlight' = InFlight /\ Waiting' = Waiting
<1>1. Retained' = Retained /\ InFlight' = InFlight /\ Waiting' = Waiting
    BY DEF Retained, InFlight, Waiting, session
<1> QED
    BY <1>1 DEF ProxyInv, Window, Records, Flights, session

\* What is owed is in flight, and its answer carries its id.
LEMMA OwedIs ==
    ASSUME ProxyInv, NEW q \in owed
    PROVE  /\ q.id \in Ids /\ q.id # None /\ q.of \in Nat
           /\ q.kind \in Kinds
           /\ q.kind = "call" => q.id \in InFlight /\ q.of = pending[q.id]
           /\ q.kind # "call" => q.id \in Waiting /\ other[q.id] = q.kind
           /\ ~(q.id \in InFlight /\ q.id \in Waiting)
           /\ \A p \in owed : p.id = q.id => p = q
<1>1. /\ q \in [id : Ids, kind : Kinds, of : Nat]
      /\ IF q.kind = "call" THEN q.id \in InFlight /\ q.of = pending[q.id]
         ELSE other[q.id] = q.kind
      /\ \A p \in owed : p.id = q.id => p = q
      /\ InFlight \cap Waiting = {}
    BY DEF ProxyInv, OwedOK, Flights
<1>2. q.kind # "none"
    BY <1>1 DEF Kinds
<1> QED
    BY <1>1, <1>2, ProxyNumbers DEF Waiting

\* The reply to a request that is owed joins the replies.
LEMMA ReplyJoins ==
    ASSUME ProxyInv, NEW q \in owed, NEW r,
           r.id = q.id, r.of = q.of, r.kind = q.kind \/ r.kind = "malformed",
           r \in [id : Ids \cup {None}, kind : Kinds \cup {"malformed", "changed"},
                  of : Nat, at : 0..table],
           IF r.kind = "malformed" /\ q.kind = "call"
           THEN owed' = owed ELSE owed' = owed \ {q},
           IF r.kind = "malformed" /\ q.kind = "call"
           THEN \A s \in replies : s.id = q.id => s.kind = "malformed"
           ELSE \A s \in replies : s.id # q.id,
           replies' = replies \cup {r},
           UNCHANGED <<session, pending, other, withdrawn, table>>
    PROVE  RepliesOK'
<1>1. InFlight' = InFlight /\ Waiting' = Waiting
    BY ServerSide
<1>2. /\ q.id \in Ids /\ q.id # None /\ q.of \in Nat
      /\ q.kind \in Kinds
      /\ q.kind = "call" => q.id \in InFlight /\ q.of = pending[q.id]
      /\ q.kind # "call" => q.id \in Waiting /\ other[q.id] = q.kind
      /\ ~(q.id \in InFlight /\ q.id \in Waiting)
      /\ \A p \in owed : p.id = q.id => p = q
    BY OwedIs
<1>3. r.kind # "changed" /\ (r.kind # "malformed" => r.kind = q.kind)
    BY <1>2 DEF Kinds
<1>4. /\ r.kind = "call" => r.id \in InFlight /\ r.of = pending[r.id]
      /\ r.kind \in {"ping", "list"} => other[r.id] = r.kind
      /\ r.kind = "malformed" => r.id \in InFlight \cup Waiting
    BY <1>2, <1>3
<1>5. owed' \subseteq owed
    OBVIOUS
<1>6. \A s \in replies' : s.id # None =>
          IF s.kind = "malformed" /\ s.id \in InFlight
          THEN \A p \in replies' : p.id = s.id => p.kind = "malformed"
          ELSE /\ \A p \in replies' : p.id = s.id => p = s
               /\ \A p \in owed' : p.id # s.id
    <2> SUFFICES ASSUME NEW s \in replies', s.id # None
                 PROVE  IF s.kind = "malformed" /\ s.id \in InFlight
                        THEN \A p \in replies' : p.id = s.id => p.kind = "malformed"
                        ELSE /\ \A p \in replies' : p.id = s.id => p = s
                             /\ \A p \in owed' : p.id # s.id
        OBVIOUS
    <2>0. \A p \in replies : p.id # None =>
          IF p.kind = "malformed" /\ p.id \in InFlight
          THEN \A o \in replies : o.id = p.id => o.kind = "malformed"
          ELSE /\ \A o \in replies : o.id = p.id => o = p
               /\ \A o \in owed : o.id # p.id
        BY DEF ProxyInv, RepliesOK
    <2>1. CASE s.id # q.id
        <3>1. s \in replies
            BY <2>1
        <3> QED
            BY <1>5, <2>0, <2>1, <3>1
    <2>2. CASE s.id = q.id /\ r.kind = "malformed" /\ q.kind = "call"
        <3>1. s.id \in InFlight /\ \A p \in replies' : p.id = q.id => p.kind = "malformed"
            BY <1>2, <2>2
        <3> QED
            BY <2>2, <3>1
    <2>3. CASE s.id = q.id /\ ~(r.kind = "malformed" /\ q.kind = "call")
        <3>1. s = r /\ owed' = owed \ {q} /\ \A p \in replies : p.id # q.id
            BY <2>3
        <3>2. ~(s.kind = "malformed" /\ s.id \in InFlight)
            BY <1>2, <2>3, <3>1
        <3>3. \A p \in owed' : p.id # s.id
            BY <1>2, <2>3, <3>1
        <3> QED
            BY <2>3, <3>1, <3>2, <3>3
    <2> QED
        BY <2>1, <2>2, <2>3
<1> QED
    BY <1>1, <1>2, <1>3, <1>4, <1>6 DEF ProxyInv, RepliesOK

\* A final answer.
LEMMA AnswerStep ==
    ASSUME ProxyInv, NEW q \in owed, Answer(q)
    PROVE  ProxyInv'
<1>1. /\ \A r \in replies : r.id # q.id
      /\ owed' = owed \ {q} /\ replies' = replies \cup {Reply(q, q.kind)}
      /\ UNCHANGED <<session, pending, other, contracts, withdrawn, table, invalid, notified>>
    BY DEF Answer
<1>2. /\ q.id \in Ids /\ q.id # None /\ q.of \in Nat /\ q.kind \in Kinds
    BY OwedIs
<1>3. table \in Nat /\ notified \in 0..table
    BY DEF ProxyInv, Inventory
<1>4. PICK r : r = Reply(q, q.kind)
    OBVIOUS
<1>5. /\ r.id = q.id /\ r.of = q.of /\ r.kind = q.kind /\ r.at = table
      /\ r \in [id : Ids \cup {None}, kind : Kinds \cup {"malformed", "changed"},
                of : Nat, at : 0..table]
    BY <1>2, <1>3, <1>4 DEF Reply
<1>6. Window' /\ Records' /\ Flights' /\ InFlight' = InFlight /\ Waiting' = Waiting
    BY <1>1, ServerSide
<1>7. OwedOK'
    BY <1>1, <1>6 DEF ProxyInv, OwedOK
<1>8. RepliesOK'
    <2>1. q.kind # "malformed"
        BY <1>2 DEF Kinds
    <2>2. replies' = replies \cup {r}
        BY <1>1, <1>4
    <2> QED
        BY <1>1, <1>5, <2>1, <2>2, ReplyJoins
<1>9. AnswerIsDue'
    <2> SUFFICES ASSUME NEW i \in InFlight \ withdrawn PROVE Due(i)'
        BY <1>1, <1>6 DEF AnswerIsDue
    <2>1. CASE \E p \in owed : p.id = i /\ p.of = pending[i]
        <3>1. PICK p \in owed : p.id = i /\ p.of = pending[i]
            BY <2>1
        <3>2. CASE p = q
            <4>1. q.kind = "call"
                BY <3>1, <3>2, OwedIs
            <4> QED
                BY <1>1, <1>4, <1>5, <3>1, <3>2, <4>1 DEF Due
        <3>3. CASE p # q
            BY <1>1, <3>1, <3>3 DEF Due
        <3> QED
            BY <3>2, <3>3
    <2>2. CASE \E p \in replies : p.id = i /\ p.kind = "call" /\ p.of = pending[i]
        BY <1>1, <2>2 DEF Due
    <2> QED
        BY <2>1, <2>2 DEF ProxyInv, AnswerIsDue, Due
<1>10. Inventory'
    <2>1. replies' = replies \cup {r}
        BY <1>1, <1>4
    <2> QED
        BY <1>1, <1>3, <1>5, <2>1 DEF ProxyInv, Inventory, Pinned
<1> QED
    BY <1>6, <1>7, <1>8, <1>9, <1>10 DEF ProxyInv

\* A malformed answer: the server owes a call still, and drops another request.
LEMMA MalformedStep ==
    ASSUME ProxyInv, NEW q \in owed, Malformed(q)
    PROVE  ProxyInv'
<1>1. /\ IF q.kind = "call" THEN UNCHANGED owed ELSE owed' = owed \ {q}
      /\ replies' = replies \cup {Reply(q, "malformed")}
      /\ UNCHANGED <<session, pending, other, contracts, withdrawn, table, notified>>
    BY DEF Malformed
<1>2. /\ q.id \in Ids /\ q.id # None /\ q.of \in Nat /\ q.kind \in Kinds
      /\ q.kind # "call" => q.id \in Waiting
      /\ ~(q.id \in InFlight /\ q.id \in Waiting)
    BY OwedIs
<1>3. table \in Nat /\ notified \in 0..table
    BY DEF ProxyInv, Inventory
<1>4. PICK r : r = Reply(q, "malformed")
    OBVIOUS
<1>5. /\ r.id = q.id /\ r.of = q.of /\ r.kind = "malformed" /\ r.at = table
      /\ r \in [id : Ids \cup {None}, kind : Kinds \cup {"malformed", "changed"},
                of : Nat, at : 0..table]
    BY <1>2, <1>3, <1>4 DEF Reply
<1>6. Window' /\ Records' /\ Flights' /\ InFlight' = InFlight /\ Waiting' = Waiting
    BY <1>1, ServerSide
<1>7. OwedOK' /\ owed' \subseteq owed
    BY <1>1, <1>6 DEF ProxyInv, OwedOK
<1>8. RepliesOK'
    <2>1. replies' = replies \cup {r}
        BY <1>1, <1>4
    <2>2. \A s \in replies : s.id # None =>
          IF s.kind = "malformed" /\ s.id \in InFlight
          THEN \A p \in replies : p.id = s.id => p.kind = "malformed"
          ELSE /\ \A p \in replies : p.id = s.id => p = s
               /\ \A p \in owed : p.id # s.id
        BY DEF ProxyInv, RepliesOK
    <2>3. \A s \in replies : s.id = q.id => s.kind = "malformed" /\ s.id \in InFlight
        BY <1>2, <2>2
    <2>4. IF q.kind = "call"
          THEN \A s \in replies : s.id = q.id => s.kind = "malformed"
          ELSE \A s \in replies : s.id # q.id
        BY <1>2, <2>3
    <2> QED
        BY <1>1, <1>5, <2>1, <2>4, ReplyJoins
<1>9. AnswerIsDue'
    <2> SUFFICES ASSUME NEW i \in InFlight \ withdrawn PROVE Due(i)'
        BY <1>1, <1>6 DEF AnswerIsDue
    <2>1. CASE \E p \in owed : p.id = i /\ p.of = pending[i]
        <3>1. PICK p \in owed : p.id = i /\ p.of = pending[i]
            BY <2>1
        <3>2. p \in owed'
            <4>1. p = q => q.kind = "call"
                BY <1>2, <3>1
            <4> QED
                BY <1>1, <4>1
        <3> QED
            BY <1>1, <3>1, <3>2 DEF Due
    <2>2. CASE \E p \in replies : p.id = i /\ p.kind = "call" /\ p.of = pending[i]
        BY <1>1, <2>2 DEF Due
    <2> QED
        BY <2>1, <2>2 DEF ProxyInv, AnswerIsDue, Due
<1>10. Inventory'
    <2>1. replies' = replies \cup {r}
        BY <1>1, <1>4
    <2> QED
        BY <1>1, <1>3, <1>5, <2>1 DEF ProxyInv, Inventory, Pinned
<1> QED
    BY <1>6, <1>7, <1>8, <1>9, <1>10 DEF ProxyInv

\* The server changes its tool table and says so.
LEMMA ChangeStep ==
    ASSUME ProxyInv, Change
    PROVE  ProxyInv'
<1>1. /\ table' = table + 1 /\ Pinned
      /\ replies' = replies \cup {[id |-> None, kind |-> "changed", of |-> 0, at |-> table']}
      /\ UNCHANGED <<session, pending, other, contracts, withdrawn, owed, invalid, notified>>
    BY DEF Change
<1>2. table \in Nat /\ notified \in 0..table /\ 0..table \subseteq 0..table' /\ table' \in 0..table'
    BY <1>1 DEF ProxyInv, Inventory
<1>3. PICK r : r = [id |-> None, kind |-> "changed", of |-> 0, at |-> table']
    OBVIOUS
<1>4. /\ r.id = None /\ r.kind = "changed" /\ replies' = replies \cup {r}
      /\ r \in [id : Ids \cup {None}, kind : Kinds \cup {"malformed", "changed"},
                of : Nat, at : 0..table']
    BY <1>1, <1>2, <1>3
<1>5. Window' /\ Records' /\ Flights' /\ InFlight' = InFlight /\ Waiting' = Waiting
    BY <1>1, ServerSide
<1>6. OwedOK'
    BY <1>1, <1>5 DEF ProxyInv, OwedOK
<1>7. RepliesOK'
    <2>1. replies' \subseteq [id : Ids \cup {None}, kind : Kinds \cup {"malformed", "changed"},
                              of : Nat, at : 0..table']
        BY <1>2, <1>4 DEF ProxyInv, RepliesOK
    <2>2. /\ \A s \in replies' : s.kind = "changed" <=> s.id = None
          /\ \A s \in replies' :
                /\ s.kind = "call" => s.id \in InFlight /\ s.of = pending[s.id]
                /\ s.kind \in {"ping", "list"} => other[s.id] = s.kind
                /\ s.kind = "malformed" => s.id \in InFlight \cup Waiting
        BY <1>4 DEF ProxyInv, RepliesOK
    <2>3. \A s \in replies' : s.id # None =>
          IF s.kind = "malformed" /\ s.id \in InFlight
          THEN \A p \in replies' : p.id = s.id => p.kind = "malformed"
          ELSE /\ \A p \in replies' : p.id = s.id => p = s
               /\ \A p \in owed : p.id # s.id
        BY <1>4 DEF ProxyInv, RepliesOK
    <2> QED
        BY <1>1, <1>5, <2>1, <2>2, <2>3 DEF RepliesOK
<1>8. AnswerIsDue'
    <2> SUFFICES ASSUME NEW i \in InFlight \ withdrawn PROVE Due(i)'
        BY <1>1, <1>5 DEF AnswerIsDue
    <2> QED
        BY <1>1, <1>4 DEF ProxyInv, AnswerIsDue, Due
<1>9. Inventory'
    BY <1>1, <1>2, <1>4 DEF ProxyInv, Inventory, Pinned
<1> QED
    BY <1>5, <1>6, <1>7, <1>8, <1>9 DEF ProxyInv
-----------------------------------------------------------------------------
(* The proxy observes a message of the server.                             *)

\* A message leaves the wire: what is known of the others stays true, when the id it
\* was the final answer of leaves the requests in flight.
LEMMA ReplyLeaves ==
    ASSUME ProxyInv, NEW r \in replies, replies' = replies \ {r}, NEW i \in Ids \cup {None},
           UNCHANGED <<owed, table>>,
           InFlight' \ {i} = InFlight \ {i}, Waiting' \ {i} = Waiting \ {i},
           \A j \in Ids \ {i} : pending'[j] = pending[j] /\ other'[j] = other[j],
           i # None => (\A s \in replies' : s.id # i) /\ (\A q \in owed : q.id # i)
    PROVE  OwedOK' /\ RepliesOK'
<1>1. \A q \in owed : q.id \in Ids \ {i}
    <2>1. \A q \in owed : q.id \in Ids
        BY DEF ProxyInv, OwedOK
    <2> QED
        BY <2>1, ProxyNumbers
<1>2. OwedOK'
    <2>1. \A q \in owed : IF q.kind = "call" THEN q.id \in InFlight /\ q.of = pending[q.id]
                          ELSE other[q.id] = q.kind
        BY DEF ProxyInv, OwedOK
    <2>2. \A q \in owed : IF q.kind = "call" THEN q.id \in InFlight' /\ q.of = pending'[q.id]
                          ELSE other'[q.id] = q.kind
        BY <1>1, <2>1
    <2> QED
        BY <2>2 DEF ProxyInv, OwedOK
<1>3. \A s \in replies' : s.id # None => s.id \in Ids \ {i}
    BY DEF ProxyInv, RepliesOK
<1>4. \A s \in replies' :
          /\ s.kind = "call" => s.id \in InFlight' /\ s.of = pending'[s.id]
          /\ s.kind \in {"ping", "list"} => other'[s.id] = s.kind
          /\ s.kind = "malformed" => s.id \in InFlight' \cup Waiting'
    <2> SUFFICES ASSUME NEW s \in replies'
                 PROVE  /\ s.kind = "call" => s.id \in InFlight' /\ s.of = pending'[s.id]
                        /\ s.kind \in {"ping", "list"} => other'[s.id] = s.kind
                        /\ s.kind = "malformed" => s.id \in InFlight' \cup Waiting'
        OBVIOUS
    <2>1. /\ s.kind = "changed" <=> s.id = None
          /\ s.kind = "call" => s.id \in InFlight /\ s.of = pending[s.id]
          /\ s.kind \in {"ping", "list"} => other[s.id] = s.kind
          /\ s.kind = "malformed" => s.id \in InFlight \cup Waiting
        BY DEF ProxyInv, RepliesOK
    <2> QED
        BY <1>3, <2>1
<1>5. \A s \in replies' : s.id # None =>
          IF s.kind = "malformed" /\ s.id \in InFlight'
          THEN \A p \in replies' : p.id = s.id => p.kind = "malformed"
          ELSE /\ \A p \in replies' : p.id = s.id => p = s
               /\ \A q \in owed' : q.id # s.id
    <2> SUFFICES ASSUME NEW s \in replies', s.id # None
                 PROVE  IF s.kind = "malformed" /\ s.id \in InFlight'
                        THEN \A p \in replies' : p.id = s.id => p.kind = "malformed"
                        ELSE /\ \A p \in replies' : p.id = s.id => p = s
                             /\ \A q \in owed' : q.id # s.id
        OBVIOUS
    <2>1. IF s.kind = "malformed" /\ s.id \in InFlight
          THEN \A p \in replies : p.id = s.id => p.kind = "malformed"
          ELSE /\ \A p \in replies : p.id = s.id => p = s
               /\ \A q \in owed : q.id # s.id
        BY DEF ProxyInv, RepliesOK
    <2>2. s.id \in InFlight' <=> s.id \in InFlight
        BY <1>3
    <2> QED
        BY <2>1, <2>2
<1> QED
    BY <1>2, <1>4, <1>5 DEF ProxyInv, RepliesOK

\* What is due stays due when another message, or one that is malformed, is taken.
LEMMA DueRemains ==
    ASSUME ProxyInv, NEW r \in replies, replies' = replies \ {r}, UNCHANGED owed,
           NEW i, i \in InFlight \ withdrawn, r.id # i \/ r.kind # "call", pending'[i] = pending[i]
    PROVE  Due(i)'
<1>1. Due(i)
    BY DEF ProxyInv, AnswerIsDue
<1> QED
    BY <1>1 DEF Due

\* What the observer of contracts makes of an answer.
LEMMA ResponseIs ==
    ASSUME ProxyInv, Pinned, NEW r \in replies, NEW c, c = ContractResponse(r)
    PROVE  /\ c \in [request : Ids \cup {None}, cursor : BOOLEAN, seen : BOOLEAN,
                     building : Nat \cup {None}, live : Nat \cup {None}, status : Statuses]
           /\ c.status # "none"
           /\ c.building # None => c.building \in Nat /\ c.building >= notified
           /\ c.status = "complete" => c.live \in Nat /\ c.live >= notified
           /\ c.request = contracts.request \/ c.request = None
<1>1. /\ table \in Nat /\ notified \in 0..table
      /\ contracts \in [request : Ids \cup {None}, cursor : BOOLEAN, seen : BOOLEAN,
                        building : Nat \cup {None}, live : Nat \cup {None}, status : Statuses]
      /\ contracts.building # None => contracts.building \in Nat /\ contracts.building >= notified
      /\ contracts.status = "complete" => contracts.live \in Nat /\ contracts.live >= notified
      /\ r.kind = "list" /\ contracts.request = r.id => r.at >= notified
      /\ r.at \in 0..table
    BY DEF ProxyInv, Inventory, RepliesOK
<1>2. CASE contracts.request # r.id
    BY <1>1, <1>2 DEF ContractResponse, Pinned
<1>3. CASE contracts.request = r.id /\ r.kind # "list"
    <2>1. c = Blank("invalid")
        BY <1>3 DEF ContractResponse
    <2>2. /\ c \in [request : Ids \cup {None}, cursor : BOOLEAN, seen : BOOLEAN,
                    building : Nat \cup {None}, live : Nat \cup {None}, status : Statuses]
          /\ c.status = "invalid" /\ c.building = None /\ c.request = None
        BY <2>1 DEF Blank, Statuses
    <2> QED
        BY <2>2
<1>4. CASE contracts.request = r.id /\ r.kind = "list"
    <2>1. PICK age : age = Older(contracts.building, r.at)
        OBVIOUS
    <2>2. age \in Nat /\ age >= notified
        BY <1>1, <1>4, <2>1 DEF Older
    <2>3. CASE r.of = 1
        <3>1. c = [contracts EXCEPT !.request = None, !.cursor = TRUE, !.building = age]
            BY <1>4, <2>1, <2>3 DEF ContractResponse
        <3>2. /\ c.request = None /\ c.building = age /\ c.live = contracts.live
              /\ c.status = contracts.status
              /\ c \in [request : Ids \cup {None}, cursor : BOOLEAN, seen : BOOLEAN,
                        building : Nat \cup {None}, live : Nat \cup {None}, status : Statuses]
            BY <1>1, <2>2, <3>1
        <3> QED
            BY <1>1, <2>2, <3>2 DEF Pinned
    <2>4. CASE r.of # 1
        <3>1. c = [contracts EXCEPT !.request = None, !.cursor = FALSE, !.building = None,
                                    !.live = age, !.status = "complete"]
            BY <1>4, <2>1, <2>4 DEF ContractResponse
        <3>2. /\ c.request = None /\ c.building = None /\ c.live = age /\ c.status = "complete"
              /\ c \in [request : Ids \cup {None}, cursor : BOOLEAN, seen : BOOLEAN,
                        building : Nat \cup {None}, live : Nat \cup {None}, status : Statuses]
            BY <1>1, <2>2, <3>1 DEF Statuses
        <3> QED
            BY <2>2, <3>2
    <2> QED
        BY <2>3, <2>4
<1> QED
    BY <1>2, <1>3, <1>4

\* The answer to another request than a call.
LEMMA ObserveOtherStep ==
    ASSUME ProxyInv, NEW r \in replies, replies' = replies \ {r}, ObserveOther(r),
           UNCHANGED <<owed, table, invalid>>
    PROVE  ProxyInv'
<1>1. /\ r.id \in Waiting /\ other' = [other EXCEPT ![r.id] = "none"]
      /\ contracts' = IF other[r.id] = "list" /\ Pinned THEN ContractResponse(r) ELSE contracts
      /\ UNCHANGED <<session, pending, withdrawn, notified>>
    BY DEF ObserveOther
<1>2. PICK i \in Ids : i = r.id
    BY <1>1 DEF Waiting
<1>3. i # None /\ i \in Waiting /\ i \notin InFlight
    BY <1>1, <1>2, ProxyNumbers DEF ProxyInv, Flights
<1>4. (\A s \in replies : s.id = i => s = r) /\ (\A q \in owed : q.id # i)
    <2>1. IF r.kind = "malformed" /\ r.id \in InFlight
          THEN \A s \in replies : s.id = r.id => s.kind = "malformed"
          ELSE /\ \A s \in replies : s.id = r.id => s = r
               /\ \A q \in owed : q.id # r.id
        BY <1>2, <1>3 DEF ProxyInv, RepliesOK
    <2> QED
        BY <1>2, <1>3, <2>1
<1>5. /\ other \in [Ids -> {"none", "ping", "list"}] /\ pending \in [Ids -> 0..MaxActions]
      /\ withdrawn \subseteq InFlight
    BY DEF ProxyInv, Flights
<1>6. /\ other' \in [Ids -> {"none", "ping", "list"}] /\ other'[i] = "none"
      /\ \A j \in Ids \ {i} : other'[j] = other[j]
    BY <1>1, <1>2, <1>5
<1>7. InFlight' = InFlight /\ Waiting' = Waiting \ {i} /\ Retained' = Retained
    BY <1>1, <1>6 DEF InFlight, Waiting, Retained, session
<1>8. Window' /\ Records'
    BY <1>1, <1>7 DEF ProxyInv, Window, Records, session
<1>9. Flights'
    <2>1. Cardinality(Waiting') <= MaxOther
        <3>1. Waiting' \subseteq Waiting
            BY <1>7
        <3> QED
            BY <3>1, ProxyNumbers, FiniteFlights, Room DEF ProxyInv, Flights
    <2> QED
        BY <1>1, <1>6, <1>7, <2>1 DEF ProxyInv, Flights, session
<1>10. OwedOK' /\ RepliesOK'
    <2>1. (\A s \in replies' : s.id # i) /\ (\A q \in owed : q.id # i)
        BY <1>4
    <2>2. /\ InFlight' \ {i} = InFlight \ {i} /\ Waiting' \ {i} = Waiting \ {i}
          /\ \A j \in Ids \ {i} : pending'[j] = pending[j] /\ other'[j] = other[j]
        BY <1>1, <1>6, <1>7
    <2>3. i \in Ids \cup {None}
        OBVIOUS
    <2> QED
        BY <2>1, <2>2, <2>3, ReplyLeaves
<1>11. AnswerIsDue'
    <2> SUFFICES ASSUME NEW j \in InFlight \ withdrawn PROVE Due(j)'
        BY <1>1, <1>7 DEF AnswerIsDue
    <2>1. r.id # j /\ pending'[j] = pending[j]
        BY <1>1, <1>2, <1>3
    <2> QED
        BY <2>1, DueRemains
<1>12. Inventory'
    <2>1. CASE other[r.id] = "list" /\ Pinned
        <3>1. PICK c : c = ContractResponse(r) /\ c = contracts'
            BY <1>1, <2>1
        <3>2. /\ c \in [request : Ids \cup {None}, cursor : BOOLEAN, seen : BOOLEAN,
                        building : Nat \cup {None}, live : Nat \cup {None}, status : Statuses]
              /\ c.status # "none"
              /\ c.building # None => c.building \in Nat /\ c.building >= notified
              /\ c.status = "complete" => c.live \in Nat /\ c.live >= notified
              /\ c.request = contracts.request \/ c.request = None
            BY <2>1, <3>1, ResponseIs
        <3>3. \A s \in replies : s.kind = "list" => s.id # None
            BY DEF ProxyInv, RepliesOK
        <3>4. \A s \in replies' : s.kind = "list" /\ contracts'.request = s.id => s.at >= notified
            BY <3>1, <3>2, <3>3 DEF ProxyInv, Inventory
        <3> QED
            BY <1>1, <3>1, <3>2, <3>4 DEF ProxyInv, Inventory, Pinned
    <2>2. CASE ~(other[r.id] = "list" /\ Pinned)
        BY <1>1, <2>2 DEF ProxyInv, Inventory, Pinned
    <2> QED
        BY <2>1, <2>2
<1> QED
    BY <1>8, <1>9, <1>10, <1>11, <1>12 DEF ProxyInv

\* The answer to a call, or to nothing.
LEMMA ObserveCallStep ==
    ASSUME ProxyInv, NEW r \in replies, replies' = replies \ {r}, ObserveCall(r),
           UNCHANGED <<owed, table, invalid>>
    PROVE  ProxyInv'
<1>1. /\ r.id \in Ids \ Waiting
      /\ UNCHANGED <<sequence, actions, denied, other, contracts, notified>>
      /\ IF r.id \in InFlight /\ r.kind # "malformed"
         THEN /\ evidence' = evidence \cup {[action |-> pending[r.id], answers |-> r.of]}
              /\ pending' = [pending EXCEPT ![r.id] = 0]
              /\ withdrawn' = withdrawn \ {r.id}
         ELSE UNCHANGED <<evidence, pending, withdrawn>>
    BY DEF ObserveCall
<1>2. Waiting' = Waiting /\ Retained' = Retained /\ Window'
    BY <1>1 DEF Waiting, Retained, ProxyInv, Window
<1>3. Inventory'
    BY <1>1 DEF ProxyInv, Inventory, Pinned
<1>4. PICK i \in Ids : i = r.id
    BY <1>1
<1>5. /\ other \in [Ids -> {"none", "ping", "list"}] /\ pending \in [Ids -> 0..MaxActions]
      /\ withdrawn \subseteq InFlight
    BY DEF ProxyInv, Flights
<1>6. CASE i \in InFlight /\ r.kind # "malformed"
    <2>1. PICK a : a = pending[i]
        OBVIOUS
    <2>2. r.kind = "call" /\ r.of = a
        <3>1. /\ r.kind \in {"call", "ping", "list", "malformed", "changed"}
              /\ r.kind = "changed" => r.id = None
              /\ r.kind = "call" => r.of = pending[r.id]
              /\ r.kind \in {"ping", "list"} => other[r.id] = r.kind
            BY DEF ProxyInv, RepliesOK, Kinds
        <3>2. i # None /\ other[i] = "none"
            BY <1>1, <1>4, ProxyNumbers DEF Waiting
        <3> QED
            BY <1>4, <1>6, <2>1, <3>1, <3>2
    <2>3. /\ evidence' = evidence \cup {[action |-> a, answers |-> a]}
          /\ pending' = [pending EXCEPT ![i] = 0] /\ withdrawn' = withdrawn \ {i}
        BY <1>1, <1>4, <1>6, <2>1, <2>2
    <2>4. /\ pending' \in [Ids -> 0..MaxActions] /\ InFlight' = InFlight \ {i}
          /\ \A j \in Ids \ {i} : pending'[j] = pending[j]
        BY <1>5, <2>3, ProxyNumbers DEF InFlight
    <2>5. a \in Retained
        BY <1>6, <2>1 DEF ProxyInv, Flights
    <2>6. Records'
        BY <1>1, <1>2, <2>3, <2>5 DEF ProxyInv, Records
    <2>7. Flights'
        <3>1. Cardinality(InFlight') <= MaxCalls
            <4>1. InFlight' \subseteq InFlight
                BY <2>4
            <4> QED
                BY <4>1, ProxyNumbers, FiniteFlights, Room DEF ProxyInv, Flights
        <3>2. \A j \in InFlight' : j \in InFlight /\ pending'[j] = pending[j] /\ pending[j] # a
            BY <1>6, <2>1, <2>4 DEF ProxyInv, Flights, InFlight
        <3>3. \A j \in InFlight' : \A e \in evidence' : e.action # pending'[j]
            BY <2>3, <3>2 DEF ProxyInv, Flights
        <3>4. \A j \in InFlight' : pending'[j] \in Retained' \ denied'
            BY <1>1, <1>2, <3>2 DEF ProxyInv, Flights
        <3>5. \A j, k \in InFlight' : pending'[j] = pending'[k] => j = k
            BY <3>2 DEF ProxyInv, Flights
        <3>6. InFlight' \cap Waiting' = {} /\ withdrawn' \subseteq InFlight'
            BY <1>2, <2>3, <2>4 DEF ProxyInv, Flights
        <3>7. other' \in [Ids -> {"none", "ping", "list"}] /\ Cardinality(Waiting') <= MaxOther
            BY <1>1, <1>2 DEF ProxyInv, Flights
        <3> QED
            BY <2>4, <3>1, <3>3, <3>4, <3>5, <3>6, <3>7 DEF Flights
    <2>8. OwedOK' /\ RepliesOK'
        <3>1. i # None /\ (\A s \in replies : s.id = i => s = r) /\ (\A q \in owed : q.id # i)
            <4>1. r.id # None
                BY <1>4, ProxyNumbers
            <4>2. IF r.kind = "malformed" /\ r.id \in InFlight
                  THEN \A s \in replies : s.id = r.id => s.kind = "malformed"
                  ELSE /\ \A s \in replies : s.id = r.id => s = r
                       /\ \A q \in owed : q.id # r.id
                BY <4>1 DEF ProxyInv, RepliesOK
            <4> QED
                BY <1>4, <1>6, <4>1, <4>2
        <3>2. /\ InFlight' \ {i} = InFlight \ {i} /\ Waiting' \ {i} = Waiting \ {i}
              /\ \A j \in Ids \ {i} : pending'[j] = pending[j] /\ other'[j] = other[j]
              /\ (\A s \in replies' : s.id # i) /\ (\A q \in owed : q.id # i)
              /\ i \in Ids \cup {None}
            BY <1>1, <1>2, <2>4, <3>1
        <3> QED
            BY <3>2, ReplyLeaves
    <2>9. AnswerIsDue'
        <3> SUFFICES ASSUME NEW j \in (InFlight \ withdrawn)' PROVE Due(j)'
            BY DEF AnswerIsDue
        <3>1. /\ j \in InFlight \ withdrawn /\ r.id # j /\ pending'[j] = pending[j]
            BY <1>4, <2>3, <2>4 DEF InFlight
        <3> QED
            BY <3>1, DueRemains
    <2> QED
        BY <1>2, <1>3, <2>6, <2>7, <2>8, <2>9 DEF ProxyInv
<1>7. CASE ~(i \in InFlight /\ r.kind # "malformed")
    <2>1. UNCHANGED <<evidence, pending, withdrawn>>
        BY <1>1, <1>4, <1>7
    <2>2. InFlight' = InFlight
        BY <2>1 DEF InFlight
    <2>3. Records' /\ Flights'
        BY <1>1, <1>2, <2>1, <2>2 DEF ProxyInv, Records, Flights
    <2>4. OwedOK' /\ RepliesOK'
        <3>1. None \in Ids \cup {None}
            OBVIOUS
        <3> QED
            BY <1>1, <1>2, <2>1, <2>2, <3>1, ReplyLeaves
    <2>5. AnswerIsDue'
        <3> SUFFICES ASSUME NEW j \in InFlight \ withdrawn PROVE Due(j)'
            BY <2>1, <2>2 DEF AnswerIsDue
        <3>1. (r.id # j \/ r.kind # "call") /\ pending'[j] = pending[j]
            BY <1>4, <1>7, <2>1
        <3> QED
            BY <3>1, DueRemains
    <2> QED
        BY <1>2, <1>3, <2>3, <2>4, <2>5 DEF ProxyInv
<1> QED
    BY <1>6, <1>7

\* A notified change makes the inventory incomplete.
LEMMA ObserveChangeStep ==
    ASSUME ProxyInv, NEW r \in replies, replies' = replies \ {r}, ObserveChange(r),
           UNCHANGED <<owed, table, invalid>>
    PROVE  ProxyInv'
<1>1. /\ r.kind = "changed"
      /\ contracts' = IF Pinned THEN Invalidated ELSE contracts
      /\ notified' = IF r.at > notified THEN r.at ELSE notified
      /\ UNCHANGED <<session, pending, other, withdrawn>>
    BY DEF ObserveChange
<1>2. Window' /\ Records' /\ Flights' /\ InFlight' = InFlight /\ Waiting' = Waiting
    BY <1>1, ServerSide
<1>3. OwedOK' /\ RepliesOK'
    <2>1. None \in Ids \cup {None}
        OBVIOUS
    <2> QED
        BY <1>1, <1>2, <2>1, ReplyLeaves
<1>4. AnswerIsDue'
    <2> SUFFICES ASSUME NEW j \in InFlight \ withdrawn PROVE Due(j)'
        BY <1>1, <1>2 DEF AnswerIsDue
    <2>1. r.kind # "call" /\ pending'[j] = pending[j]
        BY <1>1
    <2> QED
        BY <2>1, DueRemains
<1>5. Inventory'
    <2>1. table \in Nat /\ notified \in 0..table /\ r.at \in 0..table
        BY DEF ProxyInv, Inventory, RepliesOK
    <2>2. notified' \in 0..table
        BY <1>1, <2>1
    <2>3. \A s \in replies : s.kind = "list" => s.id # None
        BY DEF ProxyInv, RepliesOK
    <2>4. PICK c : c = contracts'
        OBVIOUS
    <2>5. /\ c.request = None /\ c.building = None
          /\ c.status # "complete" /\ (c.status # "none" \/ c = Blank("none"))
          /\ c \in [request : Ids \cup {None}, cursor : BOOLEAN, seen : BOOLEAN,
                    building : Nat \cup {None}, live : Nat \cup {None}, status : Statuses]
        <3>1. CASE Pinned
            BY <1>1, <2>4, <3>1 DEF Invalidated, Blank, Statuses
        <3>2. CASE ~Pinned
            <4>1. c = Blank("none")
                BY <1>1, <2>4, <3>2 DEF ProxyInv, Inventory
            <4> QED
                BY <4>1 DEF Blank, Statuses
        <3> QED
            BY <3>1, <3>2
    <2> QED
        BY <2>1, <2>2, <2>3, <2>4, <2>5 DEF Inventory, Pinned
<1> QED
    BY <1>2, <1>3, <1>4, <1>5 DEF ProxyInv
-----------------------------------------------------------------------------
(* The invariant of the proxy.                                             *)

\* Nothing is in flight at first.
LEMMA ProxyStarts == Init => ProxyInv
<1> SUFFICES ASSUME Init PROVE ProxyInv
    OBVIOUS
<1>1. /\ sequence = 0 /\ actions = <<>> /\ denied = {} /\ evidence = {}
      /\ pending = [i \in Ids |-> 0] /\ other = [i \in Ids |-> "none"]
      /\ contracts \in {Blank("none"), Blank("missing")} /\ withdrawn = {}
      /\ owed = {} /\ replies = {} /\ table = 0 /\ notified = 0
    BY DEF Init
<1>2. InFlight = {} /\ Waiting = {} /\ Cardinality({}) = 0
    BY <1>1, FS_EmptySet DEF InFlight, Waiting
<1>3. Window
    BY <1>1, ProxyNumbers DEF Window
<1>4. Records /\ Flights
    BY <1>1, <1>2, ProxyNumbers DEF Records, Flights
<1>5. OwedOK /\ RepliesOK /\ AnswerIsDue
    BY <1>1, <1>2 DEF OwedOK, RepliesOK, AnswerIsDue
<1>6. Inventory
    <2>1. /\ contracts \in [request : Ids \cup {None}, cursor : BOOLEAN, seen : BOOLEAN,
                            building : Nat \cup {None}, live : Nat \cup {None}, status : Statuses]
          /\ contracts.building = None /\ contracts.status # "complete"
          /\ contracts.status = "none" => contracts = Blank("none")
        <3>1. CASE contracts = Blank("none")
            BY <3>1 DEF Blank, Statuses
        <3>2. CASE contracts = Blank("missing")
            BY <3>2 DEF Blank, Statuses
        <3> QED
            BY <1>1, <3>1, <3>2
    <2>2. table \in Nat /\ notified \in 0..table
        BY <1>1
    <2> QED
        BY <1>1, <2>1, <2>2 DEF Inventory, Pinned
<1> QED
    BY <1>3, <1>4, <1>5, <1>6 DEF ProxyInv

\* Every message, in any order, keeps the invariant.
LEMMA ProxySteps == ProxyInv /\ [Next]_vars => ProxyInv'
<1> SUFFICES ASSUME ProxyInv, [Next]_vars PROVE ProxyInv'
    OBVIOUS
<1>1. CASE Client
    <2>1. CASE \E i \in Ids : \E v \in {"execute", "escalate", "deny"} : Call(i, v)
        BY <2>1, CallStep
    <2>2. CASE \E i \in Ids : Ping(i)
        BY <2>2, PingStep
    <2>3. CASE \E i \in Ids : Unsent(i)
        BY <2>3, UnsentStep
    <2>4. CASE \E i \in Ids : Cancel(i)
        BY <2>4, CancelStep
    <2>5. CASE \E i \in Ids : \E next \in BOOLEAN : ListTools(i, next)
        BY <2>5, ListStep
    <2>6. CASE Reset
        BY <2>6, ResetStep
    <2> QED
        BY <1>1, <2>1, <2>2, <2>3, <2>4, <2>5, <2>6 DEF Client
<1>2. CASE Change
    BY <1>2, ChangeStep
<1>3. CASE \E q \in owed : Answer(q) \/ Malformed(q)
    BY <1>3, AnswerStep, MalformedStep
<1>4. CASE \E r \in replies : Observe(r)
    <2>1. PICK r \in replies : Observe(r)
        BY <1>4
    <2>2. /\ replies' = replies \ {r} /\ UNCHANGED <<owed, table, invalid>>
          /\ ObserveOther(r) \/ ObserveCall(r) \/ ObserveChange(r)
        BY <2>1 DEF Observe
    <2>3. CASE ObserveOther(r)
        BY <2>2, <2>3, ObserveOtherStep
    <2>4. CASE ObserveCall(r)
        BY <2>2, <2>4, ObserveCallStep
    <2>5. CASE ObserveChange(r)
        BY <2>2, <2>5, ObserveChangeStep
    <2> QED
        BY <2>2, <2>3, <2>4, <2>5
<1>5. CASE UNCHANGED vars
    <2>1. /\ UNCHANGED <<session, pending, other, contracts, withdrawn, notified>>
          /\ UNCHANGED <<owed, replies, table>>
        BY <1>5 DEF vars, server
    <2>2. Window' /\ Records' /\ Flights' /\ InFlight' = InFlight /\ Waiting' = Waiting
        BY <2>1, ServerSide
    <2>3. OwedOK' /\ RepliesOK' /\ AnswerIsDue'
        BY <2>1, <2>2 DEF ProxyInv, OwedOK, RepliesOK, AnswerIsDue, Due
    <2>4. Inventory'
        BY <2>1, InventoryStays
    <2> QED
        BY <2>2, <2>3, <2>4 DEF ProxyInv
<1> QED
    BY <1>1, <1>2, <1>3, <1>4, <1>5 DEF Next

\* The invariant gives what the proxy promises.
LEMMA ProxyPromises == ProxyInv => AnswersAreKept
<1> SUFFICES ASSUME ProxyInv PROVE AnswersAreKept
    OBVIOUS
<1>1. Retained = (sequence - Len(actions) + 1)..sequence
    BY RetainedIs DEF ProxyInv
<1>2. /\ sequence \in 0..MaxActions /\ sequence \in Nat /\ actions \in Seq(Nat)
      /\ Len(actions) \in Nat /\ Len(actions) <= sequence /\ Len(actions) <= History
    BY ProxyNumbers DEF ProxyInv, Window
<1>3. Retained \subseteq Actions
    BY <1>1, <1>2, ProxyNumbers DEF Actions
<1>4. actions \in Seq(Actions)
    <2>1. \A n \in 1..Len(actions) : actions[n] \in Actions
        BY <1>3 DEF Retained
    <2> QED
        BY <1>2, <2>1
<1>5. evidence \subseteq [action : Retained, answers : 0..MaxActions]
    <2>1. Retained \subseteq 0..MaxActions
        BY <1>3, ProxyNumbers DEF Actions
    <2> QED
        BY <2>1 DEF ProxyInv, Records
<1>6. TypeOK
    <2>1. contracts.status \in Statuses
        BY DEF ProxyInv, Inventory
    <2> QED
        BY <1>2, <1>4, <1>5, <2>1 DEF TypeOK, ProxyInv, Records, Flights, Statuses
<1>7. InFlightRetained
    BY DEF InFlightRetained, Answers, ProxyInv, Flights
<1>8. EvidenceIsTheAnswer
    <2> SUFFICES ASSUME NEW e \in evidence
                 PROVE  e.answers = e.action /\ Answers(e.action) = {e}
        BY DEF EvidenceIsTheAnswer
    <2>1. \A d \in evidence : \E a \in Retained : d = [action |-> a, answers |-> a]
        BY DEF ProxyInv, Records
    <2>2. \A d \in evidence : d.answers = d.action /\ d = [action |-> d.action, answers |-> d.action]
        BY <2>1
    <2> QED
        BY <2>2 DEF Answers
<1>9. InventoryIsCurrent
    BY DEF InventoryIsCurrent, ProxyInv, Inventory
<1> QED
    BY <1>6, <1>7, <1>8, <1>9 DEF AnswersAreKept, ProxyInv

\* Whatever the client and the server send, and whatever order, delay or repetition the
\* transport adds: the window keeps every call in flight, what is recorded as the result
\* of an action is the server's answer to it, a complete inventory is not older than the
\* last notified change, and a call in flight has an answer to come (_review_call,
\* observe_server_message and session.observe).
THEOREM McpAnswersAreKept == McpSpec => []AnswersAreKept
<1>1. Init => ProxyInv
    BY ProxyStarts
<1>2. ProxyInv /\ [McpNext]_<<vars, transport>> => ProxyInv'
    <2> SUFFICES ASSUME ProxyInv, [McpNext]_<<vars, transport>> PROVE ProxyInv'
        OBVIOUS
    <2>1. [Next]_vars
        BY DEF McpNext
    <2> QED
        BY <2>1, ProxySteps
<1>3. ProxyInv => AnswersAreKept
    BY ProxyPromises
<1> QED
    BY <1>1, <1>2, <1>3, PTL DEF McpSpec
-----------------------------------------------------------------------------
(* The HTTP transport: its inductive invariant.                            *)

\* The steps of a thread that works on a session.
Working == {"bound", "reviewed", "connected", "published", "sending", "waiting", "stream",
            "timeout", "broken", "ending"}
Steps == {"idle", "open", "done"} \cup Working

\* A thread has a session from new_session or session on, and never another one.
Threads ==
    /\ step \in [Requests -> Steps] /\ of \in [Requests -> Http!Tokens \cup {None}]
    /\ \A r \in Requests : /\ step[r] \in Working => of[r] # None
                           /\ step[r] \in {"idle", "open"} => of[r] = None

\* Every session ever known is that of its initialize request.
Known ==
    /\ \A r \in Requests : of[r] # None => of[of[r]] = of[r]
    /\ \A r \in Http!Tokens : of[r] # None => of[r] = r
    /\ \A t \in sessions \cup expired : of[t] = t

\* The table: counts, bounds, and what the flags are about.
Table ==
    /\ active \in [Http!Tokens -> Nat] /\ sessions \subseteq Http!Tokens
    /\ initialized \cup failed \cup expired \subseteq Http!Tokens
    /\ resumable \cup answered \cup sent \subseteq Requests
    /\ Cardinality(Http!Open) <= MaxSlots /\ Cardinality(sessions) <= MaxSessions
    /\ \A t \in Http!Tokens : active[t] = Cardinality(Http!Users(t))

\* Expired sessions are out of the table for good, with nobody on them.
Expired ==
    /\ expired \cap sessions = {}
    /\ \A t \in expired : Http!Users(t) = {}

\* A session outlives its initialize only if that left a result or can be resumed.
Born == \A t \in sessions : step[t] = "done" => t \in initialized \cup resumable

HttpInv == Threads /\ Known /\ Table /\ Expired /\ Born
-----------------------------------------------------------------------------
(* Facts about the state of the transport.                                 *)

\* The transport's own copy of module FiniteSets is that module.
LEMMA SameSets ==
    \A S : Http!IsFiniteSet(S) = IsFiniteSet(S) /\ Http!Cardinality(S) = Cardinality(S)
<1>1. ASSUME NEW S PROVE Http!IsFiniteSet(S) = IsFiniteSet(S)
    BY Zenon DEF Http!IsFiniteSet, IsFiniteSet
<1>2. ASSUME NEW S PROVE Http!Cardinality(S) = Cardinality(S)
    BY Zenon DEF Http!Cardinality, Cardinality
<1> QED
    BY <1>1, <1>2

\* What the proofs use of the constants.
LEMMA HttpNumbers ==
    /\ IsFiniteSet(Requests) /\ None \notin Requests
    /\ MaxSlots \in Nat /\ MaxSessions \in Nat /\ MaxSlots >= 1 /\ MaxSessions >= 1
    /\ Http!Tokens \subseteq Requests /\ None \notin Http!Tokens
<1>1. Http!HttpConstants
    BY McpConstants
<1>2. IsFiniteSet(Requests) /\ None \notin Requests
    BY <1>1, SameSets DEF Http!HttpConstants
<1>3. MaxSlots \in Nat \ {0} /\ MaxSessions \in Nat \ {0}
    BY <1>1 DEF Http!HttpConstants
<1>4. Http!Tokens \subseteq Requests
    BY DEF Http!Tokens
<1> QED
    BY <1>2, <1>3, <1>4

\* The threads are finitely many.
LEMMA FiniteThreads ==
    /\ IsFiniteSet(Http!Open) /\ Cardinality(Http!Open) \in Nat
    /\ \A t : IsFiniteSet(Http!Users(t)) /\ Cardinality(Http!Users(t)) \in Nat
<1>1. Http!Open \subseteq Requests /\ \A t : Http!Users(t) \subseteq Requests
    BY DEF Http!Open, Http!Users
<1>2. IsFiniteSet(Http!Open) /\ Cardinality(Http!Open) \in Nat
    BY <1>1, HttpNumbers, FS_Subset, FS_CardinalityType
<1>3. ASSUME NEW t PROVE IsFiniteSet(Http!Users(t)) /\ Cardinality(Http!Users(t)) \in Nat
    <2>1. IsFiniteSet(Http!Users(t))
        BY <1>1, HttpNumbers, FS_Subset
    <2> QED
        BY <2>1, FS_CardinalityType
<1> QED
    BY <1>2, <1>3

\* The sessions are finitely many, and a smaller table is no larger.
LEMMA FewerSessions ==
    ASSUME HttpInv, NEW S, S \subseteq sessions
    PROVE  IsFiniteSet(S) /\ Cardinality(S) \in Nat /\ Cardinality(S) <= MaxSessions
<1>1. IsFiniteSet(sessions) /\ Cardinality(sessions) \in Nat
    <2>1. sessions \subseteq Requests
        BY HttpNumbers DEF HttpInv, Table
    <2> QED
        BY <2>1, HttpNumbers, FS_Subset, FS_CardinalityType
<1>2. IsFiniteSet(S) /\ Cardinality(S) <= Cardinality(sessions)
    BY <1>1, FS_Subset
<1>3. Cardinality(S) \in Nat
    BY <1>2, FS_CardinalityType
<1> QED
    BY <1>1, <1>2, <1>3, HttpNumbers DEF HttpInv, Table

\* An idle session has no threads.
LEMMA IdleIs ==
    ASSUME HttpInv, NEW t \in Http!Idle
    PROVE  t \in sessions /\ t \in Http!Tokens /\ Http!Users(t) = {}
<1>1. t \in sessions /\ t \in Http!Tokens /\ Cardinality(Http!Users(t)) = 0
    BY DEF Http!Idle, HttpInv, Table
<1> QED
    BY <1>1, FiniteThreads, FS_EmptySet

\* A session that has not been created has no threads, and is nowhere in the table.
LEMMA Unborn ==
    ASSUME HttpInv, NEW t \in Http!Tokens, step[t] \in {"idle", "open"}
    PROVE  /\ of[t] = None /\ t \notin sessions /\ t \notin expired
           /\ Http!Users(t) = {}
<1>1. of[t] = None /\ t # None
    BY HttpNumbers DEF HttpInv, Threads
<1>2. t \notin sessions /\ t \notin expired
    BY <1>1 DEF HttpInv, Known
<1>3. \A r \in Requests : of[r] # t
    BY <1>1 DEF HttpInv, Known
<1> QED
    BY <1>1, <1>2, <1>3 DEF Http!Users, Http!Open
-----------------------------------------------------------------------------
(* Steps of the transport.                                                 *)

\* A step between those of threads that work on a session, or of a timer: the table may
\* only lose sessions.
LEMMA WorkStep ==
    ASSUME HttpInv, step' \in [Requests -> Steps],
           \A r \in Requests : \/ step'[r] = step[r]
                               \/ step[r] \in Working /\ step'[r] \in Working,
           UNCHANGED <<of, active, expired>>, sessions' \subseteq sessions,
           initialized \subseteq initialized', resumable \subseteq resumable',
           initialized' \cup failed' \subseteq Http!Tokens,
           resumable' \cup answered' \cup sent' \subseteq Requests
    PROVE  HttpInv'
<1>1. /\ step \in [Requests -> Steps] /\ of \in [Requests -> Http!Tokens \cup {None}]
      /\ \A r \in Requests : /\ step[r] \in Working => of[r] # None
                             /\ step[r] \in {"idle", "open"} => of[r] = None
    BY DEF HttpInv, Threads
<1>2. \A r \in Requests : step'[r] \in {"idle", "open", "done"} \/ step[r] \in {"idle", "open", "done"}
          => step'[r] = step[r]
    BY DEF Working
<1>3. Http!Open' = Http!Open /\ \A t : Http!Users(t)' = Http!Users(t)
    BY <1>2 DEF Http!Open, Http!Users
<1>4. Threads'
    BY <1>1, <1>2 DEF Threads
<1>5. Known'
    BY DEF HttpInv, Known
<1>6. Table'
    <2>1. Cardinality(sessions') <= MaxSessions
        BY FewerSessions
    <2> QED
        BY <1>3, <2>1 DEF HttpInv, Table
<1>7. Expired'
    BY <1>3 DEF HttpInv, Expired
<1>8. Born'
    <2> SUFFICES ASSUME NEW t \in sessions', step'[t] = "done" PROVE t \in initialized' \cup resumable'
        BY DEF Born
    <2>1. t \in sessions /\ t \in Requests
        BY HttpNumbers DEF HttpInv, Table
    <2>2. step[t] = "done"
        BY <1>2, <2>1
    <2> QED
        BY <2>1, <2>2 DEF HttpInv, Born
<1> QED
    BY <1>4, <1>5, <1>6, <1>7, <1>8 DEF HttpInv

\* A thread that has no session starts or ends, some sessions being too old.
LEMMA UnboundStep ==
    ASSUME HttpInv, NEW r \in Requests, step[r] \in {"idle", "open"},
           NEW s \in {"open", "done"}, step' = [step EXCEPT ![r] = s],
           Cardinality(Http!Open') <= MaxSlots,
           NEW gone \in SUBSET Http!Idle,
           sessions' = sessions \ gone, expired' = expired \cup gone,
           UNCHANGED <<of, active, initialized, failed, resumable, answered, sent>>
    PROVE  HttpInv'
<1>1. /\ step \in [Requests -> Steps] /\ of \in [Requests -> Http!Tokens \cup {None}]
      /\ of[r] = None
    BY DEF HttpInv, Threads
<1>2. step' \in [Requests -> Steps] /\ step'[r] = s /\ \A q \in Requests \ {r} : step'[q] = step[q]
    BY <1>1 DEF Steps
<1>3. \A t \in Http!Tokens : Http!Users(t)' = Http!Users(t)
    BY <1>1, <1>2, HttpNumbers DEF Http!Users, Http!Open
<1>4. \A t \in gone : t \in sessions /\ t \in Http!Tokens /\ Http!Users(t) = {}
    BY IdleIs
<1>5. Threads'
    BY <1>1, <1>2 DEF HttpInv, Threads, Working
<1>6. Known'
    BY <1>4 DEF HttpInv, Known
<1>7. Table'
    <2>1. Cardinality(sessions') <= MaxSessions
        BY FewerSessions
    <2> QED
        BY <1>3, <1>4, <2>1 DEF HttpInv, Table
<1>8. Expired'
    <2>1. expired \subseteq Http!Tokens
        BY DEF HttpInv, Table
    <2> QED
        BY <1>3, <1>4, <2>1 DEF HttpInv, Expired
<1>9. Born'
    <2>1. \A t \in sessions : t \in Requests /\ of[t] = t /\ t # None
        BY HttpNumbers DEF HttpInv, Table, Known
    <2> QED
        BY <1>1, <1>2, <2>1 DEF HttpInv, Born
<1> QED
    BY <1>5, <1>6, <1>7, <1>8, <1>9 DEF HttpInv

\* A thread is bound to a session, its own new one or one that is in the table.
LEMMA BindStep ==
    ASSUME HttpInv, NEW r \in Requests, step[r] = "open", NEW t \in Http!Tokens,
           NEW gone \in SUBSET Http!Idle,
           t = r \/ (r \notin Http!Tokens /\ t \in sessions \ gone),
           step' = [step EXCEPT ![r] = "bound"], of' = [of EXCEPT ![r] = t],
           active' = [active EXCEPT ![t] = Cardinality(Http!Users(t)) + 1],
           sessions' = (sessions \ gone) \cup {t}, Cardinality(sessions') <= MaxSessions,
           expired' = expired \cup gone,
           UNCHANGED <<initialized, failed, resumable, answered, sent>>
    PROVE  HttpInv'
<1>1. /\ step \in [Requests -> Steps] /\ of \in [Requests -> Http!Tokens \cup {None}]
      /\ of[r] = None /\ r # None /\ t # None /\ t \in Requests
    BY HttpNumbers DEF HttpInv, Threads
<1>2. /\ step' \in [Requests -> Steps] /\ step'[r] = "bound"
      /\ \A q \in Requests \ {r} : step'[q] = step[q]
      /\ of' \in [Requests -> Http!Tokens \cup {None}] /\ of'[r] = t
      /\ \A q \in Requests \ {r} : of'[q] = of[q]
    BY <1>1 DEF Steps, Working
<1>3. Http!Open' = Http!Open
    BY <1>2 DEF Http!Open
<1>4. /\ Http!Users(t)' = Http!Users(t) \cup {r} /\ r \notin Http!Users(t)
      /\ \A q \in Http!Tokens \ {t} : Http!Users(q)' = Http!Users(q)
    BY <1>1, <1>2, <1>3, HttpNumbers DEF Http!Users, Http!Open
<1>5. \A q \in gone : q \in sessions /\ q \in Http!Tokens /\ Http!Users(q) = {}
    BY IdleIs
<1>6. t \notin gone /\ t \notin expired
    <2>1. CASE t = r
        BY <1>5, <2>1, Unborn
    <2>2. CASE r \notin Http!Tokens /\ t \in sessions \ gone
        BY <2>2 DEF HttpInv, Expired
    <2> QED
        BY <2>1, <2>2
<1>7. \A q \in Requests : of[q] # None => of[q] # r
    BY <1>1 DEF HttpInv, Known
<1>8. Threads'
    BY <1>1, <1>2 DEF HttpInv, Threads, Working
<1>9. of'[t] = t
    <2>1. CASE t = r
        BY <1>2, <2>1
    <2>2. CASE r \notin Http!Tokens /\ t \in sessions \ gone
        BY <1>1, <1>2, <2>2 DEF HttpInv, Known
    <2> QED
        BY <2>1, <2>2
<1>10. Known'
    <2>1. \A q \in Requests : of'[q] # None => of'[of'[q]] = of'[q]
        <3> SUFFICES ASSUME NEW q \in Requests \ {r}, of'[q] # None PROVE of'[of'[q]] = of'[q]
            BY <1>2, <1>9
        <3>1. of'[q] = of[q] /\ of[q] # None /\ of[q] # r /\ of[q] \in Http!Tokens
            BY <1>1, <1>2, <1>7
        <3>2. of[of[q]] = of[q]
            BY <3>1 DEF HttpInv, Known
        <3> QED
            BY <1>2, <3>1, <3>2, HttpNumbers
    <2>2. \A q \in Http!Tokens : of'[q] # None => of'[q] = q
        BY <1>2, <1>9, HttpNumbers DEF HttpInv, Known
    <2>3. \A q \in sessions' \cup expired' : of'[q] = q
        <3> SUFFICES ASSUME NEW q \in sessions' \cup expired', q # t PROVE of'[q] = q
            BY <1>9
        <3>1. q \in sessions \cup expired
            BY <1>5
        <3>2. of[q] = q /\ q \in Requests /\ q # None
            BY <3>1, HttpNumbers DEF HttpInv, Known, Table
        <3> QED
            BY <1>1, <1>2, <3>2
    <2> QED
        BY <2>1, <2>2, <2>3 DEF Known
<1>11. Table'
    <2>1. Cardinality(Http!Users(t)') = Cardinality(Http!Users(t)) + 1
        BY <1>4, FiniteThreads, FS_AddElement
    <2>2. active \in [Http!Tokens -> Nat] /\ Cardinality(Http!Users(t)) \in Nat
        BY FiniteThreads DEF HttpInv, Table
    <2>3. active' \in [Http!Tokens -> Nat] /\ active'[t] = Cardinality(Http!Users(t)')
          /\ \A q \in Http!Tokens \ {t} : active'[q] = active[q]
        BY <2>1, <2>2
    <2>4. \A q \in Http!Tokens : active'[q] = Cardinality(Http!Users(q)')
        BY <1>4, <2>3 DEF HttpInv, Table
    <2> QED
        BY <1>3, <1>5, <2>3, <2>4 DEF HttpInv, Table
<1>12. Expired'
    <2>1. expired \subseteq Http!Tokens
        BY DEF HttpInv, Table
    <2> QED
        BY <1>4, <1>5, <1>6, <2>1 DEF HttpInv, Expired
<1>13. Born'
    <2> SUFFICES ASSUME NEW q \in sessions', step'[q] = "done" PROVE q \in initialized \cup resumable
        BY DEF Born
    <2>1. q \in Requests /\ q # r
        BY <1>2, HttpNumbers DEF HttpInv, Table
    <2>2. q \in sessions \/ q = t
        OBVIOUS
    <2>3. q \in sessions
        BY <2>1, <2>2
    <2> QED
        BY <1>2, <2>1, <2>3 DEF HttpInv, Born
<1> QED
    BY <1>8, <1>10, <1>11, <1>12, <1>13 DEF HttpInv

\* A thread goes from one step of its work to another.
LEMMA Goes ==
    ASSUME HttpInv, NEW r \in Requests, step[r] \in Working, NEW s \in Working, Http!Goto(r, s),
           UNCHANGED <<of, active, expired>>, sessions' \subseteq sessions,
           initialized \subseteq initialized', initialized' \subseteq initialized \cup {of[r]},
           failed' \subseteq failed \cup {of[r]},
           resumable \subseteq resumable', resumable' \subseteq resumable \cup {r},
           answered' \subseteq answered \cup {r}, sent' \subseteq sent \cup {r}
    PROVE  HttpInv'
<1>1. step \in [Requests -> Steps] /\ of[r] \in Http!Tokens
    BY DEF HttpInv, Threads
<1>2. step' = [step EXCEPT ![r] = s]
    BY DEF Http!Goto
<1>3. /\ step' \in [Requests -> Steps]
      /\ \A q \in Requests : \/ step'[q] = step[q]
                             \/ step[q] \in Working /\ step'[q] \in Working
    BY <1>1, <1>2 DEF Steps
<1>4. /\ initialized' \cup failed' \subseteq Http!Tokens
      /\ resumable' \cup answered' \cup sent' \subseteq Requests
    BY <1>1 DEF HttpInv, Table
<1> QED
    BY <1>3, <1>4, WorkStep

\* _check and the exchange with the upstream, up to its answer.
LEMMA ExchangeSteps ==
    ASSUME HttpInv, NEW r \in Requests,
           \/ Http!Check(r) \/ Http!Connect(r) \/ Http!Publish(r) \/ Http!ReadFlag(r)
           \/ Http!Send(r) \/ Http!Lose(r)
    PROVE  HttpInv'
<1>1. CASE Http!Check(r)
    <2>1. /\ step[r] \in Working /\ answered' \subseteq answered \cup {r}
          /\ UNCHANGED <<of, sessions, active, expired, initialized, failed, resumable, sent>>
        BY <1>1 DEF Http!Check, Http!table, Http!flags, Http!wire, Working
    <2>2. PICK s \in Working : Http!Goto(r, s)
        BY <1>1 DEF Http!Check, Working
    <2> QED
        BY <2>1, <2>2, Goes
<1>2. CASE Http!Connect(r)
    <2>1. /\ step[r] \in Working
          /\ UNCHANGED <<of, sessions, active, expired, initialized, failed, resumable, answered,
                         sent>>
        BY <1>2 DEF Http!Connect, Http!table, Http!flags, Working
    <2>2. PICK s \in Working : Http!Goto(r, s)
        BY <1>2 DEF Http!Connect, Working
    <2> QED
        BY <2>1, <2>2, Goes
<1>3. CASE Http!Publish(r)
    <2>1. /\ step[r] \in Working
          /\ UNCHANGED <<of, sessions, active, expired, initialized, failed, resumable, answered,
                         sent>>
        BY <1>3 DEF Http!Publish, Http!table, Http!flags, Working
    <2>2. PICK s \in Working : Http!Goto(r, s)
        BY <1>3 DEF Http!Publish, Working
    <2> QED
        BY <2>1, <2>2, Goes
<1>4. CASE Http!ReadFlag(r)
    <2>1. /\ step[r] \in Working
          /\ UNCHANGED <<of, sessions, active, expired, initialized, failed, resumable, answered,
                         sent>>
        BY <1>4 DEF Http!ReadFlag, Http!table, Http!flags, Http!wire, Working
    <2>2. PICK s \in Working : Http!Goto(r, s)
        BY <1>4 DEF Http!ReadFlag, Working
    <2> QED
        BY <2>1, <2>2, Goes
<1>5. CASE Http!Send(r)
    <2>1. /\ step[r] \in Working /\ sent' \subseteq sent \cup {r}
          /\ UNCHANGED <<of, sessions, active, expired, initialized, failed, resumable, answered>>
        BY <1>5 DEF Http!Send, Http!table, Http!flags, Working
    <2>2. PICK s \in Working : Http!Goto(r, s)
        BY <1>5 DEF Http!Send, Working
    <2> QED
        BY <2>1, <2>2, Goes
<1>6. CASE Http!Lose(r)
    <2>1. /\ step[r] \in Working
          /\ UNCHANGED <<of, sessions, active, expired, initialized, failed, resumable, answered,
                         sent>>
        BY <1>6 DEF Http!Lose, Http!table, Http!flags, Http!wire, Working
    <2>2. PICK s \in Working : Http!Goto(r, s)
        BY <1>6 DEF Http!Lose, Working
    <2> QED
        BY <2>1, <2>2, Goes
<1> QED
    BY <1>1, <1>2, <1>3, <1>4, <1>5, <1>6

\* The timer changes nothing the table is about.
LEMMA TimerSteps ==
    ASSUME HttpInv, NEW r \in Requests,
           Http!TimerSets(r) \/ Http!TimerShuts(r) \/ UNCHANGED Http!vars
    PROVE  HttpInv'
<1>1. UNCHANGED <<step, of, sessions, active, expired, initialized, failed, resumable, answered,
                  sent>>
    BY DEF Http!TimerSets, Http!TimerShuts, Http!vars, Http!table, Http!flags, Http!wire
<1>2. /\ step' \in [Requests -> Steps]
      /\ initialized \cup failed \subseteq Http!Tokens
      /\ resumable \cup answered \cup sent \subseteq Requests
    BY <1>1 DEF HttpInv, Threads, Table
<1> QED
    BY <1>1, <1>2, WorkStep

\* An answer without a stream.
LEMMA AnswerSteps ==
    ASSUME HttpInv, NEW r \in Requests,
           \/ Http!HttpError(r) \/ Http!Deleted(r) \/ Http!Accepted(r) \/ Http!Result(r)
           \/ Http!BadAnswer(r) \/ Http!Broken(r) \/ Http!TimedOut(r)
    PROVE  HttpInv'
<1>1. CASE Http!HttpError(r) \/ Http!Deleted(r)
    <2>1. /\ step[r] \in Working /\ sessions' \subseteq sessions /\ failed' \subseteq failed \cup {of[r]}
          /\ UNCHANGED <<of, active, expired, initialized, resumable, answered, sent>>
        BY <1>1 DEF Http!HttpError, Http!Deleted, Http!Drop, Http!Fail, Http!wire, Working
    <2>2. PICK s \in Working : Http!Goto(r, s)
        BY <1>1 DEF Http!HttpError, Http!Deleted, Working
    <2> QED
        BY <2>1, <2>2, Goes
<1>2. CASE Http!Accepted(r) \/ Http!BadAnswer(r)
    <2>1. /\ step[r] \in Working /\ answered' \subseteq answered \cup {r}
          /\ UNCHANGED <<of, sessions, active, expired, initialized, failed, resumable, sent>>
        BY <1>2 DEF Http!Accepted, Http!BadAnswer, Http!table, Http!flags, Http!wire, Working
    <2>2. PICK s \in Working : Http!Goto(r, s)
        BY <1>2 DEF Http!Accepted, Http!BadAnswer, Working
    <2> QED
        BY <2>1, <2>2, Goes
<1>3. CASE Http!Result(r)
    <2>1. /\ step[r] \in Working /\ answered' \subseteq answered \cup {r}
          /\ UNCHANGED <<of, sessions, active, expired, failed, resumable, sent>>
        BY <1>3 DEF Http!Result, Http!table, Http!wire, Working
    <2>2. PICK s \in Working : Http!Goto(r, s)
        BY <1>3 DEF Http!Result, Working
    <2>3. initialized \subseteq initialized' /\ initialized' \subseteq initialized \cup {of[r]}
        BY <1>3 DEF Http!Result, Http!Observed
    <2> QED
        BY <2>1, <2>2, <2>3, Goes
<1>4. CASE Http!Broken(r) \/ Http!TimedOut(r)
    <2>1. /\ step[r] \in Working /\ failed' \subseteq failed \cup {of[r]}
          /\ UNCHANGED <<of, sessions, active, expired, initialized, resumable, answered, sent>>
        BY <1>4 DEF Http!Broken, Http!TimedOut, Http!Fail, Http!table, Http!wire, Working
    <2>2. PICK s \in Working : Http!Goto(r, s)
        BY <1>4 DEF Http!Broken, Http!TimedOut, Working
    <2> QED
        BY <2>1, <2>2, Goes
<1> QED
    BY <1>1, <1>2, <1>3, <1>4

\* An event stream.
LEMMA StreamSteps ==
    ASSUME HttpInv, NEW r \in Requests,
           \/ Http!StreamStarts(r) \/ Http!StreamEvent(r) \/ Http!StreamResult(r)
           \/ Http!StreamEnds(r) \/ Http!StreamTimesOut(r)
    PROVE  HttpInv'
<1>1. CASE Http!StreamStarts(r) \/ Http!StreamTimesOut(r)
    <2>1. /\ step[r] \in Working /\ answered' \subseteq answered \cup {r}
          /\ UNCHANGED <<of, sessions, active, expired, initialized, failed, resumable, sent>>
        BY <1>1 DEF Http!StreamStarts, Http!StreamTimesOut, Http!table, Http!flags, Http!wire, Working
    <2>2. PICK s \in Working : Http!Goto(r, s)
        BY <1>1 DEF Http!StreamStarts, Http!StreamTimesOut, Working
    <2> QED
        BY <2>1, <2>2, Goes
<1>2. CASE Http!StreamEvent(r)
    <2>1. /\ resumable' = resumable \cup {r}
          /\ UNCHANGED <<step, of, sessions, active, expired, initialized, failed, answered, sent>>
        BY <1>2 DEF Http!StreamEvent, Http!table, Http!flags, Http!wire
    <2>2. /\ step' \in [Requests -> Steps]
          /\ initialized \cup failed \subseteq Http!Tokens
          /\ resumable' \cup answered \cup sent \subseteq Requests
        BY <2>1 DEF HttpInv, Threads, Table
    <2> QED
        BY <2>1, <2>2, WorkStep
<1>3. CASE Http!StreamResult(r)
    <2>1. /\ step[r] \in Working
          /\ UNCHANGED <<of, sessions, active, expired, failed, resumable, answered, sent>>
        BY <1>3 DEF Http!StreamResult, Http!table, Http!wire, Working
    <2>2. PICK s \in Working : Http!Goto(r, s)
        BY <1>3 DEF Http!StreamResult, Working
    <2>3. initialized \subseteq initialized' /\ initialized' \subseteq initialized \cup {of[r]}
        BY <1>3 DEF Http!StreamResult, Http!Observed
    <2> QED
        BY <2>1, <2>2, <2>3, Goes
<1>4. CASE Http!StreamEnds(r)
    <2>1. /\ step[r] \in Working /\ failed' \subseteq failed \cup {of[r]}
          /\ UNCHANGED <<of, sessions, active, expired, initialized, resumable, answered, sent>>
        BY <1>4 DEF Http!StreamEnds, Http!Fail, Http!table, Http!wire, Working
    <2>2. PICK s \in Working : Http!Goto(r, s)
        BY <1>4 DEF Http!StreamEnds, Working
    <2> QED
        BY <2>1, <2>2, Goes
<1> QED
    BY <1>1, <1>2, <1>3, <1>4

\* process_request, and a request that is refused before it has a session.
LEMMA OpeningSteps ==
    ASSUME HttpInv, NEW r \in Requests, Http!Accept(r) \/ Http!Malformed(r)
    PROVE  HttpInv'
<1>1. step \in [Requests -> Steps] /\ {} \in SUBSET Http!Idle
    BY DEF HttpInv, Threads
<1>2. UNCHANGED <<of, sessions, active, expired, initialized, failed, resumable, answered, sent>>
    BY DEF Http!Accept, Http!Malformed, Http!table, Http!flags, Http!wire
<1>3. step[r] \in {"idle", "open"}
    BY DEF Http!Accept, Http!Malformed
<1>4. PICK s \in {"open", "done"} :
          /\ step' = [step EXCEPT ![r] = s]
          /\ s = "open" => Cardinality(Http!Open) < MaxSlots
    BY SameSets DEF Http!Accept, Http!Malformed, Http!Goto
<1>5. Http!Open' \subseteq Http!Open \/ (s = "open" /\ Http!Open' \subseteq Http!Open \cup {r})
    BY <1>1, <1>4 DEF Http!Open
<1>6. Cardinality(Http!Open') <= MaxSlots
    <2>1. Cardinality(Http!Open) <= MaxSlots
        BY DEF HttpInv, Table
    <2>2. CASE Http!Open' \subseteq Http!Open
        BY <2>1, <2>2, FiniteThreads, HttpNumbers, Room
    <2>3. CASE s = "open" /\ Http!Open' \subseteq Http!Open \cup {r}
        BY <1>4, <2>1, <2>3, FiniteThreads, HttpNumbers, Room
    <2> QED
        BY <1>5, <2>2, <2>3
<1> QED
    BY <1>1, <1>2, <1>3, <1>4, <1>6, UnboundStep

\* A thread whose session cannot be created or found ends; some sessions are too old.
LEMMA RefusedStep ==
    ASSUME HttpInv, NEW r \in Requests, step[r] = "open", step' = [step EXCEPT ![r] = "done"],
           NEW gone \in SUBSET Http!Idle,
           sessions' = sessions \ gone, expired' = expired \cup gone,
           UNCHANGED <<of, active, initialized, failed, resumable, answered, sent>>
    PROVE  HttpInv'
<1>1. step \in [Requests -> Steps]
    BY DEF HttpInv, Threads
<1>2. Http!Open' \subseteq Http!Open
    BY <1>1 DEF Http!Open
<1>3. Cardinality(Http!Open') <= MaxSlots
    <2>1. Cardinality(Http!Open) <= MaxSlots
        BY DEF HttpInv, Table
    <2> QED
        BY <1>2, <2>1, FiniteThreads, HttpNumbers, Room
<1>4. "done" \in {"open", "done"} /\ step[r] \in {"idle", "open"}
    OBVIOUS
<1> QED
    BY <1>3, <1>4, UnboundStep

\* new_session.
LEMMA NewSessionStep ==
    ASSUME HttpInv, NEW r \in Requests, Http!NewSession(r)
    PROVE  HttpInv'
<1>1. PICK gone \in SUBSET Http!Idle :
          /\ expired' = expired \cup gone
          /\ IF Cardinality(sessions \ gone) < MaxSessions
             THEN /\ sessions' = (sessions \ gone) \cup {r}
                  /\ active' = [active EXCEPT ![r] = 1]
                  /\ of' = [of EXCEPT ![r] = r] /\ step' = [step EXCEPT ![r] = "bound"]
             ELSE /\ sessions' = sessions \ gone /\ UNCHANGED <<active, of>>
                  /\ step' = [step EXCEPT ![r] = "done"]
    BY SameSets DEF Http!NewSession, Http!Expire, Http!Goto
<1>2. /\ step[r] = "open" /\ r \in Http!Tokens
      /\ UNCHANGED <<initialized, failed, resumable, answered, sent>>
    BY DEF Http!NewSession, Http!Tokens, Http!flags, Http!wire
<1>3. CASE Cardinality(sessions \ gone) < MaxSessions
    <2>1. Http!Users(r) = {} /\ Cardinality({}) = 0
        BY <1>2, Unborn, FS_EmptySet
    <2>2. active' = [active EXCEPT ![r] = Cardinality(Http!Users(r)) + 1]
        BY <1>1, <1>3, <2>1
    <2>3. Cardinality(sessions') <= MaxSessions
        <3>1. IsFiniteSet(sessions \ gone) /\ Cardinality(sessions \ gone) <= MaxSessions
            BY FewerSessions
        <3>2. sessions' \subseteq (sessions \ gone) \cup {r}
            BY <1>1, <1>3
        <3> QED
            BY <1>3, <3>1, <3>2, HttpNumbers, Room
    <2> QED
        BY <1>1, <1>2, <1>3, <2>2, <2>3, BindStep
<1>4. CASE ~(Cardinality(sessions \ gone) < MaxSessions)
    BY <1>1, <1>2, <1>4, RefusedStep
<1> QED
    BY <1>3, <1>4

\* session.
LEMMA FindSessionStep ==
    ASSUME HttpInv, NEW r \in Requests, NEW t \in Http!Tokens, Http!FindSession(r, t)
    PROVE  HttpInv'
<1>1. PICK gone \in SUBSET Http!Idle :
          /\ expired' = expired \cup gone /\ sessions' = sessions \ gone
          /\ IF t \in sessions \ gone
             THEN /\ active' = [active EXCEPT ![t] = active[t] + 1]
                  /\ of' = [of EXCEPT ![r] = t] /\ step' = [step EXCEPT ![r] = "bound"]
             ELSE UNCHANGED <<active, of>> /\ step' = [step EXCEPT ![r] = "done"]
    BY DEF Http!FindSession, Http!Expire, Http!Goto
<1>2. /\ step[r] = "open" /\ r \notin Http!Tokens
      /\ UNCHANGED <<initialized, failed, resumable, answered, sent>>
    BY DEF Http!FindSession, Http!Tokens, Http!flags, Http!wire
<1>3. CASE t \in sessions \ gone
    <2>1. active' = [active EXCEPT ![t] = Cardinality(Http!Users(t)) + 1]
        BY <1>1, <1>3 DEF HttpInv, Table
    <2>2. sessions' = (sessions \ gone) \cup {t} /\ Cardinality(sessions') <= MaxSessions
        BY <1>1, <1>3, FewerSessions
    <2> QED
        BY <1>1, <1>2, <1>3, <2>1, <2>2, BindStep
<1>4. CASE t \notin sessions \ gone
    BY <1>1, <1>2, <1>4, RefusedStep
<1> QED
    BY <1>3, <1>4

\* The finally clause: the thread leaves its session, and an initialize without a result
\* takes it along.
LEMMA EndStep ==
    ASSUME HttpInv, NEW r \in Requests, Http!End(r)
    PROVE  HttpInv'
<1>1. /\ step[r] = "ending" /\ active' = [active EXCEPT ![of[r]] = active[of[r]] - 1]
      /\ step' = [step EXCEPT ![r] = "done"]
      /\ UNCHANGED <<of, expired, initialized, resumable, answered, sent>>
      /\ IF Http!Stillborn(r) THEN sessions' = sessions \ {of[r]} /\ failed' = failed \cup {of[r]}
         ELSE UNCHANGED <<sessions, failed>>
    BY DEF Http!End, Http!Drop, Http!Goto
<1>2. PICK t \in Http!Tokens : t = of[r]
    BY <1>1 DEF HttpInv, Threads, Working
<1>3. /\ step \in [Requests -> Steps] /\ active \in [Http!Tokens -> Nat] /\ t # None
      /\ \A q \in Http!Tokens : active[q] = Cardinality(Http!Users(q))
      /\ sessions' \subseteq sessions /\ failed' \subseteq failed \cup {t}
    BY <1>1, <1>2, HttpNumbers DEF HttpInv, Threads, Table
<1>4. /\ step' \in [Requests -> Steps] /\ step'[r] = "done"
      /\ \A q \in Requests \ {r} : step'[q] = step[q]
    BY <1>1, <1>3 DEF Steps
<1>5. /\ Http!Open' = Http!Open \ {r} /\ r \in Http!Users(t) /\ Http!Users(t)' = Http!Users(t) \ {r}
      /\ \A q \in Http!Tokens \ {t} : Http!Users(q)' = Http!Users(q)
    BY <1>1, <1>2, <1>4 DEF Http!Open, Http!Users
<1>6. Threads'
    BY <1>1, <1>4 DEF HttpInv, Threads, Working
<1>7. Known'
    BY <1>1, <1>3 DEF HttpInv, Known
<1>8. Table'
    <2>1. Cardinality(Http!Users(t)') = Cardinality(Http!Users(t)) - 1
        BY <1>5, FiniteThreads, FS_RemoveElement
    <2>2. Cardinality(Http!Users(t)') \in Nat
        <3>1. IsFiniteSet(Http!Users(t) \ {r})
            BY FiniteThreads, FS_Subset
        <3> QED
            BY <1>5, <3>1, FS_CardinalityType
    <2>3. active' = [active EXCEPT ![t] = Cardinality(Http!Users(t)')]
        BY <1>1, <1>2, <1>3, <2>1
    <2>4. /\ active' \in [Http!Tokens -> Nat]
          /\ \A q \in Http!Tokens : active'[q] = Cardinality(Http!Users(q)')
        BY <1>3, <1>5, <2>2, <2>3
    <2>5. Cardinality(sessions') <= MaxSessions
        BY <1>3, FewerSessions
    <2>6. Cardinality(Http!Open') <= MaxSlots
        <3>1. Cardinality(Http!Open) <= MaxSlots /\ Http!Open' \subseteq Http!Open
            BY <1>5 DEF HttpInv, Table
        <3> QED
            BY <3>1, FiniteThreads, HttpNumbers, Room
    <2> QED
        BY <1>1, <1>3, <2>4, <2>5, <2>6 DEF HttpInv, Table
<1>9. Expired'
    <2>1. expired \subseteq Http!Tokens
        BY DEF HttpInv, Table
    <2> QED
        BY <1>1, <1>3, <1>5, <2>1 DEF HttpInv, Expired
<1>10. Born'
    <2> SUFFICES ASSUME NEW q \in sessions', step'[q] = "done" PROVE q \in initialized \cup resumable
        BY <1>1 DEF Born
    <2>1. q \in sessions /\ q \in Http!Tokens /\ q \in Requests
        BY <1>3, HttpNumbers DEF HttpInv, Table
    <2>2. CASE q = r
        <3>1. of[r] = r
            BY <1>2, <1>3, <2>1, <2>2 DEF HttpInv, Known
        <3>2. ~Http!Stillborn(r)
            BY <1>1, <2>2, <3>1
        <3> QED
            BY <2>1, <2>2, <3>1, <3>2 DEF Http!Stillborn, Http!Tokens
    <2>3. CASE q # r
        BY <1>4, <2>1, <2>3 DEF HttpInv, Born
    <2> QED
        BY <2>2, <2>3
<1> QED
    BY <1>6, <1>7, <1>8, <1>9, <1>10 DEF HttpInv
-----------------------------------------------------------------------------
(* The invariant of the transport.                                         *)

\* Nothing has started at first.
LEMMA HttpStarts == Http!Init => HttpInv
<1> SUFFICES ASSUME Http!Init PROVE HttpInv
    OBVIOUS
<1>1. /\ step = [r \in Requests |-> "idle"] /\ of = [r \in Requests |-> None]
      /\ sessions = {} /\ initialized = {} /\ failed = {} /\ expired = {}
      /\ active = [t \in Http!Tokens |-> 0]
      /\ resumable = {} /\ answered = {} /\ sent = {}
    BY DEF Http!Init
<1>2. Http!Open = {} /\ Cardinality({}) = 0 /\ \A t : Http!Users(t) = {}
    BY <1>1, FS_EmptySet DEF Http!Open, Http!Users
<1>3. Threads /\ Known
    BY <1>1, HttpNumbers DEF Threads, Known, Steps, Working
<1>4. Table
    BY <1>1, <1>2, HttpNumbers DEF Table
<1>5. Expired /\ Born
    BY <1>1 DEF Expired, Born
<1> QED
    BY <1>3, <1>4, <1>5 DEF HttpInv

\* Every step of a thread, a timer or the upstream keeps the invariant.
LEMMA HttpSteps == HttpInv /\ [Http!Next]_Http!vars => HttpInv'
<1> SUFFICES ASSUME HttpInv, [Http!Next]_Http!vars PROVE HttpInv'
    OBVIOUS
<1>1. CASE UNCHANGED Http!vars
    <2>1. CASE Requests = {}
        <3>1. UNCHANGED <<step, of, sessions, active, expired, initialized, failed, resumable,
                          answered, sent>>
            BY <1>1 DEF Http!vars, Http!table, Http!flags, Http!wire
        <3>2. /\ step' \in [Requests -> Steps]
              /\ initialized \cup failed \subseteq Http!Tokens
              /\ resumable \cup answered \cup sent \subseteq Requests
            BY <3>1 DEF HttpInv, Threads, Table
        <3> QED
            BY <3>1, <3>2, WorkStep
    <2>2. CASE Requests # {}
        BY <1>1, <2>2, TimerSteps
    <2> QED
        BY <2>1, <2>2
<1>2. CASE Http!Next
    <2>1. PICK r \in Requests :
              \/ Http!Accept(r) \/ Http!Malformed(r) \/ (\E t \in Http!Tokens : Http!FindSession(r, t))
              \/ Http!Progress(r) \/ Http!Timer(r) \/ Http!Lose(r) \/ Http!Upstream(r)
        BY <1>2 DEF Http!Next
    <2>2. CASE Http!Accept(r) \/ Http!Malformed(r)
        BY <2>2, OpeningSteps
    <2>3. CASE \E t \in Http!Tokens : Http!FindSession(r, t)
        BY <2>3, FindSessionStep
    <2>4. CASE Http!Progress(r)
        <3>1. CASE Http!NewSession(r)
            BY <3>1, NewSessionStep
        <3>2. CASE \/ Http!Check(r) \/ Http!Connect(r) \/ Http!Publish(r) \/ Http!ReadFlag(r)
                   \/ Http!Send(r)
            BY <3>2, ExchangeSteps
        <3>3. CASE Http!StreamTimesOut(r)
            BY <3>3, StreamSteps
        <3>4. CASE Http!Broken(r) \/ Http!TimedOut(r)
            BY <3>4, AnswerSteps
        <3>5. CASE Http!End(r)
            BY <3>5, EndStep
        <3> QED
            BY <2>4, <3>1, <3>2, <3>3, <3>4, <3>5 DEF Http!Progress
    <2>5. CASE Http!Timer(r)
        BY <2>5, TimerSteps DEF Http!Timer
    <2>6. CASE Http!Lose(r)
        BY <2>6, ExchangeSteps
    <2>7. CASE Http!Upstream(r)
        <3>1. CASE \/ Http!HttpError(r) \/ Http!Deleted(r) \/ Http!Accepted(r) \/ Http!Result(r)
                   \/ Http!BadAnswer(r)
            BY <3>1, AnswerSteps
        <3>2. CASE \/ Http!StreamStarts(r) \/ Http!StreamEvent(r) \/ Http!StreamResult(r)
                   \/ Http!StreamEnds(r)
            BY <3>2, StreamSteps
        <3> QED
            BY <2>7, <3>1, <3>2 DEF Http!Upstream
    <2> QED
        BY <2>1, <2>2, <2>3, <2>4, <2>5, <2>6, <2>7
<1> QED
    BY <1>1, <1>2

\* The invariant gives what the transport promises.
LEMMA HttpPromises == HttpInv => SessionsAreLive
<1> SUFFICES ASSUME HttpInv PROVE Http!SessionsAreLive
    BY DEF SessionsAreLive
<1>1. Http!TypeOK
    BY SameSets DEF Http!TypeOK, HttpInv, Threads, Table
<1>2. Http!UsedIsKept
    BY DEF Http!UsedIsKept, HttpInv, Expired
<1>3. Http!NoStillbornSession
    <2> SUFFICES ASSUME NEW t \in sessions, active[t] = 0 PROVE t \in initialized \cup resumable
        BY DEF Http!NoStillbornSession
    <2>1. t \in Http!Tokens /\ t \in Requests /\ t # None /\ of[t] = t /\ step[t] \in Steps
        BY HttpNumbers DEF HttpInv, Table, Known, Threads
    <2>2. Http!Users(t) = {}
        <3>1. Cardinality(Http!Users(t)) = 0
            BY <2>1 DEF HttpInv, Table
        <3> QED
            BY <3>1, FiniteThreads, FS_EmptySet
    <2>3. step[t] = "done"
        <3>1. step[t] \notin {"idle", "open"}
            BY <2>1 DEF HttpInv, Threads
        <3>2. t \notin Http!Open
            BY <2>1, <2>2 DEF Http!Users
        <3> QED
            BY <2>1, <3>1, <3>2 DEF Http!Open
    <2> QED
        BY <2>3 DEF HttpInv, Born
<1> QED
    BY <1>1, <1>2, <1>3 DEF Http!SessionsAreLive

\* Whatever threads, timers, expiry and the upstream do between one another: active counts
\* the threads on a session exactly, the slots and the table stay within their bounds, no
\* session is removed for its age while a thread is on it, and one that is left alone was
\* initialized or can be resumed (new_session, session, _expire and the finally clause of
\* _handle).
THEOREM McpSessionsAreLive == McpSpec => []SessionsAreLive
<1>1. Http!Init => HttpInv
    BY HttpStarts
<1>2. HttpInv /\ [McpNext]_<<vars, transport>> => HttpInv'
    <2> SUFFICES ASSUME HttpInv, [McpNext]_<<vars, transport>> PROVE HttpInv'
        OBVIOUS
    <2>1. [Http!Next]_Http!vars
        BY DEF McpNext, transport, Http!vars, Http!table, Http!flags, Http!wire
    <2> QED
        BY <2>1, HttpSteps
<1>3. HttpInv => SessionsAreLive
    BY HttpPromises
<1> QED
    BY <1>1, <1>2, <1>3, PTL DEF McpSpec
-----------------------------------------------------------------------------
(* The deadline of the exchange with the upstream.                         *)

\* A thread that is about to send has its socket where the timer finds it, and a timer
\* that has run has shut it down.
Timed(r) ==
    /\ step[r] \in {"published", "sending"} => socket[r] \in {"open", "shut"}
    /\ step[r] = "sending" /\ timer[r] = "fired" => socket[r] = "shut"

TimerInv ==
    /\ timer \in [Requests -> {"off", "running", "set", "fired"}]
    /\ socket \in [Requests -> {"none", "open", "shut"}]
    /\ \A r \in Requests : Timed(r)

\* A thread goes elsewhere than to its published socket or to sending.
LEMMA Elsewhere ==
    ASSUME HttpInv, TimerInv, NEW r \in Requests,
           NEW s, s \notin {"published", "sending"}, Http!Goto(r, s),
           UNCHANGED timer \/ \E x \in {"off", "running"} : timer' = [timer EXCEPT ![r] = x],
           UNCHANGED socket \/ socket' = [socket EXCEPT ![r] = "none"]
    PROVE  TimerInv'
<1>1. step \in [Requests -> Steps]
    BY DEF HttpInv, Threads
<1>2. step'[r] = s /\ \A q \in Requests \ {r} : step'[q] = step[q]
    BY <1>1 DEF Http!Goto
<1>3. /\ timer' \in [Requests -> {"off", "running", "set", "fired"}]
      /\ \A q \in Requests \ {r} : timer'[q] = timer[q]
    BY DEF TimerInv
<1>4. /\ socket' \in [Requests -> {"none", "open", "shut"}]
      /\ \A q \in Requests \ {r} : socket'[q] = socket[q]
    BY DEF TimerInv
<1> QED
    BY <1>2, <1>3, <1>4 DEF TimerInv, Timed

\* The timer sets its flag before it shuts the socket down, and a thread publishes its
\* socket before it reads the flag.
LEMMA TimerKeeps ==
    ASSUME HttpInv, TimerInv, NEW r \in Requests,
           \/ Http!TimerSets(r) \/ Http!TimerShuts(r) \/ Http!Publish(r) \/ Http!ReadFlag(r)
    PROVE  TimerInv'
<1>1. /\ step \in [Requests -> Steps]
      /\ timer \in [Requests -> {"off", "running", "set", "fired"}]
      /\ socket \in [Requests -> {"none", "open", "shut"}]
      /\ \A q \in Requests : Timed(q)
    BY DEF HttpInv, Threads, TimerInv
<1>2. CASE Http!TimerSets(r)
    <2>1. timer' = [timer EXCEPT ![r] = "set"] /\ UNCHANGED <<step, socket>>
        BY <1>2 DEF Http!TimerSets
    <2> QED
        BY <1>1, <2>1 DEF TimerInv, Timed
<1>3. CASE Http!TimerShuts(r)
    <2>1. /\ timer' = [timer EXCEPT ![r] = "fired"] /\ UNCHANGED step
          /\ socket' = [socket EXCEPT ![r] = IF socket[r] = "open" THEN "shut" ELSE socket[r]]
        BY <1>3 DEF Http!TimerShuts
    <2>2. Timed(r)'
        BY <1>1, <2>1 DEF Timed
    <2>3. \A q \in Requests \ {r} : Timed(q)'
        BY <1>1, <2>1 DEF Timed
    <2> QED
        BY <1>1, <2>1, <2>2, <2>3 DEF TimerInv
<1>4. CASE Http!Publish(r)
    <2>1. /\ step' = [step EXCEPT ![r] = "published"] /\ socket' = [socket EXCEPT ![r] = "open"]
          /\ UNCHANGED timer
        BY <1>4 DEF Http!Publish, Http!Goto
    <2> QED
        BY <1>1, <2>1 DEF TimerInv, Timed
<1>5. CASE Http!ReadFlag(r)
    <2>1. /\ step[r] = "published" /\ UNCHANGED <<timer, socket>>
          /\ step' = [step EXCEPT ![r] = IF timer[r] \in {"set", "fired"} THEN "timeout"
                                         ELSE "sending"]
        BY <1>5 DEF Http!ReadFlag, Http!Goto, Http!wire
    <2>2. Timed(r)'
        BY <1>1, <2>1 DEF Timed
    <2>3. \A q \in Requests \ {r} : Timed(q)'
        BY <1>1, <2>1 DEF Timed
    <2> QED
        BY <1>1, <2>1, <2>2, <2>3 DEF TimerInv
<1> QED
    BY <1>2, <1>3, <1>4, <1>5

\* Every step keeps sockets and timers in step.
LEMMA TimerSteady == HttpInv /\ TimerInv /\ [Http!Next]_Http!vars => TimerInv'
<1> SUFFICES ASSUME HttpInv, TimerInv, [Http!Next]_Http!vars PROVE TimerInv'
    OBVIOUS
<1>1. CASE UNCHANGED <<step, timer, socket>>
    BY <1>1 DEF TimerInv, Timed
<1>2. CASE Http!Next
    <2>1. PICK r \in Requests :
              \/ Http!Accept(r) \/ Http!Malformed(r) \/ (\E t \in Http!Tokens : Http!FindSession(r, t))
              \/ Http!Progress(r) \/ Http!Timer(r) \/ Http!Lose(r) \/ Http!Upstream(r)
        BY <1>2 DEF Http!Next
    <2>2. CASE Http!Accept(r) \/ Http!Malformed(r)
        <3>1. UNCHANGED <<timer, socket>>
            BY <2>2 DEF Http!Accept, Http!Malformed, Http!wire
        <3>2. PICK s : s \notin {"published", "sending"} /\ Http!Goto(r, s)
            BY <2>2 DEF Http!Accept, Http!Malformed
        <3> QED
            BY <3>1, <3>2, Elsewhere
    <2>3. CASE \E t \in Http!Tokens : Http!FindSession(r, t)
        <3>1. UNCHANGED <<timer, socket>>
            BY <2>3 DEF Http!FindSession, Http!wire
        <3>2. PICK s : s \notin {"published", "sending"} /\ Http!Goto(r, s)
            BY <2>3 DEF Http!FindSession
        <3> QED
            BY <3>1, <3>2, Elsewhere
    <2>4. CASE \/ Http!TimerSets(r) \/ Http!TimerShuts(r) \/ Http!Publish(r) \/ Http!ReadFlag(r)
        BY <2>4, TimerKeeps
    <2>5. CASE Http!NewSession(r) \/ Http!Check(r)
        <3>1. UNCHANGED <<timer, socket>>
            BY <2>5 DEF Http!NewSession, Http!Check, Http!wire
        <3>2. PICK s : s \notin {"published", "sending"} /\ Http!Goto(r, s)
            BY <2>5 DEF Http!NewSession, Http!Check
        <3> QED
            BY <3>1, <3>2, Elsewhere
    <2>6. CASE Http!Connect(r)
        <3>1. timer' = [timer EXCEPT ![r] = "running"] /\ UNCHANGED socket /\ Http!Goto(r, "connected")
            BY <2>6 DEF Http!Connect
        <3> QED
            BY <3>1, Elsewhere
    <2>7. CASE Http!Send(r) \/ Http!Lose(r)
        <3>1. UNCHANGED <<timer, socket>>
            BY <2>7 DEF Http!Send, Http!Lose, Http!wire
        <3>2. PICK s : s \notin {"published", "sending"} /\ Http!Goto(r, s)
            BY <2>7 DEF Http!Send, Http!Lose
        <3> QED
            BY <3>1, <3>2, Elsewhere
    <2>8. CASE Http!StreamTimesOut(r) \/ Http!Broken(r) \/ Http!TimedOut(r)
        <3>1. UNCHANGED <<timer, socket>>
            BY <2>8 DEF Http!StreamTimesOut, Http!Broken, Http!TimedOut, Http!wire
        <3>2. PICK s : s \notin {"published", "sending"} /\ Http!Goto(r, s)
            BY <2>8 DEF Http!StreamTimesOut, Http!Broken, Http!TimedOut
        <3> QED
            BY <3>1, <3>2, Elsewhere
    <2>9. CASE Http!End(r)
        <3>1. /\ timer' = [timer EXCEPT ![r] = "off"] /\ socket' = [socket EXCEPT ![r] = "none"]
              /\ Http!Goto(r, "done")
            BY <2>9 DEF Http!End
        <3> QED
            BY <3>1, Elsewhere
    <2>10. CASE Http!StreamEvent(r)
        <3>1. UNCHANGED <<step, timer, socket>>
            BY <2>10 DEF Http!StreamEvent, Http!wire
        <3> QED
            BY <1>1, <3>1
    <2>11. CASE \/ Http!HttpError(r) \/ Http!Deleted(r) \/ Http!Accepted(r) \/ Http!Result(r)
                \/ Http!StreamStarts(r) \/ Http!StreamResult(r) \/ Http!StreamEnds(r)
                \/ Http!BadAnswer(r)
        <3>1. UNCHANGED <<timer, socket>>
            BY <2>11 DEF Http!HttpError, Http!Deleted, Http!Accepted, Http!Result,
                         Http!StreamStarts, Http!StreamResult, Http!StreamEnds, Http!BadAnswer,
                         Http!wire
        <3>2. PICK s : s \notin {"published", "sending"} /\ Http!Goto(r, s)
            BY <2>11 DEF Http!HttpError, Http!Deleted, Http!Accepted, Http!Result,
                         Http!StreamStarts, Http!StreamResult, Http!StreamEnds, Http!BadAnswer
        <3> QED
            BY <3>1, <3>2, Elsewhere
    <2> QED
        BY <2>1, <2>2, <2>3, <2>4, <2>5, <2>6, <2>7, <2>8, <2>9, <2>10, <2>11
           DEF Http!Progress, Http!Timer, Http!Upstream
<1>3. UNCHANGED Http!vars => UNCHANGED <<step, timer, socket>>
    BY DEF Http!vars, Http!wire
<1> QED
    BY <1>1, <1>2, <1>3

\* Nothing is sent to the upstream once the timer of the exchange has run, wherever it ran
\* between the connection, the publication of the socket and the second look at the flag
\* (_handle, _expire_upstream and _check_upstream_deadline).
THEOREM NothingSentLate ==
    McpSpec => [][\A r \in sent' \ sent : timer[r] # "fired"]_<<vars, transport>>
<1>1. Init /\ Http!Init => HttpInv /\ TimerInv
    <2>1. Http!Init => TimerInv
        BY DEF Http!Init, TimerInv, Timed
    <2> QED
        BY <2>1, HttpStarts
<1>2. HttpInv /\ TimerInv /\ [McpNext]_<<vars, transport>> => (HttpInv /\ TimerInv)'
    <2> SUFFICES ASSUME HttpInv, TimerInv, [McpNext]_<<vars, transport>>
                 PROVE  HttpInv' /\ TimerInv'
        OBVIOUS
    <2>1. [Http!Next]_Http!vars
        BY DEF McpNext, transport, Http!vars, Http!table, Http!flags, Http!wire
    <2> QED
        BY <2>1, HttpSteps, TimerSteady
<1>3. HttpInv /\ TimerInv /\ [McpNext]_<<vars, transport>>
      => [\A r \in sent' \ sent : timer[r] # "fired"]_<<vars, transport>>
    <2> SUFFICES ASSUME HttpInv, TimerInv, [McpNext]_<<vars, transport>>, NEW r \in sent' \ sent
                 PROVE  timer[r] # "fired"
        OBVIOUS
    <2>1. [Http!Next]_Http!vars
        BY DEF McpNext, transport, Http!vars, Http!table, Http!flags, Http!wire
    <2>2. \A q \in Requests : Http!Send(q) => sent' = sent \/ (sent' = sent \cup {q} /\ socket[q] # "shut"
                                                                /\ step[q] = "sending")
        BY DEF Http!Send
    <2>3. sent' = sent \/ \E q \in Requests : Http!Send(q)
        BY <2>1 DEF Http!Next, Http!Progress, Http!Timer, Http!Upstream, Http!vars, Http!wire,
                    Http!Accept, Http!Malformed, Http!FindSession, Http!NewSession, Http!Check,
                    Http!Connect, Http!Publish, Http!ReadFlag, Http!Lose, Http!TimerSets,
                    Http!TimerShuts, Http!HttpError, Http!Deleted, Http!Accepted, Http!Result,
                    Http!StreamStarts, Http!StreamEvent, Http!StreamResult, Http!StreamEnds,
                    Http!StreamTimesOut, Http!BadAnswer, Http!Broken, Http!TimedOut, Http!End
    <2>4. r \in Requests /\ socket[r] # "shut" /\ step[r] = "sending"
        BY <2>2, <2>3
    <2> QED
        BY <2>4 DEF TimerInv, Timed
<1> QED
    BY <1>1, <1>2, <1>3, PTL DEF McpSpec
=============================================================================
