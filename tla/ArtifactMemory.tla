--------------------------- MODULE ArtifactMemory ---------------------------
(***************************************************************************)
(* Shared artifacts of a swarm: the gateway with its versions, labels,     *)
(* grants and reference-counted bytes (memory.py, artifact_store.py), and  *)
(* the coordinator's durable record of what it did to them                 *)
(* (coordinator.py _artifact_transition, artifact_sweep, _check_artifacts).*)
(*                                                                         *)
(* A write, a deletion or a sweep is three steps: a transaction that       *)
(* records an intent, the operation of the gateway, and a transaction that *)
(* records the metadata of all artifacts as the floor and drops the        *)
(* intent.  Reads and grants go to the gateway directly.  Between any two  *)
(* steps versions expire, readers clean up, the owner lease is lost or the *)
(* backing store fails.  A gateway that failed half way refuses everything *)
(* until a host reconciles it, which is outside the model.                 *)
(***************************************************************************)
EXTENDS Integers, FiniteSets, FiniteSetsExt, Functions

CONSTANTS Agents,        \* protected sources, each the context of one agent
          Addresses,     \* artifact addresses
          Contents,      \* byte strings
          Labels,        \* sensitivity labels above "public"
          Inputs,        \* [Contents -> SUBSET Labels]: labels of the lineage a content is written with
          None,
          MaxVersion,    \* bound on the versions of an address
          VersionLimit,  \* versions an address retains
          BlobLimit,     \* capacity of the byte store
          MaxGrants,     \* bound on outstanding grants
          Life,          \* ticks a version lasts
          MaxTime,       \* bound on the clock
          Failing        \* whether the byte store and the journal may fail

ArtifactConstants ==
    /\ Inputs \in [Contents -> SUBSET Labels]
    /\ {MaxVersion, VersionLimit, BlobLimit, Life} \subseteq Nat \ {0}
    /\ MaxTime \in Nat

VARIABLES
    now,      \* the clock of the gateway
    owner,    \* the agent that created an address, None if nobody did
    high,     \* highwater
    versions, \* [Addresses -> [version -> [content, labels, expires]]]
    labels,   \* classification of an address
    deleted,  \* tombstone of an address
    grants,   \* operator grants: address, agent, rights, version, labels allowed
    refs,     \* _references
    blobs,    \* contents in the byte store
    fault,    \* _fault of the gateway
    owned,    \* whether this coordinator holds the owner lease
    pending,  \* artifact_pending holds an intent
    floors,   \* artifact_floors
    call      \* the coordinator operation in progress, None if there is none

gateway == <<owner, high, versions, labels, deleted, refs, blobs, fault>>
vars == <<now, gateway, grants, owned, pending, floors, call>>

Init ==
    /\ now = 0
    /\ owner = [a \in Addresses |-> None]
    /\ high = [a \in Addresses |-> 0]
    /\ versions = [a \in Addresses |-> << >>]
    /\ labels = [a \in Addresses |-> {}]
    /\ deleted = [a \in Addresses |-> FALSE]
    /\ grants = {}
    /\ refs = [c \in Contents |-> 0]
    /\ blobs = {}
    /\ fault = FALSE
    /\ owned = TRUE
    /\ pending = FALSE
    /\ floors = << >>
    /\ call = None

-----------------------------------------------------------------------------
(* The gateway.                                                            *)

\* The owner of an address may do anything with it; another agent needs a grant of this
\* right for this version, which does not allow a label the version has beyond its own.
MayUse(g, a, right, v) ==
    \/ g = owner[a]
    \/ \E r \in grants :
          /\ r.address = a /\ r.agent = g /\ right \in r.rights /\ r.version = v
          /\ (IF v \in DOMAIN versions[a] THEN versions[a][v].labels ELSE labels[a]) \subseteq r.allowed

\* The versions of an address that are kept when the ones of gone are dropped.
Keep(a, gone) == Restrict(versions[a], DOMAIN versions[a] \ gone)

\* The references left when the versions of gone of address a are dropped.
RefsWithout(count, vs, gone) ==
    [c \in Contents |-> count[c] - Cardinality({v \in gone : vs[v].content = c})]

Expired(a) == {v \in DOMAIN versions[a] : now >= versions[a][v].expires}

\* _purge: expired versions go, and an address without its latest version is a tombstone.
Purged(a) ==
    /\ versions' = [versions EXCEPT ![a] = Keep(a, Expired(a))]
    /\ deleted' = [deleted EXCEPT ![a] = @ \/ high[a] \notin DOMAIN versions[a] \/ high[a] \in Expired(a)]
    /\ refs' = RefsWithout(refs, versions[a], Expired(a))
    /\ blobs' = {c \in blobs : refs'[c] > 0}
    /\ UNCHANGED <<owner, high, labels, fault>>

Grant(a, g, rights, allowed) ==
    /\ ~fault
    /\ owner[a] # None /\ ~deleted[a]
    /\ Cardinality(grants) < MaxGrants
    /\ \E v \in DOMAIN versions[a] :
           grants' = grants \cup {[address |-> a, agent |-> g, rights |-> rights, version |-> v, allowed |-> allowed]}
    /\ UNCHANGED <<now, gateway, owned, pending, floors, call>>

\* The operator takes a grant back, or it runs out.
Revoke(r) ==
    /\ grants' = grants \ {r}
    /\ UNCHANGED <<now, gateway, owned, pending, floors, call>>

\* A read, or an export, first cleans up what has expired.
Read(g, a, v) ==
    /\ ~fault
    /\ owner[a] # None /\ (MayUse(g, a, "read", v) \/ MayUse(g, a, "export", v))
    /\ \/ Purged(a)
       \/ Failing /\ fault' = TRUE /\ UNCHANGED <<owner, high, versions, labels, deleted, refs, blobs>>
    /\ UNCHANGED <<now, grants, owned, pending, floors, call>>

-----------------------------------------------------------------------------
(* The durable record of the coordinator.                                  *)

\* The metadata of every address, as the coordinator records it.
Snapshot == [a \in {x \in Addresses : owner[x] # None} |->
                [version |-> high[a], labels |-> labels[a], deleted |-> deleted[a]]]

\* The gateway still has what was recorded: no version, label or tombstone was lost.
Checked(deleting) ==
    \A a \in DOMAIN floors :
        /\ a \in DOMAIN Snapshot
        /\ Snapshot[a].version >= floors[a].version
        /\ floors[a].labels \subseteq Snapshot[a].labels
        /\ Snapshot[a].version = floors[a].version =>
               \/ Snapshot[a] = floors[a]
               \/ deleting /\ Snapshot[a] = [floors[a] EXCEPT !.deleted = TRUE]

\* The first transaction: it refuses while an intent is open.
Begin(op) ==
    /\ call = None
    /\ op.kind # "sweep" => ~fault
    /\ owned /\ ~pending /\ Checked(FALSE)
    /\ pending' = TRUE
    /\ call' = [op |-> op, stage |-> "intent", before |-> Snapshot]
    /\ UNCHANGED <<now, gateway, grants, owned, floors>>

\* Why the gateway refuses a write before it has changed anything.  A grant to write has to
\* allow the labels of the result as well.
WriteRefused(op) ==
    \/ op.expected # high[op.address]
    \/ owner[op.address] \notin {None, op.agent} /\ ~\E r \in grants :
          /\ r.address = op.address /\ r.agent = op.agent
          /\ "write" \in r.rights /\ r.version = high[op.address]
          /\ labels[op.address] \cup Inputs[op.content] \subseteq r.allowed
    \/ op.content \notin blobs /\ Cardinality(blobs) >= BlobLimit

\* The versions vs and a version n.
With(vs, n, version) == [v \in DOMAIN vs \cup {n} |-> IF v = n THEN version ELSE vs[v]]

\* Mutant of Write: a version is numbered by the versions that are kept.
WriteCounted(op) ==
    LET a == op.address
        n == Cardinality(DOMAIN versions[a]) + 1
        class == labels[a] \cup Inputs[op.content]
        all == With(versions[a], n, [content |-> op.content, labels |-> class, expires |-> now + Life])
        gone == (IF Cardinality(DOMAIN all) > VersionLimit THEN {Min(DOMAIN all)} ELSE {})
                \cup {v \in DOMAIN all : now >= all[v].expires}
    IN  /\ n <= MaxVersion
        /\ owner' = [owner EXCEPT ![a] = IF @ = None THEN op.agent ELSE @]
        /\ high' = [high EXCEPT ![a] = Max({@, n})]
        /\ versions' = [versions EXCEPT ![a] = Restrict(all, DOMAIN all \ gone)]
        /\ labels' = [labels EXCEPT ![a] = class]
        /\ deleted' = [deleted EXCEPT ![a] = FALSE]
        /\ refs' = RefsWithout([refs EXCEPT ![op.content] = @ + 1], all, gone)
        /\ blobs' = {c \in blobs \cup {op.content} : refs'[c] > 0}

\* The content is stored, journalled and published as the next version; the oldest version
\* beyond the limit and the expired ones are dropped.
Write(op) ==
    LET a == op.address
        n == high[a] + 1
        class == labels[a] \cup Inputs[op.content]
        all == With(versions[a], n, [content |-> op.content, labels |-> class, expires |-> now + Life])
        gone == (IF Cardinality(DOMAIN all) > VersionLimit THEN {Min(DOMAIN all)} ELSE {})
                \cup {v \in DOMAIN all : now >= all[v].expires}
    IN  /\ n <= MaxVersion
        /\ owner' = [owner EXCEPT ![a] = IF @ = None THEN op.agent ELSE @]
        /\ high' = [high EXCEPT ![a] = n]
        /\ versions' = [versions EXCEPT ![a] = Restrict(all, DOMAIN all \ gone)]
        /\ labels' = [labels EXCEPT ![a] = class]
        /\ deleted' = [deleted EXCEPT ![a] = FALSE]
        /\ refs' = RefsWithout([refs EXCEPT ![op.content] = @ + 1], all, gone)
        /\ blobs' = {c \in blobs \cup {op.content} : refs'[c] > 0}

DeleteRefused(op) ==
    \/ owner[op.address] = None
    \/ ~MayUse(op.agent, op.address, "delete", op.expected)
    \/ high[op.address] # op.expected

\* All versions go; the number, the labels and the owner of the address stay.
Delete(op) ==
    LET a == op.address
        gone == DOMAIN versions[a]
    IN  /\ versions' = [versions EXCEPT ![a] = << >>]
        /\ deleted' = [deleted EXCEPT ![a] = TRUE]
        /\ refs' = RefsWithout(refs, versions[a], gone)
        /\ blobs' = {c \in blobs : refs'[c] > 0}
        /\ UNCHANGED <<owner, high, labels>>

\* Every address is purged.
Sweep ==
    /\ versions' = [a \in Addresses |-> Keep(a, Expired(a))]
    /\ deleted' = [a \in Addresses |-> owner[a] # None /\
                       (deleted[a] \/ high[a] \notin DOMAIN versions[a] \ Expired(a))]
    /\ refs' = [c \in Contents |->
                   Cardinality({x \in Addresses \X (1..MaxVersion) :
                       x[2] \in DOMAIN versions[x[1]] \ Expired(x[1]) /\ versions[x[1]][x[2]].content = c})]
    /\ blobs' = {c \in blobs : refs'[c] > 0}
    /\ UNCHANGED <<owner, high, labels>>

Refused(op) == \/ fault
               \/ op.kind = "write" /\ WriteRefused(op)
               \/ op.kind = "delete" /\ DeleteRefused(op)

\* The operation of the gateway, after the intent is durable.
Perform ==
    /\ call # None /\ call.stage = "intent"
    /\ ~Refused(call.op)
    /\ \/ call.op.kind = "write" /\ Write(call.op)
       \/ call.op.kind = "delete" /\ Delete(call.op)
       \/ call.op.kind = "sweep" /\ Sweep
    /\ call' = [call EXCEPT !.stage = "done"]
    /\ UNCHANGED <<now, fault, grants, owned, pending, floors>>

\* The gateway refuses: nothing has happened.  A sweep has no handler for this.
Deny ==
    /\ call # None /\ call.stage = "intent"
    /\ Refused(call.op)
    /\ call' = IF call.op.kind = "sweep" THEN None ELSE [call EXCEPT !.stage = "raised"]
    /\ UNCHANGED <<now, gateway, grants, owned, pending, floors>>

\* The byte store or the journal fails half way, before or after the change is visible.
Break ==
    /\ Failing
    /\ call # None /\ call.stage = "intent" /\ ~Refused(call.op)
    /\ fault' = TRUE
    /\ \/ UNCHANGED <<owner, high, versions, labels, deleted, refs, blobs>>
       \/ call.op.kind = "write" /\ blobs' = blobs \cup {call.op.content}
          /\ UNCHANGED <<owner, high, versions, labels, deleted, refs>>
       \/ call.op.kind = "write" /\ Write(call.op)
    /\ call' = IF call.op.kind = "sweep" THEN None ELSE [call EXCEPT !.stage = "raised"]
    /\ UNCHANGED <<now, grants, owned, pending, floors>>

\* The second transaction.
Commit ==
    /\ call # None /\ call.stage = "done"
    /\ owned /\ Checked(call.op.kind \in {"delete", "sweep"})
    /\ floors' = Snapshot
    /\ pending' = FALSE
    /\ call' = None
    /\ UNCHANGED <<now, gateway, grants, owned>>

\* The second transaction is rejected, or its acknowledgement is lost.
CommitFails ==
    /\ call # None /\ call.stage = "done"
    /\ ~owned \/ ~Checked(call.op.kind \in {"delete", "sweep"})
    /\ call' = IF call.op.kind = "sweep" THEN None ELSE [call EXCEPT !.stage = "raised"]
    /\ UNCHANGED <<now, gateway, grants, owned, pending, floors>>

\* A checkpoint records the metadata as the floor, also while an operation is under way.
Checkpoint ==
    /\ owned /\ Checked(FALSE)
    /\ floors' = Snapshot
    /\ UNCHANGED <<now, gateway, grants, owned, pending, call>>

\* Whether the handler may say that the operation had no effect.
NoEffect == ~fault /\ Snapshot = call.before

\* The handler of a failure: the intent goes if nothing happened, and stays otherwise.
Clear ==
    /\ call # None /\ call.stage = "raised"
    /\ pending' = IF NoEffect /\ owned THEN FALSE ELSE pending
    /\ call' = None
    /\ UNCHANGED <<now, gateway, grants, owned, floors>>

-----------------------------------------------------------------------------

LoseOwner == owned /\ owned' = FALSE /\ UNCHANGED <<now, gateway, grants, pending, floors, call>>
TakeOwner == ~owned /\ owned' = TRUE /\ UNCHANGED <<now, gateway, grants, pending, floors, call>>

Tick == now < MaxTime /\ now' = now + 1 /\ UNCHANGED <<gateway, grants, owned, pending, floors, call>>

Writes == [kind : {"write"}, agent : Agents, address : Addresses, content : Contents, expected : 0..MaxVersion - 1]
Deletes == [kind : {"delete"}, agent : Agents, address : Addresses, expected : 1..MaxVersion]
Operations == Writes \cup Deletes \cup {[kind |-> "sweep"]}

Rights == {"read", "write", "delete", "export"}

Next ==
    \/ \E op \in Operations : Begin(op)
    \/ Perform \/ Deny \/ Break \/ Commit \/ CommitFails \/ Clear \/ Checkpoint
    \/ \E a \in Addresses, g \in Agents, allowed \in SUBSET Labels :
          Grant(a, g, {"read"}, allowed) \/ Grant(a, g, Rights, allowed)
    \/ \E r \in grants : Revoke(r)
    \/ \E a \in Addresses, g \in Agents, v \in 1..MaxVersion : Read(g, a, v)
    \/ LoseOwner \/ TakeOwner \/ Tick

Spec == Init /\ [][Next]_vars

-----------------------------------------------------------------------------
(* Properties.                                                             *)

TypeOK ==
    /\ now \in 0..MaxTime
    /\ \A a \in Addresses :
          /\ owner[a] \in Agents \cup {None} /\ high[a] \in 0..MaxVersion
          /\ DOMAIN versions[a] \subseteq 1..high[a] /\ Cardinality(DOMAIN versions[a]) <= VersionLimit
          /\ labels[a] \subseteq Labels /\ deleted[a] \in BOOLEAN
    /\ refs \in [Contents -> Int] /\ blobs \subseteq Contents
    /\ {fault, owned, pending} \subseteq BOOLEAN

\* While the gateway is healthy the bytes of every retained version are there, and no bytes
\* are kept for nobody: the counts of shared contents agree with the versions of all
\* addresses after any mix of writes, deletions, expiry and sweeps (memory.py _drop).
BytesAreReferenced ==
    ~fault => /\ \A c \in Contents : refs[c] = Cardinality(
                     {x \in Addresses \X (1..MaxVersion) :
                         x[2] \in DOMAIN versions[x[1]] /\ versions[x[1]][x[2]].content = c})
              /\ blobs = {c \in Contents : refs[c] > 0}

\* No version is classified below an earlier one of its address, whatever was deleted,
\* expired or replaced in between ("A public replacement, deletion/recreation or a changed
\* filename does not strip prior sensitivity", docs/swarm/artifacts.md), and its labels
\* are at least those of its content.
LabelsAccumulate ==
    \A a \in Addresses : \A v \in DOMAIN versions[a] :
        /\ Inputs[versions[a][v].content] \subseteq versions[a][v].labels
        /\ \A u \in DOMAIN versions[a] : u <= v => versions[a][u].labels \subseteq versions[a][v].labels
        /\ versions[a][v].labels \subseteq labels[a]

\* When no operation is under way and no intent is open, the durable record is what the
\* gateway has, except that expiry may have made a tombstone: an effect that was not
\* committed keeps its intent (coordinator.py _artifact_transition).
RecordedOrHeld ==
    (call = None /\ ~pending /\ ~fault) =>
        /\ DOMAIN floors = DOMAIN Snapshot
        /\ \A a \in DOMAIN floors : \/ Snapshot[a] = floors[a]
                                    \/ Snapshot[a] = [floors[a] EXCEPT !.deleted = TRUE]

\* The record never claims more than the gateway has: no version, label or address in the
\* floors is missing from the gateway of this process (coordinator.py _check_artifacts).
FloorsAreReached ==
    \A a \in DOMAIN floors : a \in DOMAIN Snapshot /\ floors[a].version <= Snapshot[a].version
                             /\ floors[a].labels \subseteq Snapshot[a].labels

\* An address keeps its owner, its labels and its numbers for ever, and a number is used
\* once: a version that appears has a number no version of the address ever had, so an old
\* grant opens nothing new (memory.py write, delete, _purge).
NumbersStep ==
    \A a \in Addresses :
        /\ high[a] <= high'[a] /\ labels[a] \subseteq labels'[a]
        /\ owner[a] # None => owner'[a] = owner[a]
        /\ \A v \in DOMAIN versions'[a] \ DOMAIN versions[a] : v > high[a]
=============================================================================
