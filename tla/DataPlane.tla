----------------------------- MODULE DataPlane ------------------------------
(***************************************************************************)
(* What agents share: artifacts (module ArtifactMemory) and messages       *)
(* (module MessageGateway).  The two share no state, and their steps       *)
(* interleave.                                                             *)
(***************************************************************************)
EXTENDS Naturals

CONSTANTS
    Contents, Labels, Nobody,
    Owners, Addresses, Written, MaxVersion, VersionLimit, BlobLimit, MaxGrants, Life,
    MaxTime, Failing,                                               \* of artifacts
    Threads, Peers, Channels, From, To, Allowed, Bodies, Unclassified, Window,
    Setups                                                          \* of messages

VARIABLES
    now, creator, high, versions, labels, deleted, grants, refs, blobs, broken, owned,
    intent, floors, work,                                           \* of artifacts
    setup, clock, stale, quarantined, channel, lineage, drafts, messages, received,
    halted, holder, sends, inbox                                    \* of messages

artifacts == <<now, creator, high, versions, labels, deleted, grants, refs, blobs, broken,
               owned, intent, floors, work>>
traffic == <<setup, clock, stale, quarantined, channel, lineage, drafts, messages, received,
             halted, holder, sends, inbox>>

Artifacts == INSTANCE ArtifactMemory
    WITH Agents <- Owners, None <- Nobody, Inputs <- Written, owner <- creator, fault <- broken,
         pending <- intent, call <- work

Messages == INSTANCE MessageGateway
    WITH None <- Nobody, Contents <- Bodies, now <- clock, gap <- halted, call <- sends

ASSUME DataConstants == Artifacts!ArtifactConstants /\ Messages!MessageConstants

DataNext ==
    (Artifacts!Next /\ UNCHANGED traffic) \/ (Messages!Next /\ UNCHANGED artifacts)
DataSpec == Artifacts!Init /\ Messages!Init /\ [][DataNext]_<<artifacts, traffic>>
-----------------------------------------------------------------------------
(* Artifacts: bytes are kept exactly as long as a version has them, no     *)
(* version is classified below an earlier one or below its content, an     *)
(* effect that is not in the durable record keeps its intent and that      *)
(* record never claims more than the gateway has; and a number of a        *)
(* version is used once, also after a deletion.                            *)
RecordsAgree ==
    /\ Artifacts!TypeOK /\ Artifacts!BytesAreReferenced /\ Artifacts!LabelsAccumulate
    /\ Artifacts!RecordedOrHeld /\ Artifacts!FloorsAreReached
ArtifactsAgree == []RecordsAgree /\ [][Artifacts!NumbersStep]_artifacts

\* Messages: no path over peers and transformations loses a label, ...
NoLaundering == Messages!TypeOK /\ Messages!NoLaundering

\* ... and the deliveries of racing threads agree with what is said of them.
DeliveriesAgree == Messages!DeliveriesAgree
=============================================================================
