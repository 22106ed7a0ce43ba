---------------------------- MODULE Enforcement -----------------------------
(***************************************************************************)
(* The enforcing broker (module Broker) and the tool gateway (module       *)
(* ToolGateway).  The gateway follows an authorization of its broker by    *)
(* its state alone, and the broker the request of any caller: the two      *)
(* share no state, and their steps interleave.                             *)
(***************************************************************************)
EXTENDS Broker

CONSTANTS Agents, Attempts, Who, Other, MaxPending  \* of the gateway

VARIABLES
    direct, hosted, call, owner, captured, base, decided, pending, active, closed, gap,
    money, fault, auth, ran                         \* of the gateway

gateway == <<direct, hosted, call, owner, captured, base, decided, pending, active, closed,
             gap, money, fault, auth, ran>>

Gateway == INSTANCE ToolGateway WITH step <- call, hold <- money, lock <- owner

ASSUME EnforcementConstants == Gateway!GatewayConstants

EnforcementNext == (Next /\ UNCHANGED gateway) \/ (Gateway!Next /\ UNCHANGED vars)
EnforcementSpec == Init /\ Gateway!Init /\ [][EnforcementNext]_<<vars, gateway>>
-----------------------------------------------------------------------------
(* An executor of the gateway is given the action of its own attempt,      *)
(* reserved and charged, by the one ticket of an actor that was not        *)
(* revoked; other holds are not left behind; and after a gap or a doubt    *)
(* nothing is forwarded.                                                   *)
GatewayIsExact ==
    []Gateway!ForwardedOnce /\ Gateway!GapBlocksForwarding /\ Gateway!DoubtStopsTheActor
=============================================================================
