--------------------------------- MODULE Mcp ---------------------------------
(***************************************************************************)
(* The MCP proxy (module McpProxy) and its HTTP transport (module McpHttp).*)
(* The transport leaves the meaning of a message to the reviewer and the   *)
(* reviewer its connections to the transport: the two share no state, and  *)
(* their steps interleave.                                                 *)
(***************************************************************************)
EXTENDS McpProxy

CONSTANTS Requests, Kind, MaxSlots, MaxSessions  \* of the transport

VARIABLES
    step, of, sessions, initialized, failed, active, resumable, answered, timer,
    socket, sent, expired                        \* of the transport

transport == <<step, of, sessions, initialized, failed, active, resumable,
               answered, timer, socket, sent, expired>>

Http == INSTANCE McpHttp

ASSUME McpConstants == ProxyConstants /\ Http!HttpConstants

McpNext == (Next /\ UNCHANGED transport) \/ (Http!Next /\ UNCHANGED vars)
McpSpec == Init /\ Http!Init /\ [][McpNext]_<<vars, transport>>
-----------------------------------------------------------------------------
(* The table of sessions is exact: it counts the threads on every session  *)
(* and keeps those in use; of those no thread works on it keeps only the   *)
(* ones that were initialized or can be resumed, none that a failed        *)
(* initialize left behind.                                                 *)
SessionsAreLive == Http!SessionsAreLive
=============================================================================
