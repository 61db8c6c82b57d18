------------------------------ MODULE MCMcpTcp ------------------------------
(* Three messages in a stream with room for less than two lines, and two   *)
(* tasks that receive.                                                     *)
EXTENDS McpTcp
=============================================================================
