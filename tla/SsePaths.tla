------------------------------ MODULE SsePaths ------------------------------
(***************************************************************************)
(* A streamed answer has one reader: the router's relay to the client      *)
(* (StreamRelay), or the proxy crate's response, which the relay does not  *)
(* use (ResponseStream).  Both cut the same bytes in the same ways.        *)
(***************************************************************************)
EXTENDS StreamRelay, ResponseStream

VARIABLE path           \* "relay" or "response"

PathInit == path \in {"relay", "response"} /\ RelayInit /\ ResponseInit

OnRelay(action) == path = "relay" /\ action /\ UNCHANGED path /\ UNCHANGED responseVars
OnResponse(action) == path = "response" /\ action /\ UNCHANGED path /\ UNCHANGED relayVars

PathNext == OnRelay(RelayNext) \/ OnResponse(ResponseNext)

pathVars == <<path, relayVars, responseVars>>

PathSpec == PathInit /\ [][PathNext]_pathVars

(* The upstream answers, closes or runs into the client's timeout, the      *)
(* runtime polls the task that waits for it, and the server polls the       *)
(* body as long as its client is connected.  Nothing makes a client leave   *)
(* or a caller go on.                                                       *)
FairPathSpec ==
    /\ PathSpec
    /\ WF_pathVars(OnRelay(TaskStep))
    /\ WF_pathVars(OnRelay(ClientReceives \/ ClientSeesEnd))
    /\ WF_pathVars(OnResponse(ReaderStep))

-----------------------------------------------------------------------------
PathTypeOK ==
    /\ path \in {"relay", "response"}
    /\ RelayTypeOK
    /\ ResponseTypeOK

(* Every reader of a stream comes to its end.  The relay's task terminates  *)
(* whether its client reads on or leaves, since a receiver that is gone     *)
(* never blocks it; a client that stays learns of the end; and a call on a  *)
(* response returns.                                                        *)
StreamEnds ==
    /\ path = "relay" ~> pc = "finished" /\ client # "reading"
    /\ call # "idle" ~> call = "idle"
=============================================================================
