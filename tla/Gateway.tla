------------------------------ MODULE Gateway ------------------------------
(***************************************************************************)
(* The gateway as a client meets it: a process that starts (Startup) and,  *)
(* once it serves, dispatches a request with the upstreams of the          *)
(* configuration it has loaded (RequestDispatch).                          *)
(***************************************************************************)
EXTENDS Startup, RequestDispatch

gatewayVars == <<startupVars, dispatchVars>>

(* build_router shares one configuration with every handler.                *)
GatewayInit == StartupInit /\ DispatchInit /\ config = Loaded.upstreams

Serves(action) == life = "serving" /\ action /\ UNCHANGED startupVars
Starts(action) == action /\ UNCHANGED dispatchVars

GatewayNext == Starts(StartupNext) \/ Serves(DispatchNext)

GatewaySpec == GatewayInit /\ [][GatewayNext]_gatewayVars

(* main runs on, its handlers are polled, and a request's timeout fires if  *)
(* nothing else happens; no answer of the upstream is assumed, and the      *)
(* metrics server may bind at any time or never.                            *)
FairGatewaySpec ==
    /\ GatewaySpec
    /\ WF_gatewayVars(Starts(MainStep))
    /\ WF_gatewayVars(Serves(Dispatch))
    /\ WF_gatewayVars(Serves(UpstreamFails))

-----------------------------------------------------------------------------
GatewayTypeOK == StartupTypeOK /\ DispatchTypeOK

(* The status of a reply tells what happened.  The gateway's 502 says that  *)
(* the request was forwarded and failed, its 500 that it never left the     *)
(* gateway, and its 404, "no upstream", is the answer of a gateway that has *)
(* none, which the validation keeps main from being.  The upstream's own is *)
(* passed on when all of its answer was read; a stream, which begins before *)
(* the body is known, has none to pass on.                                  *)
StatusIsHonest ==
    /\ (stage = "answered" /\ response.format = "error") =>
          \/ response.status = 502 /\ upstream # Absent
          \/ response.status = 500 /\ upstream = Absent /\ settings.upstreams # <<>>
          \/ response.status = 404 /\ settings.upstreams = <<>> /\ launch.entry = "env"
    /\ (stage = "answered" /\ response.format # "error" /\ ~request.stream) =>
          response.status = answer.status

(* A client that stays gets an answer from a process that does not exit     *)
(* while it starts, even with an upstream that accepts the connection and   *)
(* then hangs, before its headers or within its body.                       *)
EveryRequestAnswered == <>(life = "exited" \/ stage \in {"answered", "dropped"})
=============================================================================
