------------------------ MODULE MCGatewayController ------------------------
(* Two valid specs and one without a well-formed URL.                       *)
EXTENDS GatewayController

CONSTANTS good, better, badUrl
MCSpecs == {good, better, badUrl}
MCValidSpecs == {good, better}
=============================================================================
