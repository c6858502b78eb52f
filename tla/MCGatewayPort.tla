--------------------------- MODULE MCGatewayPort ---------------------------
(* Instances of GatewayPort for TLC.                                       *)
EXTENDS GatewayPort
============================================================================
