------------------------ MODULE MCGatewayLifecycle ------------------------
(* Instances of GatewayLifecycle for TLC.                                  *)
EXTENDS GatewayLifecycle

Either == BOOLEAN
Encapsulated == {FALSE}
=============================================================================
