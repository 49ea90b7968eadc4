---------------------------- MODULE MCGatewayTask ----------------------------
(* Model values for GatewayTask; the bounds are given in the configurations. *)
EXTENDS GatewayTask
=============================================================================
