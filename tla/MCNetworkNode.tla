---------------------------- MODULE MCNetworkNode ----------------------------
(* Two workers, either of which may stop, restart, lose its connection or a *)
(* message to the registry.                                                 *)
EXTENDS NetworkNode

CONSTANTS a, b
=============================================================================
