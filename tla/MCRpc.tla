------------------------------- MODULE MCRpc --------------------------------
(* Two requests to one server and one to another.                          *)
EXTENDS Rpc

CONSTANTS near, far

MCDest == <<near, near, far>>
=============================================================================
