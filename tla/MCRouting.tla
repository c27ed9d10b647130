----------------------------- MODULE MCRouting ------------------------------
(* Routing on a line of three workers a - b - c.  a is a gateway without   *)
(* layers, b serves the first layer, c the last: when c goes, a and b are  *)
(* left with each other's echo of the route through c.                     *)
EXTENDS Routing

CONSTANTS a, b, c

MCPeers == {{a, b}, {b, c}}

MCLocal == [n \in {a, b, c} |-> IF n = a THEN [start |-> 0, end |-> 0]
                                ELSE IF n = b THEN [start |-> 0, end |-> 1]
                                ELSE [start |-> 1, end |-> 2]]

(* a's clock runs ahead of the providers'. *)
MCSkew == [n \in {a, b, c} |-> IF n = a THEN 1 ELSE 0]

NoSkew == [n \in {a, b, c} |-> 0]

(* Hops from each worker to c, for either layer. *)
MCDist == [n \in {a, b, c} |->
              [l \in 0 .. 1 |-> IF n = a THEN 100
                                ELSE IF n = b THEN 50
                                ELSE IF l = 0 THEN 100 ELSE 0]]
=============================================================================
