--------------------------- MODULE MCRouteExpiry ----------------------------
(* RouteExpiry on the line a - b - c whose only provider of the last layer *)
(* is c.                                                                   *)
EXTENDS RouteExpiry

CONSTANTS a, b, c

MCPeers == {{a, b}, {b, c}}

MCLocal == [n \in {a, b, c} |-> IF n = a THEN [start |-> 0, end |-> 0]
                                ELSE IF n = b THEN [start |-> 0, end |-> 1]
                                ELSE [start |-> 1, end |-> 2]]

MCSkew == [n \in {a, b, c} |-> 0]

MCDist == [n \in {a, b, c} |->
              [l \in 0 .. 1 |-> IF n = a THEN 100
                                ELSE IF n = b THEN 50
                                ELSE IF l = 0 THEN 100 ELSE 0]]
=============================================================================
