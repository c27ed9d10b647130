------------------------- MODULE MCConnectionBuffer -------------------------
(* Two ends, full chunks of 2 bytes plus 1 of encoding, room for two full   *)
(* chunks in the air; a small frame is one chunk, a big one three.          *)
EXTENDS ConnectionBuffer

CONSTANTS x, y

BothWays == [e \in {x, y} |-> {2, 5}]
=============================================================================
