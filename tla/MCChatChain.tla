---------------------------- MODULE MCChatChain -----------------------------
(* Three workers with one layer each: r has the first, q the second, p the *)
(* last.  Anyone may be routed through anyone, so that a chain may be the  *)
(* straight one, relay through a worker, or visit one twice.  Two chats,   *)
(* with different roots, share the workers.                                *)
EXTENDS ChatChain

CONSTANTS r, q, p, c, d

MCRoot == [k \in {c, d} |-> IF k = c THEN r ELSE q]

MCLocal == [n \in {r, q, p} |-> IF n = r THEN [start |-> 0, end |-> 1]
                                ELSE IF n = q THEN [start |-> 1, end |-> 2]
                                ELSE [start |-> 2, end |-> 3]]

MCNeighbours == [n \in {r, q, p} |-> {r, q, p} \ {n}]
=============================================================================
