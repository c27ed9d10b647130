----------------------------- MODULE MCRegistry -----------------------------
(* Two workers, one of which has two connections, in either order or at    *)
(* once, and reports on one of them, and an HTTP query.                    *)
EXTENDS Registry

CONSTANTS a, b, wa, wb, wa2, q

MCNodeOf == [w \in {wa, wb, wa2} |-> IF w = wb THEN b ELSE a]

MCMaxMsgs == [w \in {wa, wb, wa2} |-> IF w = wb THEN 2 ELSE IF w = wa THEN 1 ELSE 0]
=============================================================================
