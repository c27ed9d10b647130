----------------------------- MODULE MCChatLoop -----------------------------
(* A request without max_tokens' usual sense (-1 is 2^Width - 1 as a u32), *)
(* one shorter than the longer prompt, and one the loop can reach.         *)
EXTENDS ChatLoop

MCMaxTokens == {-1, 1, 4}
=============================================================================
