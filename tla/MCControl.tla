------------------------------ MODULE MCControl ------------------------------
(* One model is started twice, stopped and sent two chats, while another is  *)
(* started; a status asks both.                                              *)
EXTENDS Control

CONSTANTS start1, start2, stop, status, other, m, n, chat1, chat2

MCOp ==
    [r \in {start1, start2, other} |-> "start"] @@ (stop :> "stop") @@ (status :> "status")

MCModelOf == [r \in DOMAIN MCOp |-> IF r = other THEN n ELSE m]

MCChatModel == [c \in {chat1, chat2} |-> m]
==============================================================================
