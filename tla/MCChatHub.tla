------------------------------ MODULE MCChatHub ------------------------------
(* Small instances of the chat hub for TLC. *)
EXTENDS ChatHub

CONSTANTS trader, merchant, other, console, o1, o2

TwoRooms == [c \in Clients |-> IF c = other THEN o2 ELSE o1]
=============================================================================
