----------------------------- MODULE MCSession -----------------------------
(* Small instances of Session for TLC. *)
EXTENDS Session, TLC

CONSTANTS a1, a2, b1   \* connections: two of one client, one of another
CONSTANTS ka, kb       \* clients

MCClientOf == [c \in Conns |-> IF c = b1 THEN kb ELSE ka]
=============================================================================
