------------------------------- MODULE MCAck -------------------------------
(***************************************************************************)
(* Small instances of Ack: two chat servers and a partition of chat.ack    *)
(* with two acks, of two senders or of one who comes and goes more often.  *)
(***************************************************************************)
EXTENDS Ack

CONSTANTS s1, s2, u1, u2

TwoSenders == <<<<u1, u2>>>>
OneSender == <<<<u1, u1>>>>

\* Nothing tells the servers apart: one of them has the partition at first.
InitS1 == Init /\ owner = [p \in Part |-> s1]

FromS1 == InitS1 /\ [][Next]_vars /\ Fairness
=============================================================================
