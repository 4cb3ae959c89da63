----------------------------- MODULE MCDeliver -----------------------------
(***************************************************************************)
(* Small instances of Deliver: two chat servers and two pushes for one     *)
(* receiver, who may move while a batch is under way.                      *)
(***************************************************************************)
EXTENDS Deliver

CONSTANTS s1, s2, u1

TwoPushes == <<u1, u1>>

\* Nothing tells the servers apart: who is connected at first is at one of them.
InitS1 == Init /\ \A u \in Uid : at[u] # s2

FromS1 == InitS1 /\ [][Next]_vars /\ Fairness
=============================================================================
