------------------------------ MODULE MCPersist ------------------------------
(***************************************************************************)
(* Small instances of Persist: the values its constants take in the runs.  *)
(* The single conversation c1 has the messages ma and mb; mn is sent to it *)
(* by a user who is not in it, mz cannot be decoded.  In c2, mx names a    *)
(* user that does not exist and ms is sent by a user to itself.  g is a    *)
(* group with the message mh and the event me.                             *)
(***************************************************************************)
EXTENDS Persist, TLC

CONSTANTS p1, p2, c1, c2, g, ma, mb, mx, mz, ms, mn, me, mh, u1, u2

AllConvOf == [m \in {ma, mb, mn, mz} |-> c1] @@ [m \in {mx, ms} |-> c2] @@ [m \in {mh, me} |-> g]

AllKindOf == [m \in {ma, mb, mx, ms, mn} |-> "single"] @@ (mh :> "group") @@ (me :> "event")
               @@ (mz :> "bad")

AllFaultOf == (mx :> "nouser") @@ (ms :> "self") @@ (mn :> "nonmember")
                @@ [m \in {ma, mb, mz, mh, me} |-> "none"]

AllDest == [m \in {ma, mb, mx, mn, ms, mz} |-> {u1}] @@ [m \in {mh, me} |-> {u1, u2}]

MCConvOf  == [m \in Msg |-> AllConvOf[m]]
MCKindOf  == [m \in Msg |-> AllKindOf[m]]
MCFaultOf == [m \in Msg |-> AllFaultOf[m]]
MCDest    == [m \in Msg |-> AllDest[m] \cap Uid]

(***************************************************************************)
(* Both keys of a conversation hash to the same partition; the group has   *)
(* the other one where there are two.                                      *)
(***************************************************************************)
OneRoute  == [c \in Conv |-> [k \in BOOLEAN |-> p1]]
TwoRoutes == [c \in Conv |-> [k \in BOOLEAN |-> IF c = g THEN p2 ELSE p1]]

(***************************************************************************)
(* The two keys of a conversation, the pair of users and the conv_id, hash *)
(* to different partitions.                                                *)
(***************************************************************************)
SplitRoute == [c \in Conv |-> [k \in BOOLEAN |-> IF k THEN p2 ELSE p1]]

(***************************************************************************)
(* Single messages of every kind, or a text and an event of the group      *)
(* beside one that blocks the partition; not all in one behaviour.         *)
(***************************************************************************)
Sent == {m \in Msg : row[m] # 0} \cup UNION {{log[p][o].msg : o \in DOMAIN log[p]} : p \in Partition}

SinglesOrGroup == Sent \subseteq {ma, mb, mx, mz} \/ Sent \subseteq {ma, ms, mh, me}
=============================================================================
