--------------------------- MODULE Conversations ---------------------------
(***************************************************************************)
(* Opening the conversation of a pair of users: EnsureSingle of            *)
(* database/conversation.go, called by gateways (POST /v1/conversations,   *)
(* either user may ask) and by the persist worker for a message without a  *)
(* conversation, which is delivered again after a failure.  A transaction  *)
(* looks for the pair and, if there is nothing, inserts a conversation and *)
(* two members.  PostgreSQL runs it at READ COMMITTED, with the unique     *)
(* constraint on single_key.                                               *)
(***************************************************************************)
EXTENDS Naturals, FiniteSets

CONSTANTS
  Caller,     \* calls of EnsureSingle
  Worker,     \* those of the persist worker
  From, To,   \* From[c], To[c]: the arguments uidA and uidB
  MaxFail     \* bound: statements that fail

ASSUME ConversationsAssumption ==
  /\ Worker \subseteq Caller
  /\ \A c \in Caller : From[c] # To[c]
  /\ MaxFail \in Nat

NoId == 0

VARIABLES
  convs,     \* committed conversations: [id, key, members]
  call,      \* call[c]: its place, the id it found or made, the members it has inserted
  ids,       \* how many ids there have been
  convFails  \* how many statements have failed

convVars == <<convs, call, ids, convFails>>

ConvInit ==
  /\ convs = {}
  /\ call = [c \in Caller |-> [pc |-> "new", id |-> NoId, added |-> {}]]
  /\ ids = 0
  /\ convFails = 0

\* The pair in its normal form: the same for A to B and for B to A.
SingleKey(c) == {From[c], To[c]}

Open(c) == call[c].pc \in {"select", "insert", "members", "commit", "get"}

\* The conversation the call has inserted and not yet committed.
Inserted(c) == call[c].pc \in {"members", "commit"} /\ call[c].id \notin {v.id : v \in convs}

\* Mutant of Locks: no action uses it.
LocksForEver(c, v) == call[c].pc \in {"commit", "get", "answered"} /\ call[c].id = v.id

\* FOR UPDATE: the row is locked to the end of the transaction.
Locks(c, v) == call[c].pc = "commit" /\ call[c].id = v.id

BeginCall(c) ==
  /\ call[c].pc = "new"
  /\ call' = [call EXCEPT ![c] = [pc |-> "select", id |-> NoId, added |-> {}]]
  /\ UNCHANGED <<convs, ids, convFails>>

\* An empty result locks nothing.
SelectConv(c) ==
  /\ call[c].pc = "select"
  /\ LET found == {v \in convs : v.key = SingleKey(c)}
     IN \/ /\ found = {}
           /\ call' = [call EXCEPT ![c].pc = "insert"]
        \/ \E v \in found :
             /\ \A o \in Caller \ {c} : ~Locks(o, v)
             /\ call' = [call EXCEPT ![c].pc = "commit", ![c].id = v.id]
  /\ UNCHANGED <<convs, ids, convFails>>

(***************************************************************************)
(* INSERT with a new id: it waits for an insertion of the same key that is *)
(* not over, and fails on one that is committed.                           *)
(***************************************************************************)
InsertConv(c) ==
  /\ call[c].pc = "insert"
  /\ \A o \in Caller \ {c} : Inserted(o) => SingleKey(o) # SingleKey(c)
  /\ \A v \in convs : v.key # SingleKey(c)
  /\ ids' = ids + 1
  /\ call' = [call EXCEPT ![c].pc = "members", ![c].id = ids + 1]
  /\ UNCHANGED <<convs, convFails>>

UniqueViolation(c) ==
  /\ call[c].pc = "insert"
  /\ \E v \in convs : v.key = SingleKey(c)
  /\ call' = [call EXCEPT ![c].pc = "failed"]
  /\ UNCHANGED <<convs, ids, convFails>>

InsertMember(c) ==
  /\ call[c].pc = "members"
  /\ \E u \in {From[c], To[c]} \ call[c].added :
       call' = [call EXCEPT ![c].added = @ \cup {u},
                            ![c].pc = IF call[c].added = {} THEN "members" ELSE "commit"]
  /\ UNCHANGED <<convs, ids, convFails>>

Commit(c) ==
  convs' = IF Inserted(c)
           THEN convs \cup {[id |-> call[c].id, key |-> SingleKey(c), members |-> call[c].added]}
           ELSE convs

CommitConv(c) ==
  /\ call[c].pc = "commit"
  /\ Commit(c)
  /\ call' = [call EXCEPT ![c].pc = "get"]
  /\ UNCHANGED <<ids, convFails>>

\* Get, after the transaction: the answer is the row with this id.
GetConv(c) ==
  /\ call[c].pc = "get"
  /\ call' = [call EXCEPT ![c].pc = IF \E v \in convs : v.id = call[c].id THEN "answered" ELSE "failed"]
  /\ UNCHANGED <<convs, ids, convFails>>

\* A statement fails: the deferred Rollback. A COMMIT may have been done all the same.
CallFails(c) ==
  /\ Open(c) /\ convFails < MaxFail
  /\ convFails' = convFails + 1
  /\ call' = [call EXCEPT ![c].pc = "failed"]
  /\ \/ call[c].pc = "commit" /\ Commit(c)
     \/ UNCHANGED convs
  /\ UNCHANGED ids

\* The worker does not commit the offset; the message is delivered again.
Redeliver(c) ==
  /\ c \in Worker /\ call[c].pc = "failed"
  /\ call' = [call EXCEPT ![c].pc = "new"]
  /\ UNCHANGED <<convs, ids, convFails>>

HandleCall(c) ==
  \/ SelectConv(c) \/ InsertConv(c) \/ UniqueViolation(c) \/ InsertMember(c)
  \/ CommitConv(c) \/ GetConv(c)

ConvNext == \E c \in Caller : BeginCall(c) \/ HandleCall(c) \/ CallFails(c) \/ Redeliver(c)

ConvSpec == ConvInit /\ [][ConvNext]_convVars

-----------------------------------------------------------------------------
\* The variables hold what the code can put into them.
ConvTypeOK ==
  /\ \A c \in Caller : /\ Open(c) \/ call[c].pc \in {"new", "answered", "failed"}
                       /\ call[c].id \in 0..ids
                       /\ call[c].added \subseteq {From[c], To[c]}
  /\ \A v \in convs : v.id \in 1..ids
  /\ convFails \in 0..MaxFail

(***************************************************************************)
(* Whoever asked first and whoever lost, the answers for a pair name one   *)
(* and the same conversation, and it has both members; over failures       *)
(* half-way and commits whose answer was lost.                             *)
(***************************************************************************)
AnswersAgree ==
  \A c, d \in Caller :
    call[c].pc = "answered" /\ call[d].pc = "answered" /\ {From[c], To[c]} = {From[d], To[d]}
      => /\ call[c].id = call[d].id
         /\ \E v \in convs : v.id = call[c].id /\ v.members = {From[c], To[c]}

(***************************************************************************)
(* A message without a conversation gets one: the worker that lost the     *)
(* race finds the row of the winner at its next delivery.                  *)
(***************************************************************************)
WorkerGetsIt == \A c \in Worker : call[c].pc # "new" ~> call[c].pc = "answered"

(***************************************************************************)
(* conversation.go:88: shared by the gateway and the worker, idempotent by *)
(* nature.  Without any failing statement a second call still fails: both  *)
(* find nothing, and the later insertion meets the unique constraint.      *)
(***************************************************************************)
EnsureSucceeds == convFails = 0 => \A c \in Caller : call[c].pc # "failed"

=============================================================================
