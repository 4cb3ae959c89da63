------------------------------ MODULE Friends ------------------------------
(***************************************************************************)
(* Friendships (database/friend.go, server/api/friend.go).  Two users are  *)
(* friends when each has a row that names the other; Create inserts both   *)
(* rows in one transaction, Delete deletes both in one.  Requests of the   *)
(* two users run at the same time, at the isolation level READ COMMITTED.  *)
(*                                                                         *)
(* There is one pair of users.  Rows 1 and 2 are its two rows; the request *)
(* of a user begins with the one he owns.                                  *)
(***************************************************************************)
EXTENDS Naturals, Sequences

CONSTANTS
  Req,      \* requests
  NoReq,    \* nobody
  Kind      \* Kind[q]: "create" or "delete"

Row == {1, 2}

ASSUME FriendsAssumption ==
  /\ NoReq \notin Req
  /\ Kind \in [Req -> {"create", "delete"}]

VARIABLES
  friends,  \* rows that are committed
  holder,   \* holder[r]: whose transaction has inserted or deleted row r and is not over
  ftx,      \* ftx[q]: the state of request q, and its statements still to do
  mixed     \* history: a create and a delete have run at the same time

friendsVars == <<friends, holder, ftx, mixed>>

Active(q) == ftx[q].pc \in {"run", "wait"}

FriendsInit ==
  /\ friends \in {{}, Row}
  /\ holder = [r \in Row |-> NoReq]
  /\ ftx = [q \in Req |-> [pc |-> "new", todo |-> <<>>]]
  /\ mixed = FALSE

BeginFriends(q) ==
  /\ ftx[q].pc = "new"
  /\ \E r \in Row : ftx' = [ftx EXCEPT ![q] = [pc |-> "run", todo |-> <<r, 3 - r>>]]
  /\ mixed' = (mixed \/ \E o \in Req : Active(o) /\ Kind[o] # Kind[q])
  /\ UNCHANGED <<friends, holder>>

-----------------------------------------------------------------------------
\* The row of the statement of q, and who is in its way.
Target(q) == Head(ftx[q].todo)

HasStatement(q) == Active(q) /\ ftx[q].todo # <<>>

InTheWay(q) ==
  IF HasStatement(q) /\ (Kind[q] = "create" \/ Target(q) \in friends)
  THEN holder[Target(q)] ELSE NoReq

Next1(q) == [pc |-> "run", todo |-> Tail(ftx[q].todo)]

(***************************************************************************)
(* INSERT ... ON CONFLICT DO NOTHING: it waits for who is changing the     *)
(* row; a row that is there is left alone, and not locked.                 *)
(***************************************************************************)
InsertRow(q) ==
  /\ HasStatement(q) /\ Kind[q] = "create"
  /\ InTheWay(q) = NoReq
  /\ holder' = IF Target(q) \in friends THEN holder ELSE [holder EXCEPT ![Target(q)] = q]
  /\ ftx' = [ftx EXCEPT ![q] = Next1(q)]
  /\ UNCHANGED <<friends, mixed>>

(***************************************************************************)
(* DELETE: it sees committed rows only, and waits for who is deleting one. *)
(***************************************************************************)
DeleteRow(q) ==
  /\ HasStatement(q) /\ Kind[q] = "delete"
  /\ ftx[q].pc = "run"
  /\ InTheWay(q) = NoReq
  /\ holder' = IF Target(q) \in friends THEN [holder EXCEPT ![Target(q)] = q] ELSE holder
  /\ ftx' = [ftx EXCEPT ![q] = Next1(q)]
  /\ UNCHANGED <<friends, mixed>>

DeleteWaits(q) ==
  /\ HasStatement(q) /\ Kind[q] = "delete"
  /\ ftx[q].pc = "run"
  /\ InTheWay(q) # NoReq
  /\ ftx' = [ftx EXCEPT ![q].pc = "wait"]
  /\ UNCHANGED <<friends, holder, mixed>>

-----------------------------------------------------------------------------
(***************************************************************************)
(* The end of a transaction.  A DELETE that waited for a row now gone has  *)
(* nothing to delete; one whose row stays tries again.                     *)
(***************************************************************************)
Held(q) == {r \in Row : holder[r] = q}

Over(q, result, gone) ==
  /\ holder' = [r \in Row |-> IF holder[r] = q THEN NoReq ELSE holder[r]]
  /\ ftx' = [o \in Req |->
       IF o = q THEN [pc |-> result, todo |-> <<>>]
       ELSE IF ftx[o].pc = "wait" /\ Target(o) \in Held(q)
       THEN IF gone THEN Next1(o) ELSE [ftx[o] EXCEPT !.pc = "run"]
       ELSE ftx[o]]
  /\ UNCHANGED mixed

CommitFriends(q) ==
  /\ ftx[q].pc = "run" /\ ftx[q].todo = <<>>
  /\ friends' = IF Kind[q] = "create" THEN friends \cup Held(q) ELSE friends \ Held(q)
  /\ Over(q, "done", TRUE)

\* An error of a statement or of the commit: the deferred Rollback.
RollbackFriends(q) ==
  /\ Active(q)
  /\ Over(q, "failed", FALSE)
  /\ UNCHANGED friends

\* Two requests that wait for each other: PostgreSQL aborts one.
FriendsDeadlock(q) ==
  /\ InTheWay(q) # NoReq
  /\ InTheWay(InTheWay(q)) = q
  /\ RollbackFriends(q)

HandleFriends(q) ==
  InsertRow(q) \/ DeleteRow(q) \/ DeleteWaits(q) \/ CommitFriends(q) \/ FriendsDeadlock(q)

FriendsNext == \E q \in Req : BeginFriends(q) \/ HandleFriends(q) \/ RollbackFriends(q)

FriendsSpec == FriendsInit /\ [][FriendsNext]_friendsVars

-----------------------------------------------------------------------------
\* The variables hold what the code can put into them.
FriendsTypeOK ==
  /\ friends \subseteq Row
  /\ holder \in [Row -> Req \cup {NoReq}]
  /\ \A q \in Req : /\ ftx[q].pc \in {"new", "run", "wait", "done", "failed"}
                    /\ Held(q) # {} => Active(q)
                    /\ ftx[q].pc = "wait" => InTheWay(q) # NoReq

(***************************************************************************)
(* Friendship goes both ways, over failures half-way, two users who add    *)
(* (or remove) each other at the same time, and the deadlocks this gives,  *)
(* as long as no creation runs beside a deletion.                          *)
(***************************************************************************)
FriendsAgree == ~mixed => friends \in {{}, Row}

(***************************************************************************)
(* friend.go:23: one-way friendship is not allowed.  It comes about when a *)
(* creation finds the first row there and a deletion commits before the    *)
(* second, or when a deletion does not yet see the first row of a creation *)
(* that commits before the second.                                         *)
(***************************************************************************)
NoOneWayFriends == friends \in {{}, Row}

\* Every request that has begun ends: no two wait for each other for ever.
FriendRequestsEnd == \A q \in Req : []<>~Active(q)

=============================================================================
