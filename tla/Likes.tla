------------------------------- MODULE Likes -------------------------------
(***************************************************************************)
(* Likes and comments of one post (database/feed.go, feed/api/actions.go)  *)
(* and the task that counts them (worker/fanout: RunCounters).  The        *)
(* endpoints only write post_actions; every 30 s the task recounts the     *)
(* posts that have an action younger than 5 minutes.                       *)
(*                                                                         *)
(* Time is in periods of the task: an action is as old as the number of    *)
(* passes begun since its row was inserted.                                *)
(***************************************************************************)
EXTENDS Naturals, FiniteSets

CONSTANTS
  Reader,    \* users who like and comment
  Recent,    \* passes in the window of RunCounters (10 in the code)
  NoRow,     \* no row in post_actions
  MaxAct,    \* bound: requests
  MaxMissed  \* bound: passes of the task that fail

Actions == {"like", "comment"}
Age == 0..(Recent + 1)

ASSUME LikesAssumption ==
  /\ Recent \in Nat \ {0}
  /\ NoRow \notin Nat
  /\ IsFiniteSet(Reader)
  /\ {MaxAct, MaxMissed} \subseteq Nat

VARIABLES
  rows,      \* rows[a][u]: age of u's row in post_actions, or NoRow
  counters,  \* counters[a]: like_cnt and comment_cnt, as readers see them
  toggles,   \* toggles[u]: likes of u between their INSERT and their DELETE
  flush,     \* the task: "wait", "touched" and "recount", its two statements
  acts,      \* requests so far
  missed     \* passes that failed

likesVars == <<rows, counters, toggles, flush, acts, missed>>

LikesInit ==
  /\ rows = [a \in Actions |-> [u \in Reader |-> NoRow]]
  /\ counters = [a \in Actions |-> 0]
  /\ toggles = [u \in Reader |-> 0]
  /\ flush = "wait"
  /\ acts = 0
  /\ missed = 0

Request == acts < MaxAct /\ acts' = acts + 1

-----------------------------------------------------------------------------
(***************************************************************************)
(* ToggleLike: an INSERT ON CONFLICT DO NOTHING, and if it did nothing a   *)
(* DELETE, which is a statement of its own.                                *)
(***************************************************************************)
ToggleInsert(u) ==
  /\ Request
  /\ IF rows["like"][u] = NoRow
     THEN rows' = [rows EXCEPT !["like"][u] = 0] /\ UNCHANGED toggles
     ELSE toggles' = [toggles EXCEPT ![u] = @ + 1] /\ UNCHANGED rows
  /\ UNCHANGED <<counters, flush, missed>>

ToggleDelete(u) ==
  /\ toggles[u] > 0
  /\ toggles' = [toggles EXCEPT ![u] = @ - 1]
  /\ rows' = [rows EXCEPT !["like"][u] = NoRow]
  /\ UNCHANGED <<counters, flush, acts, missed>>

\* A second comment replaces the text of the first; created_at stays.
AddComment(u) ==
  /\ Request
  /\ rows' = [rows EXCEPT !["comment"][u] = IF @ = NoRow THEN 0 ELSE @]
  /\ UNCHANGED <<counters, toggles, flush, missed>>

-----------------------------------------------------------------------------
(***************************************************************************)
(* FlushCounters, a pass per period: which posts have a recent action,     *)
(* then the recount of those.  A failed pass is logged.                    *)
(***************************************************************************)
Older(age) == IF age \in 0..Recent THEN age + 1 ELSE age

Period ==
  /\ flush = "wait"
  /\ flush' = "touched"
  /\ rows' = [a \in Actions |-> [u \in Reader |-> Older(rows[a][u])]]
  /\ UNCHANGED <<counters, toggles, acts, missed>>

\* Mutant of IsTouched: no action uses it.
IsTouchedThisPeriod == \E a \in Actions, u \in Reader : rows[a][u] = 0

IsTouched == \E a \in Actions, u \in Reader : rows[a][u] \in 0..Recent

TouchedPostIDs ==
  /\ flush = "touched"
  /\ flush' = IF IsTouched THEN "recount" ELSE "wait"
  /\ UNCHANGED <<rows, counters, toggles, acts, missed>>

Counted(a) == Cardinality({u \in Reader : rows[a][u] # NoRow})

RecountPostCounters ==
  /\ flush = "recount"
  /\ flush' = "wait"
  /\ counters' = [a \in Actions |-> Counted(a)]
  /\ UNCHANGED <<rows, toggles, acts, missed>>

FlushFails ==
  /\ flush # "wait"
  /\ missed < MaxMissed
  /\ missed' = missed + 1
  /\ flush' = "wait"
  /\ UNCHANGED <<rows, counters, toggles, acts>>

RunCounters == Period \/ TouchedPostIDs \/ RecountPostCounters

LikesNext ==
  \/ RunCounters \/ FlushFails
  \/ \E u \in Reader : ToggleInsert(u) \/ ToggleDelete(u) \/ AddComment(u)

LikesSpec == LikesInit /\ [][LikesNext]_likesVars

-----------------------------------------------------------------------------
\* The variables hold what the code can put into them.
LikesTypeOK ==
  /\ rows \in [Actions -> [Reader -> Age \cup {NoRow}]]
  /\ counters \in [Actions -> 0..Cardinality(Reader)]
  /\ toggles \in [Reader -> 0..MaxAct]
  /\ flush \in {"wait", "touched", "recount"}

Exact(a) == counters[a] = Counted(a)

(***************************************************************************)
(* As long as a like or a comment is recent, the counters of its post      *)
(* become exact again, whatever other readers do between the two           *)
(* statements of a pass, unless all passes of the window fail or the row   *)
(* is removed first.                                                       *)
(***************************************************************************)
ActionsAreCounted ==
  \A a \in Actions, u \in Reader : rows[a][u] = 0 ~> Exact(a) \/ rows[a][u] = NoRow

(***************************************************************************)
(* The counters end exact.  (feed.go: a post whose actions have all been   *)
(* taken back must be set to 0 as well.)  It is not: without a row the     *)
(* post has no recent action and is not recounted.                         *)
(***************************************************************************)
CountersConverge == <>[](\A a \in Actions : Exact(a))

=============================================================================
