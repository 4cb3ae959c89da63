------------------------------- MODULE Persist -------------------------------
(***************************************************************************)
(* The persist worker (worker/persist/persist.go): it consumes chat.msg,   *)
(* numbers and stores each message in a PostgreSQL transaction, produces   *)
(* the pushes to chat.push and only then commits the Kafka offsets.        *)
(*                                                                         *)
(* A worker process is a loop; wk[w] is the state of one iteration of it.  *)
(* Losing the process loses wk[w] and rolls its open transaction back;     *)
(* what survives is the log, the committed offsets, the database and the   *)
(* pushes already written.                                                 *)
(*                                                                         *)
(* A transaction is modelled at the grain that decides what the others     *)
(* see: NextSeq takes the row locks of the counters, Assign numbers the    *)
(* messages, Insert is the COMMIT.                                         *)
(***************************************************************************)
EXTENDS Naturals, Sequences

CONSTANTS
  Worker,        \* persist processes, all in one consumer group
  NoWorker,      \* what holds a lock nobody holds
  Partition,     \* partitions of chat.msg
  Conv,          \* conversations
  Msg,           \* messages; the same message may be produced repeatedly
  Uid,           \* receivers
  ConvOf,        \* ConvOf[m]: the conversation of m
  KindOf,        \* KindOf[m]: single, group, event, or bad (undecodable)
  FaultOf,       \* FaultOf[m]: what is wrong with m, "none" when it is valid
  Dest,          \* Dest[m]: the receivers of m
  Route,         \* Route[c][b]: partition of the key, b: conv_id is known
  BatchMax,      \* bound: records of one batch
  MaxLog,        \* bound: records of one partition
  MaxCrash,      \* bound: failures of infrastructure or of a process
  MaxRebalance,  \* bound: moves of a partition to another worker
  LookupsFail    \* the messages at whose check users.Get may fail

Kinds  == {"single", "group", "event", "bad"}
Faults == {"none", "nouser", "nonmember", "self"}
Queues == {"first", "fallback", "other"}
Steps  == Queues \cup {"fetch", "select", "seq", "assign", "replay", "flush", "offset"}

ASSUME ConstantsAssumption ==
  /\ NoWorker \notin Worker
  /\ ConvOf \in [Msg -> Conv]
  /\ KindOf \in [Msg -> Kinds]
  /\ FaultOf \in [Msg -> Faults]
  /\ Dest \in [Msg -> SUBSET Uid]
  /\ Route \in [Conv -> [BOOLEAN -> Partition]]
  /\ {BatchMax, MaxLog, MaxCrash, MaxRebalance} \subseteq Nat
  /\ LookupsFail \subseteq Msg
  /\ \A m \in Msg : KindOf[m] = "event" => FaultOf[m] = "none" \* gateways check first

VARIABLES
  log,         \* log[p]: the records of partition p of chat.msg
  owner,       \* owner[p]: the worker the group coordinator gave p to
  committed,   \* committed[p]: how many records of p are done with
  convs,       \* the single conversations that have a row
  row,         \* row[m]: seq of the stored message, 0 when there is no row
  counter,     \* counter[c]: the kv entry seq:{c}, committed value
  lastSeq,     \* lastSeq[c]: conversations.last_seq
  lock,        \* lock[c]: the worker whose transaction has locked seq:{c}
  pushes,      \* pushes[u]: the records of chat.push with key u
  wk,          \* wk[w]: the worker's loop iteration
  crashes,     \* failures so far
  rebalances   \* rebalances so far

kafka == <<log, owner, committed>>
db    == <<convs, row, counter, lastSeq, lock>>
faults == <<crashes, rebalances>>
vars  == <<kafka, db, pushes, wk, faults>>

Record == [msg : Msg, conv : BOOLEAN]
Push   == [msg : Msg, seq : Nat]

(***************************************************************************)
(* An iteration that has not fetched anything.  Indexes into items stand   *)
(* for the *chat.Msg pointers of the code.                                 *)
(***************************************************************************)
Fresh ==
  [pc      |-> "fetch",
   ret     |-> "select",               \* where the transaction was entered
   items   |-> <<>>,                   \* the batch
   taken   |-> [p \in Partition |-> 0],\* records of the batch, by partition
   todo    |-> {},                     \* still to be handled one by one
   singles |-> {},                     \* single chats with a conversation
   plan    |-> {},                     \* not stored: to be numbered
   old     |-> {},                     \* stored before: to be pushed again
   next    |-> [c \in Conv |-> 0],     \* last number given in this tx
   asg     |-> [m \in Msg |-> 0],      \* numbers given in this tx
   out     |-> [u \in Uid |-> <<>>],   \* pushes that wait for this tx
   pending |-> [u \in Uid |-> <<>>],   \* w.pending
   fail    |-> FALSE,
   stale   |-> FALSE]                  \* a fetched partition was revoked

Iteration ==
  [pc : Steps, ret : Queues \cup {"select"}, items : Seq(Record),
   taken : [Partition -> Nat], todo : SUBSET Nat, singles : SUBSET Nat,
   plan : SUBSET Nat, old : SUBSET Nat, next : [Conv -> Nat],
   asg : [Msg -> Nat], out : [Uid -> Seq(Push)],
   pending : [Uid -> Seq(Push)], fail : BOOLEAN, stale : BOOLEAN]

Indexes(r) == r.todo \cup r.singles \cup r.plan \cup r.old

TypeOK ==
  /\ log \in [Partition -> Seq(Record)]
  /\ owner \in [Partition -> Worker]
  /\ committed \in [Partition -> Nat]
  /\ convs \subseteq Conv
  /\ row \in [Msg -> Nat]
  /\ counter \in [Conv -> Nat]
  /\ lastSeq \in [Conv -> Nat]
  /\ lock \in [Conv -> Worker \cup {NoWorker}]
  /\ pushes \in [Uid -> Seq(Push)]
  /\ wk \in [Worker -> Iteration]
  /\ \A w \in Worker : Indexes(wk[w]) \subseteq DOMAIN wk[w].items
  /\ crashes \in Nat
  /\ rebalances \in Nat

Init ==
  /\ log = [p \in Partition |-> <<>>]
  /\ owner \in [Partition -> Worker]
  /\ committed = [p \in Partition |-> 0]
  /\ convs = {}
  /\ row = [m \in Msg |-> 0]
  /\ counter = [c \in Conv |-> 0]
  /\ lastSeq = [c \in Conv |-> 0]
  /\ lock = [c \in Conv |-> NoWorker]
  /\ pushes = [u \in Uid |-> <<>>]
  /\ wk = [w \in Worker |-> Fresh]
  /\ crashes = 0
  /\ rebalances = 0

Become(w, r) == wk' = [wk EXCEPT ![w] = r]

-----------------------------------------------------------------------------
(* Producers and the coordinator *)

(***************************************************************************)
(* A chat server produces m.  A single chat may come without its conv_id,  *)
(* and is then keyed by the pair of users; a client that retries may know  *)
(* the conv_id the second time.  A gateway produces an event after it has  *)
(* committed the event's row.                                              *)
(***************************************************************************)
Send(m, b) ==
  LET p == Route[ConvOf[m]][b] IN
  /\ Len(log[p]) < MaxLog
  /\ ~b => KindOf[m] = "single" /\ FaultOf[m] # "nonmember"
  /\ b /\ KindOf[m] = "single" => ConvOf[m] \in convs
  /\ KindOf[m] = "event" => row[m] # 0
  /\ log' = [log EXCEPT ![p] = Append(@, [msg |-> m, conv |-> b])]
  /\ UNCHANGED <<owner, committed, db, pushes, wk, faults>>

(***************************************************************************)
(* A gateway opens a single conversation (POST /v1/conversations), which   *)
(* a self-addressed message never has: EnsureSingle refuses equal uids.    *)
(***************************************************************************)
OpenConversation(m) ==
  /\ KindOf[m] = "single" /\ FaultOf[m] # "self"
  /\ ConvOf[m] \notin convs
  /\ convs' = convs \cup {ConvOf[m]}
  /\ UNCHANGED <<kafka, row, counter, lastSeq, lock, pushes, wk, faults>>

(***************************************************************************)
(* A gateway stores a group event: one transaction that takes a number     *)
(* from the same counter, inserts the row and moves last_seq.              *)
(***************************************************************************)
Prewrite(m) ==
  LET c == ConvOf[m] IN
  /\ KindOf[m] = "event" /\ row[m] = 0
  /\ lock[c] = NoWorker
  /\ counter' = [counter EXCEPT ![c] = @ + 1]
  /\ row' = [row EXCEPT ![m] = counter[c] + 1]
  /\ lastSeq' = [lastSeq EXCEPT ![c] = counter[c] + 1]
  /\ UNCHANGED <<kafka, convs, lock, pushes, wk, faults>>

(***************************************************************************)
(* The coordinator moves p.  Its old owner is not stopped: it works on     *)
(* until its commit, which belongs to a past generation, is refused.       *)
(***************************************************************************)
Rebalance(p, w) ==
  LET v == owner[p] IN
  /\ rebalances < MaxRebalance
  /\ w # v
  /\ owner' = [owner EXCEPT ![p] = w]
  /\ Become(v, [wk[v] EXCEPT !.stale = IF wk[v].taken[p] > 0 THEN TRUE ELSE @])
  /\ rebalances' = rebalances + 1
  /\ UNCHANGED <<log, committed, db, pushes, crashes>>

-----------------------------------------------------------------------------
(* Fetching and resolving a batch *)

Fetch(w, p) ==
  LET next == committed[p] + wk[w].taken[p] + 1 IN
  /\ wk[w].pc = "fetch"
  /\ owner[p] = w
  /\ Len(wk[w].items) < BatchMax
  /\ next <= Len(log[p])
  /\ Become(w, [wk[w] EXCEPT !.items = Append(@, log[p][next]),
                             !.taken = [wk[w].taken EXCEPT ![p] = @ + 1]])
  /\ UNCHANGED <<kafka, db, pushes, faults>>

Message(w, i) == wk[w].items[i].msg

Singles(w) == {i \in DOMAIN wk[w].items : KindOf[Message(w, i)] = "single"}

\* Mutant of Others: no action uses it.
OthersEvents(w) == {i \in DOMAIN wk[w].items : KindOf[Message(w, i)] = "event"}

Others(w) ==
  {i \in DOMAIN wk[w].items : KindOf[Message(w, i)] \in {"group", "event"}}

(***************************************************************************)
(* The batch is complete; one query finds the conversations of the single  *)
(* chats that came without conv_id.  Those that have none are first        *)
(* messages and are handled one by one.                                    *)
(***************************************************************************)
Resolve(w) ==
  LET new == {i \in Singles(w) : /\ ~wk[w].items[i].conv
                                 /\ ConvOf[Message(w, i)] \notin convs}
  IN
  /\ wk[w].pc = "fetch"
  /\ wk[w].items # <<>>
  /\ Become(w, [wk[w] EXCEPT !.pc = "first",
                             !.todo = new,
                             !.singles = Singles(w) \ new])
  /\ UNCHANGED <<kafka, db, pushes, faults>>

-----------------------------------------------------------------------------
(* Messages one by one: Handle *)

(***************************************************************************)
(* Handle takes the messages of a queue in the order of the batch.         *)
(***************************************************************************)
IsNext(w, i) ==
  /\ wk[w].pc \in Queues
  /\ i \in wk[w].todo
  /\ \A j \in wk[w].todo : i <= j

(***************************************************************************)
(* The validation that the one-by-one path applies and that no retry can   *)
(* pass: the message is poison.                                            *)
(***************************************************************************)
IsPoison(m) == FaultOf[m] \in {"nouser", "nonmember"}

(***************************************************************************)
(* EnsureSingle refuses a conversation of a user with itself, and the      *)
(* error it returns is not the poison error.                               *)
(***************************************************************************)
IsRefused(m) == FaultOf[m] = "self"

AppendTo(queues, us, push) ==
  [u \in Uid |-> IF u \in us THEN Append(queues[u], push) ELSE queues[u]]

(***************************************************************************)
(* Who gets a push: the peer of a single chat; in a group those members    *)
(* whose online entry is there when it is read, which may be any of them.  *)
(***************************************************************************)
Targets(m) == IF KindOf[m] = "single" THEN {Dest[m]} ELSE SUBSET Dest[m]

SkipPoison(w, i) ==
  /\ IsNext(w, i)
  /\ IsPoison(Message(w, i))
  /\ Become(w, [wk[w] EXCEPT !.todo = @ \ {i}])
  /\ UNCHANGED <<kafka, db, pushes, faults>>

(***************************************************************************)
(* A failure of users.Get is reported as poison, whatever its cause: the   *)
(* message is skipped like one of an unknown user.                         *)
(***************************************************************************)
SkipUnread(w, i) ==
  /\ IsNext(w, i)
  /\ Message(w, i) \in LookupsFail
  /\ KindOf[Message(w, i)] = "single"
  /\ Become(w, [wk[w] EXCEPT !.todo = @ \ {i}])
  /\ UNCHANGED <<kafka, db, pushes, faults>>

HandleRefused(w, i) ==
  /\ IsNext(w, i)
  /\ IsRefused(Message(w, i))
  /\ Become(w, [wk[w] EXCEPT !.pc = "flush", !.fail = TRUE])
  /\ UNCHANGED <<kafka, db, pushes, faults>>

EnsureConversation(m) ==
  convs' = IF KindOf[m] = "single" THEN convs \cup {ConvOf[m]} ELSE convs

(***************************************************************************)
(* The message has a row: it keeps its seq and is pushed again.            *)
(***************************************************************************)
HandleReplay(w, i) ==
  LET m == Message(w, i) IN
  /\ IsNext(w, i)
  /\ ~IsPoison(m) /\ ~IsRefused(m)
  /\ row[m] # 0
  /\ EnsureConversation(m)
  /\ \E us \in Targets(m) :
       Become(w, [wk[w] EXCEPT !.todo = @ \ {i},
                             !.pending = AppendTo(@, us, [msg |-> m, seq |-> row[m]])])
  /\ UNCHANGED <<kafka, row, counter, lastSeq, lock, pushes, faults>>

HandleNew(w, i) ==
  LET m == Message(w, i) IN
  /\ IsNext(w, i)
  /\ ~IsPoison(m) /\ ~IsRefused(m)
  /\ row[m] = 0
  /\ EnsureConversation(m)
  /\ Become(w, [wk[w] EXCEPT !.pc = "seq", !.ret = wk[w].pc, !.plan = {i}])
  /\ UNCHANGED <<kafka, row, counter, lastSeq, lock, pushes, faults>>

(***************************************************************************)
(* A queue is empty: the first messages are followed by the batch of the   *)
(* single chats, the single chats by the groups and the group events, and  *)
(* those by the flush of the pushes.                                       *)
(***************************************************************************)
QueueDone(w) ==
  /\ wk[w].pc \in Queues
  /\ wk[w].todo = {}
  /\ Become(w, CASE wk[w].pc = "first" /\ wk[w].singles # {} ->
                  [wk[w] EXCEPT !.pc = "select"]
             [] wk[w].pc = "other" ->
                  [wk[w] EXCEPT !.pc = "flush"]
             [] OTHER ->
                  [wk[w] EXCEPT !.pc = "other", !.todo = Others(w)])
  /\ UNCHANGED <<kafka, db, pushes, faults>>

-----------------------------------------------------------------------------
(* Single chats as a batch: handleSingleBatch *)

\* Mutant of Once: no action uses it.
OnceRepeated(w) == wk[w].singles

(***************************************************************************)
(* Repeated frames are dropped within the batch, and rows are looked up    *)
(* before any number is taken.                                             *)
(***************************************************************************)
Once(w) ==
  {i \in wk[w].singles :
     \A j \in wk[w].singles : j < i => Message(w, j) # Message(w, i)}

\* Mutant of NotStored: no action uses it.
NotStoredUnread(w) == Once(w)

NotStored(w) == {i \in Once(w) : row[Message(w, i)] = 0}

(***************************************************************************)
(* Users are counted, membership is not looked at: a missing user sends    *)
(* the whole batch to the one-by-one path.                                 *)
(***************************************************************************)
FallsBack(w) == \E i \in NotStored(w) : FaultOf[Message(w, i)] = "nouser"

Select(w) ==
  /\ wk[w].pc = "select"
  /\ Become(w, CASE NotStored(w) = {} ->
                  [wk[w] EXCEPT !.pc = "replay", !.old = Once(w)]
             [] NotStored(w) # {} /\ FallsBack(w) ->
                  [wk[w] EXCEPT !.pc = "fallback", !.todo = Singles(w)]
             [] OTHER ->
                  [wk[w] EXCEPT !.pc = "seq", !.ret = "select",
                             !.plan = NotStored(w),
                             !.old = Once(w) \ NotStored(w)])
  /\ UNCHANGED <<kafka, db, pushes, faults>>

Replay(w, i) ==
  LET m == Message(w, i) IN
  /\ wk[w].pc = "replay"
  /\ i \in wk[w].old
  /\ \A j \in wk[w].old : i <= j
  /\ Become(w, [wk[w] EXCEPT !.old = @ \ {i},
                             !.pending = AppendTo(@, Dest[m], [msg |-> m, seq |-> row[m]])])
  /\ UNCHANGED <<kafka, db, pushes, faults>>

ReplayDone(w) ==
  /\ wk[w].pc = "replay"
  /\ wk[w].old = {}
  /\ Become(w, [wk[w] EXCEPT !.pc = "other", !.todo = Others(w)])
  /\ UNCHANGED <<kafka, db, pushes, faults>>

-----------------------------------------------------------------------------
(* The transaction, of one message or of a batch *)

Held(w) == {c \in Conv : lock[c] = w}

Planned(w) == {ConvOf[Message(w, i)] : i \in wk[w].plan}

\* Mutant of NextSeq: no action uses it.
NextSeqUnlocked(w) ==
  /\ wk[w].pc = "seq"
  /\ lock' = [c \in Conv |-> IF c \in Planned(w) THEN w ELSE lock[c]]
  /\ Become(w, [wk[w] EXCEPT !.pc = "assign", !.next = counter])
  /\ UNCHANGED <<kafka, convs, row, counter, lastSeq, pushes, faults>>

(***************************************************************************)
(* The UPSERT of seq:{c} locks the counters of all conversations of the    *)
(* transaction until it ends.                                              *)
(***************************************************************************)
NextSeq(w) ==
  /\ wk[w].pc = "seq"
  /\ \A c \in Planned(w) : lock[c] = NoWorker
  /\ lock' = [c \in Conv |-> IF c \in Planned(w) THEN w ELSE lock[c]]
  /\ Become(w, [wk[w] EXCEPT !.pc = "assign", !.next = counter])
  /\ UNCHANGED <<kafka, convs, row, counter, lastSeq, pushes, faults>>

(***************************************************************************)
(* The lowest index of the plan gets the next number of its conversation;  *)
(* its push waits for the COMMIT.                                          *)
(***************************************************************************)
\* Mutant of Number: no action uses it.
NumberBelow(w, m) == wk[w].next[ConvOf[m]] - 1

Number(w, m) == wk[w].next[ConvOf[m]] + 1

\* Mutant of Assign: no action uses it.
AssignEarly(w, i) ==
  LET m == Message(w, i)
      n == wk[w].next[ConvOf[m]] + 1
  IN
  /\ wk[w].pc = "assign"
  /\ i \in wk[w].plan
  /\ \A j \in wk[w].plan : i <= j
  /\ \E us \in Targets(m) :
       Become(w, [wk[w] EXCEPT !.plan = @ \ {i},
                             !.next = [@ EXCEPT ![ConvOf[m]] = n],
                             !.asg = [@ EXCEPT ![m] = n],
                             !.pending = AppendTo(@, us, [msg |-> m, seq |-> n])])
  /\ UNCHANGED <<kafka, db, pushes, faults>>

Assign(w, i) ==
  LET m == Message(w, i)
      n == Number(w, m)
  IN
  /\ wk[w].pc = "assign"
  /\ i \in wk[w].plan
  /\ \A j \in wk[w].plan : i <= j
  /\ \E us \in Targets(m) :
       Become(w, [wk[w] EXCEPT !.plan = @ \ {i},
                             !.next = [@ EXCEPT ![ConvOf[m]] = n],
                             !.asg = [@ EXCEPT ![m] = n],
                             !.out = AppendTo(@, us, [msg |-> m, seq |-> n])])
  /\ UNCHANGED <<kafka, db, pushes, faults>>

(***************************************************************************)
(* The one-by-one path inserts without ON CONFLICT: a row that appeared    *)
(* after it looked is an error.                                            *)
(***************************************************************************)
IdTaken(w) ==
  /\ wk[w].ret # "select"
  /\ \E m \in Msg : wk[w].asg[m] # 0 /\ row[m] # 0

(***************************************************************************)
(* The batch inserts ON CONFLICT (msg_id) DO NOTHING: a message somebody   *)
(* else stored since Select keeps its row, but the number taken for it and *)
(* the push made of it stay.  The other unique constraint, (conv_id, seq), *)
(* is no guard here: UniqueSeq says that it never decides.                 *)
(***************************************************************************)
StoredRow(w, m) == IF row[m] = 0 THEN wk[w].asg[m] ELSE row[m]

NewLastSeq(w, c) ==
  IF c \in Held(w) /\ lastSeq[c] < wk[w].next[c] THEN wk[w].next[c] ELSE lastSeq[c]

(***************************************************************************)
(* COMMIT; its pushes are queued, and the transaction's locks go.          *)
(***************************************************************************)
Insert(w) ==
  /\ wk[w].pc = "assign"
  /\ wk[w].plan = {}
  /\ ~IdTaken(w)
  /\ row' = [m \in Msg |-> StoredRow(w, m)]
  /\ counter' = [c \in Conv |-> IF c \in Held(w) THEN wk[w].next[c] ELSE counter[c]]
  /\ lastSeq' = [c \in Conv |-> NewLastSeq(w, c)]
  /\ lock' = [c \in Conv |-> IF lock[c] = w THEN NoWorker ELSE lock[c]]
  /\ Become(w, [wk[w] EXCEPT
       !.pc = IF wk[w].ret = "select" THEN "replay" ELSE wk[w].ret,
       !.todo = IF wk[w].ret = "select"
                     THEN {} ELSE @ \ {i \in @ : \A j \in @ : i <= j},
       !.pending = [u \in Uid |-> @[u] \o wk[w].out[u]],
       !.asg = Fresh.asg,
       !.next = Fresh.next,
       !.out = Fresh.out])
  /\ UNCHANGED <<kafka, convs, pushes, faults>>

\* Mutant of Abort: no action uses it.
AbortHoldsLocks(w) ==
  /\ Become(w, [wk[w] EXCEPT !.pc = "flush", !.fail = TRUE, !.plan = {},
                             !.asg = Fresh.asg, !.next = Fresh.next,
                             !.out = Fresh.out])
  /\ UNCHANGED <<kafka, convs, row, counter, lastSeq, lock, pushes>>

\* Mutant of Abort: no action uses it.
AbortSilently(w) ==
  /\ lock' = [c \in Conv |-> IF lock[c] = w THEN NoWorker ELSE lock[c]]
  /\ Become(w, [wk[w] EXCEPT !.pc = "flush", !.plan = {},
                             !.asg = Fresh.asg, !.next = Fresh.next,
                             !.out = Fresh.out])
  /\ UNCHANGED <<kafka, convs, row, counter, lastSeq, pushes>>

(***************************************************************************)
(* The transaction is rolled back and the iteration ends with an error:    *)
(* nothing of it is stored, nothing of it is pushed.                       *)
(***************************************************************************)
Abort(w) ==
  /\ lock' = [c \in Conv |-> IF lock[c] = w THEN NoWorker ELSE lock[c]]
  /\ Become(w, [wk[w] EXCEPT !.pc = "flush", !.fail = TRUE, !.plan = {},
                             !.asg = Fresh.asg, !.next = Fresh.next,
                             !.out = Fresh.out])
  /\ UNCHANGED <<kafka, convs, row, counter, lastSeq, pushes>>

InsertConflict(w) ==
  /\ wk[w].pc = "assign"
  /\ wk[w].plan = {}
  /\ IdTaken(w)
  /\ Abort(w)
  /\ UNCHANGED faults

-----------------------------------------------------------------------------
(* The end of an iteration, and failures *)

(***************************************************************************)
(* The pushes of an iteration are written also when it has failed; a       *)
(* failed one returns its error after that, and the process is restarted.  *)
(***************************************************************************)
FlushPushes(w) ==
  /\ wk[w].pc = "flush"
  /\ pushes' = [u \in Uid |-> pushes[u] \o wk[w].pending[u]]
  /\ Become(w, IF wk[w].fail THEN Fresh
                             ELSE [wk[w] EXCEPT !.pc = "offset",
                                                !.pending = Fresh.pending])
  /\ UNCHANGED <<kafka, db, faults>>

(***************************************************************************)
(* WriteBatch fails after it has written the records of some keys.         *)
(***************************************************************************)
FlushFailed(w) ==
  /\ crashes < MaxCrash
  /\ wk[w].pc = "flush"
  /\ \E us \in SUBSET Uid :
       pushes' = [u \in Uid |-> IF u \in us THEN pushes[u] \o wk[w].pending[u]
                                            ELSE pushes[u]]
  /\ Become(w, Fresh)
  /\ crashes' = crashes + 1
  /\ UNCHANGED <<kafka, db, rebalances>>

CommitMessages(w) ==
  /\ wk[w].pc = "offset"
  /\ ~wk[w].stale
  /\ committed' = [p \in Partition |-> committed[p] + wk[w].taken[p]]
  /\ Become(w, Fresh)
  /\ UNCHANGED <<log, owner, db, pushes, faults>>

CommitRefused(w) ==
  /\ wk[w].pc = "offset"
  /\ wk[w].stale
  /\ Become(w, Fresh)
  /\ UNCHANGED <<kafka, db, pushes, faults>>

(***************************************************************************)
(* A query fails: PostgreSQL is away, a deadlock is broken, two workers    *)
(* create the same conversation.                                           *)
(***************************************************************************)
Fail(w) ==
  /\ crashes < MaxCrash
  /\ wk[w].pc \notin {"fetch", "flush", "offset"}
  /\ Abort(w)
  /\ crashes' = crashes + 1
  /\ UNCHANGED rebalances

(***************************************************************************)
(* The process dies and is started again.                                  *)
(***************************************************************************)
Crash(w) ==
  /\ crashes < MaxCrash
  /\ wk[w].items # <<>>
  /\ lock' = [c \in Conv |-> IF lock[c] = w THEN NoWorker ELSE lock[c]]
  /\ Become(w, Fresh)
  /\ crashes' = crashes + 1
  /\ UNCHANGED <<kafka, convs, row, counter, lastSeq, pushes, rebalances>>

-----------------------------------------------------------------------------
Index == 1 .. BatchMax

Work(w) ==
  \/ \E p \in Partition : Fetch(w, p)
  \/ Resolve(w)
  \/ \E i \in Index : \/ SkipPoison(w, i)
                      \/ HandleRefused(w, i)
                      \/ HandleReplay(w, i)
                      \/ HandleNew(w, i)
  \/ QueueDone(w)
  \/ Select(w)
  \/ \E i \in Index : Replay(w, i)
  \/ ReplayDone(w)
  \/ NextSeq(w)
  \/ \E i \in Index : Assign(w, i)
  \/ Insert(w)
  \/ InsertConflict(w)
  \/ FlushPushes(w)
  \/ CommitMessages(w)
  \/ CommitRefused(w)

Failure(w) ==
  \/ \E i \in Index : SkipUnread(w, i)
  \/ FlushFailed(w)
  \/ Fail(w)
  \/ Crash(w)

Environment ==
  \/ \E m \in Msg, b \in BOOLEAN : Send(m, b)
  \/ \E m \in Msg : OpenConversation(m) \/ Prewrite(m)
  \/ \E p \in Partition, w \in Worker : Rebalance(p, w)

Next ==
  \/ Environment
  \/ \E w \in Worker : Work(w) \/ Failure(w)

Spec == Init /\ [][Next]_vars

(***************************************************************************)
(* The deployment keeps every worker running, so a worker that can go on   *)
(* does; nothing is assumed of producers and of failures.                  *)
(***************************************************************************)
FairSpec == Spec /\ \A w \in Worker : WF_vars(Work(w))

-----------------------------------------------------------------------------
(* Correctness *)

Stored(c) == {m \in Msg : ConvOf[m] = c /\ row[m] # 0}

(***************************************************************************)
(* No two messages of a conversation have the same seq, and no message has *)
(* a seq the counter of its conversation has not reached: the unique       *)
(* constraint on (conv_id, seq) is never what stops a transaction, however *)
(* workers, gateways and rebalances interleave.                            *)
(***************************************************************************)
UniqueSeq ==
  \A c \in Conv : \A m, n \in Stored(c) :
    /\ row[m] <= counter[c]
    /\ row[m] = row[n] => m = n

(***************************************************************************)
(* Why UniqueSeq holds, as an inductive invariant.  A number is given only *)
(* by the worker that holds the counter's lock, above the committed value  *)
(* and to one message; without the lock a transaction has no numbers.      *)
(***************************************************************************)
NumbersAreLocked ==
  \A w \in Worker : \A m \in Msg :
    wk[w].asg[m] # 0 =>
      /\ lock[ConvOf[m]] = w
      /\ counter[ConvOf[m]] < wk[w].asg[m]
      /\ wk[w].asg[m] <= wk[w].next[ConvOf[m]]

NumbersAreDistinct ==
  \A w \in Worker : \A m, n \in Msg :
    /\ ConvOf[m] = ConvOf[n]
    /\ wk[w].asg[m] # 0
    /\ wk[w].asg[m] = wk[w].asg[n]
    => m = n

LocksAreAssigning ==
  \A w \in Worker : \A c \in Conv :
    lock[c] = w => wk[w].pc = "assign" /\ counter[c] <= wk[w].next[c]

PlansAreLocked ==
  \A w \in Worker : wk[w].pc = "assign" =>
    \A i \in wk[w].plan : lock[ConvOf[Message(w, i)]] = w

SeqInv ==
  /\ TypeOK
  /\ UniqueSeq
  /\ NumbersAreLocked
  /\ NumbersAreDistinct
  /\ LocksAreAssigning
  /\ PlansAreLocked

(***************************************************************************)
(* The stored messages of a conversation are numbered 1, 2, ... without a  *)
(* hole, at every moment: a reader that asks for what comes after the last *)
(* seq it has seen never skips a message that appears later.  (README.md:  *)
(* a replay leaves neither a repeated row nor a hole in the seqs.)         *)
(***************************************************************************)
NoHole ==
  \A c \in Conv : {row[m] : m \in Stored(c)} = 1 .. counter[c]

(***************************************************************************)
(* conversations.last_seq names a stored message and the newest one, so    *)
(* that a client that compares it with what it has knows whether it lags.  *)
(***************************************************************************)
LastSeqIsNewest ==
  \A c \in Conv :
    /\ \A m \in Stored(c) : row[m] <= lastSeq[c]
    /\ lastSeq[c] # 0 => \E m \in Stored(c) : row[m] = lastSeq[c]

(***************************************************************************)
(* What is pushed has been stored, with the seq the push carries: a push   *)
(* and the history never disagree (architecture-decisions.md, D19).        *)
(***************************************************************************)
PushedAsStored ==
  \A u \in Uid : \A k \in DOMAIN pushes[u] :
    /\ row[pushes[u][k].msg] # 0
    /\ pushes[u][k].seq = row[pushes[u][k].msg]

WasPushed(m) ==
  \A u \in Dest[m] : \E k \in DOMAIN pushes[u] : pushes[u][k] = [msg |-> m, seq |-> row[m]]

IsValid(m) == KindOf[m] # "bad" /\ FaultOf[m] = "none"

\* A message whose users cannot be looked up may be skipped.
MustArrive(m) == IsValid(m) /\ m \notin LookupsFail

(***************************************************************************)
(* An offset is committed only when every valid message up to it is stored *)
(* and, for a single chat, pushed: no crash, failed flush, repeated frame  *)
(* or batch that falls back makes a worker leave a message behind, unless  *)
(* users.Get failed at its own check.                                      *)
(***************************************************************************)
CommittedIsDone ==
  \A p \in Partition : \A o \in 1 .. committed[p] :
    LET m == log[p][o].msg IN
    MustArrive(m) => /\ row[m] # 0
                     /\ KindOf[m] = "single" => WasPushed(m)

(***************************************************************************)
(* While gateways number the events of a group and the worker its texts,   *)
(* what is behind the committed offset is done and no number is missing.   *)
(***************************************************************************)
CommittedHistory == NoHole /\ CommittedIsDone

(***************************************************************************)
(* The part of it that also survives a rebalance: what is behind the       *)
(* committed offset is in the history.  (persist.go:490: a failure of the  *)
(* infrastructure is returned, the offset is not committed and the message *)
(* is delivered again.)                                                    *)
(***************************************************************************)
CommittedIsStored ==
  \A p \in Partition : \A o \in 1 .. committed[p] :
    MustArrive(log[p][o].msg) => row[log[p][o].msg] # 0

(***************************************************************************)
(* The same of every valid message, for which persist.go:490 makes no      *)
(* exception: a failing users.Get is infrastructure too.                   *)
(***************************************************************************)
NothingIsSkipped ==
  \A p \in Partition : \A o \in 1 .. committed[p] :
    IsValid(log[p][o].msg) => row[log[p][o].msg] # 0

(***************************************************************************)
(* A message of a user that does not exist is never stored, whichever of   *)
(* the two paths it takes: the batch falls back to the precise checks.     *)
(***************************************************************************)
UnknownUserNeverStored == \A m \in Msg : FaultOf[m] = "nouser" => row[m] = 0

(***************************************************************************)
(* The history a client reads is right in its three parts: the seqs of a   *)
(* conversation have no hole, its last_seq is the newest of them, and no   *)
(* message of an unknown user is among them; over crashes, repeated frames,*)
(* failing lookups and batches that fall back.                             *)
(***************************************************************************)
HistoryIsSound == NoHole /\ LastSeqIsNewest /\ UnknownUserNeverStored

(***************************************************************************)
(* A message whose sender is not a member of the conversation is poison    *)
(* and skipped (persist.go:30), on both paths.                             *)
(***************************************************************************)
OnlyMembersStored == \A m \in Msg : FaultOf[m] = "nonmember" => row[m] = 0

(***************************************************************************)
(* A receiver sees the messages of a conversation in seq order when it     *)
(* looks at the first push of each: delivering again repeats, it does not  *)
(* reorder (architecture-decisions.md, D20).                               *)
(***************************************************************************)
FirstPushesInOrder ==
  \A u \in Uid : \A j, k \in DOMAIN pushes[u] :
    LET a == pushes[u][j]
        b == pushes[u][k]
    IN j < k /\ ConvOf[a.msg] = ConvOf[b.msg] /\ b.seq < a.seq
         => \E i \in 1 .. j : pushes[u][i].msg = b.msg

(***************************************************************************)
(* Every record that was produced is eventually done with: a record that   *)
(* can never be stored is skipped, not delivered for ever (persist.go:76). *)
(***************************************************************************)
EventuallyCommitted ==
  \A p \in Partition : \A o \in 1 .. MaxLog :
    Len(log[p]) >= o ~> committed[p] >= o

(***************************************************************************)
(* The stored rows read as histories: Persist implements MessageLog.       *)
(***************************************************************************)
StoredAt(c, n) ==
  IF \E m \in Stored(c) : row[m] = n
    THEN CHOOSE m \in Stored(c) : row[m] = n
    ELSE <<>>

History == [c \in Conv |-> [n \in 1 .. counter[c] |-> StoredAt(c, n)]]

Abstract == INSTANCE MessageLog WITH history <- History

ImplementsMessageLog == Abstract!Spec

=============================================================================
