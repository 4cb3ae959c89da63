------------------------------ MODULE Deliver ------------------------------
(***************************************************************************)
(* The deliver worker (worker/deliver): it consumes chat.push, looks up    *)
(* the chat server of each receiver through a cache, relays the pushes of  *)
(* a batch with one call per server and all servers in parallel, produces  *)
(* chat.ack for what was taken and chat.notify for who was offline, and    *)
(* only then commits.                                                      *)
(*                                                                         *)
(* One partition of chat.push is modelled: it holds all pushes of the      *)
(* receivers that hash to it.  A push is its offset.  The chat servers are *)
(* what their relay handlers show: whether they run, who is in their       *)
(* tables, and the Send channels.  A server changes its table first and    *)
(* the record of the user later, in a statement of its own that may fail;  *)
(* how the events come about is in module Presence.                        *)
(***************************************************************************)
EXTENDS Naturals, Sequences, SequencesExt

CONSTANTS
  Uid,        \* receivers
  Cs,         \* chat servers
  NoCs,       \* offline: no record, no connection
  Unknown,    \* nothing in the cache
  ToUid,      \* ToUid[p]: receiver of the push at offset p, p = 1..n
  BatchMax,   \* bound: pushes of one batch
  SendMax,    \* bound: frames a Send channel holds
  Attempts,   \* relayAttempts
  MaxMove,    \* bound: connections that come or go
  MaxRpc,     \* bound: relay calls whose answer is lost
  MaxDown,    \* bound: crashes of chat servers
  MaxRoute,   \* bound: lookups of a record that fail
  MaxCrash    \* bound: crashes and failed writes of the worker

Push == DOMAIN ToUid

ASSUME DeliverAssumption ==
  /\ NoCs \notin Cs /\ Unknown \notin Cs \cup {NoCs}
  /\ ToUid \in Seq(Uid)
  /\ {BatchMax, SendMax, Attempts} \subseteq Nat \ {0}
  /\ {MaxMove, MaxRpc, MaxDown, MaxRoute, MaxCrash} \subseteq Nat

VARIABLES
  at,        \* at[u]: the server whose table has u's newest connection
  left,      \* left[u]: servers whose tables have one that u reads no more
  op,        \* per server: the statement its event loop is about to run
  online,    \* online[u]: the server the record of u names
  changes,   \* changes[u]: how often the record of u has changed (history)
  up,        \* chat servers that run
  send,      \* send[u]: frames in the Send channel of u's connection
  got,       \* got[u]: pushes u's client has seen, in the order of first sight
  cache,     \* the Router's cache
  committed, \* offset up to which the batch is committed
  wk,        \* the iteration of the worker
  grp,       \* per server: the goroutine that delivers to it
  acked,     \* pushes with a record in chat.ack
  notified,  \* pushes with a record in chat.notify
  full,      \* pushes that have met a full Send channel (history)
  missed,    \* pushes not found where the record said they would be (history)
  faults     \* what has gone wrong so far

presence == <<at, left, op, online, changes, up>>
servers  == <<presence, send, got, full, missed>>
topics   == <<committed, acked, notified>>
vars     == <<servers, cache, topics, wk, grp, faults>>

NoOp == [do |-> "none"]
Ops  == [do : {"put", "delete"}, uid : Uid]

(***************************************************************************)
(* Lists of pushes are sets, taken in the order of their offsets.  list    *)
(* and res are those of the batch call, todo what is delivered one by one, *)
(* push the one under way; moved: the batch call has not found them.       *)
(***************************************************************************)
IdleGroup   == [stage |-> "idle", list |-> {}, res |-> [p \in Push |-> "none"],
                todo |-> {}, moved |-> FALSE, push |-> 0,
                try |-> 1, second |-> FALSE, addr |-> NoCs]
IdleWorker  == [pc |-> "fetch", hi |-> 0, todo |-> {}, pending |-> {}, offline |-> {}]
FreshCache  == [u \in Uid |-> Unknown]
FreshGroups == [s \in Cs |-> IdleGroup]

Init ==
  /\ at \in [Uid -> Cs \cup {NoCs}]
  /\ left = [u \in Uid |-> {}]
  /\ op = [s \in Cs |-> NoOp]
  /\ online = at
  /\ changes = [u \in Uid |-> 0]
  /\ up = Cs
  /\ send = [u \in Uid |-> <<>>]
  /\ got = [u \in Uid |-> <<>>]
  /\ cache = FreshCache
  /\ committed = 0
  /\ wk = IdleWorker
  /\ grp = FreshGroups
  /\ acked = {} /\ notified = {} /\ full = {} /\ missed = {}
  /\ faults = [move |-> 0, rpc |-> 0, down |-> 0, route |-> 0, crash |-> 0]

Hit(kind, max) ==
  /\ faults[kind] < max
  /\ faults' = [faults EXCEPT ![kind] = @ + 1]

-----------------------------------------------------------------------------
(***************************************************************************)
(* Users and chat servers.  A new connection starts with an empty channel; *)
(* what is put into the channel of an older one is not read.               *)
(***************************************************************************)
EventRegister(u, s) ==
  /\ s \in up /\ op[s] = NoOp
  /\ Hit("move", MaxMove)
  /\ at' = [at EXCEPT ![u] = s]
  /\ left' = [left EXCEPT ![u] = (@ \cup {at[u]}) \ {s, NoCs}]
  /\ send' = [send EXCEPT ![u] = <<>>]
  /\ op' = [op EXCEPT ![s] = [do |-> "put", uid |-> u]]
  /\ UNCHANGED <<online, changes, up, got, full, missed, cache, topics, wk, grp>>

\* The event removes whatever connection the table has of the user.
EventUnregister(u, s) ==
  /\ s \in up /\ op[s] = NoOp
  /\ Hit("move", MaxMove)
  /\ at' = [at EXCEPT ![u] = IF @ = s THEN NoCs ELSE @]
  /\ left' = [left EXCEPT ![u] = @ \ {s}]
  /\ send' = [send EXCEPT ![u] = IF at[u] = s THEN <<>> ELSE @]
  /\ op' = [op EXCEPT ![s] = [do |-> "delete", uid |-> u]]
  /\ UNCHANGED <<online, changes, up, got, full, missed, cache, topics, wk, grp>>

Rewrite(u, c) ==
  /\ online' = [online EXCEPT ![u] = c]
  /\ changes' = [changes EXCEPT ![u] = IF online[u] = c THEN @ ELSE @ + 1]

(***************************************************************************)
(* The second half of the event: Upsert, or DeleteIfMatch.  It may fail,   *)
(* which is only logged.                                                   *)
(***************************************************************************)
WriteRecord(s) ==
  /\ op[s] # NoOp
  /\ op' = [op EXCEPT ![s] = NoOp]
  /\ \/ op[s].do = "put" /\ Rewrite(op[s].uid, s)
     \/ op[s].do = "delete" /\ online[op[s].uid] = s /\ Rewrite(op[s].uid, NoCs)
     \/ UNCHANGED <<online, changes>>
  /\ UNCHANGED <<at, left, up, send, got, full, missed, cache, topics, wk, grp, faults>>

ServerCrash(s) ==
  /\ Hit("down", MaxDown)
  /\ s \in up
  /\ up' = up \ {s}
  /\ at' = [u \in Uid |-> IF at[u] = s THEN NoCs ELSE at[u]]
  /\ left' = [u \in Uid |-> left[u] \ {s}]
  /\ op' = [op EXCEPT ![s] = NoOp]
  /\ send' = [u \in Uid |-> IF at[u] = s THEN <<>> ELSE send[u]]
  /\ UNCHANGED <<online, changes, got, full, missed, cache, topics, wk, grp>>

GhostSweep(u) ==
  /\ online[u] \in Cs \ up
  /\ Rewrite(u, NoCs)
  /\ UNCHANGED <<at, left, op, up, send, got, full, missed, cache, topics, wk, grp, faults>>

\* WritePump sends the oldest frame; the client knows a push by its msg_id.
Write(u) ==
  /\ send[u] # <<>>
  /\ send' = [send EXCEPT ![u] = Tail(@)]
  /\ got' = [got EXCEPT ![u] = IF Contains(@, Head(send[u])) THEN @ ELSE Append(@, Head(send[u]))]
  /\ UNCHANGED <<presence, full, missed, cache, topics, wk, grp, faults>>

-----------------------------------------------------------------------------
(***************************************************************************)
(* enqueueMessage on server s: what it answers for push p, and the channel *)
(* afterwards.  A full channel answers at once; that of a connection which *)
(* is read no more is taken to have room.                                  *)
(***************************************************************************)
Answer(p, s) ==
  IF at[ToUid[p]] = s
  THEN IF Len(send[ToUid[p]]) = SendMax THEN "send_full" ELSE "delivered"
  ELSE IF s \in left[ToUid[p]] THEN "delivered" ELSE "not_found"

Enqueue(p, s) ==
  /\ send' = IF Answer(p, s) = "delivered" /\ at[ToUid[p]] = s
             THEN [send EXCEPT ![ToUid[p]] = Append(@, p)] ELSE send
  /\ full' = IF Answer(p, s) = "send_full" THEN full \cup {p} ELSE full

(***************************************************************************)
(* The Router.  Get answers from the cache, a negative answer included,    *)
(* and fills it from the record; an entry may expire at any time.          *)
(***************************************************************************)
Get(u) == IF cache[u] # Unknown THEN cache[u] ELSE online[u]

Remember(u) == cache' = [cache EXCEPT ![u] = Get(u)]

Invalidate(u) == cache' = [cache EXCEPT ![u] = Unknown]

Expire(u) ==
  /\ cache[u] # Unknown
  /\ Invalidate(u)
  /\ UNCHANGED <<servers, topics, wk, grp, faults>>

\* Get has to ask the database, and fails.
RouteFails(u) == cache[u] = Unknown /\ Hit("route", MaxRoute)

-----------------------------------------------------------------------------
(***************************************************************************)
(* Run: fetch a batch, route each push to the list of its server or to the *)
(* offline queue.  A push whose lookup fails is in neither.                *)
(***************************************************************************)
Fetch(n) ==
  /\ wk.pc = "fetch"
  /\ n \in (committed + 1)..Len(ToUid)
  /\ n - committed <= BatchMax
  /\ wk' = [wk EXCEPT !.pc = "route", !.hi = n, !.todo = (committed + 1)..n]
  /\ UNCHANGED <<servers, cache, topics, grp, faults>>

\* Mutant of First: no action uses it.
Newest(pushes) == {p \in pushes : \A q \in pushes : q <= p}

\* The next push of a list.
First(pushes) == {p \in pushes : \A q \in pushes : p <= q}

Route ==
  /\ wk.pc = "route"
  /\ \E p \in First(wk.todo) :
       LET s == Get(ToUid[p]) IN
       /\ wk' = [wk EXCEPT !.todo = @ \ {p}, !.offline = IF s = NoCs THEN @ \cup {p} ELSE @]
       /\ grp' = IF s = NoCs THEN grp ELSE [grp EXCEPT ![s].list = @ \cup {p}]
       /\ Remember(ToUid[p])
  /\ UNCHANGED <<servers, topics, faults>>

RouteSkips ==
  /\ wk.pc = "route"
  /\ \E p \in First(wk.todo) : RouteFails(ToUid[p]) /\ wk' = [wk EXCEPT !.todo = @ \ {p}]
  /\ UNCHANGED <<servers, cache, topics, grp>>

Dispatch ==
  /\ wk.pc = "route"
  /\ wk.todo = {}
  /\ wk' = [wk EXCEPT !.pc = "relay"]
  /\ grp' = [s \in Cs |-> IF grp[s].list = {} THEN IdleGroup ELSE [grp[s] EXCEPT !.stage = "batch"]]
  /\ UNCHANGED <<servers, cache, topics, faults>>

-----------------------------------------------------------------------------
(***************************************************************************)
(* deliverBatch: the handler takes the pushes of the list one by one, so   *)
(* that the table may change between two of them.  When the call fails, a  *)
(* prefix may have been taken all the same.                                *)
(***************************************************************************)
With(g, answer) == {p \in g.list : g.res[p] = answer}

BatchRelay(s) ==
  /\ grp[s].stage = "batch"
  /\ s \in up
  /\ \E p \in First(With(grp[s], "none")) :
       /\ Enqueue(p, s)
       /\ grp' = [grp EXCEPT ![s].res[p] = Answer(p, s)]
  /\ UNCHANGED <<presence, got, missed, cache, topics, wk, faults>>

\* What is left is delivered one by one.
OneByOne(s, pushes, moved) ==
  grp' = [grp EXCEPT ![s] = [IdleGroup EXCEPT !.stage = "next", !.todo = pushes, !.moved = moved]]

\* Mutant of BatchAnswered: no action uses it.
BatchAnsweredAll(s) ==
  /\ grp[s].stage = "batch"
  /\ With(grp[s], "none") = {}
  /\ wk' = [wk EXCEPT !.pending = @ \cup grp[s].list]
  /\ OneByOne(s, {}, TRUE)
  /\ UNCHANGED <<servers, cache, topics, faults>>

BatchAnswered(s) ==
  /\ grp[s].stage = "batch"
  /\ With(grp[s], "none") = {}
  /\ wk' = [wk EXCEPT !.pending = @ \cup With(grp[s], "delivered")]
  /\ OneByOne(s, With(grp[s], "not_found"), TRUE)
  /\ UNCHANGED <<servers, cache, topics, faults>>

LostCall(s) == IF s \in up THEN Hit("rpc", MaxRpc) ELSE UNCHANGED faults

BatchFails(s) ==
  /\ grp[s].stage = "batch"
  /\ LostCall(s)
  /\ OneByOne(s, grp[s].list, FALSE)
  /\ UNCHANGED <<servers, cache, topics, wk>>

(***************************************************************************)
(* deliverIndividually: one push after the other, each with a number of    *)
(* attempts; an attempt is Deliver, which relays once more after a         *)
(* not_found.                                                              *)
(***************************************************************************)
StartSingle(s) ==
  /\ grp[s].stage = "next"
  /\ \E p \in First(grp[s].todo) :
       /\ IF grp[s].moved THEN Invalidate(ToUid[p]) ELSE UNCHANGED cache
       /\ grp' = [grp EXCEPT ![s].stage = "get", ![s].push = p, ![s].todo = @ \ {p}]
  /\ UNCHANGED <<servers, topics, wk, faults>>

GroupDone(s) ==
  /\ grp[s].stage = "next"
  /\ grp[s].todo = {}
  /\ grp' = [grp EXCEPT ![s] = IdleGroup]
  /\ UNCHANGED <<servers, cache, topics, wk, faults>>

NextSingle(s) == OneByOne(s, grp[s].todo, grp[s].moved)

\* Mutant of Retry: no action uses it.
RetryForever(s) ==
  /\ grp' = [grp EXCEPT ![s].stage = "get", ![s].second = FALSE]
  /\ Invalidate(ToUid[grp[s].push])

\* After a failed attempt: invalidate and try again, or give the push up.
Retry(s) ==
  \/ /\ grp[s].try < Attempts
     /\ grp' = [grp EXCEPT ![s].try = @ + 1, ![s].stage = "get", ![s].second = FALSE,
                           ![s].addr = NoCs]
     /\ Invalidate(ToUid[grp[s].push])
  \/ /\ grp[s].try = Attempts
     /\ NextSingle(s)
     /\ UNCHANGED cache

Look(s) ==
  LET u == ToUid[grp[s].push] IN
  /\ grp[s].stage = "get"
  /\ Remember(u)
  /\ IF Get(u) = NoCs
     THEN wk' = [wk EXCEPT !.offline = @ \cup {grp[s].push}] /\ NextSingle(s)
     ELSE grp' = [grp EXCEPT ![s].stage = "relay", ![s].addr = Get(u)] /\ UNCHANGED wk
  /\ UNCHANGED <<servers, topics, faults>>

LookFails(s) ==
  /\ grp[s].stage = "get"
  /\ RouteFails(ToUid[grp[s].push])
  /\ Retry(s)
  /\ UNCHANGED <<servers, topics, wk>>

\* Mutant of LookAgain: no action uses it.
LookAgainInCache(s) ==
  /\ grp' = [grp EXCEPT ![s].stage = "get", ![s].second = TRUE, ![s].addr = NoCs]
  /\ UNCHANGED cache

\* not_found the first time: ask the record again instead of the cache.
LookAgain(s) ==
  /\ grp' = [grp EXCEPT ![s].stage = "get", ![s].second = TRUE, ![s].addr = NoCs]
  /\ Invalidate(ToUid[grp[s].push])

Relay(s) ==
  LET p == grp[s].push
      answer == Answer(p, grp[s].addr)
  IN
  /\ grp[s].stage = "relay"
  /\ grp[s].addr \in up
  /\ Enqueue(p, grp[s].addr)
  /\ wk' = [wk EXCEPT !.pending = IF answer = "delivered" THEN @ \cup {p} ELSE @]
  /\ missed' = IF answer = "not_found" /\ online[ToUid[p]] = grp[s].addr
               THEN missed \cup {p} ELSE missed
  /\ IF answer = "not_found" /\ ~grp[s].second
     THEN LookAgain(s)
     ELSE NextSingle(s) /\ UNCHANGED cache
  /\ UNCHANGED <<presence, got, topics, faults>>

\* No answer in time, or no server; the handler may have run.
RelayFails(s) ==
  /\ grp[s].stage = "relay"
  /\ LostCall(grp[s].addr)
  /\ Enqueue(grp[s].push, grp[s].addr) \/ UNCHANGED <<send, full>>
  /\ Retry(s)
  /\ UNCHANGED <<presence, got, missed, topics, wk>>

-----------------------------------------------------------------------------
(***************************************************************************)
(* flushDelivered and the commit.  A failed write ends the process, which  *)
(* starts again with an empty cache at the committed offset.               *)
(***************************************************************************)
Collected ==
  /\ wk.pc = "relay"
  /\ \A s \in Cs : grp[s].stage = "idle"
  /\ wk' = [wk EXCEPT !.pc = "acks"]
  /\ UNCHANGED <<servers, cache, topics, grp, faults>>

FlushAcks ==
  /\ wk.pc = "acks"
  /\ acked' = acked \cup wk.pending
  /\ wk' = [wk EXCEPT !.pc = "notifies", !.pending = {}]
  /\ UNCHANGED <<servers, cache, committed, notified, grp, faults>>

FlushNotifies ==
  /\ wk.pc = "notifies"
  /\ notified' = notified \cup wk.offline
  /\ wk' = [wk EXCEPT !.pc = "commit", !.offline = {}]
  /\ UNCHANGED <<servers, cache, committed, acked, grp, faults>>

Commit ==
  /\ wk.pc = "commit"
  /\ committed' = wk.hi
  /\ wk' = IdleWorker
  /\ UNCHANGED <<servers, cache, acked, notified, grp, faults>>

Crash ==
  /\ wk.pc # "fetch"
  /\ Hit("crash", MaxCrash)
  /\ wk' = IdleWorker
  /\ grp' = FreshGroups
  /\ cache' = FreshCache
  /\ UNCHANGED <<servers, topics>>

-----------------------------------------------------------------------------
Group(s) ==
  \/ BatchRelay(s) \/ BatchAnswered(s) \/ BatchFails(s)
  \/ StartSingle(s) \/ GroupDone(s)
  \/ Look(s) \/ LookFails(s) \/ Relay(s) \/ RelayFails(s)

Run ==
  \/ \E n \in Push : Fetch(n)
  \/ Route \/ RouteSkips \/ Dispatch
  \/ Collected \/ FlushAcks \/ FlushNotifies \/ Commit

Environment ==
  \/ \E u \in Uid : GhostSweep(u) \/ Write(u) \/ Expire(u)
  \/ \E u \in Uid, s \in Cs : EventRegister(u, s) \/ EventUnregister(u, s)
  \/ \E s \in Cs : WriteRecord(s) \/ ServerCrash(s)

Next == Run \/ (\E s \in Cs : Group(s)) \/ Environment \/ Crash

Spec == Init /\ [][Next]_vars

\* The worker goes on, in each of its goroutines: every call has a deadline.
Fairness == WF_vars(Run) /\ \A s \in Cs : WF_vars(Group(s))

FairSpec == Spec /\ Fairness

-----------------------------------------------------------------------------
Stages == {"idle", "batch", "next", "get", "relay"}

Answers == {"none", "delivered", "not_found", "send_full"}

Goroutine == [stage : Stages, list : SUBSET Push, res : [Push -> Answers], todo : SUBSET Push,
              moved : BOOLEAN, push : Push \cup {0}, try : 1..Attempts, second : BOOLEAN,
              addr : Cs \cup {NoCs}]

Iteration == [pc : {"fetch", "route", "relay", "acks", "notifies", "commit"}, hi : 0..Len(ToUid),
              todo : SUBSET Push, pending : SUBSET Push, offline : SUBSET Push]

\* What a goroutine has at its place in the code; while the batch is routed, its list.
GoroutineOK(g) ==
  /\ g.stage \notin {"idle", "batch"} => g.list = {}
  /\ g.stage # "batch" => g.res = IdleGroup.res
  /\ g.stage \in {"idle", "batch"} => g.todo = {}
  /\ IF g.stage \in {"get", "relay"} THEN g.push \in Push /\ \A q \in g.todo : g.push < q
     ELSE g.push = 0 /\ g.try = 1 /\ ~g.second
  /\ IF g.stage = "relay" THEN g.addr \in Cs ELSE g.addr = NoCs

WorkerOK ==
  /\ wk.pc # "route" => wk.todo = {} /\ \A s \in Cs : grp[s].stage = "idle" => grp[s].list = {}
  /\ wk.pc # "relay" => \A s \in Cs : grp[s].stage = "idle"
  /\ wk.pc \notin {"relay", "acks"} => wk.pending = {}
  /\ wk.pc \in {"fetch", "commit"} => wk.offline = {}
  /\ IF wk.pc = "fetch" THEN wk.hi = 0 ELSE wk.hi > committed

\* The variables hold what the code can put into them.
TypeOK ==
  /\ at \in [Uid -> Cs \cup {NoCs}] /\ left \in [Uid -> SUBSET Cs]
  /\ \A u \in Uid : at[u] \notin left[u]
  /\ op \in [Cs -> Ops \cup {NoOp}]
  /\ online \in [Uid -> Cs \cup {NoCs}] /\ changes \in [Uid -> Nat]
  /\ up \subseteq Cs
  /\ send \in [Uid -> Seq(Push)] /\ got \in [Uid -> Seq(Push)]
  /\ \A u \in Uid : /\ \A i \in DOMAIN send[u] : ToUid[send[u][i]] = u
                    /\ \A i \in DOMAIN got[u] : ToUid[got[u][i]] = u
                    /\ Len(send[u]) <= SendMax
  /\ cache \in [Uid -> Cs \cup {NoCs, Unknown}]
  /\ committed \in 0..Len(ToUid)
  /\ full \subseteq Push /\ missed \subseteq Push
  /\ acked \subseteq Push /\ notified \subseteq Push
  /\ wk \in Iteration /\ WorkerOK
  /\ grp \in [Cs -> Goroutine] /\ \A s \in Cs : GoroutineOK(grp[s])
  /\ faults \in [move : Nat, rpc : Nat, down : Nat, route : Nat, crash : Nat]

(***************************************************************************)
(* A committed push has been answered: it has a record in chat.ack or in   *)
(* chat.notify, or has met a full channel; or it met a server that had the *)
(* record and no connection, between the two halves of an event or after a *)
(* failed second half.  This holds in spite of a stale cache, of lost      *)
(* calls, of crashes of the worker and of receivers that come and go (the  *)
(* second line of defence, D06), as long as lookups do not fail, servers   *)
(* do not crash, the record of the receiver has changed at most once and   *)
(* fewer calls are lost than a push has attempts.                          *)
(***************************************************************************)
Answered == acked \cup notified \cup full

Gentle == faults.route = 0 /\ faults.down = 0 /\ faults.rpc < Attempts

CommittedIsAnswered ==
  Gentle => \A p \in 1..committed : changes[ToUid[p]] <= 1 => p \in Answered \cup missed

\* Every committed push has been answered: not so when lookups fail or servers crash.
AllAnswered == 1..committed \subseteq Answered

(***************************************************************************)
(* docs/architecture-decisions.md:111: not_found is corrected at once by a *)
(* look at the record, a wrong view survives one failed delivery; with one *)
(* connection come or gone and nothing else amiss.                         *)
(***************************************************************************)
OneMoveOnly == Gentle /\ faults.rpc = 0 /\ faults.crash = 0 /\ faults.move <= 1

CorrectedAtOnce == OneMoveOnly => AllAnswered

(***************************************************************************)
(* The sender is told "delivered" only of pushes that were put into a Send *)
(* channel of their receiver, over fallbacks, retries and redelivery: one  *)
(* that is acked has been seen or is still in the channel, as long as no   *)
(* connection was lost with what its channel held.                         *)
(***************************************************************************)
Steady == faults.move = 0 /\ faults.down = 0

AckedWasEnqueued ==
  Steady => \A p \in acked : Contains(got[ToUid[p]], p) \/ Contains(send[ToUid[p]], p)

(***************************************************************************)
(* A push to somebody who is offline and stays so is notified before its   *)
(* offset is committed, and nobody who is online is notified.              *)
(***************************************************************************)
OfflineIsNotified ==
  Steady /\ faults.route = 0 =>
    \A p \in 1..committed : at[ToUid[p]] = NoCs <=> p \in notified

(***************************************************************************)
(* What the deliver worker tells others is true: a sender of "delivered",  *)
(* the push service of a receiver who is away.                             *)
(***************************************************************************)
AnswersAreTrue == TypeOK /\ AckedWasEnqueued /\ OfflineIsNotified

(***************************************************************************)
(* A receiver first sees its pushes in the order of the log (deliver.go:   *)
(* the order inside a shard keeps each user's delivery order); the second  *)
(* form is for a receiver who stays connected and keeps up, while lookups  *)
(* do not fail and fewer calls are lost than a push has attempts: one that *)
(* is skipped or given up may come again after a restart, out of order.    *)
(***************************************************************************)
SeenInOrder ==
  \A u \in Uid : \A i, j \in DOMAIN got[u] : i < j => got[u][i] < got[u][j]

SteadySeenInOrder == Steady /\ Gentle /\ full = {} => SeenInOrder

(***************************************************************************)
(* Every push is eventually committed: no receiver, no server that hangs   *)
(* or has died, and no lookup that fails keeps the rest from its turn.     *)
(***************************************************************************)
EventuallyCommitted == <>(committed = Len(ToUid))
=============================================================================
