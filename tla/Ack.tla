-------------------------------- MODULE Ack --------------------------------
(***************************************************************************)
(* The consumer of chat.ack inside every chat server                       *)
(* (joker/exchange/ack.go).  All servers are one consumer group, so an ack *)
(* arrives at any of them: one whose sender is connected here goes into    *)
(* his Send channel, the others are forwarded, one call per server, to the *)
(* servers that the online records name (joker/relay, joker/relayclient).  *)
(* After any error ConsumeAcks returns; joker/start.go logs it and the     *)
(* server goes on without a consumer, its reader still in the group.       *)
(* A server changes its table first and the record of the user later, in a *)
(* statement of its own that may fail (joker/exchange/manager.go); module  *)
(* Presence has how the events come about.                                 *)
(*                                                                         *)
(* An ack is <<p, i>>: the record at offset i of partition p.              *)
(***************************************************************************)
EXTENDS Naturals, Sequences, SequencesExt, FiniteSetsExt

CONSTANTS
  Uid,        \* senders
  Cs,         \* chat servers
  NoCs,       \* offline, or no member of the group
  Log,        \* Log[p][i]: the sender whom the ack at offset i of partition p is for
  BatchMax,   \* bound: acks of one batch (ackBatchMax)
  SendMax,    \* bound: frames a Send channel holds
  MaxMove,    \* bound: connections that come or go
  MaxCall,    \* bound: calls to a running server that fail
  MaxLook,    \* bound: lookups and commits that fail
  MaxCrash    \* bound: crashes of chat servers

Part == DOMAIN Log
AckId == UNION {{p} \X (1..Len(Log[p])) : p \in Part}
From(a) == Log[a[1]][a[2]]

ASSUME AckAssumption ==
  /\ NoCs \notin Cs
  /\ \A p \in Part : Log[p] \in Seq(Uid)
  /\ {BatchMax, SendMax} \subseteq Nat \ {0}
  /\ {MaxMove, MaxCall, MaxLook, MaxCrash} \subseteq Nat

VARIABLES
  at,         \* at[u]: the server whose table has u's newest connection
  left,       \* left[u]: servers whose tables have one that u reads no more
  op,         \* op[s]: the statement the event loop of s is about to run
  online,     \* online[u]: the server the record of u names
  changes,    \* changes[u]: how often the record of u has changed (history)
  up,         \* chat servers that run
  room,       \* room[u]: frames in the Send channel of u's connection
  put,        \* put[u]: the acks that entered a Send channel of u, in order
  dropped,    \* acks that met a full channel, or a sender gone since the lookup
  missed,     \* acks that found no record, or no connection where it pointed (history)
  owner,      \* owner[p]: the member of the group that has partition p
  pos,        \* pos[p]: offset up to which its reader has fetched
  committed,  \* committed[p]: committed offset
  it,         \* it[s]: the iteration of the consumer of s
  faults      \* how often each kind of adversity has occurred

tables == <<at, left, op>>
records == <<online, changes>>
channels == <<room, put, dropped>>
kafka == <<owner, pos, committed>>
vars == <<tables, records, up, channels, missed, kafka, it, faults>>

NoOp == [do |-> "none"]
Ops  == [do : {"put", "delete"}, uid : Uid]

(***************************************************************************)
(* pc is the place in the code: "fetch" and "lookup" in ConsumeAcksWith    *)
(* and dispatch, "local" the loop over acks, "remote" the loop over        *)
(* servers, "call", "again" and "retry" in forward, and "ended" once       *)
(* ConsumeAcks has returned.  The lists of acks are sets: the acks of one  *)
(* partition leave them in the order of their offsets, those of different  *)
(* partitions in any order, as the reader mixes them.                      *)
(***************************************************************************)
Idle == [pc |-> "fetch", hi |-> [p \in Part |-> 0], todo |-> {},
         remote |-> [s \in Cs |-> {}], to |-> NoCs, res |-> [a \in AckId |-> "none"],
         retry |-> [s \in Cs |-> {}]]

Ended == [Idle EXCEPT !.pc = "ended"]

Init ==
  /\ at \in [Uid -> Cs \cup {NoCs}]
  /\ left = [u \in Uid |-> {}]
  /\ op = [s \in Cs |-> NoOp]
  /\ online = at
  /\ changes = [u \in Uid |-> 0]
  /\ up = Cs
  /\ room = [u \in Uid |-> 0]
  /\ put = [u \in Uid |-> <<>>]
  /\ dropped = {} /\ missed = {}
  /\ owner \in [Part -> Cs]
  /\ pos = [p \in Part |-> 0]
  /\ committed = [p \in Part |-> 0]
  /\ it = [s \in Cs |-> Idle]
  /\ faults = [move |-> 0, call |-> 0, look |-> 0, crash |-> 0]

Hit(kind, bound) == faults[kind] < bound /\ faults' = [faults EXCEPT ![kind] = @ + 1]

Ends(s) == it' = [it EXCEPT ![s] = Ended]

-----------------------------------------------------------------------------
(***************************************************************************)
(* enqueueLocal and enqueueAck: into the channel of the sender if he is in *)
(* the table of s and there is room; the channel of a connection that is   *)
(* read no more is taken to have room.                                     *)
(***************************************************************************)
Answer(a, s) ==
  IF at[From(a)] = s
  THEN IF room[From(a)] = SendMax THEN "send_full" ELSE "delivered"
  ELSE IF s \in left[From(a)] THEN "delivered" ELSE "not_found"

Enqueue(a, s) ==
  IF Answer(a, s) = "delivered"
  THEN /\ room' = IF at[From(a)] = s THEN [room EXCEPT ![From(a)] = @ + 1] ELSE room
       /\ put' = [put EXCEPT ![From(a)] = Append(@, a)]
       /\ UNCHANGED dropped
  ELSE /\ dropped' = IF Answer(a, s) = "send_full" THEN dropped \cup {a} ELSE dropped
       /\ UNCHANGED <<room, put>>

\* The record of the sender points to s, and he has no connection there.
Misses(a, s) ==
  missed' = IF Answer(a, s) = "not_found" /\ online[From(a)] = s THEN missed \cup {a} ELSE missed

-----------------------------------------------------------------------------
(***************************************************************************)
(* ConsumeAcksWith: a batch from the partitions this member has.           *)
(***************************************************************************)
Batch(hi) == {a \in AckId : a[2] \in (pos[a[1]] + 1)..hi[a[1]]}

Fetch(s) ==
  /\ it[s].pc = "fetch"
  /\ s \in up
  /\ \E n \in [Part -> 0..BatchMax] :
       LET hi == [p \in Part |-> IF n[p] = 0 THEN 0 ELSE pos[p] + n[p]] IN
       /\ \A p \in Part : n[p] > 0 => owner[p] = s /\ hi[p] <= Len(Log[p])
       /\ Cardinality(Batch(hi)) \in 1..BatchMax
       /\ it' = [it EXCEPT ![s] = [Idle EXCEPT !.pc = "lookup", !.hi = hi, !.todo = Batch(hi)]]
       /\ pos' = [p \in Part |-> pos[p] + n[p]]
  /\ UNCHANGED <<tables, records, up, channels, missed, owner, committed, faults>>

(***************************************************************************)
(* dispatch: one GetMany for all senders, then the local ones in turn.     *)
(* Who has no record is left out.                                          *)
(***************************************************************************)
For(acks, s) == {a \in acks : online[From(a)] = s}

\* Those in the hands of s whose sender has no record are left out for good.
LeavesOut(s) == missed' = missed \cup For(it[s].todo, NoCs)

\* The acks that may be next: of each partition the one with the least offset.
Earliest(acks) == {a \in acks : \A b \in acks : b[1] = a[1] => a[2] <= b[2]}

Lookup(s) ==
  /\ it[s].pc = "lookup"
  /\ it' = [it EXCEPT ![s].pc = "local",
                      ![s].todo = For(@, s),
                      ![s].remote = [c \in Cs |-> IF c = s THEN {} ELSE For(it[s].todo, c)]]
  /\ LeavesOut(s)
  /\ UNCHANGED <<tables, records, up, channels, kafka, faults>>

LookupFails(s) ==
  /\ it[s].pc \in {"lookup", "again"}
  /\ Hit("look", MaxLook)
  /\ Ends(s)
  /\ UNCHANGED <<tables, records, up, channels, missed, kafka>>

\* enqueueLocal: a sender who is no longer here is not looked up again.
Local(s) ==
  /\ it[s].pc = "local"
  /\ \E a \in Earliest(it[s].todo) :
       /\ IF Answer(a, s) = "not_found"
          THEN dropped' = dropped \cup {a} /\ UNCHANGED <<room, put>>
          ELSE Enqueue(a, s)
       /\ it' = [it EXCEPT ![s].todo = @ \ {a}]
  /\ UNCHANGED <<tables, records, up, missed, kafka, faults>>

LocalDone(s) ==
  /\ it[s].pc = "local"
  /\ it[s].todo = {}
  /\ it' = [it EXCEPT ![s].pc = "remote"]
  /\ UNCHANGED <<tables, records, up, channels, missed, kafka, faults>>

\* The loop over the map of servers: any order.
Forward(s) ==
  /\ it[s].pc = "remote"
  /\ \E c \in Cs : it[s].remote[c] # {} /\ it' = [it EXCEPT ![s].pc = "call", ![s].to = c]
  /\ UNCHANGED <<tables, records, up, channels, missed, kafka, faults>>

-----------------------------------------------------------------------------
(***************************************************************************)
(* forward: BatchRelayAcks on server it[s].to, ack by ack; while it runs,  *)
(* senders may come and go.  Any error ends the consumer.                  *)
(***************************************************************************)
RelayAck(s) ==
  /\ it[s].pc = "call"
  /\ it[s].to \in up
  /\ \E a \in Earliest({b \in it[s].remote[it[s].to] : it[s].res[b] = "none"}) :
       /\ Enqueue(a, it[s].to)
       /\ Misses(a, it[s].to)
       /\ it' = [it EXCEPT ![s].res[a] = Answer(a, it[s].to)]
  /\ UNCHANGED <<tables, records, up, kafka, faults>>

CallFails(s) ==
  /\ it[s].pc = "call"
  /\ IF it[s].to \in up THEN Hit("call", MaxCall) ELSE UNCHANGED faults
  /\ Ends(s)
  /\ UNCHANGED <<tables, records, up, channels, missed, kafka>>

\* Mutant of NotFound: no action uses it.
NotFoundAll(i) == i.remote[i.to]

NotFound(i) == {a \in i.remote[i.to] : i.res[a] = "not_found"}

\* Mutant of CallDone: no action uses it.
CallDoneForgets(s) ==
  /\ it[s].pc = "call"
  /\ \A a \in it[s].remote[it[s].to] : it[s].res[a] # "none"
  /\ it' = [it EXCEPT ![s].pc = "remote", ![s].remote[it[s].to] = {},
                      ![s].to = NoCs, ![s].res = Idle.res]
  /\ UNCHANGED <<tables, records, up, channels, missed, kafka, faults>>

CallDone(s) ==
  /\ it[s].pc = "call"
  /\ \A a \in it[s].remote[it[s].to] : it[s].res[a] # "none"
  /\ it' = [it EXCEPT ![s].pc = IF NotFound(it[s]) = {} THEN "remote" ELSE "again",
                      ![s].todo = NotFound(it[s]),
                      ![s].remote[it[s].to] = {},
                      ![s].to = NoCs, ![s].res = Idle.res]
  /\ UNCHANGED <<tables, records, up, channels, missed, kafka, faults>>

\* The second GetMany, for those that were not found.
LookupAgain(s) ==
  /\ it[s].pc = "again"
  /\ it' = [it EXCEPT ![s].pc = "retry",
                      ![s].todo = For(@, s),
                      ![s].retry = [c \in Cs |-> IF c = s THEN {} ELSE For(it[s].todo, c)]]
  /\ LeavesOut(s)
  /\ UNCHANGED <<tables, records, up, channels, kafka, faults>>

RetryLocal(s) ==
  /\ it[s].pc = "retry"
  /\ \E a \in Earliest(it[s].todo) :
       /\ Enqueue(a, s)
       /\ Misses(a, s)
       /\ it' = [it EXCEPT ![s].todo = @ \ {a}]
  /\ UNCHANGED <<tables, records, up, kafka, faults>>

\* Mutant of RetryRelay: no action uses it.
RetryRelayUntilFound(s) ==
  /\ it[s].pc = "retry"
  /\ it[s].todo = {}
  /\ \E c \in up :
       \E a \in Earliest(it[s].retry[c]) :
         /\ Enqueue(a, c)
         /\ Misses(a, c)
         /\ it' = [it EXCEPT ![s].retry[c] = IF Answer(a, c) = "not_found" THEN @ ELSE @ \ {a}]
  /\ UNCHANGED <<tables, records, up, kafka, faults>>

\* The one retry of a server, whose answers nobody reads.
RetryRelay(s) ==
  /\ it[s].pc = "retry"
  /\ it[s].todo = {}
  /\ \E c \in up :
       \E a \in Earliest(it[s].retry[c]) :
         /\ Enqueue(a, c)
         /\ Misses(a, c)
         /\ it' = [it EXCEPT ![s].retry[c] = @ \ {a}]
  /\ UNCHANGED <<tables, records, up, kafka, faults>>

\* It fails: logged only.
RetryFails(s) ==
  /\ it[s].pc = "retry"
  /\ it[s].todo = {}
  /\ \E c \in Cs :
       /\ it[s].retry[c] # {}
       /\ IF c \in up THEN Hit("call", MaxCall) /\ UNCHANGED missed
          ELSE missed' = missed \cup For(it[s].retry[c], c) /\ UNCHANGED faults
       /\ it' = [it EXCEPT ![s].retry[c] = {}]
  /\ UNCHANGED <<tables, records, up, channels, kafka>>

RetryDone(s) ==
  /\ it[s].pc = "retry"
  /\ it[s].todo = {}
  /\ \A c \in Cs : it[s].retry[c] = {}
  /\ it' = [it EXCEPT ![s].pc = "remote"]
  /\ UNCHANGED <<tables, records, up, channels, missed, kafka, faults>>

(***************************************************************************)
(* CommitMessages, once no server is left.  After a rebalance the commit   *)
(* of a partition that is elsewhere now may be taken all the same.         *)
(***************************************************************************)
AllForwarded(s) == it[s].pc = "remote" /\ \A c \in Cs : it[s].remote[c] = {}

CommitMessages(s) ==
  /\ AllForwarded(s)
  /\ committed' = [p \in Part |-> IF it[s].hi[p] > 0 THEN it[s].hi[p] ELSE committed[p]]
  /\ it' = [it EXCEPT ![s] = Idle]
  /\ UNCHANGED <<tables, records, up, channels, missed, owner, pos, faults>>

\* Refused after a rebalance, or the broker fails.
CommitFails(s) ==
  /\ AllForwarded(s)
  /\ IF \E p \in Part : it[s].hi[p] > 0 /\ owner[p] # s THEN UNCHANGED faults ELSE Hit("look", MaxLook)
  /\ Ends(s)
  /\ UNCHANGED <<tables, records, up, channels, missed, kafka>>

-----------------------------------------------------------------------------
(***************************************************************************)
(* Senders and chat servers.  A new connection starts with an empty        *)
(* channel, which WritePump empties; that of an older one is not read.     *)
(***************************************************************************)
EventRegister(u, s) ==
  /\ s \in up /\ op[s] = NoOp
  /\ Hit("move", MaxMove)
  /\ at' = [at EXCEPT ![u] = s]
  /\ left' = [left EXCEPT ![u] = (@ \cup {at[u]}) \ {s, NoCs}]
  /\ room' = [room EXCEPT ![u] = 0]
  /\ op' = [op EXCEPT ![s] = [do |-> "put", uid |-> u]]
  /\ UNCHANGED <<records, up, put, dropped, missed, kafka, it>>

\* The event removes whatever connection the table has of the user.
EventUnregister(u, s) ==
  /\ s \in up /\ op[s] = NoOp
  /\ Hit("move", MaxMove)
  /\ at' = [at EXCEPT ![u] = IF @ = s THEN NoCs ELSE @]
  /\ left' = [left EXCEPT ![u] = @ \ {s}]
  /\ room' = [room EXCEPT ![u] = IF at[u] = s THEN 0 ELSE @]
  /\ op' = [op EXCEPT ![s] = [do |-> "delete", uid |-> u]]
  /\ UNCHANGED <<records, up, put, dropped, missed, kafka, it>>

Rewrite(u, c) ==
  /\ online' = [online EXCEPT ![u] = c]
  /\ changes' = [changes EXCEPT ![u] = IF online[u] = c THEN @ ELSE @ + 1]

(***************************************************************************)
(* The second half of the event: Upsert, or DeleteIfMatch.  It may fail,   *)
(* which is only logged.                                                   *)
(***************************************************************************)
WriteRecord(s) ==
  /\ op[s] # NoOp
  /\ op' = [op EXCEPT ![s] = NoOp]
  /\ \/ op[s].do = "put" /\ Rewrite(op[s].uid, s)
     \/ op[s].do = "delete" /\ online[op[s].uid] = s /\ Rewrite(op[s].uid, NoCs)
     \/ UNCHANGED records
  /\ UNCHANGED <<at, left, up, channels, missed, kafka, it, faults>>

Write(u) ==
  /\ room[u] > 0
  /\ room' = [room EXCEPT ![u] = @ - 1]
  /\ UNCHANGED <<tables, records, up, put, dropped, missed, kafka, it, faults>>

\* The group gives the partitions P to s, which reads them from the committed offset.
Assign(P, s) ==
  /\ owner' = [p \in Part |-> IF p \in P THEN s ELSE owner[p]]
  /\ pos' = [p \in Part |-> IF p \in P THEN committed[p] ELSE pos[p]]

\* A server dies; the other members get its partitions.
ServerCrash(s) ==
  /\ Hit("crash", MaxCrash)
  /\ s \in up
  /\ up' = up \ {s}
  /\ at' = [u \in Uid |-> IF at[u] = s THEN NoCs ELSE at[u]]
  /\ left' = [u \in Uid |-> left[u] \ {s}]
  /\ op' = [op EXCEPT ![s] = NoOp]
  /\ room' = [u \in Uid |-> IF at[u] = s THEN 0 ELSE room[u]]
  /\ it' = [it EXCEPT ![s] = Idle]
  /\ \E c \in IF up = {s} THEN {NoCs} ELSE up \ {s} : Assign({p \in Part : owner[p] = s}, c)
  /\ UNCHANGED <<records, put, dropped, missed, committed>>

\* It comes back and gets some of the partitions, those without a member at least.
ServerStart(s) ==
  /\ s \notin up
  /\ up' = up \cup {s}
  /\ \E P \in SUBSET Part : {p \in Part : owner[p] = NoCs} \subseteq P /\ Assign(P, s)
  /\ UNCHANGED <<tables, records, channels, missed, committed, it, faults>>

GhostSweep(u) ==
  /\ online[u] \in Cs \ up
  /\ Rewrite(u, NoCs)
  /\ UNCHANGED <<tables, up, channels, missed, kafka, it, faults>>

-----------------------------------------------------------------------------
Consume(s) ==
  \/ Fetch(s) \/ Lookup(s) \/ LookupFails(s) \/ Local(s) \/ LocalDone(s) \/ Forward(s)
  \/ RelayAck(s) \/ CallFails(s) \/ CallDone(s)
  \/ LookupAgain(s) \/ RetryLocal(s) \/ RetryRelay(s) \/ RetryFails(s) \/ RetryDone(s)
  \/ CommitMessages(s) \/ CommitFails(s)

Environment ==
  \/ \E u \in Uid : Write(u) \/ GhostSweep(u)
  \/ \E u \in Uid, s \in Cs : EventRegister(u, s) \/ EventUnregister(u, s)
  \/ \E s \in Cs : WriteRecord(s) \/ ServerCrash(s) \/ ServerStart(s)

Next == (\E s \in Cs : Consume(s)) \/ Environment

Spec == Init /\ [][Next]_vars

\* Consumers go on, every call has a deadline; a dead server is started again.
Fairness == \A s \in Cs : WF_vars(Consume(s)) /\ WF_vars(ServerStart(s))

FairSpec == Spec /\ Fairness

-----------------------------------------------------------------------------
Offsets(p) == 0..Len(Log[p])

Answers == {"none", "delivered", "not_found", "send_full"}

Iteration == [pc : {"fetch", "lookup", "local", "remote", "call", "again", "retry", "ended"},
              hi : [Part -> Nat], todo : SUBSET AckId,
              remote : [Cs -> SUBSET AckId], to : Cs \cup {NoCs},
              res : [AckId -> Answers], retry : [Cs -> SUBSET AckId]]

\* The lists an iteration of s has at its place in the code, with every ack in one at most.
IterationOK(i, s) ==
  /\ \A p \in Part : i.hi[p] \in Offsets(p)
  /\ i.pc \in {"fetch", "ended"} => i.hi = Idle.hi
  /\ i.pc \notin {"lookup", "local", "again", "retry"} => i.todo = {}
  /\ i.pc \in {"fetch", "lookup", "ended"} => i.remote = Idle.remote
  /\ i.pc # "retry" => i.retry = Idle.retry
  /\ IF i.pc = "call" THEN i.to \in Cs \ {s} /\ \A a \in AckId \ i.remote[i.to] : i.res[a] = "none"
     ELSE i.to = NoCs /\ i.res = Idle.res
  /\ i.remote[s] = {} /\ i.retry[s] = {}
  /\ \A c, d \in Cs : /\ c # d => /\ i.remote[c] \cap i.remote[d] = {}
                                 /\ i.retry[c] \cap i.retry[d] = {}
                      /\ i.remote[c] \cap i.retry[d] = {}
                      /\ i.todo \cap (i.remote[c] \cup i.retry[c]) = {}

\* The variables hold what the code can put into them.
TypeOK ==
  /\ at \in [Uid -> up \cup {NoCs}] /\ left \in [Uid -> SUBSET up]
  /\ \A u \in Uid : at[u] \notin left[u]
  /\ op \in [Cs -> Ops \cup {NoOp}]
  /\ online \in [Uid -> Cs \cup {NoCs}] /\ changes \in [Uid -> Nat]
  /\ up \subseteq Cs /\ room \in [Uid -> 0..SendMax]
  /\ dropped \subseteq AckId /\ missed \subseteq AckId /\ put \in [Uid -> Seq(AckId)]
  /\ \A u \in Uid : \A a \in ToSet(put[u]) : From(a) = u
  /\ owner \in [Part -> Cs \cup {NoCs}]
  /\ pos \in [Part -> Nat] /\ committed \in [Part -> Nat]
  /\ \A p \in Part : pos[p] \in Offsets(p) /\ committed[p] \in Offsets(p)
  /\ it \in [Cs -> Iteration] /\ \A s \in Cs : IterationOK(it[s], s)
  /\ faults \in [move : Nat, call : Nat, look : Nat, crash : Nat]

(***************************************************************************)
(* What is committed was handled: its sender's channel took it, or was     *)
(* full, or he had left between lookup and delivery at this very server.   *)
(* A sender whose record changes between lookup and forward is found by    *)
(* the second lookup, whose call alone may fail without ending the         *)
(* consumer.  Failing calls, lookups and commits, crashes and rebalances   *)
(* lose nothing else: an ack that is gone met a sender without a record,   *)
(* or a record that pointed where he was not, between the halves of an     *)
(* event or after a failed second half; or his record has changed again,   *)
(* or has changed and a call has failed.                                   *)
(***************************************************************************)
Settled(u) == changes[u] = 0 \/ (changes[u] = 1 /\ faults.call = 0)

CommittedIsHandled ==
  \A p \in Part : \A i \in 1..committed[p] :
    Settled(Log[p][i]) => <<p, i>> \in dropped \cup ToSet(put[Log[p][i]]) \cup missed

(***************************************************************************)
(* A sender gets each ack once (ack.go: 每条 ACK 只被一个实例处理一次),    *)
(* through not_found and the second lookup, until a crash takes a batch    *)
(* that was forwarded and not committed to another member.                 *)
(***************************************************************************)
HandledOnce == faults.crash = 0 => \A u \in Uid : IsInjective(put[u])

(***************************************************************************)
(* What is queued for a sender are his own acks, in a channel that holds   *)
(* them, and each of them once.                                            *)
(***************************************************************************)
AcksComeOnce == TypeOK /\ HandledOnce

(***************************************************************************)
(* Every partition is committed to its end, or the member that has it runs  *)
(* and has lost its consumer.  In spite of crashes and rebalances there is *)
(* no other way for acks to stay where they are.                           *)
(***************************************************************************)
Stuck(p) == owner[p] \in up /\ it[owner[p]].pc = "ended"

ConsumedOrStuck == \A p \in Part : <>(committed[p] = Len(Log[p]) \/ Stuck(p))

(***************************************************************************)
(* Every ack is consumed.  It fails after a single call that fails.        *)
(***************************************************************************)
AcksGoOn == \A p \in Part : <>(committed[p] = Len(Log[p]))
=============================================================================
