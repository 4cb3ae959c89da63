-------------------------------- MODULE Group --------------------------------
(***************************************************************************)
(* A group: the management transactions of the gateway (database/group.go, *)
(* server/api/group.go) and the part of the persist worker that validates  *)
(* and fans out the messages of the group (worker/persist/persist.go).     *)
(*                                                                         *)
(* The transactions run at READ COMMITTED.  The owner's operations begin   *)
(* with SELECT ... FOR UPDATE on the row of the group; Quit locks only the *)
(* row of the member and meets the row of the group when it updates        *)
(* member_count, with a count it took before.  Every transaction takes the *)
(* number of its event last and commits right after, so the number and the *)
(* COMMIT are one step.                                                    *)
(*                                                                         *)
(* One group is modelled; its log is the stream of its stored messages,    *)
(* the index is the seq (module Persist shows how numbers are given).      *)
(***************************************************************************)
EXTENDS Naturals, Sequences, FiniteSets

CONSTANTS
  User,     \* users
  Owner,    \* the user who creates the group
  Req,      \* management requests in progress at a time
  Online,   \* users with an online record
  Limit,    \* GroupMaxMembers
  Ask,      \* management requests: [op, by, who]
  Text,     \* group messages: [by, mentions, all]
  MaxOps,   \* bound: management requests
  MaxText,  \* bound: group messages sent
  MaxFail   \* bound: requests and iterations that fail or crash

VARIABLES
  status,   \* groups.status, "none" before the group exists
  active,   \* members: rows of group_members with left_at NULL
  count,    \* groups.member_count
  conv,     \* rows of conversation_members
  log,      \* stored messages and events, by seq
  tx,       \* tx[r]: the transaction of request r
  topic,    \* chat.msg, the partition of the group
  done,     \* committed offset of topic
  wk,       \* the persist worker's iteration
  pushed,   \* pushes written: receiver and seq
  bounds    \* how often each bounded thing has happened

tables == <<status, active, count, conv, log>>
worker == <<done, wk, pushed>>
vars   == <<tables, tx, topic, worker, bounds>>

\* What only mutateAsOwner does: an edit is Rename, SetAnnouncement or SetPin.
OwnerOps == {"edit", "dismiss"}

Ops == {"create", "add", "kick", "quit"} \cup OwnerOps

(***************************************************************************)
(* What the API lets through: AddMembers and the kick name users, who are  *)
(* not the owner in a kick, which RemoveMember refuses before it begins a  *)
(* transaction; a user quits for himself, the creator becomes the owner.   *)
(***************************************************************************)
IsRequest(q) ==
  /\ q.op = "create" => q.by = Owner
  /\ q.op = "add" => q.who # {}
  /\ q.op = "kick" => \E u \in User \ {Owner} : q.who = {u}
  /\ q.op = "quit" => q.who = {q.by}
  /\ q.op \in OwnerOps => q.who = {}

ASSUME GroupAssumption ==
  /\ Owner \in User /\ Online \subseteq User
  /\ IsFiniteSet(User)
  /\ Ask \subseteq [op : Ops, by : User, who : SUBSET User]
  /\ \A q \in Ask : IsRequest(q)
  /\ Text \subseteq [by : User, mentions : SUBSET User, all : BOOLEAN]
  /\ {Limit, MaxOps, MaxText, MaxFail} \subseteq Nat

Entry  == [kind : Ops \cup {"text"}, by : User, who : SUBSET User, rec : Nat]
Record == [kind : {"event", "text"}, by : User, mentions : SUBSET User, all : BOOLEAN,
           seq : Nat, at : Nat]

NoTx   == [pc |-> "idle", op |-> "edit", by |-> Owner, who |-> {}, rows |-> {}, count |-> 0, seq |-> 0]
NoWork == [pc |-> "idle", to |-> {}, seq |-> 0]

Init ==
  /\ status = "none" /\ active = {} /\ count = 0 /\ conv = {} /\ log = <<>>
  /\ tx = [r \in Req |-> NoTx]
  /\ topic = <<>> /\ done = 0 /\ wk = NoWork /\ pushed = {}
  /\ bounds = [ops |-> 0, text |-> 0, fail |-> 0]

Tick(what, max) ==
  /\ bounds[what] < max
  /\ bounds' = [bounds EXCEPT ![what] = @ + 1]

-----------------------------------------------------------------------------
(* Management requests *)

(***************************************************************************)
(* Who holds the row lock of the group, or of member u.                    *)
(***************************************************************************)
HoldsGroup(r) == tx[r].pc \in {"change", "commit"}

HoldsRow(r, u) ==
  \/ tx[r].op = "quit" /\ tx[r].pc \in {"count", "wait", "commit"} /\ tx[r].by = u
  \/ tx[r].op = "kick" /\ tx[r].pc = "commit" /\ u \in tx[r].who

GroupFree  == \A r \in Req : ~HoldsGroup(r)
RowFree(u) == \A r \in Req : ~HoldsRow(r, u)

Step(r, pc) == tx' = [tx EXCEPT ![r].pc = pc]

(***************************************************************************)
(* CreateGroup: the members named in the request, among them perhaps the   *)
(* owner, who is then counted twice.  Nobody else knows the gid.           *)
(***************************************************************************)
Create(r, q) ==
  /\ q.op = "create"
  /\ tx[r].pc = "idle" /\ status = "none"
  /\ status' = "active"
  /\ active' = q.who \cup {Owner}
  /\ conv' = active'
  /\ count' = Cardinality(q.who) + 1
  /\ log' = Append(log, [kind |-> "create", by |-> Owner, who |-> active', rec |-> 0])
  /\ tx' = [tx EXCEPT ![r].pc = "emit", ![r].seq = 1]
  /\ UNCHANGED <<topic, worker, bounds>>

Begin(r, q) ==
  /\ Tick("ops", MaxOps)
  /\ q.op # "create"
  /\ tx[r].pc = "idle" /\ status # "none"
  /\ tx' = [tx EXCEPT ![r] = [pc |-> IF q.op = "quit" THEN "row" ELSE "group",
                              op |-> q.op, by |-> q.by, who |-> q.who,
                              rows |-> {}, count |-> 0, seq |-> 0]]
  /\ UNCHANGED <<tables, topic, worker>>

\* The transaction is rolled back; the client gets an error.
Rollback(r) ==
  /\ tx' = [tx EXCEPT ![r] = NoTx]
  /\ UNCHANGED <<tables, topic, worker>>

(***************************************************************************)
(* mutateAsOwner locks the row of the group, waiting for whoever has it.   *)
(***************************************************************************)
LockGroup(r) ==
  /\ tx[r].pc = "group" /\ GroupFree
  /\ status = "active" /\ tx[r].by = Owner
  /\ Step(r, IF tx[r].op \in {"add", "kick"} THEN "change" ELSE "commit")
  /\ UNCHANGED <<tables, topic, worker, bounds>>

NotAllowed(r) ==
  /\ tx[r].pc = "group" /\ GroupFree
  /\ status # "active" \/ tx[r].by # Owner
  /\ Rollback(r) /\ UNCHANGED bounds

\* Mutant of Fits: no action uses it.
FitsBefore(r) == Cardinality(active) <= Limit

(***************************************************************************)
(* AddMembers: users who are members already are skipped; the rest must    *)
(* fit below the limit and are inserted.                                   *)
(***************************************************************************)
Fits(r) == Cardinality(active \cup tx[r].who) <= Limit

AddRows(r) ==
  /\ tx[r].pc = "change" /\ tx[r].op = "add" /\ Fits(r)
  /\ tx' = [tx EXCEPT ![r].pc = "commit", ![r].rows = tx[r].who \ active,
                      ![r].count = Cardinality(active \cup tx[r].who)]
  /\ UNCHANGED <<tables, topic, worker, bounds>>

\* Mutant of GroupFull: no action uses it.
GroupFullLeftOpen(r) ==
  /\ tx[r].pc = "change" /\ tx[r].op = "add" /\ ~Fits(r)
  /\ UNCHANGED vars

GroupFull(r) ==
  /\ tx[r].pc = "change" /\ tx[r].op = "add" /\ ~Fits(r)
  /\ Rollback(r) /\ UNCHANGED bounds

(***************************************************************************)
(* RemoveMember: the UPDATE of the member's row waits for its lock.        *)
(***************************************************************************)
KickRow(r) ==
  /\ tx[r].pc = "change" /\ tx[r].op = "kick"
  /\ \A u \in tx[r].who : RowFree(u)
  /\ tx[r].who \subseteq active
  /\ tx' = [tx EXCEPT ![r].pc = "commit", ![r].rows = tx[r].who,
                      ![r].count = Cardinality(active \ tx[r].who)]
  /\ UNCHANGED <<tables, topic, worker, bounds>>

BadTarget(r) ==
  /\ tx[r].pc = "change" /\ tx[r].op = "kick"
  /\ \A u \in tx[r].who : RowFree(u)
  /\ ~(tx[r].who \subseteq active)
  /\ Rollback(r) /\ UNCHANGED bounds

(***************************************************************************)
(* Quit: SELECT ... FOR UPDATE OF m locks the member's row only and reads  *)
(* the status; the count of the later UPDATE of the group is of that       *)
(* statement's snapshot, which is taken before it gets the group's row.    *)
(***************************************************************************)
MayQuit(u) == u \in active /\ status = "active" /\ u # Owner

QuitRow(r) ==
  /\ tx[r].pc = "row" /\ RowFree(tx[r].by)
  /\ MayQuit(tx[r].by)
  /\ Step(r, "count")
  /\ UNCHANGED <<tables, topic, worker, bounds>>

QuitRefused(r) ==
  /\ tx[r].pc = "row" /\ RowFree(tx[r].by)
  /\ ~MayQuit(tx[r].by)
  /\ Rollback(r) /\ UNCHANGED bounds

QuitCount(r) ==
  /\ tx[r].pc = "count"
  /\ tx' = [tx EXCEPT ![r].pc = "wait", ![r].rows = {tx[r].by},
                      ![r].count = Cardinality(active \ {tx[r].by})]
  /\ UNCHANGED <<tables, topic, worker, bounds>>

\* Mutant of QuitLock: no action uses it.
QuitLockFree(r) ==
  /\ tx[r].pc = "wait"
  /\ Step(r, "commit")
  /\ UNCHANGED <<tables, topic, worker, bounds>>

QuitLock(r) ==
  /\ tx[r].pc = "wait" /\ GroupFree
  /\ Step(r, "commit")
  /\ UNCHANGED <<tables, topic, worker, bounds>>

(***************************************************************************)
(* insertSystemEvent and COMMIT: the change becomes visible together with  *)
(* its event.                                                              *)
(***************************************************************************)
Apply(r, set) ==
  IF tx[r].op = "add" THEN set \cup tx[r].rows ELSE set \ tx[r].rows

Commit(r) ==
  /\ tx[r].pc = "commit"
  /\ status' = IF tx[r].op = "dismiss" THEN "dismissed" ELSE status
  /\ active' = Apply(r, active)
  /\ conv' = Apply(r, conv)
  /\ count' = IF tx[r].op \in {"add", "kick", "quit"} THEN tx[r].count ELSE count
  /\ log' = Append(log, [kind |-> tx[r].op, by |-> tx[r].by, who |-> tx[r].who, rec |-> 0])
  /\ tx' = [tx EXCEPT ![r].pc = "emit", ![r].seq = Len(log')]
  /\ UNCHANGED <<topic, worker, bounds>>

(***************************************************************************)
(* A kick that holds the group and waits for the row of a member who quits *)
(* and waits for the group: PostgreSQL rolls one of the two back.          *)
(***************************************************************************)
Cycle(r, q) ==
  /\ tx[r].pc = "change" /\ tx[r].op = "kick"
  /\ tx[q].pc = "wait" /\ tx[q].by \in tx[r].who

Deadlock(r) ==
  /\ \E q \in Req : Cycle(r, q) \/ Cycle(q, r)
  /\ Rollback(r) /\ UNCHANGED bounds

(***************************************************************************)
(* emitGroupEvent: the event goes to chat.msg with the id of its row.      *)
(***************************************************************************)
Emit(r) ==
  /\ tx[r].pc = "emit"
  /\ topic' = Append(topic, [kind |-> "event", by |-> tx[r].by, mentions |-> {}, all |-> FALSE,
                             seq |-> tx[r].seq, at |-> Len(log)])
  /\ tx' = [tx EXCEPT ![r] = NoTx]
  /\ UNCHANGED <<tables, worker, bounds>>

(***************************************************************************)
(* The gateway dies or the database fails in a transaction; or the record  *)
(* of a committed event cannot be written, which is only logged.           *)
(***************************************************************************)
RequestFails(r) ==
  /\ Tick("fail", MaxFail)
  /\ tx[r].pc # "idle"
  /\ Rollback(r)

-----------------------------------------------------------------------------
(* Group messages *)

(***************************************************************************)
(* A chat server produces a group message of anybody: it looks neither at  *)
(* the group nor at its members.  at (history) is the log at that moment.  *)
(***************************************************************************)
Send(t) ==
  /\ Tick("text", MaxText)
  /\ status # "none"
  /\ topic' = Append(topic, [kind |-> "text", by |-> t.by, mentions |-> t.mentions,
                             all |-> t.all, seq |-> 0, at |-> Len(log)])
  /\ UNCHANGED <<tables, tx, worker>>

This == topic[done + 1]

HasNext(kind) == wk.pc = "idle" /\ done < Len(topic) /\ This.kind = kind

Skip ==
  /\ done' = done + 1 /\ wk' = NoWork
  /\ UNCHANGED <<tables, tx, topic, pushed, bounds>>

Work(pc) == wk' = [wk EXCEPT !.pc = pc]

\* Mutant of ReadGroup: no action uses it.
ReadGroupAny ==
  /\ HasNext("text")
  /\ Work("members")
  /\ UNCHANGED <<tables, tx, topic, done, pushed, bounds>>

(***************************************************************************)
(* validateGroupMsg: first the status, by itself.                          *)
(***************************************************************************)
ReadGroup ==
  /\ HasNext("text") /\ status = "active"
  /\ Work("members")
  /\ UNCHANGED <<tables, tx, topic, done, pushed, bounds>>

Dismissed == HasNext("text") /\ status # "active" /\ Skip

(***************************************************************************)
(* Then the members, who decide about the sender and the mentions and are  *)
(* the receivers.                                                          *)
(***************************************************************************)
Valid(m, members) ==
  /\ {m.by} \cup m.mentions \subseteq members
  /\ m.all => m.by = Owner

ReadMembers ==
  /\ wk.pc = "members" /\ Valid(This, active)
  /\ wk' = [wk EXCEPT !.pc = "store", !.to = active]
  /\ UNCHANGED <<tables, tx, topic, done, pushed, bounds>>

Poison == wk.pc = "members" /\ ~Valid(This, active) /\ Skip

\* Mutant of ReadReceivers: no action uses it.
ReadReceiversEver ==
  /\ HasNext("event")
  /\ wk' = [wk EXCEPT !.pc = "store", !.to = {u \in User : \E n \in DOMAIN log : u \in log[n].who}]
  /\ UNCHANGED <<tables, tx, topic, done, pushed, bounds>>

\* Mutant of ReadReceivers: no action uses it.
ReadReceiversAlive ==
  /\ HasNext("event") /\ status = "active"
  /\ wk' = [wk EXCEPT !.pc = "store", !.to = active]
  /\ UNCHANGED <<tables, tx, topic, done, pushed, bounds>>

(***************************************************************************)
(* An event was authorised by its transaction: only its receivers are      *)
(* read, whatever the status is by now.                                    *)
(***************************************************************************)
ReadReceivers ==
  /\ HasNext("event")
  /\ wk' = [wk EXCEPT !.pc = "store", !.to = active]
  /\ UNCHANGED <<tables, tx, topic, done, pushed, bounds>>

(***************************************************************************)
(* persistTx: a message that has its row, and so every event, is taken as  *)
(* it is.                                                                  *)
(***************************************************************************)
RowOf(o) ==
  IF topic[o].kind = "event" THEN {topic[o].seq}
  ELSE {n \in DOMAIN log : log[n].kind = "text" /\ log[n].rec = o}

StoreNew ==
  /\ wk.pc = "store" /\ RowOf(done + 1) = {}
  /\ log' = Append(log, [kind |-> "text", by |-> This.by, who |-> This.mentions, rec |-> done + 1])
  /\ wk' = [wk EXCEPT !.pc = "push", !.seq = Len(log')]
  /\ UNCHANGED <<status, active, count, conv, tx, topic, done, pushed, bounds>>

Stored ==
  /\ wk.pc = "store"
  /\ \E n \in RowOf(done + 1) : wk' = [wk EXCEPT !.pc = "push", !.seq = n]
  /\ UNCHANGED <<tables, tx, topic, done, pushed, bounds>>

\* The online records of the receivers are read, now.
OnlineMembers(us) == us \cap Online

PushToOnline ==
  /\ wk.pc = "push"
  /\ pushed' = pushed \cup {<<u, wk.seq>> : u \in OnlineMembers(wk.to)}
  /\ Work("offset")
  /\ UNCHANGED <<tables, tx, topic, done, bounds>>

CommitOffset == wk.pc = "offset" /\ Skip

(***************************************************************************)
(* The worker stops anywhere and begins again at the committed offset.     *)
(***************************************************************************)
WorkerFails ==
  /\ Tick("fail", MaxFail)
  /\ wk.pc # "idle"
  /\ wk' = NoWork
  /\ UNCHANGED <<tables, tx, topic, done, pushed>>

-----------------------------------------------------------------------------
Transaction(r) ==
  \/ LockGroup(r) \/ NotAllowed(r)
  \/ AddRows(r) \/ GroupFull(r)
  \/ KickRow(r) \/ BadTarget(r)
  \/ QuitRow(r) \/ QuitRefused(r) \/ QuitCount(r) \/ QuitLock(r)
  \/ Commit(r) \/ Deadlock(r) \/ Emit(r)

Handle ==
  \/ ReadGroup \/ Dismissed \/ ReadMembers \/ Poison \/ ReadReceivers
  \/ StoreNew \/ Stored \/ PushToOnline \/ CommitOffset

Next ==
  \/ \E r \in Req :
       \/ \E q \in Ask : Create(r, q) \/ Begin(r, q)
       \/ Transaction(r) \/ RequestFails(r)
  \/ \E t \in Text : Send(t)
  \/ Handle \/ WorkerFails

Spec == Init /\ [][Next]_vars

(***************************************************************************)
(* A request and the worker go on when they can.  As requests are finitely *)
(* many, a row that one of them waits for is free from some time on.       *)
(***************************************************************************)
Fairness == WF_vars(Handle) /\ \A r \in Req : WF_vars(Transaction(r))

FairSpec == Spec /\ Fairness

-----------------------------------------------------------------------------
(* Correctness *)

TypeOK ==
  /\ status \in {"none", "active", "dismissed"}
  /\ active \subseteq User /\ conv \subseteq User
  /\ count \in Nat
  /\ log \in Seq(Entry)
  /\ tx \in [Req -> [pc : {"idle", "group", "change", "row", "count", "wait", "commit", "emit"},
                     op : Ops, by : User, who : SUBSET User, rows : SUBSET User, count : Nat, seq : Nat]]
  /\ topic \in Seq(Record)
  /\ done \in 0 .. Len(topic)
  /\ wk \in [pc : {"idle", "members", "store", "push", "offset"}, to : SUBSET User, seq : Nat]
  /\ pushed \subseteq User \X Nat
  /\ bounds \in [{"ops", "text", "fail"} -> Nat]

Joined(n) == IF log[n].kind \in {"create", "add"} THEN log[n].who ELSE {}
Left(n)   == IF log[n].kind \in {"kick", "quit"} THEN log[n].who ELSE {}

\* The members after the first n entries of the log.
MembersAfter(n) ==
  {u \in User : \E j \in 1 .. n : u \in Joined(j) /\ \A k \in j + 1 .. n : u \notin Left(k)}

AliveAfter(n) == n > 0 /\ \A k \in 1 .. n : log[k].kind # "dismiss"

(***************************************************************************)
(* The events of the group, read in the order of their seq, tell who its   *)
(* members are and whether it lives: however requests overlap, no event is *)
(* numbered against the order of the changes (D09, events are messages of  *)
(* the same stream).                                                       *)
(***************************************************************************)
EventsTellMembers ==
  /\ active = MembersAfter(Len(log))
  /\ status = "active" <=> AliveAfter(Len(log))

(***************************************************************************)
(* Both tables of members agree: who may read the conversation is who is   *)
(* in the group.                                                           *)
(***************************************************************************)
ReadersAreMembers == conv = active

(***************************************************************************)
(* Three records of who is a member, the rows of the group, the readers of *)
(* its conversation and the events in its history, say the same, although  *)
(* managers, members who quit and PostgreSQL's deadlocks run together.     *)
(***************************************************************************)
MembershipAgrees == TypeOK /\ EventsTellMembers /\ ReadersAreMembers

(***************************************************************************)
(* Nobody joins beyond the limit once the group exists, by however many    *)
(* requests at once.                                                       *)
(***************************************************************************)
LimitHolds ==
  [][status # "none" /\ ~(active' \subseteq active) => Cardinality(active') <= Limit]_vars

(***************************************************************************)
(* A stored group message was allowed at one moment between its production *)
(* and its storage: at that moment the group lived, its sender and all it  *)
(* mentions were members, and only the owner mentions everybody; although  *)
(* the worker reads status and members apart and stores later.             *)
(***************************************************************************)
StoredWasAllowed ==
  \A n \in DOMAIN log : log[n].kind = "text" =>
    LET m == topic[log[n].rec]
    IN  \E k \in m.at .. n - 1 :
          /\ AliveAfter(k)
          /\ {m.by} \cup m.mentions \subseteq MembersAfter(k)
          /\ m.all => m.by = Owner

(***************************************************************************)
(* Nobody gets a push of a message that was sent after he left and before  *)
(* he joined again.                                                        *)
(***************************************************************************)
SentAt(n) == IF log[n].kind = "text" THEN topic[log[n].rec].at ELSE n

LeaversAreSpared ==
  \A p \in pushed : \E k \in SentAt(p[2]) .. Len(log) : p[1] \in MembersAfter(k)

(***************************************************************************)
(* The event of the end of the group reaches the members that are online,  *)
(* although the group is no longer active when it is handled.              *)
(***************************************************************************)
EndIsTold ==
  \A u \in Online :
    []<>((\E o \in DOMAIN topic :
            topic[o].kind = "event" /\ log[topic[o].seq].kind = "dismiss")
         => u \notin active \/ \E p \in pushed : p[1] = u /\ log[p[2]].kind = "dismiss")

(***************************************************************************)
(* Every request ends, those that lock each other out included.            *)
(***************************************************************************)
RequestsEnd == \A r \in Req : []<>(tx[r].pc = "idle")

(***************************************************************************)
(* The event of the dismissal is the last message (group.go:420).          *)
(***************************************************************************)
DismissIsLast == \A n \in DOMAIN log : log[n].kind = "dismiss" => n = Len(log)

(***************************************************************************)
(* While no request is in progress member_count is the number of members   *)
(* (T13-group-model.md: concurrent management is naturally serialised).    *)
(***************************************************************************)
CountIsRight ==
  (\A r \in Req : tx[r].pc \in {"idle", "emit"}) => count = Cardinality(active)

(***************************************************************************)
(* A stored message whose record is committed was pushed to the members    *)
(* that are online and have not left.                                      *)
(***************************************************************************)
StoredIsPushed ==
  \A n \in DOMAIN log : log[n].kind = "text" /\ log[n].rec <= done =>
    \A u \in Online : (\A k \in log[n].rec .. n : u \in MembersAfter(k)) /\ u \in active
                      => \E p \in pushed : p = <<u, n>>
=============================================================================
