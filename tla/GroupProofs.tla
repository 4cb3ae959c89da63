------------------------------ MODULE GroupProofs ------------------------------
(***************************************************************************)
(* Proofs about Group, for every number of users and requests in progress, *)
(* every limit, every set of requests and texts, and every bound.          *)
(***************************************************************************)
EXTENDS Group, FiniteSetTheorems, TLAPS

(***************************************************************************)
(* The inductive invariant.                                                *)
(***************************************************************************)

(***************************************************************************)
(* What a request in progress has done and found: a request that commits   *)
(* has planned its rows from the members that are there now, and what the  *)
(* owner changes is changed in a group that lives.                         *)
(***************************************************************************)
Planned(r) ==
  /\ tx[r].op = "add" => /\ tx[r].rows = tx[r].who \ active
                         /\ Cardinality(active \cup tx[r].who) <= Limit
  /\ tx[r].op \in {"kick", "quit"} => tx[r].rows = tx[r].who
  /\ tx[r].op \in OwnerOps => tx[r].rows = {}

RequestOK(r) ==
  /\ tx[r].pc # "idle" => status # "none"
  /\ tx[r].pc = "group" => tx[r].op \in {"add", "kick"} \cup OwnerOps /\ tx[r].rows = {}
  /\ tx[r].pc = "change" => tx[r].op \in {"add", "kick"}
  /\ tx[r].pc \in {"row", "count", "wait"} => tx[r].op = "quit" /\ tx[r].who = {tx[r].by}
  /\ tx[r].pc = "wait" => tx[r].rows = tx[r].who
  /\ tx[r].pc = "commit" => tx[r].op # "create" /\ Planned(r)
  /\ HoldsGroup(r) /\ tx[r].op # "quit" => status = "active"
  /\ tx[r].pc = "emit" => tx[r].seq \in DOMAIN log /\ log[tx[r].seq].kind # "text"

\* At most one request has the row of the group.
LockIsExclusive == \A r, q \in Req : HoldsGroup(r) /\ HoldsGroup(q) => r = q

(***************************************************************************)
(* The history begins with the creation; nobody joins after the dismissal, *)
(* and there is one dismissal at most.                                     *)
(***************************************************************************)
HistoryOK ==
  /\ status = "none" <=> log = <<>>
  /\ \A n \in DOMAIN log : log[n].kind = "create" <=> n = 1
  /\ \A d, n \in DOMAIN log :
       log[d].kind = "dismiss" /\ d < n => log[n].kind \notin {"add", "dismiss"}
  /\ \A n \in DOMAIN log : log[n].kind = "text" => log[n].rec \in DOMAIN topic

\* A record was written after the history it names, and an event has its row.
TopicOK ==
  /\ topic # <<>> => status # "none"
  /\ \A i \in DOMAIN topic :
       /\ topic[i].at <= Len(log)
       /\ topic[i].kind = "event" =>
            topic[i].seq \in DOMAIN log /\ log[topic[i].seq].kind # "text"

(***************************************************************************)
(* What the worker has found holds of a moment after its record was sent:  *)
(* the group lived, the message was allowed, each receiver was a member.   *)
(***************************************************************************)
Allowed(m, k) ==
  /\ AliveAfter(k)
  /\ {m.by} \cup m.mentions \subseteq MembersAfter(k)
  /\ m.all => m.by = Owner

Since == IF This.kind = "text" THEN This.at ELSE This.seq

WorkerOK ==
  /\ wk.pc # "idle" => done < Len(topic)
  /\ wk.pc = "members" => This.kind = "text" /\ \E k \in This.at .. Len(log) : AliveAfter(k)
  /\ wk.pc = "store" =>
       /\ This.kind = "text" => \E k \in This.at .. Len(log) : Allowed(This, k)
       /\ \A u \in wk.to : \E k \in Since .. Len(log) : u \in MembersAfter(k)
  /\ wk.pc = "push" =>
       /\ wk.seq \in DOMAIN log
       /\ \A u \in wk.to : \E k \in SentAt(wk.seq) .. Len(log) : u \in MembersAfter(k)

PushedOK == \A p \in pushed : p[2] \in DOMAIN log

GroupInv ==
  /\ MembershipAgrees
  /\ \A r \in Req : RequestOK(r)
  /\ LockIsExclusive
  /\ HistoryOK
  /\ TopicOK
  /\ WorkerOK
  /\ PushedOK
  /\ StoredWasAllowed
  /\ LeaversAreSpared
-----------------------------------------------------------------------------
\* Facts about the operators.

LEMMA CardinalityType == ASSUME GroupAssumption, NEW S \in SUBSET User PROVE Cardinality(S) \in Nat
  BY FS_Subset, FS_CardinalityType DEF GroupAssumption

\* The type of tx[r].
Transactions ==
  [pc : {"idle", "group", "change", "row", "count", "wait", "commit", "emit"},
   op : Ops, by : User, who : SUBSET User, rows : SUBSET User, count : Nat, seq : Nat]

LEMMA NoTxType == ASSUME GroupAssumption PROVE NoTx \in Transactions
  BY DEF NoTx, Transactions, Ops, OwnerOps, GroupAssumption

(***************************************************************************)
(* The members and the life of the group, of a history h.                  *)
(***************************************************************************)
JoinedBy(e) == IF e.kind \in {"create", "add"} THEN e.who ELSE {}
LeftBy(e)   == IF e.kind \in {"kick", "quit"} THEN e.who ELSE {}

MembersIn(h, n) ==
  {u \in User : \E j \in 1 .. n : u \in JoinedBy(h[j]) /\ \A k \in j + 1 .. n : u \notin LeftBy(h[k])}

AliveIn(h, n) == n > 0 /\ \A k \in 1 .. n : h[k].kind # "dismiss"

LEMMA AfterIsIn ==
  /\ \A n : MembersAfter(n) = MembersIn(log, n)
  /\ \A n : AliveAfter(n) <=> AliveIn(log, n)
  /\ \A n : MembersAfter(n)' = MembersIn(log', n)
  /\ \A n : AliveAfter(n)' <=> AliveIn(log', n)
  BY DEF MembersAfter, Joined, Left, AliveAfter, MembersIn, AliveIn, JoinedBy, LeftBy

(***************************************************************************)
(* A new entry leaves the past as it was and adds one step to it.          *)
(***************************************************************************)
LEMMA PastStays ==
  ASSUME NEW h \in Seq(Entry), NEW e \in Entry, NEW n \in 0 .. Len(h)
  PROVE  /\ MembersIn(Append(h, e), n) = MembersIn(h, n)
         /\ AliveIn(Append(h, e), n) <=> AliveIn(h, n)
<1> DEFINE g == Append(h, e)
<1>1. \A k \in 1 .. n : g[k] = h[k]
  OBVIOUS
<1> HIDE DEF g
<1>2. AliveIn(g, n) <=> AliveIn(h, n)
  BY <1>1 DEF AliveIn
<1>3. \A j \in 1 .. n : \A k \in j + 1 .. n : k \in 1 .. n
  OBVIOUS
<1>4. MembersIn(g, n) = MembersIn(h, n)
  BY Zenon, <1>1, <1>3 DEF MembersIn
<1> QED
  BY <1>2, <1>4 DEF g

LEMMA EntryAdded ==
  ASSUME NEW h \in Seq(Entry), NEW e \in Entry, NEW n \in Nat, n = Len(h)
  PROVE  /\ MembersIn(Append(h, e), n + 1) = (MembersIn(h, n) \ LeftBy(e)) \cup JoinedBy(e)
         /\ AliveIn(Append(h, e), n + 1) <=> (n > 0 => AliveIn(h, n)) /\ e.kind # "dismiss"
<1> DEFINE g == Append(h, e)
<1>1. \A k \in 1 .. n : g[k] = h[k]
  OBVIOUS
<1>2. g[n + 1] = e
  OBVIOUS
<1> HIDE DEF g
<1>3. \A k \in 1 .. n + 1 : k = n + 1 \/ k \in 1 .. n
  OBVIOUS
<1>4. AliveIn(g, n + 1) <=> (n > 0 => AliveIn(h, n)) /\ e.kind # "dismiss"
  BY <1>1, <1>2, <1>3 DEF AliveIn
<1>5. JoinedBy(e) \subseteq User /\ (JoinedBy(e) = {} \/ LeftBy(e) = {})
  BY DEF JoinedBy, LeftBy, Entry
<1>6. ASSUME NEW u \in JoinedBy(e) PROVE u \in MembersIn(g, n + 1)
  <2>1. n + 1 \in 1 .. n + 1 /\ \A k \in (n + 1) + 1 .. n + 1 : FALSE
    OBVIOUS
  <2> QED
    BY <1>2, <1>5, <1>6, <2>1 DEF MembersIn
<1>7. ASSUME NEW u \in MembersIn(h, n), u \notin LeftBy(e) PROVE u \in MembersIn(g, n + 1)
  <2>1. PICK j \in 1 .. n : u \in JoinedBy(h[j]) /\ \A k \in j + 1 .. n : u \notin LeftBy(h[k])
    BY DEF MembersIn
  <2>2. j \in 1 .. n + 1 /\ u \in JoinedBy(g[j])
    BY <1>1, <2>1
  <2>3. ASSUME NEW k \in j + 1 .. n + 1 PROVE u \notin LeftBy(g[k])
    BY <1>1, <1>2, <1>3, <1>7, <2>1
  <2> QED
    BY <2>2, <2>3 DEF MembersIn
<1>8. ASSUME NEW u \in MembersIn(g, n + 1), u \notin JoinedBy(e)
      PROVE  u \in MembersIn(h, n) /\ u \notin LeftBy(e)
  <2>1. PICK j \in 1 .. n + 1 : u \in JoinedBy(g[j]) /\ \A k \in j + 1 .. n + 1 : u \notin LeftBy(g[k])
    BY DEF MembersIn
  <2>2. j \in 1 .. n /\ n + 1 \in j + 1 .. n + 1
    BY <1>2, <1>3, <1>8, <2>1
  <2>3. ASSUME NEW k \in j + 1 .. n PROVE u \notin LeftBy(h[k])
    <3>1. k \in j + 1 .. n + 1 /\ k \in 1 .. n
      BY <2>2
    <3> QED
      BY <1>1, <2>1, <3>1
  <2>4. u \in JoinedBy(h[j]) /\ u \in User
    BY <1>1, <2>1, <2>2 DEF MembersIn
  <2> QED
    BY <1>2, <2>1, <2>2, <2>3, <2>4 DEF MembersIn
<1>9. MembersIn(g, n + 1) = (MembersIn(h, n) \ LeftBy(e)) \cup JoinedBy(e)
  <2>1. ASSUME NEW u \in JoinedBy(e) PROVE u \notin LeftBy(e)
    BY <1>5
  <2> QED
    BY <1>6, <1>7, <1>8, <2>1
<1> QED
  BY <1>4, <1>9 DEF g

-----------------------------------------------------------------------------
(* Steps of a request before it commits, and rollbacks *)

LEMMA TickType ==
  ASSUME GroupInv, NEW what \in {"ops", "text", "fail"}, NEW max, Tick(what, max)
  PROVE  bounds' \in [{"ops", "text", "fail"} -> Nat]
  BY DEF GroupInv, MembershipAgrees, TypeOK, Tick

(***************************************************************************)
(* A step that changes the transaction of one request only.                *)
(***************************************************************************)
LEMMA RequestStep ==
  ASSUME GroupInv, NEW r \in Req, NEW x \in Transactions,
         tx' = [tx EXCEPT ![r] = x],
         UNCHANGED <<tables, topic, worker>>,
         bounds' \in [{"ops", "text", "fail"} -> Nat],
         RequestOK(r)',
         HoldsGroup(r)' => HoldsGroup(r) \/ GroupFree
  PROVE  GroupInv'
<1>0. /\ status' = status /\ active' = active /\ log' = log /\ conv' = conv /\ count' = count
      /\ topic' = topic /\ done' = done /\ wk' = wk /\ pushed' = pushed
  BY DEF tables, worker
<1>1. tx \in [Req -> Transactions]
  BY Zenon DEF GroupInv, MembershipAgrees, TypeOK, Transactions
<1>2. tx'[r] = x /\ \A q \in Req \ {r} : tx'[q] = tx[q]
  BY <1>1
<1>3. TypeOK'
  <2>1. tx' \in [Req -> Transactions]
    BY <1>1
  <2> QED
    BY Zenon, <2>1 DEF GroupInv, MembershipAgrees, TypeOK, Transactions, tables, worker
<1>4. MembershipAgrees'
  BY <1>3 DEF GroupInv, MembershipAgrees, EventsTellMembers, ReadersAreMembers, MembersAfter, AliveAfter,
    Joined, Left, tables
<1>5. \A q \in Req : RequestOK(q)'
  <2>1. ASSUME NEW q \in Req \ {r} PROVE RequestOK(q)'
    <3>1. RequestOK(q) /\ tx'[q] = tx[q]
      BY <1>2 DEF GroupInv
    <3> QED
      BY <3>1 DEF RequestOK, Planned, HoldsGroup, tables
  <2> QED
    BY <2>1
<1>6. LockIsExclusive'
  BY <1>2 DEF GroupInv, LockIsExclusive, HoldsGroup, GroupFree
<1>7. HistoryOK' /\ TopicOK'
  BY DEF GroupInv, HistoryOK, TopicOK, tables
<1>8. WorkerOK' /\ PushedOK'
  <2>1. WorkerOK /\ PushedOK
    BY DEF GroupInv
  <2> QED
    BY <1>0, <2>1, AfterIsIn DEF WorkerOK, PushedOK, Allowed, Since, This, SentAt
<1>9. StoredWasAllowed' /\ LeaversAreSpared'
  <2>1. StoredWasAllowed /\ LeaversAreSpared
    BY DEF GroupInv
  <2> QED
    BY Zenon, <1>0, <2>1, AfterIsIn DEF StoredWasAllowed, LeaversAreSpared, SentAt
<1> QED
  BY <1>4, <1>5, <1>6, <1>7, <1>8, <1>9 DEF GroupInv

LEMMA RollbackKeeps ==
  ASSUME GroupAssumption, GroupInv, NEW r \in Req, Rollback(r),
         bounds' \in [{"ops", "text", "fail"} -> Nat]
  PROVE  GroupInv'
<1>1. tx \in [Req -> Transactions]
  BY Zenon DEF GroupInv, MembershipAgrees, TypeOK, Transactions
<1>2. tx'[r] = NoTx
  BY <1>1 DEF Rollback
<1>3. RequestOK(r)' /\ ~HoldsGroup(r)'
  BY <1>2 DEF NoTx, RequestOK, HoldsGroup
<1> QED
  BY Zenon, <1>3, NoTxType, RequestStep DEF Rollback

LEMMA BeginKeeps ==
  ASSUME GroupAssumption, GroupInv, NEW r \in Req, NEW q \in Ask, Begin(r, q)
  PROVE  GroupInv'
<1> DEFINE x == [pc |-> IF q.op = "quit" THEN "row" ELSE "group",
                 op |-> q.op, by |-> q.by, who |-> q.who, rows |-> {}, count |-> 0, seq |-> 0]
<1>1. tx \in [Req -> Transactions]
  BY Zenon DEF GroupInv, MembershipAgrees, TypeOK, Transactions
<1>2. q \in [op : Ops, by : User, who : SUBSET User] /\ IsRequest(q)
  BY DEF GroupAssumption
<1>3. x \in Transactions
  BY <1>2 DEF Transactions
<1>4. tx' = [tx EXCEPT ![r] = x] /\ tx'[r] = x
  BY <1>1 DEF Begin
<1>5. RequestOK(r)' /\ ~HoldsGroup(r)'
  BY <1>2, <1>4 DEF Begin, RequestOK, HoldsGroup, IsRequest, Ops, OwnerOps, tables
<1>6. bounds' \in [{"ops", "text", "fail"} -> Nat]
  BY TickType DEF Begin
<1> QED
  BY Zenon, <1>3, <1>4, <1>5, <1>6, RequestStep DEF Begin

(***************************************************************************)
(* The steps up to the one that plans the rows and the one that locks.     *)
(***************************************************************************)
Prepare(r) ==
  LockGroup(r) \/ AddRows(r) \/ KickRow(r) \/ QuitRow(r) \/ QuitCount(r) \/ QuitLock(r)

LEMMA PrepareKeeps ==
  ASSUME GroupAssumption, GroupInv, NEW r \in Req, Prepare(r)
  PROVE  GroupInv'
<1>1. /\ tx \in [Req -> Transactions] /\ tx[r] \in Transactions
      /\ bounds \in [{"ops", "text", "fail"} -> Nat]
      /\ active \subseteq User
  BY Zenon DEF GroupInv, MembershipAgrees, TypeOK, Transactions
<1>2. RequestOK(r)
  BY DEF GroupInv
<1>3. CASE LockGroup(r)
  <2> DEFINE x == [tx[r] EXCEPT !.pc = IF tx[r].op \in {"add", "kick"} THEN "change" ELSE "commit"]
  <2>1. tx' = [tx EXCEPT ![r] = x] /\ tx'[r] = x /\ x \in Transactions
    BY <1>1, <1>3 DEF LockGroup, Step, Transactions
  <2>2. RequestOK(r)' /\ GroupFree
    BY <1>2, <1>3, <2>1 DEF LockGroup, RequestOK, Planned, HoldsGroup, OwnerOps, tables, Transactions
  <2> QED
    BY Zenon, <1>1, <1>3, <2>1, <2>2, RequestStep DEF LockGroup
<1>4. CASE AddRows(r)
  <2> DEFINE x == [tx[r] EXCEPT !.pc = "commit", !.rows = tx[r].who \ active,
                                !.count = Cardinality(active \cup tx[r].who)]
  <2>1. Cardinality(active \cup tx[r].who) \in Nat
    BY <1>1, CardinalityType DEF Transactions
  <2>2. tx' = [tx EXCEPT ![r] = x] /\ tx'[r] = x /\ x \in Transactions
    BY Zenon, <1>1, <1>4, <2>1 DEF AddRows, Transactions
  <2>3. RequestOK(r)' /\ HoldsGroup(r)
    BY <1>1, <1>2, <1>4, <2>2 DEF AddRows, Fits, RequestOK, Planned, HoldsGroup, OwnerOps, tables, Transactions
  <2> QED
    BY Zenon, <1>1, <1>4, <2>2, <2>3, RequestStep DEF AddRows
<1>5. CASE KickRow(r)
  <2> DEFINE x == [tx[r] EXCEPT !.pc = "commit", !.rows = tx[r].who,
                                !.count = Cardinality(active \ tx[r].who)]
  <2>1. Cardinality(active \ tx[r].who) \in Nat
    BY <1>1, CardinalityType
  <2>2. tx' = [tx EXCEPT ![r] = x] /\ tx'[r] = x /\ x \in Transactions
    BY Zenon, <1>1, <1>5, <2>1 DEF KickRow, Transactions
  <2>3. RequestOK(r)' /\ HoldsGroup(r)
    BY <1>1, <1>2, <1>5, <2>2 DEF KickRow, RequestOK, Planned, HoldsGroup, OwnerOps, tables, Transactions
  <2> QED
    BY Zenon, <1>1, <1>5, <2>2, <2>3, RequestStep DEF KickRow
<1>6. CASE QuitRow(r)
  <2> DEFINE x == [tx[r] EXCEPT !.pc = "count"]
  <2>1. tx' = [tx EXCEPT ![r] = x] /\ tx'[r] = x /\ x \in Transactions
    BY <1>1, <1>6 DEF QuitRow, Step, Transactions
  <2>2. RequestOK(r)' /\ ~HoldsGroup(r)'
    BY <1>2, <1>6, <2>1 DEF QuitRow, RequestOK, HoldsGroup, tables, Transactions
  <2> QED
    BY Zenon, <1>1, <1>6, <2>1, <2>2, RequestStep DEF QuitRow
<1>7. CASE QuitCount(r)
  <2> DEFINE x == [tx[r] EXCEPT !.pc = "wait", !.rows = {tx[r].by},
                                !.count = Cardinality(active \ {tx[r].by})]
  <2>1. Cardinality(active \ {tx[r].by}) \in Nat
    BY <1>1, CardinalityType
  <2>2. tx' = [tx EXCEPT ![r] = x] /\ tx'[r] = x /\ x \in Transactions
    BY Zenon, <1>1, <1>7, <2>1 DEF QuitCount, Transactions
  <2>3. RequestOK(r)' /\ ~HoldsGroup(r)'
    BY <1>1, <1>2, <1>7, <2>2 DEF QuitCount, RequestOK, HoldsGroup, tables, Transactions
  <2> QED
    BY Zenon, <1>1, <1>7, <2>2, <2>3, RequestStep DEF QuitCount
<1>8. CASE QuitLock(r)
  <2> DEFINE x == [tx[r] EXCEPT !.pc = "commit"]
  <2>1. tx' = [tx EXCEPT ![r] = x] /\ tx'[r] = x /\ x \in Transactions
    BY <1>1, <1>8 DEF QuitLock, Step, Transactions
  <2>2. RequestOK(r)' /\ GroupFree
    BY <1>1, <1>2, <1>8, <2>1 DEF QuitLock, RequestOK, Planned, HoldsGroup, OwnerOps, tables, Transactions
  <2> QED
    BY Zenon, <1>1, <1>8, <2>1, <2>2, RequestStep DEF QuitLock
<1> QED
  BY <1>3, <1>4, <1>5, <1>6, <1>7, <1>8 DEF Prepare

-----------------------------------------------------------------------------
(* Steps that write an entry of the history *)

LEMMA Grown ==
  ASSUME log \in Seq(Entry), NEW e \in Entry, log' = Append(log, e)
  PROVE  /\ log' \in Seq(Entry)
         /\ Len(log) \in Nat /\ Len(log') = Len(log) + 1
         /\ DOMAIN log = 1 .. Len(log) /\ DOMAIN log' = 1 .. Len(log) + 1
         /\ \A n \in DOMAIN log : log'[n] = log[n]
         /\ log'[Len(log')] = e
         /\ \A n \in 0 .. Len(log) : MembersIn(log', n) = MembersIn(log, n)
         /\ \A n \in 0 .. Len(log) : AliveIn(log', n) <=> AliveIn(log, n)
         /\ MembersIn(log', Len(log')) = (MembersIn(log, Len(log)) \ LeftBy(e)) \cup JoinedBy(e)
         /\ AliveIn(log', Len(log')) <=> (log # <<>> => AliveIn(log, Len(log))) /\ e.kind # "dismiss"
<1>1. PICK n \in Nat : n = Len(log)
  OBVIOUS
<1>2. n > 0 <=> log # <<>>
  BY <1>1
<1>3. \A k \in 0 .. Len(log) :
        MembersIn(log', k) = MembersIn(log, k) /\ (AliveIn(log', k) <=> AliveIn(log, k))
  BY PastStays
<1>4. Len(log') = n + 1
  BY <1>1
<1>5. /\ MembersIn(log', n + 1) = (MembersIn(log, n) \ LeftBy(e)) \cup JoinedBy(e)
      /\ AliveIn(log', n + 1) <=> (n > 0 => AliveIn(log, n)) /\ e.kind # "dismiss"
  BY <1>1, EntryAdded
<1>6. /\ log' \in Seq(Entry)
      /\ Len(log) \in Nat /\ Len(log') = Len(log) + 1
      /\ DOMAIN log = 1 .. Len(log) /\ DOMAIN log' = 1 .. Len(log) + 1
      /\ \A k \in DOMAIN log : log'[k] = log[k]
      /\ log'[Len(log')] = e
  OBVIOUS
<1> QED
  BY <1>1, <1>2, <1>3, <1>4, <1>5, <1>6

(***************************************************************************)
(* What was found of the past is still true of it.                         *)
(***************************************************************************)
LEMMA GrownKeeps ==
  ASSUME GroupInv, NEW e \in Entry, log' = Append(log, e), topic' = topic
  PROVE  /\ \A i \in DOMAIN topic :
              /\ topic[i].at <= Len(log')
              /\ topic[i].kind = "event" =>
                   topic[i].seq \in DOMAIN log' /\ log'[topic[i].seq].kind # "text"
         /\ \A n \in DOMAIN log : SentAt(n)' = SentAt(n)
         /\ UNCHANGED <<done, wk>> => WorkerOK'
         /\ pushed' = pushed => PushedOK' /\ LeaversAreSpared'
         /\ \A n \in DOMAIN log : log'[n].kind = "text" =>
              LET m == topic[log'[n].rec]
              IN  \E k \in m.at .. n - 1 :
                    /\ AliveAfter(k)'
                    /\ {m.by} \cup m.mentions \subseteq MembersAfter(k)'
                    /\ m.all => m.by = Owner
<1>0. log \in Seq(Entry) /\ topic \in Seq(Record) /\ done \in 0 .. Len(topic)
  BY DEF GroupInv, MembershipAgrees, TypeOK
<1>1. /\ log' \in Seq(Entry)
      /\ Len(log) \in Nat /\ Len(log') = Len(log) + 1
      /\ DOMAIN log = 1 .. Len(log) /\ DOMAIN log' = 1 .. Len(log) + 1
      /\ \A n \in DOMAIN log : log'[n] = log[n]
      /\ log'[Len(log')] = e
      /\ \A n \in 0 .. Len(log) : MembersIn(log', n) = MembersIn(log, n)
      /\ \A n \in 0 .. Len(log) : AliveIn(log', n) <=> AliveIn(log, n)
  BY <1>0, Grown
<1>2. ASSUME NEW i \in DOMAIN topic PROVE topic[i].at \in Nat /\ topic[i].seq \in Nat
  <2>1. topic[i] \in Record
    BY <1>0
  <2> QED
    BY <2>1 DEF Record
<1>3. \A i \in DOMAIN topic :
        /\ topic[i].at <= Len(log)
        /\ topic[i].kind = "event" => topic[i].seq \in DOMAIN log /\ log[topic[i].seq].kind # "text"
  BY DEF GroupInv, TopicOK
<1>4. \A n \in DOMAIN log : log[n].kind = "text" => log[n].rec \in DOMAIN topic
  BY DEF GroupInv, HistoryOK
<1>5. \A n \in DOMAIN log : SentAt(n)' = SentAt(n) /\ SentAt(n) \in Nat /\ SentAt(n) <= Len(log)
  BY <1>1, <1>2, <1>3, <1>4 DEF SentAt
<1>6. \A i \in DOMAIN topic :
        /\ topic[i].at <= Len(log')
        /\ topic[i].kind = "event" => topic[i].seq \in DOMAIN log' /\ log'[topic[i].seq].kind # "text"
  BY <1>1, <1>2, <1>3
<1>7. ASSUME UNCHANGED <<done, wk>> PROVE WorkerOK'
  <2>1. WorkerOK
    BY DEF GroupInv
  <2>2. This' = This /\ Since' = Since
    BY <1>7 DEF This, Since
  <2>3. wk.pc # "idle" => done + 1 \in DOMAIN topic
    BY <1>0, <2>1 DEF WorkerOK
  <2>4. wk.pc # "idle" => This.at \in Nat /\ Since \in Nat
    BY <1>2, <2>3 DEF This, Since
  <2>5. wk.pc = "members" => This.kind = "text" /\ \E k \in This.at .. Len(log') : AliveIn(log', k)
    BY <1>1, <2>1, <2>4, AfterIsIn DEF WorkerOK
  <2>6. wk.pc = "store" /\ This.kind = "text" => \E k \in This.at .. Len(log') : Allowed(This, k)'
    <3>1. SUFFICES ASSUME wk.pc = "store", This.kind = "text"
                   PROVE  \E k \in This.at .. Len(log') : Allowed(This, k)'
      OBVIOUS
    <3>2. PICK k \in This.at .. Len(log) : Allowed(This, k)
      BY <2>1, <3>1 DEF WorkerOK
    <3>3. k \in This.at .. Len(log') /\ k \in 0 .. Len(log)
      BY <1>1, <2>4, <3>1
    <3>4. Allowed(This, k)'
      BY <1>1, <2>2, <3>2, <3>3, AfterIsIn DEF Allowed
    <3> QED
      BY <3>3, <3>4
  <2>7. wk.pc = "store" => \A u \in wk.to : \E k \in Since .. Len(log') : u \in MembersIn(log', k)
    BY <1>1, <2>1, <2>4, AfterIsIn DEF WorkerOK
  <2>8. ASSUME NEW n \in DOMAIN log, n = wk.seq, wk.pc = "push", NEW u \in wk.to
        PROVE  \E k \in SentAt(n)' .. Len(log') : u \in MembersIn(log', k)
    <3>1. \E k \in SentAt(n) .. Len(log) : u \in MembersIn(log, k)
      BY <2>1, <2>8, AfterIsIn DEF WorkerOK
    <3> QED
      BY <1>1, <1>5, <3>1
  <2>9. wk.pc = "push" =>
          /\ wk.seq \in DOMAIN log'
          /\ \A u \in wk.to : \E k \in SentAt(wk.seq)' .. Len(log') : u \in MembersIn(log', k)
    BY SMTT(30), <1>1, <1>7, <2>1, <2>8 DEF WorkerOK, SentAt
  <2> QED
    BY <1>7, <2>1, <2>2, <2>5, <2>6, <2>7, <2>9, AfterIsIn DEF WorkerOK
<1>8. ASSUME pushed' = pushed PROVE PushedOK' /\ LeaversAreSpared'
  <2>1. PushedOK /\ LeaversAreSpared
    BY DEF GroupInv
  <2>2. PushedOK'
    BY <1>1, <1>8, <2>1 DEF PushedOK
  <2>3. ASSUME NEW p \in pushed PROVE \E k \in SentAt(p[2])' .. Len(log') : p[1] \in MembersIn(log', k)
    <3>1. p[2] \in DOMAIN log
      BY <2>1 DEF PushedOK
    <3>2. PICK k \in SentAt(p[2]) .. Len(log) : p[1] \in MembersIn(log, k)
      BY <2>1, AfterIsIn DEF LeaversAreSpared
    <3> QED
      BY <1>1, <1>5, <3>1, <3>2
  <2> QED
    BY <1>8, <2>2, <2>3, AfterIsIn DEF LeaversAreSpared
<1>9. ASSUME NEW n \in DOMAIN log, log'[n].kind = "text"
      PROVE  LET m == topic[log'[n].rec]
             IN  \E k \in m.at .. n - 1 :
                   /\ AliveAfter(k)'
                   /\ {m.by} \cup m.mentions \subseteq MembersAfter(k)'
                   /\ m.all => m.by = Owner
  <2> DEFINE m == topic[log[n].rec]
  <2>1. log'[n] = log[n] /\ m.at \in Nat
    BY <1>1, <1>2, <1>4, <1>9
  <2>2. PICK k \in m.at .. n - 1 :
               /\ AliveAfter(k)
               /\ {m.by} \cup m.mentions \subseteq MembersAfter(k)
               /\ m.all => m.by = Owner
    BY Zenon, <1>9, <2>1 DEF GroupInv, StoredWasAllowed
  <2>3. k \in 0 .. Len(log)
    BY <1>1, <2>1
  <2> QED
    BY <1>1, <2>1, <2>2, <2>3, AfterIsIn
<1> QED
  BY Zenon, <1>5, <1>6, <1>7, <1>8, <1>9

LEMMA CreateKeeps ==
  ASSUME GroupAssumption, GroupInv, NEW r \in Req, NEW q \in Ask, Create(r, q)
  PROVE  GroupInv'
<1> DEFINE e == [kind |-> "create", by |-> Owner, who |-> active', rec |-> 0]
<1>0. TypeOK /\ EventsTellMembers /\ HistoryOK /\ TopicOK /\ WorkerOK
  BY DEF GroupInv, MembershipAgrees
<1>1. q \in [op : Ops, by : User, who : SUBSET User]
  BY DEF GroupAssumption
<1>2. /\ status = "none" /\ status' = "active" /\ active' = q.who \cup {Owner} /\ conv' = active'
      /\ log' = Append(log, e)
      /\ topic' = topic /\ done' = done /\ wk' = wk /\ pushed' = pushed /\ bounds' = bounds
  BY DEF Create, worker
<1>3. active' \subseteq User /\ count' \in Nat
  <2>1. Cardinality(q.who) \in Nat
    BY <1>1, CardinalityType
  <2> QED
    BY <1>1, <1>2, <2>1 DEF Create, GroupAssumption
<1>4. e \in Entry
  BY <1>3 DEF Entry, Ops, GroupAssumption
<1>5. log = <<>> /\ topic = <<>>
  BY <1>0, <1>2 DEF HistoryOK, TopicOK
<1>6. /\ log' \in Seq(Entry) /\ log'[1] = e /\ Len(log') = 1 /\ DOMAIN log' = 1 .. 1
      /\ MembersIn(log', 1) = (MembersIn(log, 0) \ LeftBy(e)) \cup JoinedBy(e)
      /\ AliveIn(log', 1)
  <2>1. /\ log' \in Seq(Entry) /\ Len(log') = Len(log) + 1 /\ DOMAIN log' = 1 .. Len(log) + 1
        /\ log'[Len(log')] = e
        /\ MembersIn(log', Len(log')) = (MembersIn(log, Len(log)) \ LeftBy(e)) \cup JoinedBy(e)
        /\ AliveIn(log', Len(log')) <=> (log # <<>> => AliveIn(log, Len(log))) /\ e.kind # "dismiss"
    BY Zenon, <1>0, <1>2, <1>4, Grown DEF TypeOK
  <2>2. Len(log) = 0 /\ Len(log') = 1
    BY <1>5, <2>1
  <2> QED
    BY <1>5, <2>1, <2>2
<1>7. tx \in [Req -> Transactions] /\ tx[r] \in Transactions
  BY Zenon, <1>0 DEF TypeOK, Transactions
<1>8. tx' = [tx EXCEPT ![r] = [tx[r] EXCEPT !.pc = "emit", !.seq = 1]]
  BY Zenon, <1>7 DEF Create
<1>9. /\ tx' \in [Req -> Transactions]
      /\ tx'[r].pc = "emit" /\ tx'[r].seq = 1
      /\ \A p \in Req \ {r} : tx'[p] = tx[p]
  <2>1. [tx[r] EXCEPT !.pc = "emit", !.seq = 1] \in Transactions
    BY Zenon, <1>7 DEF Transactions
  <2> QED
    BY <1>7, <1>8, <2>1 DEF Transactions
<1> HIDE DEF e
<1>10. MembershipAgrees'
  <2>1. TypeOK'
    BY Zenon, <1>0, <1>2, <1>3, <1>6, <1>9 DEF TypeOK, Transactions
  <2>2. MembersIn(log, 0) = {}
    BY DEF MembersIn
  <2>3. MembersIn(log', 1) = active'
    BY Zenon, <1>2, <1>6, <2>2 DEF JoinedBy, LeftBy, e
  <2> QED
    BY <1>2, <1>6, <2>1, <2>3, AfterIsIn DEF MembershipAgrees, EventsTellMembers, ReadersAreMembers
<1>11. \A p \in Req \ {r} : tx'[p].pc = "idle"
  BY <1>2, <1>9 DEF GroupInv, RequestOK
<1>12. \A p \in Req : RequestOK(p)'
  <2>1. RequestOK(r)'
    BY <1>2, <1>5, <1>6, <1>9 DEF RequestOK, HoldsGroup, e
  <2>2. ASSUME NEW p \in Req \ {r} PROVE RequestOK(p)'
    BY <1>11 DEF RequestOK, HoldsGroup
  <2> QED
    BY <2>1, <2>2
<1>13. LockIsExclusive'
  BY <1>9, <1>11 DEF LockIsExclusive, HoldsGroup
<1>14. HistoryOK' /\ TopicOK'
  BY <1>2, <1>5, <1>6 DEF HistoryOK, TopicOK, e
<1>15. WorkerOK' /\ PushedOK' /\ LeaversAreSpared'
  BY <1>2, <1>4, GrownKeeps
<1>16. StoredWasAllowed'
  BY <1>5, <1>6 DEF StoredWasAllowed, e
<1> QED
  BY <1>10, <1>12, <1>13, <1>14, <1>15, <1>16 DEF GroupInv

(***************************************************************************)
(* The rows that were planned are the change the event tells, as nobody    *)
(* has changed the members since.                                          *)
(***************************************************************************)
LEMMA CommitKeeps ==
  ASSUME GroupAssumption, GroupInv, NEW r \in Req, Commit(r)
  PROVE  GroupInv'
<1> DEFINE t == tx[r]
           e == [kind |-> t.op, by |-> t.by, who |-> t.who, rec |-> 0]
<1>0. TypeOK /\ EventsTellMembers /\ ReadersAreMembers /\ HistoryOK /\ TopicOK /\ WorkerOK
  BY DEF GroupInv, MembershipAgrees
<1>1. tx \in [Req -> Transactions] /\ t \in Transactions
  BY Zenon, <1>0 DEF TypeOK, Transactions
<1>2. /\ t.pc = "commit"
      /\ log' = Append(log, e)
      /\ topic' = topic /\ done' = done /\ wk' = wk /\ pushed' = pushed /\ bounds' = bounds
      /\ status' = IF t.op = "dismiss" THEN "dismissed" ELSE status
      /\ active' = Apply(r, active) /\ conv' = Apply(r, conv)
      /\ count' = IF t.op \in {"add", "kick", "quit"} THEN t.count ELSE count
  BY DEF Commit, worker
<1>3. e \in Entry /\ t.who \subseteq User
  BY <1>1 DEF Entry, Transactions
<1>4. /\ log \in Seq(Entry) /\ log' \in Seq(Entry)
      /\ Len(log) \in Nat /\ Len(log') = Len(log) + 1
      /\ DOMAIN log = 1 .. Len(log) /\ DOMAIN log' = 1 .. Len(log) + 1
      /\ \A n \in DOMAIN log : log'[n] = log[n]
      /\ log'[Len(log')] = e
      /\ MembersIn(log', Len(log')) = (MembersIn(log, Len(log)) \ LeftBy(e)) \cup JoinedBy(e)
      /\ AliveIn(log', Len(log')) <=> (log # <<>> => AliveIn(log, Len(log))) /\ e.kind # "dismiss"
  BY Zenon, <1>0, <1>2, <1>3, Grown DEF TypeOK
<1>5. RequestOK(r) /\ HoldsGroup(r) /\ Planned(r)
  BY <1>2 DEF GroupInv, RequestOK, HoldsGroup
<1>6. status # "none" /\ log # <<>> /\ t.op # "create" /\ (t.op # "quit" => status = "active")
  BY <1>0, <1>2, <1>5 DEF RequestOK, HistoryOK
<1>7. tx' = [tx EXCEPT ![r] = [t EXCEPT !.pc = "emit", !.seq = Len(log')]]
  BY Zenon, <1>1 DEF Commit
<1>8. /\ tx' \in [Req -> Transactions]
      /\ tx'[r].pc = "emit" /\ tx'[r].seq = Len(log')
      /\ \A p \in Req \ {r} : tx'[p] = tx[p]
  <2>1. Len(log') \in Nat
    BY <1>4
  <2>2. [t EXCEPT !.pc = "emit", !.seq = Len(log')] \in Transactions
    BY Zenon, <1>1, <2>1 DEF Transactions
  <2> QED
    BY <1>1, <1>7, <2>2 DEF Transactions
<1>9. e.kind = t.op /\ e.who = t.who
  OBVIOUS
<1>10. t.op \in {"add", "kick", "quit", "edit", "dismiss"}
  BY <1>1, <1>6 DEF Transactions, Ops, OwnerOps
<1> HIDE DEF e, t
<1>11. active' = (active \ LeftBy(e)) \cup JoinedBy(e) /\ conv' = active'
  <2>1. active' = IF t.op = "add" THEN active \cup t.rows ELSE active \ t.rows
    BY <1>2 DEF Apply, t
  <2>2. conv' = active'
    BY <1>0, <1>2 DEF Apply, ReadersAreMembers
  <2>3. CASE t.op = "add"
    BY <1>5, <1>9, <2>1, <2>2, <2>3 DEF Planned, JoinedBy, LeftBy, t
  <2>4. CASE t.op \in {"kick", "quit"}
    BY <1>5, <1>9, <2>1, <2>2, <2>4 DEF Planned, JoinedBy, LeftBy, t
  <2>5. CASE t.op \in {"edit", "dismiss"}
    BY <1>5, <1>9, <2>1, <2>2, <2>5 DEF Planned, JoinedBy, LeftBy, OwnerOps, t
  <2> QED
    BY <1>10, <2>3, <2>4, <2>5
<1>12. MembershipAgrees'
  <2>1. TypeOK'
    <3>1. active' \subseteq User /\ conv' \subseteq User
      BY Zenon, <1>0, <1>3, <1>9, <1>11 DEF TypeOK, JoinedBy, LeftBy
    <3>2. count' \in Nat
      BY <1>0, <1>1, <1>2 DEF TypeOK, Transactions
    <3> QED
      BY Zenon, <1>0, <1>2, <1>4, <1>8, <3>1, <3>2 DEF TypeOK, Transactions
  <2>2. active' = MembersIn(log', Len(log'))
    BY <1>0, <1>4, <1>11, AfterIsIn DEF EventsTellMembers
  <2>3. status' = "active" <=> AliveIn(log', Len(log'))
    BY <1>0, <1>2, <1>4, <1>6, <1>9, AfterIsIn DEF EventsTellMembers
  <2> QED
    BY <1>11, <2>1, <2>2, <2>3, AfterIsIn DEF MembershipAgrees, EventsTellMembers, ReadersAreMembers
<1>13. ASSUME NEW p \in Req PROVE RequestOK(p)'
  <2>1. CASE p = r
    BY <1>2, <1>4, <1>6, <1>8, <1>9, <1>10, <2>1 DEF RequestOK, HoldsGroup
  <2>2. CASE p # r
    <3>1. RequestOK(p) /\ tx'[p] = tx[p]
      BY <1>8, <2>2 DEF GroupInv
    <3>2. ~HoldsGroup(p)
      BY <1>5, <2>2 DEF GroupInv, LockIsExclusive
    <3>3. ~HoldsGroup(p)' /\ tx'[p].pc # "commit"
      BY <3>1, <3>2 DEF HoldsGroup
    <3>4. status' # "none"
      BY <1>2, <1>6
    <3>5. tx[p].pc = "emit" => tx[p].seq \in DOMAIN log' /\ log'[tx[p].seq].kind # "text"
      BY <1>4, <3>1 DEF RequestOK
    <3> QED
      BY <3>1, <3>3, <3>4, <3>5 DEF RequestOK
  <2> QED
    BY <2>1, <2>2
<1>14. LockIsExclusive'
  BY <1>8 DEF GroupInv, LockIsExclusive, HoldsGroup
<1>15. HistoryOK' /\ TopicOK'
  <2>1. \A n \in DOMAIN log' : log'[n].kind = "create" <=> n = 1
    BY <1>0, <1>4, <1>6, <1>9 DEF HistoryOK
  <2>2. ASSUME NEW d \in DOMAIN log', NEW n \in DOMAIN log', log'[d].kind = "dismiss", d < n
        PROVE  log'[n].kind \notin {"add", "dismiss"}
    <3>1. d \in DOMAIN log /\ log[d].kind = "dismiss"
      BY <1>4, <2>2
    <3>2. CASE n \in DOMAIN log
      BY <1>0, <1>4, <2>2, <3>1, <3>2 DEF HistoryOK
    <3>3. CASE n = Len(log')
      <4>1. ~AliveIn(log, Len(log))
        BY <1>4, <3>1 DEF AliveIn
      <4>2. status # "active"
        BY <1>0, <4>1, AfterIsIn DEF EventsTellMembers
      <4>3. t.op = "quit"
        BY <1>6, <4>2
      <4> QED
        BY <1>4, <1>9, <3>3, <4>3
    <3> QED
      BY <1>4, <3>2, <3>3
  <2>3. \A n \in DOMAIN log' : log'[n].kind = "text" => log'[n].rec \in DOMAIN topic'
    BY <1>0, <1>2, <1>4, <1>9, <1>10 DEF HistoryOK
  <2>4. status' # "none" /\ log' # <<>>
    BY <1>2, <1>4, <1>6
  <2>5. TopicOK'
    BY <1>2, <1>3, <2>4, GrownKeeps DEF TopicOK
  <2> QED
    BY <2>1, <2>2, <2>3, <2>4, <2>5 DEF HistoryOK
<1>16. WorkerOK' /\ PushedOK' /\ LeaversAreSpared'
  BY <1>2, <1>3, GrownKeeps
<1>17. StoredWasAllowed'
  <2>1. log'[Len(log')].kind # "text"
    BY <1>4, <1>9, <1>10
  <2>2. \A n \in DOMAIN log' : log'[n].kind = "text" => n \in DOMAIN log
    BY <1>4, <2>1
  <2> QED
    BY Zenon, <1>2, <1>3, <2>2, GrownKeeps DEF StoredWasAllowed
<1> QED
  BY <1>12, <1>13, <1>14, <1>15, <1>16, <1>17 DEF GroupInv

-----------------------------------------------------------------------------
(* Steps that write a record of chat.msg *)

LEMMA TopicGrows ==
  ASSUME GroupInv, NEW m \in Record, topic' = Append(topic, m),
         m.at <= Len(log),
         m.kind = "event" => m.seq \in DOMAIN log /\ log[m.seq].kind # "text",
         status # "none",
         UNCHANGED <<tables, worker>>
  PROVE  /\ topic' \in Seq(Record) /\ done' \in 0 .. Len(topic')
         /\ EventsTellMembers' /\ ReadersAreMembers'
         /\ HistoryOK' /\ TopicOK' /\ WorkerOK' /\ PushedOK'
         /\ StoredWasAllowed' /\ LeaversAreSpared'
<1>0. /\ status' = status /\ active' = active /\ log' = log /\ conv' = conv
      /\ done' = done /\ wk' = wk /\ pushed' = pushed
  BY DEF tables, worker
<1>1. /\ EventsTellMembers /\ ReadersAreMembers /\ HistoryOK /\ TopicOK /\ WorkerOK /\ PushedOK
      /\ StoredWasAllowed /\ LeaversAreSpared
      /\ topic \in Seq(Record) /\ done \in 0 .. Len(topic)
  BY DEF GroupInv, MembershipAgrees, TypeOK
<1>2. /\ topic' \in Seq(Record) /\ Len(topic') = Len(topic) + 1
      /\ DOMAIN topic = 1 .. Len(topic) /\ DOMAIN topic' = 1 .. Len(topic) + 1
      /\ \A i \in DOMAIN topic : topic'[i] = topic[i]
      /\ topic'[Len(topic) + 1] = m
  BY <1>1
<1>3. done' \in 0 .. Len(topic')
  BY <1>0, <1>1, <1>2
<1>4. EventsTellMembers' /\ ReadersAreMembers'
  BY <1>0, <1>1, AfterIsIn DEF EventsTellMembers, ReadersAreMembers
<1>5. HistoryOK'
  BY <1>0, <1>1, <1>2 DEF HistoryOK
<1>6. TopicOK'
  BY <1>0, <1>1, <1>2 DEF TopicOK
<1>7. wk.pc # "idle" => This' = This /\ Since' = Since
  BY <1>0, <1>1, <1>2 DEF WorkerOK, This, Since
<1>8. \A n \in DOMAIN log : SentAt(n)' = SentAt(n)
  BY <1>0, <1>1, <1>2 DEF SentAt, HistoryOK
<1>9. WorkerOK'
  <2>1. wk.pc # "idle" => done < Len(topic')
    BY <1>1, <1>2 DEF WorkerOK
  <2>2. ASSUME NEW n \in DOMAIN log, n = wk.seq, wk.pc = "push", NEW u \in wk.to
        PROVE  \E k \in SentAt(n)' .. Len(log) : u \in MembersIn(log, k)
    BY <1>1, <1>8, <2>2, AfterIsIn DEF WorkerOK
  <2>3. wk.pc = "push" =>
          /\ wk.seq \in DOMAIN log
          /\ \A u \in wk.to : \E k \in SentAt(wk.seq)' .. Len(log) : u \in MembersIn(log, k)
    BY Zenon, <1>0, <1>1, <2>2 DEF WorkerOK, SentAt
  <2> QED
    BY <1>0, <1>1, <1>7, <2>1, <2>3, AfterIsIn DEF WorkerOK, Allowed
<1>10. PushedOK' /\ LeaversAreSpared'
  <2>1. ASSUME NEW p \in pushed PROVE \E k \in SentAt(p[2])' .. Len(log) : p[1] \in MembersIn(log, k)
    <3>1. p[2] \in DOMAIN log
      BY <1>1 DEF PushedOK
    <3> QED
      BY <1>1, <1>8, <3>1, AfterIsIn DEF LeaversAreSpared
  <2> QED
    BY <1>0, <1>1, <2>1, AfterIsIn DEF PushedOK, LeaversAreSpared
<1>11. StoredWasAllowed'
  <2>1. \A n \in DOMAIN log : log[n].kind = "text" => topic'[log[n].rec] = topic[log[n].rec]
    BY <1>1, <1>2 DEF HistoryOK
  <2> QED
    BY Zenon, <1>0, <1>1, <2>1, AfterIsIn DEF StoredWasAllowed
<1> QED
  BY <1>2, <1>3, <1>4, <1>5, <1>6, <1>9, <1>10, <1>11

LEMMA SendKeeps ==
  ASSUME GroupAssumption, GroupInv, NEW t \in Text, Send(t)
  PROVE  GroupInv'
<1> DEFINE m == [kind |-> "text", by |-> t.by, mentions |-> t.mentions,
                 all |-> t.all, seq |-> 0, at |-> Len(log)]
<1>1. t \in [by : User, mentions : SUBSET User, all : BOOLEAN]
  BY DEF GroupAssumption
<1>2. Len(log) \in Nat
  BY DEF GroupInv, MembershipAgrees, TypeOK
<1>3. m \in Record
  BY <1>1, <1>2 DEF Record
<1>4. topic' = Append(topic, m) /\ m.at <= Len(log) /\ m.kind # "event"
  BY <1>2 DEF Send
<1>5. bounds' \in [{"ops", "text", "fail"} -> Nat]
  BY TickType DEF Send
<1> HIDE DEF m
<1>6. status # "none" /\ UNCHANGED <<tables, worker>> /\ tx' = tx
  BY DEF Send
<1>7. /\ topic' \in Seq(Record) /\ done' \in 0 .. Len(topic')
      /\ EventsTellMembers' /\ ReadersAreMembers'
      /\ HistoryOK' /\ TopicOK' /\ WorkerOK' /\ PushedOK'
      /\ StoredWasAllowed' /\ LeaversAreSpared'
  BY <1>3, <1>4, <1>6, TopicGrows
<1>8. TypeOK'
  BY Zenon, <1>5, <1>6, <1>7 DEF GroupInv, MembershipAgrees, TypeOK, tables, worker
<1>9. (\A r \in Req : RequestOK(r)') /\ LockIsExclusive'
  BY ZenonT(60), <1>6 DEF GroupInv, RequestOK, LockIsExclusive, HoldsGroup, Planned, tables
<1> QED
  BY <1>7, <1>8, <1>9 DEF GroupInv, MembershipAgrees

LEMMA EmitKeeps ==
  ASSUME GroupAssumption, GroupInv, NEW r \in Req, Emit(r)
  PROVE  GroupInv'
<1> DEFINE m == [kind |-> "event", by |-> tx[r].by, mentions |-> {}, all |-> FALSE,
                 seq |-> tx[r].seq, at |-> Len(log)]
<1>1. tx \in [Req -> Transactions] /\ tx[r] \in Transactions
  BY Zenon DEF GroupInv, MembershipAgrees, TypeOK, Transactions
<1>2. Len(log) \in Nat
  BY DEF GroupInv, MembershipAgrees, TypeOK
<1>3. m \in Record
  BY <1>1, <1>2 DEF Record, Transactions
<1>4. RequestOK(r) /\ tx[r].pc = "emit"
  BY DEF GroupInv, Emit
<1>5. /\ topic' = Append(topic, m) /\ m.at <= Len(log)
      /\ m.seq \in DOMAIN log /\ log[m.seq].kind # "text"
  BY <1>2, <1>4 DEF Emit, RequestOK
<1>6. status # "none" /\ UNCHANGED <<tables, worker>> /\ bounds' = bounds
  BY <1>4 DEF Emit, RequestOK
<1> HIDE DEF m
<1>7. /\ topic' \in Seq(Record) /\ done' \in 0 .. Len(topic')
      /\ EventsTellMembers' /\ ReadersAreMembers'
      /\ HistoryOK' /\ TopicOK' /\ WorkerOK' /\ PushedOK'
      /\ StoredWasAllowed' /\ LeaversAreSpared'
  BY <1>3, <1>5, <1>6, TopicGrows
<1>8. tx' = [tx EXCEPT ![r] = NoTx]
  BY DEF Emit
<1>9. /\ tx' \in [Req -> Transactions]
      /\ tx'[r].pc = "idle" /\ \A q \in Req \ {r} : tx'[q] = tx[q]
  BY <1>1, <1>8, NoTxType DEF NoTx
<1>10. TypeOK'
  BY Zenon, <1>6, <1>7, <1>9 DEF GroupInv, MembershipAgrees, TypeOK, Transactions, tables, worker
<1>11. ASSUME NEW q \in Req PROVE RequestOK(q)'
  <2>1. CASE q = r
    BY <1>9, <2>1 DEF RequestOK, HoldsGroup
  <2>2. CASE q # r
    <3>1. RequestOK(q) /\ tx'[q] = tx[q]
      BY <1>9, <2>2 DEF GroupInv
    <3> QED
      BY <1>6, <3>1 DEF RequestOK, HoldsGroup, Planned, tables
  <2> QED
    BY <2>1, <2>2
<1>12. LockIsExclusive'
  BY <1>9 DEF GroupInv, LockIsExclusive, HoldsGroup
<1> QED
  BY <1>7, <1>10, <1>11, <1>12 DEF GroupInv, MembershipAgrees

-----------------------------------------------------------------------------
(* Steps of the worker *)

LEMMA WorkerStep ==
  ASSUME GroupInv, UNCHANGED <<tables, tx, topic>>,
         bounds' \in [{"ops", "text", "fail"} -> Nat],
         done' \in 0 .. Len(topic),
         wk' \in [pc : {"idle", "members", "store", "push", "offset"}, to : SUBSET User, seq : Nat],
         pushed' \subseteq User \X Nat,
         WorkerOK', PushedOK', LeaversAreSpared'
  PROVE  GroupInv'
<1>0. /\ status' = status /\ active' = active /\ log' = log /\ conv' = conv /\ count' = count
      /\ topic' = topic /\ tx' = tx
  BY DEF tables
<1>1. /\ TypeOK /\ EventsTellMembers /\ ReadersAreMembers /\ HistoryOK /\ TopicOK /\ StoredWasAllowed
      /\ LockIsExclusive /\ \A r \in Req : RequestOK(r)
  BY DEF GroupInv, MembershipAgrees
<1>2. TypeOK'
  BY Zenon, <1>0, <1>1 DEF TypeOK
<1>3. EventsTellMembers' /\ ReadersAreMembers'
  BY <1>0, <1>1, AfterIsIn DEF EventsTellMembers, ReadersAreMembers
<1>4. HistoryOK' /\ TopicOK' /\ LockIsExclusive'
  BY <1>0, <1>1 DEF HistoryOK, TopicOK, LockIsExclusive, HoldsGroup
<1>5. \A r \in Req : RequestOK(r)'
  BY ZenonT(60), <1>0, <1>1 DEF RequestOK, HoldsGroup, Planned
<1>6. StoredWasAllowed'
  BY <1>0, <1>1, AfterIsIn DEF StoredWasAllowed
<1> QED
  BY <1>2, <1>3, <1>4, <1>5, <1>6 DEF GroupInv, MembershipAgrees

(***************************************************************************)
(* What the worker needs to know of the record in its hands.               *)
(***************************************************************************)
LEMMA InHand ==
  ASSUME GroupInv, done < Len(topic)
  PROVE  /\ This \in Record /\ This.at \in Nat /\ Since \in Nat
         /\ This.at <= Len(log) /\ Since <= Len(log) /\ Len(log) \in Nat
         /\ This.kind \in {"event", "text"}
         /\ done + 1 \in DOMAIN topic
<1>1. topic \in Seq(Record) /\ done \in 0 .. Len(topic) /\ log \in Seq(Entry)
  BY DEF GroupInv, MembershipAgrees, TypeOK
<1>2. done + 1 \in DOMAIN topic
  BY <1>1
<1>3. This \in Record
  BY <1>1, <1>2 DEF This
<1>4. This.at \in Nat /\ This.seq \in Nat /\ This.kind \in {"event", "text"}
  BY <1>3 DEF Record
<1>5. This.at <= Len(log) /\ (This.kind = "event" => This.seq \in DOMAIN log)
  BY <1>2 DEF GroupInv, TopicOK, This
<1> QED
  BY <1>1, <1>2, <1>3, <1>4, <1>5 DEF Since

(***************************************************************************)
(* The worker finds the group alive first and the members later.  If the   *)
(* group has ended in between, nobody has joined since: who is a member    *)
(* now was one at the last moment of the group's life.                     *)
(***************************************************************************)
LEMMA FoundAllowed ==
  ASSUME GroupInv, NEW m \in Record, NEW k0 \in m.at .. Len(log), AliveAfter(k0), Valid(m, active)
  PROVE  \E k \in m.at .. Len(log) : Allowed(m, k)
<1>0. TypeOK /\ EventsTellMembers /\ HistoryOK /\ m.at \in Nat /\ Len(log) \in Nat
  BY SMTT(30) DEF GroupInv, MembershipAgrees, TypeOK, Record
<1>1. active = MembersIn(log, Len(log))
  BY <1>0, AfterIsIn DEF EventsTellMembers
<1>2. CASE AliveAfter(Len(log))
  <2>1. Allowed(m, Len(log))
    BY <1>1, <1>2, AfterIsIn DEF Allowed, Valid
  <2> QED
    BY <1>0, <2>1
<1>3. CASE ~AliveAfter(Len(log))
  <2>1. k0 > 0 /\ \A k \in 1 .. k0 : log[k].kind # "dismiss"
    BY DEF AliveAfter
  <2>2. PICK d \in 1 .. Len(log) : log[d].kind = "dismiss"
    BY <1>0, <1>3, <2>1 DEF AliveAfter
  <2>3. k0 < d
    BY <1>0, <2>1, <2>2
  <2>4. \A n \in 1 .. Len(log) : n >= d => JoinedBy(log[n]) = {}
    BY SMTT(30), <1>0, <2>1, <2>2, <2>3 DEF HistoryOK, JoinedBy, TypeOK
  <2>5. MembersIn(log, Len(log)) \subseteq MembersIn(log, d - 1)
    <3>1. SUFFICES ASSUME NEW u \in MembersIn(log, Len(log)) PROVE u \in MembersIn(log, d - 1)
      OBVIOUS
    <3>2. PICK j \in 1 .. Len(log) :
                 u \in JoinedBy(log[j]) /\ \A k \in j + 1 .. Len(log) : u \notin LeftBy(log[k])
      BY DEF MembersIn
    <3>3. j \in 1 .. d - 1
      <4>1. ~(j >= d)
        BY Zenon, <2>4, <3>2
      <4> QED
        BY <2>2, <3>2, <4>1
    <3>4. \A k \in j + 1 .. d - 1 : u \notin LeftBy(log[k])
      BY <1>0, <3>2
    <3>5. u \in User
      BY DEF MembersIn
    <3> QED
      BY <3>2, <3>3, <3>4, <3>5 DEF MembersIn
  <2>6. AliveAfter(d - 1)
    BY SMTT(30), <1>0, <2>1, <2>2, <2>3 DEF AliveAfter, HistoryOK, TypeOK
  <2>7. Allowed(m, d - 1)
    BY <1>1, <2>5, <2>6, AfterIsIn DEF Allowed, Valid
  <2> QED
    BY <1>0, <2>2, <2>3, <2>7
<1> QED
  BY <1>2, <1>3

LEMMA SkipKeeps ==
  ASSUME GroupInv, Skip, done < Len(topic)
  PROVE  GroupInv'
<1>1. /\ done \in 0 .. Len(topic) /\ topic \in Seq(Record) /\ pushed \subseteq User \X Nat
      /\ PushedOK /\ LeaversAreSpared
      /\ bounds \in [{"ops", "text", "fail"} -> Nat]
  BY DEF GroupInv, MembershipAgrees, TypeOK
<1>2. done' \in 0 .. Len(topic) /\ wk' = NoWork /\ pushed' = pushed /\ log' = log /\ topic' = topic
      /\ bounds' = bounds
  BY <1>1 DEF Skip, tables
<1>3. NoWork \in [pc : {"idle", "members", "store", "push", "offset"}, to : SUBSET User, seq : Nat]
  BY DEF NoWork
<1>4. WorkerOK'
  BY <1>2 DEF WorkerOK, NoWork
<1>5. PushedOK' /\ LeaversAreSpared'
  BY <1>1, <1>2, AfterIsIn DEF PushedOK, LeaversAreSpared, SentAt
<1> QED
  BY <1>1, <1>2, <1>3, <1>4, <1>5, WorkerStep DEF Skip

(***************************************************************************)
(* A step that changes wk and nothing else.                                *)
(***************************************************************************)
LEMMA WorkStep ==
  ASSUME GroupInv, UNCHANGED <<tables, tx, topic, done, pushed>>,
         bounds' \in [{"ops", "text", "fail"} -> Nat],
         wk' \in [pc : {"idle", "members", "store", "push", "offset"}, to : SUBSET User, seq : Nat],
         WorkerOK'
  PROVE  GroupInv'
<1>1. done \in 0 .. Len(topic) /\ pushed \subseteq User \X Nat /\ PushedOK /\ LeaversAreSpared
  BY DEF GroupInv, MembershipAgrees, TypeOK
<1>2. done' = done /\ pushed' = pushed /\ log' = log /\ topic' = topic
  BY DEF tables
<1>3. PushedOK' /\ LeaversAreSpared'
  BY <1>1, <1>2, AfterIsIn DEF PushedOK, LeaversAreSpared, SentAt
<1> QED
  BY <1>1, <1>2, <1>3, WorkerStep

Reading == ReadGroup \/ ReadMembers \/ ReadReceivers \/ Stored

LEMMA ReadingKeeps == ASSUME GroupInv, Reading PROVE GroupInv'
<1>1. /\ wk \in [pc : {"idle", "members", "store", "push", "offset"}, to : SUBSET User, seq : Nat]
      /\ active \subseteq User /\ bounds \in [{"ops", "text", "fail"} -> Nat]
      /\ WorkerOK /\ EventsTellMembers /\ TopicOK /\ HistoryOK
      /\ log \in Seq(Entry) /\ topic \in Seq(Record)
  BY DEF GroupInv, MembershipAgrees, TypeOK
<1>2. done < Len(topic)
  BY Zenon, <1>1 DEF Reading, ReadGroup, ReadMembers, ReadReceivers, Stored, HasNext, WorkerOK
<1>3. /\ UNCHANGED <<tables, tx, topic, done, pushed, bounds>>
      /\ log' = log /\ This' = This /\ Since' = Since
  BY Zenon DEF Reading, ReadGroup, ReadMembers, ReadReceivers, Stored, tables, This, Since
<1>4. /\ This \in Record /\ This.at \in Nat /\ Since \in Nat
      /\ This.at <= Len(log) /\ Since <= Len(log) /\ Len(log) \in Nat
      /\ This.kind \in {"event", "text"} /\ done + 1 \in DOMAIN topic
  BY <1>2, InHand
<1>5. active = MembersIn(log, Len(log)) /\ (status = "active" <=> AliveIn(log, Len(log)))
  BY <1>1, AfterIsIn DEF EventsTellMembers
<1>6. SUFFICES /\ wk' \in [pc : {"idle", "members", "store", "push", "offset"}, to : SUBSET User, seq : Nat]
               /\ WorkerOK'
  BY <1>1, <1>3, WorkStep
<1>7. CASE ReadGroup
  <2>1. wk' = [wk EXCEPT !.pc = "members"] /\ This.kind = "text" /\ status = "active"
    BY <1>7 DEF ReadGroup, Work, HasNext
  <2>2. wk' \in [pc : {"idle", "members", "store", "push", "offset"}, to : SUBSET User, seq : Nat]
    BY Zenon, <1>1, <2>1
  <2>3. wk'.pc = "members"
    BY <1>1, <2>1
  <2>4. Len(log) \in This.at .. Len(log) /\ AliveIn(log, Len(log))
    BY <1>4, <1>5, <2>1
  <2> QED
    BY <1>2, <1>3, <2>1, <2>2, <2>3, <2>4, AfterIsIn DEF WorkerOK
<1>8. CASE ReadMembers
  <2>1. wk' = [wk EXCEPT !.pc = "store", !.to = active] /\ wk.pc = "members" /\ Valid(This, active)
    BY <1>8 DEF ReadMembers
  <2>2. PICK k0 \in This.at .. Len(log) : AliveAfter(k0)
    BY <1>1, <2>1 DEF WorkerOK
  <2>3. \E k \in This.at .. Len(log) : Allowed(This, k)
    BY <1>4, <2>1, <2>2, FoundAllowed
  <2>4. \E k \in This'.at .. Len(log') : Allowed(This, k)'
    BY <1>3, <2>3, AfterIsIn DEF Allowed
  <2>5. \A u \in active : \E k \in Since .. Len(log) : u \in MembersIn(log, k)
    BY <1>4, <1>5
  <2>6. wk'.pc = "store" /\ wk'.to = active
    BY <1>1, <2>1
  <2>7. wk' \in [pc : {"idle", "members", "store", "push", "offset"}, to : SUBSET User, seq : Nat]
    BY Zenon, <1>1, <2>1
  <2> QED
    BY <1>2, <1>3, <2>4, <2>5, <2>6, <2>7, AfterIsIn DEF WorkerOK
<1>9. CASE ReadReceivers
  <2>1. wk' = [wk EXCEPT !.pc = "store", !.to = active] /\ This.kind = "event"
    BY <1>9 DEF ReadReceivers, HasNext
  <2>2. \A u \in active : \E k \in Since .. Len(log) : u \in MembersIn(log, k)
    BY <1>4, <1>5
  <2>3. wk'.pc = "store" /\ wk'.to = active
    BY <1>1, <2>1
  <2>4. wk' \in [pc : {"idle", "members", "store", "push", "offset"}, to : SUBSET User, seq : Nat]
    BY Zenon, <1>1, <2>1
  <2> QED
    BY <1>2, <1>3, <2>1, <2>2, <2>3, <2>4, AfterIsIn DEF WorkerOK
<1>10. CASE Stored
  <2>1. PICK n \in RowOf(done + 1) : wk' = [wk EXCEPT !.pc = "push", !.seq = n]
    BY Zenon, <1>10 DEF Stored
  <2>2. n \in DOMAIN log /\ n \in Nat /\ SentAt(n) = Since
    <3>1. n \in DOMAIN log /\ SentAt(n) = Since
      BY <1>1, <1>4, <2>1 DEF RowOf, This, Since, SentAt, TopicOK
    <3> QED
      BY <1>1, <3>1
  <2>3. \A u \in wk.to : \E k \in Since .. Len(log) : u \in MembersIn(log, k)
    BY <1>1, <1>10, AfterIsIn DEF WorkerOK, Stored
  <2>4. wk'.pc = "push" /\ wk'.seq = n /\ wk'.to = wk.to
    BY <1>1, <2>1
  <2>5. wk' \in [pc : {"idle", "members", "store", "push", "offset"}, to : SUBSET User, seq : Nat]
    BY Zenon, <1>1, <2>1, <2>2
  <2>6. SentAt(n)' = SentAt(n)
    BY <1>3 DEF SentAt
  <2>7. SentAt(wk.seq)' = Since
    BY <2>2, <2>4, <2>6 DEF SentAt
  <2> QED
    BY <1>2, <1>3, <2>2, <2>3, <2>4, <2>5, <2>7, AfterIsIn DEF WorkerOK
<1> QED
  BY <1>7, <1>8, <1>9, <1>10 DEF Reading

LEMMA StoreNewKeeps == ASSUME GroupInv, StoreNew PROVE GroupInv'
<1> DEFINE e == [kind |-> "text", by |-> This.by, who |-> This.mentions, rec |-> done + 1]
<1>1. /\ TypeOK /\ EventsTellMembers /\ ReadersAreMembers /\ HistoryOK /\ TopicOK /\ WorkerOK
      /\ LockIsExclusive /\ \A r \in Req : RequestOK(r)
  BY DEF GroupInv, MembershipAgrees
<1>2. wk.pc = "store" /\ done < Len(topic)
  BY <1>1 DEF StoreNew, WorkerOK
<1>3. /\ This \in Record /\ This.at \in Nat /\ Since \in Nat
      /\ This.at <= Len(log) /\ Since <= Len(log) /\ Len(log) \in Nat
      /\ This.kind \in {"event", "text"} /\ done + 1 \in DOMAIN topic
  BY <1>2, InHand
<1>4. /\ log' = Append(log, e)
      /\ wk' = [wk EXCEPT !.pc = "push", !.seq = Len(log')]
      /\ status' = status /\ active' = active /\ count' = count /\ conv' = conv /\ tx' = tx
      /\ topic' = topic /\ done' = done /\ pushed' = pushed /\ bounds' = bounds
  BY DEF StoreNew
<1>5. This.kind = "text"
  BY Zenon, <1>3 DEF StoreNew, RowOf, This
<1>6. e \in Entry
  BY <1>1, <1>3 DEF Entry, Record, TypeOK
<1>7. log \in Seq(Entry)
  BY <1>1 DEF TypeOK
<1>8. /\ log' \in Seq(Entry) /\ Len(log') = Len(log) + 1
      /\ DOMAIN log = 1 .. Len(log) /\ DOMAIN log' = 1 .. Len(log) + 1
      /\ \A n \in DOMAIN log : log'[n] = log[n]
      /\ log'[Len(log')] = e
      /\ \A n \in 0 .. Len(log) : MembersIn(log', n) = MembersIn(log, n)
      /\ \A n \in 0 .. Len(log) : AliveIn(log', n) <=> AliveIn(log, n)
      /\ MembersIn(log', Len(log')) = (MembersIn(log, Len(log)) \ LeftBy(e)) \cup JoinedBy(e)
      /\ AliveIn(log', Len(log')) <=> (log # <<>> => AliveIn(log, Len(log))) /\ e.kind # "dismiss"
  BY <1>4, <1>6, <1>7, Grown
<1>9. e.kind = "text" /\ e.rec = done + 1 /\ JoinedBy(e) = {} /\ LeftBy(e) = {}
  BY DEF JoinedBy, LeftBy
<1>10. status # "none" /\ log # <<>>
  <2>1. topic # <<>>
    BY <1>1, <1>3 DEF TypeOK
  <2> QED
    BY <1>1, <2>1 DEF TopicOK, HistoryOK
<1> HIDE DEF e
<1>11. MembershipAgrees'
  <2>1. wk' \in [pc : {"idle", "members", "store", "push", "offset"}, to : SUBSET User, seq : Nat]
    <3>1. Len(log') \in Nat
      BY <1>3, <1>8
    <3> QED
      BY Zenon, <1>1, <1>4, <3>1 DEF TypeOK
  <2>2. TypeOK'
    BY Zenon, <1>1, <1>4, <1>8, <2>1 DEF TypeOK
  <2>3. active' = MembersIn(log', Len(log')) /\ (status' = "active" <=> AliveIn(log', Len(log')))
    BY <1>1, <1>4, <1>8, <1>9, <1>10, AfterIsIn DEF EventsTellMembers
  <2> QED
    BY <1>1, <1>4, <2>2, <2>3, AfterIsIn DEF MembershipAgrees, EventsTellMembers, ReadersAreMembers
<1>12. (\A r \in Req : RequestOK(r)') /\ LockIsExclusive'
  <2>1. ASSUME NEW r \in Req PROVE RequestOK(r)'
    <3>1. RequestOK(r)
      BY <1>1
    <3>2. tx[r].pc = "emit" => tx[r].seq \in DOMAIN log' /\ log'[tx[r].seq].kind # "text"
      BY <1>8, <3>1 DEF RequestOK
    <3> QED
      BY <1>4, <3>1, <3>2 DEF RequestOK, HoldsGroup, Planned
  <2>2. LockIsExclusive'
    BY <1>1, <1>4 DEF LockIsExclusive, HoldsGroup
  <2> QED
    BY <2>1, <2>2
<1>13. HistoryOK'
  <2>1. \A n \in DOMAIN log' : log'[n].kind = "create" <=> n = 1
    BY <1>1, <1>7, <1>8, <1>9, <1>10 DEF HistoryOK
  <2>2. \A d, n \in DOMAIN log' :
          log'[d].kind = "dismiss" /\ d < n => log'[n].kind \notin {"add", "dismiss"}
    BY <1>1, <1>8, <1>9 DEF HistoryOK
  <2>3. \A n \in DOMAIN log' : log'[n].kind = "text" => log'[n].rec \in DOMAIN topic'
    BY <1>1, <1>3, <1>4, <1>8, <1>9 DEF HistoryOK
  <2>4. log' # <<>>
    BY <1>8, <1>3
  <2> QED
    BY <1>4, <1>10, <2>1, <2>2, <2>3, <2>4 DEF HistoryOK
<1>14. TopicOK'
  BY <1>1, <1>4, <1>6, GrownKeeps DEF TopicOK
<1>15. PushedOK' /\ LeaversAreSpared'
  BY <1>4, <1>6, GrownKeeps
<1>16. StoredWasAllowed'
  <2>1. PICK k \in This.at .. Len(log) : Allowed(This, k)
    BY <1>1, <1>2, <1>5 DEF WorkerOK
  <2>2. /\ k \in This.at .. Len(log') - 1 /\ AliveIn(log', k)
        /\ {This.by} \cup This.mentions \subseteq MembersIn(log', k)
        /\ This.all => This.by = Owner
    BY <1>3, <1>8, <2>1, AfterIsIn DEF Allowed
  <2>3. topic'[log'[Len(log')].rec] = This
    BY <1>4, <1>8, <1>9 DEF This
  <2>4. ASSUME NEW n \in DOMAIN log, log'[n].kind = "text"
        PROVE  LET m == topic'[log'[n].rec]
               IN  \E j \in m.at .. n - 1 :
                     /\ AliveAfter(j)'
                     /\ {m.by} \cup m.mentions \subseteq MembersAfter(j)'
                     /\ m.all => m.by = Owner
    BY Zenon, <1>4, <1>6, <2>4, GrownKeeps
  <2>5. LET m == topic'[log'[Len(log')].rec]
        IN  \E j \in m.at .. Len(log') - 1 :
              /\ AliveAfter(j)'
              /\ {m.by} \cup m.mentions \subseteq MembersAfter(j)'
              /\ m.all => m.by = Owner
    BY <2>2, <2>3, AfterIsIn
  <2>6. \A n \in DOMAIN log' : n \in DOMAIN log \/ n = Len(log')
    BY <1>3, <1>8
  <2> QED
    BY Zenon, <2>4, <2>5, <2>6 DEF StoredWasAllowed
<1>17. WorkerOK'
  <2>1. wk'.pc = "push" /\ wk'.seq = Len(log') /\ wk'.to = wk.to
    BY <1>1, <1>4 DEF TypeOK
  <2>2. SentAt(wk.seq)' = This.at /\ This.at = Since
    BY <1>4, <1>5, <1>8, <1>9, <2>1 DEF SentAt, This, Since
  <2>3. ASSUME NEW u \in wk.to PROVE \E k \in This.at .. Len(log') : u \in MembersIn(log', k)
    <3>1. PICK k \in Since .. Len(log) : u \in MembersIn(log, k)
      BY <1>1, <1>2, AfterIsIn DEF WorkerOK
    <3>2. k \in This.at .. Len(log') /\ k \in 0 .. Len(log)
      BY <1>3, <1>8, <2>2
    <3> QED
      BY <1>8, <3>1, <3>2
  <2>4. wk'.seq \in DOMAIN log'
    BY <1>3, <1>8, <2>1
  <2> QED
    BY <1>2, <1>4, <2>1, <2>2, <2>3, <2>4, AfterIsIn DEF WorkerOK
<1> QED
  BY <1>11, <1>12, <1>13, <1>14, <1>15, <1>16, <1>17 DEF GroupInv

LEMMA PushKeeps == ASSUME GroupInv, PushToOnline PROVE GroupInv'
<1>1. /\ TypeOK /\ WorkerOK /\ PushedOK /\ LeaversAreSpared
  BY DEF GroupInv, MembershipAgrees
<1>2. /\ wk.pc = "push" /\ wk' = [wk EXCEPT !.pc = "offset"]
      /\ pushed' = pushed \cup {<<u, wk.seq>> : u \in OnlineMembers(wk.to)}
      /\ UNCHANGED <<tables, tx, topic, done, bounds>>
      /\ log' = log /\ topic' = topic /\ done' = done
  BY DEF PushToOnline, Work, tables
<1>3. wk' \in [pc : {"idle", "members", "store", "push", "offset"}, to : SUBSET User, seq : Nat]
  BY Zenon, <1>1, <1>2 DEF TypeOK
<1>4. wk'.pc = "offset"
  BY <1>1, <1>2 DEF TypeOK
<1>5. WorkerOK'
  BY <1>1, <1>2, <1>4 DEF WorkerOK
<1>6. ASSUME NEW p \in pushed'
      PROVE  p \in User \X Nat /\ p[2] \in DOMAIN log
             /\ \E k \in SentAt(p[2]) .. Len(log) : p[1] \in MembersIn(log, k)
  <2>1. CASE p \in pushed
    BY <1>1, <2>1, AfterIsIn DEF PushedOK, LeaversAreSpared, TypeOK
  <2>2. CASE p \notin pushed
    <3>1. PICK u \in OnlineMembers(wk.to) : p = <<u, wk.seq>>
      BY <1>2, <2>2
    <3>2. u \in wk.to /\ u \in User /\ wk.seq \in Nat
      BY <1>1 DEF OnlineMembers, TypeOK
    <3> QED
      BY <1>1, <1>2, <3>1, <3>2, AfterIsIn DEF WorkerOK
  <2> QED
    BY <2>1, <2>2
<1>7. pushed' \subseteq User \X Nat /\ PushedOK'
  BY <1>2, <1>6 DEF PushedOK
<1>8. LeaversAreSpared'
  BY <1>2, <1>6, AfterIsIn DEF LeaversAreSpared, SentAt
<1>9. done' \in 0 .. Len(topic) /\ bounds' \in [{"ops", "text", "fail"} -> Nat]
  BY <1>1, <1>2 DEF TypeOK
<1> QED
  BY <1>2, <1>3, <1>5, <1>7, <1>8, <1>9, WorkerStep

LEMMA WorkerFailsKeeps == ASSUME GroupInv, WorkerFails PROVE GroupInv'
<1>1. bounds' \in [{"ops", "text", "fail"} -> Nat]
  BY TickType DEF WorkerFails
<1>2. NoWork \in [pc : {"idle", "members", "store", "push", "offset"}, to : SUBSET User, seq : Nat]
  BY DEF NoWork
<1>3. WorkerOK'
  BY DEF WorkerFails, WorkerOK, NoWork
<1> QED
  BY <1>1, <1>2, <1>3, WorkStep DEF WorkerFails

-----------------------------------------------------------------------------
LEMMA GroupInit == ASSUME GroupAssumption, Init PROVE GroupInv
<1>1. TypeOK
  <2>1. tx \in [Req -> Transactions]
    BY NoTxType DEF Init
  <2> QED
    BY <2>1 DEF Init, TypeOK, Transactions, NoWork
<1>2. EventsTellMembers /\ ReadersAreMembers
  BY DEF Init, EventsTellMembers, ReadersAreMembers, MembersAfter, AliveAfter
<1>3. (\A r \in Req : RequestOK(r)) /\ LockIsExclusive
  BY DEF Init, NoTx, RequestOK, LockIsExclusive, HoldsGroup
<1>4. HistoryOK /\ TopicOK /\ WorkerOK /\ PushedOK
  BY DEF Init, NoWork, HistoryOK, TopicOK, WorkerOK, PushedOK
<1>5. StoredWasAllowed /\ LeaversAreSpared
  BY DEF Init, StoredWasAllowed, LeaversAreSpared
<1> QED
  BY <1>1, <1>2, <1>3, <1>4, <1>5 DEF GroupInv, MembershipAgrees

LEMMA GroupStutter == ASSUME GroupInv, UNCHANGED vars PROVE GroupInv'
<1>1. /\ UNCHANGED <<tables, tx, topic, done, pushed>> /\ bounds' = bounds /\ wk' = wk
      /\ log' = log /\ topic' = topic /\ done' = done
  BY DEF vars, worker, tables
<1>2. /\ WorkerOK /\ bounds \in [{"ops", "text", "fail"} -> Nat]
      /\ wk \in [pc : {"idle", "members", "store", "push", "offset"}, to : SUBSET User, seq : Nat]
  BY DEF GroupInv, MembershipAgrees, TypeOK
<1>3. WorkerOK'
  BY <1>1, <1>2, AfterIsIn DEF WorkerOK, Allowed, Since, This, SentAt
<1> QED
  BY <1>1, <1>2, <1>3, WorkStep

LEMMA GroupNext == ASSUME GroupAssumption, GroupInv, Next PROVE GroupInv'
<1>1. bounds \in [{"ops", "text", "fail"} -> Nat] /\ WorkerOK
  BY DEF GroupInv, MembershipAgrees, TypeOK
<1>2. ASSUME NEW r \in Req, NEW q \in Ask, Create(r, q) PROVE GroupInv'
  BY <1>2, CreateKeeps
<1>3. ASSUME NEW r \in Req, NEW q \in Ask, Begin(r, q) PROVE GroupInv'
  BY <1>3, BeginKeeps
<1>4. ASSUME NEW r \in Req, Transaction(r) PROVE GroupInv'
  <2>1. CASE Prepare(r)
    BY <2>1, PrepareKeeps
  <2>2. CASE NotAllowed(r) \/ GroupFull(r) \/ BadTarget(r) \/ QuitRefused(r) \/ Deadlock(r)
    BY <1>1, <2>2, RollbackKeeps DEF NotAllowed, GroupFull, BadTarget, QuitRefused, Deadlock
  <2>3. CASE Commit(r)
    BY <2>3, CommitKeeps
  <2>4. CASE Emit(r)
    BY <2>4, EmitKeeps
  <2> QED
    BY <1>4, <2>1, <2>2, <2>3, <2>4 DEF Transaction, Prepare
<1>5. ASSUME NEW r \in Req, RequestFails(r) PROVE GroupInv'
  <2>1. bounds' \in [{"ops", "text", "fail"} -> Nat] /\ Rollback(r)
    BY <1>5, TickType DEF RequestFails
  <2> QED
    BY <2>1, RollbackKeeps
<1>6. ASSUME NEW t \in Text, Send(t) PROVE GroupInv'
  BY <1>6, SendKeeps
<1>7. CASE Handle
  <2>1. CASE Reading
    BY <2>1, ReadingKeeps
  <2>2. CASE Dismissed \/ Poison \/ CommitOffset
    BY <1>1, <2>2, SkipKeeps DEF Dismissed, Poison, CommitOffset, HasNext, WorkerOK
  <2>3. CASE StoreNew
    BY <2>3, StoreNewKeeps
  <2>4. CASE PushToOnline
    BY <2>4, PushKeeps
  <2> QED
    BY <1>7, <2>1, <2>2, <2>3, <2>4 DEF Handle, Reading
<1>8. CASE WorkerFails
  BY <1>8, WorkerFailsKeeps
<1> QED
  BY <1>2, <1>3, <1>4, <1>5, <1>6, <1>7, <1>8 DEF Next

LEMMA GroupInvHolds == Spec => []GroupInv
<1>1. Init => GroupInv
  BY GroupInit, GroupAssumption
<1>2. GroupInv /\ [Next]_vars => GroupInv'
  BY GroupNext, GroupStutter, GroupAssumption
<1> QED
  BY <1>1, <1>2, PTL DEF Spec

(***************************************************************************)
(* The rows of the group, the readers of its conversation and the events   *)
(* in its history agree on who is a member, for any number of users and    *)
(* overlapping requests (database/group.go, every mutation).               *)
(***************************************************************************)
THEOREM MembersAgree == Spec => []MembershipAgrees
<1>1. GroupInv => MembershipAgrees
  BY DEF GroupInv
<1> QED
  BY <1>1, GroupInvHolds, PTL

(***************************************************************************)
(* What persist stores was allowed at one moment between its production    *)
(* and its storage, although validateGroupMsg reads the status and the     *)
(* members apart and persistTx runs later.                                 *)
(***************************************************************************)
THEOREM StoredTextsWereAllowed == Spec => []StoredWasAllowed
<1>1. GroupInv => StoredWasAllowed
  BY DEF GroupInv
<1> QED
  BY <1>1, GroupInvHolds, PTL

(***************************************************************************)
(* Nobody gets a push of what was sent after he left and before he joined  *)
(* again (the receivers of Worker.Handle).                                 *)
(***************************************************************************)
THEOREM LeaversGetNoPush == Spec => []LeaversAreSpared
<1>1. GroupInv => LeaversAreSpared
  BY DEF GroupInv
<1> QED
  BY <1>1, GroupInvHolds, PTL

(***************************************************************************)
(* Additions never pass GroupMaxMembers, by however many requests at once: *)
(* AddMembers counts and inserts under the lock of the group's row.        *)
(***************************************************************************)
THEOREM AdditionsStayBelowLimit == Spec => LimitHolds
<1> DEFINE Within == status # "none" /\ ~(active' \subseteq active) => Cardinality(active') <= Limit
<1>1. ASSUME GroupInv, Next PROVE Within
  <2>1. CASE \E r \in Req, q \in Ask : Create(r, q)
    BY <2>1 DEF Create
  <2>2. ASSUME NEW r \in Req, Commit(r) PROVE Within
    <3>1. Planned(r) /\ active' = Apply(r, active)
      BY <1>1, <2>2 DEF GroupInv, RequestOK, Commit
    <3>2. CASE tx[r].op = "add"
      <4>1. active' = active \cup tx[r].who
        BY <3>1, <3>2 DEF Planned, Apply
      <4> QED
        BY <3>1, <3>2, <4>1 DEF Planned
    <3>3. CASE tx[r].op # "add"
      BY <3>1, <3>3 DEF Apply
    <3> QED
      BY <3>2, <3>3
  <2>3. CASE active' = active
    BY <2>3
  <2> QED
    BY ZenonT(60), <1>1, <2>1, <2>2, <2>3 DEF Next, Begin, Transaction, RequestFails, Rollback, Send, Handle, WorkerFails,
      LockGroup, NotAllowed, AddRows, GroupFull, KickRow, BadTarget, QuitRow, QuitRefused, QuitCount, QuitLock,
      Deadlock, Emit, ReadGroup, Dismissed, ReadMembers, Poison, ReadReceivers, StoreNew, Stored, PushToOnline,
      CommitOffset, Skip, tables
<1>2. GroupInv /\ [Next]_vars => [Within]_vars
  BY <1>1
<1> QED
  BY <1>2, GroupInvHolds, PTL DEF Spec, LimitHolds
=============================================================================
