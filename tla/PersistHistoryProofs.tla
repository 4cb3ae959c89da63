------------------------- MODULE PersistHistoryProofs -------------------------
(***************************************************************************)
(* More proofs about Persist, for every value of its constants: when one   *)
(* worker at a time sees a conversation its history has no hole, agrees    *)
(* with the pushes and is a history of MessageLog; and nothing behind a    *)
(* committed offset is left undone.                                        *)
(***************************************************************************)
EXTENDS PersistProofs, WellFoundedInduction

(***************************************************************************)
(* One worker at a time sees a conversation: the single chats of it come   *)
(* under keys of one partition (the messages of a group have one key), and *)
(* no partition moves while its owner works on it.  Any number of workers  *)
(* may share the partitions, and each may crash.  TLC finds the history    *)
(* with a hole when either half is dropped.                                *)
(***************************************************************************)
OneWriter ==
  /\ MaxRebalance = 0
  /\ \A m \in Msg : KindOf[m] = "single" => Route[ConvOf[m]][TRUE] = Route[ConvOf[m]][FALSE]

Elements(q) == {q[k] : k \in DOMAIN q}

-----------------------------------------------------------------------------
(***************************************************************************)
(* The history.  Home(m) is the only worker that ever has m in its batch.  *)
(***************************************************************************)
Place(m) == Route[ConvOf[m]][TRUE]
Home(m)  == owner[Place(m)]

\* m may be stored by w: nobody else does, and nobody has.
Fit(w, m) == Home(m) = w /\ row[m] = 0 /\ KindOf[m] # "event" /\ FaultOf[m] # "nouser"

\* The pushes in the queues q carry the seqs of stored rows.
TruePushes(q) ==
  \A u \in Uid : \A x \in Elements(q[u]) : row[x.msg] # 0 /\ x.seq = row[x.msg]

\* What w has in its batch is its own, and the event of a gateway has a row.
ItemsOK(w, r) ==
  \A i \in DOMAIN r.items :
    /\ Home(r.items[i].msg) = w
    /\ KindOf[r.items[i].msg] = "event" => row[r.items[i].msg] # 0

\* A plan has each message once, and none that is stored or has a number.
PlanOK(w, r) ==
  /\ r.plan # {} => r.pc \in {"seq", "assign"}
  /\ \A i \in r.plan : Fit(w, r.items[i].msg) /\ r.asg[r.items[i].msg] = 0
  /\ \A i, j \in r.plan : r.items[i].msg = r.items[j].msg => i = j

\* The numbers of a transaction are for messages without a row, and fill
\* what the counters of its conversations have been moved by.
NumbersOK(w, r) ==
  /\ \A m \in Msg : r.asg[m] # 0 => Fit(w, m)
  /\ \A c \in Conv : lock[c] = w =>
       \A n \in counter[c] + 1 .. r.next[c] : \E m \in Msg : ConvOf[m] = c /\ r.asg[m] = n

\* The pushes of a transaction carry its numbers, the others those of rows.
QueuesOK(r) ==
  /\ TruePushes(r.pending)
  /\ \A u \in Uid : \A x \in Elements(r.out[u]) : r.asg[x.msg] # 0 /\ x.seq = r.asg[x.msg]

\* What is to be pushed again is stored.
OldOK(r) == \A i \in r.old : row[r.items[i].msg] # 0

HistoryOK(w, r) ==
  ItemsOK(w, r) /\ PlanOK(w, r) /\ NumbersOK(w, r) /\ QueuesOK(r) /\ OldOK(r)

\* Records are in the partition of their key, and events have their rows.
LogOK ==
  \A p \in Partition : \A o \in DOMAIN log[p] :
    /\ Place(log[p][o].msg) = p
    /\ KindOf[log[p][o].msg] = "event" => row[log[p][o].msg] # 0

HistInv ==
  /\ LogOK
  /\ NoHole
  /\ lastSeq = counter
  /\ UnknownUserNeverStored
  /\ TruePushes(pushes)
  /\ \A w \in Worker : HistoryOK(w, wk[w])

-----------------------------------------------------------------------------
(***************************************************************************)
(* The offsets.  Handled(f, ps, q, m): if m is to arrive at all, f has its *)
(* row and, where one worker sees the conversation, its push is among the  *)
(* written ones ps or in the queues q.                                     *)
(***************************************************************************)
Handled(f, ps, q, m) ==
  MustArrive(m) =>
    /\ f[m] # 0
    /\ OneWriter /\ KindOf[m] = "single" =>
         \A u \in Dest[m] : [msg |-> m, seq |-> f[m]] \in Elements(ps[u]) \cup Elements(q[u])

SinglesOf(r) == {i \in DOMAIN r.items : KindOf[r.items[i].msg] = "single"}
OthersOf(r)  == {i \in DOMAIN r.items : KindOf[r.items[i].msg] \in {"group", "event"}}

\* The indexes that the steps after this one have still to look at.
Phase(r) == IF r.pc \in {"seq", "assign"} THEN r.ret ELSE r.pc

Ahead(r) ==
  CASE Phase(r) = "first"    -> r.todo \cup r.singles \cup OthersOf(r)
    [] Phase(r) = "select"   -> r.singles \cup OthersOf(r)
    [] Phase(r) = "fallback" -> r.todo \cup OthersOf(r)
    [] Phase(r) = "replay"   -> r.old \cup OthersOf(r)
    [] Phase(r) = "other"    -> r.todo
    [] Phase(r) = "offset"   -> {}
    [] Phase(r) = "flush" /\ ~r.fail -> {}
    [] OTHER                 -> DOMAIN r.items

\* Nothing is forgotten: what is not ahead is handled.
BatchOK(f, ps, r) ==
  \A i \in DOMAIN r.items :
    \/ Handled(f, ps, r.pending, r.items[i].msg)
    \/ \E j \in Ahead(r) : r.items[j].msg = r.items[i].msg

\* The transaction has a number and a push for m.
Numbered(r, m) ==
  /\ r.asg[m] # 0
  /\ OneWriter /\ KindOf[m] = "single" =>
       \A u \in Dest[m] : [msg |-> m, seq |-> r.asg[m]] \in Elements(r.out[u])

\* The transaction of the batch is about every single chat that is not stored;
\* the transaction of Handle is about the lowest index of the queue.
BatchPlanned(r) ==
  Phase(r) = "select" /\ r.pc # "select" =>
    \A i \in r.singles : \/ \E j \in r.plan \cup r.old : r.items[j].msg = r.items[i].msg
                         \/ Numbered(r, r.items[i].msg)

OnePlanned(r) ==
  Phase(r) \in Queues /\ r.pc \notin Queues =>
    \E i \in r.todo : /\ \A j \in r.todo : i <= j
                      /\ \/ r.plan = {i}
                         \/ r.plan = {} /\ r.pc = "assign" /\ Numbered(r, r.items[i].msg)

\* Unless its partitions were moved, a batch is what follows the offsets.
TakenOK(w, r) ==
  ~r.stale => \A p \in Partition : r.taken[p] > 0 =>
    /\ owner[p] = w
    /\ \A k \in committed[p] + 1 .. committed[p] + r.taken[p] :
         k \in DOMAIN log[p] /\ log[p][k] \in Elements(r.items)

IterationOK(w, r) ==
  /\ BatchOK(row, pushes, r)
  /\ BatchPlanned(r)
  /\ OnePlanned(r)
  /\ OldOK(r)
  /\ TakenOK(w, r)
  /\ r.singles \subseteq SinglesOf(r)
  /\ r.pc = "offset" => r.pending = Fresh.pending

OffsetsOK ==
  \A p \in Partition : \A o \in 1 .. committed[p] :
    o \in DOMAIN log[p] /\ Handled(row, pushes, Fresh.pending, log[p][o].msg)

DoneInv == OffsetsOK /\ \A w \in Worker : IterationOK(w, wk[w])

-----------------------------------------------------------------------------
\* The elements of sequences.

LEMMA ElementsEmpty == Elements(<<>>) = {}
  BY DEF Elements

LEMMA ElementsAppend ==
  ASSUME NEW S, NEW q \in Seq(S), NEW x \in S
  PROVE  Elements(Append(q, x)) = Elements(q) \cup {x}
<1>1. /\ DOMAIN Append(q, x) = DOMAIN q \cup {Len(q) + 1}
      /\ \A k \in DOMAIN q : Append(q, x)[k] = q[k]
      /\ Append(q, x)[Len(q) + 1] = x
  OBVIOUS
<1> QED
  BY <1>1, ZenonT(60) DEF Elements

LEMMA ElementsJoin ==
  ASSUME NEW S, NEW a \in Seq(S), NEW b \in Seq(S)
  PROVE  Elements(a \o b) = Elements(a) \cup Elements(b)
<1>1. /\ \A k \in DOMAIN a : k \in DOMAIN (a \o b) /\ (a \o b)[k] = a[k]
      /\ \A k \in DOMAIN b : Len(a) + k \in DOMAIN (a \o b) /\ (a \o b)[Len(a) + k] = b[k]
  OBVIOUS
<1>2. ASSUME NEW k \in DOMAIN (a \o b) PROVE (a \o b)[k] \in Elements(a) \cup Elements(b)
  <2>1. CASE k <= Len(a)
    <3>1. k \in DOMAIN a
      BY <2>1
    <3> QED
      BY <1>1, <3>1 DEF Elements
  <2>2. CASE k > Len(a)
    <3>1. k - Len(a) \in DOMAIN b /\ (a \o b)[k] = b[k - Len(a)]
      BY <2>2
    <3> QED
      BY <3>1 DEF Elements
  <2> QED
    BY <2>1, <2>2
<1>3. Elements(a) \cup Elements(b) \subseteq Elements(a \o b)
  BY <1>1, Zenon DEF Elements
<1>4. Elements(a \o b) \subseteq Elements(a) \cup Elements(b)
  BY <1>2, Zenon DEF Elements
<1> QED
  BY <1>3, <1>4

LEMMA ElementsType ==
  ASSUME NEW S, NEW q \in Seq(S)
  PROVE  Elements(q) \subseteq S
  BY DEF Elements

LEMMA AppendToElements ==
  ASSUME NEW queues, NEW us, NEW push \in Push, NEW u \in Uid, queues[u] \in Seq(Push)
  PROVE  /\ u \in us => Elements(AppendTo(queues, us, push)[u]) = Elements(queues[u]) \cup {push}
         /\ u \notin us => Elements(AppendTo(queues, us, push)[u]) = Elements(queues[u])
<1>1. AppendTo(queues, us, push)[u] = IF u \in us THEN Append(queues[u], push) ELSE queues[u]
  BY DEF AppendTo
<1>2. Elements(Append(queues[u], push)) = Elements(queues[u]) \cup {push}
  BY ElementsAppend
<1>3. CASE u \in us
  BY <1>1, <1>2, <1>3
<1>4. CASE u \notin us
  BY <1>1, <1>4
<1> QED
  BY <1>3, <1>4

LEMMA AppendToSubset ==
  ASSUME NEW queues, NEW us, NEW push \in Push, NEW u \in Uid, queues[u] \in Seq(Push),
         NEW x \in Elements(AppendTo(queues, us, push)[u])
  PROVE  x \in Elements(queues[u]) \/ x = push
<1>1. Elements(AppendTo(queues, us, push)[u]) \subseteq Elements(queues[u]) \cup {push}
  BY AppendToElements
<1> QED
  BY <1>1

LEMMA AppendToHas ==
  ASSUME NEW queues, NEW us, NEW push \in Push, NEW u \in Uid, queues[u] \in Seq(Push)
  PROVE  /\ Elements(queues[u]) \subseteq Elements(AppendTo(queues, us, push)[u])
         /\ u \in us => push \in Elements(AppendTo(queues, us, push)[u])
<1>1. CASE u \in us
  <2>1. Elements(AppendTo(queues, us, push)[u]) = Elements(queues[u]) \cup {push}
    BY <1>1, AppendToElements
  <2> QED
    BY <2>1
<1>2. CASE u \notin us
  BY <1>2, AppendToElements
<1> QED
  BY <1>1, <1>2

-----------------------------------------------------------------------------
\* What the steps of a worker change in its iteration.

LEMMA IterationType ==
  ASSUME TypeOK, NEW w \in Worker
  PROVE  /\ wk[w] \in Iteration
         /\ wk[w].items \in Seq(Record)
         /\ wk[w].todo \cup wk[w].singles \cup wk[w].plan \cup wk[w].old
              \subseteq DOMAIN wk[w].items
         /\ DOMAIN wk[w].items \subseteq Nat
         /\ \A i \in DOMAIN wk[w].items :
              /\ wk[w].items[i] \in Record
              /\ wk[w].items[i].msg \in Msg
              /\ Message(w, i) = wk[w].items[i].msg
<1>1. wk[w] \in Iteration /\ Indexes(wk[w]) \subseteq DOMAIN wk[w].items
  BY DEF TypeOK
<1>2. wk[w].items \in Seq(Record)
  BY <1>1 DEF Iteration
<1>3. \A i \in DOMAIN wk[w].items : wk[w].items[i] \in Record
  BY <1>2
<1>4. \A i \in DOMAIN wk[w].items : wk[w].items[i].msg \in Msg
  BY <1>3 DEF Record
<1> QED
  BY <1>1, <1>2, <1>3, <1>4 DEF Indexes, Message

LEMMA FieldTypes ==
  ASSUME NEW r \in Iteration
  PROVE  /\ r.pc \in Steps /\ r.ret \in Queues \cup {"select"}
         /\ r.taken \in [Partition -> Nat]
         /\ r.next \in [Conv -> Nat] /\ r.asg \in [Msg -> Nat]
         /\ r.out \in [Uid -> Seq(Push)] /\ r.pending \in [Uid -> Seq(Push)]
  BY DEF Iteration

\* The batch of w and the iterations of the others stay.
Kept(w) ==
  /\ wk'[w].items = wk[w].items
  /\ wk'[w].taken = wk[w].taken
  /\ wk'[w].stale = wk[w].stale
  /\ \A v \in Worker \ {w} : wk'[v] = wk[v]

\* So does what w has of a transaction.
SameTx(w) ==
  /\ wk'[w].ret = wk[w].ret
  /\ wk'[w].plan = wk[w].plan
  /\ wk'[w].asg = wk[w].asg
  /\ wk'[w].next = wk[w].next
  /\ wk'[w].out = wk[w].out

SameDb == UNCHANGED <<log, owner, row, counter, lastSeq, lock>>

\* Fetch puts record n of p, which is x, into the batch.
Fetches(w, p, n, x) ==
  /\ n = committed[p] + wk[w].taken[p] + 1
  /\ n \in DOMAIN log[p] /\ x = log[p][n]
  /\ wk'[w].items = Append(wk[w].items, x)
  /\ wk'[w].taken = [wk[w].taken EXCEPT ![p] = wk[w].taken[p] + 1]
  /\ wk'[w].stale = wk[w].stale /\ wk'[w].pc = wk[w].pc
  /\ wk'[w].todo = wk[w].todo /\ wk'[w].singles = wk[w].singles
  /\ wk'[w].old = wk[w].old /\ wk'[w].pending = wk[w].pending
  /\ wk'[w].fail = wk[w].fail
  /\ \A v \in Worker \ {w} : wk'[v] = wk[v]
  /\ SameTx(w) /\ SameDb /\ UNCHANGED <<committed, pushes>>
  /\ wk[w].pc = "fetch" /\ owner[p] = w

LEMMA FetchDoes ==
  ASSUME ConstantsAssumption, TypeOK, NEW w \in Worker, NEW p \in Partition, Fetch(w, p)
  PROVE  \E n \in Nat, x \in Record : Fetches(w, p, n, x)
<1> DEFINE n == committed[p] + wk[w].taken[p] + 1
           it == Append(wk[w].items, log[p][n])
           tk == [wk[w].taken EXCEPT ![p] = @ + 1]
           r == [wk[w] EXCEPT !.items = it, !.taken = tk]
<1>1. wk[w] \in Iteration
  BY IterationType
<1>2. committed[p] \in Nat /\ wk[w].taken[p] \in Nat /\ log[p] \in Seq(Record)
  BY <1>1, FieldTypes DEF TypeOK
<1>3. n \in DOMAIN log[p] /\ log[p][n] \in Record
  BY SMTT(60), <1>2 DEF Fetch
<1>4. Become(w, r) /\ wk[w].pc = "fetch" /\ owner[p] = w /\ SameDb /\ UNCHANGED <<committed, pushes>>
  BY DEF Fetch, SameDb, kafka, db
<1>5. wk'[w] = r /\ \A v \in Worker \ {w} : wk'[v] = wk[v]
  BY <1>4, BecomeOnly
<1> HIDE DEF it, tk
<1>6. /\ r.items = it /\ r.taken = tk /\ r.stale = wk[w].stale /\ r.pc = wk[w].pc
      /\ r.todo = wk[w].todo /\ r.singles = wk[w].singles /\ r.old = wk[w].old
      /\ r.pending = wk[w].pending /\ r.ret = wk[w].ret /\ r.plan = wk[w].plan
      /\ r.asg = wk[w].asg /\ r.next = wk[w].next /\ r.out = wk[w].out /\ r.fail = wk[w].fail
  BY <1>1 DEF Iteration
<1> HIDE DEF r, n
<1>7. it = Append(wk[w].items, log[p][n]) /\ tk = [wk[w].taken EXCEPT ![p] = @ + 1]
  BY DEF it, tk, n
<1>8. SameTx(w)
  BY <1>5, <1>6 DEF SameTx
<1>9. PICK x \in Record : x = log[p][n]
  BY <1>3
<1>10. n \in Nat /\ n = committed[p] + wk[w].taken[p] + 1
  BY SMTT(30), <1>2 DEF n
<1>11. Fetches(w, p, n, x)
  BY <1>3, <1>4, <1>5, <1>6, <1>7, <1>8, <1>9, <1>10 DEF Fetches
<1> QED
  BY <1>9, <1>10, <1>11

LEMMA ResolveDoes ==
  ASSUME TypeOK, NEW w \in Worker, Resolve(w)
  PROVE  /\ Kept(w) /\ SameTx(w) /\ SameDb /\ UNCHANGED <<committed, pushes>>
         /\ wk[w].pc = "fetch" /\ wk'[w].pc = "first"
         /\ wk'[w].todo \cup wk'[w].singles = SinglesOf(wk[w])
         /\ wk'[w].singles \subseteq SinglesOf(wk[w])
         /\ wk'[w].old = wk[w].old /\ wk'[w].pending = wk[w].pending
<1>1. wk[w] \in Iteration
  BY IterationType
<1> DEFINE new == {i \in Singles(w) : ~wk[w].items[i].conv /\ ConvOf[Message(w, i)] \notin convs}
           rest == Singles(w) \ new
           r == [wk[w] EXCEPT !.pc = "first", !.todo = new, !.singles = rest]
<1>2. Become(w, r) /\ wk[w].pc = "fetch" /\ SameDb /\ UNCHANGED <<committed, pushes>>
  BY DEF Resolve, SameDb, kafka, db
<1>3. Singles(w) = SinglesOf(wk[w])
  BY DEF Singles, SinglesOf, Message
<1>4. new \cup rest = SinglesOf(wk[w]) /\ rest \subseteq SinglesOf(wk[w])
  BY <1>3
<1>5. wk'[w] = r /\ \A v \in Worker \ {w} : wk'[v] = wk[v]
  BY <1>2, BecomeOnly
<1> HIDE DEF new, rest
<1>6. /\ r.items = wk[w].items /\ r.taken = wk[w].taken /\ r.stale = wk[w].stale
      /\ r.pc = "first" /\ r.todo = new /\ r.singles = rest /\ r.old = wk[w].old
      /\ r.pending = wk[w].pending /\ r.ret = wk[w].ret /\ r.plan = wk[w].plan
      /\ r.asg = wk[w].asg /\ r.next = wk[w].next /\ r.out = wk[w].out
  BY <1>1 DEF Iteration
<1> HIDE DEF r
<1> QED
  BY <1>2, <1>4, <1>5, <1>6 DEF Kept, SameTx

LEMMA SkipDoes ==
  ASSUME TypeOK, NEW w \in Worker, NEW i, SkipPoison(w, i) \/ SkipUnread(w, i)
  PROVE  /\ Kept(w) /\ SameTx(w) /\ SameDb /\ UNCHANGED <<committed, pushes>>
         /\ wk[w].pc \in Queues /\ i \in wk[w].todo
         /\ wk'[w].pc = wk[w].pc /\ wk'[w].todo = wk[w].todo \ {i}
         /\ wk'[w].singles = wk[w].singles
         /\ wk'[w].old = wk[w].old /\ wk'[w].pending = wk[w].pending
<1> DEFINE r == [wk[w] EXCEPT !.todo = @ \ {i}]
<1>1. wk[w] \in Iteration
  BY IterationType
<1>2. Become(w, r) /\ IsNext(w, i) /\ SameDb /\ UNCHANGED <<committed, pushes>>
  BY DEF SkipPoison, SkipUnread, SameDb, kafka, db
<1>3. wk'[w] = r /\ \A v \in Worker \ {w} : wk'[v] = wk[v]
  BY <1>2, BecomeOnly
<1> QED
  BY <1>1, <1>2, <1>3 DEF Kept, SameTx, IsNext, Iteration

LEMMA HandleRefusedDoes ==
  ASSUME TypeOK, NEW w \in Worker, NEW i, HandleRefused(w, i)
  PROVE  /\ Kept(w) /\ SameTx(w) /\ SameDb /\ UNCHANGED <<committed, pushes>>
         /\ wk[w].pc \in Queues
         /\ wk'[w].pc = "flush" /\ wk'[w].fail
         /\ wk'[w].singles = wk[w].singles
         /\ wk'[w].old = wk[w].old /\ wk'[w].pending = wk[w].pending
<1> DEFINE r == [wk[w] EXCEPT !.pc = "flush", !.fail = TRUE]
<1>1. wk[w] \in Iteration
  BY IterationType
<1>2. Become(w, r) /\ IsNext(w, i) /\ SameDb /\ UNCHANGED <<committed, pushes>>
  BY DEF HandleRefused, SameDb, kafka, db
<1>3. wk'[w] = r /\ \A v \in Worker \ {w} : wk'[v] = wk[v]
  BY <1>2, BecomeOnly
<1> QED
  BY <1>1, <1>2, <1>3 DEF Kept, SameTx, IsNext, Iteration

LEMMA HandleReplayDoes ==
  ASSUME ConstantsAssumption, TypeOK, NEW w \in Worker, NEW i, HandleReplay(w, i)
  PROVE  \E us \in SUBSET Uid : LET m == wk[w].items[i].msg IN
         /\ Kept(w) /\ SameTx(w) /\ SameDb /\ UNCHANGED <<committed, pushes>>
         /\ wk[w].pc \in Queues /\ i \in wk[w].todo /\ \A j \in wk[w].todo : i <= j
         /\ row[m] # 0
         /\ wk'[w].pc = wk[w].pc /\ wk'[w].todo = wk[w].todo \ {i}
         /\ wk'[w].singles = wk[w].singles /\ wk'[w].old = wk[w].old
         /\ us \in Targets(m)
         /\ wk'[w].pending = AppendTo(wk[w].pending, us, [msg |-> m, seq |-> row[m]])
<1> DEFINE m == wk[w].items[i].msg
<1>1. wk[w] \in Iteration /\ i \in wk[w].todo /\ i \in DOMAIN wk[w].items
  BY IterationType DEF HandleReplay, IsNext
<1>2. m \in Msg /\ Message(w, i) = m
  BY SMTT(60), <1>1, IterationType
<1>3. PICK us \in Targets(m) :
        Become(w, [wk[w] EXCEPT !.todo = @ \ {i},
                                !.pending = AppendTo(@, us, [msg |-> m, seq |-> row[m]])])
  BY Zenon, <1>2 DEF HandleReplay
<1> us \in SUBSET Uid
  BY <1>2, TargetsType
<1> DEFINE q == AppendTo(wk[w].pending, us, [msg |-> m, seq |-> row[m]])
           r == [wk[w] EXCEPT !.todo = @ \ {i}, !.pending = q]
<1>5. wk'[w] = r /\ \A v \in Worker \ {w} : wk'[v] = wk[v]
  BY <1>3, BecomeOnly
<1> HIDE DEF q
<1>6. /\ r.items = wk[w].items /\ r.taken = wk[w].taken /\ r.stale = wk[w].stale
      /\ r.pc = wk[w].pc /\ r.todo = wk[w].todo \ {i} /\ r.singles = wk[w].singles
      /\ r.old = wk[w].old /\ r.pending = q /\ r.ret = wk[w].ret /\ r.plan = wk[w].plan
      /\ r.asg = wk[w].asg /\ r.next = wk[w].next /\ r.out = wk[w].out
  BY <1>1 DEF Iteration
<1> HIDE DEF r
<1>7. row[m] # 0 /\ SameDb /\ UNCHANGED <<committed, pushes>>
  BY <1>2 DEF HandleReplay, SameDb, kafka
<1>8. wk[w].pc \in Queues /\ \A j \in wk[w].todo : i <= j
  BY DEF HandleReplay, IsNext
<1>9. Kept(w) /\ SameTx(w)
  BY <1>5, <1>6 DEF Kept, SameTx
<1>10. wk'[w].pending = AppendTo(wk[w].pending, us, [msg |-> m, seq |-> row[m]])
  BY <1>5, <1>6 DEF q
<1> HIDE DEF m
<1> WITNESS us \in SUBSET Uid
<1> QED
  BY <1>1, <1>3, <1>5, <1>6, <1>7, <1>8, <1>9, <1>10 DEF m

LEMMA HandleNewDoes ==
  ASSUME TypeOK, NEW w \in Worker, NEW i, HandleNew(w, i)
  PROVE  LET m == wk[w].items[i].msg IN
         /\ Kept(w) /\ SameDb /\ UNCHANGED <<committed, pushes>>
         /\ wk[w].pc \in Queues /\ i \in wk[w].todo /\ \A j \in wk[w].todo : i <= j
         /\ row[m] = 0 /\ FaultOf[m] # "nouser"
         /\ wk'[w].pc = "seq" /\ wk'[w].ret = wk[w].pc /\ wk'[w].plan = {i}
         /\ wk'[w].asg = wk[w].asg /\ wk'[w].next = wk[w].next /\ wk'[w].out = wk[w].out
         /\ wk'[w].todo = wk[w].todo /\ wk'[w].singles = wk[w].singles
         /\ wk'[w].old = wk[w].old /\ wk'[w].pending = wk[w].pending
<1> DEFINE r == [wk[w] EXCEPT !.pc = "seq", !.ret = wk[w].pc, !.plan = {i}]
<1>1. wk[w] \in Iteration /\ i \in wk[w].todo /\ i \in DOMAIN wk[w].items
  BY IterationType DEF HandleNew, IsNext
<1>2. Become(w, r) /\ IsNext(w, i) /\ SameDb /\ UNCHANGED <<committed, pushes>>
  BY DEF HandleNew, SameDb, kafka
<1>3. wk'[w] = r /\ \A v \in Worker \ {w} : wk'[v] = wk[v]
  BY <1>2, BecomeOnly
<1>4. row[wk[w].items[i].msg] = 0 /\ FaultOf[wk[w].items[i].msg] # "nouser"
  BY DEF HandleNew, IsPoison, Message
<1> QED
  BY <1>1, <1>2, <1>3, <1>4 DEF Kept, IsNext, Iteration

LEMMA QueueDoneDoes ==
  ASSUME TypeOK, NEW w \in Worker, QueueDone(w)
  PROVE  /\ Kept(w) /\ SameTx(w) /\ SameDb /\ UNCHANGED <<committed, pushes>>
         /\ wk[w].pc \in Queues /\ wk[w].todo = {}
         /\ \/ wk[w].pc = "first" /\ wk'[w].pc = "select"
            \/ wk[w].pc = "other" /\ wk'[w].pc = "flush" /\ wk'[w].fail = wk[w].fail
            \/ /\ (wk[w].pc = "first" /\ wk[w].singles = {}) \/ wk[w].pc = "fallback"
               /\ wk'[w].pc = "other" /\ wk'[w].todo = OthersOf(wk[w])
         /\ wk'[w].singles = wk[w].singles
         /\ wk'[w].old = wk[w].old /\ wk'[w].pending = wk[w].pending
<1>1. wk[w] \in Iteration
  BY IterationType
<1>2. wk[w].pc \in Queues /\ wk[w].todo = {} /\ SameDb /\ UNCHANGED <<committed, pushes>>
  BY DEF QueueDone, SameDb, kafka, db
<1>3. Others(w) = OthersOf(wk[w])
  BY DEF Others, OthersOf, Message
<1>4. CASE wk[w].pc = "first" /\ wk[w].singles # {}
  <2> DEFINE r == [wk[w] EXCEPT !.pc = "select"]
  <2>1. Become(w, r)
    BY <1>4 DEF QueueDone
  <2>2. wk'[w] = r /\ \A v \in Worker \ {w} : wk'[v] = wk[v]
    BY <2>1, BecomeOnly
  <2> QED
    BY <1>1, <1>2, <1>4, <2>2 DEF Kept, SameTx, Iteration
<1>5. CASE wk[w].pc = "other"
  <2> DEFINE r == [wk[w] EXCEPT !.pc = "flush"]
  <2>1. Become(w, r)
    BY <1>5 DEF QueueDone
  <2>2. wk'[w] = r /\ \A v \in Worker \ {w} : wk'[v] = wk[v]
    BY <2>1, BecomeOnly
  <2> QED
    BY <1>1, <1>2, <1>5, <2>2 DEF Kept, SameTx, Iteration
<1>6. CASE (wk[w].pc = "first" /\ wk[w].singles = {}) \/ wk[w].pc = "fallback"
  <2> DEFINE r == [wk[w] EXCEPT !.pc = "other", !.todo = OthersOf(wk[w])]
  <2>1. Become(w, r)
    BY <1>3, <1>6 DEF QueueDone
  <2>2. wk'[w] = r /\ \A v \in Worker \ {w} : wk'[v] = wk[v]
    BY <2>1, BecomeOnly
  <2> QED
    BY <1>1, <1>2, <1>6, <2>2 DEF Kept, SameTx, Iteration
<1> QED
  BY <1>2, <1>4, <1>5, <1>6 DEF Queues

LEMMA SelectDoes ==
  ASSUME TypeOK, NEW w \in Worker, Select(w)
  PROVE  /\ Kept(w) /\ SameDb /\ UNCHANGED <<committed, pushes>>
         /\ wk[w].pc = "select"
         /\ wk'[w].singles = wk[w].singles /\ wk'[w].pending = wk[w].pending
         /\ wk'[w].asg = wk[w].asg /\ wk'[w].next = wk[w].next /\ wk'[w].out = wk[w].out
         /\ \/ /\ NotStored(w) = {} /\ SameTx(w)
               /\ wk'[w].pc = "replay" /\ wk'[w].old = Once(w)
            \/ /\ SameTx(w) /\ wk'[w].old = wk[w].old
               /\ wk'[w].pc = "fallback" /\ wk'[w].todo = SinglesOf(wk[w])
            \/ /\ ~FallsBack(w)
               /\ wk'[w].pc = "seq" /\ wk'[w].ret = "select"
               /\ wk'[w].plan = NotStored(w) /\ wk'[w].old = Once(w) \ NotStored(w)
<1>1. wk[w] \in Iteration
  BY IterationType
<1>2. wk[w].pc = "select" /\ SameDb /\ UNCHANGED <<committed, pushes>>
  BY DEF Select, SameDb, kafka, db
<1>3. Singles(w) = SinglesOf(wk[w])
  BY DEF Singles, SinglesOf, Message
<1>4. CASE NotStored(w) = {}
  <2> DEFINE r == [wk[w] EXCEPT !.pc = "replay", !.old = Once(w)]
  <2>1. Become(w, r)
    BY <1>4 DEF Select
  <2>2. wk'[w] = r /\ \A v \in Worker \ {w} : wk'[v] = wk[v]
    BY <2>1, BecomeOnly
  <2> QED
    BY <1>1, <1>2, <1>4, <2>2 DEF Kept, SameTx, Iteration
<1>5. CASE NotStored(w) # {} /\ FallsBack(w)
  <2> DEFINE r == [wk[w] EXCEPT !.pc = "fallback", !.todo = SinglesOf(wk[w])]
  <2>1. Become(w, r)
    BY <1>3, <1>5 DEF Select
  <2>2. wk'[w] = r /\ \A v \in Worker \ {w} : wk'[v] = wk[v]
    BY <2>1, BecomeOnly
  <2> QED
    BY <1>1, <1>2, <1>5, <2>2 DEF Kept, SameTx, Iteration
<1>6. CASE NotStored(w) # {} /\ ~FallsBack(w)
  <2> DEFINE r == [wk[w] EXCEPT !.pc = "seq", !.ret = "select", !.plan = NotStored(w),
                                !.old = Once(w) \ NotStored(w)]
  <2>1. Become(w, r)
    BY <1>6 DEF Select
  <2>2. wk'[w] = r /\ \A v \in Worker \ {w} : wk'[v] = wk[v]
    BY <2>1, BecomeOnly
  <2> QED
    BY <1>1, <1>2, <1>6, <2>2 DEF Kept, SameTx, Iteration
<1> QED
  BY <1>4, <1>5, <1>6

LEMMA ReplayDoes ==
  ASSUME ConstantsAssumption, TypeOK, NEW w \in Worker, NEW i, Replay(w, i)
  PROVE  LET m == wk[w].items[i].msg IN
         /\ Kept(w) /\ SameTx(w) /\ SameDb /\ UNCHANGED <<committed, pushes>>
         /\ wk[w].pc = "replay" /\ i \in wk[w].old
         /\ wk'[w].pc = wk[w].pc /\ wk'[w].singles = wk[w].singles
         /\ wk'[w].old = wk[w].old \ {i}
         /\ wk'[w].pending = AppendTo(wk[w].pending, Dest[m], [msg |-> m, seq |-> row[m]])
<1> DEFINE m == wk[w].items[i].msg
           q == AppendTo(wk[w].pending, Dest[m], [msg |-> m, seq |-> row[m]])
           r == [wk[w] EXCEPT !.old = @ \ {i}, !.pending = q]
<1>1. wk[w] \in Iteration
  BY IterationType
<1>2. Message(w, i) = m
  BY DEF Message
<1>3. Become(w, r)
  BY <1>2 DEF Replay
<1>4. wk[w].pc = "replay" /\ i \in wk[w].old /\ SameDb /\ UNCHANGED <<committed, pushes>>
  BY DEF Replay, SameDb, kafka, db
<1>5. wk'[w] = r /\ \A v \in Worker \ {w} : wk'[v] = wk[v]
  BY <1>3, BecomeOnly
<1> HIDE DEF q
<1>6. /\ r.items = wk[w].items /\ r.taken = wk[w].taken /\ r.stale = wk[w].stale
      /\ r.pc = wk[w].pc /\ r.singles = wk[w].singles
      /\ r.old = wk[w].old \ {i} /\ r.pending = q /\ r.ret = wk[w].ret /\ r.plan = wk[w].plan
      /\ r.asg = wk[w].asg /\ r.next = wk[w].next /\ r.out = wk[w].out
  BY <1>1 DEF Iteration
<1> HIDE DEF r
<1>7. Kept(w) /\ SameTx(w)
  BY <1>5, <1>6 DEF Kept, SameTx
<1> QED
  BY <1>4, <1>5, <1>6, <1>7 DEF q

LEMMA ReplayDoneDoes ==
  ASSUME TypeOK, NEW w \in Worker, ReplayDone(w)
  PROVE  /\ Kept(w) /\ SameTx(w) /\ SameDb /\ UNCHANGED <<committed, pushes>>
         /\ wk[w].pc = "replay" /\ wk[w].old = {}
         /\ wk'[w].pc = "other" /\ wk'[w].todo = OthersOf(wk[w])
         /\ wk'[w].singles = wk[w].singles
         /\ wk'[w].old = wk[w].old /\ wk'[w].pending = wk[w].pending
<1> DEFINE r == [wk[w] EXCEPT !.pc = "other", !.todo = OthersOf(wk[w])]
<1>1. wk[w] \in Iteration
  BY IterationType
<1>2. Others(w) = OthersOf(wk[w])
  BY DEF Others, OthersOf, Message
<1>3. Become(w, r) /\ wk[w].pc = "replay" /\ wk[w].old = {}
  BY <1>2 DEF ReplayDone
<1>4. SameDb /\ UNCHANGED <<committed, pushes>>
  BY DEF ReplayDone, SameDb, kafka, db
<1>5. wk'[w] = r /\ \A v \in Worker \ {w} : wk'[v] = wk[v]
  BY <1>3, BecomeOnly
<1> QED
  BY <1>1, <1>3, <1>4, <1>5 DEF Kept, SameTx, Iteration

\* The locks of the others stay when w takes some that were free, or lets go.
OthersLocks(w) == \A v \in Worker \ {w} : \A c \in Conv : lock'[c] = v <=> lock[c] = v

LEMMA NextSeqDoes ==
  ASSUME ConstantsAssumption, TypeOK, NEW w \in Worker, NextSeq(w)
  PROVE  /\ Kept(w) /\ OthersLocks(w)
         /\ UNCHANGED <<log, owner, row, counter, lastSeq, committed, pushes>>
         /\ wk[w].pc = "seq" /\ wk'[w].pc = "assign" /\ wk'[w].next = counter
         /\ wk'[w].ret = wk[w].ret /\ wk'[w].plan = wk[w].plan
         /\ wk'[w].asg = wk[w].asg /\ wk'[w].out = wk[w].out
         /\ wk'[w].todo = wk[w].todo /\ wk'[w].singles = wk[w].singles
         /\ wk'[w].old = wk[w].old /\ wk'[w].pending = wk[w].pending
<1> DEFINE r == [wk[w] EXCEPT !.pc = "assign", !.next = counter]
<1>1. wk[w] \in Iteration
  BY IterationType
<1>2. Become(w, r) /\ wk[w].pc = "seq"
  BY DEF NextSeq
<1>3. UNCHANGED <<log, owner, row, counter, lastSeq, committed, pushes>>
  BY DEF NextSeq, kafka
<1>4. OthersLocks(w)
  BY DEF NextSeq, OthersLocks, ConstantsAssumption
<1>5. wk'[w] = r /\ \A v \in Worker \ {w} : wk'[v] = wk[v]
  BY SMTT(60), <1>2, BecomeOnly
<1> QED
  BY <1>1, <1>2, <1>3, <1>4, <1>5 DEF Kept, Iteration

LEMMA AssignDoes ==
  ASSUME ConstantsAssumption, TypeOK, NEW w \in Worker, NEW i, Assign(w, i)
  PROVE  \E us \in SUBSET Uid :
         LET m == wk[w].items[i].msg
             n == wk[w].next[ConvOf[m]] + 1
         IN
         /\ Kept(w) /\ SameDb /\ UNCHANGED <<committed, pushes>>
         /\ wk[w].pc = "assign" /\ wk'[w].pc = "assign" /\ wk'[w].ret = wk[w].ret
         /\ i \in wk[w].plan /\ wk'[w].plan = wk[w].plan \ {i}
         /\ wk'[w].next = [wk[w].next EXCEPT ![ConvOf[m]] = n]
         /\ wk'[w].asg = [wk[w].asg EXCEPT ![m] = n]
         /\ wk'[w].out = AppendTo(wk[w].out, us, [msg |-> m, seq |-> n])
         /\ us \in Targets(m)
         /\ wk'[w].todo = wk[w].todo /\ wk'[w].singles = wk[w].singles
         /\ wk'[w].old = wk[w].old /\ wk'[w].pending = wk[w].pending
<1> DEFINE m == wk[w].items[i].msg
           n == wk[w].next[ConvOf[m]] + 1
<1>1. wk[w] \in Iteration /\ i \in wk[w].plan /\ i \in DOMAIN wk[w].items
  BY IterationType DEF Assign
<1>2. m \in Msg /\ Message(w, i) = m /\ Number(w, m) = n
  BY SMTT(60), <1>1, IterationType DEF Number
<1>3. PICK us \in Targets(m) :
        Become(w, [wk[w] EXCEPT !.plan = @ \ {i},
                                !.next = [@ EXCEPT ![ConvOf[m]] = n],
                                !.asg = [@ EXCEPT ![m] = n],
                                !.out = AppendTo(@, us, [msg |-> m, seq |-> n])])
  BY Zenon, <1>2 DEF Assign
<1>4. us \in SUBSET Uid
  BY SMTT(60), <1>2, TargetsType
<1> DEFINE nx == [wk[w].next EXCEPT ![ConvOf[m]] = n]
           as == [wk[w].asg EXCEPT ![m] = n]
           q == AppendTo(wk[w].out, us, [msg |-> m, seq |-> n])
           r == [wk[w] EXCEPT !.plan = @ \ {i}, !.next = nx, !.asg = as, !.out = q]
<1>5. wk'[w] = r /\ \A v \in Worker \ {w} : wk'[v] = wk[v]
  BY Zenon, <1>3, BecomeOnly
<1> HIDE DEF nx, as, q
<1>6. /\ r.items = wk[w].items /\ r.taken = wk[w].taken /\ r.stale = wk[w].stale
      /\ r.pc = wk[w].pc /\ r.todo = wk[w].todo /\ r.singles = wk[w].singles
      /\ r.old = wk[w].old /\ r.pending = wk[w].pending /\ r.ret = wk[w].ret
      /\ r.plan = wk[w].plan \ {i} /\ r.asg = as /\ r.next = nx /\ r.out = q
  BY <1>1 DEF Iteration
<1> HIDE DEF r
<1>7. wk[w].pc = "assign" /\ SameDb /\ UNCHANGED <<committed, pushes>>
  BY DEF Assign, SameDb, kafka, db
<1>8. Kept(w)
  BY SMTT(60), <1>5, <1>6 DEF Kept
<1>9. /\ wk'[w].next = [wk[w].next EXCEPT ![ConvOf[m]] = n]
      /\ wk'[w].asg = [wk[w].asg EXCEPT ![m] = n]
      /\ wk'[w].out = AppendTo(wk[w].out, us, [msg |-> m, seq |-> n])
  BY SMTT(60), <1>5, <1>6 DEF nx, as, q
<1> HIDE DEF m, n
<1>10. /\ Kept(w) /\ SameDb /\ UNCHANGED <<committed, pushes>>
       /\ wk[w].pc = "assign" /\ wk'[w].pc = "assign" /\ wk'[w].ret = wk[w].ret
       /\ i \in wk[w].plan /\ wk'[w].plan = wk[w].plan \ {i}
       /\ wk'[w].todo = wk[w].todo /\ wk'[w].singles = wk[w].singles
       /\ wk'[w].old = wk[w].old /\ wk'[w].pending = wk[w].pending
  BY Zenon, <1>1, <1>5, <1>6, <1>7, <1>8
<1>11. us \in Targets(m)
  OBVIOUS
<1> QED
  BY Zenon, <1>4, <1>9, <1>10, <1>11 DEF m, n

LEMMA InsertDoes ==
  ASSUME ConstantsAssumption, TypeOK, NEW w \in Worker, Insert(w)
  PROVE  /\ Kept(w) /\ OthersLocks(w) /\ UNCHANGED <<log, owner, committed, pushes>>
         /\ \A m \in Msg : row'[m] = IF row[m] = 0 THEN wk[w].asg[m] ELSE row[m]
         /\ \A c \in Conv : counter'[c] = IF lock[c] = w THEN wk[w].next[c] ELSE counter[c]
         /\ \A c \in Conv : lastSeq'[c] = NewLastSeq(w, c)
         /\ \A c \in Conv : lock'[c] # w
         /\ wk[w].pc = "assign" /\ wk[w].plan = {} /\ wk'[w].plan = {}
         /\ wk'[w].pc = IF wk[w].ret = "select" THEN "replay" ELSE wk[w].ret
         /\ wk[w].ret # "select" =>
              wk'[w].todo = wk[w].todo \ {i \in wk[w].todo : \A j \in wk[w].todo : i <= j}
         /\ wk'[w].ret = wk[w].ret /\ wk'[w].asg = Fresh.asg /\ wk'[w].out = Fresh.out
         /\ wk'[w].pending = [u \in Uid |-> wk[w].pending[u] \o wk[w].out[u]]
         /\ wk'[w].singles = wk[w].singles /\ wk'[w].old = wk[w].old
<1>1. wk[w] \in Iteration
  BY IterationType
<1> DEFINE q == [u \in Uid |-> wk[w].pending[u] \o wk[w].out[u]]
           t == IF wk[w].ret = "select"
                  THEN {} ELSE wk[w].todo \ {i \in wk[w].todo : \A j \in wk[w].todo : i <= j}
           pc == IF wk[w].ret = "select" THEN "replay" ELSE wk[w].ret
           a == Fresh.asg
           x == Fresh.next
           o == Fresh.out
           r == [wk[w] EXCEPT !.pc = pc, !.todo = t, !.pending = q,
                              !.asg = a, !.next = x, !.out = o]
<1>2. Become(w, r) /\ wk[w].pc = "assign" /\ wk[w].plan = {}
  BY DEF Insert
<1>3. wk'[w] = r /\ \A v \in Worker \ {w} : wk'[v] = wk[v]
  BY <1>2, BecomeOnly
<1> HIDE DEF q, t, pc, a, x, o
<1>4. /\ r.items = wk[w].items /\ r.taken = wk[w].taken /\ r.stale = wk[w].stale
      /\ r.pc = pc /\ r.todo = t /\ r.singles = wk[w].singles /\ r.old = wk[w].old
      /\ r.pending = q /\ r.ret = wk[w].ret /\ r.plan = wk[w].plan
      /\ r.asg = a /\ r.next = x /\ r.out = o
  BY <1>1 DEF Iteration
<1> HIDE DEF r
<1>5. Kept(w)
  BY <1>3, <1>4 DEF Kept
<1>6. OthersLocks(w) /\ \A c \in Conv : lock'[c] # w
  BY DEF Insert, OthersLocks, ConstantsAssumption
<1>7. /\ \A m \in Msg : row'[m] = IF row[m] = 0 THEN wk[w].asg[m] ELSE row[m]
      /\ \A c \in Conv : counter'[c] = IF lock[c] = w THEN wk[w].next[c] ELSE counter[c]
      /\ \A c \in Conv : lastSeq'[c] = NewLastSeq(w, c)
  BY DEF Insert, StoredRow, Held
<1>8. UNCHANGED <<log, owner, committed, pushes>>
  BY DEF Insert, kafka
<1>9. /\ wk'[w].pc = pc /\ wk'[w].pending = q /\ wk'[w].todo = t
      /\ wk'[w].asg = a /\ wk'[w].out = o
      /\ wk'[w].ret = wk[w].ret /\ wk'[w].singles = wk[w].singles
      /\ wk'[w].old = wk[w].old /\ wk'[w].plan = {}
  BY <1>2, <1>3, <1>4
<1> QED
  BY <1>2, <1>5, <1>6, <1>7, <1>8, <1>9 DEF q, t, pc, a, o

LEMMA AbortDoes ==
  ASSUME ConstantsAssumption, TypeOK, NEW w \in Worker, InsertConflict(w) \/ Fail(w)
  PROVE  /\ Kept(w) /\ OthersLocks(w)
         /\ UNCHANGED <<log, owner, row, counter, lastSeq, committed, pushes>>
         /\ \A c \in Conv : lock'[c] # w
         /\ wk'[w].pc = "flush" /\ wk'[w].fail /\ wk'[w].plan = {}
         /\ wk'[w].asg = Fresh.asg /\ wk'[w].out = Fresh.out
         /\ wk'[w].singles = wk[w].singles
         /\ wk'[w].old = wk[w].old /\ wk'[w].pending = wk[w].pending
<1>1. wk[w] \in Iteration
  BY IterationType
<1> DEFINE a == Fresh.asg
           x == Fresh.next
           o == Fresh.out
           r == [wk[w] EXCEPT !.pc = "flush", !.fail = TRUE, !.plan = {},
                              !.asg = a, !.next = x, !.out = o]
<1>2. Abort(w)
  BY DEF InsertConflict, Fail
<1>3. Become(w, r)
  BY <1>2 DEF Abort
<1>4. wk'[w] = r /\ \A v \in Worker \ {w} : wk'[v] = wk[v]
  BY <1>3, BecomeOnly
<1> HIDE DEF a, x, o
<1>5. /\ r.items = wk[w].items /\ r.taken = wk[w].taken /\ r.stale = wk[w].stale
      /\ r.pc = "flush" /\ r.fail = TRUE /\ r.plan = {} /\ r.asg = a /\ r.out = o
      /\ r.singles = wk[w].singles /\ r.old = wk[w].old /\ r.pending = wk[w].pending
  BY <1>1 DEF Iteration
<1> HIDE DEF r
<1>6. Kept(w)
  BY <1>4, <1>5 DEF Kept
<1>7. OthersLocks(w) /\ \A c \in Conv : lock'[c] # w
  BY <1>2 DEF Abort, OthersLocks, ConstantsAssumption
<1>8. UNCHANGED <<log, owner, row, counter, lastSeq, committed, pushes>>
  BY <1>2 DEF Abort, kafka
<1> QED
  BY <1>4, <1>5, <1>6, <1>7, <1>8 DEF a, o

LEMMA FlushDoes ==
  ASSUME TypeOK, NEW w \in Worker, FlushPushes(w)
  PROVE  /\ SameDb /\ UNCHANGED committed
         /\ pushes' = [u \in Uid |-> pushes[u] \o wk[w].pending[u]]
         /\ wk[w].pc = "flush"
         /\ \A v \in Worker \ {w} : wk'[v] = wk[v]
         /\ \/ wk[w].fail /\ wk'[w] = Fresh
            \/ /\ ~wk[w].fail /\ Kept(w) /\ SameTx(w)
               /\ wk'[w].pc = "offset" /\ wk'[w].pending = Fresh.pending
               /\ wk'[w].singles = wk[w].singles /\ wk'[w].old = wk[w].old
<1>1. wk[w] \in Iteration
  BY IterationType
<1>2. /\ SameDb /\ UNCHANGED committed /\ wk[w].pc = "flush"
      /\ pushes' = [u \in Uid |-> pushes[u] \o wk[w].pending[u]]
  BY DEF FlushPushes, SameDb, kafka, db
<1>3. CASE wk[w].fail
  <2>1. Become(w, Fresh)
    BY <1>3 DEF FlushPushes
  <2> QED
    BY <1>2, <1>3, <2>1, BecomeOnly
<1>4. CASE ~wk[w].fail
  <2> DEFINE q == Fresh.pending
             r == [wk[w] EXCEPT !.pc = "offset", !.pending = q]
  <2>1. Become(w, r)
    BY <1>4 DEF FlushPushes
  <2>2. wk'[w] = r /\ \A v \in Worker \ {w} : wk'[v] = wk[v]
    BY <2>1, BecomeOnly
  <2> HIDE DEF q
  <2>3. /\ r.items = wk[w].items /\ r.taken = wk[w].taken /\ r.stale = wk[w].stale
        /\ r.pc = "offset" /\ r.pending = q /\ r.ret = wk[w].ret /\ r.plan = wk[w].plan
        /\ r.asg = wk[w].asg /\ r.next = wk[w].next /\ r.out = wk[w].out
        /\ r.singles = wk[w].singles /\ r.old = wk[w].old
    BY <1>1 DEF Iteration
  <2> HIDE DEF r
  <2>4. Kept(w) /\ SameTx(w)
    BY <2>2, <2>3 DEF Kept, SameTx
  <2> QED
    BY <1>2, <1>4, <2>2, <2>3, <2>4 DEF q
<1> QED
  BY Zenon, <1>3, <1>4

LEMMA FreshAgain ==
  ASSUME ConstantsAssumption, TypeOK, NEW w \in Worker,
         FlushFailed(w) \/ CommitMessages(w) \/ CommitRefused(w) \/ Crash(w)
  PROVE  /\ UNCHANGED <<log, owner, row, counter, lastSeq>> /\ OthersLocks(w)
         /\ wk'[w] = Fresh /\ \A v \in Worker \ {w} : wk'[v] = wk[v]
         /\ wk[w].pc = "assign" => \A c \in Conv : lock'[c] # w
         /\ wk[w].pc # "assign" => \A c \in Conv : lock'[c] = w => lock[c] = w
         /\ ~CommitMessages(w) => UNCHANGED committed
         /\ ~FlushFailed(w) => UNCHANGED pushes
<1>1. Become(w, Fresh)
  BY Zenon DEF FlushFailed, CommitMessages, CommitRefused, Crash
<1>2. wk'[w] = Fresh /\ \A v \in Worker \ {w} : wk'[v] = wk[v]
  BY <1>1, BecomeOnly
<1>3. UNCHANGED <<log, owner, row, counter, lastSeq>>
  BY Zenon DEF FlushFailed, CommitMessages, CommitRefused, Crash, kafka, db
<1>4. CASE Crash(w)
  <2>1. /\ OthersLocks(w) /\ (\A c \in Conv : lock'[c] # w)
        /\ UNCHANGED <<committed, pushes>>
    BY <1>4 DEF Crash, OthersLocks, ConstantsAssumption, kafka
  <2> QED
    BY <1>2, <1>3, <2>1
<1>5. CASE ~Crash(w)
  <2>1. lock' = lock /\ wk[w].pc # "assign"
    BY Zenon, <1>5 DEF FlushFailed, CommitMessages, CommitRefused, db
  <2>2. (~CommitMessages(w) => UNCHANGED committed) /\ (~FlushFailed(w) => UNCHANGED pushes)
    BY Zenon, <1>5 DEF FlushFailed, CommitMessages, CommitRefused, kafka
  <2> QED
    BY <1>2, <1>3, <2>1, <2>2 DEF OthersLocks
<1> QED
  BY <1>4, <1>5

LEMMA LeastIndex ==
  ASSUME NEW S \in SUBSET Nat, NEW n \in S
  PROVE  \E a \in S : \A b \in S : a <= b
<1> S # {}
  OBVIOUS
<1>1. PICK a \in S : \A b \in S : <<b, a>> \notin OpToRel(<, Nat)
  BY ZenonT(60), WFMin, NatLessThanWellFounded
<1>2. \A b \in S : ~(b < a)
  BY <1>1, Zenon DEF OpToRel
<1> QED
  BY <1>2

LEMMA NatOrder == \A a, b \in Nat : a < b \/ b < a \/ a = b
  OBVIOUS

-----------------------------------------------------------------------------
\* HistInv is inductive.

LEMMA PushesTrueAgain ==
  ASSUME NEW q \in [Uid -> Seq(Push)], TruePushes(q),
         \A m \in Msg : row[m] # 0 => row'[m] = row[m]
  PROVE  \A u \in Uid : \A x \in Elements(q[u]) : row'[x.msg] # 0 /\ x.seq = row'[x.msg]
<1> SUFFICES ASSUME NEW u \in Uid, NEW x \in Elements(q[u])
             PROVE  row'[x.msg] # 0 /\ x.seq = row'[x.msg]
  OBVIOUS
<1>1. x \in Push
  BY ElementsType
<1>2. x.msg \in Msg
  BY <1>1 DEF Push
<1> QED
  BY <1>2 DEF TruePushes

(***************************************************************************)
(* What holds of a worker holds on when others store messages: its own are *)
(* not among them.                                                         *)
(***************************************************************************)
LEMMA HistoryStays ==
  ASSUME ConstantsAssumption, TypeOK, NEW v \in Worker, HistoryOK(v, wk[v]),
         wk'[v] = wk[v], owner' = owner,
         \A m \in Msg : row[m] # 0 \/ Fit(v, m) => row'[m] = row[m],
         \A c \in Conv : lock'[c] = v => lock[c] = v /\ counter'[c] = counter[c]
  PROVE  HistoryOK(v, wk[v])'
<1>1. /\ wk[v] \in Iteration /\ wk[v].plan \subseteq DOMAIN wk[v].items
      /\ wk[v].old \subseteq DOMAIN wk[v].items
      /\ \A i \in DOMAIN wk[v].items : wk[v].items[i].msg \in Msg
  BY IterationType
<1>2. \A m \in Msg : Home(m)' = Home(m)
  BY DEF Home
<1>3. \A m \in Msg : Fit(v, m) => Fit(v, m)'
  BY <1>2 DEF Fit
<1>4. ItemsOK(v, wk[v])'
  BY SMTT(60), <1>1, <1>2 DEF HistoryOK, ItemsOK
<1>5. PlanOK(v, wk[v])'
  BY <1>1, <1>3 DEF HistoryOK, PlanOK
<1>6. NumbersOK(v, wk[v])'
  BY <1>1, <1>3 DEF HistoryOK, NumbersOK
<1>7. QueuesOK(wk[v])'
  <2>1. wk[v].pending \in [Uid -> Seq(Push)]
    BY Zenon, <1>1, FieldTypes
  <2>2. \A u \in Uid : \A x \in Elements(wk[v].pending[u]) :
          row'[x.msg] # 0 /\ x.seq = row'[x.msg]
    BY <2>1, PushesTrueAgain DEF HistoryOK, QueuesOK
  <2> QED
    BY <2>2 DEF HistoryOK, QueuesOK, TruePushes
<1>8. OldOK(wk[v])'
  BY <1>1 DEF HistoryOK, OldOK
<1> QED
  BY <1>4, <1>5, <1>6, <1>7, <1>8 DEF HistoryOK

(***************************************************************************)
(* A step of w that leaves the rows alone.                                 *)
(***************************************************************************)
LEMMA WorkerHistory ==
  ASSUME ConstantsAssumption, TypeOK, HistInv, NEW w \in Worker,
         UNCHANGED <<log, owner, row, counter, lastSeq>>, OthersLocks(w),
         \A v \in Worker \ {w} : wk'[v] = wk[v],
         TruePushes(pushes)', HistoryOK(w, wk[w])'
  PROVE  HistInv'
<1>1. ASSUME NEW v \in Worker PROVE HistoryOK(v, wk[v])'
  <2>1. CASE v = w
    BY <2>1
  <2>2. CASE v # w
    BY <2>2, HistoryStays DEF HistInv, OthersLocks
  <2> QED
    BY <2>1, <2>2
<1>2. LogOK'
  BY DEF HistInv, LogOK
<1>3. NoHole' /\ (lastSeq = counter)' /\ UnknownUserNeverStored'
  BY DEF HistInv, NoHole, Stored, UnknownUserNeverStored
<1> QED
  BY <1>1, <1>2, <1>3 DEF HistInv

(***************************************************************************)
(* A step that leaves the transaction of w alone, or in which w has none.  *)
(***************************************************************************)
LEMMA LightHistory ==
  ASSUME ConstantsAssumption, TypeOK, HistInv, NEW w \in Worker, SameDb,
         Kept(w), SameTx(w), wk'[w].pc \notin {"seq", "assign"} => wk[w].plan = {},
         wk'[w].old \subseteq wk[w].old, TruePushes(wk[w].pending)', TruePushes(pushes)'
  PROVE  HistInv'
<1>1. HistoryOK(w, wk[w])
  BY DEF HistInv
<1>2. \A m \in Msg : Home(m)' = Home(m)
  BY DEF Home, SameDb
<1>3. \A m \in Msg : Fit(w, m) => Fit(w, m)'
  BY <1>2 DEF Fit, SameDb
<1>4. /\ wk[w].plan \subseteq DOMAIN wk[w].items
      /\ \A i \in DOMAIN wk[w].items : wk[w].items[i].msg \in Msg
  BY IterationType
<1>5. ItemsOK(w, wk[w])'
  BY <1>1, <1>2, <1>4 DEF HistoryOK, ItemsOK, Kept, SameDb
<1>6. PlanOK(w, wk[w])'
  BY <1>1, <1>3, <1>4 DEF HistoryOK, PlanOK, Kept, SameTx
<1>7. NumbersOK(w, wk[w])'
  BY <1>1, <1>3 DEF HistoryOK, NumbersOK, SameTx, SameDb
<1>8. QueuesOK(wk[w])'
  BY <1>1 DEF HistoryOK, QueuesOK, SameTx, SameDb
<1>9. OldOK(wk[w])'
  BY <1>1 DEF HistoryOK, OldOK, Kept, SameDb
<1>10. HistoryOK(w, wk[w])'
  BY <1>5, <1>6, <1>7, <1>8, <1>9 DEF HistoryOK
<1> QED
  BY <1>10, WorkerHistory DEF SameDb, Kept, OthersLocks

\* A worker outside of a transaction has no plan, no numbers and no locks.
LEMMA NoTransaction ==
  ASSUME ConstantsAssumption, SeqInv, NEW w \in Worker, wk[w].pc # "assign"
  PROVE  /\ \A m \in Msg : wk[w].asg[m] = 0
         /\ \A c \in Conv : lock[c] # w
         /\ wk[w].pc # "seq" /\ PlanOK(w, wk[w]) => wk[w].plan = {}
  BY NoNumbers DEF PlanOK

\* A worker that begins again has nothing to be wrong about.
LEMMA FreshHistory ==
  ASSUME ConstantsAssumption, NEW w \in Worker, wk'[w] = Fresh, \A c \in Conv : lock'[c] # w
  PROVE  HistoryOK(w, wk[w])'
<1>1. /\ wk'[w].items = <<>> /\ wk'[w].plan = {} /\ wk'[w].old = {}
      /\ \A m \in Msg : wk'[w].asg[m] = 0
      /\ \A u \in Uid : wk'[w].pending[u] = <<>> /\ wk'[w].out[u] = <<>>
  BY DEF Fresh
<1>2. QueuesOK(wk[w])'
  BY <1>1, ElementsEmpty DEF QueuesOK, TruePushes
<1> QED
  BY <1>1, <1>2 DEF HistoryOK, ItemsOK, PlanOK, NumbersOK, OldOK

\* NoHole, element by element.
Filled ==
  \A c \in Conv :
    /\ \A m \in Msg : ConvOf[m] = c /\ row[m] # 0 => row[m] \in 1 .. counter[c]
    /\ \A n \in 1 .. counter[c] : \E m \in Msg : ConvOf[m] = c /\ row[m] = n

LEMMA NoHoleMeans == (NoHole <=> Filled) /\ (NoHole' <=> Filled')
<1> DEFINE S(f, c) == {f[m] : m \in {n \in Msg : ConvOf[n] = c /\ f[n] # 0}}
           In(f, N, c) == \A m \in Msg : ConvOf[m] = c /\ f[m] # 0 => f[m] \in N
           On(f, N, c) == \A n \in N : \E m \in Msg : ConvOf[m] = c /\ f[m] = n
<1>1. ASSUME NEW f, NEW N, NEW c, 0 \notin N
      PROVE  S(f, c) = N <=> In(f, N, c) /\ On(f, N, c)
  <2>1. (S(f, c) \subseteq N) <=> In(f, N, c)
    OBVIOUS
  <2>2. (N \subseteq S(f, c)) <=> On(f, N, c)
    BY <1>1
  <2>3. S(f, c) = N <=> S(f, c) \subseteq N /\ N \subseteq S(f, c)
    OBVIOUS
  <2> QED
    BY <2>1, <2>2, <2>3
<1>2. \A k : 0 \notin 1 .. k
  OBVIOUS
<1>3. \A c \in Conv : {row[m] : m \in Stored(c)} = S(row, c)
  BY DEF Stored
<1>4. \A c \in Conv : {row'[m] : m \in Stored(c)'} = S(row', c)
  BY DEF Stored
<1>5. Filled <=> \A c \in Conv : In(row, 1 .. counter[c], c) /\ On(row, 1 .. counter[c], c)
  BY DEF Filled
<1>6. Filled' <=> \A c \in Conv : In(row', 1 .. counter'[c], c) /\ On(row', 1 .. counter'[c], c)
  BY DEF Filled
<1> HIDE DEF S, In, On
<1>7. NoHole <=> \A c \in Conv : S(row, c) = 1 .. counter[c]
  BY Zenon, <1>3 DEF NoHole
<1>8. NoHole' <=> \A c \in Conv : S(row', c) = 1 .. counter'[c]
  BY Zenon, <1>4 DEF NoHole
<1> QED
  BY ZenonT(60), <1>1, <1>2, <1>5, <1>6, <1>7, <1>8

\* What others read of the rows when only the message m is added to them.
LEMMA StoredStays ==
  ASSUME TypeOK, \A m \in Msg : row[m] # 0 => row'[m] = row[m], UNCHANGED <<owner, log>>, LogOK
  PROVE  LogOK'
<1> SUFFICES ASSUME NEW p \in Partition, NEW o \in DOMAIN log[p]
             PROVE  /\ Place(log[p][o].msg) = p
                    /\ KindOf[log[p][o].msg] = "event" => row'[log[p][o].msg] # 0
  BY DEF LogOK
<1>1. log[p] \in Seq(Record)
  BY DEF TypeOK
<1>2. log[p][o] \in Record
  BY <1>1
<1>3. log[p][o].msg \in Msg
  BY <1>2 DEF Record
<1> QED
  BY <1>3 DEF LogOK

LEMMA SendHistory ==
  ASSUME ConstantsAssumption, OneWriter, TypeOK, HistInv, NEW m \in Msg, NEW b \in BOOLEAN, Send(m, b)
  PROVE  HistInv'
<1> DEFINE p == Route[ConvOf[m]][b]
           x == [msg |-> m, conv |-> b]
<1>0. ConvOf[m] \in Conv /\ Route[ConvOf[m]] \in [BOOLEAN -> Partition]
  BY DEF ConstantsAssumption
<1>1. p \in Partition /\ x \in Record /\ log[p] \in Seq(Record)
  BY Zenon, <1>0 DEF Record, TypeOK
<1>2. UNCHANGED <<owner, row, counter, lastSeq, lock, wk, pushes>>
  BY DEF Send, db
<1>3. (KindOf[m] = "event" => row[m] # 0) /\ Place(m) = p
  <2>1. CASE b = TRUE
    BY <2>1 DEF Send, Place
  <2>2. CASE b = FALSE
    BY Zenon, <2>2 DEF Send, Place, OneWriter
  <2> QED
    BY Zenon, <2>1, <2>2 DEF Send
<1>4. log' = [log EXCEPT ![p] = Append(log[p], x)]
  BY DEF Send
<1>5. LogOK'
  <2> SUFFICES ASSUME NEW q \in Partition, NEW o \in DOMAIN log'[q]
               PROVE  /\ Place(log'[q][o].msg) = q
                      /\ KindOf[log'[q][o].msg] = "event" => row[log'[q][o].msg] # 0
    BY <1>2 DEF LogOK
  <2>1. CASE q = p /\ o = Len(log[p]) + 1
    <3>1. log'[q] = Append(log[p], x)
      BY Zenon, <1>1, <1>4, <2>1 DEF TypeOK
    <3>2. Append(log[p], x)[Len(log[p]) + 1] = x
      BY <1>1
    <3>3. log'[q][o] = x
      BY <2>1, <3>1, <3>2
    <3> QED
      BY <1>3, <2>1, <3>3
  <2>2. CASE ~(q = p /\ o = Len(log[p]) + 1)
    <3>1. o \in DOMAIN log[q] /\ log'[q][o] = log[q][o]
      <4>1. CASE q = p
        <5>1. log'[q] = Append(log[p], x)
          BY Zenon, <1>1, <1>4, <4>1 DEF TypeOK
        <5> HIDE DEF p, x
        <5> QED
          BY <1>1, <2>2, <4>1, <5>1
      <4>2. CASE q # p
        BY <1>4, <4>2 DEF TypeOK
      <4> QED
        BY <4>1, <4>2
    <3> QED
      BY <3>1 DEF HistInv, LogOK
  <2> QED
    BY <2>1, <2>2
<1>6. \A v \in Worker : HistoryOK(v, wk[v])'
  BY <1>2, HistoryStays DEF HistInv
<1> QED
  <2>1. NoHole' /\ UnknownUserNeverStored' /\ TruePushes(pushes)' /\ (lastSeq = counter)'
    BY <1>2 DEF HistInv, NoHole, Stored, UnknownUserNeverStored, TruePushes
  <2> QED
    BY <1>5, <1>6, <2>1 DEF HistInv

LEMMA UpToNext == \A a \in Nat : \A k \in 1 .. a + 1 : k \in 1 .. a \/ k = a + 1
  OBVIOUS

LEMMA PrewriteHistory ==
  ASSUME ConstantsAssumption, TypeOK, HistInv, NEW m \in Msg, Prewrite(m)
  PROVE  HistInv'
<1> DEFINE c == ConvOf[m]
<1>1. c \in Conv /\ counter[c] \in Nat /\ lastSeq[c] = counter[c]
  BY DEF ConstantsAssumption, TypeOK, HistInv
<1>2. /\ KindOf[m] = "event" /\ row[m] = 0 /\ lock[c] = NoWorker
      /\ counter' = [counter EXCEPT ![c] = counter[c] + 1]
      /\ lastSeq' = [lastSeq EXCEPT ![c] = counter[c] + 1]
      /\ row' = [row EXCEPT ![m] = counter[c] + 1]
      /\ UNCHANGED <<owner, log, lock, wk, pushes>>
  BY DEF Prewrite, kafka
<1>3. /\ \A n \in Msg : row'[n] = IF n = m THEN counter[c] + 1 ELSE row[n]
      /\ \A d \in Conv : counter'[d] = IF d = c THEN counter[c] + 1 ELSE counter[d]
      /\ \A n \in Msg : row[n] # 0 => row'[n] = row[n]
  BY <1>1, <1>2 DEF TypeOK
<1>4. LogOK'
  BY <1>2, <1>3, StoredStays DEF HistInv
<1>5. (lastSeq = counter)'
  BY <1>2 DEF HistInv
<1>6. UnknownUserNeverStored'
  BY <1>2, <1>3 DEF HistInv, UnknownUserNeverStored, ConstantsAssumption
<1>7. TruePushes(pushes)'
  <2>1. pushes \in [Uid -> Seq(Push)] /\ TruePushes(pushes)
    BY DEF TypeOK, HistInv
  <2> QED
    BY <1>2, <1>3, <2>1, PushesTrueAgain DEF TruePushes
<1>8. ASSUME NEW v \in Worker PROVE HistoryOK(v, wk[v])'
  <2>1. \A n \in Msg : row[n] # 0 \/ Fit(v, n) => row'[n] = row[n]
    BY <1>2, <1>3 DEF Fit
  <2>2. \A d \in Conv : lock'[d] = v => lock[d] = v /\ counter'[d] = counter[d]
    BY <1>2, <1>3 DEF ConstantsAssumption
  <2> QED
    BY <1>2, <2>1, <2>2, HistoryStays DEF HistInv
<1>9. NoHole'
  <2>1. Filled
    BY NoHoleMeans DEF HistInv
  <2> SUFFICES ASSUME NEW d \in Conv
               PROVE  /\ \A n \in Msg : ConvOf[n] = d /\ row'[n] # 0 => row'[n] \in 1 .. counter'[d]
                      /\ \A k \in 1 .. counter'[d] : \E n \in Msg : ConvOf[n] = d /\ row'[n] = k
    BY NoHoleMeans DEF Filled
  <2>2. CASE d # c
    <3>1. /\ \A n \in Msg : ConvOf[n] = d => row'[n] = row[n]
          /\ counter'[d] = counter[d]
      BY <1>3, <2>2
    <3>2. /\ \A n \in Msg : ConvOf[n] = d /\ row[n] # 0 => row[n] \in 1 .. counter[d]
          /\ \A k \in 1 .. counter[d] : \E n \in Msg : ConvOf[n] = d /\ row[n] = k
      BY <2>1 DEF Filled
    <3> HIDE DEF c
    <3>3. \A n \in Msg : ConvOf[n] = d /\ row'[n] # 0 => row'[n] \in 1 .. counter'[d]
      BY <3>1, <3>2
    <3>4. \A k \in 1 .. counter'[d] : \E n \in Msg : ConvOf[n] = d /\ row'[n] = k
      BY <3>1, <3>2
    <3> QED
      BY <3>3, <3>4
  <2>3. CASE d = c
    <3>1. counter'[d] = counter[d] + 1 /\ counter[d] \in Nat
      BY <1>1, <1>3, <2>3
    <3>2. \A k \in 1 .. counter[d] : \E n \in Msg : ConvOf[n] = d /\ row[n] = k /\ row'[n] = k
      <4>1. ASSUME NEW k \in 1 .. counter[d]
            PROVE  \E n \in Msg : ConvOf[n] = d /\ row[n] = k /\ row'[n] = k
        <5>1. PICK n \in Msg : ConvOf[n] = d /\ row[n] = k
          BY <2>1 DEF Filled
        <5>2. row[n] # 0
          BY <3>1, <5>1
        <5> QED
          BY <1>3, <5>1, <5>2
      <4> QED
        BY <4>1
    <3>3. \A n \in Msg : ConvOf[n] = d /\ row'[n] # 0 => row'[n] \in 1 .. counter'[d]
      BY <1>3, <2>1, <2>3, <3>1 DEF Filled
    <3>4. ConvOf[m] = d /\ row'[m] = counter'[d]
      BY <1>3, <2>3
    <3>5. \A k \in 1 .. counter'[d] : k \in 1 .. counter[d] \/ k = counter'[d]
      BY ZenonT(60), <3>1, UpToNext
    <3>6. ASSUME NEW k \in 1 .. counter'[d]
          PROVE  \E n \in Msg : ConvOf[n] = d /\ row'[n] = k
      <4> HIDE DEF c
      <4>1. CASE k \in 1 .. counter[d]
        BY <3>2, <4>1
      <4>2. CASE k = counter'[d]
        BY <3>4, <4>2
      <4> QED
        BY <3>5, <4>1, <4>2
    <3> QED
      BY <3>3, <3>6
  <2> QED
    BY <2>2, <2>3
<1> QED
  BY <1>4, <1>5, <1>6, <1>7, <1>8, <1>9 DEF HistInv

LEMMA EnvironmentHistory ==
  ASSUME ConstantsAssumption, OneWriter, TypeOK, HistInv, Environment
  PROVE  HistInv'
<1>1. ASSUME NEW m \in Msg, OpenConversation(m) PROVE HistInv'
  <2>1. UNCHANGED <<log, owner, row, counter, lastSeq, lock, wk, pushes>>
    BY <1>1 DEF OpenConversation, kafka
  <2>2. \A v \in Worker : HistoryOK(v, wk[v])'
    BY <2>1, HistoryStays DEF HistInv
  <2>3. LogOK'
    BY <2>1 DEF HistInv, LogOK
  <2> QED
    BY <2>1, <2>2, <2>3 DEF HistInv, NoHole, Stored, UnknownUserNeverStored, TruePushes
<1>2. ASSUME NEW p \in Partition, NEW w \in Worker, Rebalance(p, w) PROVE FALSE
  BY <1>2 DEF Rebalance, OneWriter, TypeOK
<1> QED
  BY <1>1, <1>2, SendHistory, PrewriteHistory DEF Environment

(***************************************************************************)
(* The steps of a worker, one by one.                                      *)
(***************************************************************************)

\* What is true of w before each of its steps.
LEMMA OwnFacts ==
  ASSUME ConstantsAssumption, SeqInv, HistInv, NEW w \in Worker
  PROVE  /\ TypeOK /\ HistoryOK(w, wk[w])
         /\ wk[w].pc \notin {"seq", "assign"} => wk[w].plan = {}
         /\ wk[w].pc # "assign" => /\ \A m \in Msg : wk[w].asg[m] = 0
                                   /\ \A c \in Conv : lock[c] # w
         /\ TruePushes(wk[w].pending) /\ TruePushes(pushes)
         /\ SameDb /\ wk'[w].pending = wk[w].pending => TruePushes(wk[w].pending)'
         /\ SameDb /\ pushes' = pushes => TruePushes(pushes)'
<1>1. TypeOK /\ HistoryOK(w, wk[w]) /\ TruePushes(pushes)
  BY DEF SeqInv, HistInv
<1>2. TruePushes(wk[w].pending) /\ PlanOK(w, wk[w])
  BY <1>1 DEF HistoryOK, QueuesOK
<1>3. wk[w].pc \notin {"seq", "assign"} => wk[w].plan = {}
  BY <1>2 DEF PlanOK
<1>4. wk[w].pc # "assign" => /\ \A m \in Msg : wk[w].asg[m] = 0
                             /\ \A c \in Conv : lock[c] # w
  BY NoTransaction
<1>5. SameDb /\ wk'[w].pending = wk[w].pending => TruePushes(wk[w].pending)'
  BY <1>2 DEF TruePushes, SameDb
<1>6. SameDb /\ pushes' = pushes => TruePushes(pushes)'
  BY <1>1 DEF TruePushes, SameDb
<1> QED
  BY <1>1, <1>2, <1>3, <1>4, <1>5, <1>6

LEMMA FetchHistory ==
  ASSUME ConstantsAssumption, SeqInv, HistInv, NEW w \in Worker,
         NEW p \in Partition, Fetch(w, p)
  PROVE  HistInv'
<1>1. TypeOK /\ HistoryOK(w, wk[w]) /\ TruePushes(pushes)
  BY OwnFacts
<1>a. PICK n \in Nat, x \in Record : Fetches(w, p, n, x)
  BY <1>1, FetchDoes
<1>2. /\ n \in DOMAIN log[p] /\ x = log[p][n]
      /\ wk'[w].items = Append(wk[w].items, x)
      /\ wk'[w].pc = wk[w].pc
      /\ wk'[w].old = wk[w].old /\ wk'[w].pending = wk[w].pending
      /\ \A v \in Worker \ {w} : wk'[v] = wk[v]
      /\ SameTx(w) /\ SameDb /\ UNCHANGED <<committed, pushes>>
      /\ wk[w].pc = "fetch" /\ owner[p] = w
  BY <1>a DEF Fetches
<1>3. x.msg \in Msg /\ x.conv \in BOOLEAN
  BY <1>2 DEF Record
<1>4. Home(x.msg) = w /\ (KindOf[x.msg] = "event" => row[x.msg] # 0)
  <2>1. Place(x.msg) = p /\ (KindOf[x.msg] = "event" => row[x.msg] # 0)
    BY <1>2 DEF HistInv, LogOK
  <2> QED
    BY <1>2, <2>1 DEF Home
<1>5. /\ wk[w].items \in Seq(Record)
      /\ wk[w].plan \subseteq DOMAIN wk[w].items /\ wk[w].old \subseteq DOMAIN wk[w].items
      /\ \A i \in DOMAIN wk[w].items : wk[w].items[i].msg \in Msg
  BY <1>1, IterationType
<1>6. /\ \A i \in DOMAIN wk[w].items : wk'[w].items[i] = wk[w].items[i]
      /\ \A i \in DOMAIN wk'[w].items : i \in DOMAIN wk[w].items \/ wk'[w].items[i] = x
  <2>1. /\ \A i \in DOMAIN wk[w].items : Append(wk[w].items, x)[i] = wk[w].items[i]
        /\ \A i \in DOMAIN Append(wk[w].items, x) :
             i \in DOMAIN wk[w].items \/ Append(wk[w].items, x)[i] = x
    BY SMTT(30), <1>5
  <2> QED
    BY ZenonT(60), <1>2, <2>1
<1>7. \A m \in Msg : Home(m)' = Home(m) /\ (Fit(w, m) => Fit(w, m)')
  BY <1>2 DEF Home, Fit, SameDb
<1>8. ItemsOK(w, wk[w])'
  <2> SUFFICES ASSUME NEW i \in DOMAIN wk'[w].items
               PROVE  /\ owner'[Place(wk'[w].items[i].msg)] = w
                      /\ KindOf[wk'[w].items[i].msg] = "event" => row'[wk'[w].items[i].msg] # 0
    BY DEF ItemsOK, Home
  <2>1. CASE i \in DOMAIN wk[w].items
    <3>1. wk'[w].items[i] = wk[w].items[i] /\ wk[w].items[i].msg \in Msg
      BY <1>5, <1>6, <2>1
    <3>2. /\ Home(wk[w].items[i].msg) = w
          /\ KindOf[wk[w].items[i].msg] = "event" => row[wk[w].items[i].msg] # 0
      BY <1>1, <2>1 DEF HistoryOK, ItemsOK
    <3> QED
      BY <1>2, <3>1, <3>2 DEF SameDb, Home
  <2>2. CASE wk'[w].items[i] = x
    BY <1>2, <1>4, <2>2 DEF SameDb, Home
  <2> QED
    BY <1>6, <2>1, <2>2
<1>9. PlanOK(w, wk[w])'
  <2>1. wk[w].plan = {}
    BY <1>2, OwnFacts
  <2> QED
    BY <1>2, <2>1 DEF PlanOK, SameTx
<1>10. NumbersOK(w, wk[w])'
  BY <1>1, <1>2, <1>7 DEF HistoryOK, NumbersOK, SameTx, SameDb
<1>11. QueuesOK(wk[w])'
  <2>1. TruePushes(wk[w].pending)'
    BY <1>2, OwnFacts
  <2> QED
    BY <1>1, <1>2, <2>1 DEF HistoryOK, QueuesOK, SameTx
<1>12. OldOK(wk[w])'
  <2>1. OldOK(wk[w])
    BY <1>1 DEF HistoryOK
  <2>2. wk'[w].old = wk[w].old /\ row' = row
    BY <1>2 DEF SameDb
  <2>3. \A i \in wk[w].old : wk'[w].items[i] = wk[w].items[i]
    BY <1>5, <1>6
  <2> QED
    BY Zenon, <2>1, <2>2, <2>3 DEF OldOK
<1>13. HistoryOK(w, wk[w])'
  BY <1>8, <1>9, <1>10, <1>11, <1>12 DEF HistoryOK
<1>14. TruePushes(pushes)'
  BY <1>2, OwnFacts
<1> QED
  BY <1>1, <1>2, <1>13, <1>14, WorkerHistory DEF SameDb, OthersLocks

LEMMA QuietHistory ==
  ASSUME ConstantsAssumption, SeqInv, HistInv, NEW w \in Worker,
         \/ Resolve(w) \/ QueueDone(w) \/ ReplayDone(w)
         \/ \E i : SkipPoison(w, i) \/ SkipUnread(w, i) \/ HandleRefused(w, i)
  PROVE  HistInv'
<1>1. /\ Kept(w) /\ SameTx(w) /\ SameDb /\ UNCHANGED pushes
      /\ wk[w].pc \notin {"seq", "assign"}
      /\ wk'[w].old = wk[w].old /\ wk'[w].pending = wk[w].pending
  <2>1. TypeOK
    BY DEF SeqInv
  <2>2. CASE Resolve(w)
    BY <2>1, <2>2, ResolveDoes
  <2>3. CASE QueueDone(w)
    BY <2>1, <2>3, QueueDoneDoes DEF Queues
  <2>4. CASE ReplayDone(w)
    BY <2>1, <2>4, ReplayDoneDoes
  <2>5. ASSUME NEW i, SkipPoison(w, i) \/ SkipUnread(w, i)
        PROVE  /\ Kept(w) /\ SameTx(w) /\ SameDb /\ UNCHANGED pushes
               /\ wk[w].pc \notin {"seq", "assign"}
               /\ wk'[w].old = wk[w].old /\ wk'[w].pending = wk[w].pending
    BY <2>1, <2>5, SkipDoes DEF Queues
  <2>6. ASSUME NEW i, HandleRefused(w, i)
        PROVE  /\ Kept(w) /\ SameTx(w) /\ SameDb /\ UNCHANGED pushes
               /\ wk[w].pc \notin {"seq", "assign"}
               /\ wk'[w].old = wk[w].old /\ wk'[w].pending = wk[w].pending
    BY <2>1, <2>6, HandleRefusedDoes DEF Queues
  <2> QED
    BY <2>2, <2>3, <2>4, <2>5, <2>6
<1> QED
  BY <1>1, OwnFacts, LightHistory

LEMMA TruePushAdded ==
  ASSUME TypeOK, NEW q \in [Uid -> Seq(Push)], NEW us \in SUBSET Uid, NEW m \in Msg,
         row[m] # 0, TruePushes(q)
  PROVE  \A u \in Uid : \A x \in Elements(AppendTo(q, us, [msg |-> m, seq |-> row[m]])[u]) :
           row[x.msg] # 0 /\ x.seq = row[x.msg]
<1>0. [msg |-> m, seq |-> row[m]] \in Push
  BY DEF TypeOK, Push
<1>1. PICK y \in Push : y = [msg |-> m, seq |-> row[m]]
  BY <1>0
<1>2. ASSUME NEW u \in Uid, NEW x \in Elements(AppendTo(q, us, y)[u])
      PROVE  row[x.msg] # 0 /\ x.seq = row[x.msg]
  <2>1. x \in Elements(q[u]) \/ x = y
    BY Zenon, AppendToSubset
  <2> QED
    BY <1>1, <2>1 DEF TruePushes
<1> QED
  BY <1>1, <1>2

LEMMA ReplayHistory ==
  ASSUME ConstantsAssumption, SeqInv, HistInv, NEW w \in Worker, NEW i,
         HandleReplay(w, i) \/ Replay(w, i)
  PROVE  HistInv'
<1> DEFINE m == wk[w].items[i].msg
<1>1. TypeOK /\ HistoryOK(w, wk[w]) /\ TruePushes(wk[w].pending)
  BY OwnFacts
<1>2. /\ Kept(w) /\ SameTx(w) /\ SameDb /\ UNCHANGED pushes
      /\ wk[w].pc \notin {"seq", "assign"} /\ wk'[w].old \subseteq wk[w].old
      /\ i \in DOMAIN wk[w].items /\ row[m] # 0
      /\ \E us \in SUBSET Uid :
           wk'[w].pending = AppendTo(wk[w].pending, us, [msg |-> m, seq |-> row[m]])
  <2>1. CASE HandleReplay(w, i)
    BY SMTT(30), <1>1, <2>1, HandleReplayDoes, IterationType DEF Queues
  <2>2. CASE Replay(w, i)
    <3>1. /\ Kept(w) /\ SameTx(w) /\ SameDb /\ UNCHANGED pushes
          /\ wk[w].pc = "replay" /\ i \in wk[w].old /\ wk'[w].old = wk[w].old \ {i}
          /\ wk'[w].pending = AppendTo(wk[w].pending, Dest[m], [msg |-> m, seq |-> row[m]])
      BY <1>1, <2>2, ReplayDoes
    <3>2. i \in DOMAIN wk[w].items /\ m \in Msg
      BY <1>1, <3>1, IterationType
    <3>3. row[m] # 0
      BY <1>1, <3>1 DEF HistoryOK, OldOK
    <3>4. Dest[m] \in SUBSET Uid
      BY <3>2 DEF ConstantsAssumption
    <3> QED
      BY <3>1, <3>2, <3>3, <3>4
  <2> QED
    BY <2>1, <2>2
<1>3. m \in Msg /\ wk[w].pending \in [Uid -> Seq(Push)]
  BY <1>1, <1>2, IterationType, FieldTypes
<1> HIDE DEF m
<1>4. TruePushes(wk[w].pending)'
  <2>1. PICK us \in SUBSET Uid :
          wk'[w].pending = AppendTo(wk[w].pending, us, [msg |-> m, seq |-> row[m]])
    BY <1>2
  <2> DEFINE q == AppendTo(wk[w].pending, us, [msg |-> m, seq |-> row[m]])
  <2>2. \A u \in Uid : \A x \in Elements(q[u]) : row[x.msg] # 0 /\ x.seq = row[x.msg]
    BY ZenonT(60), <1>1, <1>2, <1>3, TruePushAdded
  <2> HIDE DEF q
  <2>3. wk'[w].pending = q
    BY <2>1 DEF q
  <2> QED
    BY <1>2, <2>2, <2>3 DEF TruePushes, SameDb
<1> QED
  BY <1>1, <1>2, <1>4, OwnFacts, LightHistory

LEMMA HandleNewHistory ==
  ASSUME ConstantsAssumption, SeqInv, HistInv, NEW w \in Worker, NEW i, HandleNew(w, i)
  PROVE  HistInv'
<1> DEFINE m == wk[w].items[i].msg
<1>1. TypeOK /\ HistoryOK(w, wk[w])
  BY OwnFacts
<1>2. /\ Kept(w) /\ SameDb /\ UNCHANGED pushes
      /\ wk[w].pc \in Queues /\ i \in wk[w].todo
      /\ row[m] = 0 /\ FaultOf[m] # "nouser"
      /\ wk'[w].pc = "seq" /\ wk'[w].plan = {i}
      /\ wk'[w].asg = wk[w].asg /\ wk'[w].next = wk[w].next /\ wk'[w].out = wk[w].out
      /\ wk'[w].old = wk[w].old /\ wk'[w].pending = wk[w].pending
  BY <1>1, HandleNewDoes
<1>3. i \in DOMAIN wk[w].items /\ m \in Msg
  BY Zenon, <1>1, <1>2, IterationType
<1>4. wk[w].asg[m] = 0
  BY <1>2, <1>3, OwnFacts DEF Queues
<1>5. Fit(w, m)
  BY <1>1, <1>2, <1>3 DEF HistoryOK, ItemsOK, Fit
<1>6. \A k \in Msg : Home(k)' = Home(k) /\ (Fit(w, k) => Fit(w, k)')
  BY <1>2 DEF Home, Fit, SameDb
<1>7. wk'[w].items = wk[w].items
  BY <1>2 DEF Kept
<1>8. PlanOK(w, wk[w])'
  <2>1. PICK k \in Msg : k = m
    BY <1>3
  <2>2. Fit(w, k)' /\ wk'[w].asg[k] = 0 /\ wk'[w].items[i].msg = k
    BY <1>2, <1>4, <1>5, <1>6, <1>7, <2>1
  <2> QED
    BY <1>2, <2>2 DEF PlanOK
<1> HIDE DEF m
<1>9. ItemsOK(w, wk[w])'
  BY <1>1, <1>2, <1>7 DEF HistoryOK, ItemsOK, Home, SameDb
<1>10. NumbersOK(w, wk[w])'
  <2>1. /\ \A k \in Msg : wk'[w].asg[k] = 0
        /\ \A c \in Conv : lock'[c] # w
    BY <1>2, OwnFacts DEF Queues, SameDb
  <2> QED
    BY <2>1 DEF NumbersOK
<1>11. QueuesOK(wk[w])'
  <2>1. TruePushes(wk[w].pending)'
    BY <1>2, OwnFacts
  <2> QED
    BY <1>1, <1>2, <2>1 DEF HistoryOK, QueuesOK
<1>12. OldOK(wk[w])'
  BY <1>1, <1>2, <1>7 DEF HistoryOK, OldOK, SameDb
<1>13. HistoryOK(w, wk[w])' /\ TruePushes(pushes)'
  BY <1>2, <1>8, <1>9, <1>10, <1>11, <1>12, OwnFacts DEF HistoryOK
<1> QED
  BY <1>1, <1>2, <1>13, WorkerHistory DEF SameDb, OthersLocks, Kept

LEMMA SelectHistory ==
  ASSUME ConstantsAssumption, SeqInv, HistInv, NEW w \in Worker, Select(w)
  PROVE  HistInv'
<1>1. TypeOK /\ HistoryOK(w, wk[w])
  BY OwnFacts
<1>2. /\ Kept(w) /\ SameDb /\ UNCHANGED pushes /\ wk[w].pc = "select"
      /\ wk'[w].pending = wk[w].pending
      /\ wk'[w].asg = wk[w].asg /\ wk'[w].next = wk[w].next /\ wk'[w].out = wk[w].out
      /\ \/ /\ NotStored(w) = {} /\ SameTx(w)
            /\ wk'[w].pc = "replay" /\ wk'[w].old = Once(w)
         \/ SameTx(w) /\ wk'[w].old = wk[w].old /\ wk'[w].pc = "fallback"
         \/ /\ ~FallsBack(w) /\ wk'[w].pc = "seq"
            /\ wk'[w].plan = NotStored(w) /\ wk'[w].old = Once(w) \ NotStored(w)
  BY <1>1, SelectDoes
<1>3. wk[w].plan = {} /\ \A m \in Msg : wk[w].asg[m] = 0
  BY <1>2, OwnFacts
<1>4. /\ wk[w].singles \subseteq DOMAIN wk[w].items
      /\ \A i \in DOMAIN wk[w].items : wk[w].items[i].msg \in Msg
      /\ DOMAIN wk[w].items \subseteq Nat
  BY <1>1, IterationType
<1>5. \A k \in Msg : Home(k)' = Home(k) /\ (Fit(w, k) => Fit(w, k)')
  BY <1>2 DEF Home, Fit, SameDb
<1>6. wk'[w].items = wk[w].items
  BY <1>2 DEF Kept
<1>7. Once(w) \subseteq DOMAIN wk[w].items /\ NotStored(w) \subseteq Once(w)
  BY <1>4 DEF Once, NotStored
<1>8. \A i \in Once(w) \ NotStored(w) : row[wk[w].items[i].msg] # 0
  BY DEF NotStored, Message
<1>9. \A i \in NotStored(w) : row[wk[w].items[i].msg] = 0
  BY DEF NotStored, Message
<1>10. \A i, j \in NotStored(w) : wk[w].items[i].msg = wk[w].items[j].msg => i = j
  <2> SUFFICES ASSUME NEW i \in NotStored(w), NEW j \in NotStored(w),
                      wk[w].items[i].msg = wk[w].items[j].msg, i # j
               PROVE  FALSE
    OBVIOUS
  <2>1. i \in wk[w].singles /\ j \in wk[w].singles
    BY DEF NotStored, Once
  <2>2. ~(i < j) /\ ~(j < i)
    BY <2>1 DEF NotStored, Once, Message
  <2>3. i \in Nat /\ j \in Nat
    BY <1>4, <2>1
  <2> QED
    BY <2>2, <2>3, NatOrder
<1>11. PlanOK(w, wk[w])'
  <2>1. CASE SameTx(w)
    BY <1>3, <2>1 DEF PlanOK, SameTx
  <2>2. CASE ~FallsBack(w) /\ wk'[w].pc = "seq" /\ wk'[w].plan = NotStored(w)
    <3>1. \A i \in NotStored(w) : FaultOf[wk[w].items[i].msg] # "nouser"
      BY <2>2 DEF FallsBack, Message
    <3>2. \A i \in NotStored(w) : Fit(w, wk[w].items[i].msg)
      BY <1>1, <1>7, <1>9, <3>1 DEF HistoryOK, ItemsOK, Fit
    <3>3. ASSUME NEW i \in wk'[w].plan
          PROVE  Fit(w, wk[w].items[i].msg)' /\ wk'[w].asg[wk'[w].items[i].msg] = 0
      <4>1. i \in NotStored(w) /\ wk[w].items[i].msg \in Msg
        BY <1>4, <1>7, <2>2, <3>3
      <4>2. PICK k \in Msg : k = wk[w].items[i].msg
        BY <4>1
      <4>3. Fit(w, k)' /\ wk'[w].asg[k] = 0
        BY <1>2, <1>3, <1>5, <3>2, <4>1, <4>2
      <4> QED
        BY <1>6, <4>2, <4>3
    <3> QED
      BY <1>6, <1>10, <2>2, <3>3 DEF PlanOK
  <2> QED
    BY <1>2, <2>1, <2>2
<1>12. OldOK(wk[w])'
  BY <1>1, <1>2, <1>6, <1>8 DEF HistoryOK, OldOK, SameDb
<1>13. ItemsOK(w, wk[w])'
  BY <1>1, <1>2, <1>6 DEF HistoryOK, ItemsOK, Home, SameDb
<1>14. NumbersOK(w, wk[w])'
  <2>1. /\ \A k \in Msg : wk'[w].asg[k] = 0
        /\ \A c \in Conv : lock'[c] # w
    BY <1>2, OwnFacts DEF SameDb
  <2> QED
    BY <2>1 DEF NumbersOK
<1>15. QueuesOK(wk[w])'
  <2>1. TruePushes(wk[w].pending)'
    BY <1>2, OwnFacts
  <2> QED
    BY <1>1, <1>2, <2>1 DEF HistoryOK, QueuesOK
<1>16. HistoryOK(w, wk[w])' /\ TruePushes(pushes)'
  BY <1>2, <1>11, <1>12, <1>13, <1>14, <1>15, OwnFacts DEF HistoryOK
<1> QED
  BY <1>1, <1>2, <1>16, WorkerHistory DEF SameDb, OthersLocks, Kept

\* Rows are only added: what a worker keeps of its batch stays right.
LEMMA KeptHistory ==
  ASSUME ConstantsAssumption, TypeOK, NEW w \in Worker, HistoryOK(w, wk[w]), Kept(w),
         owner' = owner, \A m \in Msg : row[m] # 0 => row'[m] = row[m],
         wk'[w].old = wk[w].old
  PROVE  ItemsOK(w, wk[w])' /\ OldOK(wk[w])'
<1>1. /\ wk[w].old \subseteq DOMAIN wk[w].items
      /\ \A i \in DOMAIN wk[w].items : wk[w].items[i].msg \in Msg
  BY IterationType
<1>2. wk'[w].items = wk[w].items
  BY DEF Kept
<1>3. ItemsOK(w, wk[w]) /\ OldOK(wk[w])
  BY DEF HistoryOK
<1>4. ItemsOK(w, wk[w])'
  BY <1>1, <1>2, <1>3 DEF ItemsOK, Home
<1>5. OldOK(wk[w])'
  BY <1>1, <1>2, <1>3 DEF OldOK
<1> QED
  BY <1>4, <1>5

LEMMA NextSeqHistory ==
  ASSUME ConstantsAssumption, SeqInv, HistInv, NEW w \in Worker, NextSeq(w)
  PROVE  HistInv'
<1>1. TypeOK /\ HistoryOK(w, wk[w]) /\ TruePushes(wk[w].pending) /\ TruePushes(pushes)
  BY OwnFacts
<1>2. /\ Kept(w) /\ OthersLocks(w)
      /\ UNCHANGED <<log, owner, row, counter, lastSeq, pushes>>
      /\ wk[w].pc = "seq" /\ wk'[w].pc = "assign" /\ wk'[w].next = counter
      /\ wk'[w].plan = wk[w].plan
      /\ wk'[w].asg = wk[w].asg /\ wk'[w].out = wk[w].out
      /\ wk'[w].old = wk[w].old /\ wk'[w].pending = wk[w].pending
  BY <1>1, NextSeqDoes
<1>3. ItemsOK(w, wk[w])' /\ OldOK(wk[w])'
  BY <1>1, <1>2, KeptHistory
<1>4. /\ wk[w].plan \subseteq DOMAIN wk[w].items
      /\ \A i \in DOMAIN wk[w].items : wk[w].items[i].msg \in Msg
  BY <1>1, IterationType
<1>5. \A k \in Msg : Fit(w, k) => Fit(w, k)'
  BY <1>2 DEF Home, Fit
<1>6. wk'[w].items = wk[w].items
  BY <1>2 DEF Kept
<1>7. PlanOK(w, wk[w])'
  BY <1>1, <1>2, <1>4, <1>5, <1>6 DEF HistoryOK, PlanOK
<1>8. NumbersOK(w, wk[w])'
  <2>1. \A m \in Msg : wk'[w].asg[m] = 0
    BY <1>2, OwnFacts
  <2>2. ASSUME NEW c \in Conv PROVE counter'[c] + 1 .. wk'[w].next[c] = {}
    <3>1. counter[c] \in Nat
      BY <1>1 DEF TypeOK
    <3> QED
      BY <1>2, <3>1
  <2> QED
    BY <2>1, <2>2 DEF NumbersOK
<1>9. TruePushes(wk[w].pending)' /\ TruePushes(pushes)'
  BY <1>1, <1>2 DEF TruePushes
<1>10. QueuesOK(wk[w])'
  BY <1>1, <1>2, <1>9 DEF HistoryOK, QueuesOK
<1>11. HistoryOK(w, wk[w])'
  BY <1>3, <1>7, <1>8, <1>10 DEF HistoryOK
<1> QED
  BY <1>1, <1>2, <1>9, <1>11, WorkerHistory DEF Kept

LEMMA AssignHistory ==
  ASSUME ConstantsAssumption, SeqInv, HistInv, NEW w \in Worker, NEW i, Assign(w, i)
  PROVE  HistInv'
<1>1. TypeOK /\ HistoryOK(w, wk[w]) /\ TruePushes(wk[w].pending) /\ TruePushes(pushes)
  BY OwnFacts
<1>2. i \in wk[w].plan /\ i \in DOMAIN wk[w].items
  BY <1>1, IterationType DEF Assign
<1>3. PICK m \in Msg : m = wk[w].items[i].msg
  BY <1>1, <1>2, IterationType
<1>4. /\ wk[w] \in Iteration /\ wk[w].plan \subseteq DOMAIN wk[w].items
      /\ \A j \in DOMAIN wk[w].items : wk[w].items[j].msg \in Msg
  BY <1>1, IterationType
<1>5. /\ wk[w].next \in [Conv -> Nat] /\ wk[w].asg \in [Msg -> Nat]
      /\ wk[w].out \in [Uid -> Seq(Push)] /\ wk[w].pending \in [Uid -> Seq(Push)]
  BY <1>4, FieldTypes
<1>6. ConvOf[m] \in Conv
  BY DEF ConstantsAssumption
<1>7. PICK n \in Nat : n = wk[w].next[ConvOf[m]] + 1
  BY <1>5, <1>6
<1>8. n # 0
  BY <1>5, <1>6, <1>7
<1> DEFINE mi == wk[w].items[i].msg
           ni == wk[w].next[ConvOf[mi]] + 1
<1>a. PICK us \in SUBSET Uid :
      /\ Kept(w) /\ SameDb /\ UNCHANGED <<committed, pushes>>
      /\ wk[w].pc = "assign" /\ wk'[w].pc = "assign" /\ wk'[w].ret = wk[w].ret
      /\ i \in wk[w].plan /\ wk'[w].plan = wk[w].plan \ {i}
      /\ wk'[w].next = [wk[w].next EXCEPT ![ConvOf[mi]] = ni]
      /\ wk'[w].asg = [wk[w].asg EXCEPT ![mi] = ni]
      /\ wk'[w].out = AppendTo(wk[w].out, us, [msg |-> mi, seq |-> ni])
      /\ us \in Targets(mi)
      /\ wk'[w].todo = wk[w].todo /\ wk'[w].singles = wk[w].singles
      /\ wk'[w].old = wk[w].old /\ wk'[w].pending = wk[w].pending
  BY ZenonT(60), <1>1, AssignDoes
<1>b. mi = m /\ ni = n
  BY <1>3, <1>7
<1> HIDE DEF mi, ni
<1>9. /\ Kept(w) /\ SameDb /\ UNCHANGED pushes
      /\ wk[w].pc = "assign" /\ wk'[w].pc = "assign"
      /\ wk'[w].plan = wk[w].plan \ {i}
      /\ wk'[w].next = [wk[w].next EXCEPT ![ConvOf[m]] = n]
      /\ wk'[w].asg = [wk[w].asg EXCEPT ![m] = n]
      /\ wk'[w].out = AppendTo(wk[w].out, us, [msg |-> m, seq |-> n])
      /\ wk'[w].old = wk[w].old /\ wk'[w].pending = wk[w].pending
  BY <1>a, <1>b
<1>10. /\ \A k \in Msg : wk'[w].asg[k] = IF k = m THEN n ELSE wk[w].asg[k]
       /\ \A d \in Conv : wk'[w].next[d] = IF d = ConvOf[m] THEN n ELSE wk[w].next[d]
  BY Zenon, <1>5, <1>9
<1>11. Fit(w, m) /\ wk[w].asg[m] = 0
  BY <1>1, <1>2, <1>3 DEF HistoryOK, PlanOK
<1>12. ItemsOK(w, wk[w])' /\ OldOK(wk[w])'
  BY <1>1, <1>9, KeptHistory DEF SameDb
<1>13. \A k \in Msg : Fit(w, k) => Fit(w, k)'
  BY <1>9 DEF Home, Fit, SameDb
<1>14. wk'[w].items = wk[w].items
  BY <1>9 DEF Kept
<1>15. PlanOK(w, wk[w])'
  <2>1. ASSUME NEW j \in wk'[w].plan
        PROVE  Fit(w, wk[w].items[j].msg)' /\ wk'[w].asg[wk'[w].items[j].msg] = 0
    <3>1. j \in wk[w].plan /\ j # i
      BY <1>9, <2>1
    <3>2. PICK k \in Msg : k = wk[w].items[j].msg
      BY <1>4, <3>1
    <3>3. k # m /\ Fit(w, k) /\ wk[w].asg[k] = 0
      BY <1>1, <1>2, <1>3, <3>1, <3>2 DEF HistoryOK, PlanOK
    <3>4. Fit(w, k)' /\ wk'[w].asg[k] = 0
      BY <1>10, <1>13, <3>3
    <3> QED
      BY <1>14, <3>2, <3>4
  <2>2. \A j, k \in wk'[w].plan : wk'[w].items[j].msg = wk'[w].items[k].msg => j = k
    BY <1>1, <1>9, <1>14 DEF HistoryOK, PlanOK
  <2> QED
    BY <1>9, <1>14, <2>1, <2>2 DEF PlanOK
<1>16. NumbersOK(w, wk[w])'
  <2>1. \A k \in Msg : wk'[w].asg[k] # 0 => Fit(w, k)'
    BY <1>1, <1>10, <1>11, <1>13 DEF HistoryOK, NumbersOK
  <2>2. ASSUME NEW d \in Conv, lock'[d] = w, NEW k \in counter'[d] + 1 .. wk'[w].next[d]
        PROVE  \E a \in Msg : ConvOf[a] = d /\ wk'[w].asg[a] = k
    <3>1. lock[d] = w /\ counter'[d] = counter[d] /\ counter[d] \in Nat
      BY <1>1, <1>9, <2>2 DEF SameDb, TypeOK
    <3>2. k \in Nat /\ k # 0 /\ wk[w].next[d] \in Nat
      BY SMTT(30), <1>5, <2>2, <3>1
    <3>3. CASE k \in counter[d] + 1 .. wk[w].next[d]
      <4>0. NumbersOK(w, wk[w])
        BY <1>1 DEF HistoryOK
      <4>a. \A e \in counter[d] + 1 .. wk[w].next[d] :
              \E a \in Msg : ConvOf[a] = d /\ wk[w].asg[a] = e
        BY ONLY <4>0, <3>1, d \in Conv DEF NumbersOK
      <4>1. PICK a \in Msg : ConvOf[a] = d /\ wk[w].asg[a] = k
        BY <4>a, <3>3
      <4>2. a # m
        BY <1>11, <3>2, <4>1
      <4> QED
        BY <1>10, <4>1, <4>2
    <3>4. CASE k \notin counter[d] + 1 .. wk[w].next[d]
      <4>1. d = ConvOf[m] /\ k = n
        <5>1. CASE d = ConvOf[m]
          <6>1. \A a, b \in Nat : \A e \in a + 1 .. b + 1 : e \notin a + 1 .. b => e = b + 1
            OBVIOUS
          <6>2. wk'[w].next[d] = wk[w].next[d] + 1 /\ n = wk[w].next[d] + 1
            BY <1>7, <1>10, <5>1
          <6> QED
            BY Zenon, <2>2, <3>1, <3>2, <3>4, <5>1, <6>1, <6>2
        <5>2. CASE d # ConvOf[m]
          BY <1>10, <2>2, <3>1, <3>4, <5>2
        <5> QED
          BY <5>1, <5>2
      <4> QED
        BY <1>10, <4>1
    <3> QED
      BY <3>3, <3>4
  <2> QED
    BY <2>1, <2>2 DEF NumbersOK
<1>17. TruePushes(wk[w].pending)' /\ TruePushes(pushes)'
  BY <1>9, OwnFacts
<1>18. QueuesOK(wk[w])'
  <2>1. PICK y \in Push : y = [msg |-> m, seq |-> n]
    BY Zenon DEF Push
  <2>2. ASSUME NEW u \in Uid, NEW x \in Elements(wk'[w].out[u])
        PROVE  wk'[w].asg[x.msg] # 0 /\ x.seq = wk'[w].asg[x.msg]
    <3>1. x \in Elements(wk[w].out[u]) \/ x = y
      <4>1. x \in Elements(AppendTo(wk[w].out, us, y)[u])
        BY <1>9, <2>1, <2>2
      <4>2. wk[w].out[u] \in Seq(Push)
        BY <1>5
      <4> QED
        BY Zenon, <4>1, <4>2, AppendToSubset
    <3>2. CASE x = y
      BY <1>8, <1>10, <2>1, <3>2
    <3>3. CASE x \in Elements(wk[w].out[u])
      <4>1. x \in Push
        BY <1>5, <3>3, ElementsType
      <4>2. x.msg \in Msg /\ wk[w].asg[x.msg] # 0 /\ x.seq = wk[w].asg[x.msg]
        BY <1>1, <3>3, <4>1 DEF HistoryOK, QueuesOK, Push
      <4>3. x.msg # m
        BY <1>11, <4>2
      <4> QED
        BY <1>10, <4>2, <4>3
    <3> QED
      BY <3>1, <3>2, <3>3
  <2> QED
    BY <1>17, <2>2 DEF QueuesOK
<1>19. HistoryOK(w, wk[w])'
  BY <1>12, <1>15, <1>16, <1>18 DEF HistoryOK
<1> QED
  BY <1>1, <1>9, <1>17, <1>19, WorkerHistory DEF Kept, SameDb, OthersLocks

LEMMA InsertHistory ==
  ASSUME ConstantsAssumption, SeqInv, TypeOK', HistInv, NEW w \in Worker, Insert(w)
  PROVE  HistInv'
<1>1. TypeOK /\ HistoryOK(w, wk[w]) /\ TruePushes(wk[w].pending) /\ TruePushes(pushes)
  BY OwnFacts
<1>a. /\ Kept(w) /\ OthersLocks(w) /\ UNCHANGED <<log, owner, pushes>>
      /\ \A c \in Conv : lock'[c] # w
  BY Zenon, <1>1, InsertDoes
<1>b. /\ \A m \in Msg : row'[m] = IF row[m] = 0 THEN wk[w].asg[m] ELSE row[m]
      /\ \A c \in Conv : counter'[c] = IF lock[c] = w THEN wk[w].next[c] ELSE counter[c]
      /\ \A c \in Conv : lastSeq'[c] = NewLastSeq(w, c)
  BY DEF Insert, StoredRow, Held
<1>c. /\ wk'[w].plan = {} /\ wk'[w].asg = Fresh.asg /\ wk'[w].out = Fresh.out
      /\ wk'[w].old = wk[w].old
  BY Zenon, <1>1, InsertDoes
<1>d. wk'[w].pending = [u \in Uid |-> wk[w].pending[u] \o wk[w].out[u]]
  BY ZenonT(60), <1>1, InsertDoes
<1>2. /\ Kept(w) /\ OthersLocks(w) /\ UNCHANGED <<log, owner, pushes>>
      /\ \A m \in Msg : row'[m] = IF row[m] = 0 THEN wk[w].asg[m] ELSE row[m]
      /\ \A c \in Conv : counter'[c] = IF lock[c] = w THEN wk[w].next[c] ELSE counter[c]
      /\ \A c \in Conv : lastSeq'[c] = NewLastSeq(w, c)
      /\ \A c \in Conv : lock'[c] # w
      /\ wk'[w].plan = {} /\ wk'[w].asg = Fresh.asg /\ wk'[w].out = Fresh.out
      /\ wk'[w].pending = [u \in Uid |-> wk[w].pending[u] \o wk[w].out[u]]
      /\ wk'[w].old = wk[w].old
  BY <1>a, <1>b, <1>c, <1>d
<1>3. /\ \A m \in Msg : row[m] # 0 => row'[m] = row[m]
      /\ \A m \in Msg : row[m] = 0 => row'[m] = wk[w].asg[m]
  BY <1>2
<1>4. \A m \in Msg : wk[w].asg[m] # 0 => Fit(w, m) /\ row'[m] = wk[w].asg[m]
  BY <1>1, <1>3 DEF HistoryOK, NumbersOK, Fit
<1>5. \A m \in Msg : ConvOf[m] \in Conv
  BY DEF ConstantsAssumption
<1>6. \A c \in Conv : /\ counter[c] \in Nat /\ lastSeq[c] = counter[c]
                      /\ wk[w].next[c] \in Nat
                      /\ lock[c] = w => counter[c] <= wk[w].next[c]
  <2>1. wk[w].next \in [Conv -> Nat]
    BY Zenon, <1>1, IterationType, FieldTypes
  <2> QED
    BY Zenon, <1>1, <2>1 DEF TypeOK, HistInv, SeqInv, LocksAreAssigning
<1>7. \A m \in Msg : wk[w].asg[m] # 0 =>
        /\ lock[ConvOf[m]] = w
        /\ wk[w].asg[m] \in 1 .. wk[w].next[ConvOf[m]]
  <2>1. wk[w].asg \in [Msg -> Nat]
    BY Zenon, <1>1, IterationType, FieldTypes
  <2> QED
    BY <1>5, <1>6, <2>1 DEF SeqInv, NumbersAreLocked
<1>8. LogOK'
  BY <1>1, <1>2, <1>3, StoredStays DEF HistInv
<1>9. UnknownUserNeverStored'
  BY Zenon, <1>3, <1>4 DEF HistInv, UnknownUserNeverStored, Fit
<1>10. (lastSeq = counter)'
  <2>1. ASSUME NEW c \in Conv PROVE lastSeq'[c] = counter'[c]
    <3>1. CASE lock[c] = w
      <4>1. lastSeq'[c] = IF lastSeq[c] < wk[w].next[c] THEN wk[w].next[c] ELSE lastSeq[c]
        BY <1>2, <3>1 DEF NewLastSeq, Held
      <4> QED
        BY <1>2, <1>6, <3>1, <4>1
    <3>2. CASE lock[c] # w
      <4>1. lastSeq'[c] = lastSeq[c]
        BY <1>2, <3>2 DEF NewLastSeq, Held
      <4> QED
        BY <1>2, <1>6, <3>2, <4>1
    <3> QED
      BY <3>1, <3>2
  <2>2. lastSeq' \in [Conv -> Nat] /\ counter' \in [Conv -> Nat]
    BY DEF TypeOK
  <2> QED
    BY <2>1, <2>2
<1>11. TruePushes(pushes)'
  <2>1. pushes \in [Uid -> Seq(Push)]
    BY <1>1 DEF TypeOK
  <2> QED
    BY Zenon, <1>1, <1>2, <1>3, <2>1, PushesTrueAgain DEF TruePushes
<1>12. NoHole'
  <2>1. Filled
    BY NoHoleMeans DEF HistInv
  <2> SUFFICES ASSUME NEW c \in Conv
               PROVE  /\ \A m \in Msg : ConvOf[m] = c /\ row'[m] # 0 => row'[m] \in 1 .. counter'[c]
                      /\ \A n \in 1 .. counter'[c] : \E m \in Msg : ConvOf[m] = c /\ row'[m] = n
    BY NoHoleMeans DEF Filled
  <2>2. /\ \A m \in Msg : ConvOf[m] = c /\ row[m] # 0 => row[m] \in 1 .. counter[c]
        /\ \A n \in 1 .. counter[c] : \E m \in Msg : ConvOf[m] = c /\ row[m] = n
    BY <2>1 DEF Filled
  <2>3. CASE lock[c] = w
    <3>1. counter'[c] = wk[w].next[c] /\ counter[c] <= wk[w].next[c]
      BY <1>2, <1>6, <2>3
    <3>2. 1 .. counter[c] \subseteq 1 .. counter'[c]
      BY <1>6, <3>1
    <3>3. ASSUME NEW m \in Msg, ConvOf[m] = c, row'[m] # 0 PROVE row'[m] \in 1 .. counter'[c]
      <4>1. CASE row[m] # 0
        BY <1>3, <2>2, <3>2, <3>3, <4>1
      <4>2. CASE row[m] = 0
        BY <1>3, <1>7, <3>1, <3>3, <4>2
      <4> QED
        BY <4>1, <4>2
    <3>4. ASSUME NEW n \in 1 .. counter'[c] PROVE \E m \in Msg : ConvOf[m] = c /\ row'[m] = n
      <4>1. n # 0
        BY <3>4
      <4>2. CASE n \in 1 .. counter[c]
        BY <1>3, <2>2, <4>1, <4>2
      <4>3. CASE n \in counter[c] + 1 .. wk[w].next[c]
        <5>1. PICK m \in Msg : ConvOf[m] = c /\ wk[w].asg[m] = n
          BY <1>1, <2>3, <4>3 DEF HistoryOK, NumbersOK
        <5> QED
          BY <1>4, <4>1, <5>1
      <4>4. n \in 1 .. counter[c] \/ n \in counter[c] + 1 .. wk[w].next[c]
        <5>1. \A a, b \in Nat : \A k \in 1 .. b : k \in 1 .. a \/ k \in a + 1 .. b
          OBVIOUS
        <5> QED
          BY ZenonT(60), <1>6, <3>1, <3>4, <5>1
      <4> QED
        BY <4>2, <4>3, <4>4
    <3> QED
      BY <3>3, <3>4
  <2>4. CASE lock[c] # w
    <3>1. counter'[c] = counter[c]
      BY <1>2, <2>4
    <3>2. \A m \in Msg : ConvOf[m] = c => row'[m] = row[m]
      BY <1>3, <1>7, <2>4
    <3> QED
      BY Zenon, <2>2, <3>1, <3>2
  <2> QED
    BY <2>3, <2>4
<1>13. ASSUME NEW v \in Worker, v # w PROVE HistoryOK(v, wk[v])'
  <2>1. \A m \in Msg : row[m] # 0 \/ Fit(v, m) => row'[m] = row[m]
    BY <1>3, <1>4, <1>13 DEF Fit
  <2>2. \A c \in Conv : lock'[c] = v => lock[c] = v /\ counter'[c] = counter[c]
    BY <1>2, <1>13 DEF OthersLocks
  <2>3. wk'[v] = wk[v]
    BY <1>2, <1>13 DEF Kept
  <2> QED
    BY <1>1, <1>2, <2>1, <2>2, <2>3, HistoryStays DEF HistInv
<1>14. HistoryOK(w, wk[w])'
  <2>1. ItemsOK(w, wk[w])' /\ OldOK(wk[w])'
    BY <1>1, <1>2, <1>3, KeptHistory
  <2>2. PlanOK(w, wk[w])'
    BY <1>2 DEF PlanOK
  <2>3. \A m \in Msg : wk'[w].asg[m] = 0
    BY <1>2 DEF Fresh
  <2>4. NumbersOK(w, wk[w])'
    BY <1>2, <2>3 DEF NumbersOK
  <2>5. /\ wk[w].pending \in [Uid -> Seq(Push)] /\ wk[w].out \in [Uid -> Seq(Push)]
    BY Zenon, <1>1, IterationType, FieldTypes
  <2>6. ASSUME NEW u \in Uid, NEW x \in Elements(wk'[w].pending[u])
        PROVE  row'[x.msg] # 0 /\ x.seq = row'[x.msg]
    <3>1. wk'[w].pending[u] = wk[w].pending[u] \o wk[w].out[u]
      BY Zenon, <1>2
    <3>2. wk[w].pending[u] \in Seq(Push) /\ wk[w].out[u] \in Seq(Push)
      BY <2>5
    <3>3. x \in Elements(wk[w].pending[u]) \cup Elements(wk[w].out[u])
      BY <2>6, <3>1, <3>2, ElementsJoin
    <3>4. CASE x \in Elements(wk[w].pending[u])
      BY ZenonT(60), <1>1, <1>3, <2>5, <3>4, PushesTrueAgain
    <3>5. CASE x \in Elements(wk[w].out[u])
      <4>1. x \in Push
        BY <3>2, <3>5, ElementsType
      <4>2. x.msg \in Msg /\ wk[w].asg[x.msg] # 0 /\ x.seq = wk[w].asg[x.msg]
        BY <1>1, <3>5, <4>1 DEF HistoryOK, QueuesOK, Push
      <4> QED
        BY <1>4, <4>2
    <3> QED
      BY <3>3, <3>4, <3>5
  <2>7. \A u \in Uid : Elements(wk'[w].out[u]) = {}
    BY <1>2, ElementsEmpty DEF Fresh
  <2>8. QueuesOK(wk[w])'
    BY Zenon, <2>6, <2>7 DEF QueuesOK, TruePushes
  <2> QED
    BY <2>1, <2>2, <2>4, <2>8 DEF HistoryOK
<1>15. \A v \in Worker : HistoryOK(v, wk[v])'
  BY <1>13, <1>14
<1> QED
  BY <1>8, <1>9, <1>10, <1>11, <1>12, <1>15 DEF HistInv

LEMMA AbortHistory ==
  ASSUME ConstantsAssumption, SeqInv, HistInv, NEW w \in Worker, InsertConflict(w) \/ Fail(w)
  PROVE  HistInv'
<1>1. TypeOK /\ HistoryOK(w, wk[w]) /\ TruePushes(wk[w].pending) /\ TruePushes(pushes)
  BY OwnFacts
<1>2. /\ Kept(w) /\ OthersLocks(w)
      /\ UNCHANGED <<log, owner, row, counter, lastSeq, pushes>>
      /\ \A c \in Conv : lock'[c] # w
      /\ wk'[w].plan = {} /\ wk'[w].asg = Fresh.asg /\ wk'[w].out = Fresh.out
      /\ wk'[w].old = wk[w].old /\ wk'[w].pending = wk[w].pending
  BY <1>1, AbortDoes
<1>3. ItemsOK(w, wk[w])' /\ OldOK(wk[w])'
  BY <1>1, <1>2, KeptHistory
<1>4. PlanOK(w, wk[w])'
  BY <1>2 DEF PlanOK
<1>5. \A m \in Msg : wk'[w].asg[m] = 0
  BY <1>2 DEF Fresh
<1>6. NumbersOK(w, wk[w])'
  BY <1>2, <1>5 DEF NumbersOK
<1>7. TruePushes(wk[w].pending)' /\ TruePushes(pushes)'
  BY <1>1, <1>2 DEF TruePushes
<1>8. \A u \in Uid : Elements(wk'[w].out[u]) = {}
  BY <1>2, ElementsEmpty DEF Fresh
<1>9. HistoryOK(w, wk[w])'
  BY Zenon, <1>3, <1>4, <1>6, <1>7, <1>8 DEF HistoryOK, QueuesOK
<1> QED
  BY <1>1, <1>2, <1>7, <1>9, WorkerHistory DEF Kept

\* Writing pushes that carry the seqs of rows.
LEMMA WrittenTrue ==
  ASSUME TypeOK, NEW w \in Worker, row' = row, TruePushes(pushes), TruePushes(wk[w].pending),
         \A u \in Uid : pushes'[u] \in {pushes[u], pushes[u] \o wk[w].pending[u]}
  PROVE  TruePushes(pushes)'
<1> SUFFICES ASSUME NEW u \in Uid, NEW x \in Elements(pushes'[u])
             PROVE  row[x.msg] # 0 /\ x.seq = row[x.msg]
  BY DEF TruePushes
<1>1. wk[w].pending \in [Uid -> Seq(Push)]
  BY IterationType, FieldTypes
<1>2. pushes[u] \in Seq(Push) /\ wk[w].pending[u] \in Seq(Push)
  BY <1>1 DEF TypeOK
<1>3. x \in Elements(pushes[u]) \/ x \in Elements(wk[w].pending[u])
  <2>1. CASE pushes'[u] = pushes[u]
    BY <2>1
  <2>2. CASE pushes'[u] = pushes[u] \o wk[w].pending[u]
    BY <1>2, <2>2, ElementsJoin
  <2> QED
    BY Zenon, <2>1, <2>2
<1> QED
  BY <1>3 DEF TruePushes

LEMMA FlushHistory ==
  ASSUME ConstantsAssumption, SeqInv, HistInv, NEW w \in Worker, FlushPushes(w)
  PROVE  HistInv'
<1>1. /\ TypeOK /\ HistoryOK(w, wk[w]) /\ TruePushes(wk[w].pending) /\ TruePushes(pushes)
      /\ wk[w].pc # "assign" => \A c \in Conv : lock[c] # w
      /\ wk[w].pc \notin {"seq", "assign"} => wk[w].plan = {}
  BY OwnFacts
<1>2. /\ SameDb /\ pushes' = [u \in Uid |-> pushes[u] \o wk[w].pending[u]]
      /\ wk[w].pc = "flush"
      /\ \A v \in Worker \ {w} : wk'[v] = wk[v]
      /\ \/ wk[w].fail /\ wk'[w] = Fresh
         \/ /\ ~wk[w].fail /\ Kept(w) /\ SameTx(w)
            /\ wk'[w].pc = "offset" /\ wk'[w].pending = Fresh.pending
            /\ wk'[w].singles = wk[w].singles /\ wk'[w].old = wk[w].old
  BY Zenon, <1>1, FlushDoes
<1>3. TruePushes(pushes)'
  BY Zenon, <1>1, <1>2, WrittenTrue DEF SameDb
<1>4. CASE wk'[w] = Fresh
  <2>1. HistoryOK(w, wk[w])'
    BY <1>1, <1>2, <1>4, FreshHistory DEF SameDb
  <2> QED
    BY Zenon, <1>1, <1>2, <1>3, <2>1, WorkerHistory DEF SameDb, OthersLocks
<1>5. CASE Kept(w) /\ SameTx(w) /\ wk'[w].pending = Fresh.pending /\ wk'[w].old = wk[w].old
  <2>1. TruePushes(wk[w].pending)'
    BY <1>5, ElementsEmpty DEF TruePushes, Fresh
  <2> QED
    BY Zenon, <1>1, <1>2, <1>3, <1>5, <2>1, LightHistory
<1> QED
  BY <1>2, <1>4, <1>5

LEMMA FreshAgainHistory ==
  ASSUME ConstantsAssumption, SeqInv, HistInv, NEW w \in Worker,
         FlushFailed(w) \/ CommitMessages(w) \/ CommitRefused(w) \/ Crash(w)
  PROVE  HistInv'
<1>1. /\ TypeOK /\ TruePushes(wk[w].pending) /\ TruePushes(pushes)
      /\ wk[w].pc # "assign" => \A c \in Conv : lock[c] # w
  BY OwnFacts
<1>2. /\ UNCHANGED <<log, owner, row, counter, lastSeq>> /\ OthersLocks(w)
      /\ wk'[w] = Fresh /\ \A v \in Worker \ {w} : wk'[v] = wk[v]
      /\ wk[w].pc = "assign" => \A c \in Conv : lock'[c] # w
      /\ wk[w].pc # "assign" => \A c \in Conv : lock'[c] = w => lock[c] = w
      /\ ~FlushFailed(w) => UNCHANGED pushes
  BY <1>1, FreshAgain
<1>3. TruePushes(pushes)'
  <2>1. CASE FlushFailed(w)
    <3>1. \A u \in Uid : pushes'[u] \in {pushes[u], pushes[u] \o wk[w].pending[u]}
      BY <2>1 DEF FlushFailed
    <3> QED
      BY Zenon, <1>1, <1>2, <3>1, WrittenTrue
  <2>2. CASE ~FlushFailed(w)
    BY <1>1, <1>2, <2>2 DEF TruePushes
  <2> QED
    BY <2>1, <2>2
<1>4. HistoryOK(w, wk[w])'
  BY Zenon, <1>1, <1>2, FreshHistory
<1> QED
  BY <1>1, <1>2, <1>3, <1>4, WorkerHistory

LEMMA HistInvariant == ASSUME OneWriter PROVE Spec => []HistInv
<1>1. Init => HistInv
  <2> SUFFICES ASSUME Init PROVE HistInv
    OBVIOUS
  <2>1. LogOK /\ lastSeq = counter /\ UnknownUserNeverStored
    BY DEF Init, LogOK, UnknownUserNeverStored
  <2>2. TruePushes(pushes)
    BY ElementsEmpty DEF Init, TruePushes
  <2>3. NoHole
    <3>1. \A c \in Conv : counter[c] = 0 /\ Stored(c) = {}
      BY DEF Init, Stored
    <3> QED
      BY <3>1 DEF NoHole
  <2>4. ASSUME NEW w \in Worker PROVE HistoryOK(w, wk[w])
    <3>1. /\ wk[w].items = <<>> /\ wk[w].plan = {} /\ wk[w].old = {}
          /\ \A m \in Msg : wk[w].asg[m] = 0
          /\ \A u \in Uid : wk[w].pending[u] = <<>> /\ wk[w].out[u] = <<>>
      BY DEF Init, Fresh
    <3>2. QueuesOK(wk[w])
      BY <3>1, ElementsEmpty DEF QueuesOK, TruePushes
    <3>3. \A c \in Conv : lock[c] # w
      BY ConstantsAssumption DEF Init, ConstantsAssumption
    <3> QED
      BY <3>1, <3>2, <3>3 DEF HistoryOK, ItemsOK, PlanOK, NumbersOK, OldOK
  <2> QED
    BY <2>1, <2>2, <2>3, <2>4 DEF HistInv
<1>2. SeqInv /\ SeqInv' /\ HistInv /\ [Next]_vars => HistInv'
  <2> SUFFICES ASSUME SeqInv, SeqInv', HistInv, [Next]_vars PROVE HistInv'
    OBVIOUS
  <2> USE ConstantsAssumption
  <2>1. TypeOK /\ TypeOK'
    BY DEF SeqInv
  <2>2. CASE UNCHANGED vars
    <3>1. UNCHANGED <<log, owner, row, counter, lastSeq, lock, pushes, wk>>
      BY <2>2 DEF vars, kafka, db
    <3>2. \A v \in Worker : HistoryOK(v, wk[v])'
      BY <2>1, <3>1, HistoryStays DEF HistInv
    <3> QED
      BY <3>1, <3>2 DEF HistInv, LogOK, NoHole, Stored, UnknownUserNeverStored, TruePushes
  <2>3. CASE Environment
    BY <2>1, <2>3, EnvironmentHistory
  <2>4. ASSUME NEW w \in Worker, Work(w) PROVE HistInv'
    <3>1. ASSUME NEW p \in Partition, Fetch(w, p) PROVE HistInv'
      BY <3>1, FetchHistory
    <3>2. CASE Resolve(w) \/ QueueDone(w) \/ ReplayDone(w)
      BY <3>2, QuietHistory
    <3>3. ASSUME NEW i, SkipPoison(w, i) \/ HandleRefused(w, i) PROVE HistInv'
      BY <3>3, QuietHistory
    <3>4. ASSUME NEW i, HandleReplay(w, i) \/ Replay(w, i) PROVE HistInv'
      BY <3>4, ReplayHistory
    <3>5. ASSUME NEW i, HandleNew(w, i) PROVE HistInv'
      BY <3>5, HandleNewHistory
    <3>6. ASSUME NEW i, Assign(w, i) PROVE HistInv'
      BY <3>6, AssignHistory
    <3>7. CASE Select(w) \/ NextSeq(w)
      BY <3>7, SelectHistory, NextSeqHistory
    <3>8. CASE Insert(w) \/ InsertConflict(w)
      BY <2>1, <3>8, InsertHistory, AbortHistory
    <3>9. CASE FlushPushes(w) \/ CommitMessages(w) \/ CommitRefused(w)
      BY <3>9, FlushHistory, FreshAgainHistory
    <3> QED
      BY <2>4, <3>1, <3>2, <3>3, <3>4, <3>5, <3>6, <3>7, <3>8, <3>9 DEF Work
  <2>5. ASSUME NEW w \in Worker, Failure(w) PROVE HistInv'
    <3>1. ASSUME NEW i, SkipUnread(w, i) PROVE HistInv'
      BY <3>1, QuietHistory
    <3> QED
      BY <2>5, <3>1, AbortHistory, FreshAgainHistory DEF Failure
  <2> QED
    BY <2>2, <2>3, <2>4, <2>5 DEF Next
<1> QED
  BY <1>1, <1>2, SeqInvariant, PTL DEF Spec

(***************************************************************************)
(* Where one worker at a time sees a conversation, the history a client    *)
(* reads is right in its three parts: no hole, a last_seq that is the      *)
(* newest, no message of an unknown user; whatever crashes, is repeated,   *)
(* cannot be looked up or falls back.                                      *)
(***************************************************************************)
THEOREM HistoryStaysSound == ASSUME OneWriter PROVE Spec => []HistoryIsSound
<1>1. SeqInv /\ HistInv => HistoryIsSound
  <2> SUFFICES ASSUME SeqInv, HistInv PROVE HistoryIsSound
    OBVIOUS
  <2>1. NoHole /\ lastSeq = counter /\ UnknownUserNeverStored
    BY DEF HistInv
  <2>2. ASSUME NEW c \in Conv
        PROVE  /\ \A m \in Stored(c) : row[m] <= lastSeq[c]
               /\ lastSeq[c] # 0 => \E m \in Stored(c) : row[m] = lastSeq[c]
    <3>1. {row[m] : m \in Stored(c)} = 1 .. counter[c] /\ lastSeq[c] = counter[c]
      BY <2>1 DEF NoHole
    <3>2. lastSeq[c] \in Nat
      BY DEF SeqInv, TypeOK
    <3>3. \A m \in Stored(c) : row[m] \in 1 .. lastSeq[c]
      BY <3>1
    <3>4. ASSUME lastSeq[c] # 0 PROVE \E m \in Stored(c) : row[m] = lastSeq[c]
      <4>1. lastSeq[c] \in 1 .. lastSeq[c]
        BY <3>2, <3>4
      <4>2. lastSeq[c] \in {row[m] : m \in Stored(c)}
        BY <3>1, <4>1
      <4> QED
        BY <4>2
    <3> QED
      BY <3>2, <3>3, <3>4
  <2> QED
    BY <2>1, <2>2 DEF HistoryIsSound, LastSeqIsNewest
<1> QED
  BY <1>1, SeqInvariant, HistInvariant, PTL

(***************************************************************************)
(* A push never disagrees with the history: the pushes of a transaction    *)
(* are queued at its COMMIT, and those that are made again read the row.   *)
(***************************************************************************)
THEOREM PushesAgree == ASSUME OneWriter PROVE Spec => []PushedAsStored
<1>1. HistInv => PushedAsStored
  BY DEF HistInv, TruePushes, Elements, PushedAsStored
<1> QED
  BY <1>1, HistInvariant, PTL

-----------------------------------------------------------------------------
\* The refinement: what the rows are read as is a history that only grows.

\* A row stays as it is, and a counter is never moved back.
Grow ==
  /\ \A m \in Msg : row[m] # 0 => row'[m] = row[m]
  /\ \A c \in Conv : counter[c] <= counter'[c]

LEMMA RowsStay == ASSUME ConstantsAssumption, SeqInv, [Next]_vars PROVE Grow
<1>1. TypeOK /\ \A c \in Conv : counter[c] \in Nat
  BY DEF SeqInv, TypeOK
<1>2. ASSUME UNCHANGED <<row, counter>> PROVE Grow
  BY <1>1, <1>2 DEF Grow
<1>3. ASSUME NEW m \in Msg, Prewrite(m) PROVE Grow
  BY SMTT(30), <1>1, <1>3 DEF Prewrite, TypeOK, ConstantsAssumption, Grow
<1>4. ASSUME NEW w \in Worker, Insert(w) PROVE Grow
  <2>1. /\ \A m \in Msg : row'[m] = IF row[m] = 0 THEN wk[w].asg[m] ELSE row[m]
        /\ \A c \in Conv : counter'[c] = IF lock[c] = w THEN wk[w].next[c] ELSE counter[c]
    BY <1>4 DEF Insert, StoredRow, Held
  <2>2. \A c \in Conv : lock[c] = w => counter[c] <= wk[w].next[c]
    BY DEF SeqInv, LocksAreAssigning
  <2> QED
    BY <1>1, <2>1, <2>2 DEF Grow
<1>5. CASE UNCHANGED vars
  BY <1>2, <1>5 DEF vars, db
<1>6. CASE Environment
  <2>1. ASSUME NEW m \in Msg, NEW b \in BOOLEAN, Send(m, b) PROVE Grow
    BY <1>2, <2>1 DEF Send, db
  <2>2. ASSUME NEW m \in Msg, OpenConversation(m) PROVE Grow
    BY <1>2, <2>2 DEF OpenConversation
  <2>3. ASSUME NEW p \in Partition, NEW w \in Worker, Rebalance(p, w) PROVE Grow
    BY SMTT(60), <1>2, <2>3 DEF Rebalance, db
  <2> QED
    BY <1>3, <1>6, <2>1, <2>2, <2>3 DEF Environment
<1>7. ASSUME NEW w \in Worker, Work(w) PROVE Grow
  BY Zenon, <1>2, <1>4, <1>7
  DEF Work, Fetch, Resolve, SkipPoison, HandleRefused, HandleReplay, HandleNew, QueueDone,
      Select, Replay, ReplayDone, NextSeq, Assign, InsertConflict, Abort, FlushPushes,
      CommitMessages, CommitRefused, db
<1>8. ASSUME NEW w \in Worker, Failure(w) PROVE Grow
  BY Zenon, <1>2, <1>8 DEF Failure, SkipUnread, FlushFailed, Fail, Abort, Crash, db
<1> QED
  BY <1>5, <1>6, <1>7, <1>8 DEF Next

\* Read by seq, the rows of a conversation are a sequence of its messages.
Readable ==
  \A c \in Conv :
    /\ History[c] \in Seq({m \in Msg : ConvOf[m] = c})
    /\ DOMAIN History[c] = 1 .. counter[c] /\ Len(History[c]) = counter[c]
    /\ \A n \in 1 .. counter[c] : row[History[c][n]] = n

LEMMA RowsAreReadable == TypeOK /\ NoHole => Readable
<1> SUFFICES ASSUME TypeOK, NoHole, NEW c \in Conv
             PROVE  /\ History[c] \in Seq({m \in Msg : ConvOf[m] = c})
                    /\ DOMAIN History[c] = 1 .. counter[c] /\ Len(History[c]) = counter[c]
                    /\ \A n \in 1 .. counter[c] : row[History[c][n]] = n
  BY Zenon DEF Readable
<1>1. counter[c] \in Nat
  BY DEF TypeOK
<1>2. History[c] = [n \in 1 .. counter[c] |-> StoredAt(c, n)]
  BY DEF History
<1>3. ASSUME NEW n \in 1 .. counter[c]
      PROVE  StoredAt(c, n) \in {m \in Msg : ConvOf[m] = c} /\ row[StoredAt(c, n)] = n
  <2>1. \E m \in Stored(c) : row[m] = n
    <3>1. n \in {row[m] : m \in Stored(c)}
      BY <1>3 DEF NoHole
    <3> QED
      BY <3>1
  <2>2. StoredAt(c, n) \in Stored(c) /\ row[StoredAt(c, n)] = n
    BY <2>1, Zenon DEF StoredAt
  <2> QED
    BY <2>2 DEF Stored
<1> QED
  BY <1>1, <1>2, <1>3

(***************************************************************************)
(* Every step of the workers, the gateways and the failures is an          *)
(* extension of the histories of MessageLog, or leaves them as they are.   *)
(***************************************************************************)
THEOREM HistoriesOnlyGrow == ASSUME OneWriter PROVE Spec => ImplementsMessageLog
<1>1. Init => Abstract!Init
  <2> SUFFICES ASSUME Init PROVE History = [c \in Conv |-> <<>>]
    BY DEF Abstract!Init
  <2>1. \A c \in Conv : History[c] = <<>>
    BY DEF Init, History
  <2> QED
    BY <2>1 DEF History
<1>2. TypeOK' /\ NoHole' => Readable'
  BY RowsAreReadable, PTL
<1>3. SeqInv /\ SeqInv' /\ HistInv /\ HistInv' /\ [Next]_vars => Abstract!Publish
  <2> SUFFICES ASSUME SeqInv, SeqInv', HistInv, HistInv', [Next]_vars
               PROVE  Abstract!Publish
    OBVIOUS
  <2>1. Readable /\ Readable'
    BY <1>2, RowsAreReadable DEF SeqInv, HistInv
  <2>2. DOMAIN History' = Conv
    BY DEF History
  <2>3. ASSUME NEW c \in Conv
        PROVE  Abstract!IsHistory(History'[c], c) /\ Abstract!Extends(History'[c], History[c])
    <3>1. /\ History[c] \in Seq({m \in Msg : ConvOf[m] = c})
          /\ DOMAIN History[c] = 1 .. counter[c] /\ Len(History[c]) = counter[c]
          /\ \A n \in 1 .. counter[c] : row[History[c][n]] = n
      BY Zenon, <2>1 DEF Readable
    <3>2. /\ History'[c] \in Seq({m \in Msg : ConvOf[m] = c})
          /\ DOMAIN History'[c] = 1 .. counter'[c] /\ Len(History'[c]) = counter'[c]
          /\ \A n \in 1 .. counter'[c] : row'[History'[c][n]] = n
      BY <2>1 DEF Readable
    <3>3. Abstract!IsHistory(History'[c], c)
      BY <3>2 DEF Abstract!IsHistory
    <3>4. /\ \A m \in Msg : row[m] # 0 => row'[m] = row[m]
          /\ counter[c] <= counter'[c]
      BY ConstantsAssumption, RowsStay DEF Grow
    <3>5. counter[c] \in Nat /\ counter'[c] \in Nat
      BY DEF SeqInv, TypeOK
    <3>6. ASSUME NEW n \in 1 .. counter[c] PROVE History'[c][n] = History[c][n]
      <4> DEFINE a == History[c][n]
                 b == History'[c][n]
      <4>1. n \in 1 .. counter'[c] /\ n # 0
        BY <3>4, <3>5
      <4>2. a \in Msg /\ ConvOf[a] = c /\ row[a] = n
        BY <3>1
      <4>3. b \in Msg /\ ConvOf[b] = c /\ row'[b] = n
        BY <3>2, <4>1
      <4>4. row'[a] = n
        BY <3>4, <4>1, <4>2
      <4> HIDE DEF a, b
      <4>5. \A x, y \in Msg : ConvOf[x] = c /\ ConvOf[y] = c /\ row'[x] # 0 /\ row'[x] = row'[y]
              => x = y
        BY DEF SeqInv, UniqueSeq, Stored
      <4>6. a = b
        BY <4>1, <4>2, <4>3, <4>4, <4>5
      <4> QED
        BY <4>6 DEF a, b
    <3>7. Abstract!Extends(History'[c], History[c])
      BY <3>1, <3>2, <3>4, <3>6 DEF Abstract!Extends
    <3> QED
      BY <3>3, <3>7
  <2> QED
    BY <2>2, <2>3 DEF Abstract!Publish
<1> QED
  BY <1>1, <1>3, SeqInvariant, HistInvariant, PTL DEF Spec, ImplementsMessageLog, Abstract!Spec

-----------------------------------------------------------------------------
\* DoneInv is inductive.

\* The pushes of ps and q are among those of qs and r.
Carried(ps, q, qs, r) ==
  \A u \in Uid : Elements(ps[u]) \cup Elements(q[u]) \subseteq Elements(qs[u]) \cup Elements(r[u])

\* What is handled stays so when rows and pushes are added.
LEMMA HandledStays ==
  ASSUME ConstantsAssumption, NEW f, NEW g, NEW ps, NEW qs, NEW q, NEW r, NEW m \in Msg,
         f[m] # 0 => g[m] = f[m], Carried(ps, q, qs, r), Handled(f, ps, q, m)
  PROVE  Handled(g, qs, r, m)
<1>1. Dest[m] \subseteq Uid
  BY DEF ConstantsAssumption
<1>2. MustArrive(m) => g[m] = f[m] /\ f[m] # 0
  BY DEF Handled
<1>3. ASSUME MustArrive(m), OneWriter, KindOf[m] = "single", NEW u \in Dest[m]
      PROVE  [msg |-> m, seq |-> g[m]] \in Elements(qs[u]) \cup Elements(r[u])
  <2>1. [msg |-> m, seq |-> f[m]] \in Elements(ps[u]) \cup Elements(q[u])
    BY <1>3 DEF Handled
  <2>2. u \in Uid
    BY <1>1, <1>3
  <2> QED
    BY Zenon, <1>2, <1>3, <2>1, <2>2 DEF Carried
<1> QED
  BY <1>2, <1>3 DEF Handled

\* The indexes that are ahead, step by step.
LEMMA AheadIs ==
  ASSUME NEW r
  PROVE  /\ Phase(r) = "first" => Ahead(r) = r.todo \cup r.singles \cup OthersOf(r)
         /\ Phase(r) = "select" => Ahead(r) = r.singles \cup OthersOf(r)
         /\ Phase(r) = "fallback" => Ahead(r) = r.todo \cup OthersOf(r)
         /\ Phase(r) = "replay" => Ahead(r) = r.old \cup OthersOf(r)
         /\ Phase(r) = "other" => Ahead(r) = r.todo
         /\ Phase(r) = "offset" => Ahead(r) = {}
         /\ Phase(r) = "flush" /\ ~r.fail => Ahead(r) = {}
         /\ Phase(r) = "flush" /\ r.fail => Ahead(r) = DOMAIN r.items
         /\ Phase(r) = "fetch" => Ahead(r) = DOMAIN r.items
  BY DEF Ahead

\* A batch in which everything is still ahead.
LEMMA AllAhead ==
  ASSUME NEW f, NEW ps, NEW r, r.pc = "fetch" \/ (r.pc = "flush" /\ r.fail)
  PROVE  BatchOK(f, ps, r) /\ BatchPlanned(r) /\ OnePlanned(r)
<1>1. Phase(r) = r.pc
  BY DEF Phase
<1>2. Ahead(r) = DOMAIN r.items
  BY <1>1, AheadIs
<1> QED
  BY <1>1, <1>2 DEF BatchOK, BatchPlanned, OnePlanned, Queues

(***************************************************************************)
(* A step that handles what it takes from the indexes ahead, or has        *)
(* another index with the same message ahead.                              *)
(***************************************************************************)
LEMMA BatchMoves ==
  ASSUME NEW f, NEW g, NEW ps, NEW qs, NEW s, NEW t, BatchOK(f, ps, s), t.items = s.items,
         \A i \in DOMAIN s.items :
           Handled(f, ps, s.pending, s.items[i].msg) => Handled(g, qs, t.pending, s.items[i].msg),
         \A j \in Ahead(s) : \/ Handled(g, qs, t.pending, s.items[j].msg)
                             \/ \E k \in Ahead(t) : s.items[k].msg = s.items[j].msg
  PROVE  BatchOK(g, qs, t)
<1> SUFFICES ASSUME NEW i \in DOMAIN s.items
             PROVE  \/ Handled(g, qs, t.pending, s.items[i].msg)
                    \/ \E k \in Ahead(t) : s.items[k].msg = s.items[i].msg
  BY DEF BatchOK
<1>1. CASE Handled(f, ps, s.pending, s.items[i].msg)
  BY <1>1
<1>2. CASE \E j \in Ahead(s) : s.items[j].msg = s.items[i].msg
  <2>1. PICK j \in Ahead(s) : s.items[j].msg = s.items[i].msg
    BY <1>2
  <2> QED
    BY <2>1
<1> QED
  BY <1>1, <1>2 DEF BatchOK

\* What has been committed stays done, and the other workers keep their part.
LEMMA OthersDone ==
  ASSUME ConstantsAssumption, TypeOK, DoneInv, Grow, NEW w \in Worker,
         UNCHANGED <<log, owner>>, \A v \in Worker \ {w} : wk'[v] = wk[v],
         \A u \in Uid : Elements(pushes[u]) \subseteq Elements(pushes'[u])
  PROVE  /\ \A m \in Msg : Handled(row, pushes, Fresh.pending, m) =>
              Handled(row', pushes', Fresh.pending, m)
         /\ committed' = committed => OffsetsOK'
         /\ \A v \in Worker \ {w} : TakenOK(v, wk[v])' => IterationOK(v, wk[v])'
<1>1. \A m \in Msg : row[m] # 0 => row'[m] = row[m]
  BY DEF Grow
<1>2. ASSUME NEW q, NEW m \in Msg, Handled(row, pushes, q, m) PROVE Handled(row', pushes', q, m)
  <2>1. Carried(pushes, q, pushes', q)
    BY Zenon DEF Carried
  <2> QED
    BY <1>1, <1>2, <2>1, HandledStays
<1>3. ASSUME committed' = committed PROVE OffsetsOK'
  <2> SUFFICES ASSUME NEW p \in Partition, NEW o \in 1 .. committed[p]
               PROVE  o \in DOMAIN log[p] /\ Handled(row', pushes', Fresh.pending, log[p][o].msg)
    BY <1>3 DEF OffsetsOK
  <2>1. o \in DOMAIN log[p] /\ Handled(row, pushes, Fresh.pending, log[p][o].msg)
    BY DEF DoneInv, OffsetsOK
  <2>2. log[p] \in Seq(Record)
    BY DEF TypeOK
  <2>3. log[p][o] \in Record
    BY <2>1, <2>2
  <2>4. log[p][o].msg \in Msg
    BY <2>3 DEF Record
  <2> QED
    BY <1>2, <2>1, <2>4
<1>4. ASSUME NEW v \in Worker \ {w}, TakenOK(v, wk[v])' PROVE IterationOK(v, wk[v])'
  <2>1. IterationOK(v, wk[v]) /\ wk'[v] = wk[v]
    BY DEF DoneInv
  <2>2. /\ wk[v].old \subseteq DOMAIN wk[v].items
        /\ \A i \in DOMAIN wk[v].items : wk[v].items[i].msg \in Msg
    BY IterationType
  <2>3. BatchOK(row', pushes', wk[v])
    BY <1>2, <2>1, <2>2 DEF IterationOK, BatchOK
  <2>4. OldOK(wk[v])'
    BY <1>1, <2>1, <2>2 DEF IterationOK, OldOK
  <2> QED
    BY <1>4, <2>1, <2>3, <2>4 DEF IterationOK
<1> QED
  BY <1>2, <1>3, <1>4

\* A step of w that keeps its batch, the offsets and the written pushes.
LEMMA OwnDone ==
  ASSUME ConstantsAssumption, TypeOK, DoneInv, Grow, NEW w \in Worker,
         Kept(w), UNCHANGED <<log, owner, committed, pushes>>,
         BatchOK(row', pushes', wk'[w]), BatchPlanned(wk'[w]), OnePlanned(wk'[w]),
         wk'[w].singles \subseteq SinglesOf(wk[w]), wk'[w].pc # "offset",
         \A i \in wk'[w].old : row'[wk[w].items[i].msg] # 0
  PROVE  DoneInv'
<1>1. \A v \in Worker \ {w} : wk'[v] = wk[v]
  BY DEF Kept
<1>2. ASSUME NEW v \in Worker PROVE TakenOK(v, wk[v])'
  <2>1. TakenOK(v, wk[v])
    BY DEF DoneInv, IterationOK
  <2>2. wk'[v].items = wk[v].items /\ wk'[v].taken = wk[v].taken /\ wk'[v].stale = wk[v].stale
    BY DEF Kept
  <2> QED
    BY <2>1, <2>2 DEF TakenOK
<1>3. /\ OffsetsOK'
      /\ \A v \in Worker \ {w} : IterationOK(v, wk[v])'
  BY <1>1, <1>2, OthersDone
<1>4. wk'[w].items = wk[w].items
  BY DEF Kept
<1>5. SinglesOf(wk'[w]) = SinglesOf(wk[w])
  BY <1>4 DEF SinglesOf
<1>6. IterationOK(w, wk[w])'
  BY <1>2, <1>4, <1>5 DEF IterationOK, OldOK
<1> QED
  BY <1>3, <1>6 DEF DoneInv

\* The same for a step that touches neither the rows nor the pushes.
LEMMA QuietOwnDone ==
  ASSUME ConstantsAssumption, TypeOK, DoneInv, NEW w \in Worker,
         Kept(w), SameDb, UNCHANGED <<committed, pushes>>,
         BatchOK(row, pushes, wk'[w]), BatchPlanned(wk'[w]), OnePlanned(wk'[w]),
         wk'[w].singles \subseteq SinglesOf(wk[w]), wk'[w].pc # "offset",
         \A i \in wk'[w].old : row[wk[w].items[i].msg] # 0
  PROVE  DoneInv'
<1>1. UNCHANGED <<log, owner, committed, pushes>> /\ row' = row /\ counter' = counter
  BY DEF SameDb
<1>2. Grow
  BY <1>1 DEF Grow, TypeOK
<1>3. BatchOK(row', pushes', wk'[w])
  BY <1>1
<1>4. \A i \in wk'[w].old : row'[wk[w].items[i].msg] # 0
  BY <1>1
<1> QED
  BY <1>1, <1>2, <1>3, <1>4, OwnDone

\* What is true of w before each of its steps.
LEMMA OwnDoneFacts ==
  ASSUME ConstantsAssumption, TypeOK, DoneInv, NEW w \in Worker
  PROVE  /\ BatchOK(row, pushes, wk[w]) /\ BatchPlanned(wk[w]) /\ OnePlanned(wk[w])
         /\ \A i \in wk[w].old : row[wk[w].items[i].msg] # 0
         /\ wk[w].singles \subseteq SinglesOf(wk[w])
         /\ wk[w].pc \in Steps /\ wk[w].ret \in Queues \cup {"select"}
         /\ wk[w].todo \subseteq Nat
         /\ wk[w].todo \cup wk[w].singles \cup wk[w].plan \cup wk[w].old \subseteq DOMAIN wk[w].items
         /\ \A i \in DOMAIN wk[w].items : wk[w].items[i].msg \in Msg
<1>1. IterationOK(w, wk[w])
  BY DEF DoneInv
<1>2. wk[w].pc \in Steps /\ wk[w].ret \in Queues \cup {"select"}
  BY IterationType, FieldTypes
<1>3. /\ wk[w].todo \cup wk[w].singles \cup wk[w].plan \cup wk[w].old \subseteq DOMAIN wk[w].items
      /\ DOMAIN wk[w].items \subseteq Nat
      /\ \A i \in DOMAIN wk[w].items : wk[w].items[i].msg \in Msg
  BY IterationType
<1> QED
  BY <1>1, <1>2, <1>3 DEF IterationOK, OldOK

LEMMA ResolveDone ==
  ASSUME ConstantsAssumption, TypeOK, DoneInv, NEW w \in Worker, Resolve(w)
  PROVE  DoneInv'
<1>1. /\ Kept(w) /\ SameDb /\ UNCHANGED <<committed, pushes>>
      /\ wk'[w].pc = "first"
      /\ wk'[w].todo \cup wk'[w].singles = SinglesOf(wk[w])
      /\ wk'[w].singles \subseteq SinglesOf(wk[w])
      /\ wk'[w].old = wk[w].old
  BY ResolveDoes
<1>2. wk'[w].items = wk[w].items
  BY <1>1 DEF Kept
<1>3. Phase(wk'[w]) = "first"
  BY <1>1 DEF Phase
<1>4. BatchPlanned(wk'[w]) /\ OnePlanned(wk'[w])
  BY <1>1, <1>3 DEF BatchPlanned, OnePlanned, Queues
<1>5. Ahead(wk'[w]) = SinglesOf(wk[w]) \cup OthersOf(wk[w])
  <2>1. Ahead(wk'[w]) = wk'[w].todo \cup wk'[w].singles \cup OthersOf(wk'[w])
    BY <1>3, AheadIs
  <2> QED
    BY <1>1, <1>2, <2>1 DEF OthersOf
<1>6. BatchOK(row, pushes, wk'[w])
  <2> SUFFICES ASSUME NEW i \in DOMAIN wk[w].items
               PROVE  \/ Handled(row, pushes, wk'[w].pending, wk[w].items[i].msg)
                      \/ i \in Ahead(wk'[w])
    BY <1>2 DEF BatchOK
  <2>1. KindOf[wk[w].items[i].msg] \in Kinds
    BY OwnDoneFacts DEF ConstantsAssumption
  <2>2. CASE KindOf[wk[w].items[i].msg] = "bad"
    BY <2>2 DEF Handled, MustArrive, IsValid
  <2>3. CASE KindOf[wk[w].items[i].msg] # "bad"
    BY <1>5, <2>1, <2>3 DEF SinglesOf, OthersOf, Kinds
  <2> QED
    BY <2>2, <2>3
<1> QED
  BY <1>1, <1>4, <1>6, OwnDoneFacts, QuietOwnDone

LEMMA SkipDone ==
  ASSUME ConstantsAssumption, TypeOK, DoneInv, NEW w \in Worker, NEW i,
         SkipPoison(w, i) \/ SkipUnread(w, i)
  PROVE  DoneInv'
<1>1. /\ Kept(w) /\ SameDb /\ UNCHANGED <<committed, pushes>>
      /\ wk[w].pc \in Queues /\ i \in wk[w].todo
      /\ wk'[w].pc = wk[w].pc /\ wk'[w].todo = wk[w].todo \ {i}
      /\ wk'[w].singles = wk[w].singles
      /\ wk'[w].old = wk[w].old /\ wk'[w].pending = wk[w].pending
  BY SkipDoes
<1>2. wk'[w].items = wk[w].items
  BY <1>1 DEF Kept
<1>3. Phase(wk'[w]) = wk[w].pc /\ Phase(wk[w]) = wk[w].pc
  BY <1>1 DEF Phase, Queues
<1>4. BatchPlanned(wk'[w]) /\ OnePlanned(wk'[w])
  BY <1>1, <1>3 DEF BatchPlanned, OnePlanned, Queues
<1>5. Ahead(wk[w]) \subseteq Ahead(wk'[w]) \cup {i}
  <2>1. OthersOf(wk'[w]) = OthersOf(wk[w])
    BY <1>2 DEF OthersOf
  <2> QED
    BY <1>1, <1>3, <2>1, AheadIs DEF Queues
<1>6. Handled(row, pushes, wk'[w].pending, wk[w].items[i].msg)
  BY DEF SkipPoison, SkipUnread, IsPoison, Message, Handled, MustArrive, IsValid
<1>7. BatchOK(row, pushes, wk'[w])
  <2>1. \A j \in Ahead(wk[w]) : \/ Handled(row, pushes, wk'[w].pending, wk[w].items[j].msg)
                                \/ \E k \in Ahead(wk'[w]) : wk[w].items[k].msg = wk[w].items[j].msg
    BY <1>5, <1>6
  <2>2. BatchOK(row, pushes, wk[w])
    BY OwnDoneFacts
  <2>3. wk'[w].pending = wk[w].pending
    BY <1>1
  <2> QED
    BY <1>2, <2>1, <2>2, <2>3, BatchMoves
<1> QED
  BY <1>1, <1>4, <1>7, OwnDoneFacts, QuietOwnDone DEF Queues

LEMMA RefusedDone ==
  ASSUME ConstantsAssumption, TypeOK, DoneInv, NEW w \in Worker, NEW i, HandleRefused(w, i)
  PROVE  DoneInv'
<1>1. /\ Kept(w) /\ SameDb /\ UNCHANGED <<committed, pushes>>
      /\ wk'[w].pc = "flush" /\ wk'[w].fail
      /\ wk'[w].singles = wk[w].singles /\ wk'[w].old = wk[w].old
  BY HandleRefusedDoes
<1> QED
  BY Zenon, <1>1, AllAhead, OwnDoneFacts, QuietOwnDone

\* A push of m to whom it is for, in whatever queues, handles a stored m.
LEMMA PushHandles ==
  ASSUME ConstantsAssumption, TypeOK, NEW q, \A u \in Uid : q[u] \in Seq(Push), NEW us,
         NEW m \in Msg, row[m] # 0, KindOf[m] = "single" => us = Dest[m]
  PROVE  LET r == AppendTo(q, us, [msg |-> m, seq |-> row[m]]) IN
           /\ Handled(row, pushes, r, m)
           /\ Carried(pushes, q, pushes, r)
<1>1. [msg |-> m, seq |-> row[m]] \in Push
  BY DEF TypeOK, Push
<1>2. PICK y \in Push : y = [msg |-> m, seq |-> row[m]]
  BY <1>1
<1> DEFINE r == AppendTo(q, us, y)
<1>3. \A u \in Uid : /\ Elements(q[u]) \subseteq Elements(r[u])
                     /\ u \in us => y \in Elements(r[u])
  BY Zenon, <1>2, AppendToHas
<1>4. Dest[m] \subseteq Uid
  BY DEF ConstantsAssumption
<1> HIDE DEF r
<1>5. Carried(pushes, q, pushes, r)
  BY Zenon, <1>3 DEF Carried
<1>6. Handled(row, pushes, r, m)
  <2>1. ASSUME KindOf[m] = "single", NEW u \in Dest[m]
        PROVE  y \in Elements(r[u])
    BY <1>3, <1>4, <2>1
  <2> QED
    BY <1>2, <2>1 DEF Handled
<1> QED
  BY <1>2, <1>5, <1>6 DEF r

LEMMA HandleReplayDone ==
  ASSUME ConstantsAssumption, TypeOK, DoneInv, NEW w \in Worker, NEW i, HandleReplay(w, i)
  PROVE  DoneInv'
<1> DEFINE m == wk[w].items[i].msg
<1>1. PICK us \in SUBSET Uid :
         /\ Kept(w) /\ SameTx(w) /\ SameDb /\ UNCHANGED <<committed, pushes>>
         /\ wk[w].pc \in Queues /\ i \in wk[w].todo /\ \A j \in wk[w].todo : i <= j
         /\ row[m] # 0
         /\ wk'[w].pc = wk[w].pc /\ wk'[w].todo = wk[w].todo \ {i}
         /\ wk'[w].singles = wk[w].singles /\ wk'[w].old = wk[w].old
         /\ us \in Targets(m)
         /\ wk'[w].pending = AppendTo(wk[w].pending, us, [msg |-> m, seq |-> row[m]])
  BY ZenonT(60), HandleReplayDoes
<1>2. m \in Msg /\ \A u \in Uid : wk[w].pending[u] \in Seq(Push)
  BY <1>1, OwnDoneFacts, IterationType, FieldTypes
<1>3. KindOf[m] = "single" => us = Dest[m]
  BY <1>1 DEF Targets
<1> DEFINE r == AppendTo(wk[w].pending, us, [msg |-> m, seq |-> row[m]])
<1>4. Handled(row, pushes, r, m) /\ Carried(pushes, wk[w].pending, pushes, r)
  BY Zenon, <1>1, <1>2, <1>3, PushHandles
<1>5. wk'[w].pending = r
  BY <1>1
<1> HIDE DEF r
<1>6. wk'[w].items = wk[w].items
  BY <1>1 DEF Kept
<1>7. Phase(wk'[w]) = wk[w].pc /\ Phase(wk[w]) = wk[w].pc
  BY <1>1 DEF Phase, Queues
<1>8. BatchPlanned(wk'[w]) /\ OnePlanned(wk'[w])
  BY <1>1, <1>7 DEF BatchPlanned, OnePlanned, Queues
<1>9. Ahead(wk[w]) \subseteq Ahead(wk'[w]) \cup {i}
  <2>1. OthersOf(wk'[w]) = OthersOf(wk[w])
    BY <1>6 DEF OthersOf
  <2> QED
    BY <1>1, <1>7, <2>1, AheadIs DEF Queues
<1>10. BatchOK(row, pushes, wk'[w])
  <2>1. \A j \in Ahead(wk[w]) : \/ Handled(row, pushes, wk'[w].pending, wk[w].items[j].msg)
                                \/ \E k \in Ahead(wk'[w]) : wk[w].items[k].msg = wk[w].items[j].msg
    BY <1>4, <1>5, <1>9
  <2>2. ASSUME NEW j \in DOMAIN wk[w].items,
               Handled(row, pushes, wk[w].pending, wk[w].items[j].msg)
        PROVE  Handled(row, pushes, wk'[w].pending, wk[w].items[j].msg)
    BY <1>4, <1>5, <2>2, OwnDoneFacts, HandledStays
  <2> QED
    BY Zenon, <1>6, <2>1, <2>2, OwnDoneFacts, BatchMoves
<1> QED
  BY <1>1, <1>8, <1>10, OwnDoneFacts, QuietOwnDone DEF Queues

LEMMA ReplayOneDone ==
  ASSUME ConstantsAssumption, TypeOK, DoneInv, NEW w \in Worker, NEW i, Replay(w, i)
  PROVE  DoneInv'
<1> DEFINE m == wk[w].items[i].msg
           r == AppendTo(wk[w].pending, Dest[m], [msg |-> m, seq |-> row[m]])
<1>1. /\ Kept(w) /\ SameTx(w) /\ SameDb /\ UNCHANGED <<committed, pushes>>
      /\ wk[w].pc = "replay" /\ i \in wk[w].old
      /\ wk'[w].pc = wk[w].pc /\ wk'[w].singles = wk[w].singles
      /\ wk'[w].old = wk[w].old \ {i}
      /\ wk'[w].pending = r
  BY ReplayDoes
<1>2. m \in Msg /\ row[m] # 0 /\ \A u \in Uid : wk[w].pending[u] \in Seq(Push)
  BY <1>1, OwnDoneFacts, IterationType, FieldTypes
<1>4. Handled(row, pushes, r, m) /\ Carried(pushes, wk[w].pending, pushes, r)
  BY Zenon, <1>2, PushHandles
<1> HIDE DEF r
<1>6. wk'[w].items = wk[w].items
  BY <1>1 DEF Kept
<1>7. Phase(wk'[w]) = "replay" /\ Phase(wk[w]) = "replay"
  BY <1>1 DEF Phase
<1>8. BatchPlanned(wk'[w]) /\ OnePlanned(wk'[w])
  BY <1>1, <1>7 DEF BatchPlanned, OnePlanned, Queues
<1>9. Ahead(wk[w]) \subseteq Ahead(wk'[w]) \cup {i}
  <2>1. OthersOf(wk'[w]) = OthersOf(wk[w])
    BY <1>6 DEF OthersOf
  <2> QED
    BY <1>1, <1>7, <2>1, AheadIs
<1>10. BatchOK(row, pushes, wk'[w])
  <2>1. \A j \in Ahead(wk[w]) : \/ Handled(row, pushes, wk'[w].pending, wk[w].items[j].msg)
                                \/ \E k \in Ahead(wk'[w]) : wk[w].items[k].msg = wk[w].items[j].msg
    BY <1>1, <1>4, <1>9
  <2>2. ASSUME NEW j \in DOMAIN wk[w].items,
               Handled(row, pushes, wk[w].pending, wk[w].items[j].msg)
        PROVE  Handled(row, pushes, wk'[w].pending, wk[w].items[j].msg)
    BY <1>1, <1>4, <2>2, OwnDoneFacts, HandledStays
  <2> QED
    BY Zenon, <1>6, <2>1, <2>2, OwnDoneFacts, BatchMoves
<1> QED
  BY <1>1, <1>8, <1>10, OwnDoneFacts, QuietOwnDone

LEMMA SameAhead ==
  ASSUME NEW s, NEW t, Phase(t) = Phase(s), Phase(s) \in Queues \cup {"select"},
         t.items = s.items, t.todo = s.todo, t.singles = s.singles
  PROVE  Ahead(t) = Ahead(s)
<1>1. OthersOf(t) = OthersOf(s)
  BY DEF OthersOf
<1> QED
  BY ZenonT(60), <1>1, AheadIs DEF Queues

LEMMA HandleNewDone ==
  ASSUME ConstantsAssumption, TypeOK, DoneInv, NEW w \in Worker, NEW i, HandleNew(w, i)
  PROVE  DoneInv'
<1>1. /\ Kept(w) /\ SameDb /\ UNCHANGED <<committed, pushes>>
      /\ wk[w].pc \in Queues /\ i \in wk[w].todo /\ \A j \in wk[w].todo : i <= j
      /\ wk'[w].pc = "seq" /\ wk'[w].ret = wk[w].pc /\ wk'[w].plan = {i}
      /\ wk'[w].todo = wk[w].todo /\ wk'[w].singles = wk[w].singles
      /\ wk'[w].old = wk[w].old /\ wk'[w].pending = wk[w].pending
  BY HandleNewDoes
<1>2. wk'[w].items = wk[w].items
  BY <1>1 DEF Kept
<1>3. Phase(wk'[w]) = wk[w].pc /\ Phase(wk[w]) = wk[w].pc
  BY <1>1 DEF Phase, Queues
<1>4. BatchPlanned(wk'[w]) /\ OnePlanned(wk'[w])
  BY <1>1, <1>3 DEF BatchPlanned, OnePlanned, Queues
<1>5. Ahead(wk'[w]) = Ahead(wk[w])
  BY <1>1, <1>2, <1>3, SameAhead
<1>6. BatchOK(row, pushes, wk'[w])
  BY <1>1, <1>2, <1>5, OwnDoneFacts DEF BatchOK
<1> QED
  BY <1>1, <1>4, <1>6, OwnDoneFacts, QuietOwnDone

LEMMA QueueDoneDone ==
  ASSUME ConstantsAssumption, TypeOK, DoneInv, NEW w \in Worker, QueueDone(w)
  PROVE  DoneInv'
<1>1. /\ Kept(w) /\ SameDb /\ UNCHANGED <<committed, pushes>>
      /\ wk[w].pc \in Queues /\ wk[w].todo = {}
      /\ \/ wk[w].pc = "first" /\ wk'[w].pc = "select"
         \/ wk[w].pc = "other" /\ wk'[w].pc = "flush" /\ wk'[w].fail = wk[w].fail
         \/ /\ (wk[w].pc = "first" /\ wk[w].singles = {}) \/ wk[w].pc = "fallback"
            /\ wk'[w].pc = "other" /\ wk'[w].todo = OthersOf(wk[w])
      /\ wk'[w].singles = wk[w].singles
      /\ wk'[w].old = wk[w].old /\ wk'[w].pending = wk[w].pending
  BY QueueDoneDoes
<1>2. wk'[w].items = wk[w].items
  BY <1>1 DEF Kept
<1>3. Phase(wk'[w]) = wk'[w].pc /\ Phase(wk[w]) = wk[w].pc
  BY <1>1 DEF Phase, Queues
<1>4. BatchPlanned(wk'[w]) /\ OnePlanned(wk'[w])
  BY <1>1, <1>3 DEF BatchPlanned, OnePlanned, Queues
<1>5. OthersOf(wk'[w]) = OthersOf(wk[w])
  BY <1>2 DEF OthersOf
<1>6. Ahead(wk[w]) \subseteq Ahead(wk'[w])
  BY <1>1, <1>3, <1>5, AheadIs
<1>7. BatchOK(row, pushes, wk'[w])
  BY <1>1, <1>2, <1>6, OwnDoneFacts DEF BatchOK
<1> QED
  BY <1>1, <1>4, <1>7, OwnDoneFacts, QuietOwnDone

LEMMA ReplayDoneDone ==
  ASSUME ConstantsAssumption, TypeOK, DoneInv, NEW w \in Worker, ReplayDone(w)
  PROVE  DoneInv'
<1>1. /\ Kept(w) /\ SameDb /\ UNCHANGED <<committed, pushes>>
      /\ wk[w].pc = "replay" /\ wk[w].old = {}
      /\ wk'[w].pc = "other" /\ wk'[w].todo = OthersOf(wk[w])
      /\ wk'[w].singles = wk[w].singles
      /\ wk'[w].old = wk[w].old /\ wk'[w].pending = wk[w].pending
  BY ReplayDoneDoes
<1>2. wk'[w].items = wk[w].items
  BY <1>1 DEF Kept
<1>3. Phase(wk'[w]) = "other" /\ Phase(wk[w]) = "replay"
  BY <1>1 DEF Phase
<1>4. BatchPlanned(wk'[w]) /\ OnePlanned(wk'[w])
  BY <1>1, <1>3 DEF BatchPlanned, OnePlanned, Queues
<1>5. Ahead(wk[w]) \subseteq Ahead(wk'[w])
  BY <1>1, <1>3, AheadIs
<1>6. BatchOK(row, pushes, wk'[w])
  BY <1>1, <1>2, <1>5, OwnDoneFacts DEF BatchOK
<1> QED
  BY <1>1, <1>4, <1>6, OwnDoneFacts, QuietOwnDone

\* Every single chat of the batch is looked at once: at its first record.
LEMMA OnceCovers ==
  ASSUME TypeOK, NEW w \in Worker, NEW i \in wk[w].singles
  PROVE  \E j \in Once(w) : wk[w].items[j].msg = wk[w].items[i].msg
<1> DEFINE S == {j \in wk[w].singles : wk[w].items[j].msg = wk[w].items[i].msg}
<1>1. S \subseteq Nat /\ i \in S
  BY IterationType
<1>2. PICK j \in S : \A k \in S : j <= k
  BY Zenon, <1>1, LeastIndex
<1>3. ASSUME NEW k \in wk[w].singles, k < j PROVE wk[w].items[k].msg # wk[w].items[j].msg
  <2> SUFFICES ASSUME wk[w].items[k].msg = wk[w].items[j].msg PROVE FALSE
    OBVIOUS
  <2>1. k \in S
    BY <1>2
  <2>2. j <= k /\ j \in Nat /\ k \in Nat
    BY <1>1, <1>2, <2>1
  <2> QED
    BY <1>3, <2>2
<1>4. j \in Once(w)
  BY <1>2, <1>3 DEF Once, Message
<1> QED
  BY <1>2, <1>4

LEMMA SelectDone ==
  ASSUME ConstantsAssumption, TypeOK, DoneInv, NEW w \in Worker, Select(w)
  PROVE  DoneInv'
<1>1. /\ Kept(w) /\ SameDb /\ UNCHANGED <<committed, pushes>>
      /\ wk[w].pc = "select"
      /\ wk'[w].singles = wk[w].singles /\ wk'[w].pending = wk[w].pending
      /\ \/ /\ NotStored(w) = {}
            /\ wk'[w].pc = "replay" /\ wk'[w].old = Once(w)
         \/ /\ wk'[w].old = wk[w].old
            /\ wk'[w].pc = "fallback" /\ wk'[w].todo = SinglesOf(wk[w])
         \/ /\ wk'[w].pc = "seq" /\ wk'[w].ret = "select"
            /\ wk'[w].plan = NotStored(w) /\ wk'[w].old = Once(w) \ NotStored(w)
  BY SelectDoes
<1>2. wk'[w].items = wk[w].items
  BY <1>1 DEF Kept
<1>3. /\ Phase(wk[w]) = "select"
      /\ wk'[w].pc # "seq" => Phase(wk'[w]) = wk'[w].pc
      /\ wk'[w].pc = "seq" => Phase(wk'[w]) = "select"
  BY <1>1 DEF Phase
<1>4. OthersOf(wk'[w]) = OthersOf(wk[w])
  BY <1>2 DEF OthersOf
<1>5. \A i \in Once(w) \ NotStored(w) : row[wk[w].items[i].msg] # 0
  BY DEF NotStored, Message
<1>6. \A i \in wk'[w].old : row[wk[w].items[i].msg] # 0
  BY <1>1, <1>5, OwnDoneFacts
<1>7. BatchPlanned(wk'[w])
  <2>1. CASE wk'[w].pc # "seq"
    BY <1>1, <1>3, <2>1 DEF BatchPlanned
  <2>2. CASE wk'[w].pc = "seq"
    <3>1. wk'[w].plan \cup wk'[w].old = Once(w)
      BY <1>1, <2>2 DEF NotStored
    <3>2. ASSUME NEW i \in wk'[w].singles
          PROVE  \E j \in wk'[w].plan \cup wk'[w].old : wk'[w].items[j].msg = wk'[w].items[i].msg
      BY <1>1, <1>2, <3>1, OnceCovers
    <3> QED
      BY <3>2 DEF BatchPlanned
  <2> QED
    BY <2>1, <2>2
<1>8. OnePlanned(wk'[w])
  BY <1>1, <1>3 DEF OnePlanned, Queues
<1>9. ASSUME NEW j \in Ahead(wk[w])
      PROVE  \E k \in Ahead(wk'[w]) : wk[w].items[k].msg = wk[w].items[j].msg
  <2>1. j \in wk[w].singles \/ j \in OthersOf(wk[w])
    BY <1>3, <1>9, AheadIs
  <2>2. CASE wk'[w].pc = "replay"
    <3>1. Ahead(wk'[w]) = Once(w) \cup OthersOf(wk[w])
      BY <1>1, <1>3, <1>4, <2>2, AheadIs
    <3> QED
      BY <2>1, <3>1, OnceCovers
  <2>3. CASE wk'[w].pc = "fallback"
    <3>1. Ahead(wk'[w]) = SinglesOf(wk[w]) \cup OthersOf(wk[w])
      BY <1>1, <1>3, <1>4, <2>3, AheadIs
    <3> QED
      BY <2>1, <3>1, OwnDoneFacts
  <2>4. CASE wk'[w].pc = "seq"
    <3>1. Ahead(wk'[w]) = wk[w].singles \cup OthersOf(wk[w])
      BY <1>1, <1>3, <1>4, <2>4, AheadIs
    <3> QED
      BY <2>1, <3>1
  <2> QED
    BY <1>1, <2>2, <2>3, <2>4
<1>10. BatchOK(row, pushes, wk'[w])
  BY SMTT(60), <1>1, <1>2, <1>9, OwnDoneFacts, BatchMoves
<1> QED
  BY <1>1, <1>6, <1>7, <1>8, <1>10, OwnDoneFacts, QuietOwnDone

LEMMA NextSeqDone ==
  ASSUME ConstantsAssumption, TypeOK, DoneInv, NEW w \in Worker, NextSeq(w)
  PROVE  DoneInv'
<1>1. /\ Kept(w) /\ UNCHANGED <<log, owner, row, counter, lastSeq, committed, pushes>>
      /\ wk[w].pc = "seq" /\ wk'[w].pc = "assign"
      /\ wk'[w].ret = wk[w].ret /\ wk'[w].plan = wk[w].plan
      /\ wk'[w].asg = wk[w].asg /\ wk'[w].out = wk[w].out
      /\ wk'[w].todo = wk[w].todo /\ wk'[w].singles = wk[w].singles
      /\ wk'[w].old = wk[w].old /\ wk'[w].pending = wk[w].pending
  BY NextSeqDoes
<1>2. wk'[w].items = wk[w].items
  BY <1>1 DEF Kept
<1>3. Phase(wk'[w]) = Phase(wk[w]) /\ Phase(wk[w]) \in Queues \cup {"select"}
  BY <1>1, OwnDoneFacts DEF Phase
<1>4. Ahead(wk'[w]) = Ahead(wk[w])
  BY <1>1, <1>2, <1>3, SameAhead
<1>5. BatchOK(row, pushes, wk'[w])
  BY <1>1, <1>2, <1>4, OwnDoneFacts DEF BatchOK
<1>6. BatchPlanned(wk'[w])
  <2>1. \A m \in Msg : Numbered(wk[w], m) => Numbered(wk'[w], m)
    BY <1>1 DEF Numbered
  <2>2. BatchPlanned(wk[w])
    BY OwnDoneFacts
  <2> SUFFICES ASSUME Phase(wk[w]) = "select", NEW i \in wk[w].singles
               PROVE  \/ \E j \in wk[w].plan \cup wk[w].old : wk[w].items[j].msg = wk[w].items[i].msg
                      \/ Numbered(wk'[w], wk[w].items[i].msg)
    BY <1>1, <1>2, <1>3 DEF BatchPlanned
  <2>3. wk[w].items[i].msg \in Msg
    BY OwnDoneFacts
  <2>4. \/ \E j \in wk[w].plan \cup wk[w].old : wk[w].items[j].msg = wk[w].items[i].msg
        \/ Numbered(wk[w], wk[w].items[i].msg)
    BY SMTT(60), <1>1, <2>2 DEF BatchPlanned
  <2> QED
    BY Zenon, <2>1, <2>3, <2>4
<1>7. OnePlanned(wk'[w])
  <2>1. OnePlanned(wk[w])
    BY OwnDoneFacts
  <2>2. wk[w].pc \notin Queues
    BY <1>1 DEF Queues
  <2> SUFFICES ASSUME Phase(wk[w]) \in Queues
               PROVE  \E i \in wk[w].todo : /\ \A j \in wk[w].todo : i <= j
                                             /\ wk[w].plan = {i}
    BY <1>1, <1>3 DEF OnePlanned
  <2> QED
    BY <1>1, <2>1, <2>2 DEF OnePlanned
<1>8. Grow
  BY <1>1 DEF Grow, TypeOK
<1>9. BatchOK(row', pushes', wk'[w])
  BY <1>1, <1>5
<1>10. \A i \in wk'[w].old : row'[wk[w].items[i].msg] # 0
  BY <1>1, OwnDoneFacts
<1> QED
  BY <1>1, <1>6, <1>7, <1>8, <1>9, <1>10, OwnDoneFacts, OwnDone

LEMMA OneMore ==
  ASSUME NEW a \in Nat, NEW b \in Nat, NEW k \in a + 1 .. a + (b + 1), k # a + b + 1
  PROVE  b > 0 /\ k \in a + 1 .. a + b
  OBVIOUS

LEMMA FetchDone ==
  ASSUME ConstantsAssumption, TypeOK, DoneInv, NEW w \in Worker, NEW p \in Partition, Fetch(w, p)
  PROVE  DoneInv'
<1>1. PICK n \in Nat, x \in Record : Fetches(w, p, n, x)
  BY FetchDoes
<1>2. n = committed[p] + wk[w].taken[p] + 1
  BY <1>1 DEF Fetches
<1>3. /\ n \in DOMAIN log[p] /\ x = log[p][n]
      /\ wk'[w].items = Append(wk[w].items, x)
      /\ wk'[w].taken = [wk[w].taken EXCEPT ![p] = wk[w].taken[p] + 1]
      /\ wk'[w].stale = wk[w].stale /\ wk'[w].pc = "fetch" /\ wk[w].pc = "fetch"
      /\ wk'[w].singles = wk[w].singles /\ wk'[w].old = wk[w].old
      /\ \A v \in Worker \ {w} : wk'[v] = wk[v]
      /\ UNCHANGED <<log, owner, row, counter, committed, pushes>> /\ owner[p] = w
  BY <1>1 DEF Fetches, SameDb
<1>4. /\ wk[w].items \in Seq(Record) /\ wk[w].old \subseteq DOMAIN wk[w].items
      /\ wk[w].taken \in [Partition -> Nat] /\ committed \in [Partition -> Nat]
  BY Zenon, IterationType, FieldTypes DEF TypeOK
<1>5. /\ DOMAIN wk[w].items \subseteq DOMAIN wk'[w].items
      /\ \A i \in DOMAIN wk[w].items : wk'[w].items[i] = wk[w].items[i]
  BY SMTT(60), <1>3, <1>4
<1>6. Elements(wk[w].items) \subseteq Elements(wk'[w].items) /\ x \in Elements(wk'[w].items)
  BY SMTT(30), <1>3, <1>4, ElementsAppend
<1>7. IterationOK(w, wk[w])
  BY DEF DoneInv
<1>8. TakenOK(w, wk[w])'
  <2> SUFFICES ASSUME ~wk[w].stale, NEW q \in Partition, wk'[w].taken[q] > 0
               PROVE  /\ owner[q] = w
                      /\ \A k \in committed[q] + 1 .. committed[q] + wk'[w].taken[q] :
                           k \in DOMAIN log[q] /\ log[q][k] \in Elements(wk'[w].items)
    BY <1>3 DEF TakenOK
  <2>1. wk[w].taken[q] > 0 =>
          /\ owner[q] = w
          /\ \A k \in committed[q] + 1 .. committed[q] + wk[w].taken[q] :
               k \in DOMAIN log[q] /\ log[q][k] \in Elements(wk[w].items)
    BY <1>7 DEF IterationOK, TakenOK
  <2>2. CASE q # p
    <3>1. wk'[w].taken[q] = wk[w].taken[q]
      BY Zenon, <1>3, <1>4, <2>2
    <3> QED
      BY <1>6, <2>1, <3>1
  <2>3. CASE q = p
    <3>1. wk'[w].taken[q] = wk[w].taken[q] + 1 /\ committed[q] \in Nat /\ wk[w].taken[q] \in Nat
      BY SMTT(30), <1>3, <1>4, <2>3
    <3>2. ASSUME NEW k \in committed[q] + 1 .. committed[q] + wk'[w].taken[q]
          PROVE  k \in DOMAIN log[q] /\ log[q][k] \in Elements(wk'[w].items)
      <4>1. CASE k = n
        BY <1>3, <1>6, <2>3, <4>1
      <4>2. CASE k # n
        <5>1. wk[w].taken[q] > 0 /\ k \in committed[q] + 1 .. committed[q] + wk[w].taken[q]
          BY Zenon, <1>2, <2>3, <3>1, <4>2, OneMore
        <5> QED
          BY <1>6, <2>1, <5>1
      <4> QED
        BY <4>1, <4>2
    <3> QED
      BY Zenon, <1>3, <2>3, <3>2
  <2> QED
    BY <2>2, <2>3
<1>9. Grow
  BY <1>3 DEF Grow, TypeOK
<1>10. OffsetsOK' /\ \A v \in Worker \ {w} : IterationOK(v, wk[v])'
  <2>1. \A v \in Worker \ {w} : TakenOK(v, wk[v])'
    BY SMTT(60), <1>3 DEF DoneInv, IterationOK, TakenOK
  <2> QED
    BY <1>3, <1>9, <2>1, OthersDone
<1>11. IterationOK(w, wk[w])'
  <2>1. BatchOK(row', pushes', wk'[w]) /\ BatchPlanned(wk'[w]) /\ OnePlanned(wk'[w])
    BY <1>3, AllAhead
  <2>2. wk'[w].singles \subseteq SinglesOf(wk'[w])
    BY SMTT(30), <1>3, <1>5, <1>7 DEF IterationOK, SinglesOf
  <2>3. OldOK(wk[w])'
    BY ZenonT(60), <1>3, <1>4, <1>5, <1>7 DEF IterationOK, OldOK
  <2> QED
    BY <1>3, <1>8, <2>1, <2>2, <2>3 DEF IterationOK
<1> QED
  BY <1>10, <1>11 DEF DoneInv

LEMMA AbortDone ==
  ASSUME ConstantsAssumption, TypeOK, DoneInv, NEW w \in Worker, InsertConflict(w) \/ Fail(w)
  PROVE  DoneInv'
<1>1. /\ Kept(w) /\ UNCHANGED <<log, owner, row, counter, committed, pushes>>
      /\ wk'[w].pc = "flush" /\ wk'[w].fail
      /\ wk'[w].singles = wk[w].singles /\ wk'[w].old = wk[w].old
  BY AbortDoes
<1>2. Grow
  BY <1>1 DEF Grow, TypeOK
<1>3. BatchOK(row', pushes', wk'[w]) /\ BatchPlanned(wk'[w]) /\ OnePlanned(wk'[w])
  BY Zenon, <1>1, AllAhead
<1>4. \A i \in wk'[w].old : row'[wk[w].items[i].msg] # 0
  BY <1>1, OwnDoneFacts
<1> QED
  BY <1>1, <1>2, <1>3, <1>4, OwnDoneFacts, OwnDone

\* A worker that starts again has no batch.
LEMMA FreshDone ==
  ASSUME ConstantsAssumption, TypeOK, DoneInv, NEW w \in Worker,
         wk'[w] = Fresh, \A v \in Worker \ {w} : wk'[v] = wk[v],
         UNCHANGED <<log, owner, row, counter, committed>>,
         \A u \in Uid : Elements(pushes[u]) \subseteq Elements(pushes'[u])
  PROVE  DoneInv'
<1>1. Grow
  BY DEF Grow, TypeOK
<1>2. OffsetsOK' /\ \A v \in Worker \ {w} : IterationOK(v, wk[v])'
  <2>1. \A v \in Worker \ {w} : TakenOK(v, wk[v])'
    BY DEF DoneInv, IterationOK, TakenOK
  <2> QED
    BY Zenon, <1>1, <2>1, OthersDone
<1>3. IterationOK(w, wk[w])'
  <2>1. /\ Fresh.pc = "fetch" /\ Fresh.items = <<>> /\ Fresh.old = {} /\ Fresh.singles = {}
        /\ \A p \in Partition : Fresh.taken[p] = 0
    BY DEF Fresh
  <2>2. BatchOK(row', pushes', Fresh) /\ BatchPlanned(Fresh) /\ OnePlanned(Fresh)
    BY Zenon, <2>1, AllAhead
  <2>3. TakenOK(w, wk[w])'
    BY <2>1 DEF TakenOK
  <2>4. OldOK(wk[w])'
    BY <2>1 DEF OldOK
  <2> QED
    BY <2>1, <2>2, <2>3, <2>4 DEF IterationOK
<1> QED
  BY <1>2, <1>3 DEF DoneInv

LEMMA AssignDone ==
  ASSUME ConstantsAssumption, TypeOK, DoneInv, NEW w \in Worker, NEW i, Assign(w, i)
  PROVE  DoneInv'
<1> DEFINE mi == wk[w].items[i].msg
           ni == wk[w].next[ConvOf[mi]] + 1
<1>0. PICK us \in SUBSET Uid :
      /\ Kept(w) /\ SameDb /\ UNCHANGED <<committed, pushes>>
      /\ wk[w].pc = "assign" /\ wk'[w].pc = "assign" /\ wk'[w].ret = wk[w].ret
      /\ i \in wk[w].plan /\ wk'[w].plan = wk[w].plan \ {i}
      /\ wk'[w].next = [wk[w].next EXCEPT ![ConvOf[mi]] = ni]
      /\ wk'[w].asg = [wk[w].asg EXCEPT ![mi] = ni]
      /\ wk'[w].out = AppendTo(wk[w].out, us, [msg |-> mi, seq |-> ni])
      /\ us \in Targets(mi)
      /\ wk'[w].todo = wk[w].todo /\ wk'[w].singles = wk[w].singles
      /\ wk'[w].old = wk[w].old /\ wk'[w].pending = wk[w].pending
  BY ZenonT(60), AssignDoes
<1>a. /\ Kept(w) /\ SameDb /\ UNCHANGED <<committed, pushes>>
      /\ wk[w].pc = "assign" /\ wk'[w].pc = "assign" /\ wk'[w].ret = wk[w].ret
      /\ i \in wk[w].plan /\ wk'[w].plan = wk[w].plan \ {i}
      /\ wk'[w].todo = wk[w].todo /\ wk'[w].singles = wk[w].singles
      /\ wk'[w].old = wk[w].old /\ wk'[w].pending = wk[w].pending
  BY Zenon, <1>0
<1>b. /\ wk'[w].asg = [wk[w].asg EXCEPT ![mi] = ni]
      /\ wk'[w].out = AppendTo(wk[w].out, us, [msg |-> mi, seq |-> ni])
      /\ us \in Targets(mi)
  BY Zenon, <1>0
<1>c. i \in wk[w].plan
  BY Zenon, <1>0
<1>1. /\ wk[w].next \in [Conv -> Nat] /\ wk[w].asg \in [Msg -> Nat]
      /\ wk[w].out \in [Uid -> Seq(Push)]
  BY SMTT(60), IterationType, FieldTypes
<1>2. PICK m \in Msg : m = mi
  BY <1>c, IterationType
<1>3. ConvOf[m] \in Conv /\ Dest[m] \subseteq Uid
  BY DEF ConstantsAssumption
<1>4. PICK n \in Nat : n = ni /\ n # 0
  BY SMTT(30), <1>1, <1>2, <1>3
<1>5. PICK y \in Push : y = [msg |-> m, seq |-> n]
  BY Zenon DEF Push
<1> HIDE DEF mi, ni
<1>6. /\ wk'[w].asg = [wk[w].asg EXCEPT ![m] = n]
      /\ wk'[w].out = AppendTo(wk[w].out, us, y)
      /\ KindOf[m] = "single" => us = Dest[m]
  <2>1. m = mi /\ n = ni /\ y = [msg |-> m, seq |-> n]
    BY Zenon, <1>2, <1>4, <1>5
  <2>2. KindOf[m] = "single" => us = Dest[m]
    BY Zenon, <1>b, <2>1 DEF Targets
  <2>3. wk'[w].asg = [wk[w].asg EXCEPT ![m] = n]
    BY Zenon, <1>b, <2>1
  <2>4. wk'[w].out = AppendTo(wk[w].out, us, y)
    BY Zenon, <1>b, <2>1
  <2> QED
    BY Zenon, <2>2, <2>3, <2>4
<1>7. wk'[w].items = wk[w].items
  BY Zenon, <1>a DEF Kept
<1>8. wk'[w].items = wk[w].items /\ wk[w].items[i].msg = m
  BY Zenon, <1>2, <1>7 DEF mi
<1>9. ASSUME NEW u \in Uid
      PROVE  /\ Elements(wk[w].out[u]) \subseteq Elements(wk'[w].out[u])
             /\ u \in us => y \in Elements(wk'[w].out[u])
  <2>1. wk[w].out[u] \in Seq(Push)
    BY <1>1
  <2>2. /\ Elements(wk[w].out[u]) \subseteq Elements(AppendTo(wk[w].out, us, y)[u])
        /\ u \in us => y \in Elements(AppendTo(wk[w].out, us, y)[u])
    BY ZenonT(60), <2>1, AppendToHas
  <2> QED
    BY <1>6, <2>2
<1>10. Numbered(wk'[w], m)
  <2>1. wk'[w].asg[m] = n
    BY <1>1, <1>6
  <2> QED
    BY <1>3, <1>4, <1>5, <1>6, <1>9, <2>1 DEF Numbered
<1>11. ASSUME NEW x \in Msg, Numbered(wk[w], x) PROVE Numbered(wk'[w], x)
  <2>1. CASE x = m
    BY <1>10, <2>1
  <2>2. CASE x # m
    <3>1. wk'[w].asg[x] = wk[w].asg[x]
      BY <1>1, <1>6, <2>2
    <3>2. Dest[x] \subseteq Uid
      BY DEF ConstantsAssumption
    <3> QED
      BY Zenon, <1>9, <1>11, <3>1, <3>2 DEF Numbered
  <2> QED
    BY <2>1, <2>2
<1>12. Phase(wk'[w]) = Phase(wk[w]) /\ Phase(wk[w]) \in Queues \cup {"select"}
  BY <1>a, OwnDoneFacts DEF Phase
<1>13. Ahead(wk'[w]) = Ahead(wk[w])
  BY <1>8, <1>12, <1>a, SameAhead
<1>14. BatchOK(row, pushes, wk'[w])
  BY <1>8, <1>13, <1>a, OwnDoneFacts DEF BatchOK
<1>15. BatchPlanned(wk'[w])
  <2> SUFFICES ASSUME Phase(wk[w]) = "select", NEW k \in wk[w].singles
               PROVE  \/ \E j \in wk'[w].plan \cup wk[w].old : wk[w].items[j].msg = wk[w].items[k].msg
                      \/ Numbered(wk'[w], wk[w].items[k].msg)
    BY <1>8, <1>12, <1>a DEF BatchPlanned
  <2>1. wk[w].items[k].msg \in Msg
    BY OwnDoneFacts
  <2>2. \/ \E j \in wk[w].plan \cup wk[w].old : wk[w].items[j].msg = wk[w].items[k].msg
        \/ Numbered(wk[w], wk[w].items[k].msg)
    BY <1>a, OwnDoneFacts DEF BatchPlanned
  <2>3. CASE Numbered(wk[w], wk[w].items[k].msg)
    BY <1>11, <2>1, <2>3
  <2>4. ASSUME NEW j \in wk[w].plan \cup wk[w].old, wk[w].items[j].msg = wk[w].items[k].msg
        PROVE  \/ j \in wk'[w].plan \cup wk[w].old
               \/ Numbered(wk'[w], wk[w].items[k].msg)
    <3>1. CASE j = i
      BY <1>8, <1>10, <2>4, <3>1
    <3>2. CASE j # i
      BY <1>a, <2>4, <3>2
    <3> QED
      BY <3>1, <3>2
  <2> QED
    BY <2>2, <2>3, <2>4
<1>16. OnePlanned(wk'[w])
  <2> SUFFICES ASSUME Phase(wk[w]) \in Queues
               PROVE  \E k \in wk[w].todo :
                        /\ \A j \in wk[w].todo : k <= j
                        /\ wk'[w].plan = {} /\ Numbered(wk'[w], wk[w].items[k].msg)
    BY <1>8, <1>12, <1>a DEF OnePlanned
  <2>1. PICK k \in wk[w].todo : /\ \A j \in wk[w].todo : k <= j
                                /\ \/ wk[w].plan = {k}
                                   \/ wk[w].plan = {}
    BY Zenon, <1>a, OwnDoneFacts DEF OnePlanned, Queues
  <2>2. k = i /\ wk'[w].plan = {}
    BY <1>a, <2>1
  <2> QED
    BY <1>8, <1>10, <2>1, <2>2
<1> QED
  BY <1>14, <1>15, <1>16, <1>a, OwnDoneFacts, QuietOwnDone

\* The COMMIT handles what its transaction has numbered.
LEMMA InsertDone ==
  ASSUME ConstantsAssumption, TypeOK, DoneInv, OneWriter => HistInv, Grow,
         NEW w \in Worker, Insert(w)
  PROVE  DoneInv'
<1>1. /\ Kept(w) /\ UNCHANGED <<log, owner, committed, pushes>>
      /\ wk[w].pc = "assign" /\ wk[w].plan = {}
      /\ wk'[w].pc = IF wk[w].ret = "select" THEN "replay" ELSE wk[w].ret
      /\ wk'[w].singles = wk[w].singles /\ wk'[w].old = wk[w].old
  BY Zenon, InsertDoes
<1>2. \A m \in Msg : row'[m] = IF row[m] = 0 THEN wk[w].asg[m] ELSE row[m]
  BY ZenonT(60), InsertDoes
<1>3. wk[w].ret # "select" =>
        wk'[w].todo = wk[w].todo \ {i \in wk[w].todo : \A j \in wk[w].todo : i <= j}
  BY Zenon, InsertDoes
<1>4. ASSUME NEW u \in Uid
      PROVE  Elements(wk[w].pending[u]) \cup Elements(wk[w].out[u]) \subseteq Elements(wk'[w].pending[u])
  <2>1. wk[w].pending[u] \in Seq(Push) /\ wk[w].out[u] \in Seq(Push)
    BY IterationType, FieldTypes
  <2>2. wk'[w].pending = [x \in Uid |-> wk[w].pending[x] \o wk[w].out[x]]
    BY ZenonT(60), InsertDoes
  <2>3. wk'[w].pending[u] = wk[w].pending[u] \o wk[w].out[u]
    BY Zenon, <2>2
  <2> QED
    BY <2>1, <2>3, ElementsJoin
<1>5. wk'[w].items = wk[w].items /\ OthersOf(wk'[w]) = OthersOf(wk[w])
  BY <1>1 DEF Kept, OthersOf
<1>6. ASSUME NEW m \in Msg, Numbered(wk[w], m)
      PROVE  Handled(row', pushes', wk'[w].pending, m)
  <2>1. wk[w].asg[m] # 0 /\ row'[m] # 0
    BY Zenon, <1>2, <1>6 DEF Numbered
  <2>2. ASSUME OneWriter, KindOf[m] = "single", NEW u \in Dest[m]
        PROVE  [msg |-> m, seq |-> row'[m]] \in Elements(wk'[w].pending[u])
    <3>1. row[m] = 0
      BY <2>1, <2>2 DEF HistInv, HistoryOK, NumbersOK, Fit
    <3>2. row'[m] = wk[w].asg[m] /\ u \in Uid
      BY <1>2, <2>2, <3>1 DEF ConstantsAssumption
    <3>3. [msg |-> m, seq |-> wk[w].asg[m]] \in Elements(wk[w].out[u])
      BY <1>6, <2>2 DEF Numbered
    <3> QED
      BY Zenon, <1>4, <3>2, <3>3
  <2> QED
    BY <2>1, <2>2 DEF Handled
<1>7. ASSUME NEW j \in DOMAIN wk[w].items, Handled(row, pushes, wk[w].pending, wk[w].items[j].msg)
      PROVE  Handled(row', pushes', wk'[w].pending, wk[w].items[j].msg)
  <2>1. wk[w].items[j].msg \in Msg
    BY OwnDoneFacts
  <2>2. Carried(pushes, wk[w].pending, pushes', wk'[w].pending)
    BY Zenon, <1>1, <1>4 DEF Carried
  <2>3. row[wk[w].items[j].msg] # 0 => row'[wk[w].items[j].msg] = row[wk[w].items[j].msg]
    BY <1>2, <2>1
  <2> QED
    BY <1>7, <2>1, <2>2, <2>3, HandledStays
<1>8. Phase(wk'[w]) = wk'[w].pc /\ Phase(wk[w]) = wk[w].ret /\ wk[w].ret \in Queues \cup {"select"}
  BY <1>1, OwnDoneFacts DEF Phase, Queues
<1>9. ASSUME NEW j \in Ahead(wk[w])
      PROVE  \/ Handled(row', pushes', wk'[w].pending, wk[w].items[j].msg)
             \/ \E k \in Ahead(wk'[w]) : wk[w].items[k].msg = wk[w].items[j].msg
  <2>1. CASE wk[w].ret = "select"
    <3>1. /\ Ahead(wk'[w]) = wk[w].old \cup OthersOf(wk[w])
          /\ j \in wk[w].singles \cup OthersOf(wk[w])
      BY <1>1, <1>5, <1>8, <1>9, <2>1, AheadIs
    <3>2. CASE j \in wk[w].singles
      <4>1. \/ \E k \in wk[w].old : wk[w].items[k].msg = wk[w].items[j].msg
            \/ Numbered(wk[w], wk[w].items[j].msg)
        BY <1>1, <1>8, <2>1, <3>2, OwnDoneFacts DEF BatchPlanned
      <4>2. wk[w].items[j].msg \in Msg
        BY <3>2, OwnDoneFacts
      <4> QED
        BY <1>6, <3>1, <4>1, <4>2
    <3> QED
      BY <3>1, <3>2
  <2>2. CASE wk[w].ret \in Queues
    <3>1. PICK k \in wk[w].todo : /\ \A l \in wk[w].todo : k <= l
                                  /\ Numbered(wk[w], wk[w].items[k].msg)
      BY Zenon, <1>1, <1>8, <2>2, OwnDoneFacts DEF OnePlanned, Queues
    <3>2. wk[w].items[k].msg \in Msg /\ wk[w].todo \subseteq Nat
      BY <3>1, OwnDoneFacts
    <3>3. wk'[w].todo = wk[w].todo \ {k}
      <4>1. ASSUME NEW l \in wk[w].todo, \A x \in wk[w].todo : l <= x PROVE l = k
        <5>1. l <= k /\ k <= l /\ l \in Nat /\ k \in Nat
          BY <3>1, <3>2, <4>1
        <5> QED
          BY <5>1
      <4>2. {l \in wk[w].todo : \A x \in wk[w].todo : l <= x} = {k}
        BY <3>1, <4>1
      <4> QED
        BY <1>3, <2>2, <4>2 DEF Queues
    <3>4. Ahead(wk[w]) \subseteq Ahead(wk'[w]) \cup {k}
      <4>1. Phase(wk'[w]) = wk[w].ret
        BY <1>1, <1>8, <2>2 DEF Queues
      <4>2. CASE wk[w].ret = "first"
        BY <1>1, <1>5, <1>8, <3>3, <4>1, <4>2, AheadIs
      <4>3. CASE wk[w].ret = "fallback"
        BY <1>1, <1>5, <1>8, <3>3, <4>1, <4>3, AheadIs
      <4>4. CASE wk[w].ret = "other"
        BY <1>1, <1>5, <1>8, <3>3, <4>1, <4>4, AheadIs
      <4> QED
        BY <2>2, <4>2, <4>3, <4>4 DEF Queues
    <3> QED
      BY <1>6, <1>9, <3>1, <3>2, <3>4
  <2> QED
    BY <1>8, <2>1, <2>2
<1>10. BatchOK(row', pushes', wk'[w])
  <2>1. BatchOK(row, pushes, wk[w])
    BY OwnDoneFacts
  <2> QED
    BY Zenon, <1>5, <1>7, <1>9, <2>1, BatchMoves
<1>11. BatchPlanned(wk'[w]) /\ OnePlanned(wk'[w])
  BY <1>1, <1>8 DEF BatchPlanned, OnePlanned, Queues
<1>12. \A i \in wk'[w].old : row'[wk[w].items[i].msg] # 0
  <2>1. \A i \in wk[w].old : row[wk[w].items[i].msg] # 0 /\ wk[w].items[i].msg \in Msg
    BY OwnDoneFacts
  <2> QED
    BY <1>1, <1>2, <2>1
<1>13. wk'[w].pc # "offset" /\ wk'[w].singles \subseteq SinglesOf(wk[w])
  BY <1>1, <1>8, OwnDoneFacts DEF Queues
<1> QED
  BY <1>1, <1>10, <1>11, <1>12, <1>13, OwnDone

\* The flush writes what was pending.
LEMMA FlushDone ==
  ASSUME ConstantsAssumption, TypeOK, DoneInv, NEW w \in Worker, FlushPushes(w)
  PROVE  DoneInv'
<1>1. /\ UNCHANGED <<log, owner, row, counter, committed>>
      /\ wk[w].pc = "flush"
      /\ \A v \in Worker \ {w} : wk'[v] = wk[v]
      /\ pushes' = [u \in Uid |-> pushes[u] \o wk[w].pending[u]]
      /\ \/ wk[w].fail /\ wk'[w] = Fresh
         \/ /\ ~wk[w].fail /\ Kept(w) /\ SameTx(w)
            /\ wk'[w].pc = "offset" /\ wk'[w].pending = Fresh.pending
            /\ wk'[w].singles = wk[w].singles /\ wk'[w].old = wk[w].old
  BY Zenon, FlushDoes DEF SameDb
<1>2. ASSUME NEW u \in Uid
      PROVE  Elements(pushes[u]) \cup Elements(wk[w].pending[u]) \subseteq Elements(pushes'[u])
  <2>1. wk[w].pending[u] \in Seq(Push) /\ pushes[u] \in Seq(Push)
    BY IterationType, FieldTypes DEF TypeOK
  <2>2. pushes'[u] = pushes[u] \o wk[w].pending[u]
    BY Zenon, <1>1
  <2> QED
    BY <2>1, <2>2, ElementsJoin
<1>3. CASE wk[w].fail
  BY Zenon, <1>1, <1>2, <1>3, FreshDone
<1>4. CASE ~wk[w].fail
  <2>1. Grow
    BY <1>1 DEF Grow, TypeOK
  <2>2. wk'[w].items = wk[w].items /\ wk'[w].taken = wk[w].taken /\ wk'[w].stale = wk[w].stale
    BY <1>1, <1>4 DEF Kept
  <2>3. ASSUME NEW v \in Worker PROVE TakenOK(v, wk[v])'
    <3>1. TakenOK(v, wk[v])
      BY DEF DoneInv, IterationOK
    <3>2. wk'[v].items = wk[v].items /\ wk'[v].taken = wk[v].taken /\ wk'[v].stale = wk[v].stale
      BY <1>1, <2>2
    <3> QED
      BY <1>1, <3>1, <3>2 DEF TakenOK
  <2>4. OffsetsOK' /\ \A v \in Worker \ {w} : IterationOK(v, wk[v])'
    BY Zenon, <1>1, <1>2, <2>1, <2>3, OthersDone
  <2>5. Phase(wk[w]) = "flush" /\ Phase(wk'[w]) = "offset"
    BY <1>1, <1>4 DEF Phase
  <2>6. BatchOK(row', pushes', wk'[w])
    <3>1. ASSUME NEW j \in DOMAIN wk[w].items,
                 Handled(row, pushes, wk[w].pending, wk[w].items[j].msg)
          PROVE  Handled(row', pushes', wk'[w].pending, wk[w].items[j].msg)
      <4>1. Carried(pushes, wk[w].pending, pushes', wk'[w].pending)
        BY Zenon, <1>2 DEF Carried
      <4> QED
        BY <1>1, <3>1, <4>1, OwnDoneFacts, HandledStays
    <3>2. Ahead(wk[w]) = {}
      BY <1>4, <2>5, AheadIs
    <3>3. BatchOK(row, pushes, wk[w])
      BY OwnDoneFacts
    <3> QED
      BY ZenonT(60), <2>2, <3>1, <3>2, <3>3, BatchMoves
  <2>7. BatchPlanned(wk'[w]) /\ OnePlanned(wk'[w])
    BY <2>5 DEF BatchPlanned, OnePlanned, Queues
  <2>8. OldOK(wk[w])' /\ wk'[w].singles \subseteq SinglesOf(wk'[w])
    BY <1>1, <1>4, <2>2, OwnDoneFacts DEF OldOK, SinglesOf
  <2>9. IterationOK(w, wk[w])'
    BY <1>1, <1>4, <2>3, <2>6, <2>7, <2>8 DEF IterationOK
  <2> QED
    BY <2>4, <2>9 DEF DoneInv
<1> QED
  BY <1>3, <1>4

\* The offsets move over a batch of which nothing is ahead.
LEMMA CommitDone ==
  ASSUME ConstantsAssumption, TypeOK, DoneInv, NEW w \in Worker, CommitMessages(w)
  PROVE  DoneInv'
<1>1. /\ UNCHANGED <<log, owner, row, counter, pushes>>
      /\ wk'[w] = Fresh /\ \A v \in Worker \ {w} : wk'[v] = wk[v]
  <2>1. Become(w, Fresh) /\ UNCHANGED <<log, owner, row, counter, pushes>>
    BY DEF CommitMessages, db
  <2> QED
    BY <2>1, BecomeOnly
<1>2. /\ wk[w].pc = "offset" /\ ~wk[w].stale
      /\ \A p \in Partition : committed'[p] = committed[p] + wk[w].taken[p]
  BY DEF CommitMessages
<1>3. committed \in [Partition -> Nat] /\ wk[w].taken \in [Partition -> Nat]
  BY IterationType, FieldTypes DEF TypeOK
<1>4. IterationOK(w, wk[w])
  BY DEF DoneInv
<1>5. \A p \in Partition : wk[w].taken[p] > 0 =>
        /\ owner[p] = w
        /\ \A k \in committed[p] + 1 .. committed[p] + wk[w].taken[p] :
             k \in DOMAIN log[p] /\ log[p][k] \in Elements(wk[w].items)
  BY <1>2, <1>4 DEF IterationOK, TakenOK
<1>6. ASSUME NEW x \in Elements(wk[w].items)
      PROVE  Handled(row, pushes, Fresh.pending, x.msg)
  <2>1. PICK i \in DOMAIN wk[w].items : x = wk[w].items[i]
    BY <1>6 DEF Elements
  <2>2. Ahead(wk[w]) = {}
    BY <1>2, AheadIs DEF Phase
  <2>3. Handled(row, pushes, wk[w].pending, wk[w].items[i].msg)
    BY <1>4, <2>1, <2>2 DEF IterationOK, BatchOK
  <2> QED
    BY <1>2, <1>4, <2>1, <2>3 DEF IterationOK
<1>7. OffsetsOK'
  <2> SUFFICES ASSUME NEW p \in Partition, NEW o \in 1 .. committed'[p]
               PROVE  o \in DOMAIN log[p] /\ Handled(row, pushes, Fresh.pending, log[p][o].msg)
    BY <1>1 DEF OffsetsOK
  <2>1. /\ committed[p] \in Nat /\ wk[w].taken[p] \in Nat
        /\ committed'[p] = committed[p] + wk[w].taken[p]
    BY <1>2, <1>3
  <2>2. CASE o <= committed[p]
    BY <2>1, <2>2 DEF DoneInv, OffsetsOK
  <2>3. CASE o > committed[p]
    <3>1. /\ wk[w].taken[p] > 0
          /\ o \in committed[p] + 1 .. committed[p] + wk[w].taken[p]
      BY <2>1, <2>3
    <3> QED
      BY <1>5, <1>6, <3>1
  <2> QED
    BY <2>1, <2>2, <2>3
<1>8. ASSUME NEW v \in Worker \ {w} PROVE TakenOK(v, wk[v])'
  <2>1. TakenOK(v, wk[v]) /\ wk'[v] = wk[v]
    BY <1>1 DEF DoneInv, IterationOK
  <2>2. ASSUME NEW p \in Partition, owner[p] = v PROVE committed'[p] = committed[p]
    <3>1. wk[w].taken[p] = 0 /\ committed[p] \in Nat
      BY <1>3, <1>5, <2>2
    <3> QED
      BY <1>2, <3>1
  <2>3. \A p \in Partition : owner'[p] = owner[p] /\ log'[p] = log[p]
    BY <1>1
  <2> SUFFICES ASSUME ~wk[v].stale, NEW p \in Partition, wk[v].taken[p] > 0
               PROVE  /\ owner[p] = v
                      /\ \A k \in committed'[p] + 1 .. committed'[p] + wk[v].taken[p] :
                           k \in DOMAIN log[p] /\ log[p][k] \in Elements(wk[v].items)
    BY <1>1, <2>1 DEF TakenOK
  <2>4. /\ owner[p] = v
        /\ \A k \in committed[p] + 1 .. committed[p] + wk[v].taken[p] :
             k \in DOMAIN log[p] /\ log[p][k] \in Elements(wk[v].items)
    BY <2>1 DEF TakenOK
  <2> QED
    BY <2>2, <2>4
<1>9. Grow
  BY <1>1 DEF Grow, TypeOK
<1>10. \A v \in Worker \ {w} : IterationOK(v, wk[v])'
  BY <1>1, <1>8, <1>9, OthersDone
<1>11. IterationOK(w, wk[w])'
  <2>1. /\ Fresh.pc = "fetch" /\ Fresh.items = <<>> /\ Fresh.old = {} /\ Fresh.singles = {}
        /\ \A p \in Partition : Fresh.taken[p] = 0
    BY DEF Fresh
  <2>2. BatchOK(row', pushes', Fresh) /\ BatchPlanned(Fresh) /\ OnePlanned(Fresh)
    BY Zenon, <2>1, AllAhead
  <2>3. TakenOK(w, wk[w])' /\ OldOK(wk[w])'
    BY <1>1, <2>1 DEF TakenOK, OldOK
  <2> QED
    BY <1>1, <2>1, <2>2, <2>3 DEF IterationOK
<1> QED
  BY <1>7, <1>10, <1>11 DEF DoneInv

(***************************************************************************)
(* The environment adds records and rows; a partition that moves leaves    *)
(* its old owner with a batch that can no longer be committed.             *)
(***************************************************************************)
LEMMA EnvironmentDone ==
  ASSUME ConstantsAssumption, TypeOK, DoneInv, Grow, Environment
  PROVE  DoneInv'
<1>1. committed' = committed /\ pushes' = pushes
  BY Zenon DEF Environment, Send, OpenConversation, Prewrite, Rebalance, kafka
<1>2. ASSUME NEW p \in Partition, NEW o \in DOMAIN log[p]
      PROVE  o \in DOMAIN log'[p] /\ log'[p][o] = log[p][o]
  <2>1. log[p] \in Seq(Record) /\ log \in [Partition -> Seq(Record)]
    BY DEF TypeOK
  <2>2. CASE log' = log
    BY <2>2
  <2>3. ASSUME NEW m \in Msg, NEW b \in BOOLEAN, Send(m, b)
        PROVE  o \in DOMAIN log'[p] /\ log'[p][o] = log[p][o]
    <3>1. PICK r \in Record : \E q \in Partition : log' = [log EXCEPT ![q] = Append(@, r)]
      <4>1. [msg |-> m, conv |-> b] \in Record
        BY <2>3 DEF Record
      <4>2. Route[ConvOf[m]][b] \in Partition
        BY DEF ConstantsAssumption
      <4> QED
        BY Zenon, <2>3, <4>1, <4>2 DEF Send
    <3>2. PICK q \in Partition : log' = [log EXCEPT ![q] = Append(@, r)]
      BY Zenon, <3>1
    <3>3. CASE q = p
      <4>1. log'[p] = Append(log[p], r)
        BY <2>1, <3>2, <3>3
      <4> QED
        BY <1>2, <2>1, <4>1
    <3>4. CASE q # p
      BY <1>2, <2>1, <3>2, <3>4
    <3> QED
      BY <3>3, <3>4
  <2>4. log' = log \/ \E m \in Msg, b \in BOOLEAN : Send(m, b)
    BY Zenon DEF Environment, OpenConversation, Prewrite, Rebalance, kafka
  <2> QED
    BY <2>2, <2>3, <2>4
<1>3. ASSUME NEW v \in Worker
      PROVE  /\ \E b \in BOOLEAN : wk'[v] = [wk[v] EXCEPT !.stale = b]
             /\ ~wk'[v].stale =>
                  /\ ~wk[v].stale
                  /\ \A p \in Partition : wk[v].taken[p] > 0 /\ owner[p] = v => owner'[p] = v
  <2>1. wk[v] \in Iteration /\ wk[v].taken \in [Partition -> Nat] /\ wk[v].stale \in BOOLEAN
    BY Zenon, IterationType, FieldTypes DEF Iteration
  <2>2. CASE UNCHANGED <<wk, owner>>
    <3>1. wk'[v] = [wk[v] EXCEPT !.stale = wk[v].stale]
      BY Zenon, <2>1, <2>2 DEF Iteration
    <3> QED
      BY Zenon, <2>1, <2>2, <3>1
  <2>3. ASSUME NEW p \in Partition, NEW w \in Worker, Rebalance(p, w)
        PROVE  /\ \E b \in BOOLEAN : wk'[v] = [wk[v] EXCEPT !.stale = b]
               /\ ~wk'[v].stale =>
                    /\ ~wk[v].stale
                    /\ \A q \in Partition : wk[v].taken[q] > 0 /\ owner[q] = v => owner'[q] = v
    <3>1. /\ owner' = [owner EXCEPT ![p] = w] /\ owner[p] \in Worker
          /\ owner \in [Partition -> Worker]
      BY <2>3 DEF Rebalance, TypeOK
    <3> DEFINE o == owner[p]
               b == IF wk[o].taken[p] > 0 THEN TRUE ELSE wk[o].stale
    <3>2. /\ wk'[o] = [wk[o] EXCEPT !.stale = b]
          /\ \A x \in Worker \ {o} : wk'[x] = wk[x]
      BY <2>3, <3>1, BecomeOnly DEF Rebalance
    <3>3. CASE v = o
      <4>1. wk[o] \in Iteration /\ wk[o].stale \in BOOLEAN /\ b \in BOOLEAN
        BY Zenon, <2>1, <3>3
      <4>2. wk'[v] = [wk[v] EXCEPT !.stale = b] /\ wk'[v].stale = b
        BY Zenon, <3>2, <3>3, <4>1 DEF Iteration
      <4>3. ~b => ~wk[v].stale /\ ~(wk[v].taken[p] > 0)
        BY <3>3, <4>1
      <4> HIDE DEF b
      <4> QED
        BY <3>1, <4>1, <4>2, <4>3
    <3>4. CASE v # o
      <4>1. wk'[v] = wk[v] /\ wk'[v] = [wk[v] EXCEPT !.stale = wk[v].stale]
        BY SMTT(60), <2>1, <3>2, <3>4 DEF Iteration
      <4>2. \A q \in Partition : owner[q] = v => owner'[q] = v
        BY <3>1, <3>4
      <4> QED
        BY Zenon, <2>1, <4>1, <4>2
    <3> QED
      BY Zenon, <3>3, <3>4
  <2>4. UNCHANGED <<wk, owner>> \/ \E p \in Partition, w \in Worker : Rebalance(p, w)
    BY Zenon DEF Environment, Send, OpenConversation, Prewrite, kafka
  <2> QED
    BY Zenon, <2>2, <2>3, <2>4
<1>4. ASSUME NEW q, NEW m \in Msg, Handled(row, pushes, q, m) PROVE Handled(row', pushes', q, m)
  <2>1. Carried(pushes, q, pushes', q)
    BY <1>1 DEF Carried
  <2> QED
    BY <1>4, <2>1, HandledStays DEF Grow
<1>5. OffsetsOK'
  <2> SUFFICES ASSUME NEW p \in Partition, NEW o \in 1 .. committed[p]
               PROVE  o \in DOMAIN log'[p] /\ Handled(row', pushes', Fresh.pending, log'[p][o].msg)
    BY <1>1 DEF OffsetsOK
  <2>1. o \in DOMAIN log[p] /\ Handled(row, pushes, Fresh.pending, log[p][o].msg)
    BY DEF DoneInv, OffsetsOK
  <2>2. log[p][o].msg \in Msg
    <3>1. log[p] \in Seq(Record)
      BY DEF TypeOK
    <3>2. log[p][o] \in Record
      BY <2>1, <3>1
    <3> QED
      BY <3>2 DEF Record
  <2> QED
    BY <1>2, <1>4, <2>1, <2>2
<1>6. ASSUME NEW v \in Worker PROVE IterationOK(v, wk[v])'
  <2>1. IterationOK(v, wk[v]) /\ wk[v] \in Iteration
    BY IterationType DEF DoneInv
  <2>2. PICK b \in BOOLEAN : wk'[v] = [wk[v] EXCEPT !.stale = b]
    BY <1>3
  <2> DEFINE t == [wk[v] EXCEPT !.stale = b]
  <2>3. /\ t.items = wk[v].items /\ t.pc = wk[v].pc /\ t.ret = wk[v].ret
        /\ t.todo = wk[v].todo /\ t.singles = wk[v].singles /\ t.plan = wk[v].plan
        /\ t.old = wk[v].old /\ t.asg = wk[v].asg /\ t.out = wk[v].out
        /\ t.pending = wk[v].pending /\ t.fail = wk[v].fail /\ t.taken = wk[v].taken
    BY <2>1 DEF Iteration
  <2>4. wk'[v] = t
    BY <2>2
  <2> HIDE DEF t
  <2>5. BatchOK(row, pushes, t)
    <3>1. OthersOf(t) = OthersOf(wk[v]) /\ Phase(t) = Phase(wk[v])
      BY <2>3 DEF OthersOf, Phase
    <3>2. Ahead(t) = Ahead(wk[v])
      BY <2>3, <3>1 DEF Ahead
    <3> QED
      BY <2>1, <2>3, <3>2 DEF IterationOK, BatchOK
  <2>6. \A i \in DOMAIN t.items : t.items[i].msg \in Msg
    BY <2>3, IterationType
  <2>7. BatchOK(row', pushes', t)
    BY <1>4, <2>5, <2>6 DEF BatchOK
  <2>8. BatchPlanned(t)
    <3>1. Phase(t) = Phase(wk[v]) /\ \A m \in Msg : Numbered(wk[v], m) => Numbered(t, m)
      BY <2>3 DEF Phase, Numbered
    <3>2. BatchPlanned(wk[v]) /\ \A i \in wk[v].singles : wk[v].items[i].msg \in Msg
      BY <2>1, IterationType DEF IterationOK
    <3> QED
      BY <2>3, <3>1, <3>2 DEF BatchPlanned
  <2>9. OnePlanned(t)
    BY SMTT(30), <2>1, <2>3 DEF IterationOK, OnePlanned, Phase, Numbered
  <2>10. OldOK(wk[v])'
    <3>1. \A i \in wk[v].old : row[wk[v].items[i].msg] # 0 /\ wk[v].items[i].msg \in Msg
      BY <2>1, IterationType DEF IterationOK, OldOK
    <3> QED
      BY <2>3, <2>4, <3>1 DEF OldOK, Grow
  <2>11. TakenOK(v, wk[v])'
    <3> SUFFICES ASSUME ~t.stale, NEW p \in Partition, t.taken[p] > 0
                 PROVE  /\ owner'[p] = v
                        /\ \A k \in committed[p] + 1 .. committed[p] + t.taken[p] :
                             k \in DOMAIN log'[p] /\ log'[p][k] \in Elements(t.items)
      BY <1>1, <2>4 DEF TakenOK
    <3>1. /\ owner[p] = v
          /\ \A k \in committed[p] + 1 .. committed[p] + wk[v].taken[p] :
               k \in DOMAIN log[p] /\ log[p][k] \in Elements(wk[v].items)
      BY <1>3, <2>1, <2>3, <2>4 DEF IterationOK, TakenOK
    <3> QED
      BY <1>2, <1>3, <2>3, <2>4, <3>1
  <2>12. t.singles \subseteq SinglesOf(t) /\ (t.pc = "offset" => t.pending = Fresh.pending)
    BY <2>1, <2>3 DEF IterationOK, SinglesOf
  <2> QED
    BY <2>4, <2>7, <2>8, <2>9, <2>10, <2>11, <2>12 DEF IterationOK
<1> QED
  BY <1>5, <1>6 DEF DoneInv

LEMMA RestartDone ==
  ASSUME ConstantsAssumption, TypeOK, DoneInv, NEW w \in Worker,
         FlushFailed(w) \/ CommitRefused(w) \/ Crash(w)
  PROVE  DoneInv'
<1>1. /\ UNCHANGED <<log, owner, row, counter, committed>>
      /\ wk'[w] = Fresh /\ \A v \in Worker \ {w} : wk'[v] = wk[v]
  <2>1. Become(w, Fresh) /\ UNCHANGED <<log, owner, row, counter, committed>>
    BY Zenon DEF FlushFailed, CommitRefused, Crash, kafka, db
  <2> QED
    BY <2>1, BecomeOnly
<1>2. ASSUME NEW u \in Uid PROVE Elements(pushes[u]) \subseteq Elements(pushes'[u])
  <2>1. CASE FlushFailed(w)
    <3>1. pushes'[u] = pushes[u] \/ pushes'[u] = pushes[u] \o wk[w].pending[u]
      BY Zenon, <2>1 DEF FlushFailed
    <3>2. wk[w].pending[u] \in Seq(Push) /\ pushes[u] \in Seq(Push)
      BY IterationType, FieldTypes DEF TypeOK
    <3>3. Elements(pushes[u] \o wk[w].pending[u]) = Elements(pushes[u]) \cup Elements(wk[w].pending[u])
      BY <3>2, ElementsJoin
    <3> QED
      BY Zenon, <3>1, <3>3
  <2>2. CASE CommitRefused(w) \/ Crash(w)
    BY <2>2 DEF CommitRefused, Crash
  <2> QED
    BY <2>1, <2>2
<1> QED
  BY Zenon, <1>1, <1>2, FreshDone

LEMMA NextDone ==
  ASSUME ConstantsAssumption, SeqInv, OneWriter => HistInv, DoneInv, [Next]_vars
  PROVE  DoneInv'
<1>1. TypeOK /\ Grow
  BY RowsStay DEF SeqInv
<1>2. CASE UNCHANGED vars
  <2>1. UNCHANGED <<log, owner, committed, row, pushes, wk>>
    BY <1>2 DEF vars, kafka, db
  <2> QED
    BY <2>1 DEF DoneInv, OffsetsOK, IterationOK, TakenOK, OldOK
<1>3. CASE Environment
  BY <1>1, <1>3, EnvironmentDone
<1>4. ASSUME NEW w \in Worker, Work(w) PROVE DoneInv'
  <2>1. ASSUME NEW p \in Partition, Fetch(w, p) PROVE DoneInv'
    BY <1>1, <2>1, FetchDone
  <2>2. CASE Resolve(w) \/ QueueDone(w) \/ Select(w)
    BY <1>1, <2>2, ResolveDone, QueueDoneDone, SelectDone
  <2>3. ASSUME NEW i, SkipPoison(w, i) \/ HandleRefused(w, i) PROVE DoneInv'
    BY <1>1, <2>3, SkipDone, RefusedDone
  <2>4. ASSUME NEW i, HandleReplay(w, i) \/ Replay(w, i) PROVE DoneInv'
    BY <1>1, <2>4, HandleReplayDone, ReplayOneDone
  <2>5. ASSUME NEW i, HandleNew(w, i) \/ Assign(w, i) PROVE DoneInv'
    BY <1>1, <2>5, HandleNewDone, AssignDone
  <2>6. CASE ReplayDone(w) \/ NextSeq(w)
    BY <1>1, <2>6, ReplayDoneDone, NextSeqDone
  <2>7. CASE Insert(w) \/ InsertConflict(w)
    BY <1>1, <2>7, InsertDone, AbortDone
  <2>8. CASE FlushPushes(w) \/ CommitMessages(w) \/ CommitRefused(w)
    BY <1>1, <2>8, FlushDone, CommitDone, RestartDone
  <2> QED
    BY <1>4, <2>1, <2>2, <2>3, <2>4, <2>5, <2>6, <2>7, <2>8 DEF Work
<1>5. ASSUME NEW w \in Worker, Failure(w) PROVE DoneInv'
  <2>1. ASSUME NEW i, SkipUnread(w, i) PROVE DoneInv'
    BY <1>1, <2>1, SkipDone
  <2>2. CASE FlushFailed(w) \/ Fail(w) \/ Crash(w)
    BY <1>1, <2>2, AbortDone, RestartDone
  <2> QED
    BY Zenon, <1>5, <2>1, <2>2 DEF Failure
<1> QED
  BY <1>2, <1>3, <1>4, <1>5 DEF Next

LEMMA DoneInvariant == Spec => []DoneInv
<1>1. Init => DoneInv
  <2> SUFFICES ASSUME Init PROVE DoneInv
    OBVIOUS
  <2>1. OffsetsOK
    BY DEF Init, OffsetsOK
  <2>2. ASSUME NEW w \in Worker PROVE IterationOK(w, wk[w])
    <3>1. wk[w] = Fresh
      BY DEF Init
    <3>2. /\ Fresh.pc = "fetch" /\ Fresh.items = <<>> /\ Fresh.old = {} /\ Fresh.singles = {}
          /\ \A p \in Partition : Fresh.taken[p] = 0
      BY DEF Fresh
    <3>3. BatchOK(row, pushes, Fresh) /\ BatchPlanned(Fresh) /\ OnePlanned(Fresh)
      BY <3>2, AllAhead
    <3> QED
      BY <3>1, <3>2, <3>3 DEF IterationOK, TakenOK, OldOK
  <2> QED
    BY <2>1, <2>2 DEF DoneInv
<1>2. CASE OneWriter
  <2>1. SeqInv /\ HistInv /\ DoneInv /\ [Next]_vars => DoneInv'
    BY Zenon, ConstantsAssumption, NextDone
  <2>2. Spec => []HistInv
    BY <1>2, HistInvariant
  <2> QED
    BY <1>1, <2>1, <2>2, SeqInvariant, PTL DEF Spec
<1>3. CASE ~OneWriter
  <2>1. SeqInv /\ DoneInv /\ [Next]_vars => DoneInv'
    BY Zenon, <1>3, ConstantsAssumption, NextDone
  <2> QED
    BY <1>1, <2>1, SeqInvariant, PTL DEF Spec
<1> QED
  BY <1>2, <1>3

(***************************************************************************)
(* No valid message is left behind an offset: a batch is committed only    *)
(* when each of its messages is stored, however workers crash, partitions  *)
(* move, frames are repeated and batches fall back, unless users.Get fails  *)
(* at the check of that very message: that is taken for an unknown user.   *)
(***************************************************************************)
THEOREM NothingIsLeftBehind == Spec => []CommittedIsStored
<1>1. DoneInv => CommittedIsStored
  BY Zenon DEF DoneInv, OffsetsOK, Handled, CommittedIsStored
<1> QED
  BY <1>1, DoneInvariant, PTL

(***************************************************************************)
(* Where one worker at a time sees a conversation, the single chats behind *)
(* an offset have been pushed too, each with the seq of its row, and the   *)
(* history has no hole.                                                    *)
(***************************************************************************)
THEOREM WhatIsCommittedIsDone ==
  ASSUME OneWriter PROVE Spec => []CommittedHistory
<1>1. TypeOK /\ HistInv /\ DoneInv => CommittedHistory
  <2> SUFFICES ASSUME TypeOK, HistInv, DoneInv PROVE CommittedHistory
    OBVIOUS
  <2>1. ASSUME NEW p \in Partition, NEW o \in 1 .. committed[p], NEW m, m = log[p][o].msg,
               MustArrive(m)
        PROVE  row[m] # 0 /\ (KindOf[m] = "single" => WasPushed(m))
    <3>1. o \in DOMAIN log[p] /\ Handled(row, pushes, Fresh.pending, m)
      BY <2>1 DEF DoneInv, OffsetsOK
    <3>a. log[p] \in Seq(Record)
      BY DEF TypeOK
    <3>b. log[p][o] \in Record
      BY <3>1, <3>a
    <3>c. Dest[m] \subseteq Uid
      BY <2>1, <3>b, ConstantsAssumption DEF ConstantsAssumption, Record
    <3>2. ASSUME KindOf[m] = "single", NEW u \in Dest[m]
          PROVE  \E k \in DOMAIN pushes[u] : pushes[u][k] = [msg |-> m, seq |-> row[m]]
      <4>1. [msg |-> m, seq |-> row[m]] \in Elements(pushes[u]) \cup Elements(Fresh.pending[u])
        BY <2>1, <3>1, <3>2 DEF Handled
      <4>2. Elements(Fresh.pending[u]) = {}
        BY <3>2, <3>c, ElementsEmpty DEF Fresh
      <4> QED
        BY Zenon, <4>1, <4>2 DEF Elements
    <3> QED
      BY <2>1, <3>1, <3>2 DEF Handled, WasPushed
  <2>2. CommittedIsDone
    BY <2>1 DEF CommittedIsDone
  <2> QED
    BY <2>2 DEF CommittedHistory, HistInv
<1> QED
  BY <1>1, TypeCorrect, HistInvariant, DoneInvariant, PTL
=============================================================================
