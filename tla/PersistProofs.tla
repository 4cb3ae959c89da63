----------------------------- MODULE PersistProofs -----------------------------
(***************************************************************************)
(* Proofs about Persist, for every number of workers, partitions,          *)
(* conversations and messages, and for every value of the bounds.          *)
(***************************************************************************)
EXTENDS Persist, TLAPS

LEMMA FreshType == Fresh \in Iteration /\ Indexes(Fresh) = {}
  BY DEF Fresh, Iteration, Steps, Queues, Indexes

(***************************************************************************)
(* A worker that becomes a well-typed iteration leaves wk well-typed.      *)
(***************************************************************************)
LEMMA BecomeType ==
  ASSUME TypeOK, NEW w \in Worker, NEW r \in Iteration,
         Indexes(r) \subseteq DOMAIN r.items, Become(w, r)
  PROVE  /\ wk' \in [Worker -> Iteration]
         /\ \A v \in Worker : Indexes(wk'[v]) \subseteq DOMAIN wk'[v].items
  BY DEF TypeOK, Become

LEMMA AppendToType ==
  ASSUME NEW queues \in [Uid -> Seq(Push)], NEW us \in SUBSET Uid, NEW push \in Push
  PROVE  AppendTo(queues, us, push) \in [Uid -> Seq(Push)]
  BY DEF AppendTo

LEMMA TargetsType ==
  ASSUME ConstantsAssumption, NEW m \in Msg, NEW us \in Targets(m)
  PROVE  us \in SUBSET Uid
  BY DEF ConstantsAssumption, Targets

LEMMA MessageType ==
  ASSUME TypeOK, NEW w \in Worker, NEW i \in DOMAIN wk[w].items
  PROVE  Message(w, i) \in Msg
<1>1. wk[w].items \in Seq(Record)
  BY DEF TypeOK, Iteration
<1>2. wk[w].items[i] \in Record
  BY <1>1
<1> QED
  BY <1>2 DEF Record, Message

(***************************************************************************)
(* The environment's actions.                                              *)
(***************************************************************************)
LEMMA EnvironmentType == ASSUME ConstantsAssumption, TypeOK, Environment PROVE TypeOK'
<1>1. ASSUME NEW m \in Msg, NEW b \in BOOLEAN, Send(m, b) PROVE TypeOK'
  <2> DEFINE p == Route[ConvOf[m]][b]
  <2>1. p \in Partition
    BY DEF ConstantsAssumption
  <2>2. [msg |-> m, conv |-> b] \in Record
    BY DEF Record
  <2>3. Append(log[p], [msg |-> m, conv |-> b]) \in Seq(Record)
    BY <2>1, <2>2 DEF TypeOK
  <2>4. log' \in [Partition -> Seq(Record)]
    BY <1>1, <2>1, <2>3 DEF TypeOK, Send
  <2> QED
    BY Zenon, <1>1, <2>4 DEF TypeOK, Send, db, faults
<1>2. ASSUME NEW m \in Msg, OpenConversation(m) PROVE TypeOK'
  BY SMTT(30), <1>2 DEF TypeOK, OpenConversation, kafka, faults, ConstantsAssumption
<1>3. ASSUME NEW m \in Msg, Prewrite(m) PROVE TypeOK'
  BY SMTT(30), <1>3 DEF TypeOK, Prewrite, kafka, faults, ConstantsAssumption
<1>4. ASSUME NEW p \in Partition, NEW w \in Worker, Rebalance(p, w) PROVE TypeOK'
  <2> DEFINE v == owner[p]
             r == [wk[v] EXCEPT !.stale = IF wk[v].taken[p] > 0 THEN TRUE ELSE @]
  <2>1. v \in Worker
    BY DEF TypeOK
  <2>2. wk[v] \in Iteration /\ Indexes(wk[v]) \subseteq DOMAIN wk[v].items
    BY <2>1 DEF TypeOK
  <2>4. r \in Iteration
    BY Zenon, <2>2 DEF Iteration
  <2>5. Indexes(r) = Indexes(wk[v]) /\ r.items = wk[v].items
    BY <2>2 DEF Iteration, Indexes
  <2>3. Become(v, r)
    BY <1>4 DEF Rebalance
  <2>6. /\ wk' \in [Worker -> Iteration]
        /\ \A x \in Worker : Indexes(wk'[x]) \subseteq DOMAIN wk'[x].items
    BY Zenon, <2>1, <2>2, <2>3, <2>4, <2>5, BecomeType
  <2>7. owner' \in [Partition -> Worker]
    BY <1>4 DEF TypeOK, Rebalance
  <2>8. rebalances' \in Nat /\ UNCHANGED <<log, committed, convs, row, counter, lastSeq, lock, pushes, crashes>>
    BY <1>4 DEF TypeOK, Rebalance, db
  <2> QED
    BY <2>6, <2>7, <2>8 DEF TypeOK
<1> QED
  BY <1>1, <1>2, <1>3, <1>4 DEF Environment

(***************************************************************************)
(* A worker's step that only changes its iteration.                        *)
(***************************************************************************)
LEMMA QuietType ==
  ASSUME TypeOK, NEW w \in Worker, NEW r \in Iteration,
         Indexes(r) \subseteq DOMAIN r.items, Become(w, r),
         UNCHANGED <<kafka, db, pushes, faults>>
  PROVE  TypeOK'
<1>1. /\ wk' \in [Worker -> Iteration]
      /\ \A x \in Worker : Indexes(wk'[x]) \subseteq DOMAIN wk'[x].items
  BY BecomeType
<1> QED
  BY <1>1 DEF TypeOK, kafka, db, faults

LEMMA FetchType ==
  ASSUME TypeOK, NEW w \in Worker, NEW p \in Partition, Fetch(w, p)
  PROVE  TypeOK'
<1> DEFINE next == committed[p] + wk[w].taken[p] + 1
           it == Append(wk[w].items, log[p][next])
           tk == [wk[w].taken EXCEPT ![p] = @ + 1]
           r == [wk[w] EXCEPT !.items = it, !.taken = tk]
<1>1. wk[w] \in Iteration /\ Indexes(wk[w]) \subseteq DOMAIN wk[w].items
  BY DEF TypeOK
<1>2. /\ wk[w].items \in Seq(Record)
      /\ wk[w].taken \in [Partition -> Nat]
      /\ committed[p] \in Nat
  BY <1>1 DEF TypeOK, Iteration
<1>3. log[p] \in Seq(Record) /\ next \in 1 .. Len(log[p])
  BY <1>2 DEF TypeOK, Fetch
<1>4. log[p][next] \in Record
  BY <1>3
<1>5. it \in Seq(Record) /\ DOMAIN wk[w].items \subseteq DOMAIN it
  BY <1>2, <1>4
<1>6. tk \in [Partition -> Nat]
  BY <1>2
<1>7. Become(w, r)
  BY DEF Fetch
<1> HIDE DEF it, tk
<1>8. r \in Iteration
  BY Zenon, <1>1, <1>5, <1>6 DEF Iteration
<1>9. Indexes(r) \subseteq DOMAIN r.items
  BY <1>1, <1>5 DEF Iteration, Indexes
<1>10. UNCHANGED <<kafka, db, pushes, faults>>
  BY DEF Fetch
<1> QED
  BY Zenon, <1>7, <1>8, <1>9, <1>10, QuietType

LEMMA SinglesType ==
  ASSUME TypeOK, NEW w \in Worker
  PROVE  /\ Singles(w) \subseteq DOMAIN wk[w].items
         /\ Others(w) \subseteq DOMAIN wk[w].items
         /\ DOMAIN wk[w].items \subseteq Nat
<1>1. wk[w].items \in Seq(Record)
  BY DEF TypeOK, Iteration
<1> QED
  BY <1>1 DEF Singles, Others

LEMMA ResolveType ==
  ASSUME TypeOK, NEW w \in Worker, Resolve(w)
  PROVE  TypeOK'
<1> DEFINE new == {i \in Singles(w) : ~wk[w].items[i].conv /\ ConvOf[Message(w, i)] \notin convs}
           r == [wk[w] EXCEPT !.pc = "first", !.todo = new, !.singles = Singles(w) \ new]
<1>1. wk[w] \in Iteration /\ Indexes(wk[w]) \subseteq DOMAIN wk[w].items
  BY SMTT(60) DEF TypeOK
<1>2. r \in Iteration
  BY Zenon, <1>1, SinglesType DEF Iteration, Steps, Queues
<1>3. Indexes(r) \subseteq DOMAIN r.items
  BY <1>1, SinglesType DEF Iteration, Indexes
<1> QED
  BY Zenon, <1>2, <1>3, QuietType DEF Resolve

LEMMA QueueType ==
  ASSUME ConstantsAssumption, TypeOK, NEW w \in Worker, NEW i,
         \/ SkipPoison(w, i)
         \/ SkipUnread(w, i)
         \/ HandleRefused(w, i)
         \/ HandleReplay(w, i)
         \/ HandleNew(w, i)
  PROVE  TypeOK'
<1> DEFINE m == Message(w, i)
<1>1. wk[w] \in Iteration /\ Indexes(wk[w]) \subseteq DOMAIN wk[w].items
  BY DEF TypeOK
<1>2. i \in DOMAIN wk[w].items /\ i \in Nat
  BY Zenon, <1>1 DEF Indexes, IsNext, SkipPoison, SkipUnread, HandleRefused, HandleReplay, HandleNew, Iteration
<1>3. m \in Msg /\ ConvOf[m] \in Conv /\ row[m] \in Nat
  BY Zenon, <1>2, MessageType DEF ConstantsAssumption, TypeOK
<1>4. CASE SkipPoison(w, i) \/ SkipUnread(w, i)
  <2> DEFINE r == [wk[w] EXCEPT !.todo = @ \ {i}]
  <2>1. r \in Iteration
    BY Zenon, <1>1 DEF Iteration
  <2>2. Indexes(r) \subseteq DOMAIN r.items
    BY <1>1 DEF Iteration, Indexes
  <2> QED
    BY Zenon, <1>4, <2>1, <2>2, QuietType DEF SkipPoison, SkipUnread
<1>5. CASE HandleRefused(w, i)
  <2> DEFINE r == [wk[w] EXCEPT !.pc = "flush", !.fail = TRUE]
  <2>1. r \in Iteration
    BY Zenon, <1>1 DEF Iteration, Steps
  <2>2. Indexes(r) \subseteq DOMAIN r.items
    BY <1>1 DEF Iteration, Indexes
  <2> QED
    BY Zenon, <1>5, <2>1, <2>2, QuietType DEF HandleRefused
<1>6. CASE HandleReplay(w, i)
  <2>1. PICK us \in Targets(m) :
          Become(w, [wk[w] EXCEPT !.todo = @ \ {i},
                                  !.pending = AppendTo(@, us, [msg |-> m, seq |-> row[m]])])
    BY Zenon, <1>6 DEF HandleReplay
  <2> DEFINE q == AppendTo(wk[w].pending, us, [msg |-> m, seq |-> row[m]])
             r == [wk[w] EXCEPT !.todo = @ \ {i}, !.pending = q]
  <2>2. q \in [Uid -> Seq(Push)]
    <3>1. [msg |-> m, seq |-> row[m]] \in Push
      BY <1>3 DEF Push
    <3>2. us \in SUBSET Uid
      BY <1>3, TargetsType
    <3>3. wk[w].pending \in [Uid -> Seq(Push)]
      BY <1>1 DEF Iteration
    <3> QED
      BY Zenon, <3>1, <3>2, <3>3, AppendToType
  <2> HIDE DEF q
  <2>3. r \in Iteration
    BY Zenon, <1>1, <2>2 DEF Iteration
  <2>4. Indexes(r) \subseteq DOMAIN r.items
    BY <1>1 DEF Iteration, Indexes
  <2>5. Become(w, r)
    BY <2>1 DEF q
  <2>6. /\ wk' \in [Worker -> Iteration]
        /\ \A x \in Worker : Indexes(wk'[x]) \subseteq DOMAIN wk'[x].items
    BY Zenon, <2>3, <2>4, <2>5, BecomeType
  <2>7. convs' \subseteq Conv
    BY Zenon, <1>3, <1>6 DEF HandleReplay, EnsureConversation, TypeOK
  <2> QED
    BY Zenon, <1>6, <2>6, <2>7 DEF TypeOK, HandleReplay, kafka, faults
<1>7. CASE HandleNew(w, i)
  <2> DEFINE r == [wk[w] EXCEPT !.pc = "seq", !.ret = wk[w].pc, !.plan = {i}]
  <2>1. r \in Iteration
    BY ZenonT(60), <1>1, <1>2, <1>7 DEF Iteration, Steps, HandleNew, IsNext
  <2>2. Indexes(r) \subseteq DOMAIN r.items
    BY <1>1, <1>2 DEF Iteration, Indexes
  <2>3. /\ wk' \in [Worker -> Iteration]
        /\ \A x \in Worker : Indexes(wk'[x]) \subseteq DOMAIN wk'[x].items
    BY Zenon, <1>7, <2>1, <2>2, BecomeType DEF HandleNew
  <2>4. convs' \subseteq Conv
    BY <1>3, <1>7 DEF HandleNew, EnsureConversation, TypeOK
  <2> QED
    BY Zenon, <1>7, <2>3, <2>4 DEF TypeOK, HandleNew, kafka, faults
<1> QED
  BY <1>4, <1>5, <1>6, <1>7

(***************************************************************************)
(* The end of a queue, the lookup of the rows, the replays.                *)
(***************************************************************************)
LEMMA QueueDoneType ==
  ASSUME TypeOK, NEW w \in Worker, QueueDone(w)
  PROVE  TypeOK'
<1> DEFINE a == [wk[w] EXCEPT !.pc = "select"]
           b == [wk[w] EXCEPT !.pc = "flush"]
           c == [wk[w] EXCEPT !.pc = "other", !.todo = Others(w)]
<1>1. wk[w] \in Iteration /\ Indexes(wk[w]) \subseteq DOMAIN wk[w].items
  BY DEF TypeOK
<1>2. a \in Iteration /\ b \in Iteration /\ c \in Iteration
  BY Zenon, <1>1, SinglesType DEF Iteration, Steps, Queues
<1>3. /\ Indexes(a) \subseteq DOMAIN a.items
      /\ Indexes(b) \subseteq DOMAIN b.items
      /\ Indexes(c) \subseteq DOMAIN c.items
  BY <1>1, SinglesType DEF Iteration, Indexes
<1>4. Become(w, a) \/ Become(w, b) \/ Become(w, c)
  BY DEF QueueDone
<1>5. UNCHANGED <<kafka, db, pushes, faults>>
  BY DEF QueueDone
<1> HIDE DEF a, b, c
<1> QED
  BY <1>2, <1>3, <1>4, <1>5, QuietType

LEMMA OnceType ==
  ASSUME TypeOK, NEW w \in Worker
  PROVE  /\ NotStored(w) \subseteq Once(w)
         /\ Once(w) \subseteq wk[w].singles
         /\ wk[w].singles \subseteq DOMAIN wk[w].items
         /\ wk[w].singles \subseteq Nat
  BY DEF NotStored, Once, TypeOK, Iteration, Indexes

LEMMA SelectType ==
  ASSUME TypeOK, NEW w \in Worker, Select(w)
  PROVE  TypeOK'
<1> DEFINE a == [wk[w] EXCEPT !.pc = "replay", !.old = Once(w)]
           b == [wk[w] EXCEPT !.pc = "fallback", !.todo = Singles(w)]
           c == [wk[w] EXCEPT !.pc = "seq", !.ret = "select", !.plan = NotStored(w),
                              !.old = Once(w) \ NotStored(w)]
<1>1. wk[w] \in Iteration /\ Indexes(wk[w]) \subseteq DOMAIN wk[w].items
  BY DEF TypeOK
<1>2. a \in Iteration /\ b \in Iteration /\ c \in Iteration
  BY ZenonT(60), <1>1, SinglesType, OnceType DEF Iteration, Steps, Queues
<1>3. /\ Indexes(a) \subseteq DOMAIN a.items
      /\ Indexes(b) \subseteq DOMAIN b.items
      /\ Indexes(c) \subseteq DOMAIN c.items
  BY <1>1, SinglesType, OnceType DEF Iteration, Indexes
<1>4. Become(w, a) \/ Become(w, b) \/ Become(w, c)
  BY DEF Select
<1>5. UNCHANGED <<kafka, db, pushes, faults>>
  BY DEF Select
<1> HIDE DEF a, b, c
<1> QED
  BY <1>2, <1>3, <1>4, <1>5, QuietType

LEMMA ReplayType ==
  ASSUME ConstantsAssumption, TypeOK, NEW w \in Worker, NEW i,
         Replay(w, i) \/ ReplayDone(w)
  PROVE  TypeOK'
<1>1. wk[w] \in Iteration /\ Indexes(wk[w]) \subseteq DOMAIN wk[w].items
  BY DEF TypeOK
<1>2. CASE Replay(w, i)
  <2> DEFINE m == Message(w, i)
             q == AppendTo(wk[w].pending, Dest[m], [msg |-> m, seq |-> row[m]])
             r == [wk[w] EXCEPT !.old = @ \ {i}, !.pending = q]
  <2>1. i \in DOMAIN wk[w].items
    BY <1>1, <1>2 DEF Replay, Indexes
  <2>2. m \in Msg /\ row[m] \in Nat /\ Dest[m] \in SUBSET Uid
    BY <2>1, MessageType DEF ConstantsAssumption, TypeOK
  <2>3. q \in [Uid -> Seq(Push)]
    <3>1. [msg |-> m, seq |-> row[m]] \in Push
      BY <2>2 DEF Push
    <3>2. wk[w].pending \in [Uid -> Seq(Push)]
      BY <1>1 DEF Iteration
    <3> QED
      BY Zenon, <2>2, <3>1, <3>2, AppendToType
  <2>4. Become(w, r)
    BY <1>2 DEF Replay
  <2> HIDE DEF q
  <2>5. r \in Iteration
    BY Zenon, <1>1, <2>3 DEF Iteration
  <2>6. Indexes(r) \subseteq DOMAIN r.items
    BY <1>1 DEF Iteration, Indexes
  <2>7. UNCHANGED <<kafka, db, pushes, faults>>
    BY <1>2 DEF Replay
  <2> QED
    BY Zenon, <2>4, <2>5, <2>6, <2>7, QuietType
<1>3. CASE ReplayDone(w)
  <2> DEFINE r == [wk[w] EXCEPT !.pc = "other", !.todo = Others(w)]
  <2>1. r \in Iteration
    BY Zenon, <1>1, SinglesType DEF Iteration, Steps, Queues
  <2>2. Indexes(r) \subseteq DOMAIN r.items
    BY <1>1, SinglesType DEF Iteration, Indexes
  <2> QED
    BY Zenon, <1>3, <2>1, <2>2, QuietType DEF ReplayDone
<1> QED
  BY <1>2, <1>3

(***************************************************************************)
(* The transaction.                                                        *)
(***************************************************************************)
LEMMA NextSeqType ==
  ASSUME TypeOK, NEW w \in Worker, NextSeq(w)
  PROVE  TypeOK'
<1> DEFINE r == [wk[w] EXCEPT !.pc = "assign", !.next = counter]
<1>1. wk[w] \in Iteration /\ Indexes(wk[w]) \subseteq DOMAIN wk[w].items
  BY DEF TypeOK
<1>2. r \in Iteration
  BY Zenon, <1>1 DEF Iteration, Steps, TypeOK
<1>3. Indexes(r) \subseteq DOMAIN r.items
  BY <1>1 DEF Iteration, Indexes
<1>4. /\ wk' \in [Worker -> Iteration]
      /\ \A x \in Worker : Indexes(wk'[x]) \subseteq DOMAIN wk'[x].items
  BY Zenon, <1>2, <1>3, BecomeType DEF NextSeq
<1>5. lock' \in [Conv -> Worker \cup {NoWorker}]
  BY DEF NextSeq, TypeOK
<1> QED
  BY <1>4, <1>5 DEF NextSeq, TypeOK, kafka, faults

LEMMA AssignType ==
  ASSUME ConstantsAssumption, TypeOK, NEW w \in Worker, NEW i, Assign(w, i)
  PROVE  TypeOK'
<1> DEFINE m == Message(w, i)
           n == Number(w, m)
<1>1. wk[w] \in Iteration /\ Indexes(wk[w]) \subseteq DOMAIN wk[w].items
  BY DEF TypeOK
<1>2. i \in DOMAIN wk[w].items
  BY <1>1 DEF Assign, Indexes
<1>3. m \in Msg /\ ConvOf[m] \in Conv
  BY <1>2, MessageType DEF ConstantsAssumption
<1>4. wk[w].next \in [Conv -> Nat] /\ wk[w].asg \in [Msg -> Nat]
  BY Zenon, <1>1 DEF Iteration
<1>5. n \in Nat
  BY <1>3, <1>4 DEF Number
<1>6. PICK us \in Targets(m) :
        Become(w, [wk[w] EXCEPT !.plan = @ \ {i},
                                !.next = [@ EXCEPT ![ConvOf[m]] = n],
                                !.asg = [@ EXCEPT ![m] = n],
                                !.out = AppendTo(@, us, [msg |-> m, seq |-> n])])
  BY Zenon DEF Assign
<1> DEFINE nx == [wk[w].next EXCEPT ![ConvOf[m]] = n]
           as == [wk[w].asg EXCEPT ![m] = n]
           q == AppendTo(wk[w].out, us, [msg |-> m, seq |-> n])
           r == [wk[w] EXCEPT !.plan = @ \ {i}, !.next = nx, !.asg = as, !.out = q]
<1>7. nx \in [Conv -> Nat] /\ as \in [Msg -> Nat]
  BY <1>3, <1>4, <1>5
<1>8. q \in [Uid -> Seq(Push)]
  <2>1. [msg |-> m, seq |-> n] \in Push
    BY <1>3, <1>5 DEF Push
  <2>2. us \in SUBSET Uid
    BY <1>3, TargetsType
  <2>3. wk[w].out \in [Uid -> Seq(Push)]
    BY <1>1 DEF Iteration
  <2> QED
    BY Zenon, <2>1, <2>2, <2>3, AppendToType
<1>9. Become(w, r)
  BY <1>6
<1> HIDE DEF nx, as, q
<1>10. r \in Iteration
  BY Zenon, <1>1, <1>7, <1>8 DEF Iteration
<1>11. Indexes(r) \subseteq DOMAIN r.items
  BY <1>1 DEF Iteration, Indexes
<1>12. UNCHANGED <<kafka, db, pushes, faults>>
  BY DEF Assign
<1> QED
  BY Zenon, <1>9, <1>10, <1>11, <1>12, QuietType

LEMMA JoinType ==
  ASSUME NEW f \in [Uid -> Seq(Push)], NEW g \in [Uid -> Seq(Push)]
  PROVE  [u \in Uid |-> f[u] \o g[u]] \in [Uid -> Seq(Push)]
  OBVIOUS

LEMMA InsertType ==
  ASSUME TypeOK, NEW w \in Worker, Insert(w)
  PROVE  TypeOK'
<1> DEFINE q == [u \in Uid |-> wk[w].pending[u] \o wk[w].out[u]]
           t == IF wk[w].ret = "select"
                  THEN {} ELSE wk[w].todo \ {i \in wk[w].todo : \A j \in wk[w].todo : i <= j}
           pc == IF wk[w].ret = "select" THEN "replay" ELSE wk[w].ret
           r == [wk[w] EXCEPT !.pc = pc, !.todo = t, !.pending = q,
                              !.asg = Fresh.asg, !.next = Fresh.next, !.out = Fresh.out]
<1>1. wk[w] \in Iteration /\ Indexes(wk[w]) \subseteq DOMAIN wk[w].items
  BY DEF TypeOK
<1>2. q \in [Uid -> Seq(Push)]
  BY <1>1, JoinType DEF Iteration
<1>3. pc \in Steps
  BY <1>1 DEF Iteration, Steps
<1>4. t \subseteq wk[w].todo
  OBVIOUS
<1>5. /\ Fresh.asg \in [Msg -> Nat]
      /\ Fresh.next \in [Conv -> Nat]
      /\ Fresh.out \in [Uid -> Seq(Push)]
  BY DEF Fresh
<1>6. Become(w, r)
  BY DEF Insert
<1> HIDE DEF q, t, pc
<1>7. r \in Iteration
  BY Zenon, <1>1, <1>2, <1>3, <1>4, <1>5 DEF Iteration
<1>8. Indexes(r) \subseteq DOMAIN r.items
  BY <1>1, <1>4 DEF Iteration, Indexes
<1> HIDE DEF r
<1>9. /\ wk' \in [Worker -> Iteration]
      /\ \A x \in Worker : Indexes(wk'[x]) \subseteq DOMAIN wk'[x].items
  BY <1>6, <1>7, <1>8, BecomeType
<1>10. wk[w].asg \in [Msg -> Nat] /\ wk[w].next \in [Conv -> Nat]
  BY <1>1 DEF Iteration
<1>11. row' \in [Msg -> Nat]
  BY <1>10 DEF TypeOK, Insert, StoredRow
<1>12. counter' \in [Conv -> Nat]
  BY <1>10 DEF TypeOK, Insert
<1>13. lastSeq' \in [Conv -> Nat]
  BY <1>10 DEF TypeOK, Insert, NewLastSeq
<1>14. lock' \in [Conv -> Worker \cup {NoWorker}]
  BY DEF TypeOK, Insert
<1> QED
  BY <1>9, <1>11, <1>12, <1>13, <1>14 DEF Insert, TypeOK, kafka, faults

LEMMA AbortType ==
  ASSUME TypeOK, NEW w \in Worker, Abort(w), crashes' \in Nat, rebalances' \in Nat
  PROVE  TypeOK'
<1> DEFINE r == [wk[w] EXCEPT !.pc = "flush", !.fail = TRUE, !.plan = {},
                              !.asg = Fresh.asg, !.next = Fresh.next, !.out = Fresh.out]
<1>1. wk[w] \in Iteration /\ Indexes(wk[w]) \subseteq DOMAIN wk[w].items
  BY DEF TypeOK
<1>2. /\ Fresh.asg \in [Msg -> Nat]
      /\ Fresh.next \in [Conv -> Nat]
      /\ Fresh.out \in [Uid -> Seq(Push)]
  BY DEF Fresh
<1>3. r \in Iteration
  BY Zenon, <1>1, <1>2 DEF Iteration, Steps
<1>4. Indexes(r) \subseteq DOMAIN r.items
  BY <1>1 DEF Iteration, Indexes
<1>5. /\ wk' \in [Worker -> Iteration]
      /\ \A x \in Worker : Indexes(wk'[x]) \subseteq DOMAIN wk'[x].items
  BY Zenon, <1>3, <1>4, BecomeType DEF Abort
<1>6. lock' \in [Conv -> Worker \cup {NoWorker}]
  BY DEF TypeOK, Abort
<1> QED
  BY <1>5, <1>6 DEF Abort, TypeOK, kafka

(***************************************************************************)
(* The end of an iteration, and failures.                                  *)
(***************************************************************************)
LEMMA EndType ==
  ASSUME TypeOK, NEW w \in Worker,
         \/ FlushPushes(w)
         \/ FlushFailed(w)
         \/ CommitMessages(w)
         \/ CommitRefused(w)
         \/ Crash(w)
  PROVE  TypeOK'
<1>1. wk[w] \in Iteration /\ Indexes(wk[w]) \subseteq DOMAIN wk[w].items
  BY DEF TypeOK
<1>2. wk[w].pending \in [Uid -> Seq(Push)] /\ wk[w].taken \in [Partition -> Nat]
  BY <1>1 DEF Iteration
<1> DEFINE r == [wk[w] EXCEPT !.pc = "offset", !.pending = Fresh.pending]
<1>3. r \in Iteration /\ Indexes(r) \subseteq DOMAIN r.items
  <2>1. Fresh.pending \in [Uid -> Seq(Push)]
    BY DEF Fresh
  <2> QED
    BY Zenon, <1>1, <2>1 DEF Iteration, Steps, Indexes
<1>4. Become(w, Fresh) \/ Become(w, r)
  BY Zenon DEF FlushPushes, FlushFailed, CommitMessages, CommitRefused, Crash
<1> HIDE DEF r
<1>5. /\ wk' \in [Worker -> Iteration]
      /\ \A x \in Worker : Indexes(wk'[x]) \subseteq DOMAIN wk'[x].items
  BY <1>3, <1>4, FreshType, BecomeType
<1>6. CASE FlushPushes(w)
  <2>1. pushes' \in [Uid -> Seq(Push)]
    BY <1>2, <1>6, JoinType DEF FlushPushes, TypeOK
  <2> QED
    BY <1>5, <1>6, <2>1 DEF TypeOK, FlushPushes, kafka, db, faults
<1>7. CASE FlushFailed(w)
  <2>1. pushes' \in [Uid -> Seq(Push)]
    BY <1>2, <1>7 DEF FlushFailed, TypeOK
  <2> QED
    BY <1>5, <1>7, <2>1 DEF TypeOK, FlushFailed, kafka, db
<1>8. CASE CommitMessages(w)
  <2>1. committed' \in [Partition -> Nat]
    BY <1>2, <1>8 DEF CommitMessages, TypeOK
  <2> QED
    BY <1>5, <1>8, <2>1 DEF TypeOK, CommitMessages, db, faults
<1>9. CASE CommitRefused(w)
  BY <1>5, <1>9 DEF TypeOK, CommitRefused, kafka, db, faults
<1>10. CASE Crash(w)
  <2>1. lock' \in [Conv -> Worker \cup {NoWorker}]
    BY <1>10 DEF TypeOK, Crash
  <2> QED
    BY <1>5, <1>10, <2>1 DEF TypeOK, Crash, kafka
<1> QED
  BY <1>6, <1>7, <1>8, <1>9, <1>10

LEMMA NextType == ASSUME ConstantsAssumption, TypeOK, [Next]_vars PROVE TypeOK'
<1>1. CASE Environment
  BY <1>1, EnvironmentType
<1>2. ASSUME NEW w \in Worker, Work(w) PROVE TypeOK'
  <2>1. CASE InsertConflict(w)
    BY Zenon, <2>1, AbortType DEF InsertConflict, faults, TypeOK
  <2> QED
    BY <1>2, <2>1, FetchType, ResolveType, QueueType, QueueDoneType, SelectType,
       ReplayType, NextSeqType, AssignType, InsertType, EndType DEF Work
<1>3. ASSUME NEW w \in Worker, Failure(w) PROVE TypeOK'
  <2>1. CASE Fail(w)
    <3>1. Abort(w) /\ crashes' = crashes + 1 /\ rebalances' = rebalances
      BY <2>1 DEF Fail
    <3>2. crashes' \in Nat /\ rebalances' \in Nat
      BY <3>1 DEF TypeOK
    <3> QED
      BY <3>1, <3>2, AbortType
  <2> QED
    BY <1>3, <2>1, QueueType, EndType DEF Failure
<1>4. CASE UNCHANGED vars
  BY <1>4 DEF TypeOK, vars, kafka, db, faults
<1> QED
  BY <1>1, <1>2, <1>3, <1>4 DEF Next

(***************************************************************************)
(* Every variable keeps its type, and the indexes an iteration works with  *)
(* are indexes of its batch, which is what no nil message in the loops of  *)
(* handleSingleBatch and Run rests on.                                     *)
(***************************************************************************)
THEOREM TypeCorrect == Spec => []TypeOK
<1>1. Init => TypeOK
  BY ConstantsAssumption, FreshType DEF Init, TypeOK
<1>2. TypeOK /\ [Next]_vars => TypeOK'
  BY ConstantsAssumption, NextType
<1> QED
  BY <1>1, <1>2, PTL DEF Spec
-----------------------------------------------------------------------------
(***************************************************************************)
(* UniqueSeq.  SeqInv is inductive: most steps change neither the rows,    *)
(* the counters and the locks nor a transaction's numbers; the others are  *)
(* taken one by one.                                                       *)
(***************************************************************************)
LEMMA BecomeOnly ==
  ASSUME TypeOK, NEW w \in Worker, NEW r, Become(w, r)
  PROVE  wk'[w] = r /\ \A v \in Worker \ {w} : wk'[v] = wk[v]
  BY DEF TypeOK, Become

LEMMA NoNumbers ==
  ASSUME SeqInv, NEW w \in Worker, wk[w].pc # "assign"
  PROVE  /\ \A c \in Conv : lock[c] # w
         /\ ConstantsAssumption => \A m \in Msg : wk[w].asg[m] = 0
  BY DEF SeqInv, LocksAreAssigning, NumbersAreLocked, ConstantsAssumption

LEMMA SameSeq ==
  ASSUME ConstantsAssumption, SeqInv, TypeOK', UNCHANGED <<row, counter, lock>>,
         \A w \in Worker : /\ wk'[w].pc = wk[w].pc
                           /\ wk'[w].asg = wk[w].asg
                           /\ wk'[w].next = wk[w].next
                           /\ wk'[w].plan = wk[w].plan
                           /\ wk'[w].items = wk[w].items
  PROVE  SeqInv'
<1>1. UniqueSeq'
  BY DEF SeqInv, UniqueSeq, Stored
<1>2. NumbersAreLocked' /\ NumbersAreDistinct'
  BY SMTT(60) DEF SeqInv, NumbersAreLocked, NumbersAreDistinct
<1>3. LocksAreAssigning'
  BY DEF SeqInv, LocksAreAssigning
<1>4. PlansAreLocked'
  <2> SUFFICES ASSUME NEW v \in Worker, wk'[v].pc = "assign", NEW i \in wk'[v].plan
               PROVE  lock'[ConvOf[Message(v, i)']] = v
    BY DEF PlansAreLocked
  <2>1. i \in wk[v].plan /\ wk[v].pc = "assign" /\ Message(v, i)' = Message(v, i)
    BY DEF Message
  <2> QED
    BY <2>1 DEF SeqInv, PlansAreLocked
<1> QED
  BY <1>1, <1>2, <1>3, <1>4 DEF SeqInv

(***************************************************************************)
(* A step of a worker that is in no transaction, before and after it.      *)
(***************************************************************************)
LEMMA OutsideSeq ==
  ASSUME ConstantsAssumption, SeqInv, TypeOK', UNCHANGED <<row, counter, lock>>,
         NEW w \in Worker, NEW r, Become(w, r),
         wk[w].pc # "assign", r.pc # "assign",
         r.asg = wk[w].asg \/ r.asg = Fresh.asg
  PROVE  SeqInv'
<1>1. wk'[w] = r /\ \A v \in Worker \ {w} : wk'[v] = wk[v]
  BY BecomeOnly DEF SeqInv
<1>2. \A m \in Msg : r.asg[m] = 0
  BY SMTT(30), NoNumbers DEF Fresh
<1>3. \A c \in Conv : lock[c] # w
  BY NoNumbers
<1>4. UniqueSeq'
  BY DEF SeqInv, UniqueSeq, Stored
<1>5. NumbersAreLocked' /\ NumbersAreDistinct'
  <2>1. \A v \in Worker \ {w} : wk'[v].asg = wk[v].asg /\ wk'[v].next = wk[v].next
    BY <1>1
  <2>2. \A m \in Msg : wk'[w].asg[m] = 0
    BY <1>1, <1>2
  <2>3. NumbersAreLocked'
    BY <2>1, <2>2 DEF SeqInv, NumbersAreLocked
  <2>4. NumbersAreDistinct'
    BY <2>1, <2>2 DEF SeqInv, NumbersAreDistinct
  <2> QED
    BY <2>3, <2>4
<1>6. LocksAreAssigning'
  BY <1>1, <1>3 DEF SeqInv, LocksAreAssigning
<1>7. PlansAreLocked'
  <2> SUFFICES ASSUME NEW v \in Worker, wk'[v].pc = "assign", NEW i \in wk'[v].plan
               PROVE  lock'[ConvOf[Message(v, i)']] = v
    BY DEF PlansAreLocked
  <2>1. i \in wk[v].plan /\ wk[v].pc = "assign" /\ Message(v, i)' = Message(v, i)
    BY <1>1 DEF Message
  <2> QED
    BY <2>1 DEF SeqInv, PlansAreLocked
<1> QED
  BY <1>4, <1>5, <1>6, <1>7 DEF SeqInv

(***************************************************************************)
(* A transaction ends without storing anything.                            *)
(***************************************************************************)
LEMMA RollbackSeq ==
  ASSUME ConstantsAssumption, SeqInv, TypeOK', UNCHANGED <<row, counter>>,
         NEW w \in Worker, NEW r, Become(w, r),
         r.pc # "assign", r.asg = Fresh.asg,
         lock' = [c \in Conv |-> IF lock[c] = w THEN NoWorker ELSE lock[c]]
  PROVE  SeqInv'
<1>1. wk'[w] = r /\ \A v \in Worker \ {w} : wk'[v] = wk[v]
  BY BecomeOnly DEF SeqInv
<1>2. \A m \in Msg : r.asg[m] = 0
  BY DEF Fresh
<1>3. \A c \in Conv : /\ lock'[c] # w
                      /\ \A v \in Worker \ {w} : lock'[c] = v <=> lock[c] = v
  BY DEF ConstantsAssumption
<1>4. UniqueSeq'
  BY DEF SeqInv, UniqueSeq, Stored
<1>5. NumbersAreLocked'
  BY SMTT(30), <1>1, <1>2, <1>3 DEF SeqInv, NumbersAreLocked, ConstantsAssumption
<1>6. NumbersAreDistinct'
  BY SMTT(30), <1>1, <1>2 DEF SeqInv, NumbersAreDistinct
<1>7. LocksAreAssigning'
  BY <1>1, <1>3 DEF SeqInv, LocksAreAssigning
<1>8. PlansAreLocked'
  <2> SUFFICES ASSUME NEW v \in Worker, wk'[v].pc = "assign", NEW i \in wk'[v].plan
               PROVE  lock'[ConvOf[Message(v, i)']] = v
    BY DEF PlansAreLocked
  <2>1. v # w /\ wk'[v] = wk[v]
    BY <1>1
  <2>2. Message(v, i)' = Message(v, i) /\ lock[ConvOf[Message(v, i)]] = v
    BY <2>1 DEF SeqInv, PlansAreLocked, Message
  <2>3. Message(v, i) \in Msg
    BY Zenon, <2>1, MessageType DEF SeqInv, TypeOK, Indexes
  <2> QED
    BY <1>3, <2>1, <2>2, <2>3 DEF ConstantsAssumption
<1> QED
  BY <1>4, <1>5, <1>6, <1>7, <1>8 DEF SeqInv

LEMMA AbortSeq ==
  ASSUME ConstantsAssumption, SeqInv, TypeOK', NEW w \in Worker, Abort(w)
  PROVE  SeqInv'
<1> DEFINE r == [wk[w] EXCEPT !.pc = "flush", !.fail = TRUE, !.plan = {},
                              !.asg = Fresh.asg, !.next = Fresh.next, !.out = Fresh.out]
<1>1. wk[w] \in Iteration
  BY DEF SeqInv, TypeOK
<1>2. r.pc = "flush" /\ r.asg = Fresh.asg
  BY <1>1 DEF Iteration
<1>3. Become(w, r)
  BY DEF Abort
<1> HIDE DEF r
<1> QED
  BY <1>2, <1>3, RollbackSeq DEF Abort

LEMMA EnvironmentSeq ==
  ASSUME ConstantsAssumption, SeqInv, TypeOK', Environment
  PROVE  SeqInv'
<1>1. ASSUME NEW m \in Msg, NEW b \in BOOLEAN, Send(m, b) PROVE SeqInv'
  BY <1>1, SameSeq DEF Send, db
<1>2. ASSUME NEW m \in Msg, OpenConversation(m) PROVE SeqInv'
  BY <1>2, SameSeq DEF OpenConversation
<1>3. ASSUME NEW m \in Msg, Prewrite(m) PROVE SeqInv'
  <2> DEFINE c == ConvOf[m]
  <2>1. c \in Conv /\ lock[c] = NoWorker
    BY <1>3 DEF Prewrite, ConstantsAssumption
  <2>2. /\ counter' = [counter EXCEPT ![c] = @ + 1]
        /\ row' = [row EXCEPT ![m] = counter[c] + 1]
        /\ UNCHANGED <<lock, wk>>
    BY <1>3 DEF Prewrite
  <2>3. UniqueSeq'
    <3>1. /\ \A k \in Msg : row[k] \in Nat /\ row'[k] \in Nat
          /\ \A k \in Msg : row'[k] = IF k = m THEN counter[c] + 1 ELSE row[k]
      BY <2>2 DEF SeqInv, TypeOK
    <3>2. /\ \A d \in Conv : counter[d] \in Nat
          /\ \A d \in Conv : counter'[d] = IF d = c THEN counter[c] + 1 ELSE counter[d]
      BY <2>1, <2>2 DEF SeqInv, TypeOK
    <3>3. \A j, k \in Msg : ConvOf[j] = ConvOf[k] /\ row[j] # 0 /\ row[k] # 0 =>
            row[j] <= counter[ConvOf[j]] /\ (row[j] = row[k] => j = k)
      BY DEF SeqInv, UniqueSeq, Stored, ConstantsAssumption
    <3> SUFFICES ASSUME NEW j \in Msg, NEW k \in Msg, ConvOf[j] = ConvOf[k],
                        row'[j] # 0, row'[k] # 0
                 PROVE  row'[j] <= counter'[ConvOf[j]] /\ (row'[j] = row'[k] => j = k)
      BY DEF UniqueSeq, Stored
    <3>4. ConvOf[j] \in Conv
      BY DEF ConstantsAssumption
    <3>5. CASE j # m /\ k # m
      <4>1. row'[j] = row[j] /\ row'[k] = row[k]
        BY <3>1, <3>5
      <4>2. row[j] <= counter[ConvOf[j]] /\ (row[j] = row[k] => j = k)
        BY <3>3, <4>1
      <4>3. counter[ConvOf[j]] <= counter'[ConvOf[j]]
        BY <3>2, <3>4
      <4> QED
        BY <3>1, <3>2, <3>4, <4>1, <4>2, <4>3
    <3>6. CASE j = m \/ k = m
      <4>1. \A x \in Msg \ {m} : ConvOf[x] = c /\ row[x] # 0 => row[x] <= counter[c]
        BY <3>3
      <4>2. counter'[c] = counter[c] + 1 /\ ConvOf[j] = c /\ ConvOf[k] = c
        BY <2>1, <3>2, <3>6
      <4> QED
        BY <2>1, <3>1, <3>2, <3>6, <4>1, <4>2
    <3> QED
      BY <3>5, <3>6
  <2>4. \A d \in Conv : \A w \in Worker : lock[d] = w => counter'[d] = counter[d]
    BY <2>1, <2>2 DEF SeqInv, TypeOK, ConstantsAssumption
  <2>5. NumbersAreLocked'
    BY <2>2, <2>4 DEF SeqInv, NumbersAreLocked, ConstantsAssumption
  <2>6. NumbersAreDistinct'
    BY <2>2 DEF SeqInv, NumbersAreDistinct
  <2>7. LocksAreAssigning'
    BY <2>2, <2>4 DEF SeqInv, LocksAreAssigning
  <2>8. PlansAreLocked'
    BY <2>2 DEF SeqInv, PlansAreLocked, Message
  <2> QED
    BY <2>3, <2>5, <2>6, <2>7, <2>8 DEF SeqInv
<1>4. ASSUME NEW p \in Partition, NEW w \in Worker, Rebalance(p, w) PROVE SeqInv'
  <2> DEFINE v == owner[p]
             r == [wk[v] EXCEPT !.stale = IF wk[v].taken[p] > 0 THEN TRUE ELSE @]
  <2>1. v \in Worker /\ wk[v] \in Iteration
    BY DEF SeqInv, TypeOK
  <2>2. /\ r.pc = wk[v].pc
        /\ r.asg = wk[v].asg
        /\ r.next = wk[v].next
        /\ r.plan = wk[v].plan
        /\ r.items = wk[v].items
    BY <2>1 DEF Iteration
  <2>3. Become(v, r)
    BY <1>4 DEF Rebalance
  <2> HIDE DEF r
  <2>4. wk'[v] = r /\ \A x \in Worker \ {v} : wk'[x] = wk[x]
    BY <2>1, <2>3, BecomeOnly DEF SeqInv
  <2>5. UNCHANGED <<row, counter, lock>>
    BY <1>4 DEF Rebalance, db
  <2> QED
    BY <2>2, <2>4, <2>5, SameSeq
<1> QED
  BY <1>1, <1>2, <1>3, <1>4 DEF Environment

LEMMA NextSeqSeq ==
  ASSUME ConstantsAssumption, SeqInv, TypeOK', NEW w \in Worker, NextSeq(w)
  PROVE  SeqInv'
<1> DEFINE r == [wk[w] EXCEPT !.pc = "assign", !.next = counter]
<1>1. wk[w] \in Iteration
  BY DEF SeqInv, TypeOK
<1>2. /\ r.pc = "assign" /\ r.next = counter /\ r.asg = wk[w].asg
      /\ r.plan = wk[w].plan /\ r.items = wk[w].items
  BY <1>1 DEF Iteration
<1>3. Become(w, r) /\ UNCHANGED <<row, counter>>
  BY DEF NextSeq
<1> HIDE DEF r
<1>4. wk'[w] = r /\ \A v \in Worker \ {w} : wk'[v] = wk[v]
  BY <1>3, BecomeOnly DEF SeqInv
<1>5. \A m \in Msg : wk[w].asg[m] = 0
  BY Zenon, NoNumbers DEF NextSeq
<1>6. \A c \in Conv : /\ c \in Planned(w) => lock'[c] = w
                      /\ \A v \in Worker \ {w} : lock'[c] = v <=> lock[c] = v
                      /\ lock'[c] = w => c \in Planned(w)
  BY NoNumbers DEF NextSeq, ConstantsAssumption
<1>7. UniqueSeq'
  BY <1>3 DEF SeqInv, UniqueSeq, Stored
<1>8. \A v \in Worker : wk'[v].asg = wk[v].asg
  BY <1>2, <1>4
<1>9. NumbersAreLocked'
  BY <1>3, <1>4, <1>5, <1>6, <1>8 DEF SeqInv, NumbersAreLocked, ConstantsAssumption
<1>10. NumbersAreDistinct'
  BY SMTT(30), <1>8 DEF SeqInv, NumbersAreDistinct
<1>11. LocksAreAssigning'
  <2> SUFFICES ASSUME NEW v \in Worker, NEW c \in Conv, lock'[c] = v
               PROVE  wk'[v].pc = "assign" /\ counter'[c] <= wk'[v].next[c]
    BY DEF LocksAreAssigning
  <2>1. CASE v = w
    <3>1. counter[c] \in Nat
      BY DEF SeqInv, TypeOK
    <3> QED
      BY <1>2, <1>3, <1>4, <2>1, <3>1
  <2>2. CASE v # w
    BY <1>3, <1>4, <1>6, <2>2 DEF SeqInv, LocksAreAssigning
  <2> QED
    BY <2>1, <2>2
<1>12. PlansAreLocked'
  <2> SUFFICES ASSUME NEW v \in Worker, wk'[v].pc = "assign", NEW i \in wk'[v].plan
               PROVE  lock'[ConvOf[Message(v, i)']] = v
    BY DEF PlansAreLocked
  <2>1. wk'[v].plan = wk[v].plan /\ wk'[v].items = wk[v].items
    BY <1>2, <1>4
  <2>2. Message(v, i)' = Message(v, i) /\ ConvOf[Message(v, i)] \in Conv
    BY <2>1, MessageType DEF Message, SeqInv, TypeOK, Indexes, ConstantsAssumption
  <2>3. CASE v = w
    BY <1>6, <2>1, <2>2, <2>3 DEF Planned
  <2>4. CASE v # w
    BY SMTT(30), <1>4, <1>6, <2>1, <2>2, <2>4 DEF SeqInv, PlansAreLocked
  <2> QED
    BY <2>3, <2>4
<1> QED
  BY <1>7, <1>9, <1>10, <1>11, <1>12 DEF SeqInv

LEMMA AssignSeq ==
  ASSUME ConstantsAssumption, SeqInv, TypeOK', NEW w \in Worker, NEW i, Assign(w, i)
  PROVE  SeqInv'
<1> DEFINE m == Message(w, i)
           n == Number(w, m)
           c == ConvOf[m]
<1>1. wk[w] \in Iteration /\ i \in DOMAIN wk[w].items
  BY DEF SeqInv, TypeOK, Indexes, Assign
<1>2. m \in Msg /\ c \in Conv
  BY <1>1, MessageType DEF SeqInv, ConstantsAssumption
<1>3. PICK us \in Targets(m) :
        Become(w, [wk[w] EXCEPT !.plan = @ \ {i},
                                !.next = [@ EXCEPT ![c] = n],
                                !.asg = [@ EXCEPT ![m] = n],
                                !.out = AppendTo(@, us, [msg |-> m, seq |-> n])])
  BY Zenon DEF Assign
<1> DEFINE nx == [wk[w].next EXCEPT ![c] = n]
           as == [wk[w].asg EXCEPT ![m] = n]
           q == AppendTo(wk[w].out, us, [msg |-> m, seq |-> n])
           r == [wk[w] EXCEPT !.plan = @ \ {i}, !.next = nx, !.asg = as, !.out = q]
<1>4. Become(w, r)
  BY <1>3
<1>5. wk[w].next \in [Conv -> Nat] /\ wk[w].asg \in [Msg -> Nat]
  BY Zenon, <1>1 DEF Iteration
<1>6. n = wk[w].next[c] + 1
  BY DEF Number
<1>7. /\ \A d \in Conv : nx[d] = IF d = c THEN wk[w].next[c] + 1 ELSE wk[w].next[d]
      /\ \A k \in Msg : as[k] = IF k = m THEN wk[w].next[c] + 1 ELSE wk[w].asg[k]
  BY <1>5, <1>6
<1> HIDE DEF nx, as, q
<1>8. /\ r.pc = wk[w].pc /\ r.items = wk[w].items /\ r.plan = wk[w].plan \ {i}
      /\ r.next = nx /\ r.asg = as
  BY <1>1 DEF Iteration
<1> HIDE DEF r
<1>9. wk'[w] = r /\ \A v \in Worker \ {w} : wk'[v] = wk[v]
  BY <1>4, BecomeOnly DEF SeqInv
<1>10. UNCHANGED <<row, counter, lock>>
  BY DEF Assign, db
<1>11. lock[c] = w /\ counter[c] <= wk[w].next[c] /\ counter[c] \in Nat
  BY Zenon, <1>2 DEF Assign, SeqInv, PlansAreLocked, LocksAreAssigning, TypeOK
<1>12. /\ \A d \in Conv : wk'[w].next[d] = IF d = c THEN wk[w].next[c] + 1
                                                   ELSE wk[w].next[d]
       /\ \A k \in Msg : wk'[w].asg[k] = IF k = m THEN wk[w].next[c] + 1
                                                  ELSE wk[w].asg[k]
       /\ c = ConvOf[m]
       /\ wk[w].next[c] \in Nat
  BY Zenon, <1>2, <1>5, <1>7, <1>8, <1>9
<1> HIDE DEF m, n, c
<1>13. UniqueSeq'
  BY <1>10 DEF SeqInv, UniqueSeq, Stored
<1>14. NumbersAreLocked'
  <2> SUFFICES ASSUME NEW v \in Worker, NEW k \in Msg, wk'[v].asg[k] # 0
               PROVE  /\ lock[ConvOf[k]] = v
                      /\ counter[ConvOf[k]] < wk'[v].asg[k]
                      /\ wk'[v].asg[k] <= wk'[v].next[ConvOf[k]]
    BY <1>10 DEF NumbersAreLocked
  <2>1. CASE v # w
    BY <1>9, <2>1 DEF SeqInv, NumbersAreLocked
  <2>2. CASE v = w /\ k = m
    <3>1. /\ wk'[w].asg[m] = wk[w].next[c] + 1
          /\ wk'[w].next[c] = wk[w].next[c] + 1
      BY <1>2, <1>12
    <3> QED
      BY <1>11, <1>12, <2>2, <3>1
  <2>3. CASE v = w /\ k # m
    <3>1. ConvOf[k] \in Conv /\ wk'[w].asg[k] = wk[w].asg[k]
      BY Zenon, <1>7, <1>8, <1>9, <2>3 DEF ConstantsAssumption
    <3>2. /\ lock[ConvOf[k]] = w
          /\ counter[ConvOf[k]] < wk[w].asg[k]
          /\ wk[w].asg[k] <= wk[w].next[ConvOf[k]]
      BY <2>3, <3>1 DEF SeqInv, NumbersAreLocked
    <3>3. wk[w].next[ConvOf[k]] <= wk'[w].next[ConvOf[k]]
      BY <1>2, <1>5, <1>7, <1>8, <1>9, <3>1
    <3>4. /\ wk[w].asg[k] \in Nat
          /\ wk[w].next[ConvOf[k]] \in Nat
          /\ wk'[w].next[ConvOf[k]] \in Nat
      BY <1>2, <1>5, <1>7, <1>8, <1>9, <3>1
    <3> QED
      BY <2>3, <3>1, <3>2, <3>3, <3>4
  <2> QED
    BY <2>1, <2>2, <2>3
<1>15. NumbersAreDistinct'
  <2> SUFFICES ASSUME NEW v \in Worker, NEW j \in Msg, NEW k \in Msg,
                      ConvOf[j] = ConvOf[k], wk'[v].asg[j] # 0,
                      wk'[v].asg[j] = wk'[v].asg[k]
               PROVE  j = k
    BY DEF NumbersAreDistinct
  <2>1. CASE v # w
    BY <1>9, <2>1 DEF SeqInv, NumbersAreDistinct
  <2>2. CASE v = w
    <3>1. \A x \in Msg : ConvOf[x] = c => wk[w].asg[x] <= wk[w].next[c]
      BY <1>2, <1>5 DEF SeqInv, NumbersAreLocked
    <3>2. CASE j = m \/ k = m
      <4>1. \A x \in Msg \ {m} : ConvOf[x] = c => wk'[w].asg[x] # wk'[w].asg[m]
        BY <1>2, <1>5, <1>12, <3>1
      <4> QED
        BY <1>12, <2>2, <3>2, <4>1
    <3>3. CASE j # m /\ k # m
      BY <1>12, <2>2, <3>3 DEF SeqInv, NumbersAreDistinct
    <3> QED
      BY <3>2, <3>3
  <2> QED
    BY <2>1, <2>2
<1>16. LocksAreAssigning'
  <2> SUFFICES ASSUME NEW v \in Worker, NEW d \in Conv, lock[d] = v
               PROVE  wk'[v].pc = "assign" /\ counter[d] <= wk'[v].next[d]
    BY <1>10 DEF LocksAreAssigning
  <2>1. wk[v].pc = "assign" /\ counter[d] <= wk[v].next[d] /\ counter[d] \in Nat
    BY DEF SeqInv, LocksAreAssigning, TypeOK
  <2>2. CASE v # w
    BY <1>9, <2>1, <2>2
  <2>3. CASE v = w
    BY SMTT(30), <1>2, <1>5, <1>7, <1>8, <1>9, <2>1, <2>3
  <2> QED
    BY <2>2, <2>3
<1>17. PlansAreLocked'
  <2> SUFFICES ASSUME NEW v \in Worker, wk'[v].pc = "assign", NEW j \in wk'[v].plan
               PROVE  lock'[ConvOf[Message(v, j)']] = v
    BY DEF PlansAreLocked
  <2>1. j \in wk[v].plan /\ wk[v].pc = "assign" /\ Message(v, j)' = Message(v, j)
    BY <1>8, <1>9 DEF Message
  <2> QED
    BY <1>10, <2>1 DEF SeqInv, PlansAreLocked
<1> QED
  BY <1>13, <1>14, <1>15, <1>16, <1>17 DEF SeqInv

LEMMA InsertSeq ==
  ASSUME ConstantsAssumption, SeqInv, TypeOK', NEW w \in Worker, Insert(w)
  PROVE  SeqInv'
<1>1. wk[w] \in Iteration
  BY DEF SeqInv, TypeOK
<1>2. wk[w].next \in [Conv -> Nat] /\ wk[w].asg \in [Msg -> Nat]
  BY Zenon, <1>1 DEF Iteration
<1> DEFINE q == [u \in Uid |-> wk[w].pending[u] \o wk[w].out[u]]
           t == IF wk[w].ret = "select"
                  THEN {} ELSE wk[w].todo \ {i \in wk[w].todo : \A j \in wk[w].todo : i <= j}
           pc == IF wk[w].ret = "select" THEN "replay" ELSE wk[w].ret
           r == [wk[w] EXCEPT !.pc = pc, !.todo = t, !.pending = q,
                              !.asg = Fresh.asg, !.next = Fresh.next, !.out = Fresh.out]
<1>3. Become(w, r)
  BY DEF Insert
<1>4. pc # "assign"
  BY <1>1 DEF Iteration, Queues
<1> HIDE DEF q, t, pc
<1>5. r.pc # "assign" /\ \A m \in Msg : r.asg[m] = 0
  <2>1. r.pc = pc /\ r.asg = Fresh.asg
    BY <1>1 DEF Iteration
  <2> QED
    BY <1>4, <2>1 DEF Fresh
<1> HIDE DEF r
<1>6. wk'[w] = r /\ \A v \in Worker \ {w} : wk'[v] = wk[v]
  BY <1>3, BecomeOnly DEF SeqInv
<1>7. \A c \in Conv : /\ lock'[c] # w
                      /\ \A v \in Worker \ {w} : lock'[c] = v <=> lock[c] = v
  BY DEF Insert, ConstantsAssumption
<1>8. \A c \in Conv : IF lock[c] = w THEN counter'[c] = wk[w].next[c]
                                     ELSE counter'[c] = counter[c]
  BY DEF Insert, Held
<1>9. \A c \in Conv : /\ counter[c] \in Nat /\ counter'[c] \in Nat
                      /\ counter[c] <= counter'[c]
  <2>1. \A c \in Conv : counter[c] \in Nat /\ counter'[c] \in Nat
    BY DEF SeqInv, TypeOK
  <2>2. \A c \in Conv : lock[c] = w => counter[c] <= wk[w].next[c]
    BY DEF SeqInv, LocksAreAssigning
  <2> QED
    BY <1>8, <2>1, <2>2
<1>10. \A m \in Msg : row'[m] = IF row[m] = 0 THEN wk[w].asg[m] ELSE row[m]
  BY DEF Insert, StoredRow
<1>11. UniqueSeq'
  <2>1. \A m \in Msg : row[m] # 0 => row'[m] = row[m] /\ row[m] <= counter[ConvOf[m]]
    BY <1>10 DEF SeqInv, UniqueSeq, Stored, ConstantsAssumption
  <2>2. \A m \in Msg : row[m] = 0 /\ row'[m] # 0 =>
          /\ row'[m] = wk[w].asg[m]
          /\ counter[ConvOf[m]] < row'[m]
          /\ row'[m] <= counter'[ConvOf[m]]
    BY <1>8, <1>10 DEF SeqInv, NumbersAreLocked, ConstantsAssumption
  <2>3. \A m \in Msg : row[m] \in Nat /\ row'[m] \in Nat /\ ConvOf[m] \in Conv
    BY DEF SeqInv, TypeOK, ConstantsAssumption
  <2> SUFFICES ASSUME NEW m \in Msg, NEW n \in Msg, ConvOf[m] = ConvOf[n],
                      row'[m] # 0, row'[n] # 0
               PROVE  row'[m] <= counter'[ConvOf[m]] /\ (row'[m] = row'[n] => m = n)
    BY DEF UniqueSeq, Stored
  <2>4. row'[m] <= counter'[ConvOf[m]]
    BY <1>9, <2>1, <2>2, <2>3
  <2>5. ASSUME row'[m] = row'[n] PROVE m = n
    <3>1. CASE row[m] # 0 /\ row[n] # 0
      BY <2>1, <2>3, <2>5, <3>1 DEF SeqInv, UniqueSeq, Stored
    <3>2. CASE row[m] = 0 /\ row[n] = 0
      BY <2>2, <2>5, <3>2 DEF SeqInv, NumbersAreDistinct
    <3>3. CASE (row[m] = 0) # (row[n] = 0)
      BY <1>9, <2>1, <2>2, <2>3, <2>5, <3>3
    <3> QED
      BY <3>1, <3>2, <3>3
  <2> QED
    BY <2>4, <2>5
<1>12. \A c \in Conv : \A v \in Worker \ {w} : lock[c] = v => counter'[c] = counter[c]
  BY <1>8
<1>13. NumbersAreLocked'
  BY <1>5, <1>6, <1>7, <1>12 DEF SeqInv, NumbersAreLocked, ConstantsAssumption
<1>14. NumbersAreDistinct'
  BY <1>5, <1>6 DEF SeqInv, NumbersAreDistinct
<1>15. LocksAreAssigning'
  BY <1>5, <1>6, <1>7, <1>12 DEF SeqInv, LocksAreAssigning
<1>16. PlansAreLocked'
  <2> SUFFICES ASSUME NEW v \in Worker, wk'[v].pc = "assign", NEW i \in wk'[v].plan
               PROVE  lock'[ConvOf[Message(v, i)']] = v
    BY DEF PlansAreLocked
  <2>1. v # w /\ wk'[v] = wk[v]
    BY <1>5, <1>6
  <2>2. Message(v, i)' = Message(v, i) /\ lock[ConvOf[Message(v, i)]] = v
    BY <2>1 DEF SeqInv, PlansAreLocked, Message
  <2>3. ConvOf[Message(v, i)] \in Conv
    BY Zenon, <2>1, MessageType DEF SeqInv, TypeOK, Indexes, ConstantsAssumption
  <2> QED
    BY <1>7, <2>1, <2>2, <2>3
<1> QED
  BY <1>11, <1>13, <1>14, <1>15, <1>16 DEF SeqInv
LEMMA WorkSeq ==
  ASSUME ConstantsAssumption, SeqInv, TypeOK', NEW w \in Worker, Work(w)
  PROVE  SeqInv'
<1>1. wk[w] \in Iteration
  BY DEF SeqInv, TypeOK
<1>2. ASSUME NEW r, Become(w, r), UNCHANGED <<row, counter, lock>>,
             wk[w].pc # "assign", r.pc # "assign",
             r.asg = wk[w].asg \/ r.asg = Fresh.asg
      PROVE  SeqInv'
  BY <1>2, OutsideSeq
<1>3. ASSUME NEW p \in Partition, Fetch(w, p) PROVE SeqInv'
  <2> DEFINE it == Append(wk[w].items, log[p][committed[p] + wk[w].taken[p] + 1])
             tk == [wk[w].taken EXCEPT ![p] = @ + 1]
             r == [wk[w] EXCEPT !.items = it, !.taken = tk]
  <2>1. Become(w, r) /\ wk[w].pc = "fetch" /\ UNCHANGED <<row, counter, lock>>
    BY <1>3 DEF Fetch, db
  <2> HIDE DEF it, tk
  <2>2. r.pc = wk[w].pc /\ r.asg = wk[w].asg
    BY <1>1 DEF Iteration
  <2> HIDE DEF r
  <2> QED
    BY <1>2, <2>1, <2>2
<1>4. CASE Resolve(w)
  <2>1. PICK todo, singles :
          Become(w, [wk[w] EXCEPT !.pc = "first", !.todo = todo, !.singles = singles])
    BY Zenon, <1>4 DEF Resolve
  <2>2. wk[w].pc = "fetch" /\ UNCHANGED <<row, counter, lock>>
    BY <1>4 DEF Resolve, db
  <2> QED
    BY Zenon, <1>1, <1>2, <2>1, <2>2 DEF Iteration
<1>5. ASSUME NEW i, SkipPoison(w, i) \/ HandleRefused(w, i) PROVE SeqInv'
  <2>1. \/ Become(w, [wk[w] EXCEPT !.todo = @ \ {i}])
        \/ Become(w, [wk[w] EXCEPT !.pc = "flush", !.fail = TRUE])
    BY <1>5 DEF SkipPoison, HandleRefused
  <2>2. wk[w].pc # "assign" /\ UNCHANGED <<row, counter, lock>>
    BY <1>5 DEF SkipPoison, HandleRefused, IsNext, Queues, db
  <2> QED
    BY Zenon, <1>1, <1>2, <2>1, <2>2 DEF Iteration
<1>6. ASSUME NEW i, HandleReplay(w, i) PROVE SeqInv'
  <2>1. PICK q : Become(w, [wk[w] EXCEPT !.todo = @ \ {i}, !.pending = q])
    BY Zenon, <1>6 DEF HandleReplay
  <2>2. wk[w].pc # "assign" /\ UNCHANGED <<row, counter, lock>>
    BY <1>6 DEF HandleReplay, IsNext, Queues
  <2> QED
    BY Zenon, <1>1, <1>2, <2>1, <2>2 DEF Iteration
<1>7. ASSUME NEW i, HandleNew(w, i) PROVE SeqInv'
  <2>1. Become(w, [wk[w] EXCEPT !.pc = "seq", !.ret = wk[w].pc, !.plan = {i}])
    BY <1>7 DEF HandleNew
  <2>2. wk[w].pc # "assign" /\ UNCHANGED <<row, counter, lock>>
    BY <1>7 DEF HandleNew, IsNext, Queues
  <2> QED
    BY Zenon, <1>1, <1>2, <2>1, <2>2 DEF Iteration
<1>8. CASE QueueDone(w)
  <2>1. \/ Become(w, [wk[w] EXCEPT !.pc = "select"])
        \/ Become(w, [wk[w] EXCEPT !.pc = "flush"])
        \/ Become(w, [wk[w] EXCEPT !.pc = "other", !.todo = Others(w)])
    BY <1>8 DEF QueueDone
  <2>2. wk[w].pc # "assign" /\ UNCHANGED <<row, counter, lock>>
    BY <1>8 DEF QueueDone, Queues, db
  <2> QED
    BY Zenon, <1>1, <1>2, <2>1, <2>2 DEF Iteration
<1>9. CASE Select(w)
  <2>1. \/ Become(w, [wk[w] EXCEPT !.pc = "replay", !.old = Once(w)])
        \/ Become(w, [wk[w] EXCEPT !.pc = "fallback", !.todo = Singles(w)])
        \/ Become(w, [wk[w] EXCEPT !.pc = "seq", !.ret = "select", !.plan = NotStored(w),
                                   !.old = Once(w) \ NotStored(w)])
    BY <1>9 DEF Select
  <2>2. wk[w].pc # "assign" /\ UNCHANGED <<row, counter, lock>>
    BY <1>9 DEF Select, db
  <2> QED
    BY Zenon, <1>1, <1>2, <2>1, <2>2 DEF Iteration
<1>10. ASSUME NEW i, Replay(w, i) PROVE SeqInv'
  <2>1. PICK q : Become(w, [wk[w] EXCEPT !.old = @ \ {i}, !.pending = q])
    BY Zenon, <1>10 DEF Replay
  <2>2. wk[w].pc = "replay" /\ UNCHANGED <<row, counter, lock>>
    BY <1>10 DEF Replay, db
  <2> QED
    BY Zenon, <1>1, <1>2, <2>1, <2>2 DEF Iteration
<1>11. CASE ReplayDone(w)
  <2>1. Become(w, [wk[w] EXCEPT !.pc = "other", !.todo = Others(w)])
    BY <1>11 DEF ReplayDone
  <2>2. wk[w].pc = "replay" /\ UNCHANGED <<row, counter, lock>>
    BY <1>11 DEF ReplayDone, db
  <2> QED
    BY Zenon, <1>1, <1>2, <2>1, <2>2 DEF Iteration
<1>12. CASE InsertConflict(w)
  BY <1>12, AbortSeq DEF InsertConflict
<1>13. CASE FlushPushes(w) \/ CommitMessages(w) \/ CommitRefused(w)
  <2>1. \/ Become(w, Fresh)
        \/ Become(w, [wk[w] EXCEPT !.pc = "offset", !.pending = Fresh.pending])
    BY Zenon, <1>13 DEF FlushPushes, CommitMessages, CommitRefused
  <2>2. wk[w].pc # "assign" /\ UNCHANGED <<row, counter, lock>>
    BY Zenon, <1>13 DEF FlushPushes, CommitMessages, CommitRefused, db
  <2>3. Fresh.pc # "assign"
    BY DEF Fresh
  <2> QED
    BY Zenon, <1>1, <1>2, <2>1, <2>2, <2>3 DEF Iteration
<1> QED
  BY <1>3, <1>4, <1>5, <1>6, <1>7, <1>8, <1>9, <1>10, <1>11, <1>12, <1>13,
     NextSeqSeq, AssignSeq, InsertSeq DEF Work

LEMMA FailureSeq ==
  ASSUME ConstantsAssumption, SeqInv, TypeOK', NEW w \in Worker, Failure(w)
  PROVE  SeqInv'
<1>1. Fresh.pc # "assign"
  BY DEF Fresh
<1>2. CASE FlushFailed(w)
  BY <1>1, <1>2, OutsideSeq DEF FlushFailed, db
<1>3. CASE Fail(w)
  BY <1>3, AbortSeq DEF Fail
<1>4. CASE Crash(w)
  BY <1>1, <1>4, RollbackSeq DEF Crash
<1>5. ASSUME NEW i, SkipUnread(w, i) PROVE SeqInv'
  <2> DEFINE r == [wk[w] EXCEPT !.todo = @ \ {i}]
  <2>1. Become(w, r) /\ wk[w].pc # "assign" /\ UNCHANGED <<row, counter, lock>>
    BY <1>5 DEF SkipUnread, IsNext, Queues, db
  <2>2. wk[w] \in Iteration
    BY DEF SeqInv, TypeOK
  <2>3. r.pc = wk[w].pc /\ r.asg = wk[w].asg
    BY <2>2 DEF Iteration
  <2> HIDE DEF r
  <2> QED
    BY <2>1, <2>3, OutsideSeq
<1> QED
  BY <1>2, <1>3, <1>4, <1>5 DEF Failure

LEMMA SeqInvariant == Spec => []SeqInv
<1>1. Init => SeqInv
  <2> SUFFICES ASSUME Init PROVE SeqInv
    OBVIOUS
  <2>1. TypeOK
    BY ConstantsAssumption, FreshType DEF Init, TypeOK
  <2>2. UniqueSeq
    BY DEF Init, UniqueSeq, Stored
  <2>3. NumbersAreLocked /\ NumbersAreDistinct
    BY DEF Init, Fresh, NumbersAreLocked, NumbersAreDistinct
  <2>4. LocksAreAssigning /\ PlansAreLocked
    BY ConstantsAssumption
    DEF Init, Fresh, LocksAreAssigning, PlansAreLocked, ConstantsAssumption
  <2> QED
    BY <2>1, <2>2, <2>3, <2>4 DEF SeqInv
<1>2. SeqInv /\ [Next]_vars => SeqInv'
  <2> SUFFICES ASSUME SeqInv, [Next]_vars PROVE SeqInv'
    OBVIOUS
  <2>1. TypeOK'
    BY ConstantsAssumption, NextType DEF SeqInv
  <2>2. CASE UNCHANGED vars
    BY <2>1, <2>2, ConstantsAssumption, SameSeq DEF vars, db
  <2>3. CASE Next
    BY <2>1, <2>3, ConstantsAssumption, EnvironmentSeq, WorkSeq, FailureSeq DEF Next
  <2> QED
    BY <2>2, <2>3
<1> QED
  BY <1>1, <1>2, PTL DEF Spec

(***************************************************************************)
(* However many workers and gateways number messages at once, and whatever *)
(* fails, no two messages of a conversation share a seq and none is above  *)
(* its counter: the lock that NextSeq takes on the counter's row is        *)
(* enough, and (conv_id, seq) never rejects a transaction.                 *)
(***************************************************************************)
THEOREM SeqsAreUnique == Spec => []UniqueSeq
<1>1. SeqInv => UniqueSeq
  BY DEF SeqInv
<1> QED
  BY <1>1, SeqInvariant, PTL
================================================================================
