----------------------------- MODULE AckProofs -----------------------------
(***************************************************************************)
(* Acks reach their sender once, and a committed ack was handled: for any  *)
(* senders, servers and partitions, any batches, connections that come and *)
(* go, failing calls and lookups, crashes and rebalances.                  *)
(***************************************************************************)
EXTENDS Ack, TLAPS

-----------------------------------------------------------------------------
(***************************************************************************)
(* What an iteration still has to do with each ack, and where it is.       *)
(***************************************************************************)
Answered(i) == {a \in AckId : i.res[a] \in {"delivered", "send_full"}}

Held(i) ==
  (i.todo \cup (UNION {i.remote[c] : c \in Cs}) \cup (UNION {i.retry[c] : c \in Cs})) \ Answered(i)

\* A batch is what its member fetched up to pos; what it holds is of it, and in no channel.
BatchOK(i, s) ==
  /\ \A p \in Part : i.hi[p] > 0 => owner[p] = s /\ i.hi[p] = pos[p]
  /\ \A a \in Held(i) : i.hi[a[1]] > 0 /\ a[2] <= pos[a[1]] /\ a \notin ToSet(put[From(a)])

\* While no server dies: all run, every partition has a member.
Undisturbed == up = Cs /\ owner \in [Part -> Cs]

PutOK ==
  \A u \in Uid : IsInjective(put[u]) /\ \A a \in ToSet(put[u]) : a[2] <= pos[a[1]]

OnceInv ==
  faults.crash = 0 =>
    /\ Undisturbed /\ PutOK
    /\ \A s \in Cs : BatchOK(it[s], s)

(***************************************************************************)
(* What is known of an ack where it is: that it was offered to the server  *)
(* of its sender's record, or how often the record has changed since.      *)
(***************************************************************************)
Handled(a) == a \in dropped \cup ToSet(put[From(a)]) \cup missed

NotThere(a) == Handled(a) \/ changes[From(a)] > 0

LookedUp(a, c) ==
  Handled(a) \/ changes[From(a)] > 1 \/ (changes[From(a)] > 0 /\ online[From(a)] = c)

ListsOK(i, s) ==
  /\ \A c \in Cs : \A a \in i.remote[c] : online[From(a)] = c \/ changes[From(a)] > 0
  /\ i.pc = "call" => \A a \in NotFound(i) : NotThere(a)
  /\ i.pc = "again" => \A a \in i.todo : NotThere(a)
  /\ \A c \in Cs : \A a \in i.retry[c] : LookedUp(a, c)
  /\ i.pc = "retry" => \A a \in i.todo : LookedUp(a, s)

\* What CommittedIsHandled says of an ack.
Accounted(a) == Settled(From(a)) => Handled(a)

\* A batch and all before it is accounted for, or the iteration still holds it.
HoldsRest(i) == \A p \in Part : \A k \in 1..i.hi[p] : Accounted(<<p, k>>) \/ <<p, k>> \in Held(i)

\* So is what was fetched of a partition, unless its member has stopped.
FetchedOK ==
  \A p \in Part : \A k \in 1..pos[p] :
    \/ Accounted(<<p, k>>)
    \/ /\ owner[p] \in Cs
       /\ <<p, k>> \in Held(it[owner[p]]) \/ it[owner[p]].pc = "ended"

HandledInv ==
  /\ \A s \in Cs : ListsOK(it[s], s) /\ HoldsRest(it[s])
  /\ FetchedOK
  /\ \A p \in Part : \A k \in 1..committed[p] : Accounted(<<p, k>>)

-----------------------------------------------------------------------------
(***************************************************************************)
(* The acks, iterations and what a channel takes.                          *)
(***************************************************************************)
LEMMA AckIdType ==
  ASSUME AckAssumption, NEW a \in AckId
  PROVE  /\ a[1] \in Part /\ a[2] \in 1..Len(Log[a[1]]) /\ a = <<a[1], a[2]>>
         /\ Len(Log[a[1]]) \in Nat /\ a[2] \in Nat \ {0} /\ From(a) \in Uid
<1>1. PICK p \in Part : a \in {p} \X (1..Len(Log[p]))
  BY DEF AckId
<1>2. Log[p] \in Seq(Uid)
  BY DEF AckAssumption
<1>3. a[1] = p /\ a[2] \in 1..Len(Log[p]) /\ a = <<a[1], a[2]>> /\ Len(Log[p]) \in Nat
  BY <1>1, <1>2
<1> QED
  BY <1>2, <1>3 DEF From

LEMMA AckIdHas ==
  ASSUME NEW p \in Part, NEW i \in 1..Len(Log[p])
  PROVE  <<p, i>> \in AckId
BY DEF AckId

LEMMA IdleOK ==
  ASSUME AckAssumption, NEW s \in Cs
  PROVE  /\ Idle \in Iteration /\ IterationOK(Idle, s) /\ Held(Idle) = {}
         /\ Ended \in Iteration /\ IterationOK(Ended, s) /\ Held(Ended) = {}
         /\ Ended.pc = "ended" /\ Idle.pc = "fetch" /\ Ended.hi = Idle.hi
         /\ \A p \in Part : Idle.hi[p] = 0
<1>1. \A p \in Part : Len(Log[p]) \in Nat
  BY DEF AckAssumption
<1>2. Idle \in Iteration /\ Idle.pc = "fetch" /\ \A p \in Part : Idle.hi[p] = 0
  BY DEF Idle, Iteration, Answers
<1>3. Ended = [Idle EXCEPT !.pc = "ended"] /\ Ended \in Iteration /\ Ended.pc = "ended"
  BY <1>2 DEF Ended, Iteration
<1>4. /\ Ended.hi = Idle.hi /\ Ended.todo = Idle.todo /\ Ended.remote = Idle.remote
      /\ Ended.to = Idle.to /\ Ended.res = Idle.res /\ Ended.retry = Idle.retry
  BY <1>2, <1>3 DEF Iteration
<1>5. /\ Idle.todo = {} /\ Idle.to = NoCs
      /\ \A c \in Cs : Idle.remote[c] = {} /\ Idle.retry[c] = {}
  BY DEF Idle
<1>6. IterationOK(Idle, s)
  BY <1>1, <1>2, <1>5 DEF IterationOK, Offsets
<1>7. IterationOK(Ended, s)
  BY <1>1, <1>2, <1>3, <1>4, <1>5 DEF IterationOK, Offsets
<1>8. Held(Idle) = {} /\ Held(Ended) = {}
  BY <1>4, <1>5 DEF Held
<1> QED
  BY <1>2, <1>3, <1>4, <1>6, <1>7, <1>8

LEMMA ItType ==
  ASSUME TypeOK, NEW s \in Cs
  PROVE  it[s] \in Iteration /\ IterationOK(it[s], s)
BY DEF TypeOK

\* Nothing but the iteration of s changes in it.
Only(s) == \A t \in Cs \ {s} : it'[t] = it[t]

ItsOK == it \in [Cs -> Iteration] /\ \A s \in Cs : IterationOK(it[s], s)

LEMMA OnlyOf ==
  ASSUME TypeOK, NEW s \in Cs, NEW j \in Iteration, IterationOK(j, s),
         it' = [it EXCEPT ![s] = j]
  PROVE  ItsOK' /\ it'[s] = j /\ Only(s)
<1>1. it \in [Cs -> Iteration] /\ \A t \in Cs : IterationOK(it[t], t)
  BY DEF TypeOK
<1>2. /\ it' \in [Cs -> Iteration] /\ it'[s] = j
      /\ \A t \in Cs \ {s} : it'[t] = it[t]
  BY <1>1
<1>3. \A t \in Cs : IterationOK(it'[t], t)
  BY <1>1, <1>2
<1>4. \A t \in Cs : IterationOK(it[t], t)' <=> IterationOK(it'[t], t)
  BY DEF IterationOK, Offsets, Idle
<1> QED
  BY <1>2, <1>3, <1>4 DEF ItsOK, Only

\* An ack offered to a channel enters it, at the end, or leaves all channels alone.
Offered(a) ==
  /\ dropped \subseteq dropped' /\ dropped' \subseteq dropped \cup {a}
  /\ put' = put \/ put' = [put EXCEPT ![From(a)] = Append(@, a)]

ChannelsOK ==
  /\ room \in [Uid -> 0..SendMax] /\ dropped \subseteq AckId /\ put \in [Uid -> Seq(AckId)]
  /\ \A u \in Uid : \A a \in ToSet(put[u]) : From(a) = u

LEMMA ToSetAppend ==
  ASSUME NEW S, NEW q \in Seq(S), NEW x \in S
  PROVE  ToSet(Append(q, x)) = ToSet(q) \cup {x}
<1>1. /\ DOMAIN Append(q, x) = 1..Len(q) + 1 /\ Append(q, x)[Len(q) + 1] = x
      /\ DOMAIN q = 1..Len(q) /\ Len(q) \in Nat
      /\ \A i \in 1..Len(q) : Append(q, x)[i] = q[i]
  OBVIOUS
<1>2. ToSet(Append(q, x)) \subseteq ToSet(q) \cup {x}
  BY <1>1 DEF ToSet
<1>3. ToSet(q) \cup {x} \subseteq ToSet(Append(q, x))
  BY <1>1 DEF ToSet
<1> QED
  BY <1>2, <1>3

LEMMA InjectiveAppend ==
  ASSUME NEW S, NEW q \in Seq(S), NEW x \in S, IsInjective(q), x \notin ToSet(q)
  PROVE  IsInjective(Append(q, x))
<1>1. /\ DOMAIN Append(q, x) = 1..Len(q) + 1 /\ Append(q, x)[Len(q) + 1] = x
      /\ DOMAIN q = 1..Len(q) /\ Len(q) \in Nat
      /\ \A i \in 1..Len(q) : Append(q, x)[i] = q[i]
  OBVIOUS
<1>2. \A i \in 1..Len(q) : q[i] # x
  BY <1>1 DEF ToSet
<1> QED
  BY <1>1, <1>2 DEF IsInjective

LEMMA EnqueueDoes ==
  ASSUME AckAssumption, TypeOK, NEW a \in AckId, NEW c \in Cs, Enqueue(a, c)
  PROVE  /\ ChannelsOK' /\ Offered(a)
         /\ Answer(a, c) \in {"delivered", "not_found", "send_full"}
         /\ Answer(a, c) # "not_found" => Handled(a)'
         /\ Answer(a, c) = "not_found" => put' = put
         /\ Misses(a, c) => Handled(a)' \/ online[From(a)] # c
<1>1. From(a) \in Uid /\ SendMax \in Nat \ {0}
  BY AckIdType DEF AckAssumption
<1>2. /\ room \in [Uid -> 0..SendMax] /\ dropped \subseteq AckId /\ put \in [Uid -> Seq(AckId)]
      /\ \A u \in Uid : \A x \in ToSet(put[u]) : From(x) = u
  BY DEF TypeOK
<1>3. Answer(a, c) \in {"delivered", "not_found", "send_full"}
  BY DEF Answer
<1>a. /\ Misses(a, c) /\ Answer(a, c) = "not_found" => Handled(a)' \/ online[From(a)] # c
  BY DEF Misses, Handled
<1>4. CASE Answer(a, c) = "delivered"
  <2>1. /\ \/ room' = room
           \/ room' = [room EXCEPT ![From(a)] = @ + 1] /\ room[From(a)] # SendMax
        /\ put' = [put EXCEPT ![From(a)] = Append(@, a)] /\ dropped' = dropped
    BY <1>4 DEF Enqueue, Answer
  <2>2. room' \in [Uid -> 0..SendMax]
    <3>1. CASE room' = room
      BY <1>2, <3>1
    <3>2. CASE room' = [room EXCEPT ![From(a)] = @ + 1] /\ room[From(a)] # SendMax
      <4>1. room[From(a)] + 1 \in 0..SendMax
        BY <1>1, <1>2, <3>2
      <4> QED
        BY <1>1, <1>2, <3>2, <4>1
    <3> QED
      BY <2>1, <3>1, <3>2
  <2>3. put' \in [Uid -> Seq(AckId)] /\ put'[From(a)] = Append(put[From(a)], a)
    BY <1>1, <1>2, <2>1
  <2>4. ToSet(put'[From(a)]) = ToSet(put[From(a)]) \cup {a}
    BY <1>1, <1>2, <2>3, ToSetAppend
  <2>5. ASSUME NEW u \in Uid, NEW x \in ToSet(put'[u]) PROVE From(x) = u
    <3>1. CASE u = From(a)
      BY <1>2, <2>4, <2>5, <3>1
    <3>2. CASE u # From(a)
      BY SMTT(60), <1>1, <1>2, <2>1, <2>5, <3>2
    <3> QED
      BY <3>1, <3>2
  <2>6. ChannelsOK'
    BY Zenon, <1>2, <2>1, <2>2, <2>3, <2>5 DEF ChannelsOK, From
  <2>7. a \in ToSet(put'[From(a)])
    BY <2>4
  <2> QED
    BY <1>3, <1>a, <1>4, <2>1, <2>6, <2>7 DEF Offered, Handled, From
<1>5. CASE Answer(a, c) # "delivered"
  <2>1. /\ room' = room /\ put' = put
        /\ dropped' = IF Answer(a, c) = "send_full" THEN dropped \cup {a} ELSE dropped
    BY <1>5 DEF Enqueue
  <2>2. ChannelsOK'
    BY <1>2, <2>1 DEF ChannelsOK, From
  <2> QED
    BY <1>3, <1>a, <1>5, <2>1, <2>2 DEF Offered, Handled, From
<1> QED
  BY <1>4, <1>5

\* The same of the loop over local senders, who are dropped when they have left.
LEMMA LocalEnqueues ==
  ASSUME AckAssumption, TypeOK, NEW a \in AckId, NEW s \in Cs,
         IF Answer(a, s) = "not_found"
         THEN dropped' = dropped \cup {a} /\ UNCHANGED <<room, put>>
         ELSE Enqueue(a, s)
  PROVE  ChannelsOK' /\ Offered(a) /\ Handled(a)'
<1>1. CASE Answer(a, s) = "not_found"
  <2>1. dropped' = dropped \cup {a} /\ room' = room /\ put' = put
    BY <1>1
  <2>2. ChannelsOK'
    BY <2>1 DEF ChannelsOK, TypeOK, From
  <2> QED
    BY <2>1, <2>2 DEF Offered, Handled
<1>2. CASE Answer(a, s) # "not_found"
  BY <1>2, EnqueueDoes
<1> QED
  BY <1>1, <1>2

\* What is offered to the channels stays in them, and is new in one.
LEMMA OfferedOnce ==
  ASSUME TypeOK, NEW a \in AckId, From(a) \in Uid, Offered(a), NEW u \in Uid
  PROVE  /\ ToSet(put[u]) \subseteq ToSet(put'[u])
         /\ ToSet(put'[u]) \subseteq ToSet(put[u]) \cup {a}
         /\ IsInjective(put[u]) /\ a \notin ToSet(put[From(a)]) => IsInjective(put'[u])
<1>1. put \in [Uid -> Seq(AckId)]
  BY DEF TypeOK
<1>2. CASE put' = put
  BY <1>2
<1>3. CASE put' = [put EXCEPT ![From(a)] = Append(@, a)]
  <2>1. CASE u = From(a)
    <3>1. put'[u] = Append(put[u], a) /\ put[u] \in Seq(AckId)
      BY <1>1, <1>3, <2>1
    <3> QED
      BY <2>1, <3>1, ToSetAppend, InjectiveAppend
  <2>2. CASE u # From(a)
    BY <1>1, <1>3, <2>2
  <2> QED
    BY <2>1, <2>2
<1> QED
  BY <1>2, <1>3 DEF Offered

-----------------------------------------------------------------------------
(***************************************************************************)
(* What each step of a consumer does to its iteration: the other servers'  *)
(* stay, and it has the shape of its place.                                *)
(***************************************************************************)
LEMMA FetchDoes ==
  ASSUME AckAssumption, TypeOK, NEW s \in Cs, Fetch(s)
  PROVE  /\ ItsOK' /\ Only(s) /\ it[s].pc = "fetch" /\ it'[s].pc = "lookup"
         /\ pos' \in [Part -> Nat] /\ \A p \in Part : pos'[p] \in Offsets(p) /\ pos[p] <= pos'[p]
         /\ \A p \in Part : it'[s].hi[p] > 0 => owner[p] = s /\ it'[s].hi[p] = pos'[p]
         /\ \A p \in Part : it'[s].hi[p] = 0 => pos'[p] = pos[p]
         /\ Held(it'[s]) = it'[s].todo
         /\ \A c \in Cs : it'[s].remote[c] = {} /\ it'[s].retry[c] = {}
         /\ it'[s].todo = {a \in AckId : a[2] \in (pos[a[1]] + 1)..pos'[a[1]]}
<1>1. PICK n \in [Part -> 0..BatchMax] :
        LET h == [p \in Part |-> IF n[p] = 0 THEN 0 ELSE pos[p] + n[p]] IN
        /\ \A p \in Part : n[p] > 0 => owner[p] = s /\ h[p] <= Len(Log[p])
        /\ it' = [it EXCEPT ![s] = [Idle EXCEPT !.pc = "lookup", !.hi = h, !.todo = Batch(h)]]
        /\ pos' = [p \in Part |-> pos[p] + n[p]]
  BY Zenon DEF Fetch
<1> DEFINE hi == [p \in Part |-> IF n[p] = 0 THEN 0 ELSE pos[p] + n[p]]
           j == [Idle EXCEPT !.pc = "lookup", !.hi = hi, !.todo = Batch(hi)]
<1>2. \A p \in Part : pos[p] \in Nat /\ Len(Log[p]) \in Nat /\ pos[p] <= Len(Log[p]) /\ n[p] \in Nat
  BY SMTT(30) DEF TypeOK, Offsets, AckAssumption
<1>a. \A p \in Part : hi[p] = IF n[p] = 0 THEN 0 ELSE pos[p] + n[p]
  OBVIOUS
<1>b. \A p \in Part : n[p] > 0 => owner[p] = s /\ hi[p] <= Len(Log[p])
  BY <1>1
<1>4. hi \in [Part -> Nat]
  BY <1>2
<1>c. it' = [it EXCEPT ![s] = j] /\ \A p \in Part : pos'[p] = pos[p] + n[p]
  BY <1>1
<1> HIDE DEF hi
<1>3. \A p \in Part : hi[p] \in Nat /\ hi[p] <= Len(Log[p])
  BY <1>2, <1>4, <1>a, <1>b
<1>5. Batch(hi) \subseteq AckId
  BY DEF Batch
<1>6. /\ Idle \in Iteration /\ IterationOK(Idle, s)
      /\ Idle.to = NoCs /\ \A c \in Cs : Idle.remote[c] = {} /\ Idle.retry[c] = {}
  BY Zenon, IdleOK DEF Idle
<1>7. /\ j \in Iteration /\ j.pc = "lookup" /\ j.hi = hi /\ j.todo = Batch(hi)
      /\ j.remote = Idle.remote /\ j.to = Idle.to /\ j.res = Idle.res /\ j.retry = Idle.retry
  BY Zenon, <1>4, <1>5, <1>6 DEF Iteration
<1>d. it' = [it EXCEPT ![s] = j]
  BY <1>c
<1> HIDE DEF j
<1>8. IterationOK(j, s)
  BY <1>2, <1>3, <1>6, <1>7 DEF IterationOK, Offsets
<1>9. ItsOK' /\ it'[s] = j /\ Only(s)
  BY Zenon, <1>d, <1>7, <1>8, OnlyOf
<1>10. pos' \in [Part -> Nat] /\ \A p \in Part : pos'[p] \in Offsets(p) /\ pos[p] <= pos'[p]
  <2>1. \A p \in Part : /\ pos'[p] \in Nat /\ pos[p] <= pos'[p]
                        /\ pos'[p] <= Len(Log[p])
    BY SMTT(30), <1>2, <1>3, <1>a, <1>c
  <2> QED
    BY <1>1, <1>2, <2>1 DEF Offsets
<1>11. \A a \in AckId : j.res[a] = "none"
  BY <1>7 DEF Idle
<1>12. Held(j) = j.todo
  BY <1>5, <1>6, <1>7, <1>11 DEF Held, Answered
<1>13. j.todo = {a \in AckId : a[2] \in (pos[a[1]] + 1)..pos'[a[1]]}
  <2>1. ASSUME NEW a \in AckId
        PROVE  a[2] \in (pos[a[1]] + 1)..hi[a[1]] <=> a[2] \in (pos[a[1]] + 1)..pos'[a[1]]
    <3>1. PICK p \in Part : p = a[1]
      BY AckIdType
    <3>2. hi[p] = pos'[p] \/ (hi[p] = 0 /\ pos'[p] = pos[p])
      BY <1>2, <1>a, <1>c
    <3>3. \A k \in Nat : (k + 1)..0 = {} /\ (k + 1)..k = {}
      OBVIOUS
    <3> QED
      BY Zenon, <1>2, <3>1, <3>2, <3>3
  <2> QED
    BY <1>7, <2>1 DEF Batch
<1>14. it[s].pc = "fetch"
  BY DEF Fetch
<1>15. ASSUME NEW p \in Part
       PROVE  /\ hi[p] > 0 => owner[p] = s /\ hi[p] = pos'[p]
              /\ hi[p] = 0 => pos'[p] = pos[p]
  <2>1. CASE n[p] = 0
    BY <1>2, <1>a, <1>c, <2>1
  <2>2. CASE n[p] # 0
    BY <1>2, <1>a, <1>b, <1>c, <2>2
  <2> QED
    BY <2>1, <2>2
<1> QED
  BY SMTT(60), <1>6, <1>7, <1>9, <1>10, <1>12, <1>13, <1>14, <1>15

LEMMA LookupDoes ==
  ASSUME AckAssumption, TypeOK, NEW s \in Cs, Lookup(s)
  PROVE  /\ ItsOK' /\ Only(s) /\ it[s].pc = "lookup" /\ it'[s].pc = "local"
         /\ it'[s].hi = it[s].hi /\ it'[s].res = it[s].res /\ it'[s].to = it[s].to
         /\ it'[s].retry = it[s].retry
         /\ it'[s].todo = For(it[s].todo, s)
         /\ \A c \in Cs : it'[s].remote[c] = IF c = s THEN {} ELSE For(it[s].todo, c)
<1> DEFINE r == [c \in Cs |-> IF c = s THEN {} ELSE For(it[s].todo, c)]
           j == [it[s] EXCEPT !.pc = "local", !.todo = For(@, s), !.remote = r]
<1>1. it[s] \in Iteration /\ IterationOK(it[s], s) /\ it[s].pc = "lookup"
  BY ItType DEF Lookup
<1>2. \A c : For(it[s].todo, c) \subseteq AckId
  BY <1>1 DEF For, Iteration
<1>3. r \in [Cs -> SUBSET AckId]
  BY <1>2
<1>a. \A c \in Cs : r[c] = IF c = s THEN {} ELSE For(it[s].todo, c)
  OBVIOUS
<1> HIDE DEF r
<1>4. /\ j \in Iteration /\ j.pc = "local" /\ j.hi = it[s].hi /\ j.todo = For(it[s].todo, s)
      /\ j.remote = r /\ j.to = it[s].to /\ j.res = it[s].res /\ j.retry = it[s].retry
  BY Zenon, <1>1, <1>2, <1>3 DEF Iteration
<1> HIDE DEF j
<1>5. /\ \A c \in Cs : it[s].retry[c] = {} /\ it[s].to = NoCs /\ it[s].res = Idle.res
      /\ it[s].retry = Idle.retry
  BY <1>1 DEF IterationOK, Idle
<1>6. \A c, d \in Cs : c # d => r[c] \cap r[d] = {} /\ For(it[s].todo, s) \cap r[c] = {}
  BY Zenon, <1>a DEF For
<1>7. \A c \in Cs : For(it[s].todo, s) \cap r[c] = {}
  BY Zenon, <1>a DEF For
<1>8. IterationOK(j, s)
  BY <1>1, <1>4, <1>5, <1>6, <1>7, <1>a DEF IterationOK
<1>9. it' = [it EXCEPT ![s] = j]
  BY Zenon DEF Lookup, j, r
<1>10. ItsOK' /\ it'[s] = j /\ Only(s)
  BY Zenon, <1>4, <1>8, <1>9, OnlyOf
<1> QED
  BY <1>1, <1>4, <1>10, <1>a

LEMMA StopDoes ==
  ASSUME AckAssumption, TypeOK, NEW s \in Cs, NEW j \in {Idle, Ended}, it' = [it EXCEPT ![s] = j]
  PROVE  /\ ItsOK' /\ Only(s) /\ it'[s] = j /\ Held(it'[s]) = {}
         /\ it'[s].pc \in {"fetch", "ended"} /\ \A p \in Part : it'[s].hi[p] = 0
<1>1. /\ j \in Iteration /\ IterationOK(j, s) /\ Held(j) = {}
      /\ j.pc \in {"fetch", "ended"} /\ \A p \in Part : j.hi[p] = 0
  BY IdleOK
<1> QED
  BY Zenon, <1>1, OnlyOf

TakesLocal(s, a) ==
  /\ ItsOK' /\ Only(s) /\ it[s].pc \in {"local", "retry"}
  /\ it'[s].pc = it[s].pc /\ it'[s].hi = it[s].hi /\ it'[s].remote = it[s].remote
  /\ it'[s].res = it[s].res /\ it'[s].to = it[s].to /\ it'[s].retry = it[s].retry
  /\ it'[s].todo = it[s].todo \ {a}
  /\ ChannelsOK' /\ Offered(a) /\ a \in AckId
  /\ Handled(a)' \/ (it[s].pc = "retry" /\ online[From(a)] # s)

LEMMA LocalDoes ==
  ASSUME AckAssumption, TypeOK, NEW s \in Cs, Local(s) \/ RetryLocal(s)
  PROVE  \E a \in it[s].todo : TakesLocal(s, a)
<1>1. it[s] \in Iteration /\ IterationOK(it[s], s) /\ it[s].pc \in {"local", "retry"}
  BY ItType DEF Local, RetryLocal
<1>2. PICK a \in it[s].todo :
        /\ it' = [it EXCEPT ![s].todo = @ \ {a}]
        /\ ChannelsOK' /\ Offered(a)
        /\ Handled(a)' \/ (it[s].pc = "retry" /\ online[From(a)] # s)
  <2>1. CASE Local(s)
    <3>1. PICK a \in Earliest(it[s].todo) :
            /\ IF Answer(a, s) = "not_found"
               THEN dropped' = dropped \cup {a} /\ UNCHANGED <<room, put>>
               ELSE Enqueue(a, s)
            /\ it' = [it EXCEPT ![s].todo = @ \ {a}]
      BY Zenon, <2>1 DEF Local
    <3>2. a \in it[s].todo /\ a \in AckId
      BY <1>1 DEF Earliest, Iteration
    <3>3. ChannelsOK' /\ Offered(a) /\ Handled(a)'
      BY <3>1, <3>2, LocalEnqueues
    <3> QED
      BY Zenon, <3>1, <3>2, <3>3
  <2>2. CASE RetryLocal(s)
    <3>1. PICK a \in Earliest(it[s].todo) :
            Enqueue(a, s) /\ Misses(a, s) /\ it' = [it EXCEPT ![s].todo = @ \ {a}]
      BY Zenon, <2>2 DEF RetryLocal
    <3>2. a \in it[s].todo /\ a \in AckId /\ it[s].pc = "retry"
      BY <1>1, <2>2 DEF Earliest, Iteration, RetryLocal
    <3>3. ChannelsOK' /\ Offered(a) /\ (Handled(a)' \/ online[From(a)] # s)
      BY <3>1, <3>2, EnqueueDoes
    <3> QED
      BY Zenon, <3>1, <3>2, <3>3
  <2> QED
    BY <2>1, <2>2
<1> DEFINE j == [it[s] EXCEPT !.todo = @ \ {a}]
<1>3. /\ j \in Iteration /\ j.pc = it[s].pc /\ j.hi = it[s].hi /\ j.todo = it[s].todo \ {a}
      /\ j.remote = it[s].remote /\ j.to = it[s].to /\ j.res = it[s].res /\ j.retry = it[s].retry
  BY Zenon, <1>1 DEF Iteration
<1>4. it' = [it EXCEPT ![s] = j]
  BY <1>2
<1> HIDE DEF j
<1>5. IterationOK(j, s)
  BY <1>1, <1>3 DEF IterationOK
<1>6. ItsOK' /\ it'[s] = j /\ Only(s)
  BY Zenon, <1>3, <1>4, <1>5, OnlyOf
<1>7. /\ it'[s].pc = it[s].pc /\ it'[s].hi = it[s].hi /\ it'[s].remote = it[s].remote
      /\ it'[s].res = it[s].res /\ it'[s].to = it[s].to /\ it'[s].retry = it[s].retry
  BY <1>3, <1>6
<1>8. it'[s].todo = it[s].todo \ {a} /\ a \in AckId
  BY <1>1, <1>3, <1>6 DEF Iteration
<1>9. TakesLocal(s, a)
  BY <1>1, <1>2, <1>6, <1>7, <1>8 DEF TakesLocal
<1> QED
  BY <1>9

LEMMA LocalDoneDoes ==
  ASSUME AckAssumption, TypeOK, NEW s \in Cs, LocalDone(s)
  PROVE  /\ ItsOK' /\ Only(s) /\ it[s].pc = "local" /\ it'[s].pc = "remote"
         /\ it'[s].hi = it[s].hi /\ it'[s].todo = it[s].todo /\ it'[s].remote = it[s].remote
         /\ it'[s].res = it[s].res /\ it'[s].to = it[s].to /\ it'[s].retry = it[s].retry
<1>1. it[s] \in Iteration /\ IterationOK(it[s], s) /\ it[s].pc = "local" /\ it[s].todo = {}
  BY ItType DEF LocalDone
<1> DEFINE j == [it[s] EXCEPT !.pc = "remote"]
<1>3. /\ j \in Iteration /\ j.pc = "remote" /\ j.hi = it[s].hi /\ j.todo = it[s].todo
      /\ j.remote = it[s].remote /\ j.to = it[s].to /\ j.res = it[s].res /\ j.retry = it[s].retry
  BY Zenon, <1>1 DEF Iteration
<1>4. it' = [it EXCEPT ![s] = j]
  BY DEF LocalDone
<1> HIDE DEF j
<1>5. IterationOK(j, s)
  BY <1>1, <1>3 DEF IterationOK
<1>6. ItsOK' /\ it'[s] = j /\ Only(s)
  BY Zenon, <1>3, <1>4, <1>5, OnlyOf
<1> QED
  BY <1>1, <1>3, <1>6

LEMMA ForwardDoes ==
  ASSUME AckAssumption, TypeOK, NEW s \in Cs, Forward(s)
  PROVE  /\ ItsOK' /\ Only(s) /\ it[s].pc = "remote" /\ it'[s].pc = "call"
         /\ it'[s].hi = it[s].hi /\ it'[s].todo = it[s].todo /\ it'[s].remote = it[s].remote
         /\ it'[s].res = it[s].res /\ it'[s].retry = it[s].retry
         /\ \A a \in AckId : it'[s].res[a] = "none"
<1>1. it[s] \in Iteration /\ IterationOK(it[s], s) /\ it[s].pc = "remote"
  BY ItType DEF Forward
<1>2. PICK c \in Cs : it[s].remote[c] # {} /\ it' = [it EXCEPT ![s].pc = "call", ![s].to = c]
  BY Zenon DEF Forward
<1> DEFINE j == [it[s] EXCEPT !.pc = "call", !.to = c]
<1>3. /\ j \in Iteration /\ j.pc = "call" /\ j.hi = it[s].hi /\ j.todo = it[s].todo
      /\ j.remote = it[s].remote /\ j.to = c /\ j.res = it[s].res /\ j.retry = it[s].retry
  BY Zenon, <1>1 DEF Iteration
<1>4. it' = [it EXCEPT ![s] = j]
  BY Zenon, <1>2
<1> HIDE DEF j
<1>5. it[s].res = Idle.res /\ \A a \in AckId : Idle.res[a] = "none"
  BY <1>1 DEF IterationOK, Idle
<1>6. c # s
  BY <1>1, <1>2 DEF IterationOK
<1>7. IterationOK(j, s)
  BY <1>1, <1>3, <1>5, <1>6 DEF IterationOK
<1>8. ItsOK' /\ it'[s] = j /\ Only(s)
  BY Zenon, <1>3, <1>4, <1>7, OnlyOf
<1> QED
  BY <1>1, <1>3, <1>5, <1>8

TakesRelayed(s, a) ==
  /\ ItsOK' /\ Only(s) /\ it[s].pc = "call" /\ it[s].to \in Cs \ {s} /\ a \in AckId
  /\ it'[s].pc = it[s].pc /\ it'[s].hi = it[s].hi /\ it'[s].todo = it[s].todo
  /\ it'[s].remote = it[s].remote /\ it'[s].to = it[s].to /\ it'[s].retry = it[s].retry
  /\ it[s].res[a] = "none" /\ it'[s].res = [it[s].res EXCEPT ![a] = Answer(a, it[s].to)]
  /\ ChannelsOK' /\ Offered(a)
  /\ Answer(a, it[s].to) \in {"delivered", "not_found", "send_full"}
  /\ Answer(a, it[s].to) # "not_found" => Handled(a)'
  /\ Answer(a, it[s].to) = "not_found" => put' = put
  /\ Handled(a)' \/ online[From(a)] # it[s].to

LEMMA RelayAckDoes ==
  ASSUME AckAssumption, TypeOK, NEW s \in Cs, RelayAck(s)
  PROVE  \E a \in it[s].remote[it[s].to] : TakesRelayed(s, a)
<1>1. it[s] \in Iteration /\ IterationOK(it[s], s) /\ it[s].pc = "call"
  BY ItType DEF RelayAck
<1>2. PICK a \in Earliest({b \in it[s].remote[it[s].to] : it[s].res[b] = "none"}) :
        /\ Enqueue(a, it[s].to) /\ Misses(a, it[s].to)
        /\ it' = [it EXCEPT ![s].res[a] = Answer(a, it[s].to)]
  BY Zenon DEF RelayAck
<1>3. /\ it[s].to \in Cs \ {s} /\ a \in it[s].remote[it[s].to] /\ it[s].res[a] = "none"
      /\ a \in AckId
  BY <1>1, <1>2 DEF Earliest, IterationOK, Iteration
<1>4. /\ ChannelsOK' /\ Offered(a)
      /\ Answer(a, it[s].to) \in {"delivered", "not_found", "send_full"}
      /\ Answer(a, it[s].to) # "not_found" => Handled(a)'
      /\ Answer(a, it[s].to) = "not_found" => put' = put
      /\ Handled(a)' \/ online[From(a)] # it[s].to
  BY <1>2, <1>3, EnqueueDoes
<1> DEFINE r == [it[s].res EXCEPT ![a] = Answer(a, it[s].to)]
           j == [it[s] EXCEPT !.res = r]
<1>5. r \in [AckId -> Answers] /\ \A b \in AckId \ {a} : r[b] = it[s].res[b]
  BY <1>1, <1>3, <1>4 DEF Iteration, Answers
<1>6. it' = [it EXCEPT ![s] = j]
  BY <1>2
<1>7. r = [it[s].res EXCEPT ![a] = Answer(a, it[s].to)]
  OBVIOUS
<1> HIDE DEF r
<1>8. /\ j \in Iteration /\ j.pc = "call" /\ j.hi = it[s].hi /\ j.todo = it[s].todo
      /\ j.remote = it[s].remote /\ j.to = it[s].to /\ j.res = r /\ j.retry = it[s].retry
  BY Zenon, <1>1, <1>5 DEF Iteration
<1> HIDE DEF j
<1>9. IterationOK(j, s)
  BY <1>1, <1>3, <1>5, <1>8 DEF IterationOK
<1>10. ItsOK' /\ it'[s] = j /\ Only(s)
  BY Zenon, <1>6, <1>8, <1>9, OnlyOf
<1>11. /\ it'[s].pc = it[s].pc /\ it'[s].hi = it[s].hi /\ it'[s].todo = it[s].todo
       /\ it'[s].remote = it[s].remote /\ it'[s].to = it[s].to /\ it'[s].retry = it[s].retry
  BY <1>1, <1>8, <1>10
<1>12. it'[s].res = [it[s].res EXCEPT ![a] = Answer(a, it[s].to)]
  BY <1>7, <1>8, <1>10
<1>13. TakesRelayed(s, a)
  BY <1>1, <1>3, <1>4, <1>10, <1>11, <1>12 DEF TakesRelayed
<1> QED
  BY <1>3, <1>13

LEMMA CallDoneDoes ==
  ASSUME AckAssumption, TypeOK, NEW s \in Cs, CallDone(s)
  PROVE  /\ ItsOK' /\ Only(s) /\ it[s].pc = "call" /\ it[s].to \in Cs \ {s}
         /\ \A a \in it[s].remote[it[s].to] : it[s].res[a] # "none"
         /\ it'[s].pc = IF NotFound(it[s]) = {} THEN "remote" ELSE "again"
         /\ it'[s].hi = it[s].hi /\ it'[s].retry = it[s].retry
         /\ it'[s].todo = NotFound(it[s])
         /\ it'[s].remote = [it[s].remote EXCEPT ![it[s].to] = {}]
         /\ it'[s].res = Idle.res
<1>1. it[s] \in Iteration /\ IterationOK(it[s], s) /\ it[s].pc = "call"
  BY Zenon, ItType DEF CallDone
<1>2. it[s].to \in Cs \ {s} /\ \A a \in it[s].remote[it[s].to] : it[s].res[a] # "none"
  BY Zenon, <1>1 DEF IterationOK, CallDone
<1> DEFINE nf == NotFound(it[s])
           place == IF nf = {} THEN "remote" ELSE "again"
           r == [it[s].remote EXCEPT ![it[s].to] = {}]
           j == [it[s] EXCEPT !.pc = place, !.todo = nf, !.remote = r, !.to = NoCs, !.res = Idle.res]
<1>3. nf \subseteq AckId /\ nf \subseteq it[s].remote[it[s].to] /\ (nf = {} => place = "remote")
      /\ (nf # {} => place = "again")
  BY <1>1, <1>2 DEF NotFound, Iteration
<1>4. /\ r \in [Cs -> SUBSET AckId] /\ r[it[s].to] = {}
      /\ \A c \in Cs \ {it[s].to} : r[c] = it[s].remote[c]
  BY <1>1, <1>2 DEF Iteration
<1>5. Idle \in Iteration
  BY IdleOK
<1>6. it' = [it EXCEPT ![s] = j]
  BY ZenonT(60), <1>1, <1>2 DEF CallDone, TypeOK, Iteration
<1>7. r = [it[s].remote EXCEPT ![it[s].to] = {}] /\ nf = NotFound(it[s])
  OBVIOUS
<1>a. place = IF NotFound(it[s]) = {} THEN "remote" ELSE "again"
  OBVIOUS
<1> HIDE DEF r, nf, place
<1>8. /\ j \in Iteration /\ j.pc = place /\ j.hi = it[s].hi /\ j.todo = nf
      /\ j.remote = r /\ j.to = NoCs /\ j.res = Idle.res /\ j.retry = it[s].retry
  BY Zenon, <1>1, <1>3, <1>4, <1>5 DEF Iteration
<1> HIDE DEF j
<1>9. \A c \in Cs : it[s].retry[c] = {} /\ it[s].retry = Idle.retry
  BY <1>1 DEF IterationOK, Idle
<1>10. IterationOK(j, s)
  <2>1. \A c, d \in Cs : /\ c # d => j.remote[c] \cap j.remote[d] = {}
                         /\ j.todo \cap j.remote[c] = {}
    BY <1>1, <1>2, <1>3, <1>4, <1>8 DEF IterationOK
  <2>2. j.remote[s] = {} /\ j.pc \in {"remote", "again"} /\ (j.pc # "again" => j.todo = {})
    BY <1>1, <1>2, <1>3, <1>4, <1>8 DEF IterationOK
  <2>3. \A p \in Part : j.hi[p] \in Offsets(p)
    BY <1>1, <1>8 DEF IterationOK
  <2> QED
    BY <2>1, <2>2, <2>3, <1>8, <1>9 DEF IterationOK
<1>11. ItsOK' /\ it'[s] = j /\ Only(s)
  BY Zenon, <1>6, <1>8, <1>10, OnlyOf
<1>12. /\ it'[s].hi = it[s].hi /\ it'[s].retry = it[s].retry
  BY <1>8, <1>11
<1> QED
  BY <1>1, <1>2, <1>7, <1>a, <1>8, <1>11, <1>12

LEMMA LookupAgainDoes ==
  ASSUME AckAssumption, TypeOK, NEW s \in Cs, LookupAgain(s)
  PROVE  /\ ItsOK' /\ Only(s) /\ it[s].pc = "again" /\ it'[s].pc = "retry"
         /\ it'[s].hi = it[s].hi /\ it'[s].remote = it[s].remote /\ it'[s].res = it[s].res
         /\ it'[s].to = it[s].to
         /\ it'[s].todo = For(it[s].todo, s)
         /\ \A c \in Cs : it'[s].retry[c] = IF c = s THEN {} ELSE For(it[s].todo, c)
<1> DEFINE r == [c \in Cs |-> IF c = s THEN {} ELSE For(it[s].todo, c)]
           j == [it[s] EXCEPT !.pc = "retry", !.todo = For(@, s), !.retry = r]
<1>1. it[s] \in Iteration /\ IterationOK(it[s], s) /\ it[s].pc = "again"
  BY ItType DEF LookupAgain
<1>2. \A c : For(it[s].todo, c) \subseteq AckId /\ For(it[s].todo, c) \subseteq it[s].todo
  BY <1>1 DEF For, Iteration
<1>3. r \in [Cs -> SUBSET AckId]
  BY <1>2
<1>a. \A c \in Cs : r[c] = IF c = s THEN {} ELSE For(it[s].todo, c)
  OBVIOUS
<1>9. it' = [it EXCEPT ![s] = j]
  BY Zenon DEF LookupAgain
<1> HIDE DEF r
<1>4. /\ j \in Iteration /\ j.pc = "retry" /\ j.hi = it[s].hi /\ j.todo = For(it[s].todo, s)
      /\ j.remote = it[s].remote /\ j.to = it[s].to /\ j.res = it[s].res /\ j.retry = r
  BY Zenon, <1>1, <1>2, <1>3 DEF Iteration
<1> HIDE DEF j
<1>5. it[s].to = NoCs /\ it[s].res = Idle.res
  BY <1>1 DEF IterationOK
<1>6. \A c, d \in Cs : c # d => r[c] \cap r[d] = {}
  BY Zenon, <1>a DEF For
<1>7. \A c \in Cs : For(it[s].todo, s) \cap r[c] = {}
  BY Zenon, <1>a DEF For
<1>8. IterationOK(j, s)
  <2>1. \A c, d \in Cs : it[s].remote[c] \cap r[d] = {} /\ j.todo \cap it[s].remote[c] = {}
    <3>1. \A c \in Cs : it[s].todo \cap it[s].remote[c] = {}
      BY <1>1 DEF IterationOK
    <3> QED
      BY <1>2, <1>4, <1>a, <3>1
  <2>2. /\ r[s] = {} /\ it[s].remote[s] = {}
        /\ \A c, d \in Cs : c # d => it[s].remote[c] \cap it[s].remote[d] = {}
        /\ \A p \in Part : it[s].hi[p] \in Offsets(p)
    BY <1>1, <1>a DEF IterationOK
  <2> QED
    BY <2>1, <2>2, <1>4, <1>5, <1>6, <1>7 DEF IterationOK
<1>10. ItsOK' /\ it'[s] = j /\ Only(s)
  BY Zenon, <1>4, <1>8, <1>9, OnlyOf
<1>11. /\ it'[s].hi = it[s].hi /\ it'[s].remote = it[s].remote /\ it'[s].res = it[s].res
       /\ it'[s].to = it[s].to
  BY <1>4, <1>10
<1> QED
  BY <1>1, <1>4, <1>10, <1>11, <1>a

\* The list for server c is cleared, or loses one ack.
LEMMA RetryOf ==
  ASSUME AckAssumption, TypeOK, NEW s \in Cs, it[s].pc = "retry",
         NEW c \in Cs, NEW S \in SUBSET it[s].retry[c],
         it' = [it EXCEPT ![s].retry[c] = S]
  PROVE  /\ ItsOK' /\ Only(s)
         /\ it'[s].pc = it[s].pc /\ it'[s].hi = it[s].hi /\ it'[s].todo = it[s].todo
         /\ it'[s].remote = it[s].remote /\ it'[s].res = it[s].res /\ it'[s].to = it[s].to
         /\ \A d \in Cs : it'[s].retry[d] = IF d = c THEN S ELSE it[s].retry[d]
<1> DEFINE r == [it[s].retry EXCEPT ![c] = S]
           j == [it[s] EXCEPT !.retry = r]
<1>1. it[s] \in Iteration /\ IterationOK(it[s], s)
  BY ItType
<1>2. r \in [Cs -> SUBSET AckId] /\ \A d \in Cs : r[d] = IF d = c THEN S ELSE it[s].retry[d]
  BY <1>1 DEF Iteration
<1>3. it' = [it EXCEPT ![s] = j]
  OBVIOUS
<1> HIDE DEF r
<1>4. /\ j \in Iteration /\ j.pc = it[s].pc /\ j.hi = it[s].hi /\ j.todo = it[s].todo
      /\ j.remote = it[s].remote /\ j.to = it[s].to /\ j.res = it[s].res /\ j.retry = r
  BY Zenon, <1>1, <1>2 DEF Iteration
<1> HIDE DEF j
<1>5. \A d \in Cs : r[d] \subseteq it[s].retry[d]
  BY <1>2
<1>6. IterationOK(j, s)
  BY <1>1, <1>4, <1>5 DEF IterationOK
<1>7. ItsOK' /\ it'[s] = j /\ Only(s)
  BY Zenon, <1>3, <1>4, <1>6, OnlyOf
<1> QED
  BY Zenon, <1>2, <1>4, <1>7

TakesRetried(s, c, a) ==
  /\ ItsOK' /\ Only(s) /\ it[s].pc = "retry" /\ a \in AckId
  /\ it'[s].pc = it[s].pc /\ it'[s].hi = it[s].hi /\ it'[s].todo = it[s].todo
  /\ it'[s].remote = it[s].remote /\ it'[s].res = it[s].res /\ it'[s].to = it[s].to
  /\ \A d \in Cs : it'[s].retry[d] = IF d = c THEN it[s].retry[c] \ {a} ELSE it[s].retry[d]
  /\ ChannelsOK' /\ Offered(a)
  /\ Handled(a)' \/ online[From(a)] # c

LEMMA RetryRelayDoes ==
  ASSUME AckAssumption, TypeOK, NEW s \in Cs, RetryRelay(s)
  PROVE  \E c \in Cs : \E a \in it[s].retry[c] : TakesRetried(s, c, a)
<1>1. it[s] \in Iteration /\ it[s].pc = "retry" /\ up \subseteq Cs
  BY ItType DEF RetryRelay, TypeOK
<1>a. PICK c \in up : \E a \in Earliest(it[s].retry[c]) :
        Enqueue(a, c) /\ Misses(a, c) /\ it' = [it EXCEPT ![s].retry[c] = @ \ {a}]
  BY Zenon DEF RetryRelay
<1>2. PICK a \in Earliest(it[s].retry[c]) :
        Enqueue(a, c) /\ Misses(a, c) /\ it' = [it EXCEPT ![s].retry[c] = @ \ {a}]
  BY Zenon, <1>a
<1>3. c \in Cs /\ a \in it[s].retry[c] /\ a \in AckId
  BY <1>1, <1>2 DEF Earliest, Iteration
<1>4. ChannelsOK' /\ Offered(a) /\ (Handled(a)' \/ online[From(a)] # c)
  BY <1>2, <1>3, EnqueueDoes
<1>5. it' = [it EXCEPT ![s].retry[c] = it[s].retry[c] \ {a}]
  BY <1>1, <1>2, <1>3
<1>6. /\ ItsOK' /\ Only(s)
      /\ it'[s].pc = it[s].pc /\ it'[s].hi = it[s].hi /\ it'[s].todo = it[s].todo
      /\ it'[s].remote = it[s].remote /\ it'[s].res = it[s].res /\ it'[s].to = it[s].to
      /\ \A d \in Cs : it'[s].retry[d] = IF d = c THEN it[s].retry[c] \ {a} ELSE it[s].retry[d]
  <2>1. PICK S \in SUBSET it[s].retry[c] : S = it[s].retry[c] \ {a}
    OBVIOUS
  <2>2. it' = [it EXCEPT ![s].retry[c] = S]
    BY <1>5, <2>1
  <2>3. /\ ItsOK' /\ Only(s)
        /\ it'[s].pc = it[s].pc /\ it'[s].hi = it[s].hi /\ it'[s].todo = it[s].todo
        /\ it'[s].remote = it[s].remote /\ it'[s].res = it[s].res /\ it'[s].to = it[s].to
        /\ \A d \in Cs : it'[s].retry[d] = IF d = c THEN S ELSE it[s].retry[d]
    BY ZenonT(60), <1>1, <1>3, <2>2, RetryOf
  <2> QED
    BY Zenon, <2>1, <2>3
<1>7. TakesRetried(s, c, a)
  BY Zenon, <1>1, <1>3, <1>4, <1>6 DEF TakesRetried
<1> QED
  BY <1>3, <1>7

LEMMA RetryFailsDoes ==
  ASSUME AckAssumption, TypeOK, NEW s \in Cs, RetryFails(s)
  PROVE  /\ ItsOK' /\ Only(s) /\ it[s].pc = "retry"
         /\ it'[s].pc = it[s].pc /\ it'[s].hi = it[s].hi /\ it'[s].todo = it[s].todo
         /\ it'[s].remote = it[s].remote /\ it'[s].res = it[s].res /\ it'[s].to = it[s].to
         /\ \E c \in Cs :
              /\ \A d \in Cs : it'[s].retry[d] = IF d = c THEN {} ELSE it[s].retry[d]
              /\ \/ Hit("call", MaxCall) /\ UNCHANGED missed
                 \/ missed' = missed \cup For(it[s].retry[c], c) /\ UNCHANGED faults
<1>1. PICK c \in Cs :
        /\ \/ Hit("call", MaxCall) /\ UNCHANGED missed
           \/ missed' = missed \cup For(it[s].retry[c], c) /\ UNCHANGED faults
        /\ it' = [it EXCEPT ![s].retry[c] = {}]
  BY Zenon DEF RetryFails
<1>2. it[s].pc = "retry" /\ {} \in SUBSET it[s].retry[c]
  BY DEF RetryFails
<1>3. /\ ItsOK' /\ Only(s)
      /\ it'[s].pc = it[s].pc /\ it'[s].hi = it[s].hi /\ it'[s].todo = it[s].todo
      /\ it'[s].remote = it[s].remote /\ it'[s].res = it[s].res /\ it'[s].to = it[s].to
      /\ \A d \in Cs : it'[s].retry[d] = IF d = c THEN {} ELSE it[s].retry[d]
  BY ZenonT(60), <1>1, <1>2, RetryOf
<1> QED
  BY <1>1, <1>2, <1>3

LEMMA RetryDoneDoes ==
  ASSUME AckAssumption, TypeOK, NEW s \in Cs, RetryDone(s)
  PROVE  /\ ItsOK' /\ Only(s) /\ it[s].pc = "retry" /\ it'[s].pc = "remote"
         /\ it'[s].hi = it[s].hi /\ it'[s].todo = it[s].todo /\ it'[s].remote = it[s].remote
         /\ it'[s].res = it[s].res /\ it'[s].to = it[s].to /\ it'[s].retry = it[s].retry
<1>1. /\ it[s] \in Iteration /\ IterationOK(it[s], s) /\ it[s].pc = "retry" /\ it[s].todo = {}
      /\ \A c \in Cs : it[s].retry[c] = {}
  BY ItType DEF RetryDone
<1> DEFINE j == [it[s] EXCEPT !.pc = "remote"]
<1>3. /\ j \in Iteration /\ j.pc = "remote" /\ j.hi = it[s].hi /\ j.todo = it[s].todo
      /\ j.remote = it[s].remote /\ j.to = it[s].to /\ j.res = it[s].res /\ j.retry = it[s].retry
  BY Zenon, <1>1 DEF Iteration
<1>4. it' = [it EXCEPT ![s] = j]
  BY DEF RetryDone
<1> HIDE DEF j
<1>a. it[s].retry = Idle.retry
  <2>1. it[s].retry \in [Cs -> SUBSET AckId] /\ Idle.retry = [c \in Cs |-> {}]
    BY <1>1 DEF Idle, Iteration
  <2> QED
    BY ZenonT(60), <1>1, <2>1
<1>5. IterationOK(j, s)
  BY <1>1, <1>3, <1>a DEF IterationOK
<1>6. ItsOK' /\ it'[s] = j /\ Only(s)
  BY Zenon, <1>3, <1>4, <1>5, OnlyOf
<1> QED
  BY <1>1, <1>3, <1>6

-----------------------------------------------------------------------------
(***************************************************************************)
(* The type invariant, part by part.                                       *)
(***************************************************************************)
ServersOK ==
  /\ at \in [Uid -> up \cup {NoCs}] /\ left \in [Uid -> SUBSET up]
  /\ \A u \in Uid : at[u] \notin left[u]
  /\ op \in [Cs -> Ops \cup {NoOp}] /\ up \subseteq Cs

RecordsOK == online \in [Uid -> Cs \cup {NoCs}] /\ changes \in [Uid -> Nat]

MissedOK == missed \subseteq AckId

KafkaOK ==
  /\ owner \in [Part -> Cs \cup {NoCs}] /\ pos \in [Part -> Nat] /\ committed \in [Part -> Nat]
  /\ \A p \in Part : pos[p] \in Offsets(p) /\ committed[p] \in Offsets(p)

FaultsOK == faults \in [move : Nat, call : Nat, look : Nat, crash : Nat]

LEMMA TypeParts ==
  /\ TypeOK <=> ServersOK /\ RecordsOK /\ MissedOK /\ ChannelsOK /\ KafkaOK /\ ItsOK /\ FaultsOK
  /\ TypeOK' <=> ServersOK' /\ RecordsOK' /\ MissedOK' /\ ChannelsOK' /\ KafkaOK' /\ ItsOK' /\ FaultsOK'
<1>1. TypeOK <=> ServersOK /\ RecordsOK /\ MissedOK /\ ChannelsOK /\ KafkaOK /\ ItsOK /\ FaultsOK
  BY DEF TypeOK, ServersOK, RecordsOK, MissedOK, ChannelsOK, KafkaOK, ItsOK, FaultsOK
<1>2. TypeOK' <=> ServersOK' /\ RecordsOK' /\ MissedOK' /\ ChannelsOK' /\ KafkaOK' /\ ItsOK' /\ FaultsOK'
  BY DEF TypeOK, ServersOK, RecordsOK, MissedOK, ChannelsOK, KafkaOK, ItsOK, FaultsOK
<1> QED
  BY <1>1, <1>2

LEMMA OffsetType ==
  ASSUME AckAssumption, TypeOK, NEW p \in Part
  PROVE  /\ pos[p] \in Nat /\ committed[p] \in Nat /\ Len(Log[p]) \in Nat
         /\ pos[p] \in Offsets(p) /\ committed[p] \in Offsets(p)
<1>1. KafkaOK
  BY TypeParts
<1> QED
  BY <1>1 DEF KafkaOK, AckAssumption

LEMMA NewOffsetType ==
  ASSUME AckAssumption, TypeOK', NEW p \in Part
  PROVE  /\ pos'[p] \in Nat /\ committed'[p] \in Nat
         /\ pos'[p] \in Offsets(p) /\ committed'[p] \in Offsets(p)
<1>1. KafkaOK'
  BY TypeParts
<1> QED
  BY <1>1 DEF KafkaOK, Offsets

LEMMA PartsKept ==
  ASSUME TypeOK
  PROVE  /\ UNCHANGED <<tables, up>> => ServersOK'
         /\ UNCHANGED records => RecordsOK'
         /\ UNCHANGED missed => MissedOK'
         /\ UNCHANGED channels => ChannelsOK'
         /\ UNCHANGED kafka => KafkaOK'
         /\ it' = it => ItsOK'
         /\ faults' = faults => FaultsOK'
<1>1. ServersOK /\ RecordsOK /\ MissedOK /\ ChannelsOK /\ KafkaOK /\ ItsOK /\ FaultsOK
  BY TypeParts
<1>2. UNCHANGED <<tables, up>> => ServersOK'
  BY <1>1 DEF ServersOK, tables
<1>a. UNCHANGED records => RecordsOK'
  BY <1>1 DEF RecordsOK, records
<1>b. UNCHANGED missed => MissedOK'
  BY <1>1 DEF MissedOK
<1>3. UNCHANGED channels => ChannelsOK'
  BY <1>1 DEF ChannelsOK, channels, From
<1>4. UNCHANGED kafka => KafkaOK'
  BY <1>1 DEF KafkaOK, kafka, Offsets
<1>5. it' = it => ItsOK'
  <2>1. \A s \in Cs : IterationOK(it[s], s)' <=> IterationOK(it'[s], s)
    BY DEF IterationOK, Offsets, Idle
  <2> QED
    BY <1>1, <2>1 DEF ItsOK
<1>6. faults' = faults => FaultsOK'
  BY <1>1 DEF FaultsOK
<1> QED
  BY <1>2, <1>a, <1>b, <1>3, <1>4, <1>5, <1>6

LEMMA HitCounts ==
  ASSUME TypeOK, NEW k \in {"move", "call", "look", "crash"}, NEW bound, Hit(k, bound)
  PROVE  /\ FaultsOK' /\ faults'[k] = faults[k] + 1
         /\ \A l \in {"move", "call", "look", "crash"} \ {k} : faults'[l] = faults[l]
<1>1. faults \in [move : Nat, call : Nat, look : Nat, crash : Nat]
  BY DEF TypeOK
<1>2. faults' = [faults EXCEPT ![k] = @ + 1]
  BY DEF Hit
<1>3. CASE k = "move"
  BY <1>1, <1>2, <1>3 DEF FaultsOK
<1>4. CASE k = "call"
  BY <1>1, <1>2, <1>4 DEF FaultsOK
<1>5. CASE k = "look"
  BY <1>1, <1>2, <1>5 DEF FaultsOK
<1>6. CASE k = "crash"
  BY <1>1, <1>2, <1>6 DEF FaultsOK
<1> QED
  BY <1>3, <1>4, <1>5, <1>6

LEMMA EndsDoes ==
  ASSUME AckAssumption, TypeOK, NEW s \in Cs, Ends(s)
  PROVE  /\ ItsOK' /\ Only(s) /\ Held(it'[s]) = {} /\ it'[s] = Ended
         /\ it'[s].pc = "ended" /\ \A p \in Part : it'[s].hi[p] = 0
<1>1. it' = [it EXCEPT ![s] = Ended]
  BY DEF Ends
<1> QED
  BY Zenon, <1>1, StopDoes, IdleOK

\* What every step of a consumer leaves alone.
LEMMA ConsumeKeeps ==
  ASSUME NEW s \in Cs, Consume(s)
  PROVE  UNCHANGED <<tables, records, up, owner>>
BY Zenon DEF Consume, Fetch, Lookup, LookupFails, Local, LocalDone, Forward, RelayAck, CallFails,
       CallDone, LookupAgain, RetryLocal, RetryRelay, RetryFails, RetryDone, CommitMessages,
       CommitFails, kafka

\* What was missed stays so; new is at most an ack that the iteration has in a list.
LEMMA MissedGrows ==
  ASSUME AckAssumption, TypeOK, NEW s \in Cs, Consume(s)
  PROVE  MissedOK' /\ missed \subseteq missed'
<1>1. it[s] \in Iteration /\ IterationOK(it[s], s) /\ MissedOK
  BY ItType, TypeParts
<1>2. /\ it[s].todo \subseteq AckId
      /\ \A c \in Cs : it[s].remote[c] \subseteq AckId /\ it[s].retry[c] \subseteq AckId
  BY <1>1 DEF Iteration
<1>3. CASE missed' = missed
  BY <1>1, <1>3 DEF MissedOK
<1>4. CASE LeavesOut(s)
  BY <1>1, <1>2, <1>4 DEF LeavesOut, For, MissedOK
<1>5. ASSUME NEW a \in AckId, NEW c, Misses(a, c) PROVE MissedOK' /\ missed \subseteq missed'
  BY <1>1, <1>5 DEF Misses, MissedOK
<1>6. CASE RelayAck(s)
  <2>1. PICK a \in Earliest({b \in it[s].remote[it[s].to] : it[s].res[b] = "none"}) : Misses(a, it[s].to)
    BY Zenon, <1>6 DEF RelayAck
  <2>2. it[s].to \in Cs
    BY <1>1, <1>6 DEF RelayAck, IterationOK
  <2>3. a \in AckId
    BY <1>2, <2>1, <2>2 DEF Earliest
  <2> QED
    BY <1>5, <2>1, <2>3
<1>7. CASE RetryLocal(s)
  <2>1. PICK a \in Earliest(it[s].todo) : Misses(a, s)
    BY Zenon, <1>7 DEF RetryLocal
  <2> QED
    BY <1>2, <1>5, <2>1 DEF Earliest
<1>8. CASE RetryRelay(s)
  <2>1. PICK c \in up : \E a \in Earliest(it[s].retry[c]) : Misses(a, c)
    BY Zenon, <1>8 DEF RetryRelay
  <2>2. PICK a \in Earliest(it[s].retry[c]) : Misses(a, c)
    BY <2>1
  <2>3. c \in Cs
    BY DEF TypeOK
  <2> QED
    BY <1>2, <1>5, <2>2, <2>3 DEF Earliest
<1>9. CASE RetryFails(s)
  <2>1. PICK c \in Cs : missed' = missed \/ missed' = missed \cup For(it[s].retry[c], c)
    BY Zenon, <1>9, RetryFailsDoes
  <2> QED
    BY <1>1, <1>2, <2>1 DEF For, MissedOK
<1>10. CASE Lookup(s) \/ LookupAgain(s)
  BY <1>4, <1>10 DEF Lookup, LookupAgain
<1>11. CASE ~(RelayAck(s) \/ RetryLocal(s) \/ RetryRelay(s) \/ RetryFails(s) \/ Lookup(s) \/ LookupAgain(s))
  <2>1. missed' = missed
    BY Zenon, <1>11 DEF Consume, Fetch, LookupFails, Local, LocalDone, Forward, CallFails, CallDone,
           RetryDone, CommitMessages, CommitFails
  <2> QED
    BY <1>3, <2>1
<1> QED
  BY <1>6, <1>7, <1>8, <1>9, <1>10, <1>11

LEMMA ConsumeType ==
  ASSUME AckAssumption, TypeOK, NEW s \in Cs, Consume(s)
  PROVE  TypeOK'
<1>1. ServersOK' /\ RecordsOK' /\ MissedOK'
  BY ConsumeKeeps, MissedGrows, PartsKept
<1>2. CASE Fetch(s)
  <2>1. pos' \in [Part -> Nat] /\ (\A p \in Part : pos'[p] \in Offsets(p)) /\ ItsOK'
    BY <1>2, FetchDoes
  <2>a. UNCHANGED <<channels, owner, committed, faults>>
    BY <1>2 DEF Fetch
  <2>b. KafkaOK
    BY TypeParts
  <2>2. KafkaOK'
    BY SMTT(60), <2>1, <2>a, <2>b DEF KafkaOK, Offsets
  <2> QED
    BY <1>1, <2>1, <2>a, <2>2, PartsKept, TypeParts
<1>3. CASE Lookup(s) \/ LocalDone(s) \/ Forward(s) \/ CallDone(s) \/ LookupAgain(s) \/ RetryDone(s)
  <2>1. UNCHANGED <<channels, kafka, faults>>
    BY Zenon, <1>3 DEF Lookup, LocalDone, Forward, CallDone, LookupAgain, RetryDone, channels
  <2>2. ItsOK'
    BY Zenon, <1>3, LookupDoes, LocalDoneDoes, ForwardDoes, CallDoneDoes, LookupAgainDoes, RetryDoneDoes
  <2> QED
    BY <1>1, <2>1, <2>2, PartsKept, TypeParts
<1>4. CASE LookupFails(s) \/ CallFails(s) \/ CommitFails(s)
  <2>1. UNCHANGED <<channels, kafka>> /\ Ends(s)
    BY <1>4 DEF LookupFails, CallFails, CommitFails, channels
  <2>2. faults' = faults \/ Hit("call", MaxCall) \/ Hit("look", MaxLook)
    BY <1>4 DEF LookupFails, CallFails, CommitFails
  <2>3. FaultsOK'
    BY <2>2, HitCounts, PartsKept
  <2> QED
    BY <1>1, <2>1, <2>3, EndsDoes, PartsKept, TypeParts
<1>5. CASE Local(s) \/ RetryLocal(s)
  <2>1. ItsOK' /\ ChannelsOK'
    BY <1>5, LocalDoes DEF TakesLocal
  <2>2. UNCHANGED <<kafka, faults>>
    BY <1>5 DEF Local, RetryLocal
  <2> QED
    BY <1>1, <2>1, <2>2, PartsKept, TypeParts
<1>6. CASE RelayAck(s)
  <2>1. ItsOK' /\ ChannelsOK'
    BY Zenon, <1>6, RelayAckDoes DEF TakesRelayed
  <2>2. UNCHANGED <<kafka, faults>>
    BY <1>6 DEF RelayAck
  <2> QED
    BY <1>1, <2>1, <2>2, PartsKept, TypeParts
<1>7. CASE RetryRelay(s)
  <2>1. ItsOK' /\ ChannelsOK'
    BY Zenon, <1>7, RetryRelayDoes DEF TakesRetried
  <2>2. UNCHANGED <<kafka, faults>>
    BY <1>7 DEF RetryRelay
  <2> QED
    BY <1>1, <2>1, <2>2, PartsKept, TypeParts
<1>8. CASE RetryFails(s)
  <2>1. ItsOK' /\ (faults' = faults \/ Hit("call", MaxCall))
    BY Zenon, <1>8, RetryFailsDoes
  <2>2. UNCHANGED <<channels, kafka>>
    BY <1>8 DEF RetryFails, channels
  <2>3. FaultsOK'
    BY <2>1, HitCounts, PartsKept
  <2> QED
    BY <1>1, <2>1, <2>2, <2>3, PartsKept, TypeParts
<1>9. CASE CommitMessages(s)
  <2>1. /\ committed' = [p \in Part |-> IF it[s].hi[p] > 0 THEN it[s].hi[p] ELSE committed[p]]
        /\ it' = [it EXCEPT ![s] = Idle] /\ UNCHANGED <<channels, owner, pos, faults>>
    BY <1>9 DEF CommitMessages, channels
  <2>2. it[s].hi \in [Part -> Nat] /\ \A p \in Part : it[s].hi[p] \in Offsets(p)
    BY ItType DEF Iteration, IterationOK
  <2>3. KafkaOK'
    BY Zenon, <2>1, <2>2 DEF TypeOK, KafkaOK, Offsets
  <2>4. ItsOK'
    BY Zenon, <2>1, StopDoes
  <2> QED
    BY <1>1, <2>1, <2>3, <2>4, PartsKept, TypeParts
<1> QED
  BY <1>2, <1>3, <1>4, <1>5, <1>6, <1>7, <1>8, <1>9 DEF Consume

LEMMA AssignType ==
  ASSUME TypeOK, NEW P \in SUBSET Part, NEW s \in Cs \cup {NoCs}, Assign(P, s), committed' = committed
  PROVE  KafkaOK'
<1>1. /\ owner \in [Part -> Cs \cup {NoCs}] /\ pos \in [Part -> Nat] /\ committed \in [Part -> Nat]
      /\ \A p \in Part : pos[p] \in Offsets(p) /\ committed[p] \in Offsets(p)
  BY DEF TypeOK
<1> QED
  BY <1>1 DEF Assign, KafkaOK, Offsets

LEMMA RewriteDoes ==
  ASSUME TypeOK, NEW u \in Uid, NEW c \in Cs \cup {NoCs}, Rewrite(u, c)
  PROVE  /\ RecordsOK'
         /\ \A v \in Uid : \/ online'[v] = online[v] /\ changes'[v] = changes[v]
                           \/ changes'[v] = changes[v] + 1
<1>1. online \in [Uid -> Cs \cup {NoCs}] /\ changes \in [Uid -> Nat]
  BY DEF TypeOK
<1>2. /\ online' = [online EXCEPT ![u] = c]
      /\ changes' = [changes EXCEPT ![u] = IF online[u] = c THEN @ ELSE @ + 1]
  BY DEF Rewrite
<1>3. RecordsOK'
  BY <1>1, <1>2 DEF RecordsOK
<1>4. ASSUME NEW v \in Uid
      PROVE  \/ online'[v] = online[v] /\ changes'[v] = changes[v]
             \/ changes'[v] = changes[v] + 1
  BY <1>1, <1>2
<1> QED
  BY <1>3, <1>4

LEMMA WriteRecordDoes ==
  ASSUME TypeOK, NEW s \in Cs, WriteRecord(s)
  PROVE  /\ ServersOK' /\ UNCHANGED <<up, channels, missed, kafka, it, faults>>
         /\ UNCHANGED records \/ \E u \in Uid, c \in Cs \cup {NoCs} : Rewrite(u, c)
<1>1. op \in [Cs -> Ops \cup {NoOp}] /\ op[s] # NoOp /\ op' = [op EXCEPT ![s] = NoOp]
  BY DEF TypeOK, WriteRecord
<1>2. op[s] \in Ops
  BY <1>1
<1>3. op[s].uid \in Uid
  BY <1>2 DEF Ops
<1>4. op' \in [Cs -> Ops \cup {NoOp}]
  BY <1>1
<1>5. UNCHANGED <<at, left, up, channels, missed, kafka, it, faults>>
  BY DEF WriteRecord
<1>6. UNCHANGED records \/ \E u \in Uid, c \in Cs \cup {NoCs} : Rewrite(u, c)
  BY Zenon, <1>3 DEF WriteRecord
<1>7. ServersOK'
  BY <1>4, <1>5 DEF ServersOK, TypeOK
<1> QED
  BY <1>5, <1>6, <1>7

\* The table of one server, for one user.
LEMMA EventDoes ==
  ASSUME AckAssumption, TypeOK, NEW u \in Uid, NEW s \in Cs,
         EventRegister(u, s) \/ EventUnregister(u, s)
  PROVE  /\ Hit("move", MaxMove) /\ ServersOK' /\ ChannelsOK'
         /\ UNCHANGED <<records, up, put, dropped, missed, kafka, it>>
<1>0. ServersOK /\ ChannelsOK /\ 0 \in 0..SendMax /\ NoCs \notin Cs
  BY TypeParts DEF AckAssumption
<1>1. /\ Hit("move", MaxMove) /\ s \in up
      /\ UNCHANGED <<records, up, put, dropped, missed, kafka, it>>
  BY DEF EventRegister, EventUnregister
<1>2. PICK o \in Ops : op' = [op EXCEPT ![s] = o]
  <2>1. [do |-> "put", uid |-> u] \in Ops /\ [do |-> "delete", uid |-> u] \in Ops
    BY DEF Ops
  <2> QED
    BY Zenon, <2>1 DEF EventRegister, EventUnregister
<1>3. op' \in [Cs -> Ops \cup {NoOp}]
  BY <1>0, <1>2 DEF ServersOK
<1>4. room' \in [Uid -> 0..SendMax]
  <2>1. room \in [Uid -> 0..SendMax]
    BY <1>0 DEF ChannelsOK
  <2>2. CASE EventRegister(u, s)
    BY <1>0, <2>1, <2>2 DEF EventRegister
  <2>3. CASE EventUnregister(u, s)
    BY <1>0, <2>1, <2>3 DEF EventUnregister
  <2> QED
    BY <2>2, <2>3
<1>5. ChannelsOK'
  BY Zenon, <1>0, <1>1, <1>4 DEF ChannelsOK, From
<1>6. /\ at' \in [Uid -> up \cup {NoCs}] /\ left' \in [Uid -> SUBSET up]
      /\ \A v \in Uid : at'[v] \notin left'[v]
  <2>1. /\ at \in [Uid -> up \cup {NoCs}] /\ left \in [Uid -> SUBSET up]
        /\ \A v \in Uid : at[v] \notin left[v]
        /\ NoCs \notin up
    BY <1>0 DEF ServersOK
  <2>2. CASE EventRegister(u, s)
    <3>1. at' = [at EXCEPT ![u] = s] /\ left' = [left EXCEPT ![u] = (@ \cup {at[u]}) \ {s, NoCs}]
      BY <2>2 DEF EventRegister
    <3> QED
      BY SMTT(30), <1>1, <2>1, <3>1
  <2>3. CASE EventUnregister(u, s)
    <3>1. at' = [at EXCEPT ![u] = IF @ = s THEN NoCs ELSE @] /\ left' = [left EXCEPT ![u] = @ \ {s}]
      BY <2>3 DEF EventUnregister
    <3> QED
      BY SMTT(30), <2>1, <3>1
  <2> QED
    BY <2>2, <2>3
<1>7. ServersOK'
  BY <1>0, <1>1, <1>3, <1>6 DEF ServersOK
<1> QED
  BY <1>1, <1>5, <1>7

LEMMA CrashDoes ==
  ASSUME AckAssumption, TypeOK, NEW s \in Cs, ServerCrash(s)
  PROVE  /\ ServersOK' /\ ChannelsOK' /\ KafkaOK' /\ ItsOK' /\ Hit("crash", MaxCrash)
         /\ UNCHANGED <<records, put, dropped, missed, committed>>
         /\ it' = [it EXCEPT ![s] = Idle]
         /\ \A p \in Part : IF owner[p] = s THEN pos'[p] = committed[p]
                            ELSE owner'[p] = owner[p] /\ pos'[p] = pos[p]
<1>0. ServersOK /\ ChannelsOK /\ KafkaOK /\ 0 \in 0..SendMax /\ NoCs \notin Cs
  BY TypeParts DEF AckAssumption
<1>1. /\ up' = up \ {s} /\ at' = [u \in Uid |-> IF at[u] = s THEN NoCs ELSE at[u]]
      /\ left' = [u \in Uid |-> left[u] \ {s}] /\ op' = [op EXCEPT ![s] = NoOp]
      /\ room' = [u \in Uid |-> IF at[u] = s THEN 0 ELSE room[u]] /\ Hit("crash", MaxCrash)
      /\ it' = [it EXCEPT ![s] = Idle] /\ UNCHANGED <<records, put, dropped, missed, committed>>
  BY DEF ServerCrash
<1>2. PICK c \in IF up = {s} THEN {NoCs} ELSE up \ {s} : Assign({p \in Part : owner[p] = s}, c)
  BY Zenon DEF ServerCrash
<1>3. ServersOK'
  <2>1. at' \in [Uid -> up' \cup {NoCs}] /\ left' \in [Uid -> SUBSET up']
    BY <1>0, <1>1 DEF ServersOK
  <2>2. \A u \in Uid : at'[u] \notin left'[u]
    BY <1>0, <1>1 DEF ServersOK
  <2>3. op' \in [Cs -> Ops \cup {NoOp}]
    BY <1>0, <1>1 DEF ServersOK
  <2> QED
    BY <1>0, <1>1, <2>1, <2>2, <2>3 DEF ServersOK
<1>4. ChannelsOK'
  <2>1. room' \in [Uid -> 0..SendMax]
    BY <1>0, <1>1 DEF ChannelsOK
  <2> QED
    BY Zenon, <1>0, <1>1, <2>1 DEF ChannelsOK, From
<1>5. c \in Cs \cup {NoCs} /\ {p \in Part : owner[p] = s} \in SUBSET Part
  BY <1>0, <1>2 DEF ServersOK
<1>6. KafkaOK'
  BY <1>1, <1>2, <1>5, AssignType
<1>7. ItsOK'
  BY Zenon, <1>1, StopDoes
<1>8. \A p \in Part : IF owner[p] = s THEN pos'[p] = committed[p]
                      ELSE owner'[p] = owner[p] /\ pos'[p] = pos[p]
  BY <1>2 DEF Assign
<1> QED
  BY <1>1, <1>3, <1>4, <1>6, <1>7, <1>8

LEMMA StartDoes ==
  ASSUME TypeOK, NEW s \in Cs, ServerStart(s)
  PROVE  /\ ServersOK' /\ KafkaOK' /\ UNCHANGED <<records, channels, missed, committed, it, faults>>
         /\ \A p \in Part : \/ pos'[p] = committed[p]
                            \/ owner'[p] = owner[p] /\ pos'[p] = pos[p]
<1>1. up' = up \cup {s} /\ UNCHANGED <<tables, records, channels, missed, committed, it, faults>>
  BY DEF ServerStart
<1>2. PICK P \in SUBSET Part : Assign(P, s)
  BY Zenon DEF ServerStart
<1>3. ServersOK'
  <2>1. /\ at \in [Uid -> up \cup {NoCs}] /\ left \in [Uid -> SUBSET up] /\ up \subseteq Cs
        /\ \A u \in Uid : at[u] \notin left[u]
        /\ op \in [Cs -> Ops \cup {NoOp}]
    BY Zenon DEF TypeOK
  <2>2. at' \in [Uid -> up' \cup {NoCs}] /\ left' \in [Uid -> SUBSET up']
    BY <1>1, <2>1 DEF tables
  <2> QED
    BY <1>1, <2>1, <2>2 DEF ServersOK, tables
<1>4. KafkaOK'
  BY <1>1, <1>2, AssignType
<1>5. \A p \in Part : pos'[p] = committed[p] \/ (owner'[p] = owner[p] /\ pos'[p] = pos[p])
  BY <1>2 DEF Assign
<1> QED
  BY <1>1, <1>3, <1>4, <1>5

LEMMA EnvironmentType ==
  ASSUME AckAssumption, TypeOK, Environment
  PROVE  TypeOK'
<1>0. ServersOK /\ ChannelsOK
  BY TypeParts
<1>1. ASSUME NEW u \in Uid, Write(u) PROVE TypeOK'
  <2>1. /\ room[u] > 0 /\ room' = [room EXCEPT ![u] = @ - 1]
        /\ UNCHANGED <<tables, records, up, put, dropped, missed, kafka, it, faults>>
    BY <1>1 DEF Write
  <2>2. room' \in [Uid -> 0..SendMax]
    <3>1. room[u] - 1 \in 0..SendMax
      BY <1>0, <2>1 DEF ChannelsOK, AckAssumption
    <3> QED
      BY <1>0, <2>1, <3>1 DEF ChannelsOK
  <2>3. ChannelsOK'
    BY Zenon, <1>0, <2>1, <2>2 DEF ChannelsOK, From
  <2> QED
    BY <2>1, <2>3, PartsKept, TypeParts
<1>2. ASSUME NEW u \in Uid, GhostSweep(u) PROVE TypeOK'
  <2>1. Rewrite(u, NoCs) /\ UNCHANGED <<tables, up, channels, missed, kafka, it, faults>>
    BY <1>2 DEF GhostSweep
  <2> QED
    BY <2>1, RewriteDoes, PartsKept, TypeParts
<1>3. ASSUME NEW u \in Uid, NEW s \in Cs, EventRegister(u, s) \/ EventUnregister(u, s)
      PROVE  TypeOK'
  BY <1>3, EventDoes, HitCounts, PartsKept, TypeParts
<1>4. ASSUME NEW s \in Cs, WriteRecord(s) PROVE TypeOK'
  BY <1>4, WriteRecordDoes, RewriteDoes, PartsKept, TypeParts
<1>5. ASSUME NEW s \in Cs, ServerCrash(s) PROVE TypeOK'
  BY <1>5, CrashDoes, HitCounts, PartsKept, TypeParts
<1>6. ASSUME NEW s \in Cs, ServerStart(s) PROVE TypeOK'
  BY <1>6, StartDoes, PartsKept, TypeParts
<1> QED
  BY <1>1, <1>2, <1>3, <1>4, <1>5, <1>6 DEF Environment

LEMMA InitType ==
  ASSUME AckAssumption, Init
  PROVE  TypeOK
<1>1. ServersOK /\ RecordsOK /\ MissedOK
  BY DEF Init, ServersOK, RecordsOK, MissedOK, AckAssumption
<1>2. ChannelsOK
  BY DEF Init, ChannelsOK, AckAssumption, ToSet
<1>3. KafkaOK
  BY DEF Init, KafkaOK, Offsets, AckAssumption
<1>4. ItsOK
  BY IdleOK DEF Init, ItsOK
<1>5. FaultsOK
  BY DEF Init, FaultsOK
<1> QED
  BY <1>1, <1>2, <1>3, <1>4, <1>5, TypeParts

LEMMA NextType ==
  ASSUME AckAssumption, TypeOK, [Next]_vars
  PROVE  TypeOK'
<1>1. CASE UNCHANGED vars
  BY <1>1, PartsKept, TypeParts DEF vars
<1>2. ASSUME NEW s \in Cs, Consume(s) PROVE TypeOK'
  BY <1>2, ConsumeType
<1>3. CASE Environment
  BY <1>3, EnvironmentType
<1> QED
  BY <1>1, <1>2, <1>3 DEF Next

(***************************************************************************)
(* The variables hold what ack.go can put into them: a channel never more  *)
(* than it holds and only its sender's acks, and an iteration each ack in  *)
(* one of its lists at most.                                               *)
(***************************************************************************)
THEOREM TypeCorrect == Spec => []TypeOK
<1>1. Init => TypeOK
  BY AckAssumption, InitType
<1>2. TypeOK /\ [Next]_vars => TypeOK'
  BY AckAssumption, NextType
<1> QED
  BY <1>1, <1>2, PTL DEF Spec

-----------------------------------------------------------------------------
(***************************************************************************)
(* Every ack comes once.                                                   *)
(***************************************************************************)
LEMMA HeldIs ==
  ASSUME AckAssumption, NEW i \in Iteration, NEW a
  PROVE  /\ a \in Held(i) <=> /\ a \in AckId /\ i.res[a] \notin {"delivered", "send_full"}
                              /\ \/ a \in i.todo
                                 \/ \E c \in Cs : a \in i.remote[c] \/ a \in i.retry[c]
<1> DEFINE remote == UNION {i.remote[c] : c \in Cs}
           retry == UNION {i.retry[c] : c \in Cs}
<1>1. /\ i.todo \subseteq AckId
      /\ \A c \in Cs : i.remote[c] \subseteq AckId /\ i.retry[c] \subseteq AckId
  BY DEF Iteration
<1>2. a \in Answered(i) <=> a \in AckId /\ i.res[a] \in {"delivered", "send_full"}
  BY DEF Answered
<1>3. a \in remote <=> \E c \in Cs : a \in i.remote[c]
  OBVIOUS
<1>4. a \in retry <=> \E c \in Cs : a \in i.retry[c]
  OBVIOUS
<1>5. Held(i) = (i.todo \cup remote \cup retry) \ Answered(i)
  BY DEF Held
<1> HIDE DEF remote, retry
<1>6. a \in Held(i) <=> a \notin Answered(i) /\ (a \in i.todo \/ a \in remote \/ a \in retry)
  BY <1>5
<1>7. a \in i.todo \/ a \in remote \/ a \in retry => a \in AckId
  BY <1>1, <1>3, <1>4
<1> QED
  BY <1>2, <1>3, <1>4, <1>6, <1>7

\* What a step of s leaves it to hold was its batch's before.
LEMMA BatchKept ==
  ASSUME TypeOK, TypeOK', AckAssumption, Undisturbed, owner' = owner, pos' = pos,
         NEW s \in Cs, Only(s), \A t \in Cs : BatchOK(it[t], t), PutOK,
         \/ put' = put /\ Held(it'[s]) \subseteq Held(it[s])
         \/ \E a \in Held(it[s]) : Offered(a) /\ Held(it'[s]) \subseteq Held(it[s]) \ {a},
         it'[s].hi = it[s].hi \/ ((\A p \in Part : it'[s].hi[p] = 0) /\ Held(it'[s]) = {})
  PROVE  PutOK' /\ \A t \in Cs : BatchOK(it[t], t)'
<1>1. /\ \A t \in Cs : it[t] \in Iteration /\ it'[t] \in Iteration
      /\ put \in [Uid -> Seq(AckId)] /\ put' \in [Uid -> Seq(AckId)]
  BY Zenon DEF TypeOK
<1>2. \A a \in AckId : From(a) \in Uid /\ a[1] \in Part
  BY AckIdType
<1>3. \A t \in Cs : \A a \in Held(it[t]) : a \in AckId
  BY <1>1, HeldIs
<1>4. CASE put' = put /\ Held(it'[s]) \subseteq Held(it[s])
  <2>1. PutOK'
    BY <1>4 DEF PutOK, From
  <2>2. ASSUME NEW t \in Cs PROVE BatchOK(it[t], t)'
    <3>1. BatchOK(it[t], t)
      OBVIOUS
    <3>2. CASE t = s
      BY SMTT(30), <1>4, <3>1, <3>2 DEF BatchOK, From
    <3>3. CASE t # s
      BY <1>4, <3>1, <3>3 DEF BatchOK, Only, From
    <3> QED
      BY <3>2, <3>3
  <2> QED
    BY <2>1, <2>2
<1>5. ASSUME NEW a \in Held(it[s]), Offered(a), Held(it'[s]) \subseteq Held(it[s]) \ {a}
      PROVE  PutOK' /\ \A t \in Cs : BatchOK(it[t], t)'
  <2>1. /\ a \in AckId /\ From(a) \in Uid /\ it[s].hi[a[1]] > 0 /\ a[2] <= pos[a[1]]
        /\ owner[a[1]] = s /\ a \notin ToSet(put[From(a)])
    <3>1. BatchOK(it[s], s)
      OBVIOUS
    <3>2. a \in AckId /\ From(a) \in Uid /\ a[1] \in Part
      BY <1>2, <1>3
    <3> QED
      BY <3>1, <3>2 DEF BatchOK
  <2>2. \A u \in Uid : /\ ToSet(put[u]) \subseteq ToSet(put'[u])
                       /\ ToSet(put'[u]) \subseteq ToSet(put[u]) \cup {a}
                       /\ IsInjective(put[u]) /\ a \notin ToSet(put[From(a)]) => IsInjective(put'[u])
    BY Zenon, <1>5, <2>1, OfferedOnce
  <2>3. PutOK'
    BY Zenon, <2>1, <2>2 DEF PutOK
  <2>4. ASSUME NEW t \in Cs PROVE BatchOK(it[t], t)'
    <3>1. BatchOK(it[t], t)
      OBVIOUS
    <3>2. Held(it'[t]) \subseteq Held(it[t]) /\ (\A p \in Part : it'[t].hi[p] > 0 => it'[t].hi[p] = it[t].hi[p])
      BY <1>5 DEF Only
    <3>3. ASSUME NEW b \in Held(it'[t])
          PROVE  b \in AckId /\ b # a /\ it'[t].hi[b[1]] > 0 /\ b[2] <= pos[b[1]] /\ b \notin ToSet(put[From(b)])
      <4>1. b \in Held(it[t]) /\ b \in AckId /\ b[1] \in Part
        BY <1>2, <1>3, <3>2, <3>3
      <4>2. it[t].hi[b[1]] > 0 /\ b[2] <= pos[b[1]] /\ b \notin ToSet(put[From(b)])
        BY <3>1, <4>1 DEF BatchOK
      <4>3. owner[b[1]] = t
        BY <3>1, <4>1, <4>2 DEF BatchOK
      <4>4. b # a
        BY <1>5, <2>1, <3>3, <4>3
      <4>5. it'[t].hi[b[1]] > 0
        BY <3>3, <4>2 DEF Only
      <4> QED
        BY <4>1, <4>2, <4>4, <4>5
    <3>4. \A b \in Held(it'[t]) : b \notin ToSet(put'[From(b)])
      BY ZenonT(60), <1>2, <2>2, <3>3
    <3>5. \A p \in Part : it'[t].hi[p] > 0 => owner'[p] = t /\ it'[t].hi[p] = pos'[p]
      BY <3>1, <3>2 DEF BatchOK
    <3>6. \A b \in Held(it'[t]) : it'[t].hi[b[1]] > 0 /\ b[2] <= pos'[b[1]]
      BY <3>3
    <3> QED
      BY <3>4, <3>5, <3>6 DEF BatchOK, From
  <2> QED
    BY <2>3, <2>4
<1> QED
  BY <1>4, <1>5

\* The fetched acks are new.
LEMMA FetchOnce ==
  ASSUME AckAssumption, TypeOK, TypeOK', Undisturbed, PutOK, NEW s \in Cs, Fetch(s),
         \A t \in Cs : BatchOK(it[t], t)
  PROVE  PutOK' /\ \A t \in Cs : BatchOK(it[t], t)'
<1>1. /\ Only(s) /\ (\A p \in Part : pos[p] \in Nat /\ pos'[p] \in Nat /\ pos[p] <= pos'[p])
      /\ \A p \in Part : it'[s].hi[p] > 0 => owner[p] = s /\ it'[s].hi[p] = pos'[p]
      /\ \A p \in Part : it'[s].hi[p] = 0 => pos'[p] = pos[p]
      /\ \A p \in Part : it'[s].hi[p] \in Nat
      /\ Held(it'[s]) = {a \in AckId : a[2] \in (pos[a[1]] + 1)..pos'[a[1]]}
  <2>1. it'[s] \in Iteration /\ pos \in [Part -> Nat] /\ pos' \in [Part -> Nat]
    BY Zenon DEF TypeOK
  <2> QED
    BY <2>1, FetchDoes DEF Iteration
<1>2. put' = put /\ owner' = owner
  BY DEF Fetch, channels
<1>3. \A a \in AckId : a[1] \in Part /\ a[2] \in Nat \ {0} /\ From(a) \in Uid
  BY AckIdType
<1>4. put \in [Uid -> Seq(AckId)] /\ \A t \in Cs : it[t] \in Iteration
  BY Zenon DEF TypeOK
<1>5. \A u \in Uid : \A a \in ToSet(put[u]) : a \in AckId /\ a[2] <= pos[a[1]]
  BY <1>4 DEF PutOK, ToSet
<1>6. PutOK'
  BY SMTT(30), <1>1, <1>2, <1>3, <1>5 DEF PutOK
<1>7. BatchOK(it[s], s)'
  <2>1. ASSUME NEW a \in Held(it'[s])
        PROVE  it'[s].hi[a[1]] > 0 /\ a[2] <= pos'[a[1]] /\ a \notin ToSet(put'[From(a)])
    <3>1. PICK p \in Part : p = a[1]
      BY <1>1, <1>3
    <3>2. a \in AckId /\ a[2] \in (pos[p] + 1)..pos'[p] /\ a[2] \in Nat
      BY <1>1, <1>3, <3>1
    <3>3. pos[p] < a[2] /\ a[2] <= pos'[p]
      BY <1>1, <3>2
    <3>4. it'[s].hi[p] # 0 /\ it'[s].hi[p] \in Nat
      BY <1>1, <3>3
    <3>5. a \notin ToSet(put[From(a)])
      BY <1>1, <1>3, <1>5, <3>1, <3>2, <3>3
    <3> QED
      BY SMTT(30), <1>2, <3>1, <3>3, <3>4, <3>5
  <2> QED
    BY <1>1, <1>2, <2>1 DEF BatchOK, From
<1>8. ASSUME NEW t \in Cs \ {s} PROVE BatchOK(it[t], t)'
  <2>1. it'[t] = it[t] /\ BatchOK(it[t], t)
    BY <1>1 DEF Only
  <2>2. ASSUME NEW p \in Part, it[t].hi[p] > 0 PROVE owner'[p] = t /\ it[t].hi[p] = pos'[p]
    <3>1. owner[p] = t /\ it[t].hi[p] = pos[p]
      BY <2>1, <2>2 DEF BatchOK
    <3>2. ~(it'[s].hi[p] > 0)
      BY <1>1, <3>1
    <3>3. it'[s].hi[p] = 0
      BY <1>1, <3>2
    <3> QED
      BY <1>1, <1>2, <3>1, <3>3
  <2>3. ASSUME NEW a \in Held(it[t])
        PROVE  it[t].hi[a[1]] > 0 /\ a[2] <= pos'[a[1]] /\ a \notin ToSet(put[From(a)])
    <3>1. a[1] \in Part /\ a[2] \in Nat
      BY <1>3, <1>4, HeldIs
    <3>2. it[t].hi[a[1]] > 0 /\ a[2] <= pos[a[1]] /\ a \notin ToSet(put[From(a)])
      BY <2>1 DEF BatchOK
    <3> QED
      BY SMTT(30), <1>1, <3>1, <3>2
  <2> QED
    BY <1>2, <2>1, <2>2, <2>3 DEF BatchOK, From
<1> QED
  BY <1>6, <1>7, <1>8

LEMMA ForIn ==
  ASSUME NEW acks, NEW s
  PROVE  For(acks, s) \subseteq acks
BY DEF For

\* Where an ack leaves what an iteration holds, and where not.
LEMMA HeldMoves ==
  ASSUME AckAssumption, TypeOK, TypeOK', NEW s \in Cs, Consume(s), ~Fetch(s)
  PROVE  /\ \/ put' = put /\ Held(it'[s]) \subseteq Held(it[s])
            \/ \E a \in Held(it[s]) : Offered(a) /\ Held(it'[s]) \subseteq Held(it[s]) \ {a}
         /\ it'[s].hi = it[s].hi \/ ((\A p \in Part : it'[s].hi[p] = 0) /\ Held(it'[s]) = {})
         /\ Only(s) /\ pos' = pos
<1>1. /\ it[s] \in Iteration /\ it'[s] \in Iteration
      /\ IterationOK(it[s], s) /\ IterationOK(it'[s], s)
  <2>1. ItsOK'
    BY TypeParts
  <2>2. \A t \in Cs : IterationOK(it[t], t)' <=> IterationOK(it'[t], t)
    BY DEF IterationOK, Offsets, Idle
  <2> QED
    BY <2>1, <2>2, ItType DEF ItsOK
<1>i. PICK i \in Iteration : i = it[s]
  BY <1>1
<1>j. PICK j \in Iteration : j = it'[s]
  BY <1>1
<1> DEFINE Goal == /\ \/ put' = put /\ Held(j) \subseteq Held(i)
                      \/ \E a \in Held(i) : Offered(a) /\ Held(j) \subseteq Held(i) \ {a}
                   /\ j.hi = i.hi \/ ((\A p \in Part : j.hi[p] = 0) /\ Held(j) = {})
                   /\ Only(s) /\ pos' = pos
<1>a. \A a : /\ a \in Held(i) <=> /\ a \in AckId /\ i.res[a] \notin {"delivered", "send_full"}
                                  /\ \/ a \in i.todo
                                     \/ \E c \in Cs : a \in i.remote[c] \/ a \in i.retry[c]
             /\ a \in Held(j) <=> /\ a \in AckId /\ j.res[a] \notin {"delivered", "send_full"}
                                  /\ \/ a \in j.todo
                                     \/ \E c \in Cs : a \in j.remote[c] \/ a \in j.retry[c]
  BY <1>1, HeldIs
<1>b. \A a \in AckId : Idle.res[a] = "none"
  BY DEF Idle
<1> SUFFICES Goal
  BY <1>i, <1>j DEF Goal
<1> HIDE DEF Goal
<1>2. CASE Lookup(s)
  <2>1. put' = put /\ pos' = pos
    BY Zenon, <1>2 DEF Lookup, kafka, channels
  <2>2. /\ Only(s) /\ j.hi = i.hi /\ j.res = i.res /\ j.retry = i.retry
        /\ \A c \in Cs : j.todo \subseteq i.todo /\ j.remote[c] \subseteq i.todo
    BY <1>2, LookupDoes, ForIn, <1>i, <1>j
  <2>3. ASSUME NEW a \in Held(j) PROVE a \in Held(i)
    BY <1>a, <2>2, <2>3
  <2>4. Held(j) \subseteq Held(i)
    BY <2>3
  <2> QED
    BY <2>1, <2>2, <2>4 DEF Goal
<1>3. CASE LocalDone(s) \/ Forward(s) \/ RetryDone(s)
  <2>1. put' = put /\ pos' = pos
    BY Zenon, <1>3 DEF LocalDone, Forward, RetryDone, kafka, channels
  <2>2. /\ Only(s) /\ j.hi = i.hi /\ j.res = i.res /\ j.retry = i.retry
        /\ j.todo = i.todo /\ j.remote = i.remote
    BY <1>3, LocalDoneDoes, ForwardDoes, RetryDoneDoes, <1>i, <1>j
  <2>3. ASSUME NEW a \in Held(j) PROVE a \in Held(i)
    BY <1>a, <2>2, <2>3
  <2>4. Held(j) \subseteq Held(i)
    BY <2>3
  <2> QED
    BY <2>1, <2>2, <2>4 DEF Goal
<1>4. CASE LookupFails(s) \/ CallFails(s) \/ CommitFails(s) \/ CommitMessages(s)
  <2>1. put' = put /\ pos' = pos
    BY Zenon, <1>4 DEF LookupFails, CallFails, CommitFails, CommitMessages, kafka, channels
  <2>2. Ends(s) \/ it' = [it EXCEPT ![s] = Idle]
    BY <1>4 DEF LookupFails, CallFails, CommitFails, CommitMessages
  <2>3. Only(s) /\ Held(j) = {} /\ \A p \in Part : j.hi[p] = 0
    BY Zenon, <2>2, EndsDoes, StopDoes, <1>j
  <2> QED
    BY <2>1, <2>3 DEF Goal
<1>5. CASE CallDone(s)
  <2>1. put' = put /\ pos' = pos
    BY Zenon, <1>5 DEF CallDone, kafka, channels
  <2>2. /\ Only(s) /\ j.hi = i.hi /\ j.retry = i.retry /\ i.to \in Cs /\ j.res = Idle.res
        /\ j.todo = NotFound(i) /\ j.remote = [i.remote EXCEPT ![i.to] = {}]
        /\ i.remote \in [Cs -> SUBSET AckId] /\ i.pc = "call"
    BY Zenon, <1>1, <1>5, CallDoneDoes, <1>i, <1>j DEF Iteration
  <2>3. ASSUME NEW a \in Held(j) PROVE a \in Held(i)
    <3>1. CASE a \in j.todo
      <4>1. a \in i.remote[i.to] /\ i.res[a] = "not_found"
        BY <2>2, <3>1 DEF NotFound
      <4> QED
        BY <1>a, <2>2, <2>3, <4>1
    <3>2. ASSUME NEW c \in Cs, a \in j.remote[c] PROVE a \in Held(i)
      <4>1. c # i.to /\ a \in i.remote[c]
        BY <2>2, <3>2
      <4>2. i.res[a] = "none"
        <5>1. a \notin i.remote[i.to]
          BY <1>1, <2>2, <4>1, <1>i DEF IterationOK
        <5> QED
          BY <1>1, <1>a, <2>2, <2>3, <5>1, <1>i DEF IterationOK
      <4> QED
        BY <1>a, <2>3, <4>1, <4>2
    <3>3. ASSUME NEW c \in Cs, a \in j.retry[c] PROVE a \in Held(i)
      <4>1. i.retry = Idle.retry
        BY <1>1, <2>2, <1>i DEF IterationOK
      <4> QED
        BY <2>2, <3>3, <4>1 DEF Idle
    <3> QED
      BY <1>a, <2>3, <3>1, <3>2, <3>3
  <2>4. Held(j) \subseteq Held(i)
    BY <2>3
  <2> QED
    BY <2>1, <2>2, <2>4 DEF Goal
<1>6. CASE LookupAgain(s)
  <2>1. put' = put /\ pos' = pos
    BY Zenon, <1>6 DEF LookupAgain, kafka, channels
  <2>2. /\ Only(s) /\ j.hi = i.hi /\ j.res = i.res /\ j.remote = i.remote
        /\ \A c \in Cs : j.todo \subseteq i.todo /\ j.retry[c] \subseteq i.todo
    BY <1>6, LookupAgainDoes, ForIn, <1>i, <1>j
  <2>3. ASSUME NEW a \in Held(j) PROVE a \in Held(i)
    BY <1>a, <2>2, <2>3
  <2>4. Held(j) \subseteq Held(i)
    BY <2>3
  <2> QED
    BY <2>1, <2>2, <2>4 DEF Goal
<1>7. CASE RetryFails(s)
  <2>1. put' = put /\ pos' = pos
    BY Zenon, <1>7 DEF RetryFails, kafka, channels
  <2>2. /\ Only(s) /\ j.hi = i.hi /\ j.res = i.res /\ j.remote = i.remote /\ j.todo = i.todo
        /\ \A c \in Cs : j.retry[c] \subseteq i.retry[c]
    BY <1>7, RetryFailsDoes, <1>i, <1>j
  <2>3. ASSUME NEW a \in Held(j) PROVE a \in Held(i)
    BY <1>a, <2>2, <2>3
  <2>4. Held(j) \subseteq Held(i)
    BY <2>3
  <2> QED
    BY <2>1, <2>2, <2>4 DEF Goal
<1>8. CASE Local(s) \/ RetryLocal(s)
  <2>1. pos' = pos
    BY <1>8 DEF Local, RetryLocal, kafka
  <2>2. PICK a \in i.todo : TakesLocal(s, a)
    BY <1>8, LocalDoes, <1>i
  <2>3. /\ Only(s) /\ j.hi = i.hi /\ j.res = i.res /\ j.remote = i.remote /\ j.retry = i.retry
        /\ j.todo = i.todo \ {a} /\ Offered(a) /\ i.pc # "call" /\ a \in AckId
    BY <2>2, <1>i, <1>j DEF TakesLocal
  <2>4. /\ i.res[a] = "none" /\ \A c \in Cs : a \notin i.remote[c] /\ a \notin i.retry[c]
    BY <1>1, <1>b, <2>2, <2>3, <1>i DEF IterationOK
  <2>5. a \in Held(i)
    BY <1>a, <2>2, <2>3, <2>4
  <2>6. ASSUME NEW b \in Held(j) PROVE b \in Held(i) \ {a}
    BY <1>a, <2>3, <2>4, <2>6
  <2>7. Held(j) \subseteq Held(i) \ {a}
    BY <2>6
  <2> QED
    BY <2>1, <2>3, <2>5, <2>7 DEF Goal
<1>9. CASE RelayAck(s)
  <2>1. pos' = pos
    BY <1>9 DEF RelayAck, kafka
  <2>2. PICK a \in i.remote[i.to] : TakesRelayed(s, a)
    BY <1>9, RelayAckDoes, <1>i
  <2> DEFINE ans == Answer(a, i.to)
  <2>3. /\ Only(s) /\ j.hi = i.hi /\ j.remote = i.remote /\ j.retry = i.retry
        /\ j.todo = i.todo /\ Offered(a) /\ i.to \in Cs /\ a \in AckId
        /\ i.res[a] = "none" /\ j.res = [i.res EXCEPT ![a] = ans]
        /\ ans \in {"delivered", "not_found", "send_full"}
        /\ ans = "not_found" => put' = put
    BY <2>2, <1>i, <1>j DEF TakesRelayed
  <2> HIDE DEF ans
  <2>4. i.res \in [AckId -> Answers]
    BY <1>1, <1>i DEF Iteration
  <2>5. j.res[a] = ans /\ \A b \in AckId \ {a} : j.res[b] = i.res[b]
    BY <2>3, <2>4
  <2>6. a \in Held(i)
    BY <1>a, <2>2, <2>3
  <2>7. ASSUME NEW b \in Held(j) PROVE b \in Held(i)
    BY <1>a, <2>3, <2>5, <2>6, <2>7
  <2>8. Held(j) \subseteq Held(i)
    BY <2>7
  <2>9. CASE ans = "not_found"
    BY <2>1, <2>3, <2>8, <2>9 DEF Goal
  <2>10. CASE ans # "not_found"
    <3>1. a \notin Held(j)
      BY <1>a, <2>3, <2>5, <2>10
    <3>2. Held(j) \subseteq Held(i) \ {a}
      BY <2>8, <3>1
    <3> QED
      BY <2>1, <2>3, <2>6, <3>2 DEF Goal
  <2> QED
    BY <2>9, <2>10
<1>10. CASE RetryRelay(s)
  <2>1. pos' = pos
    BY <1>10 DEF RetryRelay, kafka
  <2>2. PICK c \in Cs : \E b \in i.retry[c] : TakesRetried(s, c, b)
    BY <1>10, RetryRelayDoes, <1>i
  <2>3. PICK a \in i.retry[c] : TakesRetried(s, c, a)
    BY <2>2
  <2>4. /\ Only(s) /\ j.hi = i.hi /\ j.remote = i.remote /\ j.res = i.res
        /\ j.todo = i.todo /\ Offered(a) /\ a \in AckId /\ i.pc = "retry"
        /\ \A d \in Cs : j.retry[d] = IF d = c THEN i.retry[c] \ {a} ELSE i.retry[d]
    BY Zenon, <2>3, <1>i, <1>j DEF TakesRetried
  <2>5. /\ i.res[a] = "none" /\ a \notin i.todo /\ \A d \in Cs : a \notin i.remote[d]
        /\ \A d \in Cs \ {c} : a \notin i.retry[d]
    BY <1>1, <1>b, <2>3, <2>4, <1>i DEF IterationOK
  <2>6. a \in Held(i)
    BY <1>a, <2>3, <2>4, <2>5
  <2>7. ASSUME NEW b \in Held(j) PROVE b \in Held(i) \ {a}
    BY <1>a, <2>4, <2>5, <2>7
  <2>8. Held(j) \subseteq Held(i) \ {a}
    BY <2>7
  <2> QED
    BY <2>1, <2>4, <2>6, <2>8 DEF Goal
<1> QED
  BY <1>2, <1>3, <1>4, <1>5, <1>6, <1>7, <1>8, <1>9, <1>10 DEF Consume

\* What a step that is no crash and not of a consumer leaves alone.
LEMMA EnvironmentDoes ==
  ASSUME AckAssumption, TypeOK, OnceInv, Environment, faults'.crash = 0
  PROVE  faults.crash = 0 /\ UNCHANGED <<up, put, owner, pos, it>>
<1>1. faults \in [move : Nat, call : Nat, look : Nat, crash : Nat]
  BY DEF TypeOK
<1>2. ASSUME NEW s \in Cs, ServerCrash(s) PROVE FALSE
  <2>1. faults'["crash"] = faults["crash"] + 1
    BY <1>2, HitCounts DEF ServerCrash
  <2> QED
    BY <1>1, <2>1
<1>3. CASE \E u \in Uid, s \in Cs : EventRegister(u, s) \/ EventUnregister(u, s)
  <2>1. faults'["crash"] = faults["crash"] /\ UNCHANGED <<up, put, kafka, it>>
    BY <1>3, EventDoes, HitCounts
  <2> QED
    BY <2>1 DEF kafka
<1>4. CASE (\E u \in Uid : Write(u) \/ GhostSweep(u)) \/ \E s \in Cs : WriteRecord(s)
  BY Zenon, <1>4 DEF Write, GhostSweep, WriteRecord, channels, kafka
<1>5. ASSUME NEW s \in Cs, ServerStart(s) PROVE FALSE
  <2>1. faults' = faults /\ s \notin up
    BY <1>5 DEF ServerStart
  <2> QED
    BY <2>1 DEF OnceInv, Undisturbed
<1> QED
  BY <1>2, <1>3, <1>4, <1>5 DEF Environment

\* A consumer's step is no crash, and failed calls are not forgotten.
LEMMA ConsumeFaults ==
  ASSUME TypeOK, NEW s \in Cs, Consume(s)
  PROVE  /\ faults'.crash = faults.crash
         /\ faults.call <= faults'.call /\ faults.call \in Nat /\ faults'.call \in Nat
<1>1. faults \in [move : Nat, call : Nat, look : Nat, crash : Nat]
  BY DEF TypeOK
<1>2. CASE faults' = faults
  BY <1>1, <1>2
<1>3. CASE Hit("look", MaxLook)
  <2>1. faults'["crash"] = faults["crash"] /\ faults'["call"] = faults["call"]
    BY <1>3, HitCounts
  <2> QED
    BY <1>1, <2>1
<1>4. CASE Hit("call", MaxCall)
  <2>1. faults'["crash"] = faults["crash"]
    BY <1>4, HitCounts
  <2>2. faults'["call"] = faults["call"] + 1
    BY <1>4, HitCounts
  <2> QED
    BY <1>1, <2>1, <2>2
<1>5. faults' = faults \/ Hit("look", MaxLook) \/ Hit("call", MaxCall)
  BY Zenon DEF Consume, Fetch, Lookup, LookupFails, Local, LocalDone, Forward, RelayAck, CallFails,
         CallDone, LookupAgain, RetryLocal, RetryRelay, RetryFails, RetryDone, CommitMessages,
         CommitFails
<1> QED
  BY <1>2, <1>3, <1>4, <1>5

LEMMA OnceNext ==
  ASSUME AckAssumption, TypeOK, TypeOK', OnceInv, [Next]_vars
  PROVE  OnceInv'
<1> SUFFICES ASSUME faults'.crash = 0
             PROVE  Undisturbed' /\ PutOK' /\ \A t \in Cs : BatchOK(it[t], t)'
  BY DEF OnceInv
<1>1. ASSUME UNCHANGED <<up, put, owner, pos, it>>, faults.crash = 0
      PROVE  Undisturbed' /\ PutOK' /\ \A t \in Cs : BatchOK(it[t], t)'
  <2>1. Undisturbed /\ PutOK /\ \A t \in Cs : BatchOK(it[t], t)
    BY <1>1 DEF OnceInv
  <2>2. Undisturbed' /\ PutOK'
    BY <1>1, <2>1 DEF Undisturbed, PutOK
  <2>3. ASSUME NEW t \in Cs PROVE BatchOK(it[t], t)'
    BY <1>1, <2>1 DEF BatchOK, From
  <2> QED
    BY <2>2, <2>3
<1>2. CASE UNCHANGED vars
  <2>1. UNCHANGED <<up, put, owner, pos, it, faults>>
    BY <1>2 DEF vars, kafka, channels
  <2> QED
    BY <1>1, <2>1
<1>3. CASE Environment
  BY <1>1, <1>3, EnvironmentDoes
<1>4. ASSUME NEW s \in Cs, Consume(s)
      PROVE  Undisturbed' /\ PutOK' /\ \A t \in Cs : BatchOK(it[t], t)'
  <2>1. Undisturbed /\ PutOK /\ \A t \in Cs : BatchOK(it[t], t)
    BY <1>4, ConsumeFaults DEF OnceInv
  <2>2. UNCHANGED <<up, owner>>
    BY <1>4, ConsumeKeeps
  <2>3. Undisturbed'
    BY <2>1, <2>2 DEF Undisturbed
  <2>4. CASE Fetch(s)
    BY <2>1, <2>3, <2>4, FetchOnce
  <2>5. CASE ~Fetch(s)
    BY Zenon, <1>4, <2>1, <2>2, <2>3, <2>5, HeldMoves, BatchKept
  <2> QED
    BY <2>4, <2>5
<1> QED
  BY <1>2, <1>3, <1>4 DEF Next

LEMMA InitAcks ==
  ASSUME AckAssumption, Init
  PROVE  TypeOK /\ OnceInv
<1>1. TypeOK
  BY InitType
<1>2. Undisturbed
  BY DEF Init, Undisturbed
<1>3. \A u \in Uid : put[u] = <<>>
  BY DEF Init
<1>4. PutOK
  BY <1>3 DEF PutOK, IsInjective, ToSet
<1>5. \A s \in Cs : BatchOK(it[s], s)
  BY IdleOK DEF Init, BatchOK
<1> QED
  BY <1>1, <1>2, <1>4, <1>5 DEF OnceInv

(***************************************************************************)
(* A sender gets each ack once: a partition is read by one member at a     *)
(* time, a batch has each ack in one list, and what a channel took leaves  *)
(* the batch before not_found is looked up again.                          *)
(***************************************************************************)
THEOREM AcksOnce == Spec => []AcksComeOnce
<1>1. Init => TypeOK /\ OnceInv
  BY AckAssumption, InitAcks
<1>2. TypeOK /\ OnceInv /\ [Next]_vars => (TypeOK /\ OnceInv)'
  BY AckAssumption, NextType, OnceNext
<1>3. TypeOK /\ OnceInv => AcksComeOnce
  BY DEF AcksComeOnce, HandledOnce, OnceInv, PutOK
<1> QED
  BY <1>1, <1>2, <1>3, PTL DEF Spec

-----------------------------------------------------------------------------
(***************************************************************************)
(* What is committed was handled.                                          *)
(***************************************************************************)
\* What was handled stays so.
LEMMA HandledStays ==
  ASSUME AckAssumption, TypeOK, NEW s \in Cs, Consume(s), NEW a \in AckId, Handled(a)
  PROVE  Handled(a)'
<1>1. dropped \subseteq dropped' /\ (put' = put \/ \E b \in AckId : Offered(b))
  <2>1. CASE Local(s) \/ RetryLocal(s)
    BY <2>1, LocalDoes DEF TakesLocal, Offered
  <2>2. CASE RelayAck(s)
    BY ZenonT(60), <2>2, RelayAckDoes DEF TakesRelayed, Offered
  <2>3. CASE RetryRelay(s)
    BY Zenon, <2>3, RetryRelayDoes DEF TakesRetried, Offered
  <2>4. CASE ~(Local(s) \/ RetryLocal(s) \/ RelayAck(s) \/ RetryRelay(s))
    BY Zenon, <2>4 DEF Consume, Fetch, Lookup, LookupFails, LocalDone, Forward, CallFails, CallDone,
                LookupAgain, RetryFails, RetryDone, CommitMessages, CommitFails, channels
  <2> QED
    BY <2>1, <2>2, <2>3, <2>4
<1>2. \A b \in AckId : From(b) \in Uid
  BY AckIdType
<1>3. ToSet(put[From(a)]) \subseteq ToSet(put'[From(a)])
  BY <1>1, <1>2, OfferedOnce
<1>4. missed \subseteq missed'
  BY MissedGrows
<1> QED
  BY <1>1, <1>3, <1>4 DEF Handled, From

\* A consumer leaves the records alone, so that what is known of an ack stays known.
LEMMA KnownStays ==
  ASSUME AckAssumption, TypeOK, NEW s \in Cs, Consume(s), NEW a \in AckId
  PROVE  /\ UNCHANGED <<online, changes>>
         /\ NotThere(a) => NotThere(a)'
         /\ \A c \in Cs : LookedUp(a, c) => LookedUp(a, c)'
         /\ Accounted(a) => Accounted(a)'
<1>1. UNCHANGED <<online, changes>>
  BY ConsumeKeeps DEF records
<1>2. Handled(a) => Handled(a)'
  BY HandledStays
<1>3. From(a) = From(a)'
  BY DEF From
<1>4. ~Settled(From(a)) => ~Settled(From(a))'
  <2>1. faults.call <= faults'.call /\ faults.call \in Nat /\ faults'.call \in Nat
    BY ConsumeFaults
  <2> QED
    BY <1>1, <1>3, <2>1 DEF Settled
<1> QED
  BY <1>1, <1>2, <1>3, <1>4 DEF NotThere, LookedUp, Accounted

\* An ack waits for the server of its sender's record, or that has changed: once, or twice.
LEMMA ListsStep ==
  ASSUME AckAssumption, TypeOK, TypeOK', NEW s \in Cs, Consume(s), ListsOK(it[s], s)
  PROVE  ListsOK(it[s], s)'
<1>1. /\ it[s] \in Iteration /\ it'[s] \in Iteration
      /\ IterationOK(it[s], s) /\ IterationOK(it'[s], s)
  <2>1. ItsOK'
    BY TypeParts
  <2>2. \A t \in Cs : IterationOK(it[t], t)' <=> IterationOK(it'[t], t)
    BY DEF IterationOK, Offsets, Idle
  <2> QED
    BY <2>1, <2>2, ItType DEF ItsOK
<1>i. PICK i \in Iteration : i = it[s]
  BY <1>1
<1>j. PICK j \in Iteration : j = it'[s]
  BY <1>1
<1>k. \A a \in AckId : /\ UNCHANGED <<online, changes>>
                       /\ NotThere(a) => NotThere(a)'
                       /\ \A c \in Cs : LookedUp(a, c) => LookedUp(a, c)'
  BY KnownStays
<1>u. online' = online /\ changes' = changes
  BY ConsumeKeeps DEF records
<1> DEFINE Waits(a, c) == online[From(a)] = c \/ changes[From(a)] > 0
<1>c. /\ \A c \in Cs : \A a \in i.remote[c] : Waits(a, c)
      /\ i.pc = "call" => \A a \in NotFound(i) : NotThere(a)
      /\ i.pc = "again" => \A a \in i.todo : NotThere(a)
      /\ \A c \in Cs : \A a \in i.retry[c] : LookedUp(a, c)
      /\ i.pc = "retry" => \A a \in i.todo : LookedUp(a, s)
  BY <1>i DEF ListsOK
<1>t. /\ i.todo \subseteq AckId /\ j.todo \subseteq AckId
      /\ \A c \in Cs : /\ i.remote[c] \subseteq AckId /\ i.retry[c] \subseteq AckId
                       /\ j.remote[c] \subseteq AckId /\ j.retry[c] \subseteq AckId
  BY <1>1 DEF Iteration
<1> SUFFICES /\ \A c \in Cs : \A a \in j.remote[c] : Waits(a, c)
             /\ j.pc = "call" => \A a \in NotFound(j) : NotThere(a)'
             /\ j.pc = "again" => \A a \in j.todo : NotThere(a)'
             /\ \A c \in Cs : \A a \in j.retry[c] : LookedUp(a, c)'
             /\ j.pc = "retry" => \A a \in j.todo : LookedUp(a, s)'
  BY <1>j, <1>u DEF ListsOK, NotFound, NotThere, LookedUp, Handled, From
<1> HIDE DEF Waits
<1>r. ASSUME j.pc # "retry" PROVE \A c \in Cs : j.retry[c] = {}
  BY <1>1, <1>j, <1>r DEF IterationOK, Idle
<1>2. CASE Fetch(s) \/ LookupFails(s) \/ CallFails(s) \/ CommitFails(s) \/ CommitMessages(s)
  <2>1. j.pc \in {"fetch", "lookup", "ended"}
    <3>1. CASE Fetch(s)
      BY <3>1, FetchDoes, <1>j
    <3>2. CASE ~Fetch(s)
      <4>1. Ends(s) \/ it' = [it EXCEPT ![s] = Idle]
        BY <1>2, <3>2 DEF LookupFails, CallFails, CommitFails, CommitMessages
      <4> QED
        BY <4>1, StopDoes, EndsDoes, <1>j
    <3> QED
      BY <3>1, <3>2
  <2>2. \A c \in Cs : j.remote[c] = {}
    BY <1>1, <1>j, <2>1 DEF IterationOK, Idle
  <2> QED
    BY <1>r, <2>1, <2>2
<1>3. CASE Lookup(s)
  <2>1. /\ j.pc = "local"
        /\ \A c \in Cs : j.remote[c] \subseteq For(i.todo, c)
    BY <1>3, LookupDoes, <1>i, <1>j
  <2>2. \A c \in Cs : \A a \in j.remote[c] : Waits(a, c)
    BY <2>1 DEF For, Waits
  <2> QED
    BY <1>r, <2>1, <2>2
<1>4. CASE Local(s) \/ RetryLocal(s)
  <2>1. PICK a \in it[s].todo : TakesLocal(s, a)
    BY <1>4, LocalDoes
  <2>2. /\ j.pc = i.pc /\ i.pc \in {"local", "retry"} /\ j.remote = i.remote /\ j.retry = i.retry
        /\ j.todo \subseteq i.todo
    BY <2>1, <1>i, <1>j DEF TakesLocal
  <2> QED
    BY <1>c, <1>k, <1>t, <2>2
<1>5. CASE LocalDone(s) \/ RetryDone(s)
  <2>1. j.pc = "remote" /\ j.remote = i.remote
    BY <1>5, LocalDoneDoes, RetryDoneDoes, <1>i, <1>j
  <2> QED
    BY <1>c, <1>r, <2>1
<1>6. CASE Forward(s)
  <2>1. /\ j.pc = "call" /\ j.remote = i.remote
        /\ \A a \in AckId : j.res[a] = "none"
    BY <1>6, ForwardDoes, <1>i, <1>j
  <2>2. j.to \in Cs /\ j.remote[j.to] \subseteq AckId
    BY <1>1, <1>j, <2>1 DEF IterationOK, Iteration
  <2>3. NotFound(j) = {}
    BY <2>1, <2>2 DEF NotFound
  <2> QED
    BY <1>c, <1>r, <2>1, <2>3
<1>7. CASE RelayAck(s)
  <2>1. PICK a \in it[s].remote[it[s].to] : TakesRelayed(s, a)
    BY <1>7, RelayAckDoes
  <2> DEFINE ans == Answer(a, i.to)
  <2>2. /\ j.pc = "call" /\ i.pc = "call" /\ j.remote = i.remote
        /\ j.to = i.to /\ i.to \in Cs /\ a \in AckId /\ a \in i.remote[i.to]
        /\ j.res = [i.res EXCEPT ![a] = ans]
        /\ Handled(a)' \/ online[From(a)] # i.to
    BY <2>1, <1>i, <1>j DEF TakesRelayed
  <2> HIDE DEF ans
  <2>3. \A b \in AckId \ {a} : j.res[b] = i.res[b]
    BY <2>2 DEF Iteration
  <2>4. NotThere(a)'
    <3>1. Waits(a, i.to)
      BY <1>c, <2>2
    <3> QED
      BY <1>u, <2>2, <3>1 DEF NotThere, Waits, From
  <2>5. ASSUME NEW b \in NotFound(j) PROVE NotThere(b)'
    <3>1. CASE b = a
      BY <2>4, <3>1
    <3>2. CASE b # a
      <4>1. b \in NotFound(i) /\ b \in AckId
        BY <1>t, <2>2, <2>3, <2>5, <3>2 DEF NotFound
      <4> QED
        BY <1>c, <1>k, <2>2, <4>1
    <3> QED
      BY <3>1, <3>2
  <2> QED
    BY <1>c, <1>r, <2>2, <2>5
<1>8. CASE CallDone(s)
  <2>1. /\ i.pc = "call" /\ j.pc \in {"remote", "again"} /\ i.to \in Cs
        /\ j.todo = NotFound(i) /\ j.remote = [i.remote EXCEPT ![i.to] = {}]
    BY Zenon, <1>8, CallDoneDoes, <1>i, <1>j
  <2>2. \A c \in Cs : j.remote[c] \subseteq i.remote[c]
    BY <2>1 DEF Iteration
  <2> QED
    BY <1>c, <1>k, <1>r, <1>t, <2>1, <2>2
<1>9. CASE LookupAgain(s)
  <2>1. /\ j.pc = "retry" /\ i.pc = "again" /\ j.remote = i.remote /\ j.todo = For(i.todo, s)
        /\ \A c \in Cs : j.retry[c] \subseteq For(i.todo, c)
    BY <1>9, LookupAgainDoes, <1>i, <1>j
  <2>2. ASSUME NEW c \in Cs, NEW a \in For(i.todo, c) PROVE LookedUp(a, c)'
    <3>1. a \in i.todo /\ online[From(a)] = c
      BY <2>2 DEF For
    <3>2. NotThere(a)
      BY <1>c, <2>1, <3>1
    <3>3. LookedUp(a, c)
      BY <3>1, <3>2 DEF NotThere, LookedUp
    <3> QED
      BY <1>k, <1>t, <3>1, <3>3
  <2> QED
    BY <1>c, <2>1, <2>2
<1>10. CASE RetryRelay(s)
  <2>1. PICK c \in Cs : \E a \in it[s].retry[c] : TakesRetried(s, c, a)
    BY Zenon, <1>10, RetryRelayDoes
  <2>2. /\ j.pc = i.pc /\ i.pc = "retry" /\ j.remote = i.remote /\ j.todo = i.todo
        /\ \A d \in Cs : j.retry[d] \subseteq i.retry[d]
    BY <2>1, <1>i, <1>j DEF TakesRetried
  <2> QED
    BY <1>c, <1>k, <1>t, <2>2
<1>11. CASE RetryFails(s)
  <2>1. /\ j.pc = i.pc /\ i.pc = "retry" /\ j.remote = i.remote /\ j.todo = i.todo
        /\ \A d \in Cs : j.retry[d] \subseteq i.retry[d]
    BY <1>11, RetryFailsDoes, <1>i, <1>j
  <2> QED
    BY <1>c, <1>k, <1>t, <2>1
<1> QED
  BY <1>2, <1>3, <1>4, <1>5, <1>6, <1>7, <1>8, <1>9, <1>10, <1>11 DEF Consume

\* An ack leaves an iteration accounted for, or the consumer ends.
LEMMA HeldGoes ==
  ASSUME AckAssumption, TypeOK, TypeOK', NEW s \in Cs, Consume(s), ~Fetch(s),
         ListsOK(it[s], s), NEW a \in Held(it[s])
  PROVE  a \in Held(it'[s]) \/ Accounted(a)' \/ it'[s].pc = "ended"
<1>1. /\ it[s] \in Iteration /\ it'[s] \in Iteration
      /\ IterationOK(it[s], s) /\ IterationOK(it'[s], s)
  <2>1. ItsOK'
    BY TypeParts
  <2>2. \A t \in Cs : IterationOK(it[t], t)' <=> IterationOK(it'[t], t)
    BY DEF IterationOK, Offsets, Idle
  <2> QED
    BY <2>1, <2>2, ItType DEF ItsOK
<1>i. PICK i \in Iteration : i = it[s]
  BY <1>1
<1>j. PICK j \in Iteration : j = it'[s]
  BY <1>1
<1> SUFFICES a \in Held(j) \/ Accounted(a)' \/ j.pc = "ended"
  BY <1>j
<1>c. /\ \A c \in Cs : \A b \in i.retry[c] : LookedUp(b, c)
      /\ i.pc = "retry" => \A b \in i.todo : LookedUp(b, s)
  BY <1>i DEF ListsOK
<1>a. /\ a \in AckId /\ i.res[a] \notin {"delivered", "send_full"}
      /\ a \in i.todo \/ \E c \in Cs : a \in i.remote[c] \/ a \in i.retry[c]
  BY <1>i, HeldIs
<1>b. a \in Held(j) <=> /\ j.res[a] \notin {"delivered", "send_full"}
                        /\ a \in j.todo \/ \E c \in Cs : a \in j.remote[c] \/ a \in j.retry[c]
  BY <1>a, HeldIs
<1>d. \A b \in AckId : Idle.res[b] = "none"
  BY DEF Idle
<1>e. /\ From(a) \in Uid /\ changes[From(a)] \in Nat /\ online[From(a)] \in Cs \cup {NoCs}
      /\ changes' = changes
  <2>1. From(a) \in Uid
    BY <1>a, AckIdType
  <2>2. online \in [Uid -> Cs \cup {NoCs}] /\ changes \in [Uid -> Nat]
    BY Zenon DEF TypeOK
  <2> QED
    BY <2>1, <2>2, ConsumeKeeps DEF records
<1>h. Handled(a)' => Accounted(a)'
  BY DEF Accounted
<1>f. ASSUME NEW c \in Cs, LookedUp(a, c), Handled(a)' \/ online[From(a)] # c
      PROVE  Accounted(a)'
  <2>1. Handled(a) => Handled(a)'
    BY <1>a, HandledStays
  <2>2. changes[From(a)] > 1 => ~Settled(From(a))'
    BY <1>e DEF Settled, From
  <2> QED
    BY <1>f, <1>h, <2>1, <2>2 DEF LookedUp, Accounted
<1>g. ASSUME LeavesOut(s), a \in i.todo, online[From(a)] = NoCs PROVE Accounted(a)'
  <2>1. a \in missed'
    BY <1>g, <1>i DEF LeavesOut, For
  <2> QED
    BY <1>h, <2>1 DEF Handled
<1>2. CASE Lookup(s)
  <2>1. /\ i.pc = "lookup" /\ j.res = i.res
        /\ j.todo = For(i.todo, s)
        /\ \A c \in Cs : j.remote[c] = IF c = s THEN {} ELSE For(i.todo, c)
    BY <1>2, LookupDoes, <1>i, <1>j
  <2>2. a \in i.todo
    BY <1>1, <1>a, <1>i, <2>1 DEF IterationOK, Idle
  <2>3. CASE online[From(a)] = NoCs
    BY <1>2, <1>g, <2>2, <2>3 DEF Lookup
  <2>4. ASSUME NEW c \in Cs, online[From(a)] = c PROVE a \in Held(j)
    <3>1. a \in For(i.todo, c)
      BY <2>2, <2>4 DEF For
    <3> QED
      BY <1>a, <1>b, <2>1, <3>1
  <2> QED
    BY <1>e, <2>3, <2>4
<1>3. CASE LocalDone(s) \/ Forward(s) \/ RetryDone(s)
  <2>1. j.res = i.res /\ j.todo = i.todo /\ j.remote = i.remote /\ j.retry = i.retry
    BY <1>3, LocalDoneDoes, ForwardDoes, RetryDoneDoes, <1>i, <1>j
  <2> QED
    BY <1>a, <1>b, <2>1
<1>4. CASE LookupFails(s) \/ CallFails(s) \/ CommitFails(s)
  <2>1. Ends(s)
    BY <1>4 DEF LookupFails, CallFails, CommitFails
  <2> QED
    BY <2>1, EndsDoes, <1>j
<1>5. CASE CommitMessages(s)
  <2>1. i.pc = "remote" /\ \A c \in Cs : i.remote[c] = {}
    BY <1>5, <1>i DEF CommitMessages, AllForwarded
  <2> QED
    BY <1>1, <1>a, <1>i, <2>1 DEF IterationOK, Idle
<1>6. CASE Local(s) \/ RetryLocal(s)
  <2>1. PICK b \in it[s].todo : TakesLocal(s, b)
    BY <1>6, LocalDoes
  <2>2. /\ j.res = i.res /\ j.remote = i.remote /\ j.retry = i.retry /\ j.todo = i.todo \ {b}
        /\ b \in i.todo /\ (Handled(b)' \/ (i.pc = "retry" /\ online[From(b)] # s))
    BY <2>1, <1>i, <1>j DEF TakesLocal
  <2>3. CASE b = a
    BY <1>c, <1>f, <1>h, <2>2, <2>3
  <2>4. CASE b # a
    BY <1>a, <1>b, <2>2, <2>4
  <2> QED
    BY <2>3, <2>4
<1>7. CASE RelayAck(s)
  <2>1. PICK b \in it[s].remote[it[s].to] : TakesRelayed(s, b)
    BY <1>7, RelayAckDoes
  <2> DEFINE ans == Answer(b, i.to)
  <2>2. /\ j.todo = i.todo /\ j.remote = i.remote /\ j.retry = i.retry
        /\ j.res = [i.res EXCEPT ![b] = ans] /\ ans \in {"delivered", "not_found", "send_full"}
        /\ ans # "not_found" => Handled(b)'
    BY <2>1, <1>i, <1>j DEF TakesRelayed
  <2> HIDE DEF ans
  <2>3. j.res[a] = IF a = b THEN ans ELSE i.res[a]
    BY <1>a, <2>2 DEF Iteration
  <2> QED
    BY <1>a, <1>b, <1>h, <2>2, <2>3
<1>8. CASE CallDone(s)
  <2>1. /\ i.pc = "call" /\ i.to \in Cs /\ j.todo = NotFound(i) /\ j.res = Idle.res
        /\ \A b \in i.remote[i.to] : i.res[b] # "none"
        /\ j.remote = [i.remote EXCEPT ![i.to] = {}]
    BY Zenon, <1>8, CallDoneDoes, <1>i, <1>j
  <2>2. j.res[a] = "none" /\ \A c \in Cs \ {i.to} : j.remote[c] = i.remote[c]
    BY <1>a, <1>d, <2>1 DEF Iteration
  <2>3. PICK c \in Cs : a \in i.remote[c]
    BY <1>1, <1>a, <1>i, <2>1 DEF IterationOK, Idle
  <2>4. CASE c = i.to
    <3>1. i.res[a] \in {"none", "not_found"} /\ i.res[a] # "none"
      BY <1>a, <2>1, <2>3, <2>4 DEF Iteration, Answers
    <3>2. a \in NotFound(i)
      BY <2>3, <2>4, <3>1 DEF NotFound
    <3> QED
      BY <1>b, <2>1, <2>2, <3>2
  <2>5. CASE c # i.to
    BY <1>b, <2>2, <2>3, <2>5
  <2> QED
    BY <2>4, <2>5
<1>9. CASE LookupAgain(s)
  <2>1. /\ i.pc = "again" /\ j.res = i.res /\ j.remote = i.remote
        /\ j.todo = For(i.todo, s)
        /\ \A c \in Cs : j.retry[c] = IF c = s THEN {} ELSE For(i.todo, c)
    BY <1>9, LookupAgainDoes, <1>i, <1>j
  <2>2. a \in i.todo \/ \E c \in Cs : a \in i.remote[c]
    BY <1>1, <1>a, <1>i, <2>1 DEF IterationOK, Idle
  <2>3. CASE a \in i.todo /\ online[From(a)] = NoCs
    BY <1>9, <1>g, <2>3 DEF LookupAgain
  <2>4. ASSUME NEW c \in Cs, online[From(a)] = c PROVE a \in Held(j)
    <3>1. a \in i.todo => a \in For(i.todo, c)
      BY <2>4 DEF For
    <3> QED
      BY <1>a, <1>b, <2>1, <2>2, <3>1
  <2>5. CASE a \notin i.todo
    BY <1>a, <1>b, <2>1, <2>2, <2>5
  <2> QED
    BY <1>e, <2>3, <2>4, <2>5
<1>10. CASE RetryRelay(s)
  <2>1. PICK c \in Cs : \E b \in it[s].retry[c] : TakesRetried(s, c, b)
    BY Zenon, <1>10, RetryRelayDoes
  <2>2. PICK b \in it[s].retry[c] : TakesRetried(s, c, b)
    BY <2>1
  <2>3. /\ j.res = i.res /\ j.remote = i.remote /\ j.todo = i.todo /\ b \in i.retry[c]
        /\ \A d \in Cs : j.retry[d] = IF d = c THEN i.retry[c] \ {b} ELSE i.retry[d]
        /\ Handled(b)' \/ online[From(b)] # c
    BY Zenon, <2>2, <1>i, <1>j DEF TakesRetried
  <2>4. CASE b = a
    BY <1>c, <1>f, <2>3, <2>4
  <2>5. CASE b # a
    BY <1>a, <1>b, <2>3, <2>5
  <2> QED
    BY <2>4, <2>5
<1>11. CASE RetryFails(s)
  <2>1. j.res = i.res /\ j.remote = i.remote /\ j.todo = i.todo
    BY <1>11, RetryFailsDoes, <1>i, <1>j
  <2>2. PICK c \in Cs :
          /\ \A d \in Cs : j.retry[d] = IF d = c THEN {} ELSE i.retry[d]
          /\ \/ Hit("call", MaxCall) /\ UNCHANGED missed
             \/ missed' = missed \cup For(i.retry[c], c) /\ UNCHANGED faults
    <3>1. PICK c \in Cs :
            /\ \A d \in Cs : it'[s].retry[d] = IF d = c THEN {} ELSE it[s].retry[d]
            /\ \/ Hit("call", MaxCall) /\ UNCHANGED missed
               \/ missed' = missed \cup For(it[s].retry[c], c) /\ UNCHANGED faults
      BY <1>11, RetryFailsDoes
    <3> QED
      BY <1>i, <1>j, <3>1
  <2>3. CASE a \notin i.retry[c]
    BY <1>a, <1>b, <2>1, <2>2, <2>3
  <2>4. CASE a \in i.retry[c] /\ Hit("call", MaxCall)
    <3>1. faults'["call"] = faults["call"] + 1 /\ faults["call"] \in Nat
      BY <2>4, HitCounts DEF TypeOK
    <3>2. LookedUp(a, c) /\ (Handled(a) => Handled(a)')
      BY <1>a, <1>c, <2>4, HandledStays
    <3>3. changes[From(a)] > 0 => ~Settled(From(a))'
      BY <1>e, <3>1 DEF Settled, From
    <3> QED
      BY <1>e, <1>h, <3>2, <3>3 DEF LookedUp, Accounted
  <2>5. CASE a \in i.retry[c] /\ missed' = missed \cup For(i.retry[c], c)
    <3>1. online[From(a)] = c => Handled(a)'
      BY <2>5 DEF For, Handled
    <3> QED
      BY <1>c, <1>f, <2>5, <3>1
  <2> QED
    BY <2>2, <2>3, <2>4, <2>5
<1> QED
  BY <1>2, <1>3, <1>4, <1>5, <1>6, <1>7, <1>8, <1>9, <1>10, <1>11 DEF Consume


-----------------------------------------------------------------------------
(***************************************************************************)
(* What the other steps leave of an iteration: all of it, or nothing once  *)
(* its server has died, whose partitions then go on from what is committed.*)
(***************************************************************************)
RecordsMove ==
  \A u \in Uid : \/ online'[u] = online[u] /\ changes'[u] = changes[u]
                 \/ changes'[u] = changes[u] + 1

ItsMove == \A s \in Cs : it'[s] = it[s] \/ it'[s] = Idle

PartsMove ==
  \A p \in Part : \/ pos'[p] = committed[p]
                  \/ /\ pos'[p] = pos[p] /\ owner'[p] = owner[p]
                     /\ owner[p] \in Cs => it'[owner[p]] = it[owner[p]]

Aside ==
  /\ UNCHANGED <<put, dropped, missed, committed>> /\ faults'.call = faults.call
  /\ RecordsMove /\ ItsMove /\ PartsMove

LEMMA EnvironmentAside ==
  ASSUME AckAssumption, TypeOK, Environment \/ UNCHANGED vars
  PROVE  Aside
<1>1. ASSUME UNCHANGED records PROVE RecordsMove
  BY <1>1 DEF records, RecordsMove
<1>2. ASSUME UNCHANGED <<owner, pos, it>> PROVE ItsMove /\ PartsMove
  BY <1>2 DEF ItsMove, PartsMove
<1>3. CASE UNCHANGED vars
  BY <1>1, <1>2, <1>3 DEF vars, channels, kafka, Aside
<1>4. ASSUME NEW u \in Uid, Write(u) PROVE Aside
  BY <1>1, <1>2, <1>4 DEF Write, kafka, Aside
<1>5. ASSUME NEW u \in Uid, GhostSweep(u) PROVE Aside
  <2>1. RecordsMove
    BY <1>5, RewriteDoes DEF GhostSweep, RecordsMove
  <2> QED
    BY <1>2, <1>5, <2>1 DEF GhostSweep, channels, kafka, Aside
<1>6. ASSUME NEW u \in Uid, NEW s \in Cs, EventRegister(u, s) \/ EventUnregister(u, s)
      PROVE  Aside
  <2>1. UNCHANGED <<records, put, dropped, missed, kafka, it>> /\ faults'["call"] = faults["call"]
    BY <1>6, EventDoes, HitCounts
  <2> QED
    BY <1>1, <1>2, <2>1 DEF kafka, Aside
<1>7. ASSUME NEW s \in Cs, WriteRecord(s) PROVE Aside
  <2>1. UNCHANGED <<channels, missed, kafka, it, faults>>
    BY <1>7, WriteRecordDoes
  <2>2. RecordsMove
    <3>1. UNCHANGED records \/ \E u \in Uid, c \in Cs \cup {NoCs} : Rewrite(u, c)
      BY <1>7, WriteRecordDoes
    <3> QED
      BY <1>1, <3>1, RewriteDoes DEF RecordsMove
  <2> QED
    BY <1>2, <2>1, <2>2 DEF channels, kafka, Aside
<1>8. ASSUME NEW s \in Cs, ServerCrash(s) PROVE Aside
  <2>1. /\ UNCHANGED <<records, put, dropped, missed, committed>> /\ faults'["call"] = faults["call"]
        /\ it' = [it EXCEPT ![s] = Idle]
        /\ \A p \in Part : IF owner[p] = s THEN pos'[p] = committed[p]
                           ELSE owner'[p] = owner[p] /\ pos'[p] = pos[p]
    BY <1>8, CrashDoes, HitCounts
  <2>2. it'[s] = Idle /\ \A t \in Cs \ {s} : it'[t] = it[t]
    BY <2>1 DEF TypeOK
  <2>3. ItsMove /\ PartsMove
    BY <2>1, <2>2 DEF ItsMove, PartsMove
  <2> QED
    BY <1>1, <2>1, <2>3 DEF Aside
<1>9. ASSUME NEW s \in Cs, ServerStart(s) PROVE Aside
  <2>1. /\ UNCHANGED <<records, channels, missed, committed, it, faults>>
        /\ \A p \in Part : \/ pos'[p] = committed[p]
                           \/ owner'[p] = owner[p] /\ pos'[p] = pos[p]
    BY <1>9, StartDoes
  <2>2. ItsMove /\ PartsMove
    BY <2>1 DEF ItsMove, PartsMove
  <2> QED
    BY <1>1, <2>1, <2>2 DEF channels, Aside
<1> QED
  BY <1>3, <1>4, <1>5, <1>6, <1>7, <1>8, <1>9 DEF Environment

\* What is known of an ack outlives any change of the records.
LEMMA KnownAside ==
  ASSUME AckAssumption, TypeOK, Aside, NEW a \in AckId
  PROVE  /\ NotThere(a) => NotThere(a)'
         /\ Accounted(a) => Accounted(a)'
         /\ \A c \in Cs : /\ LookedUp(a, c) => LookedUp(a, c)'
                          /\ (online[From(a)] = c \/ changes[From(a)] > 0) =>
                               (online[From(a)] = c \/ changes[From(a)] > 0)'
<1>1. From(a) \in Uid /\ From(a)' = From(a)
  BY AckIdType DEF From
<1>2. changes[From(a)] \in Nat /\ faults.call \in Nat /\ faults'.call = faults.call
  BY <1>1 DEF TypeOK, Aside
<1>3. \/ online'[From(a)] = online[From(a)] /\ changes'[From(a)] = changes[From(a)]
      \/ changes'[From(a)] = changes[From(a)] + 1
  BY <1>1 DEF Aside, RecordsMove
<1>4. Handled(a)' <=> Handled(a)
  BY <1>1 DEF Aside, Handled
<1>5. ~Settled(From(a)) => ~Settled(From(a))'
  BY <1>1, <1>2, <1>3 DEF Settled
<1> QED
  BY <1>1, <1>2, <1>3, <1>4, <1>5 DEF NotThere, LookedUp, Accounted

LEMMA HandledAside ==
  ASSUME AckAssumption, TypeOK, TypeOK', Aside, HandledInv
  PROVE  HandledInv'
<1>1. /\ \A s \in Cs : ListsOK(it[s], s) /\ HoldsRest(it[s])
      /\ \A p \in Part : \A k \in 1..committed[p] : Accounted(<<p, k>>)
      /\ committed' = committed
  BY DEF HandledInv, Aside
<1>2. \A p \in Part : /\ \A k \in 1..committed[p] : <<p, k>> \in AckId
                      /\ \A k \in 1..pos[p] : <<p, k>> \in AckId
  <2> SUFFICES ASSUME NEW p \in Part
               PROVE  /\ \A k \in 1..committed[p] : <<p, k>> \in AckId
                      /\ \A k \in 1..pos[p] : <<p, k>> \in AckId
    OBVIOUS
  <2>1. 1..committed[p] \subseteq 1..Len(Log[p]) /\ 1..pos[p] \subseteq 1..Len(Log[p])
    BY OffsetType DEF Offsets
  <2> QED
    BY <2>1, AckIdHas
<1>3. \A p \in Part : \A k \in 1..committed[p] : Accounted(<<p, k>>)'
  BY <1>1, <1>2, KnownAside
<1>4. ASSUME NEW s \in Cs PROVE ListsOK(it[s], s)' /\ HoldsRest(it[s])'
  <2>1. CASE it'[s] = Idle
    <3>1. /\ it'[s].pc = "fetch"
          /\ \A p \in Part : it'[s].hi[p] = 0
          /\ \A c \in Cs : it'[s].remote[c] = {} /\ it'[s].retry[c] = {}
      BY <2>1 DEF Idle
    <3> QED
      BY <3>1 DEF ListsOK, HoldsRest
  <2>2. CASE it'[s] = it[s]
    <3>1. it[s] \in Iteration /\ IterationOK(it[s], s)
      BY ItType
    <3>2. /\ it[s].todo \subseteq AckId
          /\ \A c \in Cs : it[s].remote[c] \subseteq AckId /\ it[s].retry[c] \subseteq AckId
      BY <3>1 DEF Iteration
    <3>3. it[s].pc = "call" => NotFound(it[s]) \subseteq AckId
      BY <3>1, <3>2 DEF NotFound, IterationOK
    <3>4. ListsOK(it[s], s)'
      <4>1. /\ \A c \in Cs : \A a \in it'[s].remote[c] : (online[From(a)] = c \/ changes[From(a)] > 0)'
            /\ \A c \in Cs : \A a \in it'[s].retry[c] : LookedUp(a, c)'
        BY <1>1, <2>2, <3>2, KnownAside DEF ListsOK
      <4>2. /\ it'[s].pc = "call" => \A a \in NotFound(it'[s]) : NotThere(a)'
            /\ it'[s].pc = "again" => \A a \in it'[s].todo : NotThere(a)'
            /\ it'[s].pc = "retry" => \A a \in it'[s].todo : LookedUp(a, s)'
        BY <1>1, <2>2, <3>2, <3>3, KnownAside DEF ListsOK
      <4> QED
        BY Zenon, <4>1, <4>2 DEF ListsOK, NotFound, NotThere, LookedUp, Handled, From
    <3>5. HoldsRest(it[s])'
      <4>1. ASSUME NEW p \in Part, NEW k \in 1..it[s].hi[p]
            PROVE  Accounted(<<p, k>>)' \/ <<p, k>> \in Held(it[s])
        <5>1. it[s].hi[p] \in Offsets(p) /\ Len(Log[p]) \in Nat
          BY <3>1, OffsetType DEF IterationOK
        <5>2. k \in 1..Len(Log[p])
          BY <5>1 DEF Offsets
        <5> QED
          BY <1>1, <4>1, <5>2, AckIdHas, KnownAside DEF HoldsRest
      <4> QED
        BY <2>2, <4>1 DEF HoldsRest, Held, Answered
    <3> QED
      BY <3>4, <3>5
  <2> QED
    BY <2>1, <2>2 DEF Aside, ItsMove
<1>5. ASSUME NEW p \in Part, NEW k \in 1..pos'[p]
      PROVE  \/ Accounted(<<p, k>>)'
             \/ /\ owner'[p] \in Cs
                /\ <<p, k>> \in Held(it'[owner'[p]]) \/ it'[owner'[p]].pc = "ended"
  <2>1. CASE pos'[p] = committed[p]
    BY <1>3, <2>1
  <2>2. CASE /\ pos'[p] = pos[p] /\ owner'[p] = owner[p]
             /\ owner[p] \in Cs => it'[owner[p]] = it[owner[p]]
    <3>1. \/ Accounted(<<p, k>>)
          \/ /\ owner[p] \in Cs
             /\ <<p, k>> \in Held(it[owner[p]]) \/ it[owner[p]].pc = "ended"
      BY <1>5, <2>2 DEF HandledInv, FetchedOK
    <3>2. <<p, k>> \in AckId
      BY <1>2, <1>5, <2>2
    <3> QED
      BY <2>2, <3>1, <3>2, KnownAside
  <2> QED
    BY <2>1, <2>2 DEF Aside, PartsMove
<1>6. FetchedOK'
  BY Zenon, <1>5 DEF FetchedOK, Held, Answered
<1> QED
  BY <1>1, <1>3, <1>4, <1>6 DEF HandledInv

-----------------------------------------------------------------------------
\* A fetched batch is what the iteration holds from then on, and all before it is settled.
LEMMA HandledFetch ==
  ASSUME AckAssumption, TypeOK, TypeOK', HandledInv, NEW s \in Cs, Fetch(s)
  PROVE  HoldsRest(it[s])' /\ FetchedOK'
<1>1. /\ it[s].pc = "fetch" /\ Only(s)
      /\ \A p \in Part : pos[p] \in Nat /\ pos'[p] \in Nat /\ pos[p] <= pos'[p]
      /\ \A p \in Part : it'[s].hi[p] > 0 => owner[p] = s /\ it'[s].hi[p] = pos'[p]
      /\ \A p \in Part : it'[s].hi[p] = 0 => pos'[p] = pos[p]
      /\ \A p \in Part : it'[s].hi[p] \in Nat
      /\ Held(it'[s]) = {a \in AckId : a[2] \in (pos[a[1]] + 1)..pos'[a[1]]}
  <2>1. it'[s] \in Iteration /\ pos \in [Part -> Nat] /\ pos' \in [Part -> Nat]
    BY Zenon DEF TypeOK
  <2> QED
    BY <2>1, FetchDoes DEF Iteration
<1>2. owner' = owner
  BY DEF Fetch
<1>3. \A p \in Part : \A k \in 1..pos'[p] : <<p, k>> \in AckId
  <2> SUFFICES ASSUME NEW p \in Part, NEW k \in 1..pos'[p] PROVE <<p, k>> \in AckId
    OBVIOUS
  <2>1. k \in 1..Len(Log[p])
    BY OffsetType, NewOffsetType DEF Offsets
  <2> QED
    BY <2>1, AckIdHas
<1>4. ASSUME NEW a \in Held(it[s]) PROVE FALSE
  <2>1. it[s] \in Iteration /\ IterationOK(it[s], s)
    BY ItType
  <2>2. a \in it[s].todo \/ \E c \in Cs : a \in it[s].remote[c] \/ a \in it[s].retry[c]
    BY <2>1, HeldIs
  <2> QED
    BY <1>1, <2>1, <2>2 DEF IterationOK, Idle
<1>5. ASSUME NEW p \in Part, NEW k \in 1..pos[p], owner[p] = s PROVE Accounted(<<p, k>>)'
  <2>1. Accounted(<<p, k>>)
    <3>1. <<p, k>> \notin Held(it[s]) /\ it[s].pc # "ended"
      BY <1>1, <1>4
    <3> QED
      BY <1>5, <3>1 DEF HandledInv, FetchedOK
  <2>2. k \in 1..pos'[p]
    BY <1>1
  <2> QED
    BY <1>3, <2>1, <2>2, KnownStays DEF Consume
<1>6. ASSUME NEW p \in Part, NEW k \in 1..pos'[p], owner[p] = s
      PROVE  Accounted(<<p, k>>)' \/ <<p, k>> \in Held(it'[s])
  <2>1. CASE k \in 1..pos[p]
    BY <1>5, <1>6, <2>1
  <2>2. CASE k \notin 1..pos[p]
    <3>1. k \in (pos[p] + 1)..pos'[p]
      BY <1>1, <2>2
    <3> QED
      BY <1>1, <1>3, <3>1
  <2> QED
    BY <2>1, <2>2
<1>7. HoldsRest(it[s])'
  <2>1. ASSUME NEW p \in Part, NEW k \in 1..it'[s].hi[p]
        PROVE  Accounted(<<p, k>>)' \/ <<p, k>> \in Held(it'[s])
    <3>1. it'[s].hi[p] > 0
      BY <1>1, <2>1
    <3> QED
      BY <1>1, <1>6, <2>1, <3>1
  <2> QED
    BY Zenon, <2>1 DEF HoldsRest, Held, Answered
<1>8. ASSUME NEW p \in Part, NEW k \in 1..pos'[p]
      PROVE  \/ Accounted(<<p, k>>)'
             \/ /\ owner'[p] \in Cs
                /\ <<p, k>> \in Held(it'[owner'[p]]) \/ it'[owner'[p]].pc = "ended"
  <2>1. CASE owner[p] = s
    BY <1>2, <1>6, <1>8, <2>1
  <2>2. CASE owner[p] # s
    <3>1. it'[s].hi[p] = 0
      BY <1>1, <2>2
    <3>2. k \in 1..pos[p]
      BY <1>1, <3>1
    <3>3. \/ Accounted(<<p, k>>)
          \/ /\ owner[p] \in Cs
             /\ <<p, k>> \in Held(it[owner[p]]) \/ it[owner[p]].pc = "ended"
      BY <3>2 DEF HandledInv, FetchedOK
    <3>4. Accounted(<<p, k>>) => Accounted(<<p, k>>)'
      BY <1>3, KnownStays DEF Consume
    <3>5. owner[p] \in Cs => it'[owner[p]] = it[owner[p]]
      BY <1>1, <2>2 DEF Only
    <3> QED
      BY <1>2, <3>3, <3>4, <3>5
  <2> QED
    BY <2>1, <2>2
<1>9. FetchedOK'
  BY Zenon, <1>8 DEF FetchedOK, Held, Answered
<1> QED
  BY <1>7, <1>9

\* Until the commit nothing leaves an iteration that is not accounted for.
LEMMA HandledServe ==
  ASSUME AckAssumption, TypeOK, TypeOK', HandledInv, NEW s \in Cs, Consume(s), ~Fetch(s)
  PROVE  HoldsRest(it[s])' /\ FetchedOK'
<1>1. /\ Only(s) /\ pos' = pos /\ owner' = owner
      /\ it'[s].hi = it[s].hi \/ \A p \in Part : it'[s].hi[p] = 0
  BY HeldMoves, ConsumeKeeps
<1>2. it[s] \in Iteration /\ it'[s] \in Iteration /\ IterationOK(it[s], s)
  BY ItType DEF TypeOK
<1>3. \A a \in Held(it[s]) : a \in Held(it'[s]) \/ Accounted(a)' \/ it'[s].pc = "ended"
  BY HeldGoes DEF HandledInv
<1>4. it[s].pc # "ended"
  BY Zenon DEF Consume, Fetch, Lookup, LookupFails, Local, LocalDone, Forward, RelayAck, CallFails,
         CallDone, LookupAgain, RetryLocal, RetryRelay, RetryFails, RetryDone, CommitMessages,
         CommitFails, AllForwarded
<1>5. it'[s].pc = "ended" => \A p \in Part : it'[s].hi[p] = 0
  <2>1. IterationOK(it[s], s)'
    BY DEF TypeOK
  <2> QED
    BY <2>1 DEF IterationOK, Idle
<1>6. \A p \in Part : /\ \A k \in 1..it[s].hi[p] : <<p, k>> \in AckId
                      /\ \A k \in 1..pos[p] : <<p, k>> \in AckId
  <2> SUFFICES ASSUME NEW p \in Part
               PROVE  /\ \A k \in 1..it[s].hi[p] : <<p, k>> \in AckId
                      /\ \A k \in 1..pos[p] : <<p, k>> \in AckId
    OBVIOUS
  <2>1. 1..it[s].hi[p] \subseteq 1..Len(Log[p]) /\ 1..pos[p] \subseteq 1..Len(Log[p])
    BY <1>2, OffsetType DEF Offsets, IterationOK
  <2> QED
    BY <2>1, AckIdHas
<1>7. HoldsRest(it[s])'
  <2>1. CASE \A p \in Part : it'[s].hi[p] = 0
    BY <2>1 DEF HoldsRest
  <2>2. CASE it'[s].hi = it[s].hi /\ ~\A p \in Part : it'[s].hi[p] = 0
    <3>1. ASSUME NEW p \in Part, NEW k \in 1..it[s].hi[p]
          PROVE  Accounted(<<p, k>>)' \/ <<p, k>> \in Held(it'[s])
      <4>1. Accounted(<<p, k>>) \/ <<p, k>> \in Held(it[s])
        BY <3>1 DEF HandledInv, HoldsRest
      <4> QED
        BY <1>3, <1>5, <1>6, <2>2, <3>1, <4>1, KnownStays
    <3> QED
      BY Zenon, <2>2, <3>1 DEF HoldsRest, Held, Answered
  <2> QED
    BY <1>1, <2>1, <2>2
<1>8. ASSUME NEW p \in Part, NEW k \in 1..pos[p]
      PROVE  \/ Accounted(<<p, k>>)'
             \/ /\ owner[p] \in Cs
                /\ <<p, k>> \in Held(it'[owner[p]]) \/ it'[owner[p]].pc = "ended"
  <2>1. \/ Accounted(<<p, k>>)
        \/ /\ owner[p] \in Cs
           /\ <<p, k>> \in Held(it[owner[p]]) \/ it[owner[p]].pc = "ended"
    BY <1>8 DEF HandledInv, FetchedOK
  <2>2. Accounted(<<p, k>>) => Accounted(<<p, k>>)'
    BY <1>6, <1>8, KnownStays
  <2>3. owner[p] \in Cs \ {s} => it'[owner[p]] = it[owner[p]]
    BY <1>1 DEF Only
  <2> QED
    BY <1>3, <1>4, <2>1, <2>2, <2>3
<1>9. FetchedOK'
  BY Zenon, <1>1, <1>8 DEF FetchedOK, Held, Answered
<1> QED
  BY <1>7, <1>9

LEMMA HandledConsume ==
  ASSUME AckAssumption, TypeOK, TypeOK', HandledInv, NEW s \in Cs, Consume(s)
  PROVE  HandledInv'
<1>1. HoldsRest(it[s])' /\ FetchedOK' /\ Only(s)
  BY HandledFetch, HandledServe, FetchDoes, HeldMoves
<1>2. ListsOK(it[s], s)'
  BY ListsStep DEF HandledInv
<1>3. ASSUME NEW t \in Cs \ {s} PROVE ListsOK(it[t], t)' /\ HoldsRest(it[t])'
  <2>1. it'[t] = it[t] /\ it[t] \in Iteration /\ IterationOK(it[t], t)
    BY <1>1, ItType DEF Only
  <2>2. /\ it[t].todo \subseteq AckId
        /\ \A c \in Cs : it[t].remote[c] \subseteq AckId /\ it[t].retry[c] \subseteq AckId
    BY <2>1 DEF Iteration
  <2>3. it[t].pc = "call" => NotFound(it[t]) \subseteq AckId
    BY <2>1, <2>2 DEF NotFound, IterationOK
  <2>4. online' = online /\ changes' = changes
    BY ConsumeKeeps DEF records
  <2>5. ListsOK(it[t], t)'
    <3>1. /\ \A c \in Cs : \A a \in it'[t].remote[c] : online'[From(a)] = c \/ changes'[From(a)] > 0
          /\ \A c \in Cs : \A a \in it'[t].retry[c] : LookedUp(a, c)'
      BY <2>1, <2>2, <2>4, KnownStays DEF ListsOK, HandledInv
    <3>2. /\ it'[t].pc = "call" => \A a \in NotFound(it'[t]) : NotThere(a)'
          /\ it'[t].pc = "again" => \A a \in it'[t].todo : NotThere(a)'
          /\ it'[t].pc = "retry" => \A a \in it'[t].todo : LookedUp(a, t)'
      BY <2>1, <2>2, <2>3, KnownStays DEF ListsOK, HandledInv
    <3> QED
      BY Zenon, <3>1, <3>2 DEF ListsOK, NotFound, NotThere, LookedUp, Handled, From
  <2>6. HoldsRest(it[t])'
    <3>1. ASSUME NEW p \in Part, NEW k \in 1..it[t].hi[p]
          PROVE  Accounted(<<p, k>>)' \/ <<p, k>> \in Held(it[t])
      <4>1. it[t].hi[p] \in Offsets(p) /\ Len(Log[p]) \in Nat
        BY <2>1, OffsetType DEF IterationOK
      <4>2. <<p, k>> \in AckId
        BY <3>1, <4>1, AckIdHas DEF Offsets
      <4> QED
        BY <3>1, <4>2, KnownStays DEF HandledInv, HoldsRest
    <3> QED
      BY Zenon, <2>1, <3>1 DEF HoldsRest, Held, Answered
  <2> QED
    BY <2>5, <2>6
<1>4. ASSUME NEW p \in Part, NEW k \in 1..committed'[p] PROVE Accounted(<<p, k>>)'
  <2>1. <<p, k>> \in AckId
    <3>1. k \in 1..Len(Log[p])
      BY OffsetType, NewOffsetType DEF Offsets
    <3> QED
      BY <3>1, AckIdHas
  <2>2. CASE committed'[p] = committed[p]
    BY <1>4, <2>1, <2>2, KnownStays DEF HandledInv
  <2>3. CASE committed'[p] # committed[p]
    <3>1. CommitMessages(s)
      BY Zenon, <2>3 DEF Consume, Fetch, Lookup, LookupFails, Local, LocalDone, Forward, RelayAck,
             CallFails, CallDone, LookupAgain, RetryLocal, RetryRelay, RetryFails, RetryDone,
             CommitFails, kafka
    <3>2. /\ it[s].pc = "remote" /\ \A c \in Cs : it[s].remote[c] = {}
          /\ committed'[p] = it[s].hi[p]
      BY <2>3, <3>1 DEF CommitMessages, AllForwarded
    <3>3. <<p, k>> \notin Held(it[s])
      BY SMTT(30), <3>2, ItType, HeldIs DEF IterationOK, Idle
    <3>4. Accounted(<<p, k>>)
      BY <1>4, <3>2, <3>3 DEF HandledInv, HoldsRest
    <3> QED
      BY <2>1, <3>4, KnownStays
  <2> QED
    BY <2>2, <2>3
<1> QED
  BY <1>1, <1>2, <1>3, <1>4 DEF HandledInv

(***************************************************************************)
(* What is committed was handled, or met a sender without a record or a    *)
(* record that pointed where he was not, for every sender whose record     *)
(* changes once at most: by an invariant of where each ack is and what its *)
(* place says of the sender's record, over failed calls, lookups and       *)
(* commits, crashes and rebalances.                                        *)
(***************************************************************************)
THEOREM CommittedAcksWereHandled == Spec => []CommittedIsHandled
<1>1. Init => TypeOK /\ HandledInv
  <2> SUFFICES ASSUME Init PROVE TypeOK /\ HandledInv
    OBVIOUS
  <2>1. TypeOK
    BY AckAssumption, InitType
  <2>2. \A p \in Part : pos[p] = 0 /\ committed[p] = 0
    BY DEF Init
  <2>3. FetchedOK /\ \A p \in Part : \A k \in 1..committed[p] : Accounted(<<p, k>>)
    BY <2>2 DEF FetchedOK
  <2>4. ASSUME NEW s \in Cs PROVE ListsOK(it[s], s) /\ HoldsRest(it[s])
    <3>1. /\ it[s].pc = "fetch" /\ \A p \in Part : it[s].hi[p] = 0
          /\ \A c \in Cs : it[s].remote[c] = {} /\ it[s].retry[c] = {}
      BY DEF Init, Idle
    <3> QED
      BY <3>1 DEF ListsOK, HoldsRest
  <2> QED
    BY <2>1, <2>3, <2>4 DEF HandledInv
<1>2. TypeOK /\ HandledInv /\ [Next]_vars => (TypeOK /\ HandledInv)'
  <2> SUFFICES ASSUME TypeOK, HandledInv, [Next]_vars PROVE TypeOK' /\ HandledInv'
    OBVIOUS
  <2>1. TypeOK'
    BY AckAssumption, NextType
  <2> QED
    BY <2>1, AckAssumption, EnvironmentAside, HandledAside, HandledConsume DEF Next
<1>3. HandledInv => CommittedIsHandled
  BY DEF HandledInv, Accounted, Handled, From, CommittedIsHandled
<1> QED
  BY <1>1, <1>2, <1>3, PTL DEF Spec
=============================================================================
