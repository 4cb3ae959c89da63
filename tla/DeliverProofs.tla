--------------------------- MODULE DeliverProofs ---------------------------
(***************************************************************************)
(* What is committed was answered, what is answered is true, and who stays *)
(* connected sees its pushes in order: for any receivers, servers, pushes  *)
(* and batches, any connections that come and go, crashes, lost calls and  *)
(* failed lookups.                                                         *)
(***************************************************************************)
EXTENDS Deliver, TLAPS

-----------------------------------------------------------------------------
(***************************************************************************)
(* Where a push of the batch is.                                           *)
(***************************************************************************)
To(p) == ToUid[p]

\* Or its receiver's record has changed too often, or it was missed.
AnsweredOne(p) == changes[To(p)] > 1 \/ p \in acked \cup notified \cup full \cup missed

\* A goroutine has it, and a full channel has not ended that.
Has(g, p) == (p \in g.list /\ g.res[p] # "send_full") \/ p \in g.todo \/ p = g.push

Working(p) == p \in wk.todo \cup wk.pending \cup wk.offline \/ \E s \in Cs : Has(grp[s], p)

\* It is in a Send channel of its receiver, or was.
Enqueued(p) == Contains(got[To(p)], p) \/ Contains(send[To(p)], p)

\* It has not been offered to a channel yet, or not for the last time.
Waits(g, p) == p \in With(g, "none") \/ p \in g.todo \/ p = g.push

Waiting(p) == p \in wk.todo \/ \E s \in Cs : Waits(grp[s], p)

(***************************************************************************)
(* While nobody comes or goes and no server crashes, records are true; the *)
(* cache is until a record changes.  A first lookup has found what the     *)
(* record says unless that has changed; after a not_found of a push that   *)
(* was not missed it has, and the second lookup has found its new value    *)
(* unless it has changed once more.                                        *)
(***************************************************************************)
RecordsOK ==
  /\ faults.down = 0 => up = Cs
  /\ Steady => /\ online = at /\ \A s \in Cs : op[s] = NoOp
               /\ missed = {} /\ \A u \in Uid : left[u] = {} /\ changes[u] = 0

CacheOK == \A u \in Uid : changes[u] = 0 => cache[u] \in {Unknown, online[u]}

SingleOK(g) ==
  /\ g.stage = "get" /\ g.second =>
       \/ g.push \in missed \/ changes[To(g.push)] > 1
       \/ changes[To(g.push)] = 1 /\ cache[To(g.push)] \in {Unknown, online[To(g.push)]}
  /\ g.stage = "relay" /\ g.second =>
       \/ g.push \in missed \/ changes[To(g.push)] > 1
       \/ changes[To(g.push)] = 1 /\ g.addr = online[To(g.push)]
  /\ g.stage = "relay" /\ ~g.second => changes[To(g.push)] > 0 \/ g.addr = online[To(g.push)]
  /\ faults.route = 0 /\ faults.down = 0 => g.try <= faults.rpc + 1

RoutesOK == RecordsOK /\ CacheOK /\ \A s \in Cs : SingleOK(grp[s])

\* Every push of the batch is answered, or the worker has it.
FetchedOK ==
  Gentle => /\ \A p \in 1..committed : AnsweredOne(p)
            /\ \A p \in (committed + 1)..wk.hi : AnsweredOne(p) \/ Working(p)

(***************************************************************************)
(* What is acked, or will be, is in a channel or was.                      *)
(***************************************************************************)
AcksOK ==
  Steady => /\ \A p \in acked \cup wk.pending : Enqueued(p)
            /\ \A s \in Cs : \A p \in With(grp[s], "delivered") : Enqueued(p)

\* Who is notified is offline, and who is offline is notified.
NotifiesOK ==
  Steady /\ faults.route = 0 =>
    /\ \A p \in notified \cup wk.offline : at[To(p)] = NoCs
    /\ \A p \in 1..committed : at[To(p)] = NoCs => p \in notified
    /\ \A p \in (committed + 1)..wk.hi :
         at[To(p)] = NoCs => p \in wk.todo \cup wk.offline \cup notified

(***************************************************************************)
(* The order of what a receiver sees.                                      *)
(***************************************************************************)
Lists(g) == g.list \cup g.todo \cup {g.push}

InBatch ==
  /\ \A p \in wk.todo : p <= wk.hi
  /\ \A s \in Cs : \A p \in Lists(grp[s]) : p <= wk.hi

Smooth == Steady /\ Gentle /\ full = {}

\* Whatever is in a channel comes after all earlier pushes of its receiver.
Stream(g, c, u) ==
  /\ \A i, j \in DOMAIN g : i < j => g[i] < g[j]
  /\ \A i \in DOMAIN g : \A q \in Push : To(q) = u /\ q < g[i] => Contains(g, q)
  /\ \A i \in DOMAIN c : \A q \in Push :
       To(q) = u /\ q < c[i] => Contains(g, q) \/ \E j \in 1..(i - 1) : c[j] = q

StreamOK(u) == Stream(got[u], send[u], u)

OrderOK ==
  Smooth =>
    /\ \A s \in Cs : \A p \in Lists(grp[s]) \cap Push : at[To(p)] = s
    /\ \A p \in 1..committed : at[To(p)] # NoCs => Enqueued(p)
    /\ \A p \in (committed + 1)..wk.hi : at[To(p)] # NoCs => Enqueued(p) \/ Waiting(p)
    /\ \A u \in Uid : StreamOK(u)

-----------------------------------------------------------------------------
(***************************************************************************)
(* The type of each part of the state, and what a step leaves of it.       *)
(***************************************************************************)
ServersOK ==
  /\ at \in [Uid -> Cs \cup {NoCs}] /\ left \in [Uid -> SUBSET Cs]
  /\ \A u \in Uid : at[u] \notin left[u]
  /\ op \in [Cs -> Ops \cup {NoOp}]
  /\ online \in [Uid -> Cs \cup {NoCs}] /\ changes \in [Uid -> Nat]
  /\ up \subseteq Cs /\ missed \subseteq Push

ChannelsOK ==
  /\ send \in [Uid -> Seq(Push)] /\ got \in [Uid -> Seq(Push)] /\ full \subseteq Push
  /\ \A u \in Uid : /\ \A i \in DOMAIN send[u] : ToUid[send[u][i]] = u
                    /\ \A i \in DOMAIN got[u] : ToUid[got[u][i]] = u
                    /\ Len(send[u]) <= SendMax

RouterOK == cache \in [Uid -> Cs \cup {NoCs, Unknown}]

TopicsOK == committed \in 0..Len(ToUid) /\ acked \subseteq Push /\ notified \subseteq Push

GroupsOK == grp \in [Cs -> Goroutine] /\ \A s \in Cs : GoroutineOK(grp[s])

BatchOK == wk \in Iteration /\ WorkerOK /\ GroupsOK

FaultsOK == faults \in [move : Nat, rpc : Nat, down : Nat, route : Nat, crash : Nat]

\* Nothing lies above a number and below 1.
LEMMA NoneAbove == ASSUME NEW n \in Nat PROVE (n + 1)..0 = {}
  OBVIOUS

LEMMA TypeParts ==
  /\ TypeOK <=> ServersOK /\ ChannelsOK /\ RouterOK /\ TopicsOK /\ BatchOK /\ FaultsOK
  /\ TypeOK' <=> ServersOK' /\ ChannelsOK' /\ RouterOK' /\ TopicsOK' /\ BatchOK' /\ FaultsOK'
<1>1. TypeOK <=> ServersOK /\ ChannelsOK /\ RouterOK /\ TopicsOK /\ BatchOK /\ FaultsOK
  BY Zenon DEF TypeOK, ServersOK, ChannelsOK, RouterOK, TopicsOK, BatchOK, GroupsOK, FaultsOK
<1>2. TypeOK' <=> ServersOK' /\ ChannelsOK' /\ RouterOK' /\ TopicsOK' /\ BatchOK' /\ FaultsOK'
  BY Zenon DEF TypeOK, ServersOK, ChannelsOK, RouterOK, TopicsOK, BatchOK, GroupsOK, FaultsOK
<1> QED
  BY <1>1, <1>2

LEMMA PushType ==
  ASSUME DeliverAssumption
  PROVE  /\ Push = 1..Len(ToUid) /\ Len(ToUid) \in Nat
         /\ \A p \in Push : ToUid[p] \in Uid /\ p \in Nat /\ p > 0
         /\ 0 \notin Push
         /\ NoCs \notin Cs /\ Unknown \notin Cs /\ Unknown # NoCs
         /\ BatchMax \in Nat /\ SendMax \in Nat /\ Attempts \in Nat /\ Attempts >= 1
<1>1. ToUid \in Seq(Uid) /\ NoCs \notin Cs /\ Unknown \notin Cs /\ Unknown # NoCs
  BY DEF DeliverAssumption
<1>2. Push = 1..Len(ToUid) /\ Len(ToUid) \in Nat /\ \A p \in Push : ToUid[p] \in Uid
  BY <1>1 DEF Push
<1>3. BatchMax \in Nat /\ SendMax \in Nat /\ Attempts \in Nat \ {0}
  BY DEF DeliverAssumption
<1> QED
  BY <1>1, <1>2, <1>3

LEMMA BatchStays ==
  ASSUME TypeOK, UNCHANGED <<wk, grp, committed>>
  PROVE  BatchOK'
<1>1. BatchOK
  BY TypeParts
<1>2. GroupsOK'
  BY <1>1 DEF BatchOK, GroupsOK, GoroutineOK, IdleGroup
<1>3. WorkerOK'
  BY <1>1 DEF BatchOK, WorkerOK
<1> QED
  BY <1>1, <1>2, <1>3 DEF BatchOK

LEMMA PartsKept ==
  ASSUME TypeOK
  PROVE  /\ UNCHANGED presence /\ missed' \subseteq Push => ServersOK'
         /\ UNCHANGED <<presence, missed>> => ServersOK'
         /\ UNCHANGED <<send, got, full>> => ChannelsOK'
         /\ cache' = cache => RouterOK'
         /\ UNCHANGED topics => TopicsOK'
         /\ UNCHANGED <<wk, grp, committed>> => BatchOK'
         /\ faults' = faults => FaultsOK'
<1>1. ServersOK /\ ChannelsOK /\ RouterOK /\ TopicsOK /\ BatchOK /\ FaultsOK
  BY TypeParts
<1>2. /\ UNCHANGED presence /\ missed' \subseteq Push => ServersOK'
      /\ UNCHANGED <<presence, missed>> => ServersOK'
  <2>1. ASSUME UNCHANGED presence, missed' \subseteq Push PROVE ServersOK'
    BY <1>1, <2>1 DEF ServersOK, presence
  <2> QED
    BY <1>1, <2>1 DEF ServersOK
<1>3. UNCHANGED <<send, got, full>> => ChannelsOK'
  BY <1>1 DEF ChannelsOK
<1>4. cache' = cache => RouterOK'
  BY <1>1 DEF RouterOK
<1>5. UNCHANGED topics => TopicsOK'
  BY <1>1 DEF TopicsOK, topics
<1>6. faults' = faults => FaultsOK'
  BY <1>1 DEF FaultsOK
<1> QED
  BY <1>2, <1>3, <1>4, <1>5, <1>6, BatchStays

Kinds == {"move", "rpc", "down", "route", "crash"}

LEMMA HitCounts ==
  ASSUME TypeOK, NEW k \in Kinds, NEW bound, Hit(k, bound)
  PROVE  /\ FaultsOK' /\ faults'[k] = faults[k] + 1
         /\ \A l \in Kinds \ {k} : faults'[l] = faults[l]
<1>1. faults \in [move : Nat, rpc : Nat, down : Nat, route : Nat, crash : Nat]
  BY DEF TypeOK
<1>2. faults' = [faults EXCEPT ![k] = @ + 1]
  BY DEF Hit
<1>3. CASE k = "move"
  BY <1>1, <1>2, <1>3 DEF FaultsOK, Kinds
<1>4. CASE k = "rpc"
  BY <1>1, <1>2, <1>4 DEF FaultsOK, Kinds
<1>5. CASE k = "down"
  BY <1>1, <1>2, <1>5 DEF FaultsOK, Kinds
<1>6. CASE k = "route"
  BY <1>1, <1>2, <1>6 DEF FaultsOK, Kinds
<1>7. CASE k = "crash"
  BY <1>1, <1>2, <1>7 DEF FaultsOK, Kinds
<1> QED
  BY <1>3, <1>4, <1>5, <1>6, <1>7 DEF Kinds

(***************************************************************************)
(* The channels.                                                           *)
(***************************************************************************)
LEMMA AppendIs ==
  ASSUME NEW S, NEW q \in Seq(S), NEW x \in S
  PROVE  /\ Append(q, x) \in Seq(S) /\ Len(q) \in Nat /\ DOMAIN q = 1..Len(q)
         /\ Len(Append(q, x)) = Len(q) + 1 /\ DOMAIN Append(q, x) = 1..(Len(q) + 1)
         /\ Append(q, x)[Len(q) + 1] = x
         /\ \A i \in 1..Len(q) : Append(q, x)[i] = q[i] /\ q[i] \in S
OBVIOUS

LEMMA TailIs ==
  ASSUME NEW S, NEW q \in Seq(S), q # <<>>
  PROVE  /\ Len(q) \in Nat /\ Len(q) >= 1 /\ DOMAIN q = 1..Len(q)
         /\ Head(q) = q[1] /\ Head(q) \in S
         /\ Tail(q) \in Seq(S) /\ Len(Tail(q)) = Len(q) - 1
         /\ DOMAIN Tail(q) = 1..(Len(q) - 1)
         /\ \A i \in 1..(Len(q) - 1) : Tail(q)[i] = q[i + 1]
OBVIOUS

LEMMA EnqueueDoes ==
  ASSUME DeliverAssumption, TypeOK, NEW p \in Push, NEW s, Enqueue(p, s), got' = got
  PROVE  /\ ChannelsOK' /\ full \subseteq full'
         /\ Answer(p, s) \in {"delivered", "not_found", "send_full"}
         /\ Answer(p, s) = "not_found" => at[To(p)] # s
         /\ Answer(p, s) = "send_full" => p \in full'
         /\ IF Answer(p, s) = "delivered" /\ at[To(p)] = s
            THEN send' = [send EXCEPT ![To(p)] = Append(@, p)] ELSE send' = send
<1>1. To(p) \in Uid /\ SendMax \in Nat
  BY PushType DEF To
<1>2. ChannelsOK
  BY TypeParts
<1>3. /\ Answer(p, s) \in {"delivered", "not_found", "send_full"}
      /\ Answer(p, s) = "not_found" => at[To(p)] # s
      /\ Answer(p, s) = "delivered" /\ at[To(p)] = s => Len(send[To(p)]) # SendMax
  BY DEF Answer, To
<1>4. CASE Answer(p, s) = "delivered" /\ at[To(p)] = s
  <2>1. send' = [send EXCEPT ![To(p)] = Append(@, p)] /\ full' = full
    BY <1>4 DEF Enqueue, To
  <2>2. /\ send[To(p)] \in Seq(Push) /\ Len(send[To(p)]) < SendMax
        /\ \A i \in DOMAIN send[To(p)] : ToUid[send[To(p)][i]] = To(p)
    BY <1>1, <1>2, <1>3, <1>4 DEF ChannelsOK
  <2>3. /\ Append(send[To(p)], p) \in Seq(Push) /\ Len(Append(send[To(p)], p)) <= SendMax
        /\ \A i \in DOMAIN Append(send[To(p)], p) : ToUid[Append(send[To(p)], p)[i]] = To(p)
    <3> DEFINE q == send[To(p)]
    <3>1. /\ Append(q, p) \in Seq(Push) /\ Len(q) \in Nat /\ DOMAIN q = 1..Len(q)
          /\ Len(Append(q, p)) = Len(q) + 1 /\ DOMAIN Append(q, p) = 1..(Len(q) + 1)
          /\ Append(q, p)[Len(q) + 1] = p
          /\ \A i \in 1..Len(q) : Append(q, p)[i] = q[i]
      BY SMTT(30), <2>2, AppendIs
    <3>2. Len(q) < SendMax /\ ToUid[p] = To(p) /\ \A i \in DOMAIN q : ToUid[q[i]] = To(p)
      BY <2>2 DEF To
    <3> HIDE DEF q
    <3>3. /\ Append(q, p) \in Seq(Push) /\ Len(Append(q, p)) <= SendMax
          /\ \A i \in DOMAIN Append(q, p) : ToUid[Append(q, p)[i]] = To(p)
      BY SMTT(30), <1>1, <3>1, <3>2
    <3> QED
      BY Zenon, <3>3 DEF q
  <2>4. ChannelsOK'
    <3>1. send' \in [Uid -> Seq(Push)] /\ send'[To(p)] = Append(send[To(p)], p)
          /\ \A u \in Uid \ {To(p)} : send'[u] = send[u]
      BY Zenon, <1>1, <1>2, <2>1, <2>3 DEF ChannelsOK
    <3>2. ASSUME NEW u \in Uid
          PROVE  (\A i \in DOMAIN send'[u] : ToUid[send'[u][i]] = u) /\ Len(send'[u]) <= SendMax
      <4>1. CASE u = To(p)
        BY Zenon, <2>3, <3>1, <4>1
      <4>2. CASE u # To(p)
        BY Zenon, <1>2, <3>1, <4>2 DEF ChannelsOK
      <4> QED
        BY <4>1, <4>2
    <3> QED
      BY Zenon, <1>2, <2>1, <3>1, <3>2 DEF ChannelsOK
  <2> QED
    BY <1>3, <1>4, <2>1, <2>4
<1>5. CASE ~(Answer(p, s) = "delivered" /\ at[To(p)] = s)
  <2>1. send' = send /\ full' = IF Answer(p, s) = "send_full" THEN full \cup {p} ELSE full
    BY <1>5 DEF Enqueue, To
  <2>2. ChannelsOK'
    BY <1>2, <2>1 DEF ChannelsOK
  <2> QED
    BY <1>3, <1>5, <2>1, <2>2
<1> QED
  BY <1>4, <1>5

LEMMA WriteDoes ==
  ASSUME DeliverAssumption, TypeOK, NEW u \in Uid, Write(u)
  PROVE  /\ ChannelsOK' /\ full' = full
         /\ send[u] # <<>> /\ Head(send[u]) \in Push /\ To(Head(send[u])) = u
         /\ send' = [send EXCEPT ![u] = Tail(@)]
         /\ got' = [got EXCEPT ![u] = IF Contains(@, Head(send[u])) THEN @ ELSE Append(@, Head(send[u]))]
<1>1. ChannelsOK
  BY TypeParts
<1>2. /\ send[u] # <<>> /\ full' = full
      /\ send' = [send EXCEPT ![u] = Tail(@)]
      /\ got' = [got EXCEPT ![u] = IF Contains(@, Head(send[u])) THEN @ ELSE Append(@, Head(send[u]))]
  BY DEF Write
<1>3. /\ send[u] \in Seq(Push) /\ got[u] \in Seq(Push) /\ Len(send[u]) <= SendMax
      /\ \A i \in DOMAIN send[u] : ToUid[send[u][i]] = u
      /\ \A i \in DOMAIN got[u] : ToUid[got[u][i]] = u
  BY <1>1 DEF ChannelsOK
<1>4. /\ Head(send[u]) \in Push /\ ToUid[Head(send[u])] = u
      /\ Tail(send[u]) \in Seq(Push) /\ Len(Tail(send[u])) <= Len(send[u])
      /\ \A i \in DOMAIN Tail(send[u]) : ToUid[Tail(send[u])[i]] = u
  <2> DEFINE q == send[u]
  <2>1. q \in Seq(Push) /\ q # <<>> /\ \A i \in DOMAIN q : ToUid[q[i]] = u
    BY <1>2, <1>3
  <2> HIDE DEF q
  <2>2. /\ Len(q) \in Nat /\ Len(q) >= 1 /\ DOMAIN q = 1..Len(q)
        /\ Head(q) = q[1] /\ Head(q) \in Push
        /\ Tail(q) \in Seq(Push) /\ Len(Tail(q)) = Len(q) - 1
        /\ DOMAIN Tail(q) = 1..(Len(q) - 1)
        /\ \A i \in 1..(Len(q) - 1) : Tail(q)[i] = q[i + 1]
    BY <2>1, TailIs
  <2>3. /\ Head(q) \in Push /\ ToUid[Head(q)] = u
        /\ Tail(q) \in Seq(Push) /\ Len(Tail(q)) <= Len(q)
        /\ \A i \in DOMAIN Tail(q) : ToUid[Tail(q)[i]] = u
    BY SMTT(60), <2>1, <2>2
  <2> QED
    BY Zenon, <2>3 DEF q
<1> DEFINE h == Head(send[u])
           g == IF Contains(got[u], h) THEN got[u] ELSE Append(got[u], h)
<1>5. /\ g \in Seq(Push) /\ \A i \in DOMAIN g : ToUid[g[i]] = u
  <2> DEFINE q == got[u]
  <2>1. q \in Seq(Push) /\ (\A i \in DOMAIN q : ToUid[q[i]] = u) /\ h \in Push /\ ToUid[h] = u
    BY <1>3, <1>4
  <2> HIDE DEF q, h
  <2>2. /\ Append(q, h) \in Seq(Push) /\ Len(q) \in Nat /\ DOMAIN q = 1..Len(q)
        /\ DOMAIN Append(q, h) = 1..(Len(q) + 1) /\ Append(q, h)[Len(q) + 1] = h
        /\ \A i \in 1..Len(q) : Append(q, h)[i] = q[i]
    BY <2>1, AppendIs
  <2>3. Append(q, h) \in Seq(Push) /\ \A i \in DOMAIN Append(q, h) : ToUid[Append(q, h)[i]] = u
    BY SMTT(30), <2>1, <2>2
  <2> QED
    BY Zenon, <2>1, <2>3 DEF q
<1>6. got' = [got EXCEPT ![u] = g]
  BY <1>2
<1> HIDE DEF g
<1>7. SendMax \in Nat /\ Len(Tail(send[u])) \in Nat /\ Len(send[u]) \in Nat
  BY SMTT(60), <1>3, <1>4, PushType
<1>8. /\ send' \in [Uid -> Seq(Push)] /\ send'[u] = Tail(send[u])
      /\ got' \in [Uid -> Seq(Push)] /\ got'[u] = g
      /\ \A v \in Uid \ {u} : send'[v] = send[v] /\ got'[v] = got[v]
  <2>1. send \in [Uid -> Seq(Push)] /\ got \in [Uid -> Seq(Push)]
    BY <1>1 DEF ChannelsOK
  <2>2. PICK q : q = Tail(send[u])
    OBVIOUS
  <2>3. send' = [send EXCEPT ![u] = q] /\ q \in Seq(Push) /\ g \in Seq(Push)
    BY <1>2, <1>4, <1>5, <2>2
  <2> QED
    BY Zenon, <1>6, <2>1, <2>2, <2>3
<1>9. ASSUME NEW v \in Uid
      PROVE  /\ \A i \in DOMAIN send'[v] : ToUid[send'[v][i]] = v
             /\ \A i \in DOMAIN got'[v] : ToUid[got'[v][i]] = v
             /\ Len(send'[v]) <= SendMax
  <2>1. CASE v = u
    <3>1. Len(Tail(send[u])) <= SendMax
      BY SMTT(30), <1>3, <1>4, <1>7
    <3> QED
      BY Zenon, <1>4, <1>5, <1>8, <2>1, <3>1
  <2>2. CASE v # u
    BY ZenonT(60), <1>1, <1>8, <2>2 DEF ChannelsOK
  <2> QED
    BY <2>1, <2>2
<1>10. ChannelsOK'
  BY Zenon, <1>1, <1>2, <1>8, <1>9 DEF ChannelsOK
<1> QED
  BY <1>2, <1>4, <1>10 DEF To

LEMMA RouterDoes ==
  ASSUME TypeOK, DeliverAssumption, NEW u \in Uid
  PROVE  /\ Get(u) \in Cs \cup {NoCs}
         /\ Remember(u) \/ Invalidate(u) => RouterOK'
         /\ Remember(u) => cache'[u] = Get(u) /\ \A v \in Uid \ {u} : cache'[v] = cache[v]
         /\ Invalidate(u) => cache'[u] = Unknown /\ \A v \in Uid \ {u} : cache'[v] = cache[v]
<1>1. cache \in [Uid -> Cs \cup {NoCs, Unknown}] /\ online \in [Uid -> Cs \cup {NoCs}]
  BY Zenon DEF TypeOK
<1>2. Get(u) \in Cs \cup {NoCs}
  BY <1>1, PushType DEF Get
<1>3. ASSUME NEW c \in Cs \cup {NoCs, Unknown}, cache' = [cache EXCEPT ![u] = c]
      PROVE  RouterOK' /\ cache'[u] = c /\ \A v \in Uid \ {u} : cache'[v] = cache[v]
  BY <1>1, <1>3 DEF RouterOK
<1>4. Remember(u) => RouterOK' /\ cache'[u] = Get(u) /\ \A v \in Uid \ {u} : cache'[v] = cache[v]
  BY Zenon, <1>2, <1>3 DEF Remember
<1>5. Invalidate(u) => RouterOK' /\ cache'[u] = Unknown /\ \A v \in Uid \ {u} : cache'[v] = cache[v]
  BY Zenon, <1>3 DEF Invalidate
<1> QED
  BY <1>2, <1>4, <1>5

-----------------------------------------------------------------------------
(***************************************************************************)
(* What each step of a goroutine does to it: the others stay, and it has   *)
(* the shape of its place in the code.                                     *)
(***************************************************************************)
LEMMA GroupType ==
  ASSUME TypeOK, NEW s \in Cs
  PROVE  /\ grp[s] \in Goroutine /\ GoroutineOK(grp[s])
         /\ wk \in Iteration /\ WorkerOK
         /\ grp[s].stage # "idle" => wk.pc = "relay" /\ wk.todo = {}
BY DEF TypeOK, WorkerOK

LEMMA IdleOK ==
  /\ IdleGroup \in Goroutine <=> 1 \in 1..Attempts
  /\ IdleGroup.stage = "idle" /\ IdleGroup.list = {} /\ IdleGroup.todo = {} /\ ~IdleGroup.moved
  /\ IdleGroup.push = 0 /\ IdleGroup.try = 1 /\ ~IdleGroup.second /\ IdleGroup.addr = NoCs
  /\ IdleGroup.res = [p \in Push |-> "none"] /\ IdleGroup.res \in [Push -> Answers]
  /\ GoroutineOK(IdleGroup)
<1>1. /\ IdleGroup.stage = "idle" /\ IdleGroup.list = {} /\ IdleGroup.todo = {} /\ ~IdleGroup.moved
      /\ IdleGroup.push = 0 /\ IdleGroup.try = 1 /\ ~IdleGroup.second /\ IdleGroup.addr = NoCs
      /\ IdleGroup.res = [p \in Push |-> "none"]
  BY DEF IdleGroup
<1>2. [p \in Push |-> "none"] \in [Push -> Answers]
  BY DEF Answers
<1>3. GoroutineOK(IdleGroup)
  BY <1>1 DEF GoroutineOK
<1>4. IdleGroup \in Goroutine <=> 1 \in 1..Attempts
  BY <1>2 DEF IdleGroup, Goroutine, Stages
<1> QED
  BY <1>1, <1>2, <1>3, <1>4

\* Nothing but the goroutine of s changes.
Only(s) == \A t \in Cs \ {s} : grp'[t] = grp[t]

LEMMA OnlyOf ==
  ASSUME TypeOK, NEW s \in Cs, NEW j \in Goroutine, GoroutineOK(j), grp' = [grp EXCEPT ![s] = j]
  PROVE  GroupsOK' /\ grp'[s] = j /\ Only(s)
<1>1. grp \in [Cs -> Goroutine] /\ \A t \in Cs : GoroutineOK(grp[t])
  BY DEF TypeOK
<1>2. grp' \in [Cs -> Goroutine] /\ grp'[s] = j /\ \A t \in Cs \ {s} : grp'[t] = grp[t]
  BY <1>1
<1>3. \A t \in Cs : GoroutineOK(grp'[t])
  BY <1>1, <1>2
<1>4. \A t \in Cs : GoroutineOK(grp[t])' <=> GoroutineOK(grp'[t])
  BY DEF GoroutineOK, IdleGroup
<1> QED
  BY <1>2, <1>3, <1>4 DEF GroupsOK, Only

\* The worker waits for the goroutines, and they only add to what it collects.
Collects ==
  /\ wk' \in Iteration /\ wk'.pc = wk.pc /\ wk'.hi = wk.hi /\ wk'.todo = wk.todo
  /\ wk.pending \subseteq wk'.pending /\ wk.offline \subseteq wk'.offline

LEMMA CollectsOK ==
  ASSUME TypeOK, NEW s \in Cs, grp[s].stage # "idle", Only(s), GroupsOK', Collects,
         committed' = committed, grp'[s].stage = "idle" => grp'[s].list = {}
  PROVE  BatchOK' /\ wk.pc = "relay" /\ wk.todo = {} /\ \E t \in Cs : t = s
<1>1. WorkerOK /\ wk.pc = "relay" /\ wk.todo = {} /\ wk.hi > committed
  BY GroupType DEF WorkerOK
<1>2. \A t \in Cs : grp'[t].stage = "idle" => grp'[t].list = {}
  BY <1>1 DEF Only, WorkerOK
<1>3. WorkerOK'
  BY <1>1, <1>2 DEF Collects, WorkerOK
<1> QED
  BY <1>1, <1>3 DEF BatchOK, Collects

LEMMA WorkKept ==
  ASSUME TypeOK, wk' = wk
  PROVE  Collects
BY DEF TypeOK, Collects

LEMMA OneByOneDoes ==
  ASSUME DeliverAssumption, TypeOK, NEW s \in Cs, NEW pushes \in SUBSET Push, NEW m \in BOOLEAN,
         OneByOne(s, pushes, m)
  PROVE  /\ GroupsOK' /\ Only(s) /\ grp'[s].stage = "next" /\ grp'[s].list = {}
         /\ grp'[s].todo = pushes /\ grp'[s].push = 0 /\ grp'[s].try = 1 /\ ~grp'[s].second
         /\ grp'[s].res = IdleGroup.res
<1>1. PICK j : j = [IdleGroup EXCEPT !.stage = "next", !.todo = pushes, !.moved = m]
  OBVIOUS
<1>2. IdleGroup \in Goroutine
  BY PushType, IdleOK
<1>3. /\ j \in Goroutine /\ j.stage = "next" /\ j.list = IdleGroup.list /\ j.todo = pushes
      /\ j.push = IdleGroup.push /\ j.try = IdleGroup.try /\ j.second = IdleGroup.second
      /\ j.addr = IdleGroup.addr /\ j.res = IdleGroup.res
  BY Zenon, <1>1, <1>2 DEF Goroutine, Stages
<1>4. GoroutineOK(j)
  BY <1>3, IdleOK DEF GoroutineOK
<1>5. grp' = [grp EXCEPT ![s] = j]
  BY <1>1 DEF OneByOne
<1>6. GroupsOK' /\ grp'[s] = j /\ Only(s)
  BY Zenon, <1>3, <1>4, <1>5, OnlyOf
<1> QED
  BY <1>3, <1>6, IdleOK

BatchRelays(s, p) ==
  /\ BatchOK' /\ ChannelsOK' /\ Only(s) /\ wk' = wk /\ wk.pc = "relay" /\ wk.todo = {}
  /\ p \in Push /\ p \in First(With(grp[s], "none")) /\ Enqueue(p, s)
  /\ grp[s].stage = "batch" /\ grp'[s].stage = "batch" /\ grp'[s].list = grp[s].list
  /\ grp[s].todo = {} /\ grp'[s].todo = {} /\ grp[s].push = 0 /\ grp'[s].push = 0
  /\ grp'[s].try = 1 /\ ~grp'[s].second
  /\ grp[s].res[p] = "none" /\ grp'[s].res[p] = Answer(p, s)
  /\ \A q \in Push \ {p} : grp'[s].res[q] = grp[s].res[q]

LEMMA BatchRelayDoes ==
  ASSUME DeliverAssumption, TypeOK, NEW s \in Cs, BatchRelay(s)
  PROVE  \E p \in grp[s].list : BatchRelays(s, p)
<1>1. PICK p \in First(With(grp[s], "none")) :
        Enqueue(p, s) /\ grp' = [grp EXCEPT ![s].res[p] = Answer(p, s)]
  BY Zenon DEF BatchRelay
<1>2. /\ grp[s] \in Goroutine /\ GoroutineOK(grp[s]) /\ grp[s].stage = "batch"
      /\ wk.pc = "relay" /\ wk.todo = {}
  BY GroupType DEF BatchRelay
<1>3. p \in grp[s].list /\ p \in Push /\ grp[s].res[p] = "none"
  BY <1>1, <1>2 DEF First, With, Goroutine
<1>4. UNCHANGED <<got, wk, committed>>
  BY DEF BatchRelay, topics
<1>5. ChannelsOK' /\ Answer(p, s) \in Answers
  BY <1>1, <1>3, <1>4, EnqueueDoes DEF Answers
<1>6. PICK r : r = [grp[s].res EXCEPT ![p] = Answer(p, s)]
  OBVIOUS
<1>7. /\ r \in [Push -> Answers] /\ r[p] = Answer(p, s)
      /\ \A q \in Push \ {p} : r[q] = grp[s].res[q]
  BY <1>2, <1>3, <1>5, <1>6 DEF Goroutine
<1>8. PICK j : j = [grp[s] EXCEPT !.res = r]
  OBVIOUS
<1>9. /\ j \in Goroutine /\ j.stage = "batch" /\ j.list = grp[s].list /\ j.todo = grp[s].todo
      /\ j.push = grp[s].push /\ j.try = grp[s].try /\ j.second = grp[s].second
      /\ j.addr = grp[s].addr /\ j.res = r
  BY Zenon, <1>2, <1>7, <1>8 DEF Goroutine
<1>10. grp[s].todo = {} /\ grp[s].push = 0 /\ grp[s].try = 1 /\ ~grp[s].second /\ grp[s].addr = NoCs
  BY <1>2 DEF GoroutineOK
<1>11. GoroutineOK(j)
  BY <1>9, <1>10 DEF GoroutineOK
<1>12. grp' = [grp EXCEPT ![s] = j]
  BY <1>1, <1>6, <1>8
<1>13. GroupsOK' /\ grp'[s] = j /\ Only(s)
  BY Zenon, <1>9, <1>11, <1>12, OnlyOf
<1>14. BatchOK'
  BY <1>2, <1>4, <1>9, <1>13, CollectsOK, WorkKept
<1>15. BatchRelays(s, p)
  BY Zenon, <1>1, <1>2, <1>3, <1>4, <1>5, <1>7, <1>9, <1>10, <1>13, <1>14 DEF BatchRelays
<1> QED
  BY <1>3, <1>15

\* The batch call has ended, and what is left is delivered one by one.
BatchEnds(s, pushes) ==
  /\ BatchOK' /\ Only(s) /\ wk.pc = "relay" /\ wk.todo = {} /\ Collects
  /\ grp[s].stage = "batch" /\ grp'[s].stage = "next" /\ grp'[s].list = {}
  /\ grp[s].todo = {} /\ grp'[s].todo = pushes /\ grp[s].push = 0 /\ grp'[s].push = 0
  /\ grp'[s].try = 1 /\ ~grp'[s].second /\ pushes \subseteq grp[s].list

LEMMA BatchAnsweredDoes ==
  ASSUME DeliverAssumption, TypeOK, NEW s \in Cs, BatchAnswered(s)
  PROVE  /\ BatchEnds(s, With(grp[s], "not_found"))
         /\ wk'.pending = wk.pending \cup With(grp[s], "delivered") /\ wk'.offline = wk.offline
         /\ With(grp[s], "none") = {}
<1>1. /\ grp[s] \in Goroutine /\ GoroutineOK(grp[s]) /\ grp[s].stage = "batch"
      /\ wk \in Iteration /\ wk.pc = "relay" /\ wk.todo = {}
  BY GroupType DEF BatchAnswered
<1>2. /\ With(grp[s], "none") = {} /\ OneByOne(s, With(grp[s], "not_found"), TRUE)
      /\ wk' = [wk EXCEPT !.pending = @ \cup With(grp[s], "delivered")]
      /\ committed' = committed
  BY Zenon DEF BatchAnswered, topics
<1>3. /\ With(grp[s], "not_found") \subseteq grp[s].list /\ grp[s].list \subseteq Push
      /\ With(grp[s], "delivered") \subseteq grp[s].list
  BY Zenon, <1>1 DEF With, Goroutine
<1>4. /\ Collects /\ wk'.offline = wk.offline
      /\ wk'.pending = wk.pending \cup With(grp[s], "delivered")
  BY Zenon, <1>1, <1>2, <1>3 DEF Collects, Iteration
<1>5. /\ GroupsOK' /\ Only(s) /\ grp'[s].stage = "next" /\ grp'[s].list = {}
      /\ grp'[s].todo = With(grp[s], "not_found") /\ grp'[s].push = 0
      /\ grp'[s].try = 1 /\ ~grp'[s].second
  BY Zenon, <1>2, <1>3, OneByOneDoes
<1>6. BatchOK'
  BY <1>1, <1>2, <1>4, <1>5, CollectsOK
<1>7. grp[s].todo = {} /\ grp[s].push = 0
  BY <1>1 DEF GoroutineOK
<1> QED
  BY <1>1, <1>2, <1>3, <1>4, <1>5, <1>6, <1>7 DEF BatchEnds

LEMMA BatchFailsDoes ==
  ASSUME DeliverAssumption, TypeOK, NEW s \in Cs, BatchFails(s)
  PROVE  BatchEnds(s, grp[s].list) /\ wk' = wk /\ LostCall(s)
<1>1. /\ grp[s] \in Goroutine /\ GoroutineOK(grp[s]) /\ grp[s].stage = "batch"
      /\ wk.pc = "relay" /\ wk.todo = {}
  BY GroupType DEF BatchFails
<1>2. OneByOne(s, grp[s].list, FALSE) /\ UNCHANGED <<wk, committed>> /\ LostCall(s)
  BY Zenon DEF BatchFails, topics
<1>3. grp[s].list \subseteq Push
  BY <1>1 DEF Goroutine
<1>5. /\ GroupsOK' /\ Only(s) /\ grp'[s].stage = "next" /\ grp'[s].list = {}
      /\ grp'[s].todo = grp[s].list /\ grp'[s].push = 0 /\ grp'[s].try = 1 /\ ~grp'[s].second
  BY Zenon, <1>2, <1>3, OneByOneDoes
<1>6. BatchOK' /\ Collects
  BY <1>1, <1>2, <1>5, CollectsOK, WorkKept
<1>7. grp[s].todo = {} /\ grp[s].push = 0
  BY <1>1 DEF GoroutineOK
<1> QED
  BY <1>1, <1>2, <1>3, <1>5, <1>6, <1>7 DEF BatchEnds

LEMMA StartSingleDoes ==
  ASSUME DeliverAssumption, TypeOK, NEW s \in Cs, StartSingle(s)
  PROVE  \E p \in grp[s].todo :
           /\ BatchOK' /\ Only(s) /\ wk' = wk /\ wk.pc = "relay" /\ wk.todo = {}
           /\ p \in First(grp[s].todo) /\ p \in Push /\ (cache' = cache \/ Invalidate(To(p)))
           /\ grp[s].stage = "next" /\ grp'[s].stage = "get"
           /\ grp[s].list = {} /\ grp'[s].list = {} /\ grp[s].push = 0 /\ grp'[s].push = p
           /\ grp'[s].todo = grp[s].todo \ {p} /\ grp'[s].try = 1 /\ ~grp'[s].second
<1>1. PICK p \in First(grp[s].todo) :
        /\ IF grp[s].moved THEN Invalidate(ToUid[p]) ELSE UNCHANGED cache
        /\ grp' = [grp EXCEPT ![s].stage = "get", ![s].push = p, ![s].todo = @ \ {p}]
  BY Zenon DEF StartSingle
<1>2. /\ grp[s] \in Goroutine /\ GoroutineOK(grp[s]) /\ grp[s].stage = "next"
      /\ wk.pc = "relay" /\ wk.todo = {}
  BY Zenon, GroupType DEF StartSingle
<1>3. p \in grp[s].todo /\ p \in Push /\ \A q \in grp[s].todo : p <= q
  BY <1>1, <1>2 DEF First, Goroutine
<1>4. PICK j : j = [grp[s] EXCEPT !.stage = "get", !.push = p, !.todo = @ \ {p}]
  OBVIOUS
<1>5. /\ j \in Goroutine /\ j.stage = "get" /\ j.list = grp[s].list /\ j.todo = grp[s].todo \ {p}
      /\ j.push = p /\ j.try = grp[s].try /\ j.second = grp[s].second
      /\ j.addr = grp[s].addr /\ j.res = grp[s].res
  BY Zenon, <1>2, <1>3, <1>4 DEF Goroutine, Stages
<1>6. /\ grp[s].list = {} /\ grp[s].push = 0 /\ grp[s].try = 1 /\ ~grp[s].second
      /\ grp[s].addr = NoCs /\ grp[s].res = IdleGroup.res
  BY <1>2 DEF GoroutineOK
<1>7. \A q \in grp[s].todo \ {p} : p < q
  <2>1. ASSUME NEW q \in grp[s].todo \ {p} PROVE p < q
    <3>1. q \in Nat /\ p \in Nat /\ p <= q /\ q # p
      BY <1>2, <1>3, PushType DEF Goroutine
    <3> QED
      BY <3>1
  <2> QED
    BY <2>1
<1>8. GoroutineOK(j)
  BY <1>3, <1>5, <1>6, <1>7 DEF GoroutineOK
<1>9. grp' = [grp EXCEPT ![s] = j]
  BY Zenon, <1>1, <1>4
<1>10. GroupsOK' /\ grp'[s] = j /\ Only(s)
  BY Zenon, <1>5, <1>8, <1>9, OnlyOf
<1>11. UNCHANGED <<wk, committed>>
  BY DEF StartSingle, topics
<1>12. BatchOK'
  BY <1>2, <1>5, <1>10, <1>11, CollectsOK, WorkKept
<1>13. cache' = cache \/ Invalidate(To(p))
  BY <1>1 DEF To
<1> QED
  BY Zenon, <1>1, <1>2, <1>3, <1>5, <1>6, <1>10, <1>11, <1>12, <1>13

LEMMA GroupDoneDoes ==
  ASSUME DeliverAssumption, TypeOK, NEW s \in Cs, GroupDone(s)
  PROVE  /\ BatchOK' /\ Only(s) /\ wk' = wk /\ wk.pc = "relay" /\ wk.todo = {}
         /\ grp[s].list = {} /\ grp[s].todo = {} /\ grp[s].push = 0 /\ grp'[s] = IdleGroup
<1>1. /\ grp[s] \in Goroutine /\ GoroutineOK(grp[s]) /\ grp[s].stage = "next"
      /\ wk.pc = "relay" /\ wk.todo = {}
  BY GroupType DEF GroupDone
<1>2. IdleGroup \in Goroutine /\ GoroutineOK(IdleGroup) /\ IdleGroup.list = {}
  BY IdleOK, PushType
<1>3. grp' = [grp EXCEPT ![s] = IdleGroup] /\ UNCHANGED <<wk, committed>>
  BY DEF GroupDone, topics
<1>4. GroupsOK' /\ grp'[s] = IdleGroup /\ Only(s)
  BY Zenon, <1>2, <1>3, OnlyOf
<1>5. BatchOK'
  BY <1>1, <1>2, <1>3, <1>4, CollectsOK, WorkKept
<1>6. grp[s].todo = {} /\ grp[s].list = {} /\ grp[s].push = 0
  BY <1>1 DEF GroupDone, GoroutineOK
<1> QED
  BY <1>1, <1>3, <1>4, <1>5, <1>6

\* A goroutine at work on one push keeps it, with new arguments, or has done with it.
Single(s) ==
  /\ BatchOK' /\ Only(s) /\ Collects /\ wk.pc = "relay" /\ wk.todo = {}
  /\ grp[s].push \in Push /\ (\A q \in grp[s].todo : grp[s].push < q)
  /\ grp[s].list = {} /\ grp'[s].list = {} /\ grp'[s].todo = grp[s].todo

Keeps(s, stage, try, second, addr) ==
  /\ Single(s) /\ grp'[s].push = grp[s].push
  /\ grp'[s].stage = stage /\ grp'[s].try = try /\ grp'[s].second = second /\ grp'[s].addr = addr

Ends(s) ==
  Single(s) /\ grp'[s].stage = "next" /\ grp'[s].push = 0 /\ grp'[s].try = 1 /\ ~grp'[s].second

LEMMA KeepsDoes ==
  ASSUME DeliverAssumption, TypeOK, NEW s \in Cs, grp[s].stage \in {"get", "relay"},
         NEW stage \in {"get", "relay"}, NEW try \in 1..Attempts, NEW second \in BOOLEAN,
         NEW addr, IF stage = "relay" THEN addr \in Cs ELSE addr = NoCs,
         grp' = [grp EXCEPT ![s].stage = stage, ![s].try = try, ![s].second = second, ![s].addr = addr],
         Collects, committed' = committed
  PROVE  Keeps(s, stage, try, second, addr)
<1>1. /\ grp[s] \in Goroutine /\ GoroutineOK(grp[s])
      /\ wk.pc = "relay" /\ wk.todo = {}
  BY GroupType
<1>2. PICK j : j = [grp[s] EXCEPT !.stage = stage, !.try = try, !.second = second, !.addr = addr]
  OBVIOUS
<1>3. stage \in Stages /\ addr \in Cs \cup {NoCs}
  BY DEF Stages
<1>4. /\ j \in Goroutine /\ j.stage = stage /\ j.list = grp[s].list /\ j.todo = grp[s].todo
      /\ j.push = grp[s].push /\ j.try = try /\ j.second = second
      /\ j.addr = addr /\ j.res = grp[s].res
  BY Zenon, <1>1, <1>2, <1>3 DEF Goroutine
<1>5. /\ grp[s].list = {} /\ grp[s].push \in Push /\ (\A q \in grp[s].todo : grp[s].push < q)
      /\ grp[s].res = IdleGroup.res
  BY <1>1 DEF GoroutineOK
<1>6. GoroutineOK(j)
  BY <1>4, <1>5 DEF GoroutineOK
<1>7. grp' = [grp EXCEPT ![s] = j]
  BY Zenon, <1>2
<1>8. GroupsOK' /\ grp'[s] = j /\ Only(s)
  BY Zenon, <1>4, <1>6, <1>7, OnlyOf
<1>9. BatchOK'
  BY Zenon, <1>1, <1>4, <1>8, CollectsOK
<1> QED
  BY Zenon, <1>1, <1>4, <1>5, <1>8, <1>9 DEF Keeps, Single

LEMMA EndsDoes ==
  ASSUME DeliverAssumption, TypeOK, NEW s \in Cs, grp[s].stage \in {"get", "relay"}, NextSingle(s),
         Collects, committed' = committed
  PROVE  Ends(s)
<1>1. /\ grp[s] \in Goroutine /\ GoroutineOK(grp[s])
      /\ wk.pc = "relay" /\ wk.todo = {}
  BY GroupType
<1>2. grp[s].todo \in SUBSET Push /\ grp[s].moved \in BOOLEAN
  BY Zenon, <1>1 DEF Goroutine
<1>a. PICK pushes \in SUBSET Push : pushes = grp[s].todo
  BY <1>2
<1>b. PICK m \in BOOLEAN : m = grp[s].moved
  BY <1>2
<1>c. OneByOne(s, pushes, m)
  BY Zenon, <1>a, <1>b DEF NextSingle
<1>3. /\ GroupsOK' /\ Only(s) /\ grp'[s].stage = "next" /\ grp'[s].list = {}
      /\ grp'[s].todo = grp[s].todo /\ grp'[s].push = 0 /\ grp'[s].try = 1 /\ ~grp'[s].second
  <2>1. /\ GroupsOK' /\ Only(s) /\ grp'[s].stage = "next" /\ grp'[s].list = {}
        /\ grp'[s].todo = pushes /\ grp'[s].push = 0 /\ grp'[s].try = 1 /\ ~grp'[s].second
    <3>1. OneByOne(s, pushes, TRUE) \/ OneByOne(s, pushes, FALSE)
      BY Zenon, <1>c
    <3> QED
      BY Zenon, <3>1, OneByOneDoes
  <2> QED
    BY <1>a, <2>1
<1>4. BatchOK'
  BY <1>1, <1>3, CollectsOK
<1>5. grp[s].list = {} /\ grp[s].push \in Push /\ (\A q \in grp[s].todo : grp[s].push < q)
  BY <1>1 DEF GoroutineOK
<1> QED
  BY <1>1, <1>3, <1>4, <1>5 DEF Ends, Single

LEMMA RetryDoes ==
  ASSUME DeliverAssumption, TypeOK, NEW s \in Cs, grp[s].stage \in {"get", "relay"}, Retry(s),
         wk' = wk, committed' = committed
  PROVE  /\ \/ Keeps(s, "get", grp[s].try + 1, FALSE, NoCs) /\ Invalidate(To(grp[s].push))
            \/ grp[s].try = Attempts /\ Ends(s) /\ cache' = cache
         /\ RouterOK'
<1>1. grp[s].try \in 1..Attempts /\ Attempts \in Nat /\ Collects
  BY GroupType, WorkKept, PushType DEF Goroutine
<1>a. grp[s].push \in Push /\ To(grp[s].push) \in Uid
  BY Zenon, GroupType, PushType DEF GoroutineOK, To
<1>2. CASE grp[s].try = Attempts /\ NextSingle(s) /\ UNCHANGED cache
  BY Zenon, <1>1, <1>2, EndsDoes, PartsKept
<1>3. CASE /\ grp[s].try < Attempts /\ Invalidate(ToUid[grp[s].push])
           /\ grp' = [grp EXCEPT ![s].try = @ + 1, ![s].stage = "get", ![s].second = FALSE,
                                 ![s].addr = NoCs]
  <2>1. PICK n \in 1..Attempts : n = grp[s].try + 1
    BY SMTT(30), <1>1, <1>3
  <2>2. grp' = [grp EXCEPT ![s].stage = "get", ![s].try = n, ![s].second = FALSE, ![s].addr = NoCs]
    BY ZenonT(60), <1>3, <2>1
  <2>3. Keeps(s, "get", n, FALSE, NoCs)
    BY Zenon, <1>1, <2>2, KeepsDoes
  <2> QED
    BY Zenon, <1>3, <1>a, <2>1, <2>3, RouterDoes DEF To
<1> QED
  BY Zenon, <1>2, <1>3 DEF Retry

LEMMA LookDoes ==
  ASSUME DeliverAssumption, TypeOK, NEW s \in Cs, Look(s)
  PROVE  /\ grp[s].stage = "get" /\ Remember(To(grp[s].push)) /\ RouterOK'
         /\ wk'.pending = wk.pending
         /\ \/ /\ Get(To(grp[s].push)) = NoCs /\ Ends(s)
               /\ wk'.offline = wk.offline \cup {grp[s].push}
            \/ /\ Get(To(grp[s].push)) \in Cs /\ wk' = wk
               /\ Keeps(s, "relay", grp[s].try, grp[s].second, Get(To(grp[s].push)))
<1>1. PICK u : u = ToUid[grp[s].push]
  OBVIOUS
<1>2. /\ grp[s].stage = "get" /\ Remember(u) /\ committed' = committed
      /\ IF Get(u) = NoCs
         THEN wk' = [wk EXCEPT !.offline = @ \cup {grp[s].push}] /\ NextSingle(s)
         ELSE grp' = [grp EXCEPT ![s].stage = "relay", ![s].addr = Get(u)] /\ wk' = wk
  BY Zenon, <1>1 DEF Look, topics
<1>3. /\ grp[s] \in Goroutine /\ GoroutineOK(grp[s]) /\ wk \in Iteration
      /\ grp[s].push \in Push /\ u \in Uid /\ u = To(grp[s].push)
  <2>1. grp[s] \in Goroutine /\ GoroutineOK(grp[s]) /\ wk \in Iteration
    BY GroupType
  <2>2. grp[s].push \in Push
    BY <1>2, <2>1 DEF GoroutineOK
  <2> QED
    BY <1>1, <2>1, <2>2, PushType DEF To
<1>4. RouterOK' /\ Get(u) \in Cs \cup {NoCs}
  BY <1>2, <1>3, RouterDoes
<1>5. CASE Get(u) = NoCs
  <2>1. wk' = [wk EXCEPT !.offline = @ \cup {grp[s].push}] /\ NextSingle(s)
    BY <1>2, <1>5
  <2>2. Collects /\ wk'.pending = wk.pending /\ wk'.offline = wk.offline \cup {grp[s].push}
    BY Zenon, <1>3, <2>1 DEF Collects, Iteration
  <2>3. Ends(s)
    BY <1>2, <2>1, <2>2, EndsDoes
  <2> QED
    BY <1>2, <1>3, <1>4, <1>5, <2>2, <2>3
<1>6. CASE Get(u) # NoCs
  <2>1. PICK c \in Cs : c = Get(u)
    BY <1>4, <1>6
  <2>2. /\ grp' = [grp EXCEPT ![s].stage = "relay", ![s].addr = c] /\ wk' = wk
    BY <1>2, <1>6, <2>1
  <2>3. PICK n \in 1..Attempts : n = grp[s].try
    BY <1>3 DEF Goroutine
  <2>4. PICK b \in BOOLEAN : b = grp[s].second
    BY Zenon, <1>3 DEF Goroutine
  <2>5. grp' = [grp EXCEPT ![s].stage = "relay", ![s].try = n, ![s].second = b, ![s].addr = c]
    <3>1. grp[s] \in Goroutine /\ grp \in [Cs -> Goroutine]
      BY DEF TypeOK
    <3>2. [grp[s] EXCEPT !.stage = "relay", !.addr = c]
            = [grp[s] EXCEPT !.stage = "relay", !.try = n, !.second = b, !.addr = c]
      BY Zenon, <2>3, <2>4, <3>1 DEF Goroutine
    <3>3. grp' = [grp EXCEPT ![s] = [grp[s] EXCEPT !.stage = "relay", !.addr = c]]
      BY Zenon, <2>2
    <3>4. grp' = [grp EXCEPT ![s] = [grp[s] EXCEPT !.stage = "relay", !.try = n, !.second = b,
                                                   !.addr = c]]
      BY Zenon, <3>2, <3>3
    <3> QED
      BY Zenon, <3>4
  <2>6. Collects
    BY <2>2, WorkKept
  <2>7. Keeps(s, "relay", n, b, c)
    BY ZenonT(60), <1>2, <2>5, <2>6, KeepsDoes
  <2>8. Keeps(s, "relay", grp[s].try, grp[s].second, Get(u))
    BY Zenon, <2>1, <2>3, <2>4, <2>7
  <2> QED
    BY <1>2, <1>3, <1>4, <1>6, <2>2, <2>8
<1> QED
  BY <1>5, <1>6

LEMMA RelayDoes ==
  ASSUME DeliverAssumption, TypeOK, NEW s \in Cs, Relay(s)
  PROVE  /\ grp[s].stage = "relay" /\ grp[s].push \in Push /\ grp[s].addr \in Cs
         /\ Enqueue(grp[s].push, grp[s].addr) /\ ChannelsOK' /\ RouterOK'
         /\ missed' = IF /\ Answer(grp[s].push, grp[s].addr) = "not_found"
                         /\ online[To(grp[s].push)] = grp[s].addr
                      THEN missed \cup {grp[s].push} ELSE missed
         /\ wk'.offline = wk.offline
         /\ wk'.pending = IF Answer(grp[s].push, grp[s].addr) = "delivered"
                          THEN wk.pending \cup {grp[s].push} ELSE wk.pending
         /\ \/ /\ Answer(grp[s].push, grp[s].addr) = "not_found" /\ ~grp[s].second
               /\ Keeps(s, "get", grp[s].try, TRUE, NoCs) /\ Invalidate(To(grp[s].push))
            \/ /\ Answer(grp[s].push, grp[s].addr) = "not_found" => grp[s].second
               /\ Ends(s) /\ cache' = cache
<1>1. PICK p : p = grp[s].push
  OBVIOUS
<1>2. PICK answer : answer = Answer(p, grp[s].addr)
  OBVIOUS
<1>3. /\ grp[s].stage = "relay" /\ Enqueue(p, grp[s].addr)
      /\ wk' = [wk EXCEPT !.pending = IF answer = "delivered" THEN @ \cup {p} ELSE @]
      /\ IF answer = "not_found" /\ ~grp[s].second
         THEN LookAgain(s) ELSE NextSingle(s) /\ cache' = cache
      /\ got' = got /\ committed' = committed
      /\ missed' = IF answer = "not_found" /\ online[To(p)] = grp[s].addr
                   THEN missed \cup {p} ELSE missed
  BY <1>1, <1>2 DEF Relay, topics, To
<1>4. /\ grp[s] \in Goroutine /\ GoroutineOK(grp[s]) /\ wk \in Iteration
  BY GroupType
<1>5. p \in Push /\ grp[s].addr \in Cs /\ To(p) \in Uid
  BY <1>1, <1>3, <1>4, PushType DEF GoroutineOK, To
<1>6. ChannelsOK'
  BY <1>3, <1>5, EnqueueDoes
<1>7. /\ Collects /\ wk'.offline = wk.offline
      /\ wk'.pending = IF answer = "delivered" THEN wk.pending \cup {p} ELSE wk.pending
  BY Zenon, <1>3, <1>4, <1>5 DEF Collects, Iteration
<1>8. CASE answer = "not_found" /\ ~grp[s].second
  <2>1. /\ grp' = [grp EXCEPT ![s].stage = "get", ![s].second = TRUE, ![s].addr = NoCs]
        /\ Invalidate(To(p))
    BY Zenon, <1>1, <1>3, <1>8 DEF LookAgain, To
  <2>2. PICK n \in 1..Attempts : n = grp[s].try
    BY Zenon, <1>4 DEF Goroutine
  <2>3. grp' = [grp EXCEPT ![s].stage = "get", ![s].try = n, ![s].second = TRUE, ![s].addr = NoCs]
    <3>1. [grp[s] EXCEPT !.stage = "get", !.second = TRUE, !.addr = NoCs]
            = [grp[s] EXCEPT !.stage = "get", !.try = n, !.second = TRUE, !.addr = NoCs]
      BY Zenon, <1>4, <2>2 DEF Goroutine
    <3>2. grp' = [grp EXCEPT ![s] = [grp[s] EXCEPT !.stage = "get", !.second = TRUE, !.addr = NoCs]]
      BY Zenon, <2>1
    <3>3. grp' = [grp EXCEPT ![s] = [grp[s] EXCEPT !.stage = "get", !.try = n, !.second = TRUE,
                                                   !.addr = NoCs]]
      BY Zenon, <3>1, <3>2
    <3> QED
      BY Zenon, <3>3
  <2>4. Keeps(s, "get", n, TRUE, NoCs)
    BY Zenon, <1>3, <1>7, <2>3, KeepsDoes
  <2>5. Keeps(s, "get", grp[s].try, TRUE, NoCs)
    BY Zenon, <2>2, <2>4
  <2>6. RouterOK'
    BY <1>5, <2>1, RouterDoes
  <2> QED
    BY Zenon, <1>1, <1>2, <1>3, <1>5, <1>6, <1>7, <1>8, <2>1, <2>5, <2>6
<1>9. CASE ~(answer = "not_found" /\ ~grp[s].second)
  <2>1. NextSingle(s) /\ cache' = cache
    BY <1>3, <1>9
  <2>2. Ends(s) /\ RouterOK'
    BY <1>3, <1>7, <2>1, EndsDoes, PartsKept
  <2> QED
    BY Zenon, <1>1, <1>2, <1>3, <1>5, <1>6, <1>7, <1>9, <2>1, <2>2
<1> QED
  BY Zenon, <1>8, <1>9

\* An attempt that fails, with or without an effect.
LEMMA FailedDoes ==
  ASSUME DeliverAssumption, TypeOK, NEW s \in Cs, LookFails(s) \/ RelayFails(s)
  PROVE  /\ grp[s].stage \in {"get", "relay"} /\ grp[s].push \in Push
         /\ wk' = wk /\ ChannelsOK' /\ RouterOK'
         /\ \/ UNCHANGED <<send, full>>
            \/ grp[s].stage = "relay" /\ Enqueue(grp[s].push, grp[s].addr)
         /\ \/ Hit("route", MaxRoute)
            \/ grp[s].stage = "relay" /\ grp[s].addr \in Cs /\ LostCall(grp[s].addr)
         /\ \/ Keeps(s, "get", grp[s].try + 1, FALSE, NoCs) /\ Invalidate(To(grp[s].push))
            \/ grp[s].try = Attempts /\ Ends(s) /\ cache' = cache
<1>1. /\ grp[s].stage \in {"get", "relay"} /\ Retry(s)
      /\ wk' = wk /\ committed' = committed /\ got' = got
  BY DEF LookFails, RelayFails, topics, servers, presence
<1>2. /\ grp[s].push \in Push /\ (grp[s].stage = "relay" => grp[s].addr \in Cs)
  BY <1>1, GroupType DEF GoroutineOK
<1>3. \/ UNCHANGED <<send, full>>
      \/ grp[s].stage = "relay" /\ Enqueue(grp[s].push, grp[s].addr)
  BY DEF LookFails, RelayFails, servers, presence
<1>4. \/ Hit("route", MaxRoute)
      \/ grp[s].stage = "relay" /\ grp[s].addr \in Cs /\ LostCall(grp[s].addr)
  BY <1>2 DEF LookFails, RelayFails, RouteFails
<1>5. ChannelsOK'
  BY <1>1, <1>2, <1>3, EnqueueDoes, PartsKept
<1> QED
  BY Zenon, <1>1, <1>2, <1>3, <1>4, <1>5, RetryDoes

-----------------------------------------------------------------------------
(***************************************************************************)
(* What each step of the worker itself does to its iteration.              *)
(***************************************************************************)
LEMMA WorkType ==
  ASSUME TypeOK
  PROVE  wk \in Iteration /\ WorkerOK /\ GroupsOK /\ committed \in 0..Len(ToUid)
BY DEF TypeOK, GroupsOK

LEMMA IdleWorkerOK ==
  ASSUME DeliverAssumption
  PROVE  /\ IdleWorker \in Iteration /\ IdleWorker.pc = "fetch" /\ IdleWorker.hi = 0
         /\ IdleWorker.todo = {} /\ IdleWorker.pending = {} /\ IdleWorker.offline = {}
BY PushType DEF IdleWorker, Iteration

LEMMA FetchDoes ==
  ASSUME DeliverAssumption, TypeOK, NEW n \in Push, Fetch(n)
  PROVE  /\ BatchOK' /\ grp' = grp /\ wk.pc = "fetch" /\ wk'.pc = "route" /\ wk'.hi = n
         /\ wk'.todo = (committed + 1)..n /\ wk'.pending = wk.pending /\ wk'.offline = wk.offline
         /\ \A s \in Cs : grp[s].stage = "idle" /\ grp[s].list = {} /\ grp[s].todo = {} /\ grp[s].push = 0
<1>1. /\ wk.pc = "fetch" /\ n > committed /\ UNCHANGED <<grp, committed>>
      /\ wk' = [wk EXCEPT !.pc = "route", !.hi = n, !.todo = (committed + 1)..n]
  BY SMTT(60), PushType DEF Fetch, topics, TypeOK
<1>2. /\ wk \in Iteration /\ WorkerOK /\ committed \in 0..Len(ToUid)
      /\ Push = 1..Len(ToUid) /\ Len(ToUid) \in Nat
  BY WorkType, PushType
<1>3. (committed + 1)..n \subseteq Push
  BY <1>2
<1>4. /\ wk' \in Iteration /\ wk'.pc = "route" /\ wk'.hi = n
      /\ wk'.todo = (committed + 1)..n /\ wk'.pending = wk.pending /\ wk'.offline = wk.offline
  <2>1. PICK batch : batch = (committed + 1)..n
    OBVIOUS
  <2>2. batch \subseteq Push /\ n \in 0..Len(ToUid)
    BY <1>2, <1>3, <2>1
  <2>3. wk' = [wk EXCEPT !.pc = "route", !.hi = n, !.todo = batch]
    BY <1>1, <2>1
  <2>4. /\ wk' \in Iteration /\ wk'.pc = "route" /\ wk'.hi = n
        /\ wk'.todo = batch /\ wk'.pending = wk.pending /\ wk'.offline = wk.offline
    BY Zenon, <1>2, <2>2, <2>3 DEF Iteration
  <2> QED
    BY <2>1, <2>4
<1>5. /\ wk.pending = {}
      /\ \A s \in Cs : grp[s].stage = "idle" /\ grp[s].list = {}
  BY <1>1, <1>2 DEF WorkerOK
<1>6. WorkerOK'
  BY <1>1, <1>4, <1>5 DEF WorkerOK
<1>7. GroupsOK'
  BY <1>1, WorkType DEF GroupsOK, GoroutineOK, IdleGroup
<1>8. \A s \in Cs : grp[s].todo = {} /\ grp[s].push = 0
  BY <1>5, GroupType DEF GoroutineOK
<1> QED
  BY <1>1, <1>4, <1>5, <1>6, <1>7, <1>8 DEF BatchOK

\* A push to route goes to the list of its server or to the offline queue.
Routes(p) ==
  /\ RouterOK' /\ p \in Push /\ p \in wk.todo /\ Remember(To(p))
  /\ wk.pc = "route" /\ wk'.pc = "route" /\ wk'.hi = wk.hi /\ wk'.todo = wk.todo \ {p}
  /\ wk'.pending = wk.pending
  /\ wk'.offline = IF Get(To(p)) = NoCs THEN wk.offline \cup {p} ELSE wk.offline
  /\ Get(To(p)) \in Cs \cup {NoCs}

GathersOK(g) ==
  g.stage = "idle" /\ g.todo = {} /\ g.push = 0 /\ g.res = IdleGroup.res /\ g.try = 1 /\ ~g.second

Gathers(p) ==
  \A s \in Cs : /\ GathersOK(grp[s]) /\ GathersOK(grp'[s])
                /\ grp'[s].list = IF s = Get(To(p)) THEN grp[s].list \cup {p} ELSE grp[s].list

LEMMA RouteDoes ==
  ASSUME DeliverAssumption, TypeOK, Route
  PROVE  BatchOK' /\ \E p \in wk.todo : Routes(p) /\ Gathers(p)
<1>1. PICK p \in First(wk.todo) :
       LET s == Get(ToUid[p]) IN
       /\ wk' = [wk EXCEPT !.todo = @ \ {p}, !.offline = IF s = NoCs THEN @ \cup {p} ELSE @]
       /\ grp' = IF s = NoCs THEN grp ELSE [grp EXCEPT ![s].list = @ \cup {p}]
       /\ Remember(ToUid[p])
  BY Zenon DEF Route
<1>2. PICK c : c = Get(To(p))
  OBVIOUS
<1>3. /\ wk' = [wk EXCEPT !.todo = @ \ {p}, !.offline = IF c = NoCs THEN @ \cup {p} ELSE @]
      /\ grp' = (IF c = NoCs THEN grp ELSE [grp EXCEPT ![c].list = @ \cup {p}])
      /\ Remember(To(p)) /\ wk.pc = "route" /\ committed' = committed
  BY Zenon, <1>1, <1>2 DEF To, Route, topics
<1>4. wk \in Iteration /\ WorkerOK /\ GroupsOK
  BY WorkType
<1>5. p \in wk.todo /\ p \in Push /\ To(p) \in Uid
  BY <1>1, <1>4, PushType DEF First, Iteration, To
<1>6. RouterOK' /\ c \in Cs \cup {NoCs}
  BY <1>2, <1>3, <1>5, RouterDoes
<1>7. /\ wk' \in Iteration /\ wk'.pc = "route" /\ wk'.hi = wk.hi /\ wk'.todo = wk.todo \ {p}
      /\ wk'.pending = wk.pending
      /\ wk'.offline = IF c = NoCs THEN wk.offline \cup {p} ELSE wk.offline
  BY Zenon, <1>3, <1>4, <1>5 DEF Iteration
<1>8. ASSUME NEW s \in Cs
      PROVE  grp[s] \in Goroutine /\ GoroutineOK(grp[s]) /\ GathersOK(grp[s]) /\ grp[s].addr = NoCs
  BY <1>3, <1>4 DEF WorkerOK, GroupsOK, GoroutineOK, GathersOK
<1>9. Routes(p)
  BY <1>2, <1>3, <1>5, <1>6, <1>7 DEF Routes
<1>10. CASE c = NoCs
  <2>1. grp' = grp
    BY <1>3, <1>10
  <2>2. GroupsOK'
    BY <1>4, <2>1 DEF GroupsOK, GoroutineOK, IdleGroup
  <2>3. WorkerOK'
    BY <1>3, <1>4, <1>7, <2>1 DEF WorkerOK
  <2>4. Gathers(p)
    BY <1>2, <1>8, <1>10, <2>1, PushType DEF Gathers
  <2> QED
    BY <1>5, <1>7, <1>9, <2>2, <2>3, <2>4 DEF BatchOK
<1>11. CASE c # NoCs
  <2>1. c \in Cs /\ grp' = [grp EXCEPT ![c].list = @ \cup {p}]
    BY <1>3, <1>6, <1>11
  <2>2. PICK l : l = grp[c].list \cup {p}
    OBVIOUS
  <2>3. PICK j : j = [grp[c] EXCEPT !.list = l]
    OBVIOUS
  <2>4. l \in SUBSET Push /\ grp[c] \in Goroutine
    BY <1>5, <1>8, <2>1, <2>2 DEF Goroutine
  <2>5. /\ j \in Goroutine /\ j.list = l /\ j.stage = grp[c].stage
        /\ j.todo = grp[c].todo /\ j.push = grp[c].push /\ j.res = grp[c].res
        /\ j.try = grp[c].try /\ j.second = grp[c].second /\ j.addr = grp[c].addr
    BY Zenon, <2>3, <2>4 DEF Goroutine
  <2>6. GathersOK(j) /\ GoroutineOK(j)
    BY <1>8, <2>1, <2>5 DEF GoroutineOK, GathersOK
  <2>7. grp' = [grp EXCEPT ![c] = j]
    BY <2>1, <2>2, <2>3
  <2>8. GroupsOK' /\ grp'[c] = j /\ Only(c)
    BY Zenon, <2>1, <2>5, <2>6, <2>7, OnlyOf
  <2>9. ASSUME NEW s \in Cs
        PROVE  /\ GathersOK(grp'[s])
               /\ grp'[s].list = IF s = c THEN grp[s].list \cup {p} ELSE grp[s].list
    <3>1. CASE s = c
      BY <2>2, <2>5, <2>6, <2>8, <3>1
    <3>2. CASE s # c
      BY <1>8, <2>8, <3>2 DEF Only
    <3> QED
      BY <3>1, <3>2
  <2>10. Gathers(p)
    BY Zenon, <1>2, <1>8, <2>9 DEF Gathers
  <2>11. WorkerOK'
    BY <1>3, <1>4, <1>7, <2>9 DEF WorkerOK, GathersOK
  <2> QED
    BY <1>5, <1>7, <1>9, <2>8, <2>10, <2>11 DEF BatchOK
<1> QED
  BY <1>10, <1>11

LEMMA RouteSkipsDoes ==
  ASSUME DeliverAssumption, TypeOK, RouteSkips
  PROVE  /\ BatchOK' /\ grp' = grp /\ Hit("route", MaxRoute) /\ wk.pc = "route"
         /\ wk'.pc = "route" /\ wk'.hi = wk.hi /\ wk'.todo \subseteq wk.todo
         /\ wk'.pending = wk.pending /\ wk'.offline = wk.offline
<1>1. PICK p \in First(wk.todo) : wk' = [wk EXCEPT !.todo = @ \ {p}]
  BY Zenon DEF RouteSkips
<1>2. /\ wk.pc = "route" /\ grp' = grp /\ committed' = committed /\ Hit("route", MaxRoute)
  BY DEF RouteSkips, RouteFails, topics
<1>3. wk \in Iteration /\ WorkerOK /\ GroupsOK
  BY WorkType
<1>4. /\ wk' \in Iteration /\ wk'.pc = "route" /\ wk'.hi = wk.hi /\ wk'.todo = wk.todo \ {p}
      /\ wk'.pending = wk.pending /\ wk'.offline = wk.offline
  BY Zenon, <1>1, <1>2, <1>3 DEF Iteration
<1>5. GroupsOK'
  BY <1>2, <1>3 DEF GroupsOK, GoroutineOK, IdleGroup
<1>6. WorkerOK'
  BY <1>2, <1>3, <1>4 DEF WorkerOK
<1> QED
  BY <1>2, <1>4, <1>5, <1>6 DEF BatchOK

LEMMA DispatchDoes ==
  ASSUME DeliverAssumption, TypeOK, Dispatch
  PROVE  /\ BatchOK' /\ wk.pc = "route" /\ wk'.pc = "relay" /\ wk.todo = {} /\ wk'.todo = {}
         /\ wk'.hi = wk.hi /\ wk'.pending = wk.pending /\ wk'.offline = wk.offline
         /\ \A s \in Cs : /\ GathersOK(grp[s]) /\ grp'[s].list = grp[s].list
                          /\ grp'[s].todo = {} /\ grp'[s].push = 0 /\ grp'[s].res = IdleGroup.res
                          /\ grp'[s].try = 1 /\ ~grp'[s].second /\ grp'[s].stage \in {"idle", "batch"}
<1>1. /\ wk.pc = "route" /\ wk.todo = {} /\ wk' = [wk EXCEPT !.pc = "relay"]
      /\ grp' = [s \in Cs |-> IF grp[s].list = {} THEN IdleGroup ELSE [grp[s] EXCEPT !.stage = "batch"]]
      /\ committed' = committed
  BY DEF Dispatch, topics
<1>2. wk \in Iteration /\ WorkerOK /\ GroupsOK
  BY WorkType
<1>3. /\ wk' \in Iteration /\ wk'.pc = "relay" /\ wk'.hi = wk.hi /\ wk'.todo = {}
      /\ wk'.pending = wk.pending /\ wk'.offline = wk.offline
  BY Zenon, <1>1, <1>2 DEF Iteration
<1>4. ASSUME NEW s \in Cs
      PROVE  grp[s] \in Goroutine /\ GoroutineOK(grp[s]) /\ GathersOK(grp[s]) /\ grp[s].addr = NoCs
  BY <1>1, <1>2 DEF WorkerOK, GroupsOK, GoroutineOK, GathersOK
<1>5. ASSUME NEW s \in Cs
      PROVE  /\ grp'[s] \in Goroutine /\ GoroutineOK(grp'[s]) /\ grp'[s].list = grp[s].list
             /\ grp'[s].todo = {} /\ grp'[s].push = 0 /\ grp'[s].res = IdleGroup.res
             /\ grp'[s].try = 1 /\ ~grp'[s].second /\ grp'[s].stage \in {"idle", "batch"}
             /\ grp'[s].stage = "idle" => grp'[s].list = {}
  <2>1. CASE grp[s].list = {}
    <3>1. grp'[s] = IdleGroup
      BY <1>1, <2>1
    <3> QED
      BY <2>1, <3>1, IdleOK, PushType
  <2>2. CASE grp[s].list # {}
    <3>1. PICK j : j = [grp[s] EXCEPT !.stage = "batch"]
      OBVIOUS
    <3>2. grp'[s] = j
      BY <1>1, <2>2, <3>1
    <3>3. /\ j \in Goroutine /\ j.list = grp[s].list /\ j.stage = "batch"
          /\ j.todo = grp[s].todo /\ j.push = grp[s].push /\ j.res = grp[s].res
          /\ j.try = grp[s].try /\ j.second = grp[s].second /\ j.addr = grp[s].addr
      BY ZenonT(60), <1>4, <3>1 DEF Goroutine, Stages
    <3>4. GoroutineOK(j)
      BY <1>4, <3>3 DEF GathersOK, GoroutineOK
    <3> QED
      BY <1>4, <3>2, <3>3, <3>4 DEF GathersOK
  <2> QED
    BY <2>1, <2>2
<1>6. GroupsOK'
  <2>1. grp' \in [Cs -> Goroutine]
    BY <1>1, <1>5
  <2>2. \A t \in Cs : GoroutineOK(grp[t])' <=> GoroutineOK(grp'[t])
    BY DEF GoroutineOK, IdleGroup
  <2> QED
    BY <1>5, <2>1, <2>2 DEF GroupsOK
<1>7. WorkerOK'
  BY Zenon, <1>1, <1>2, <1>3, <1>5 DEF WorkerOK
<1> QED
  BY Zenon, <1>1, <1>3, <1>4, <1>5, <1>6, <1>7 DEF BatchOK

\* The goroutines are done: they have nothing.
Done == \A s \in Cs : grp[s].list = {} /\ grp[s].todo = {} /\ grp[s].push = 0

LEMMA FlushDoes ==
  ASSUME DeliverAssumption, TypeOK, Collected \/ FlushAcks \/ FlushNotifies \/ Commit
  PROVE  BatchOK' /\ TopicsOK' /\ grp' = grp /\ wk.todo = {} /\ wk'.todo = {} /\ Done
<1>1. grp' = grp /\ wk.pc \in {"relay", "acks", "notifies", "commit"}
      /\ \A s \in Cs : grp[s].stage = "idle"
  <2>1. /\ grp' = grp /\ wk.pc \in {"relay", "acks", "notifies", "commit"}
        /\ wk.pc = "relay" => \A s \in Cs : grp[s].stage = "idle"
    BY DEF Collected, FlushAcks, FlushNotifies, Commit
  <2> QED
    BY <2>1, WorkType DEF WorkerOK
<1>2. /\ wk \in Iteration /\ WorkerOK /\ GroupsOK /\ committed \in 0..Len(ToUid)
      /\ acked \subseteq Push /\ notified \subseteq Push /\ Len(ToUid) \in Nat
  BY Zenon, WorkType, PushType DEF TypeOK
<1>3. wk.todo = {} /\ \A s \in Cs : grp[s].list = {}
  BY <1>1, <1>2 DEF WorkerOK
<1>4. Done
  BY <1>1, <1>2, <1>3 DEF GroupsOK, GoroutineOK, Done
<1>5. GroupsOK'
  BY <1>1, <1>2 DEF GroupsOK, GoroutineOK, IdleGroup
<1>6. CASE Collected
  <2>1. wk' = [wk EXCEPT !.pc = "acks"] /\ UNCHANGED topics /\ wk.pc = "relay"
    BY <1>6 DEF Collected
  <2>2. /\ wk' \in Iteration /\ wk'.pc = "acks" /\ wk'.hi = wk.hi /\ wk'.todo = {}
        /\ wk'.pending = wk.pending /\ wk'.offline = wk.offline
    BY Zenon, <1>2, <1>3, <2>1 DEF Iteration
  <2>3. WorkerOK'
    BY <1>1, <1>2, <1>3, <2>1, <2>2 DEF WorkerOK, topics
  <2> QED
    BY <1>1, <1>3, <1>4, <1>5, <2>1, <2>2, <2>3, PartsKept DEF BatchOK
<1>7. CASE FlushAcks
  <2>1. /\ wk' = [wk EXCEPT !.pc = "notifies", !.pending = {}] /\ wk.pc = "acks"
        /\ acked' = acked \cup wk.pending /\ UNCHANGED <<committed, notified>>
    BY <1>7 DEF FlushAcks
  <2>2. /\ wk' \in Iteration /\ wk'.pc = "notifies" /\ wk'.hi = wk.hi /\ wk'.todo = {}
        /\ wk'.pending = {} /\ wk'.offline = wk.offline /\ wk.pending \subseteq Push
    BY Zenon, <1>2, <1>3, <2>1 DEF Iteration
  <2>3. WorkerOK' /\ TopicsOK'
    BY <1>1, <1>2, <1>3, <2>1, <2>2 DEF WorkerOK, TopicsOK
  <2> QED
    BY <1>1, <1>3, <1>4, <1>5, <2>2, <2>3 DEF BatchOK
<1>8. CASE FlushNotifies
  <2>1. /\ wk' = [wk EXCEPT !.pc = "commit", !.offline = {}] /\ wk.pc = "notifies"
        /\ notified' = notified \cup wk.offline /\ UNCHANGED <<committed, acked>>
    BY <1>8 DEF FlushNotifies
  <2>2. /\ wk' \in Iteration /\ wk'.pc = "commit" /\ wk'.hi = wk.hi /\ wk'.todo = {}
        /\ wk'.pending = wk.pending /\ wk'.offline = {} /\ wk.offline \subseteq Push
    BY Zenon, <1>2, <1>3, <2>1 DEF Iteration
  <2>3. WorkerOK' /\ TopicsOK'
    BY <1>1, <1>2, <1>3, <2>1, <2>2 DEF WorkerOK, TopicsOK
  <2> QED
    BY <1>1, <1>3, <1>4, <1>5, <2>2, <2>3 DEF BatchOK
<1>9. CASE Commit
  <2>1. wk' = IdleWorker /\ committed' = wk.hi /\ UNCHANGED <<acked, notified>>
    BY <1>9 DEF Commit
  <2>2. wk.hi \in 0..Len(ToUid)
    BY <1>2 DEF Iteration
  <2>3. WorkerOK' /\ TopicsOK'
    BY Zenon, <1>1, <1>2, <1>3, <2>1, <2>2, IdleWorkerOK DEF WorkerOK, TopicsOK
  <2> QED
    BY <1>1, <1>3, <1>4, <1>5, <2>1, <2>3, IdleWorkerOK DEF BatchOK
<1> QED
  BY <1>6, <1>7, <1>8, <1>9

LEMMA CrashDoes ==
  ASSUME DeliverAssumption, TypeOK, Crash
  PROVE  /\ BatchOK' /\ RouterOK' /\ Hit("crash", MaxCrash) /\ UNCHANGED <<servers, topics>>
         /\ wk' = IdleWorker /\ (\A s \in Cs : grp'[s] = IdleGroup)
         /\ \A u \in Uid : cache'[u] = Unknown
<1>1. /\ wk' = IdleWorker /\ grp' = FreshGroups /\ cache' = FreshCache
      /\ Hit("crash", MaxCrash) /\ UNCHANGED <<servers, topics>>
  BY DEF Crash
<1>2. \A s \in Cs : grp'[s] = IdleGroup
  BY <1>1 DEF FreshGroups
<1>3. GroupsOK'
  <2>1. \A t \in Cs : GoroutineOK(grp[t])' <=> GoroutineOK(grp'[t])
    BY DEF GoroutineOK, IdleGroup
  <2>2. grp' \in [Cs -> Goroutine] /\ \A t \in Cs : GoroutineOK(grp'[t])
    BY <1>1, <1>2, IdleOK, PushType DEF FreshGroups
  <2> QED
    BY <2>1, <2>2 DEF GroupsOK
<1>4. WorkerOK'
  BY <1>1, <1>2, IdleOK, IdleWorkerOK DEF WorkerOK
<1> QED
  BY <1>1, <1>2, <1>3, <1>4, IdleWorkerOK DEF BatchOK, RouterOK, FreshCache

-----------------------------------------------------------------------------
(***************************************************************************)
(* Type correctness.                                                       *)
(***************************************************************************)
LEMMA MissedGrows ==
  ASSUME DeliverAssumption, TypeOK, NEW s \in Cs, Group(s)
  PROVE  missed \subseteq missed' /\ missed' \subseteq Push
<1>1. missed \subseteq Push
  BY DEF TypeOK
<1>2. CASE Relay(s)
  BY Zenon, <1>1, <1>2, RelayDoes
<1>3. CASE ~Relay(s)
  <2>1. missed' = missed
    BY Zenon, <1>3 DEF Group, BatchRelay, BatchAnswered, BatchFails, StartSingle, GroupDone, Look,
       LookFails, RelayFails, servers
  <2> QED
    BY <1>1, <2>1
<1> QED
  BY <1>2, <1>3

\* The steps of the event loops: a table, or a record.
LEMMA RewriteDoes ==
  ASSUME TypeOK, NEW u \in Uid, NEW c \in Cs \cup {NoCs}, Rewrite(u, c)
  PROVE  /\ online' \in [Uid -> Cs \cup {NoCs}] /\ changes' \in [Uid -> Nat]
         /\ \A v \in Uid : \/ online'[v] = online[v] /\ changes'[v] = changes[v]
                           \/ changes'[v] = changes[v] + 1
<1>1. online \in [Uid -> Cs \cup {NoCs}] /\ changes \in [Uid -> Nat]
  BY DEF TypeOK
<1>2. /\ online' = [online EXCEPT ![u] = c]
      /\ changes' = [changes EXCEPT ![u] = IF online[u] = c THEN @ ELSE @ + 1]
  BY DEF Rewrite
<1>3. online' \in [Uid -> Cs \cup {NoCs}] /\ changes' \in [Uid -> Nat]
  BY <1>1, <1>2
<1>4. ASSUME NEW v \in Uid
      PROVE  \/ online'[v] = online[v] /\ changes'[v] = changes[v]
             \/ changes'[v] = changes[v] + 1
  BY <1>1, <1>2
<1> QED
  BY <1>3, <1>4

LEMMA WriteRecordDoes ==
  ASSUME TypeOK, NEW s \in Cs, WriteRecord(s)
  PROVE  /\ op[s] # NoOp /\ op' \in [Cs -> Ops \cup {NoOp}]
         /\ UNCHANGED <<at, left, up, send, got, full, missed, cache, topics, wk, grp, faults>>
         /\ \/ UNCHANGED <<online, changes>>
            \/ \E u \in Uid, c \in Cs \cup {NoCs} : Rewrite(u, c)
<1>1. op \in [Cs -> Ops \cup {NoOp}] /\ op[s] # NoOp /\ op' = [op EXCEPT ![s] = NoOp]
  BY DEF TypeOK, WriteRecord
<1>2. op[s] \in Ops
  BY <1>1
<1>3. op[s].uid \in Uid
  BY <1>2 DEF Ops
<1>4. op' \in [Cs -> Ops \cup {NoOp}]
  BY <1>1
<1>5. UNCHANGED <<at, left, up, send, got, full, missed, cache, topics, wk, grp, faults>>
  BY DEF WriteRecord
<1>6. \/ UNCHANGED <<online, changes>>
      \/ \E u \in Uid, c \in Cs \cup {NoCs} : Rewrite(u, c)
  BY Zenon, <1>3 DEF WriteRecord
<1> QED
  BY <1>1, <1>4, <1>5, <1>6

\* The table of one server, for one user.
LEMMA EventDoes ==
  ASSUME DeliverAssumption, TypeOK, NEW u \in Uid, NEW s \in Cs,
         EventRegister(u, s) \/ EventUnregister(u, s)
  PROVE  /\ Hit("move", MaxMove) /\ ServersOK' /\ ChannelsOK'
         /\ UNCHANGED <<online, changes, up, got, full, missed, cache, topics, wk, grp>>
<1>0. ServersOK /\ ChannelsOK
  BY TypeParts
<1>1. /\ Hit("move", MaxMove)
      /\ UNCHANGED <<online, changes, up, got, full, missed, cache, topics, wk, grp>>
  BY DEF EventRegister, EventUnregister
<1>2. PICK o \in Ops : op' = [op EXCEPT ![s] = o]
  <2>1. [do |-> "put", uid |-> u] \in Ops /\ [do |-> "delete", uid |-> u] \in Ops
    BY DEF Ops
  <2> QED
    BY Zenon, <2>1 DEF EventRegister, EventUnregister
<1>3. op' \in [Cs -> Ops \cup {NoOp}]
  BY <1>0, <1>2 DEF ServersOK
<1>4. send' = send \/ send' = [send EXCEPT ![u] = <<>>]
  <2>1. CASE EventRegister(u, s)
    BY Zenon, <2>1 DEF EventRegister
  <2>2. CASE EventUnregister(u, s)
    <3>1. send \in [Uid -> Seq(Push)]
      BY <1>0 DEF ChannelsOK
    <3>2. send' = [send EXCEPT ![u] = IF at[u] = s THEN <<>> ELSE @]
      BY <2>2 DEF EventUnregister
    <3> QED
      BY <3>1, <3>2
  <2> QED
    BY <2>1, <2>2
<1>5. ChannelsOK'
  <2>1. <<>> \in Seq(Push) /\ Len(<<>>) = 0 /\ DOMAIN <<>> = {} /\ SendMax \in Nat
    BY PushType
  <2> QED
    <3>1. send' \in [Uid -> Seq(Push)] /\ \A v \in Uid : send'[v] = send[v] \/ send'[v] = <<>>
      BY ZenonT(60), <1>0, <1>4, <2>1 DEF ChannelsOK
    <3>2. ASSUME NEW v \in Uid
          PROVE  (\A i \in DOMAIN send'[v] : ToUid[send'[v][i]] = v) /\ Len(send'[v]) <= SendMax
      <4>1. CASE send'[v] = send[v]
        BY Zenon, <1>0, <4>1 DEF ChannelsOK
      <4>2. CASE send'[v] = <<>>
        BY <2>1, <4>2
      <4> QED
        BY <3>1, <4>1, <4>2
    <3> QED
      BY Zenon, <1>0, <1>1, <3>1, <3>2 DEF ChannelsOK
<1>6. /\ at' \in [Uid -> Cs \cup {NoCs}] /\ left' \in [Uid -> SUBSET Cs]
      /\ \A v \in Uid : at'[v] \notin left'[v]
  <2>1. /\ at \in [Uid -> Cs \cup {NoCs}] /\ left \in [Uid -> SUBSET Cs]
        /\ \A v \in Uid : at[v] \notin left[v]
    BY <1>0 DEF ServersOK
  <2>2. CASE EventRegister(u, s)
    <3>1. at' = [at EXCEPT ![u] = s] /\ left' = [left EXCEPT ![u] = (@ \cup {at[u]}) \ {s, NoCs}]
      BY <2>2 DEF EventRegister
    <3> QED
      BY SMTT(30), <2>1, <3>1
  <2>3. CASE EventUnregister(u, s)
    <3>1. at' = [at EXCEPT ![u] = IF @ = s THEN NoCs ELSE @] /\ left' = [left EXCEPT ![u] = @ \ {s}]
      BY <2>3 DEF EventUnregister
    <3>2. NoCs \notin Cs
      BY PushType
    <3> QED
      BY SMTT(30), <2>1, <3>1, <3>2
  <2> QED
    BY <2>2, <2>3
<1>7. ServersOK'
  BY <1>0, <1>1, <1>3, <1>6 DEF ServersOK
<1> QED
  BY <1>1, <1>5, <1>7

LEMMA GroupStepType ==
  ASSUME DeliverAssumption, TypeOK, NEW s \in Cs, Group(s)
  PROVE  TypeOK'
<1>1. UNCHANGED <<presence, topics>>
  BY Zenon DEF Group, BatchRelay, BatchAnswered, BatchFails, StartSingle, GroupDone, Look, LookFails,
         Relay, RelayFails, servers
<1>a. missed' \subseteq Push
  BY MissedGrows
<1>2. ServersOK' /\ TopicsOK'
  BY <1>1, <1>a, PartsKept
<1>3. CASE BatchRelay(s)
  <2>1. BatchOK' /\ ChannelsOK'
    BY <1>3, BatchRelayDoes DEF BatchRelays
  <2>2. UNCHANGED <<cache, faults>>
    BY <1>3 DEF BatchRelay
  <2> QED
    BY <1>2, <2>1, <2>2, PartsKept, TypeParts
<1>4. CASE BatchAnswered(s) \/ BatchFails(s)
  <2>1. BatchOK'
    BY <1>4, BatchAnsweredDoes, BatchFailsDoes DEF BatchEnds
  <2>2. UNCHANGED <<send, got, full, cache>> /\ (faults' = faults \/ Hit("rpc", MaxRpc))
    BY Zenon, <1>4 DEF BatchAnswered, BatchFails, LostCall, servers, presence
  <2>3. FaultsOK'
    BY <2>2, HitCounts, PartsKept DEF Kinds
  <2> QED
    BY <1>2, <2>1, <2>2, <2>3, PartsKept, TypeParts
<1>5. CASE StartSingle(s)
  <2>1. PICK p \in grp[s].todo : BatchOK' /\ p \in Push /\ (cache' = cache \/ Invalidate(To(p)))
    BY <1>5, StartSingleDoes
  <2>2. RouterOK'
    BY <2>1, RouterDoes, PartsKept, PushType DEF To
  <2>3. UNCHANGED <<send, got, full, faults>>
    BY <1>5 DEF StartSingle, servers, presence
  <2> QED
    BY <1>2, <2>1, <2>2, <2>3, PartsKept, TypeParts
<1>6. CASE GroupDone(s)
  <2>1. BatchOK' /\ UNCHANGED <<send, got, full, cache, faults>>
    BY Zenon, <1>6, GroupDoneDoes DEF GroupDone, servers, presence
  <2> QED
    BY <1>2, <2>1, PartsKept, TypeParts
<1>7. CASE Look(s)
  <2>1. BatchOK' /\ RouterOK'
    BY <1>7, LookDoes DEF Keeps, Ends, Single
  <2>2. UNCHANGED <<send, got, full, faults>>
    BY <1>7 DEF Look, servers, presence
  <2> QED
    BY <1>2, <2>1, <2>2, PartsKept, TypeParts
<1>8. CASE LookFails(s) \/ RelayFails(s)
  <2>1. BatchOK' /\ RouterOK' /\ ChannelsOK'
    BY Zenon, <1>8, FailedDoes DEF Keeps, Ends, Single
  <2>2. faults' = faults \/ Hit("rpc", MaxRpc) \/ Hit("route", MaxRoute)
    BY Zenon, <1>8, FailedDoes DEF LostCall
  <2>3. FaultsOK'
    BY <2>2, HitCounts, PartsKept DEF Kinds
  <2> QED
    BY <1>2, <2>1, <2>3, TypeParts
<1>9. CASE Relay(s)
  <2>1. BatchOK' /\ RouterOK' /\ ChannelsOK'
    BY Zenon, <1>9, RelayDoes DEF Keeps, Ends, Single
  <2>2. faults' = faults
    BY <1>9 DEF Relay
  <2> QED
    BY <1>2, <2>1, <2>2, PartsKept, TypeParts
<1> QED
  BY <1>3, <1>4, <1>5, <1>6, <1>7, <1>8, <1>9 DEF Group

LEMMA RunType ==
  ASSUME DeliverAssumption, TypeOK, Run
  PROVE  TypeOK'
<1>1. ServersOK' /\ ChannelsOK'
  <2>1. UNCHANGED <<presence, missed, send, got, full>>
    BY Zenon DEF Run, Fetch, Route, RouteSkips, Dispatch, Collected, FlushAcks, FlushNotifies, Commit,
           servers
  <2> QED
    BY <2>1, PartsKept
<1>2. ASSUME NEW n \in Push, Fetch(n) PROVE TypeOK'
  <2>1. BatchOK' /\ UNCHANGED <<cache, topics, faults>>
    BY Zenon, <1>2, FetchDoes DEF Fetch
  <2> QED
    BY <1>1, <2>1, PartsKept, TypeParts
<1>3. CASE Route
  <2>1. BatchOK' /\ RouterOK'
    BY Zenon, <1>3, RouteDoes DEF Routes
  <2>2. UNCHANGED <<topics, faults>>
    BY <1>3 DEF Route
  <2> QED
    BY <1>1, <2>1, <2>2, PartsKept, TypeParts
<1>4. CASE RouteSkips
  <2>1. BatchOK' /\ FaultsOK'
    BY <1>4, RouteSkipsDoes, HitCounts DEF Kinds
  <2>2. UNCHANGED <<topics, cache>>
    BY <1>4 DEF RouteSkips
  <2> QED
    BY <1>1, <2>1, <2>2, PartsKept, TypeParts
<1>5. CASE Dispatch
  <2>1. BatchOK' /\ UNCHANGED <<cache, topics, faults>>
    BY <1>5, DispatchDoes DEF Dispatch
  <2> QED
    BY <1>1, <2>1, PartsKept, TypeParts
<1>6. CASE Collected \/ FlushAcks \/ FlushNotifies \/ Commit
  <2>1. BatchOK' /\ TopicsOK' /\ UNCHANGED <<cache, faults>>
    BY <1>6, FlushDoes DEF Collected, FlushAcks, FlushNotifies, Commit
  <2> QED
    BY <1>1, <2>1, PartsKept, TypeParts
<1> QED
  BY <1>2, <1>3, <1>4, <1>5, <1>6 DEF Run

LEMMA EnvironmentType ==
  ASSUME DeliverAssumption, TypeOK, Environment
  PROVE  TypeOK'
<1>0. ServersOK /\ ChannelsOK
  BY TypeParts
<1>1. TopicsOK' /\ BatchOK'
  <2>1. UNCHANGED <<topics, wk, grp>>
    BY Zenon DEF Environment, EventRegister, EventUnregister, WriteRecord, ServerCrash, GhostSweep, Write, Expire
  <2>2. UNCHANGED <<wk, grp, committed>>
    BY <2>1 DEF topics
  <2> QED
    BY <2>1, <2>2, PartsKept
<1>2. ASSUME NEW u \in Uid, GhostSweep(u) PROVE TypeOK'
  <2>1. Rewrite(u, NoCs) /\ UNCHANGED <<at, left, op, up, missed, send, got, full, cache, faults>>
    BY <1>2 DEF GhostSweep
  <2>2. ServersOK'
    BY <1>0, <2>1, RewriteDoes DEF ServersOK
  <2> QED
    BY <1>1, <2>1, <2>2, PartsKept, TypeParts
<1>3. ASSUME NEW u \in Uid, Write(u) PROVE TypeOK'
  <2>1. ChannelsOK' /\ UNCHANGED <<presence, missed, cache, faults>>
    BY Zenon, <1>3, WriteDoes DEF Write
  <2> QED
    BY <1>1, <2>1, PartsKept, TypeParts
<1>4. ASSUME NEW u \in Uid, Expire(u) PROVE TypeOK'
  <2>1. RouterOK' /\ UNCHANGED <<presence, missed, send, got, full, faults>>
    BY <1>4, RouterDoes DEF Expire, servers
  <2> QED
    BY <1>1, <2>1, PartsKept, TypeParts
<1>5. ASSUME NEW u \in Uid, NEW s \in Cs, EventRegister(u, s) \/ EventUnregister(u, s)
      PROVE  TypeOK'
  <2>1. ServersOK' /\ ChannelsOK' /\ FaultsOK' /\ cache' = cache
    BY <1>5, EventDoes, HitCounts DEF Kinds
  <2> QED
    BY <1>1, <2>1, PartsKept, TypeParts
<1>7. ASSUME NEW s \in Cs, WriteRecord(s) PROVE TypeOK'
  <2>1. /\ op' \in [Cs -> Ops \cup {NoOp}] /\ UNCHANGED <<at, left, up, missed>>
        /\ UNCHANGED <<send, got, full, cache, faults>>
        /\ UNCHANGED <<online, changes>> \/ \E u \in Uid, c \in Cs \cup {NoCs} : Rewrite(u, c)
    BY <1>7, WriteRecordDoes
  <2>2. ServersOK'
    BY <1>0, <2>1, RewriteDoes DEF ServersOK
  <2> QED
    BY <1>1, <2>1, <2>2, PartsKept, TypeParts
<1>6. ASSUME NEW s \in Cs, ServerCrash(s) PROVE TypeOK'
  <2>1. /\ up' = up \ {s} /\ at' = [u \in Uid |-> IF at[u] = s THEN NoCs ELSE at[u]]
        /\ send' = [u \in Uid |-> IF at[u] = s THEN <<>> ELSE send[u]] /\ Hit("down", MaxDown)
        /\ left' = [u \in Uid |-> left[u] \ {s}] /\ op' = [op EXCEPT ![s] = NoOp]
        /\ UNCHANGED <<online, changes, missed, got, full, cache>>
    BY <1>6 DEF ServerCrash
  <2>2. ServersOK'
    BY <1>0, <2>1, PushType DEF ServersOK
  <2>3. ChannelsOK'
    <3>1. <<>> \in Seq(Push) /\ Len(<<>>) = 0 /\ DOMAIN <<>> = {} /\ SendMax \in Nat
      BY PushType
    <3> QED
      BY <1>0, <2>1, <3>1 DEF ChannelsOK
  <2>4. FaultsOK'
    BY <2>1, HitCounts DEF Kinds
  <2> QED
    BY <1>1, <2>1, <2>2, <2>3, <2>4, PartsKept, TypeParts
<1> QED
  BY <1>2, <1>3, <1>4, <1>5, <1>6, <1>7 DEF Environment

LEMMA InitType ==
  ASSUME DeliverAssumption, Init
  PROVE  TypeOK
<1>1. ServersOK
  BY SMTT(30) DEF Init, ServersOK
<1>2. ChannelsOK
  <2>1. <<>> \in Seq(Push) /\ Len(<<>>) = 0 /\ DOMAIN <<>> = {} /\ SendMax \in Nat
    BY PushType
  <2> QED
    BY <2>1 DEF Init, ChannelsOK
<1>3. RouterOK /\ TopicsOK /\ FaultsOK
  BY PushType DEF Init, RouterOK, FreshCache, TopicsOK, FaultsOK
<1>4. GroupsOK
  BY IdleOK, PushType DEF Init, FreshGroups, GroupsOK
<1>5. WorkerOK
  <2>1. \A s \in Cs : grp[s] = IdleGroup
    BY DEF Init, FreshGroups
  <2> QED
    BY <2>1, IdleOK, IdleWorkerOK DEF Init, WorkerOK
<1>6. BatchOK
  BY <1>4, <1>5, IdleWorkerOK DEF BatchOK, Init
<1> QED
  BY <1>1, <1>2, <1>3, <1>6, TypeParts

LEMMA NextType ==
  ASSUME DeliverAssumption, TypeOK, [Next]_vars
  PROVE  TypeOK'
<1>1. CASE UNCHANGED vars
  <2>1. UNCHANGED <<presence, missed, send, got, full, cache, topics, wk, grp, committed, faults>>
    BY <1>1 DEF vars, servers, topics
  <2> QED
    BY <2>1, PartsKept, TypeParts
<1>2. CASE Crash
  <2>1. UNCHANGED <<presence, missed, send, got, full, topics>>
    BY <1>2, CrashDoes DEF servers
  <2>2. BatchOK' /\ RouterOK' /\ FaultsOK'
    BY <1>2, CrashDoes, HitCounts DEF Kinds
  <2> QED
    BY <2>1, <2>2, PartsKept, TypeParts
<1> QED
  BY <1>1, <1>2, GroupStepType, RunType, EnvironmentType DEF Next

(***************************************************************************)
(* The variables hold what deliver.go can put into them: a Send channel    *)
(* never more than it holds and only its receiver's pushes, and a          *)
(* goroutine what belongs to its place in the code.                        *)
(***************************************************************************)
THEOREM TypeCorrect == Spec => []TypeOK
<1>1. Init => TypeOK
  BY DeliverAssumption, InitType
<1>2. TypeOK /\ [Next]_vars => TypeOK'
  BY DeliverAssumption, NextType
<1> QED
  BY <1>1, <1>2, PTL DEF Spec

-----------------------------------------------------------------------------
(***************************************************************************)
(* What every step does to the faults, the connections and the cache.      *)
(***************************************************************************)
LEMMA FaultsGrow ==
  ASSUME DeliverAssumption, TypeOK, [Next]_vars
  PROVE  /\ faults.move \in Nat /\ faults'.move \in Nat /\ faults.move <= faults'.move
         /\ faults.rpc \in Nat /\ faults'.rpc \in Nat /\ faults.rpc <= faults'.rpc
         /\ faults.down \in Nat /\ faults'.down \in Nat /\ faults.down <= faults'.down
         /\ faults.route \in Nat /\ faults'.route \in Nat /\ faults.route <= faults'.route
<1>1. FaultsOK /\ FaultsOK'
  BY NextType, TypeParts
<1>2. faults' = faults \/ \E k \in Kinds : \E bound : Hit(k, bound)
  <2>1. ASSUME NEW s \in Cs, Group(s) PROVE faults' = faults \/ Hit("rpc", MaxRpc) \/ Hit("route", MaxRoute)
    BY Zenon, <2>1 DEF Group, BatchRelay, BatchAnswered, BatchFails, StartSingle, GroupDone, Look,
                LookFails, Relay, RelayFails, LostCall, RouteFails
  <2>2. CASE Run
    <3>1. faults' = faults \/ Hit("route", MaxRoute)
      BY Zenon, <2>2, RouteSkipsDoes DEF Run, Fetch, Route, Dispatch, Collected, FlushAcks, FlushNotifies,
         Commit
    <3> QED
      BY SMTT(60), <3>1 DEF Kinds
  <2>3. CASE Environment
    BY Zenon, <2>3 DEF Environment, EventRegister, EventUnregister, WriteRecord, ServerCrash, GhostSweep,
       Write, Expire, Kinds
  <2>4. CASE Crash
    BY <2>4, CrashDoes DEF Kinds
  <2>5. CASE UNCHANGED vars
    BY <2>5 DEF vars
  <2> QED
    BY <2>1, <2>2, <2>3, <2>4, <2>5 DEF Next, Kinds
<1>3. \A k \in Kinds : faults'[k] \in {faults[k], faults[k] + 1}
  BY <1>2, HitCounts
<1>4. \A k \in Kinds : faults[k] \in Nat /\ faults'[k] \in Nat /\ faults[k] <= faults'[k]
  <2>1. \A k \in Kinds : faults[k] \in Nat
    BY Zenon, <1>1 DEF FaultsOK, Kinds
  <2> QED
    BY SMTT(30), <1>3, <2>1
<1> QED
  BY <1>4 DEF Kinds

\* Who changes what others see of the presence.
LEMMA PresenceMoves ==
  ASSUME DeliverAssumption, TypeOK, [Next]_vars
  PROVE  \/ UNCHANGED presence
         \/ \E u \in Uid, s \in Cs : EventRegister(u, s) \/ EventUnregister(u, s)
         \/ \E s \in Cs : WriteRecord(s) \/ ServerCrash(s)
         \/ \E u \in Uid : GhostSweep(u)
<1>1. ASSUME NEW s \in Cs, Group(s) PROVE UNCHANGED presence
  BY Zenon, <1>1 DEF Group, BatchRelay, BatchAnswered, BatchFails, StartSingle, GroupDone, Look, LookFails,
     Relay, RelayFails, servers
<1>2. CASE Run \/ Crash \/ UNCHANGED vars
  BY Zenon, <1>2 DEF Run, Fetch, Route, RouteSkips, Dispatch, Collected, FlushAcks, FlushNotifies, Commit,
     Crash, servers, vars
<1>3. ASSUME NEW u \in Uid, Write(u) \/ Expire(u) PROVE UNCHANGED presence
  BY Zenon, <1>3 DEF Write, Expire, servers
<1> QED
  BY Zenon, <1>1, <1>2, <1>3 DEF Next, Environment

LEMMA SteadyStays ==
  ASSUME DeliverAssumption, TypeOK, [Next]_vars, Steady'
  PROVE  /\ Steady /\ at' = at /\ faults.move = 0 /\ faults.down = 0
         /\ \A u \in Uid, s \in Cs : ~EventRegister(u, s) /\ ~EventUnregister(u, s)
         /\ \A s \in Cs : ~ServerCrash(s)
<1>1. /\ faults.move = 0 /\ faults'.move = 0 /\ faults.down = 0 /\ faults'.down = 0
  BY SMTT(60), FaultsGrow DEF Steady
<1>2. ASSUME NEW u \in Uid, NEW s \in Cs, EventRegister(u, s) \/ EventUnregister(u, s) PROVE FALSE
  <2>1. faults'["move"] = faults["move"] + 1
    BY <1>2, EventDoes, HitCounts DEF Kinds
  <2> QED
    BY <1>1, <2>1
<1>3. ASSUME NEW s \in Cs, ServerCrash(s) PROVE FALSE
  <2>1. faults'["down"] = faults["down"] + 1
    BY <1>3, HitCounts DEF ServerCrash, Kinds
  <2> QED
    BY <1>1, <2>1
<1>4. at' = at
  <2>1. ASSUME NEW s \in Cs, WriteRecord(s) PROVE at' = at
    BY Zenon, <2>1 DEF WriteRecord
  <2>2. ASSUME NEW u \in Uid, GhostSweep(u) PROVE at' = at
    BY Zenon, <2>2 DEF GhostSweep
  <2>3. UNCHANGED presence => at' = at
    BY DEF presence
  <2> QED
    BY Zenon, <1>2, <1>3, <2>1, <2>2, <2>3, PresenceMoves
<1> QED
  BY <1>1, <1>2, <1>3, <1>4 DEF Steady

\* A record changes, or keeps its value; what was missed stays so.
LEMMA RecordMoves ==
  ASSUME DeliverAssumption, TypeOK, [Next]_vars
  PROVE  /\ missed \subseteq missed'
         /\ \A u \in Uid : /\ changes[u] \in Nat /\ changes'[u] \in Nat
                           /\ \/ online'[u] = online[u] /\ changes'[u] = changes[u]
                              \/ changes'[u] = changes[u] + 1
<1>1. \A u \in Uid : changes[u] \in Nat
  BY DEF TypeOK
<1>2. ASSUME NEW u \in Uid
      PROVE  \/ online'[u] = online[u] /\ changes'[u] = changes[u]
             \/ changes'[u] = changes[u] + 1
  <2>1. UNCHANGED presence => UNCHANGED <<online, changes>>
    BY DEF presence
  <2>2. ASSUME NEW v \in Uid, NEW s \in Cs, EventRegister(v, s) \/ EventUnregister(v, s)
        PROVE  UNCHANGED <<online, changes>>
    BY Zenon, <2>2 DEF EventRegister, EventUnregister
  <2>3. ASSUME NEW s \in Cs, WriteRecord(s) \/ ServerCrash(s)
        PROVE  \/ UNCHANGED <<online, changes>>
               \/ \E v \in Uid, c \in Cs \cup {NoCs} : Rewrite(v, c)
    BY Zenon, <2>3, WriteRecordDoes DEF ServerCrash
  <2>4. ASSUME NEW v \in Uid, GhostSweep(v) PROVE \E c \in Cs \cup {NoCs} : Rewrite(v, c)
    BY <2>4 DEF GhostSweep
  <2>5. \/ UNCHANGED <<online, changes>>
        \/ \E v \in Uid, c \in Cs \cup {NoCs} : Rewrite(v, c)
    BY Zenon, <2>1, <2>2, <2>3, <2>4, PresenceMoves
  <2> QED
    BY <2>5, RewriteDoes
<1>3. missed \subseteq missed'
  <2>1. CASE Run \/ Crash \/ Environment \/ UNCHANGED vars
    <3>1. missed' = missed
      BY Zenon, <2>1 DEF Run, Fetch, Route, RouteSkips, Dispatch, Collected, FlushAcks, FlushNotifies, Commit,
         Crash, Environment, EventRegister, EventUnregister, WriteRecord, ServerCrash, GhostSweep,
         Write, Expire, servers, vars
    <3> QED
      BY <3>1
  <2> QED
    BY <2>1, MissedGrows DEF Next
<1> QED
  BY <1>1, <1>2, <1>3

LEMMA CacheMoves ==
  ASSUME DeliverAssumption, TypeOK, [Next]_vars, NEW v \in Uid
  PROVE  cache'[v] \in {cache[v], Unknown, online[v]}
<1>1. ASSUME NEW u \in Uid, Remember(u) \/ Invalidate(u)
      PROVE  cache'[v] \in {cache[v], Unknown, online[v]}
  BY <1>1, RouterDoes DEF Get
<1>2. CASE UNCHANGED cache
  BY <1>2
<1>3. ASSUME NEW s \in Cs, Group(s)
      PROVE  cache' = cache \/ \E u \in Uid : Remember(u) \/ Invalidate(u)
  <2>1. CASE BatchRelay(s) \/ BatchAnswered(s) \/ BatchFails(s) \/ GroupDone(s)
    BY Zenon, <2>1 DEF BatchRelay, BatchAnswered, BatchFails, GroupDone
  <2>2. CASE StartSingle(s)
    BY <2>2, StartSingleDoes, PushType DEF To
  <2>3. CASE Look(s)
    <3>1. grp[s].push \in Push /\ Remember(To(grp[s].push))
      BY Zenon, <2>3, LookDoes, GroupType DEF GoroutineOK
    <3> QED
      BY <3>1, PushType DEF To
  <2>4. CASE LookFails(s) \/ RelayFails(s)
    <3>1. grp[s].push \in Push /\ (Invalidate(To(grp[s].push)) \/ cache' = cache)
      BY Zenon, <2>4, FailedDoes
    <3> QED
      BY <3>1, PushType DEF To
  <2>5. CASE Relay(s)
    <3>1. grp[s].push \in Push /\ (Invalidate(To(grp[s].push)) \/ cache' = cache)
      BY Zenon, <2>5, RelayDoes
    <3> QED
      BY <3>1, PushType DEF To
  <2> QED
    BY <1>3, <2>1, <2>2, <2>3, <2>4, <2>5 DEF Group
<1>4. CASE Run
  <2>1. CASE Route
    <3>1. PICK p \in wk.todo : Routes(p)
      BY <2>1, RouteDoes
    <3> QED
      BY <1>1, <3>1, PushType DEF Routes, To
  <2>2. CASE ~Route
    BY Zenon, <1>2, <1>4, <2>2 DEF Run, Fetch, RouteSkips, Dispatch, Collected, FlushAcks, FlushNotifies,
       Commit
  <2> QED
    BY <2>1, <2>2
<1>5. CASE Environment
  BY <1>1, <1>2, <1>5 DEF Environment, EventRegister, EventUnregister, WriteRecord, ServerCrash, GhostSweep, Write, Expire
<1>6. CASE Crash
  BY <1>6, CrashDoes
<1>7. CASE UNCHANGED vars
  BY <1>2, <1>7 DEF vars
<1> QED
  BY <1>1, <1>2, <1>3, <1>4, <1>5, <1>6, <1>7 DEF Next

(***************************************************************************)
(* Records, the cache and a second lookup are true as long as nothing is   *)
(* worse than that.                                                        *)
(***************************************************************************)
LEMMA RecordsStep ==
  ASSUME DeliverAssumption, TypeOK, RecordsOK, [Next]_vars
  PROVE  RecordsOK'
<1>1. ASSUME faults'.down = 0 PROVE up' = Cs
  <2>1. up = Cs
    BY SMTT(60), <1>1, FaultsGrow DEF RecordsOK
  <2>2. ASSUME NEW s \in Cs, ServerCrash(s) PROVE FALSE
    <3>1. faults'["down"] = faults["down"] + 1
      BY <2>2, HitCounts DEF ServerCrash, Kinds
    <3> QED
      BY SMTT(60), <1>1, <3>1, FaultsGrow
  <2>3. up' = up
    BY Zenon, <2>2, PresenceMoves DEF presence, EventRegister, EventUnregister, WriteRecord, GhostSweep
  <2> QED
    BY <2>1, <2>3
<1>2. ASSUME Steady'
      PROVE  /\ online' = at' /\ \A s \in Cs : op'[s] = NoOp
             /\ missed' = {} /\ \A u \in Uid : left'[u] = {} /\ changes'[u] = 0
  <2>1. /\ online = at /\ \A s \in Cs : op[s] = NoOp
        /\ missed = {} /\ \A u \in Uid : left[u] = {} /\ changes[u] = 0
    BY <1>2, SteadyStays DEF RecordsOK
  <2>2. up = Cs
    BY <1>2, SteadyStays DEF RecordsOK
  <2>3. ~(\E s \in Cs : WriteRecord(s)) /\ ~(\E u \in Uid : GhostSweep(u))
    BY <2>1, <2>2 DEF WriteRecord, GhostSweep
  <2>4. UNCHANGED presence
    BY Zenon, <1>2, <2>3, SteadyStays, PresenceMoves
  <2>5. ASSUME NEW s \in Cs, Relay(s) PROVE missed' = missed
    <3>1. grp[s].push \in Push /\ Enqueue(grp[s].push, grp[s].addr) /\ got' = got
      BY Zenon, <2>5, RelayDoes DEF Relay
    <3>2. Answer(grp[s].push, grp[s].addr) = "not_found" => online[To(grp[s].push)] # grp[s].addr
      BY Zenon, <2>1, <3>1, EnqueueDoes
    <3> QED
      BY Zenon, <2>5, <3>2, RelayDoes
  <2>6. CASE ~(\E s \in Cs : Relay(s))
    <3>1. missed' = missed
      BY Zenon, <2>6 DEF Next, Group, BatchRelay, BatchAnswered, BatchFails, StartSingle, GroupDone, Look,
         LookFails, RelayFails, Run, Fetch, Route, RouteSkips, Dispatch, Collected, FlushAcks,
         FlushNotifies, Commit, Crash, Environment, EventRegister, EventUnregister, WriteRecord,
         ServerCrash, GhostSweep, Write, Expire, servers, vars
    <3> QED
      BY <2>1, <2>4, <3>1 DEF presence
  <2> QED
    BY <2>1, <2>4, <2>5, <2>6 DEF presence
<1> QED
  BY <1>1, <1>2 DEF RecordsOK

LEMMA CacheStep ==
  ASSUME DeliverAssumption, TypeOK, CacheOK, [Next]_vars
  PROVE  CacheOK'
<1>1. SUFFICES ASSUME NEW u \in Uid, changes'[u] = 0 PROVE cache'[u] \in {Unknown, online'[u]}
  BY DEF CacheOK
<1>2. changes[u] = 0 /\ online'[u] = online[u]
  BY SMTT(30), <1>1, RecordMoves
<1>3. cache[u] \in {Unknown, online[u]}
  BY <1>2 DEF CacheOK
<1> QED
  BY <1>2, <1>3, CacheMoves

\* A goroutine that is not at work on a push, or begins with it.
Begins(g) == g.stage # "relay" /\ ~g.second /\ g.try = 1

LEMMA SingleBegins ==
  ASSUME DeliverAssumption, TypeOK, [Next]_vars, NEW t \in Cs, Begins(grp'[t])
  PROVE  SingleOK(grp[t])'
BY SMTT(60), FaultsGrow DEF SingleOK, Begins

\* What a step leaves of the second lookup of a goroutine it does not touch.
LEMMA SingleKept ==
  ASSUME DeliverAssumption, TypeOK, RoutesOK, [Next]_vars, NEW t \in Cs, grp'[t] = grp[t]
  PROVE  SingleOK(grp[t])'
<1>1. /\ faults.rpc \in Nat /\ faults'.rpc \in Nat /\ faults.rpc <= faults'.rpc
      /\ faults.down \in Nat /\ faults'.down \in Nat /\ faults.down <= faults'.down
      /\ faults.route \in Nat /\ faults'.route \in Nat /\ faults.route <= faults'.route
  BY FaultsGrow
<1>2. SingleOK(grp[t])
  BY DEF RoutesOK
<1>3. PICK g : g = grp[t]
  OBVIOUS
<1>4. g \in Goroutine /\ GoroutineOK(g) /\ grp'[t] = g
  BY <1>3, GroupType
<1>5. faults'.route = 0 /\ faults'.down = 0 => g.try <= faults'.rpc + 1
  <2>1. faults.route = 0 /\ faults.down = 0 => g.try <= faults.rpc + 1
    BY <1>2, <1>3 DEF SingleOK
  <2>2. g.try \in 1..Attempts /\ Attempts \in Nat
    BY <1>4, PushType DEF Goroutine
  <2>3. faults'.route = 0 /\ faults'.down = 0 => faults.route = 0 /\ faults.down = 0
    BY SMTT(30), <1>1
  <2>4. g.try <= faults.rpc + 1 => g.try <= faults'.rpc + 1
    BY SMTT(60), <1>1, <2>2
  <2> QED
    BY <2>1, <2>3, <2>4
<1>6. CASE g.stage \in {"get", "relay"}
  <2>1. PICK u \in Uid : u = To(g.push)
    BY Zenon, <1>4, <1>6, PushType DEF GoroutineOK, To
  <2>2. cache'[u] \in {cache[u], Unknown, online[u]}
    BY CacheMoves
  <2>3. /\ missed \subseteq missed' /\ changes[u] \in Nat
        /\ \/ online'[u] = online[u] /\ changes'[u] = changes[u]
           \/ changes'[u] = changes[u] + 1
    BY RecordMoves
  <2>4. /\ g.stage = "get" /\ g.second =>
             \/ g.push \in missed \/ changes[u] > 1
             \/ changes[u] = 1 /\ cache[u] \in {Unknown, online[u]}
        /\ g.stage = "relay" /\ g.second =>
             g.push \in missed \/ changes[u] > 1 \/ (changes[u] = 1 /\ g.addr = online[u])
        /\ g.stage = "relay" /\ ~g.second => changes[u] > 0 \/ g.addr = online[u]
    BY <1>2, <1>3, <2>1 DEF SingleOK
  <2>5. /\ g.stage = "get" /\ g.second =>
             \/ g.push \in missed' \/ changes'[u] > 1
             \/ changes'[u] = 1 /\ cache'[u] \in {Unknown, online'[u]}
        /\ g.stage = "relay" /\ g.second =>
             g.push \in missed' \/ changes'[u] > 1 \/ (changes'[u] = 1 /\ g.addr = online'[u])
        /\ g.stage = "relay" /\ ~g.second => changes'[u] > 0 \/ g.addr = online'[u]
    <3>1. CASE changes'[u] = changes[u] + 1
      BY SMTT(60), <2>3, <2>4, <3>1
    <3>2. CASE online'[u] = online[u] /\ changes'[u] = changes[u]
      BY <2>2, <2>3, <2>4, <3>2
    <3> QED
      BY <2>3, <3>1, <3>2
  <2> QED
    BY <1>4, <1>5, <2>1, <2>5 DEF SingleOK, To
<1>7. CASE g.stage \notin {"get", "relay"}
  BY <1>4, <1>5, <1>7 DEF SingleOK
<1> QED
  BY <1>6, <1>7

\* The steps of a goroutine.
LEMMA SingleStep ==
  ASSUME DeliverAssumption, TypeOK, RoutesOK, [Next]_vars, NEW s \in Cs, Group(s)
  PROVE  SingleOK(grp[s])'
<1>1. /\ faults.rpc \in Nat /\ faults'.rpc \in Nat /\ faults.rpc <= faults'.rpc
      /\ faults.down \in Nat /\ faults'.down \in Nat /\ faults.down <= faults'.down
      /\ faults.route \in Nat /\ faults'.route \in Nat /\ faults.route <= faults'.route
  BY FaultsGrow
<1>2. /\ SingleOK(grp[s]) /\ CacheOK /\ (faults'.down = 0 => up = Cs)
      /\ \A u \in Uid : changes[u] \in Nat
  BY SMTT(30), <1>1, RecordMoves DEF RoutesOK, RecordsOK
<1>3. UNCHANGED <<online, changes>> /\ missed \subseteq missed'
  <2>1. UNCHANGED presence
    BY Zenon DEF Group, BatchRelay, BatchAnswered, BatchFails, StartSingle, GroupDone, Look, LookFails,
       Relay, RelayFails, servers
  <2> QED
    BY <2>1, MissedGrows DEF presence
<1>4. CASE BatchRelay(s)
  <2>1. Begins(grp'[s])
    BY <1>4, BatchRelayDoes DEF BatchRelays, Begins
  <2> QED
    BY <2>1, SingleBegins
<1>5. CASE BatchAnswered(s) \/ BatchFails(s) \/ StartSingle(s) \/ GroupDone(s)
  <2>1. Begins(grp'[s])
    BY <1>5, BatchAnsweredDoes, BatchFailsDoes, StartSingleDoes, GroupDoneDoes, IdleOK
       DEF BatchEnds, Begins
  <2> QED
    BY <2>1, SingleBegins
<1>6. Ends(s) => Begins(grp'[s])
  BY DEF Ends, Begins
<1>7. CASE Look(s)
  <2>1. PICK u : u = To(grp[s].push)
    OBVIOUS
  <2>2. CASE Keeps(s, "relay", grp[s].try, grp[s].second, Get(u))
    <3>1. /\ grp[s].stage = "get" /\ grp'[s].push = grp[s].push /\ grp'[s].try = grp[s].try
          /\ grp'[s].second = grp[s].second /\ grp'[s].stage = "relay" /\ grp'[s].addr = Get(u)
          /\ grp[s].push \in Push /\ faults' = faults
      BY <1>7, <2>2, LookDoes DEF Keeps, Single, Look
    <3>2. u \in Uid
      BY <2>1, <3>1, PushType DEF To
    <3>3. grp[s].second =>
            \/ grp[s].push \in missed \/ changes[u] > 1
            \/ changes[u] = 1 /\ cache[u] \in {Unknown, online[u]}
      BY <1>2, <2>1, <3>1 DEF SingleOK
    <3>4. changes[u] > 0 \/ cache[u] \in {Unknown, online[u]}
      BY SMTT(30), <1>2, <3>2 DEF CacheOK
    <3>5. cache[u] \in {Unknown, online[u]} => Get(u) = online[u]
      BY DEF Get
    <3>6. /\ grp[s].second =>
               \/ grp[s].push \in missed \/ changes[u] > 1
               \/ changes[u] = 1 /\ Get(u) = online[u]
          /\ changes[u] > 0 \/ Get(u) = online[u]
      BY <3>3, <3>4, <3>5
    <3>7. faults.route = 0 /\ faults.down = 0 => grp[s].try <= faults.rpc + 1
      BY <1>2 DEF SingleOK
    <3> QED
      BY <1>3, <2>1, <3>1, <3>6, <3>7 DEF SingleOK, To
  <2> QED
    BY <1>6, <1>7, <2>1, <2>2, LookDoes, SingleBegins
<1>8. CASE LookFails(s) \/ RelayFails(s)
  <2>1. CASE Keeps(s, "get", grp[s].try + 1, FALSE, NoCs)
    <3>1. /\ grp'[s].try = grp[s].try + 1 /\ ~grp'[s].second /\ grp'[s].stage = "get"
      BY <2>1 DEF Keeps
    <3>2. faults.route = 0 /\ faults.down = 0 => grp[s].try <= faults.rpc + 1
      BY <1>2 DEF SingleOK
    <3>3. grp[s].try \in Nat
      BY GroupType, PushType DEF Goroutine
    <3>4. faults'.route = 0 /\ faults'.down = 0 => faults'.rpc = faults.rpc + 1
      <4>1. CASE Hit("route", MaxRoute)
        <5>1. faults'["route"] = faults["route"] + 1
          BY <4>1, HitCounts DEF Kinds
        <5> QED
          BY SMTT(30), <1>1, <5>1
      <4>2. CASE LostCall(grp[s].addr) /\ grp[s].addr \in Cs
        <5>0. SUFFICES ASSUME faults'.down = 0 PROVE faults'.rpc = faults.rpc + 1
          OBVIOUS
        <5>1. Hit("rpc", MaxRpc)
          BY <1>2, <4>2, <5>0 DEF LostCall
        <5>2. faults'["rpc"] = faults["rpc"] + 1
          BY <5>1, HitCounts DEF Kinds
        <5> QED
          BY <5>2
      <4> QED
        BY Zenon, <1>8, <4>1, <4>2, FailedDoes
    <3>5. faults'.route = 0 /\ faults'.down = 0 => grp[s].try + 1 <= faults'.rpc + 1
      BY SMTT(60), <1>1, <3>2, <3>3, <3>4
    <3> QED
      BY <3>1, <3>5 DEF SingleOK
  <2> QED
    BY Zenon, <1>6, <1>8, <2>1, FailedDoes, SingleBegins
<1>9. CASE Relay(s)
  <2>1. CASE /\ Answer(grp[s].push, grp[s].addr) = "not_found" /\ ~grp[s].second
             /\ Keeps(s, "get", grp[s].try, TRUE, NoCs) /\ Invalidate(To(grp[s].push))
    <3>1. /\ grp[s].stage = "relay" /\ grp[s].push \in Push /\ faults' = faults
          /\ grp'[s].try = grp[s].try /\ grp'[s].second /\ grp'[s].stage = "get"
          /\ grp'[s].push = grp[s].push
      BY Zenon, <1>9, <2>1, RelayDoes DEF Keeps, Relay
    <3>2. cache'[To(grp[s].push)] = Unknown
      BY Zenon, <2>1, <3>1, RouterDoes, PushType DEF To
    <3>3. changes[To(grp[s].push)] \in Nat
      BY <1>2, <3>1, PushType DEF To
    <3>4. changes[To(grp[s].push)] > 0 \/ grp[s].addr = online[To(grp[s].push)]
      BY <1>2, <2>1, <3>1 DEF SingleOK
    <3>5. grp[s].push \in missed' \/ changes[To(grp[s].push)] > 0
      <4>1. grp[s].addr = online[To(grp[s].push)] => grp[s].push \in missed'
        BY Zenon, <1>9, <2>1, RelayDoes
      <4> QED
        BY <3>4, <4>1
    <3>6. faults.route = 0 /\ faults.down = 0 => grp[s].try <= faults.rpc + 1
      BY <1>2 DEF SingleOK
    <3> QED
      BY SMTT(30), <1>3, <3>1, <3>2, <3>3, <3>5, <3>6 DEF SingleOK, To
  <2> QED
    BY Zenon, <1>6, <1>9, <2>1, RelayDoes, SingleBegins
<1> QED
  BY <1>4, <1>5, <1>7, <1>8, <1>9 DEF Group

LEMMA RoutesNext ==
  ASSUME DeliverAssumption, TypeOK, RoutesOK, [Next]_vars
  PROVE  RoutesOK'
<1>1. RecordsOK' /\ CacheOK'
  BY RecordsStep, CacheStep DEF RoutesOK
<1>2. SUFFICES ASSUME NEW t \in Cs PROVE SingleOK(grp[t])'
  BY <1>1 DEF RoutesOK
<1>3. ASSUME NEW s \in Cs, Group(s) PROVE SingleOK(grp[t])'
  <2>1. CASE t = s
    BY <1>2, <1>3, <2>1, SingleStep
  <2>2. CASE t # s
    <3>1. Only(s)
      BY ZenonT(60), <1>3, BatchRelayDoes, BatchAnsweredDoes, BatchFailsDoes, StartSingleDoes, GroupDoneDoes,
         LookDoes, FailedDoes, RelayDoes DEF Group, BatchRelays, BatchEnds, Keeps, Ends, Single
    <3> QED
      BY <1>2, <2>2, <3>1, SingleKept DEF Only
  <2> QED
    BY <2>1, <2>2
<1>4. CASE Run
  <2>1. CASE Route \/ Dispatch
    <3>1. Begins(grp'[t])
      BY Zenon, <2>1, RouteDoes, DispatchDoes DEF Gathers, GathersOK, Begins
    <3> QED
      BY <3>1, SingleBegins
  <2>2. CASE ~(Route \/ Dispatch)
    <3>1. grp' = grp
      BY Zenon, <1>4, <2>2 DEF Run, Fetch, RouteSkips, Collected, FlushAcks, FlushNotifies, Commit
    <3> QED
      BY <1>2, <3>1, SingleKept
  <2> QED
    BY <2>1, <2>2
<1>5. CASE Environment \/ UNCHANGED vars
  <2>1. grp' = grp
    BY <1>5 DEF Environment, EventRegister, EventUnregister, WriteRecord, ServerCrash, GhostSweep, Write, Expire, vars
  <2> QED
    BY <1>2, <2>1, SingleKept
<1>6. CASE Crash
  <2>1. Begins(grp'[t])
    BY <1>6, CrashDoes, IdleOK DEF Begins
  <2> QED
    BY <2>1, SingleBegins
<1> QED
  BY <1>3, <1>4, <1>5, <1>6 DEF Next

-----------------------------------------------------------------------------
(***************************************************************************)
(* What the steps of a goroutine have in common.                           *)
(***************************************************************************)
GroupFrame(s) ==
  /\ Only(s) /\ Collects /\ wk.pc = "relay" /\ wk.todo = {} /\ wk'.todo = {} /\ wk'.hi = wk.hi
  /\ UNCHANGED <<at, left, op, online, changes, up, got, committed, acked, notified>>
  /\ full \subseteq full' /\ missed \subseteq missed' /\ Lists(grp'[s]) \subseteq Lists(grp[s]) \cup {0}

LEMMA GroupFrames ==
  ASSUME DeliverAssumption, TypeOK, NEW s \in Cs, Group(s)
  PROVE  GroupFrame(s)
<1>1. UNCHANGED <<at, left, op, online, changes, up, got, committed, acked, notified>>
  BY Zenon DEF Group, BatchRelay, BatchAnswered, BatchFails, StartSingle, GroupDone, Look, LookFails,
         Relay, RelayFails, servers, presence, topics
<1>2. ASSUME Collects, Only(s), wk.pc = "relay", wk.todo = {}, full \subseteq full',
             Lists(grp'[s]) \subseteq Lists(grp[s]) \cup {0}
      PROVE  GroupFrame(s)
  BY <1>1, <1>2, MissedGrows DEF GroupFrame, Collects
<1>3. CASE BatchRelay(s)
  <2>1. PICK p \in grp[s].list : BatchRelays(s, p)
    BY <1>3, BatchRelayDoes
  <2>2. full \subseteq full' /\ Lists(grp'[s]) = Lists(grp[s])
    BY <1>1, <2>1, EnqueueDoes DEF BatchRelays, Lists
  <2> QED
    BY <1>2, <2>1, <2>2, WorkKept DEF BatchRelays
<1>4. CASE BatchAnswered(s) \/ BatchFails(s)
  <2>1. PICK pushes \in SUBSET grp[s].list : BatchEnds(s, pushes)
    BY <1>4, BatchAnsweredDoes, BatchFailsDoes DEF BatchEnds
  <2>2. full' = full
    BY Zenon, <1>4 DEF BatchAnswered, BatchFails, servers, presence
  <2>3. Lists(grp'[s]) \subseteq Lists(grp[s]) \cup {0}
    BY <2>1 DEF BatchEnds, Lists
  <2> QED
    BY <1>2, <2>1, <2>2, <2>3 DEF BatchEnds
<1>5. CASE StartSingle(s)
  <2>1. /\ Only(s) /\ wk' = wk /\ wk.pc = "relay" /\ wk.todo = {}
        /\ Lists(grp'[s]) \subseteq Lists(grp[s])
    BY <1>5, StartSingleDoes DEF Lists
  <2>2. full' = full
    BY <1>5 DEF StartSingle, servers, presence
  <2> QED
    BY <1>2, <2>1, <2>2, WorkKept
<1>6. CASE GroupDone(s)
  <2>1. /\ Only(s) /\ wk' = wk /\ wk.pc = "relay" /\ wk.todo = {} /\ Lists(grp'[s]) = {0}
    BY <1>6, GroupDoneDoes, IdleOK DEF Lists
  <2>2. full' = full
    BY <1>6 DEF GroupDone, servers, presence
  <2> QED
    BY <1>2, <2>1, <2>2, WorkKept
<1>7. Single(s) => /\ Only(s) /\ Collects /\ wk.pc = "relay" /\ wk.todo = {}
                   /\ (grp'[s].push \in {grp[s].push, 0} => Lists(grp'[s]) \subseteq Lists(grp[s]) \cup {0})
  BY DEF Single, Lists
<1>8. CASE Look(s)
  <2>1. Single(s) /\ grp'[s].push \in {grp[s].push, 0} /\ full' = full
    BY Zenon, <1>8, LookDoes DEF Keeps, Ends, Look, servers, presence
  <2> QED
    BY <1>2, <1>7, <2>1
<1>9. CASE LookFails(s) \/ RelayFails(s)
  <2>1. Single(s) /\ grp'[s].push \in {grp[s].push, 0} /\ full \subseteq full'
    BY Zenon, <1>1, <1>9, FailedDoes, EnqueueDoes DEF Keeps, Ends
  <2> QED
    BY <1>2, <1>7, <2>1
<1>10. CASE Relay(s)
  <2>1. Single(s) /\ grp'[s].push \in {grp[s].push, 0} /\ full \subseteq full'
    BY Zenon, <1>1, <1>10, RelayDoes, EnqueueDoes DEF Keeps, Ends
  <2> QED
    BY <1>2, <1>7, <2>1
<1> QED
  BY <1>3, <1>4, <1>5, <1>6, <1>8, <1>9, <1>10 DEF Group

\* Steps of the environment leave the worker alone.
LEMMA EnvironmentFrames ==
  ASSUME DeliverAssumption, TypeOK, Environment \/ UNCHANGED vars
  PROVE  UNCHANGED <<wk, grp, committed, acked, notified, full>>
BY Zenon DEF Environment, EventRegister, EventUnregister, WriteRecord, ServerCrash, GhostSweep, Write, Expire,
         vars, topics, servers

LEMMA BatchNext ==
  ASSUME DeliverAssumption, TypeOK, InBatch, [Next]_vars
  PROVE  InBatch'
<1>1. /\ wk \in Iteration /\ wk.hi \in Nat /\ wk.hi >= 0
      /\ \A p \in wk.todo : p <= wk.hi
      /\ \A s \in Cs : \A p \in Lists(grp[s]) : p <= wk.hi
  <2>1. wk \in Iteration /\ Len(ToUid) \in Nat
    BY WorkType, PushType
  <2> QED
    BY <2>1 DEF Iteration, InBatch
<1>2. ASSUME NEW s \in Cs, Group(s) PROVE InBatch'
  <2>1. GroupFrame(s)
    BY <1>2, GroupFrames
  <2>2. ASSUME NEW t \in Cs, NEW p \in Lists(grp'[t]) PROVE p <= wk.hi
    <3>1. CASE t = s
      BY <1>1, <2>1, <2>2, <3>1 DEF GroupFrame
    <3>2. CASE t # s
      BY <1>1, <2>1, <2>2, <3>2 DEF GroupFrame, Only
    <3> QED
      BY <3>1, <3>2
  <2> QED
    BY <2>1, <2>2 DEF GroupFrame, InBatch, Lists
<1>3. ASSUME NEW n \in Push, Fetch(n) PROVE InBatch'
  <2>1. /\ grp' = grp /\ wk'.hi = n /\ wk'.todo = (committed + 1)..n
        /\ \A s \in Cs : Lists(grp[s]) = {0}
    BY <1>3, FetchDoes DEF Lists
  <2>2. n \in Nat /\ committed \in Nat
    BY PushType DEF TypeOK
  <2> QED
    BY <2>1, <2>2 DEF InBatch, Lists
<1>4. CASE Route
  <2>1. PICK p \in wk.todo : Routes(p) /\ Gathers(p)
    BY <1>4, RouteDoes
  <2>2. wk'.hi = wk.hi /\ wk'.todo \subseteq wk.todo /\ p <= wk.hi
    BY <1>1, <2>1 DEF Routes
  <2>3. \A s \in Cs : Lists(grp'[s]) \subseteq Lists(grp[s]) \cup {p}
    BY ZenonT(60), <2>1 DEF Gathers, GathersOK, Lists
  <2> QED
    BY <1>1, <2>2, <2>3 DEF InBatch, Lists
<1>5. CASE RouteSkips
  BY <1>1, <1>5, RouteSkipsDoes DEF InBatch, Lists
<1>6. CASE Dispatch
  <2>1. wk'.hi = wk.hi /\ wk'.todo = {} /\ \A s \in Cs : Lists(grp'[s]) \subseteq Lists(grp[s])
    BY <1>6, DispatchDoes DEF GathersOK, Lists
  <2> QED
    BY <1>1, <2>1 DEF InBatch, Lists
<1>7. CASE Collected \/ FlushAcks \/ FlushNotifies \/ Commit
  <2>1. grp' = grp /\ wk'.todo = {} /\ \A s \in Cs : Lists(grp[s]) = {0}
    BY <1>7, FlushDoes DEF Done, Lists
  <2>2. wk'.hi >= 0
    <3>1. BatchOK' /\ Len(ToUid) \in Nat
      BY <1>7, FlushDoes, PushType
    <3> QED
      BY <3>1 DEF BatchOK, Iteration
  <2> QED
    BY Zenon, <2>1, <2>2 DEF InBatch, Lists
<1>8. CASE Environment \/ UNCHANGED vars
  BY <1>8, EnvironmentFrames DEF InBatch, Lists
<1>9. CASE Crash
  <2>1. wk' = IdleWorker /\ \A s \in Cs : grp'[s] = IdleGroup
    BY <1>9, CrashDoes
  <2> QED
    BY <2>1, IdleOK, IdleWorkerOK DEF InBatch, Lists
<1> QED
  BY <1>2, <1>3, <1>4, <1>5, <1>6, <1>7, <1>8, <1>9 DEF Next, Run

-----------------------------------------------------------------------------
(***************************************************************************)
(* Who is told "delivered" is told the truth.                              *)
(***************************************************************************)
LEMMA EnqueuedNow ==
  ASSUME DeliverAssumption, TypeOK, NEW p \in Push, NEW s, Enqueue(p, s), got' = got,
         Answer(p, s) = "delivered", at[To(p)] = s
  PROVE  Enqueued(p)'
<1>1. send' = [send EXCEPT ![To(p)] = Append(@, p)] /\ To(p) \in Uid
  BY EnqueueDoes, PushType DEF To
<1>2. send \in [Uid -> Seq(Push)]
  BY DEF TypeOK
<1>3. PICK q \in Seq(Push) : q = send[To(p)]
  BY <1>1, <1>2
<1>4. send'[To(p)] = Append(q, p)
  BY <1>1, <1>2, <1>3
<1>5. Len(Append(q, p)) = Len(q) + 1 /\ Append(q, p)[Len(q) + 1] = p /\ Len(q) \in Nat
  BY AppendIs
<1>6. Contains(Append(q, p), p)
  <2>1. Len(q) + 1 \in 1..Len(Append(q, p))
    BY <1>5
  <2> QED
    BY Zenon, <1>5, <2>1 DEF Contains
<1> QED
  BY <1>4, <1>6 DEF Enqueued, To

\* Offering a push to a channel takes none out of it.
LEMMA OfferStays ==
  ASSUME DeliverAssumption, TypeOK, NEW q \in Push, NEW s, Enqueue(q, s), got' = got,
         NEW p \in Push, Enqueued(p)
  PROVE  Enqueued(p)'
<1>1. send \in [Uid -> Seq(Push)] /\ To(p) \in Uid /\ To(q) \in Uid
  BY PushType DEF TypeOK, To
<1>2. send' = send \/ send' = [send EXCEPT ![To(q)] = Append(@, q)]
  BY EnqueueDoes
<1>3. PICK c \in Seq(Push) : c = send[To(p)]
  BY <1>1
<1>4. send'[To(p)] = c \/ send'[To(p)] = Append(c, q)
  BY Zenon, <1>1, <1>2, <1>3
<1>5. Contains(c, p) => Contains(Append(c, q), p)
  <2>1. /\ Len(Append(c, q)) = Len(c) + 1 /\ Len(c) \in Nat
        /\ \A i \in 1..Len(c) : Append(c, q)[i] = c[i]
    BY AppendIs
  <2> QED
    BY <2>1 DEF Contains
<1>6. Contains(got[To(p)], p) \/ Contains(c, p)
  BY <1>3 DEF Enqueued
<1> QED
  BY Zenon, <1>4, <1>5, <1>6 DEF Enqueued, To

LEMMA WriteStays ==
  ASSUME DeliverAssumption, TypeOK, NEW u \in Uid, Write(u), NEW p \in Push, Enqueued(p)
  PROVE  Enqueued(p)'
<1>1. /\ send[u] # <<>> /\ Head(send[u]) \in Push
      /\ send' = [send EXCEPT ![u] = Tail(@)]
      /\ got' = [got EXCEPT ![u] = IF Contains(@, Head(send[u])) THEN @ ELSE Append(@, Head(send[u]))]
      /\ send \in [Uid -> Seq(Push)] /\ got \in [Uid -> Seq(Push)] /\ To(p) \in Uid
  BY Zenon, WriteDoes, PushType DEF TypeOK, To
<1>2. CASE To(p) # u
  <2>1. send'[To(p)] = send[To(p)] /\ got'[To(p)] = got[To(p)]
    BY <1>1, <1>2
  <2> QED
    BY <2>1 DEF Enqueued, To
<1>3. CASE To(p) = u
  <2>1. PICK c \in Seq(Push) : c = send[u]
    BY <1>1
  <2>2. PICK g \in Seq(Push) : g = got[u]
    BY <1>1
  <2>3. PICK h \in Push : h = Head(c)
    BY Zenon, <1>1, <2>1
  <2>4. /\ send'[u] = Tail(c) /\ c # <<>>
        /\ got'[u] = IF Contains(g, h) THEN g ELSE Append(g, h)
    BY <1>1, <2>1, <2>2, <2>3
  <2>5. Contains(g, p) \/ Contains(c, p)
    BY <1>3, <2>1, <2>2 DEF Enqueued
  <2>6. \A q \in Push : Contains(g, q) \/ q = h => Contains(got'[u], q)
    <3>1. /\ Len(Append(g, h)) = Len(g) + 1 /\ Append(g, h)[Len(g) + 1] = h /\ Len(g) \in Nat
          /\ \A i \in 1..Len(g) : Append(g, h)[i] = g[i]
      BY AppendIs
    <3>2. \A i \in 1..Len(g) : i \in 1..Len(Append(g, h))
      BY <3>1
    <3>3. \A q \in Push : Contains(g, q) => Contains(Append(g, h), q)
      BY Zenon, <3>1, <3>2 DEF Contains
    <3>4. Contains(Append(g, h), h)
      BY <3>1 DEF Contains
    <3> QED
      BY Zenon, <2>4, <3>3, <3>4
  <2>7. Contains(c, p) => p = h \/ Contains(Tail(c), p)
    <3>1. /\ Len(c) \in Nat /\ Len(c) >= 1 /\ h = c[1] /\ Len(Tail(c)) = Len(c) - 1
          /\ \A i \in 1..(Len(c) - 1) : Tail(c)[i] = c[i + 1]
      BY <2>3, <2>4, TailIs
    <3>2. ASSUME NEW i \in 1..Len(c), c[i] = p PROVE p = h \/ Contains(Tail(c), p)
      <4>1. CASE i = 1
        BY Zenon, <3>1, <3>2, <4>1
      <4>2. CASE i # 1
        <5>1. i - 1 \in 1..(Len(c) - 1) /\ (i - 1) + 1 = i
          BY <3>1, <4>2
        <5>2. Tail(c)[i - 1] = p
          BY <3>1, <3>2, <5>1
        <5> QED
          BY Zenon, <3>1, <5>1, <5>2 DEF Contains
      <4> QED
        BY <4>1, <4>2
    <3> QED
      BY Zenon, <3>2 DEF Contains
  <2> QED
    BY <1>3, <2>4, <2>5, <2>6, <2>7 DEF Enqueued, To
<1> QED
  BY <1>2, <1>3

\* A step that offers a push to a channel.
Offers(s, p) ==
  /\ \/ BatchRelay(s) /\ p \in First(With(grp[s], "none"))
     \/ p = grp[s].push /\ grp[s].stage = "relay" /\ (Relay(s) \/ RelayFails(s))
  /\ p \in Push /\ got' = got
  /\ \E c \in Cs : Enqueue(p, c)

LEMMA ChannelsMove ==
  ASSUME DeliverAssumption, TypeOK, [Next]_vars, Steady'
  PROVE  \/ UNCHANGED <<send, got>>
         \/ \E u \in Uid : Write(u)
         \/ \E s \in Cs : \E p \in Push : Offers(s, p)
<1>1. ASSUME NEW s \in Cs, Group(s)
      PROVE  UNCHANGED <<send, got>> \/ \E p \in Push : Offers(s, p)
  <2>1. CASE BatchRelay(s)
    <3>1. PICK p \in grp[s].list : BatchRelays(s, p)
      BY <2>1, BatchRelayDoes
    <3>2. /\ p \in Push /\ got' = got /\ p \in First(With(grp[s], "none")) /\ Enqueue(p, s)
      BY Zenon, <2>1, <3>1 DEF BatchRelays, BatchRelay
    <3> QED
      BY <2>1, <3>2 DEF Offers
  <2>2. CASE Relay(s)
    <3>1. PICK c \in Cs : c = grp[s].addr
      BY Zenon, <2>2, RelayDoes
    <3>2. grp[s].push \in Push /\ grp[s].stage = "relay" /\ Enqueue(grp[s].push, c) /\ got' = got
      BY Zenon, <2>2, <3>1, RelayDoes DEF Relay
    <3> QED
      BY <2>2, <3>2 DEF Offers
  <2>3. CASE RelayFails(s)
    <3>1. got' = got /\ grp[s].stage = "relay"
      BY <2>3 DEF RelayFails
    <3>2. CASE UNCHANGED <<send, full>>
      BY <3>1, <3>2
    <3>3. CASE Enqueue(grp[s].push, grp[s].addr)
      <4>1. grp[s].push \in Push /\ grp[s].addr \in Cs
        BY <3>1, GroupType DEF GoroutineOK
      <4>2. PICK c \in Cs : c = grp[s].addr
        BY SMTT(60), <4>1
      <4> QED
        BY <2>3, <3>1, <3>3, <4>1, <4>2 DEF Offers
    <3> QED
      BY <2>3, <3>2, <3>3 DEF RelayFails
  <2>4. CASE ~(BatchRelay(s) \/ Relay(s) \/ RelayFails(s))
    BY ZenonT(60), <1>1, <2>4 DEF Group, BatchAnswered, BatchFails, StartSingle, GroupDone, Look, LookFails,
       servers, presence
  <2> QED
    BY <2>1, <2>2, <2>3, <2>4
<1>2. CASE Run
  BY Zenon, <1>2 DEF Run, Fetch, Route, RouteSkips, Dispatch, Collected, FlushAcks, FlushNotifies, Commit,
     servers, presence
<1>3. CASE Crash \/ UNCHANGED vars
  BY <1>3, CrashDoes DEF vars, servers, presence
<1>4. CASE Environment
  <2>1. ASSUME NEW u \in Uid, GhostSweep(u) \/ Expire(u) PROVE UNCHANGED <<send, got>>
    BY Zenon, <2>1 DEF GhostSweep, Expire, servers
  <2>2. ASSUME NEW s \in Cs, WriteRecord(s) PROVE UNCHANGED <<send, got>>
    BY Zenon, <2>2 DEF WriteRecord
  <2> QED
    BY Zenon, <1>4, <2>1, <2>2, SteadyStays DEF Environment
<1> QED
  BY <1>1, <1>2, <1>3, <1>4 DEF Next

LEMMA EnqueuedStays ==
  ASSUME DeliverAssumption, TypeOK, [Next]_vars, Steady', NEW p \in Push, Enqueued(p)
  PROVE  Enqueued(p)'
<1>1. CASE UNCHANGED <<send, got>>
  BY <1>1 DEF Enqueued, To
<1>2. ASSUME NEW s \in Cs, NEW q \in Push, Offers(s, q) PROVE Enqueued(p)'
  BY <1>2, OfferStays DEF Offers
<1> QED
  BY <1>1, <1>2, ChannelsMove, WriteStays

\* While nobody moves, what was taken went into the channel of the receiver.
LEMMA SteadyTaken ==
  ASSUME DeliverAssumption, TypeOK, RoutesOK, Steady, NEW p \in Push, NEW s, Answer(p, s) = "delivered"
  PROVE  at[To(p)] = s
<1>1. left[To(p)] = {}
  BY PushType DEF RoutesOK, RecordsOK, To
<1> QED
  BY <1>1 DEF Answer, To

LEMMA AcksNext ==
  ASSUME DeliverAssumption, TypeOK, RoutesOK, AcksOK, [Next]_vars
  PROVE  AcksOK'
<1>1. SUFFICES ASSUME Steady'
      PROVE  /\ \A p \in acked' \cup wk'.pending : Enqueued(p)'
             /\ \A s \in Cs : \A p \in With(grp'[s], "delivered") : Enqueued(p)'
  BY DEF AcksOK, With
<1>2. Steady
  BY SMTT(60), <1>1, FaultsGrow DEF Steady
<1>3. /\ \A p \in acked \cup wk.pending : p \in Push /\ Enqueued(p)
      /\ \A s \in Cs : \A p \in With(grp[s], "delivered") : p \in Push /\ Enqueued(p)
  <2>1. /\ acked \subseteq Push /\ wk.pending \subseteq Push
        /\ \A s \in Cs : With(grp[s], "delivered") \subseteq Push
    BY Zenon DEF TypeOK, Iteration, Goroutine, With
  <2> QED
    BY <1>2, <2>1 DEF AcksOK
<1>4. /\ \A p \in acked \cup wk.pending : Enqueued(p)'
      /\ \A s \in Cs : \A p \in With(grp[s], "delivered") : Enqueued(p)'
  BY <1>1, <1>3, EnqueuedStays
<1>5. ASSUME NEW s \in Cs, Group(s)
      PROVE  /\ \A p \in wk'.pending : Enqueued(p)'
             /\ \A p \in With(grp'[s], "delivered") : Enqueued(p)'
  <2>1. CASE BatchRelay(s)
    <3>1. PICK p \in grp[s].list : BatchRelays(s, p)
      BY <2>1, BatchRelayDoes
    <3>2. Answer(p, s) = "delivered" => Enqueued(p)'
      BY <1>2, <2>1, <3>1, EnqueuedNow, SteadyTaken DEF BatchRelays, BatchRelay
    <3>3. \A q \in With(grp'[s], "delivered") : q = p \/ q \in With(grp[s], "delivered")
      <4>1. grp'[s].list = grp[s].list /\ grp[s].list \subseteq Push
        BY <3>1, GroupType DEF BatchRelays, Goroutine
      <4> QED
        BY <3>1, <4>1 DEF BatchRelays, With
    <3>4. p \in With(grp'[s], "delivered") => Answer(p, s) = "delivered"
      BY <3>1 DEF BatchRelays, With
    <3> QED
      BY <1>4, <3>1, <3>2, <3>3, <3>4 DEF BatchRelays
  <2>2. grp'[s].list = {} => With(grp'[s], "delivered") = {}
    BY DEF With
  <2>3. CASE BatchAnswered(s)
    BY <1>4, <2>2, <2>3, BatchAnsweredDoes DEF BatchEnds
  <2>4. CASE BatchFails(s) \/ StartSingle(s) \/ GroupDone(s)
    <3>1. wk' = wk /\ grp'[s].list = {}
      BY <2>4, BatchFailsDoes, StartSingleDoes, GroupDoneDoes, IdleOK DEF BatchEnds
    <3> QED
      BY <1>4, <2>2, <3>1
  <2>5. CASE Look(s)
    <3>1. wk'.pending = wk.pending /\ grp'[s].list = {}
      BY <2>5, LookDoes DEF Keeps, Ends, Single
    <3> QED
      BY <1>4, <2>2, <3>1
  <2>6. CASE LookFails(s) \/ RelayFails(s)
    <3>1. wk' = wk /\ grp'[s].list = {}
      BY Zenon, <2>6, FailedDoes DEF Keeps, Ends, Single
    <3> QED
      BY <1>4, <2>2, <3>1
  <2>7. CASE Relay(s)
    <3>1. PICK p \in Push : p = grp[s].push
      BY Zenon, <2>7, RelayDoes
    <3>2. PICK c : c = grp[s].addr
      OBVIOUS
    <3>3. /\ Enqueue(p, c) /\ got' = got /\ grp'[s].list = {}
          /\ wk'.pending = IF Answer(p, c) = "delivered" THEN wk.pending \cup {p} ELSE wk.pending
      BY ZenonT(60), <2>7, <3>1, <3>2, RelayDoes DEF Relay, Keeps, Ends, Single
    <3>4. Answer(p, c) = "delivered" => Enqueued(p)'
      BY <1>2, <3>3, EnqueuedNow, SteadyTaken
    <3> QED
      BY <1>4, <2>2, <3>3, <3>4
  <2> QED
    BY <1>5, <2>1, <2>3, <2>4, <2>5, <2>6, <2>7 DEF Group
<1>6. ASSUME NEW s \in Cs, Group(s), NEW t \in Cs, NEW p \in With(grp'[t], "delivered")
      PROVE  Enqueued(p)'
  BY <1>4, <1>5, <1>6, GroupFrames DEF GroupFrame, Only
<1>7. ASSUME NEW s \in Cs, Group(s), NEW p \in acked' PROVE Enqueued(p)'
  BY <1>4, <1>7, GroupFrames DEF GroupFrame
<1>8. IdleGroup.res = [p \in Push |-> "none"]
  BY IdleOK
<1>9. ASSUME NEW s \in Cs, grp'[s].res = IdleGroup.res, grp'[s].list \subseteq Push
      PROVE  With(grp'[s], "delivered") = {}
  BY <1>8, <1>9 DEF With
<1>10. \A s \in Cs : grp'[s].list \subseteq Push
  BY NextType, TypeParts DEF BatchOK, GroupsOK, Goroutine
<1>11. CASE Run
  <2>1. CASE Route \/ Dispatch
    <3>1. /\ acked' = acked /\ wk'.pending = wk.pending
          /\ \A s \in Cs : grp'[s].res = IdleGroup.res
      BY Zenon, <2>1, RouteDoes, DispatchDoes DEF Routes, Gathers, GathersOK, Route, Dispatch, topics
    <3> QED
      BY SMTT(60), <1>4, <1>9, <1>10, <3>1
  <2>2. ASSUME NEW n \in Push, Fetch(n)
        PROVE  acked' = acked /\ wk'.pending = wk.pending /\ grp' = grp
    BY Zenon, <2>2, FetchDoes DEF Fetch, topics
  <2>3. CASE RouteSkips
    BY <1>4, <2>3, RouteSkipsDoes DEF RouteSkips, topics
  <2>4. CASE Collected \/ FlushAcks \/ FlushNotifies \/ Commit
    <3>1. grp' = grp
      BY <2>4, FlushDoes
    <3>2. acked' \cup wk'.pending \subseteq acked \cup wk.pending
      BY Zenon, <2>4, IdleWorkerOK, WorkType DEF Collected, FlushAcks, FlushNotifies, Commit, Iteration, topics
    <3> QED
      BY <1>4, <3>1, <3>2
  <2> QED
    BY <1>4, <1>11, <2>1, <2>2, <2>3, <2>4 DEF Run
<1>12. CASE Environment \/ UNCHANGED vars
  BY <1>4, <1>12, EnvironmentFrames
<1>13. CASE Crash
  <2>1. /\ acked' = acked /\ wk'.pending = {} /\ \A s \in Cs : grp'[s].list = {}
    BY <1>13, CrashDoes, IdleOK, IdleWorkerOK DEF topics
  <2> QED
    BY <1>4, <2>1 DEF With
<1> QED
  BY <1>5, <1>6, <1>7, <1>11, <1>12, <1>13 DEF Next

-----------------------------------------------------------------------------
(***************************************************************************)
(* Who is notified is offline, and who is offline is notified.             *)
(***************************************************************************)
LEMMA SteadyGet ==
  ASSUME DeliverAssumption, TypeOK, RoutesOK, Steady, NEW u \in Uid
  PROVE  Get(u) = at[u]
<1>1. online = at /\ cache[u] \in {Unknown, at[u]}
  BY DEF RoutesOK, RecordsOK, CacheOK, Steady
<1> QED
  BY <1>1 DEF Get

LEMMA RouteHit ==
  ASSUME DeliverAssumption, TypeOK, [Next]_vars, Hit("route", MaxRoute)
  PROVE  faults'.route # 0
<1>1. faults'["route"] = faults["route"] + 1
  BY HitCounts DEF Kinds
<1> QED
  BY SMTT(30), <1>1, FaultsGrow

LEMMA NotifiesNext ==
  ASSUME DeliverAssumption, TypeOK, RoutesOK, NotifiesOK, [Next]_vars
  PROVE  NotifiesOK'
<1>1. SUFFICES ASSUME Steady', faults'.route = 0
      PROVE  /\ \A p \in notified' \cup wk'.offline : at'[To(p)] = NoCs
             /\ \A p \in 1..committed' : at'[To(p)] = NoCs => p \in notified'
             /\ \A p \in (committed' + 1)..wk'.hi :
                  at'[To(p)] = NoCs => p \in wk'.todo \cup wk'.offline \cup notified'
  BY DEF NotifiesOK, To
<1>2. Steady /\ faults.route = 0 /\ at' = at
  BY SMTT(60), <1>1, FaultsGrow, SteadyStays
<1>3. /\ \A p \in notified \cup wk.offline : at[To(p)] = NoCs
      /\ \A p \in 1..committed : at[To(p)] = NoCs => p \in notified
      /\ \A p \in (committed + 1)..wk.hi :
           at[To(p)] = NoCs => p \in wk.todo \cup wk.offline \cup notified
  BY <1>2 DEF NotifiesOK
<1>4. ASSUME NEW s \in Cs, Group(s)
      PROVE  \A p \in wk'.offline \ wk.offline : at[To(p)] = NoCs
  <2>1. CASE Look(s) /\ wk' # wk
    <3>1. PICK p \in Push : p = grp[s].push
      BY <2>1, LookDoes, GroupType DEF GoroutineOK
    <3>2. wk'.offline = wk.offline \cup {p} /\ Get(To(p)) = NoCs
      BY <2>1, <3>1, LookDoes
    <3>3. at[To(p)] = NoCs
      BY <1>2, <3>2, SteadyGet, PushType DEF To
    <3> QED
      BY <3>2, <3>3
  <2>2. CASE ~Look(s) \/ wk' = wk
    <3>1. wk'.offline = wk.offline
      BY Zenon, <1>4, <2>2, BatchAnsweredDoes, RelayDoes DEF Group, BatchRelay, BatchFails, StartSingle,
         GroupDone, LookFails, RelayFails
    <3> QED
      BY <3>1
  <2> QED
    BY <2>1, <2>2
<1>5. ASSUME NEW s \in Cs, Group(s)
      PROVE  /\ UNCHANGED <<committed, notified>> /\ wk'.hi = wk.hi /\ wk'.todo = wk.todo
             /\ wk.offline \subseteq wk'.offline
  BY <1>5, GroupFrames DEF GroupFrame, Collects
<1>6. ASSUME NEW n \in Push, Fetch(n)
      PROVE  /\ UNCHANGED <<committed, notified>> /\ wk'.offline = wk.offline
             /\ wk'.todo = (committed' + 1)..wk'.hi
  BY Zenon, <1>6, FetchDoes DEF Fetch, topics
<1>7. CASE Route
  <2>1. PICK p \in wk.todo : Routes(p)
    BY <1>7, RouteDoes
  <2>2. UNCHANGED <<committed, notified>>
    BY <1>7 DEF Route, topics
  <2>3. Get(To(p)) = at[To(p)]
    BY <1>2, <2>1, SteadyGet, PushType DEF Routes, To
  <2>4. /\ wk'.hi = wk.hi /\ wk'.todo = wk.todo \ {p}
        /\ wk'.offline = IF at[To(p)] = NoCs THEN wk.offline \cup {p} ELSE wk.offline
    BY <2>1, <2>3 DEF Routes
  <2>5. \A q \in wk'.offline : at[To(q)] = NoCs
    BY <1>3, <2>4
  <2>6. \A q \in wk.todo \cup wk.offline \cup notified :
          at[To(q)] = NoCs => q \in wk'.todo \cup wk'.offline \cup notified
    BY <2>4
  <2> QED
    BY <1>2, <1>3, <2>2, <2>4, <2>5, <2>6
<1>8. ~RouteSkips
  BY <1>1, RouteSkipsDoes, RouteHit
<1>9. CASE Dispatch
  BY <1>2, <1>3, <1>9, DispatchDoes DEF Dispatch, topics
<1>10. CASE Collected \/ FlushAcks
  <2>1. /\ wk'.hi = wk.hi /\ wk'.offline = wk.offline /\ wk'.todo = wk.todo
        /\ UNCHANGED <<committed, notified>>
    BY Zenon, <1>10, WorkType DEF Collected, FlushAcks, Iteration, topics
  <2> QED
    BY <1>2, <1>3, <2>1
<1>11. CASE FlushNotifies
  <2>1. /\ wk'.hi = wk.hi /\ wk'.offline = {} /\ wk'.todo = wk.todo
        /\ notified' = notified \cup wk.offline /\ committed' = committed
    BY <1>11, WorkType DEF FlushNotifies, Iteration
  <2> QED
    BY <1>2, <1>3, <2>1
<1>12. CASE Commit
  <2>1. /\ wk'.hi = 0 /\ wk'.offline = {} /\ committed' = wk.hi /\ notified' = notified
        /\ wk.todo = {} /\ wk.offline = {}
    BY <1>12, WorkType, IdleWorkerOK, FlushDoes DEF Commit, WorkerOK
  <2>2. committed \in Nat /\ wk.hi \in Nat
    BY WorkType, PushType DEF Iteration
  <2>3. ASSUME NEW p \in 1..wk.hi, at[To(p)] = NoCs PROVE p \in notified
    <3>1. p \in 1..committed \/ p \in (committed + 1)..wk.hi
      BY <2>2
    <3> QED
      BY <1>3, <2>1, <2>3, <3>1
  <2>4. (wk.hi + 1)..0 = {}
    BY Zenon, <2>2, NoneAbove
  <2> QED
    BY Zenon, <1>2, <1>3, <2>1, <2>3, <2>4
<1>13. CASE Environment \/ UNCHANGED vars
  BY <1>2, <1>3, <1>13, EnvironmentFrames
<1>14. CASE Crash
  <2>1. /\ wk'.hi = 0 /\ wk'.offline = {} /\ UNCHANGED <<committed, notified>> /\ committed \in Nat
    BY <1>14, CrashDoes, IdleWorkerOK, WorkType, PushType DEF topics
  <2>2. (committed + 1)..0 = {}
    BY Zenon, <2>1, NoneAbove
  <2> QED
    BY <1>2, <1>3, <2>1, <2>2
<1>15. ASSUME NEW s \in Cs, Group(s)
       PROVE  /\ \A p \in notified' \cup wk'.offline : at'[To(p)] = NoCs
              /\ \A p \in 1..committed' : at'[To(p)] = NoCs => p \in notified'
              /\ \A p \in (committed' + 1)..wk'.hi :
                   at'[To(p)] = NoCs => p \in wk'.todo \cup wk'.offline \cup notified'
  <2>1. \A p \in wk'.offline \ wk.offline : at[To(p)] = NoCs
    BY <1>4, <1>15
  <2> QED
    BY Zenon, <1>2, <1>3, <1>5, <1>15, <2>1
<1>16. ASSUME NEW n \in Push, Fetch(n)
       PROVE  /\ \A p \in notified' \cup wk'.offline : at'[To(p)] = NoCs
              /\ \A p \in 1..committed' : at'[To(p)] = NoCs => p \in notified'
              /\ \A p \in (committed' + 1)..wk'.hi :
                   at'[To(p)] = NoCs => p \in wk'.todo \cup wk'.offline \cup notified'
  BY Zenon, <1>2, <1>3, <1>6, <1>16
<1> QED
  BY <1>7, <1>8, <1>9, <1>10, <1>11, <1>12, <1>13, <1>14, <1>15, <1>16 DEF Next, Run

-----------------------------------------------------------------------------
(***************************************************************************)
(* What is committed was answered.                                         *)
(***************************************************************************)
LEMMA GentleStays ==
  ASSUME DeliverAssumption, TypeOK, [Next]_vars, Gentle'
  PROVE  Gentle /\ faults.down = 0 /\ faults'.down = 0 /\ faults'.route = 0
BY SMTT(60), FaultsGrow, PushType DEF Gentle

\* A push has more attempts than calls are lost.
LEMMA NeverGivesUp ==
  ASSUME DeliverAssumption, TypeOK, RoutesOK, [Next]_vars, Gentle', NEW s \in Cs,
         LookFails(s) \/ RelayFails(s)
  PROVE  Keeps(s, "get", grp[s].try + 1, FALSE, NoCs)
<1>1. SUFFICES ASSUME grp[s].try = Attempts PROVE FALSE
  BY Zenon, FailedDoes
<1>2. grp[s].addr \in Cs /\ LostCall(grp[s].addr)
  BY Zenon, FailedDoes, RouteHit, GentleStays
<1>3. up = Cs /\ SingleOK(grp[s])
  BY GentleStays DEF RoutesOK, RecordsOK
<1>4. faults'["rpc"] = faults["rpc"] + 1
  BY <1>2, <1>3, HitCounts DEF LostCall, Kinds
<1>5. grp[s].try <= faults.rpc + 1
  BY <1>3, GentleStays DEF SingleOK, Gentle
<1>6. faults'.rpc < Attempts
  BY DEF Gentle
<1> QED
  BY SMTT(30), <1>1, <1>4, <1>5, <1>6, FaultsGrow, PushType

\* Not found twice: the record has changed twice, or it was not true.
LEMMA NotFoundTwice ==
  ASSUME DeliverAssumption, TypeOK, RoutesOK, [Next]_vars, NEW s \in Cs, Relay(s), grp[s].second,
         NEW p \in Push, p = grp[s].push, Answer(p, grp[s].addr) = "not_found"
  PROVE  AnsweredOne(p)'
<1>1. grp[s].stage = "relay" /\ (online[To(p)] = grp[s].addr => p \in missed')
  BY Zenon, RelayDoes
<1>2. p \in missed \/ changes[To(p)] > 1 \/ grp[s].addr = online[To(p)]
  BY <1>1 DEF RoutesOK, SingleOK
<1>3. missed \subseteq missed' /\ changes' = changes
  BY RecordMoves DEF Relay, presence
<1> QED
  BY <1>1, <1>2, <1>3 DEF AnsweredOne, To

LEMMA HasGoes ==
  ASSUME DeliverAssumption, TypeOK, RoutesOK, [Next]_vars, Gentle', NEW s \in Cs, Group(s),
         NEW p \in Push, Has(grp[s], p)
  PROVE  Has(grp'[s], p) \/ p \in wk'.pending \cup wk'.offline \cup full' \/ AnsweredOne(p)'
<1>1. p # 0 /\ grp[s] \in Goroutine
  BY PushType, GroupType
<1>2. CASE BatchRelay(s)
  <2>1. PICK q \in grp[s].list : BatchRelays(s, q)
    BY <1>2, BatchRelayDoes
  <2>2. p \in grp[s].list /\ grp[s].res[p] # "send_full"
    BY <1>1, <2>1 DEF Has, BatchRelays
  <2>3. Answer(q, s) = "send_full" => q \in full'
    BY <1>2, <2>1, EnqueueDoes DEF BatchRelays, BatchRelay
  <2> QED
    BY <2>1, <2>2, <2>3 DEF Has, BatchRelays
<1>3. CASE BatchAnswered(s)
  <2>1. /\ grp[s].todo = {} /\ grp[s].push = 0 /\ grp'[s].todo = With(grp[s], "not_found")
        /\ wk'.pending = wk.pending \cup With(grp[s], "delivered") /\ With(grp[s], "none") = {}
    BY <1>3, BatchAnsweredDoes DEF BatchEnds
  <2>2. p \in grp[s].list /\ grp[s].res[p] \in {"delivered", "not_found", "none"}
    BY <1>1, <2>1 DEF Has, Goroutine, Answers
  <2> QED
    BY <2>1, <2>2 DEF With, Has
<1>4. CASE BatchFails(s)
  <2>1. /\ grp[s].todo = {} /\ grp[s].push = 0 /\ grp'[s].todo = grp[s].list
    BY <1>4, BatchFailsDoes DEF BatchEnds
  <2> QED
    BY <1>1, <2>1 DEF Has
<1>5. CASE StartSingle(s)
  <2>1. PICK q \in grp[s].todo :
          /\ grp[s].list = {} /\ grp[s].push = 0
          /\ grp'[s].push = q /\ grp'[s].todo = grp[s].todo \ {q}
    BY <1>5, StartSingleDoes
  <2> QED
    BY <1>1, <2>1 DEF Has
<1>6. CASE GroupDone(s)
  BY <1>1, <1>6, GroupDoneDoes DEF Has
<1>7. ASSUME NEW stage, NEW try, NEW second, NEW addr, Keeps(s, stage, try, second, addr)
      PROVE  Has(grp'[s], p)
  BY <1>7 DEF Keeps, Single, Has
<1>8. Ends(s) => Has(grp'[s], p) \/ p = grp[s].push
  BY DEF Ends, Single, Has
<1>9. CASE Look(s)
  BY <1>7, <1>8, <1>9, LookDoes
<1>10. CASE LookFails(s) \/ RelayFails(s)
  BY Zenon, <1>7, <1>10, NeverGivesUp
<1>11. CASE Relay(s)
  <2>1. CASE /\ Answer(grp[s].push, grp[s].addr) = "not_found" => grp[s].second
             /\ Ends(s)
    <3>1. PICK q \in Push : q = grp[s].push
      BY Zenon, <1>11, RelayDoes
    <3>2. CASE Answer(grp[s].push, grp[s].addr) = "not_found"
      <4>1. p = grp[s].push => AnsweredOne(p)'
        BY <1>11, <2>1, <3>2, NotFoundTwice
      <4> QED
        BY <1>8, <2>1, <4>1
    <3>3. CASE Answer(grp[s].push, grp[s].addr) # "not_found"
      <4>1. PICK c : c = grp[s].addr
        OBVIOUS
      <4>2. /\ Answer(q, c) # "not_found" /\ Enqueue(q, c) /\ got' = got
            /\ wk'.pending = IF Answer(q, c) = "delivered" THEN wk.pending \cup {q} ELSE wk.pending
        BY <1>11, <3>1, <3>3, <4>1, RelayDoes DEF Relay
      <4>3. q \in wk'.pending \cup full'
        BY <4>2, EnqueueDoes
      <4> QED
        BY <1>8, <2>1, <3>1, <4>3
    <3> QED
      BY <3>2, <3>3
  <2> QED
    BY Zenon, <1>7, <1>11, <2>1, RelayDoes
<1> QED
  BY <1>2, <1>3, <1>4, <1>5, <1>6, <1>9, <1>10, <1>11 DEF Group

LEMMA FetchedNext ==
  ASSUME DeliverAssumption, TypeOK, RoutesOK, FetchedOK, [Next]_vars
  PROVE  FetchedOK'
<1>1. SUFFICES ASSUME Gentle'
      PROVE  /\ \A p \in 1..committed' : AnsweredOne(p)'
             /\ \A p \in (committed' + 1)..wk'.hi : AnsweredOne(p)' \/ Working(p)'
  BY DEF FetchedOK
<1>2. /\ \A p \in 1..committed : AnsweredOne(p)
      /\ \A p \in (committed + 1)..wk.hi : AnsweredOne(p) \/ Working(p)
  BY <1>1, GentleStays DEF FetchedOK
<1>3. /\ committed \in Nat /\ committed <= Len(ToUid) /\ wk.hi \in Nat /\ wk.hi <= Len(ToUid)
      /\ wk \in Iteration /\ Push = 1..Len(ToUid) /\ Len(ToUid) \in Nat
      /\ \A s \in Cs : grp[s] \in Goroutine
  BY WorkType, PushType, GroupType DEF Iteration
<1>4. (\A p \in 1..committed : p \in Push) /\ (\A p \in (committed + 1)..wk.hi : p \in Push /\ p # 0)
  BY SMTT(60), <1>3
\* What has been answered stays so.
<1>a. ASSUME acked \subseteq acked', notified \subseteq notified', full \subseteq full',
             NEW p \in Push, AnsweredOne(p)
      PROVE  AnsweredOne(p)'
  <2>1. /\ missed \subseteq missed' /\ changes[To(p)] \in Nat /\ changes'[To(p)] \in Nat
        /\ changes[To(p)] <= changes'[To(p)]
    BY SMTT(30), RecordMoves, PushType DEF To
  <2> QED
    BY <1>a, <2>1 DEF AnsweredOne, To
\* A step inside a batch.
<1>5. ASSUME committed' = committed, wk'.hi = wk.hi,
             acked \subseteq acked', notified \subseteq notified', full \subseteq full',
             \A p \in Push : Working(p) => Working(p)' \/ AnsweredOne(p)'
      PROVE  /\ \A p \in 1..committed' : AnsweredOne(p)'
             /\ \A p \in (committed' + 1)..wk'.hi : AnsweredOne(p)' \/ Working(p)'
  <2>1. \A p \in Push : AnsweredOne(p) => AnsweredOne(p)'
    BY <1>a, <1>5
  <2> QED
    BY <1>2, <1>4, <1>5, <2>1
\* A step that ends a batch.
<1>6. ASSUME wk'.hi = 0, committed' \in Nat, \A p \in 1..committed' : AnsweredOne(p)'
      PROVE  /\ \A p \in 1..committed' : AnsweredOne(p)'
             /\ \A p \in (committed' + 1)..wk'.hi : AnsweredOne(p)' \/ Working(p)'
  <2>1. (committed' + 1)..0 = {}
    BY Zenon, <1>6, NoneAbove
  <2> QED
    BY Zenon, <1>6, <2>1
<1>7. ASSUME NEW s \in Cs, Group(s)
      PROVE  /\ \A p \in 1..committed' : AnsweredOne(p)'
             /\ \A p \in (committed' + 1)..wk'.hi : AnsweredOne(p)' \/ Working(p)'
  <2>1. GroupFrame(s)
    BY <1>7, GroupFrames
  <2>2. ASSUME NEW p \in Push, Working(p) PROVE Working(p)' \/ AnsweredOne(p)'
    <3>1. CASE p \in wk.pending \cup wk.offline
      BY <2>1, <3>1 DEF GroupFrame, Collects, Working
    <3>2. ASSUME NEW t \in Cs, Has(grp[t], p), t # s PROVE Working(p)'
      BY <2>1, <3>2 DEF GroupFrame, Only, Working, Has
    <3>3. CASE Has(grp[s], p)
      <4>1. Has(grp'[s], p) \/ p \in wk'.pending \cup wk'.offline \cup full' \/ AnsweredOne(p)'
        BY <1>1, <1>7, <3>3, HasGoes
      <4> QED
        BY <4>1 DEF Working, AnsweredOne, Has, To
    <3> QED
      BY <2>1, <2>2, <3>1, <3>2, <3>3 DEF GroupFrame, Working
  <2> QED
    BY <1>5, <2>1, <2>2 DEF GroupFrame
<1>8. ASSUME NEW n \in Push, Fetch(n)
      PROVE  /\ \A p \in 1..committed' : AnsweredOne(p)'
             /\ \A p \in (committed' + 1)..wk'.hi : AnsweredOne(p)' \/ Working(p)'
  <2>1. /\ UNCHANGED <<committed, acked, notified, full>> /\ wk'.hi = n
        /\ wk'.todo = (committed + 1)..n
    BY Zenon, <1>8, FetchDoes DEF Fetch, topics, servers
  <2> QED
    BY <1>2, <1>4, <1>a, <2>1 DEF Working
<1>9. CASE Route
  <2>1. PICK p \in wk.todo : Routes(p) /\ Gathers(p)
    BY <1>9, RouteDoes
  <2>2. UNCHANGED <<committed, acked, notified, full>>
    BY <1>9 DEF Route, topics, servers, presence
  <2>3. \A q \in Push : IdleGroup.res[q] # "send_full"
    BY IdleOK
  <2>4. ASSUME NEW q \in Push, Working(q) PROVE Working(q)'
    <3>1. CASE q = p
      <4>1. CASE Get(To(p)) = NoCs
        BY <2>1, <3>1, <4>1 DEF Routes, Working
      <4>2. CASE Get(To(p)) # NoCs
        <5>1. PICK c \in Cs : c = Get(To(p))
          BY <2>1, <4>2 DEF Routes
        <5>2. Has(grp'[c], q)
          BY Zenon, <2>1, <2>3, <3>1, <5>1 DEF Gathers, GathersOK, Has
        <5> QED
          BY <5>2 DEF Working, Has
      <4> QED
        BY <4>1, <4>2
    <3>2. CASE q \in (wk.todo \ {p}) \cup wk.pending \cup wk.offline
      BY <2>1, <3>2 DEF Routes, Working
    <3>3. ASSUME NEW s \in Cs, Has(grp[s], q) PROVE Working(q)'
      <4>1. Has(grp'[s], q)
        BY ZenonT(60), <2>1, <2>3, <3>3 DEF Gathers, GathersOK, Has
      <4> QED
        BY <4>1 DEF Working, Has
    <3> QED
      BY <2>4, <3>1, <3>2, <3>3 DEF Working
  <2> QED
    BY <1>5, <2>1, <2>2, <2>4 DEF Routes
<1>10. ~RouteSkips
  BY <1>1, RouteSkipsDoes, RouteHit, GentleStays
<1>11. CASE Dispatch
  <2>1. /\ UNCHANGED <<committed, acked, notified, full>> /\ wk'.hi = wk.hi
        /\ wk'.todo = wk.todo /\ wk'.pending = wk.pending /\ wk'.offline = wk.offline
    BY <1>11, DispatchDoes DEF Dispatch, topics, servers, presence
  <2>2. \A s \in Cs : \A p \in Push : Has(grp[s], p) => Has(grp'[s], p)
    BY <1>11, DispatchDoes DEF GathersOK, Has
  <2>3. \A p \in Push : Working(p) => Working(p)'
    BY <2>1, <2>2 DEF Working, Has
  <2> QED
    BY <1>5, <2>1, <2>3
<1>12. CASE Collected \/ FlushAcks \/ FlushNotifies \/ Commit
  <2>1. grp' = grp /\ wk.todo = {} /\ full' = full /\ \A s \in Cs : \A p \in Push : ~Has(grp[s], p)
    BY <1>12, FlushDoes, PushType DEF Done, Has, Collected, FlushAcks, FlushNotifies, Commit, servers, presence
  <2>2. \A p \in Push : Working(p) => p \in wk.pending \cup wk.offline
    BY <2>1 DEF Working
  <2>3. CASE Collected \/ FlushAcks \/ FlushNotifies
    <3>1. /\ committed' = committed /\ wk'.hi = wk.hi /\ acked \subseteq acked'
          /\ notified \subseteq notified'
          /\ wk.pending \cup wk.offline \subseteq wk'.pending \cup wk'.offline \cup acked' \cup notified'
      BY Zenon, <1>3, <2>3 DEF Collected, FlushAcks, FlushNotifies, Iteration, topics
    <3>2. \A p \in Push : Working(p) => Working(p)' \/ AnsweredOne(p)'
      BY <2>2, <3>1 DEF Working, AnsweredOne
    <3> QED
      BY <1>5, <2>1, <3>1, <3>2
  <2>4. CASE Commit
    <3>1. /\ wk'.hi = 0 /\ committed' = wk.hi /\ UNCHANGED <<acked, notified, full>>
          /\ wk.pending = {} /\ wk.offline = {}
      BY <2>1, <2>4, WorkType, IdleWorkerOK DEF Commit, WorkerOK
    <3>2. \A p \in 1..wk.hi : AnsweredOne(p)
      <4>1. ASSUME NEW p \in 1..wk.hi PROVE p \in 1..committed \/ p \in (committed + 1)..wk.hi
        BY <1>3
      <4> QED
        BY Zenon, <1>2, <1>4, <2>2, <3>1, <4>1
    <3>3. \A p \in 1..committed' : AnsweredOne(p)'
      <4>1. \A p \in 1..wk.hi : p \in Push
        BY <1>3
      <4> QED
        BY <1>a, <3>1, <3>2, <4>1
    <3> QED
      BY Zenon, <1>3, <1>6, <3>1, <3>3
  <2> QED
    BY <1>12, <2>3, <2>4
<1>13. CASE Environment \/ UNCHANGED vars
  <2>1. UNCHANGED <<wk, grp, committed, acked, notified, full>>
    BY <1>13, EnvironmentFrames
  <2> QED
    BY <1>5, <2>1 DEF Working, Has
<1>14. CASE Crash
  <2>1. wk'.hi = 0 /\ UNCHANGED <<committed, acked, notified, full>>
    BY <1>14, CrashDoes, IdleWorkerOK DEF topics, servers
  <2>2. \A p \in 1..committed : AnsweredOne(p)'
    BY <1>2, <1>4, <1>a, <2>1
  <2> QED
    BY Zenon, <1>3, <1>6, <2>1, <2>2
<1> QED
  BY Zenon, <1>7, <1>8, <1>9, <1>10, <1>11, <1>12, <1>13, <1>14 DEF Next, Run

-----------------------------------------------------------------------------
(***************************************************************************)
(* Who stays connected and keeps up sees its pushes in order.              *)
(***************************************************************************)
LEMMA StreamAppend ==
  ASSUME DeliverAssumption, NEW u, NEW g \in Seq(Push), NEW c \in Seq(Push), NEW p \in Push,
         Stream(g, c, u),
         \A q \in Push : To(q) = u /\ q < p => Contains(g, q) \/ Contains(c, q)
  PROVE  Stream(g, Append(c, p), u)
<1>1. /\ Len(c) \in Nat /\ DOMAIN c = 1..Len(c) /\ DOMAIN Append(c, p) = 1..(Len(c) + 1)
      /\ Append(c, p)[Len(c) + 1] = p
      /\ \A i \in 1..Len(c) : Append(c, p)[i] = c[i]
  BY AppendIs
<1>2. ASSUME NEW i \in 1..(Len(c) + 1), NEW q \in Push, To(q) = u, q < Append(c, p)[i],
             ~Contains(g, q)
      PROVE  \E j \in 1..(i - 1) : Append(c, p)[j] = q
  <2>1. CASE i \in 1..Len(c)
    <3>1. PICK j \in 1..(i - 1) : c[j] = q
      BY Zenon, <1>1, <1>2, <2>1 DEF Stream
    <3>2. j \in 1..Len(c)
      BY <1>1, <2>1
    <3> QED
      BY <1>1, <3>1, <3>2
  <2>2. CASE i = Len(c) + 1
    <3>1. PICK j \in 1..Len(c) : c[j] = q
      BY Zenon, <1>1, <1>2, <2>2 DEF Contains
    <3> QED
      BY <1>1, <2>2, <3>1
  <2> QED
    BY SMTT(60), <1>1, <2>1, <2>2
<1> QED
  BY Zenon, <1>1, <1>2 DEF Stream

LEMMA StreamWrite ==
  ASSUME DeliverAssumption, NEW u, NEW g \in Seq(Push), NEW c \in Seq(Push), c # <<>>,
         NEW h \in Push, h = Head(c), To(h) = u,
         \A i \in DOMAIN g : To(g[i]) = u, Stream(g, c, u)
  PROVE  Stream(IF Contains(g, h) THEN g ELSE Append(g, h), Tail(c), u)
<1>1. /\ Len(c) \in Nat /\ Len(c) >= 1 /\ DOMAIN c = 1..Len(c) /\ h = c[1]
      /\ DOMAIN Tail(c) = 1..(Len(c) - 1)
      /\ \A i \in 1..(Len(c) - 1) : Tail(c)[i] = c[i + 1]
  BY TailIs
<1>2. /\ Len(g) \in Nat /\ DOMAIN g = 1..Len(g) /\ DOMAIN Append(g, h) = 1..(Len(g) + 1)
      /\ Len(Append(g, h)) = Len(g) + 1
      /\ Append(g, h)[Len(g) + 1] = h
      /\ \A i \in 1..Len(g) : Append(g, h)[i] = g[i] /\ g[i] \in Push
  BY AppendIs
<1>3. PICK f : f = IF Contains(g, h) THEN g ELSE Append(g, h)
  OBVIOUS
<1>4. ASSUME NEW q \in Push, Contains(g, q) \/ q = h PROVE Contains(f, q)
  <2>1. CASE Contains(g, h)
    BY <1>3, <1>4, <2>1
  <2>2. CASE ~Contains(g, h)
    <3>1. f = Append(g, h) /\ Len(f) = Len(g) + 1
      BY <1>2, <1>3, <2>2
    <3>2. CASE q = h
      BY SMTT(30), <1>2, <3>1, <3>2 DEF Contains
    <3>3. ASSUME NEW i \in 1..Len(g), g[i] = q PROVE Contains(f, q)
      <4>1. i \in 1..Len(f) /\ f[i] = q
        BY <1>2, <3>1, <3>3
      <4> QED
        BY Zenon, <4>1 DEF Contains
    <3> QED
      BY Zenon, <1>4, <3>2, <3>3 DEF Contains
  <2> QED
    BY <2>1, <2>2
<1>5. ASSUME NEW q \in Push, To(q) = u, q < h PROVE Contains(g, q)
  <2>1. 1 \in DOMAIN c /\ 1..(1 - 1) = {}
    BY <1>1
  <2> QED
    BY SMTT(60), <1>1, <1>5, <2>1 DEF Stream
<1>6. ASSUME NEW i \in DOMAIN Tail(c), NEW q \in Push, To(q) = u, q < Tail(c)[i], ~Contains(f, q)
      PROVE  \E j \in 1..(i - 1) : Tail(c)[j] = q
  <2>1. i \in 1..(Len(c) - 1) /\ i + 1 \in DOMAIN c /\ Tail(c)[i] = c[i + 1]
    BY SMTT(60), <1>1, <1>6
  <2>2. ~Contains(g, q) /\ q # h
    BY Zenon, <1>4, <1>6
  <2>3. PICK j \in 1..((i + 1) - 1) : c[j] = q
    BY Zenon, <1>6, <2>1, <2>2 DEF Stream
  <2>4. j # 1
    BY <1>1, <2>2, <2>3
  <2>5. j - 1 \in 1..(i - 1) /\ j - 1 \in 1..(Len(c) - 1) /\ (j - 1) + 1 = j
    BY SMTT(60), <1>1, <2>1, <2>3, <2>4
  <2>6. Tail(c)[j - 1] = q
    BY <1>1, <2>3, <2>5
  <2> QED
    BY Zenon, <2>5, <2>6
<1>7. /\ \A i, j \in DOMAIN f : i < j => f[i] < f[j]
      /\ \A i \in DOMAIN f : \A q \in Push : To(q) = u /\ q < f[i] => Contains(f, q)
  <2>1. CASE Contains(g, h)
    BY <1>3, <2>1 DEF Stream
  <2>2. CASE ~Contains(g, h)
    <3>1. f = Append(g, h)
      BY <1>3, <2>2
    <3>2. \A i \in 1..Len(g) : g[i] # h
      BY Zenon, <2>2 DEF Contains
    <3>3. ASSUME NEW i \in 1..Len(g) PROVE g[i] < h
      <4>1. g[i] \in Nat /\ h \in Nat /\ g[i] # h /\ g[i] \in Push
        BY Zenon, <1>2, <3>2, PushType
      <4>2. h < g[i] => Contains(g, h)
        BY Zenon, <1>2 DEF Stream
      <4> QED
        BY SMTT(60), <2>2, <4>1, <4>2
    <3>4. ASSUME NEW i \in 1..(Len(g) + 1), NEW j \in 1..(Len(g) + 1), i < j PROVE f[i] < f[j]
      <4>1. i \in 1..Len(g) /\ f[i] = g[i]
        BY <1>2, <3>1, <3>4
      <4>2. CASE j \in 1..Len(g)
        <5>1. f[j] = g[j]
          BY <1>2, <3>1, <4>2
        <5>2. g[i] < g[j]
          <6>1. i \in DOMAIN g /\ j \in DOMAIN g
            BY <1>2, <4>1, <4>2
          <6> QED
            BY Zenon, <3>4, <6>1 DEF Stream
        <5> QED
          BY <4>1, <5>1, <5>2
      <4>3. CASE j = Len(g) + 1
        <5>1. f[j] = h
          BY <1>2, <3>1, <4>3
        <5> QED
          BY <3>3, <4>1, <5>1
      <4>4. j \in 1..Len(g) \/ j = Len(g) + 1
        <5>1. Len(g) \in Nat
          BY <1>2
        <5> QED
          BY SMTT(60), <3>4, <5>1
      <4> QED
        BY <4>2, <4>3, <4>4
    <3>5. ASSUME NEW i \in 1..(Len(g) + 1), NEW q \in Push, To(q) = u, q < f[i] PROVE Contains(f, q)
      <4>1. CASE i \in 1..Len(g)
        <5>1. f[i] = g[i]
          BY <1>2, <3>1, <4>1
        <5>2. Contains(g, q)
          BY Zenon, <1>2, <3>5, <4>1, <5>1 DEF Stream
        <5> QED
          BY <1>4, <5>2
      <4>2. CASE i = Len(g) + 1
        <5>1. f[i] = h
          BY <1>2, <3>1, <4>2
        <5> QED
          BY Zenon, <1>4, <1>5, <3>5, <5>1
      <4> QED
        BY SMTT(60), <1>2, <4>1, <4>2
    <3> QED
      BY Zenon, <1>2, <3>1, <3>4, <3>5
  <2> QED
    BY <2>1, <2>2
<1>8. Stream(f, Tail(c), u)
  BY Zenon, <1>6, <1>7 DEF Stream
<1> QED
  BY <1>3, <1>8

LEMMA SmoothStays ==
  ASSUME DeliverAssumption, TypeOK, [Next]_vars, Smooth'
  PROVE  /\ Smooth /\ Steady' /\ Gentle' /\ full = {} /\ full' = {} /\ at' = at
         /\ faults.move = 0 /\ faults.down = 0
<1>1. Steady' /\ Gentle' /\ full' = {}
  BY DEF Smooth
<1>2. Gentle
  BY <1>1, GentleStays
<1>3. faults.move = 0 /\ faults.down = 0 /\ at' = at
  BY <1>1, SteadyStays
<1>5. full \subseteq full'
  <2>1. ASSUME NEW s \in Cs, Group(s) PROVE full \subseteq full'
    BY <2>1, GroupFrames DEF GroupFrame
  <2>2. CASE Run
    BY Zenon, <2>2 DEF Run, Fetch, Route, RouteSkips, Dispatch, Collected, FlushAcks, FlushNotifies,
       Commit, servers, presence
  <2>3. CASE Crash
    BY <2>3, CrashDoes DEF servers, presence
  <2> QED
    BY <2>1, <2>2, <2>3, EnvironmentFrames DEF Next
<1> QED
  BY <1>1, <1>2, <1>3, <1>5 DEF Smooth, Steady

\* The lists of a goroutine are of pushes to its server.
LEMMA Belongs ==
  ASSUME DeliverAssumption, TypeOK, OrderOK, Smooth, NEW s \in Cs, NEW p \in Push,
         p \in Lists(grp[s])
  PROVE  at[To(p)] = s /\ at[To(p)] # NoCs
BY PushType DEF OrderOK

\* A push that waits is offered, to the channel of its receiver, or waits on.
LEMMA WaitingGoes ==
  ASSUME DeliverAssumption, TypeOK, RoutesOK, OrderOK, [Next]_vars, Smooth', NEW s \in Cs, Group(s),
         NEW p \in Push, Waits(grp[s], p)
  PROVE  Waits(grp'[s], p) \/ Enqueued(p)'
<1>1. p # 0 /\ grp[s] \in Goroutine
  BY PushType, GroupType
<1>2. /\ Smooth /\ Steady /\ Gentle' /\ full' = {} /\ faults.move = 0 /\ faults.down = 0
  BY SmoothStays DEF Smooth
<1>3. CASE BatchRelay(s)
  <2>1. PICK q \in grp[s].list : BatchRelays(s, q)
    BY <1>3, BatchRelayDoes
  <2>2. p \in grp[s].list /\ grp[s].res[p] = "none"
    BY <1>1, <2>1 DEF Waits, With, BatchRelays
  <2>3. CASE p = q
    <3>1. at[To(p)] = s
      BY <1>2, <2>2, Belongs DEF Lists
    <3>2. Enqueue(p, s) /\ got' = got
      BY <1>3, <2>1, <2>3 DEF BatchRelays, BatchRelay
    <3>3. Answer(p, s) = "delivered"
      BY <1>2, <3>1, <3>2, EnqueueDoes
    <3> QED
      BY <3>1, <3>2, <3>3, EnqueuedNow
  <2>4. CASE p # q
    BY <2>1, <2>2, <2>4 DEF Waits, With, BatchRelays
  <2> QED
    BY <2>3, <2>4
<1>4. CASE BatchAnswered(s)
  <2>1. grp[s].todo = {} /\ grp[s].push = 0 /\ With(grp[s], "none") = {}
    BY Zenon, <1>4, BatchAnsweredDoes DEF BatchEnds
  <2> QED
    BY <1>1, <2>1 DEF Waits
<1>5. CASE BatchFails(s)
  <2>1. /\ grp[s].todo = {} /\ grp[s].push = 0 /\ grp'[s].todo = grp[s].list
    BY <1>5, BatchFailsDoes DEF BatchEnds
  <2> QED
    BY <1>1, <2>1 DEF Waits, With
<1>6. CASE StartSingle(s)
  <2>1. PICK q \in grp[s].todo :
          /\ grp[s].list = {} /\ grp[s].push = 0
          /\ grp'[s].push = q /\ grp'[s].todo = grp[s].todo \ {q}
    BY <1>6, StartSingleDoes
  <2> QED
    BY <1>1, <2>1 DEF Waits, With
<1>7. CASE GroupDone(s)
  BY <1>1, <1>7, GroupDoneDoes DEF Waits, With
<1>8. ASSUME NEW stage, NEW try, NEW second, NEW addr, Keeps(s, stage, try, second, addr)
      PROVE  Waits(grp'[s], p)
  BY <1>8 DEF Keeps, Single, Waits, With
<1>9. Ends(s) => Waits(grp'[s], p) \/ p = grp[s].push
  BY DEF Ends, Single, Waits, With
<1>10. CASE Look(s)
  <2>1. PICK q \in Push : q = grp[s].push
    BY <1>10, LookDoes, GroupType DEF GoroutineOK
  <2>2. at[To(q)] # NoCs
    BY <1>2, <2>1, Belongs DEF Lists
  <2>3. Get(To(q)) # NoCs
    BY Zenon, <1>2, <2>2, SteadyGet, PushType DEF To
  <2> QED
    BY <1>8, <1>10, <2>1, <2>3, LookDoes
<1>11. CASE LookFails(s) \/ RelayFails(s)
  BY Zenon, <1>2, <1>8, <1>11, NeverGivesUp
<1>12. CASE Relay(s)
  <2>1. PICK q \in Push : q = grp[s].push
    BY Zenon, <1>12, RelayDoes
  <2>2. PICK c : c = grp[s].addr
    OBVIOUS
  <2>3. /\ SingleOK(grp[s]) /\ grp[s].stage = "relay"
    BY Zenon, <1>2, <1>12, RelayDoes DEF RoutesOK
  <2>4. ~grp[s].second /\ c = at[To(q)]
    <3>1. missed = {} /\ online = at /\ changes[To(q)] = 0
      BY <1>2, <2>1, PushType DEF RoutesOK, RecordsOK, To
    <3> QED
      BY <2>1, <2>2, <2>3, <3>1 DEF SingleOK
  <2>5. Enqueue(q, c) /\ got' = got
    BY <1>12, <2>1, <2>2, RelayDoes DEF Relay
  <2>6. Answer(q, c) = "delivered"
    BY <1>2, <2>4, <2>5, EnqueueDoes
  <2>7. Enqueued(q)'
    BY <2>4, <2>5, <2>6, EnqueuedNow
  <2>8. Ends(s)
    BY Zenon, <1>12, <2>1, <2>2, <2>6, RelayDoes
  <2> QED
    BY <1>9, <2>1, <2>7, <2>8
<1> QED
  BY <1>3, <1>4, <1>5, <1>6, <1>7, <1>10, <1>11, <1>12 DEF Group

\* When a push is offered, all earlier ones of its receiver have been put into the channel.
LEMMA OffersInOrder ==
  ASSUME DeliverAssumption, TypeOK, OrderOK, InBatch, Smooth, NEW s \in Cs, NEW p \in Push,
         Offers(s, p), NEW q \in Push, To(q) = To(p), q < p
  PROVE  Enqueued(q)
<1>1. Group(s) /\ GroupFrame(s) /\ wk.todo = {}
  <2>1. Group(s)
    BY DEF Offers, Group
  <2> QED
    BY Zenon, <2>1, GroupFrames DEF GroupFrame
<1>2. p \in Lists(grp[s])
  BY DEF Offers, Lists, First, With
<1>3. at[To(p)] = s /\ at[To(q)] = s /\ s # NoCs
  BY <1>2, Belongs, PushType
<1>4. p <= wk.hi /\ q \in Nat /\ p \in Nat /\ q > 0 /\ committed \in Nat /\ wk.hi \in Nat
  BY SMTT(30), <1>2, WorkType, PushType DEF InBatch, Iteration
<1>5. CASE q <= committed
  <2>1. q \in 1..committed
    BY <1>4, <1>5
  <2> QED
    BY Zenon, <1>3, <2>1 DEF OrderOK
<1>6. CASE q > committed
  <2>1. q \in (committed + 1)..wk.hi
    BY SMTT(60), <1>4, <1>6
  <2>2. SUFFICES ASSUME Waiting(q) PROVE FALSE
    BY Zenon, <1>3, <2>1 DEF OrderOK
  <2>3. PICK t \in Cs : Waits(grp[t], q)
    BY <1>1, <2>2 DEF Waiting
  <2>4. q \in Lists(grp[t])
    BY <2>3 DEF Waits, With, Lists
  <2>5. Waits(grp[s], q)
    BY <1>3, <2>3, <2>4, Belongs
  <2>6. GoroutineOK(grp[s])
    BY GroupType
  <2>7. CASE BatchRelay(s) /\ p \in First(With(grp[s], "none"))
    <3>1. grp[s].todo = {} /\ grp[s].push = 0
      BY <2>6, <2>7 DEF BatchRelay, GoroutineOK
    <3>2. p <= q
      BY <1>4, <2>5, <2>7, <3>1 DEF Waits, First
    <3> QED
      BY <1>4, <3>2
  <2>8. CASE p = grp[s].push /\ grp[s].stage = "relay"
    <3>1. grp[s].list = {} /\ \A r \in grp[s].todo : grp[s].push < r
      BY <2>6, <2>8 DEF GoroutineOK
    <3>2. p <= q
      BY SMTT(60), <1>4, <2>5, <2>8, <3>1 DEF Waits, With
    <3> QED
      BY <1>4, <3>2
  <2> QED
    BY <2>7, <2>8 DEF Offers
<1> QED
  BY <1>4, <1>5, <1>6
\* A step inside a batch: what matters of it for the order.
LEMMA BatchOrder ==
  ASSUME DeliverAssumption, TypeOK, OrderOK, [Next]_vars, Smooth',
         committed' = committed, wk'.hi = wk.hi,
         \A p \in Push : at[To(p)] # NoCs /\ Waiting(p) => Waiting(p)' \/ Enqueued(p)'
  PROVE  /\ \A p \in 1..committed' : at'[To(p)] # NoCs => Enqueued(p)'
         /\ \A p \in (committed' + 1)..wk'.hi : at'[To(p)] # NoCs => Enqueued(p)' \/ Waiting(p)'
<1>1. Smooth /\ Steady' /\ at' = at
  BY SmoothStays
<1>2. /\ committed \in Nat /\ committed <= Len(ToUid) /\ wk.hi \in Nat /\ wk.hi <= Len(ToUid)
      /\ Push = 1..Len(ToUid) /\ Len(ToUid) \in Nat
  BY WorkType, PushType DEF Iteration
<1>3. ASSUME NEW p \in 1..committed, at[To(p)] # NoCs PROVE Enqueued(p)'
  <2>1. p \in Push
    BY <1>2
  <2>2. Enqueued(p)
    BY <1>1, <1>3 DEF OrderOK
  <2> QED
    BY <1>1, <2>1, <2>2, EnqueuedStays
<1>4. ASSUME NEW p \in (committed + 1)..wk.hi, at[To(p)] # NoCs PROVE Enqueued(p)' \/ Waiting(p)'
  <2>1. p \in Push
    BY SMTT(30), <1>2
  <2>2. Enqueued(p) \/ Waiting(p)
    BY <1>1, <1>4 DEF OrderOK
  <2>3. Enqueued(p) => Enqueued(p)'
    BY <1>1, <2>1, EnqueuedStays
  <2> QED
    BY <1>4, <2>1, <2>2, <2>3
<1> QED
  BY <1>1, <1>3, <1>4

LEMMA WaitingNext ==
  ASSUME DeliverAssumption, TypeOK, RoutesOK, OrderOK, InBatch, [Next]_vars, Smooth'
  PROVE  /\ \A p \in 1..committed' : at'[To(p)] # NoCs => Enqueued(p)'
         /\ \A p \in (committed' + 1)..wk'.hi : at'[To(p)] # NoCs => Enqueued(p)' \/ Waiting(p)'
<1>1. Smooth /\ Steady /\ Steady' /\ Gentle' /\ at' = at
  BY SmoothStays DEF Smooth
<1>2. /\ committed \in Nat /\ committed <= Len(ToUid) /\ wk.hi \in Nat /\ wk.hi <= Len(ToUid)
      /\ Push = 1..Len(ToUid) /\ Len(ToUid) \in Nat
  BY WorkType, PushType DEF Iteration
<1>3. /\ \A p \in 1..committed : p \in Push /\ (at[To(p)] # NoCs => Enqueued(p))
      /\ \A p \in (committed + 1)..wk.hi : p \in Push /\ (at[To(p)] # NoCs => Enqueued(p) \/ Waiting(p))
  BY SMTT(60), <1>1, <1>2 DEF OrderOK
<1>4. \A p \in 1..committed : at[To(p)] # NoCs => Enqueued(p)'
  BY <1>1, <1>3, EnqueuedStays
\* A step that ends a batch.
<1>5. ASSUME wk'.hi = 0, committed' \in Nat, \A p \in 1..committed' : at[To(p)] # NoCs => Enqueued(p)'
      PROVE  /\ \A p \in 1..committed' : at'[To(p)] # NoCs => Enqueued(p)'
             /\ \A p \in (committed' + 1)..wk'.hi : at'[To(p)] # NoCs => Enqueued(p)' \/ Waiting(p)'
  <2>1. (committed' + 1)..0 = {}
    BY Zenon, <1>5, NoneAbove
  <2>2. \A p \in (committed' + 1)..wk'.hi : FALSE
    BY Zenon, <1>5, <2>1
  <2>3. \A p \in 1..committed' : at'[To(p)] # NoCs => Enqueued(p)'
    BY Zenon, <1>1, <1>5
  <2> QED
    BY <2>2, <2>3
<1>6. ASSUME NEW s \in Cs, Group(s)
      PROVE  /\ committed' = committed /\ wk'.hi = wk.hi
             /\ \A p \in Push : Waiting(p) => Waiting(p)' \/ Enqueued(p)'
  <2>1. GroupFrame(s)
    BY <1>6, GroupFrames
  <2>2. ASSUME NEW p \in Push, Waiting(p) PROVE Waiting(p)' \/ Enqueued(p)'
    <3>1. PICK t \in Cs : Waits(grp[t], p)
      BY <2>1, <2>2 DEF GroupFrame, Waiting
    <3>2. CASE t = s
      <4>1. Waits(grp'[s], p) \/ Enqueued(p)'
        BY <1>6, <3>1, <3>2, WaitingGoes
      <4> QED
        BY <4>1 DEF Waiting, Waits, With
    <3>3. CASE t # s
      <4>1. Waits(grp'[t], p)
        BY <2>1, <3>1, <3>3 DEF GroupFrame, Only
      <4> QED
        BY <4>1 DEF Waiting, Waits, With
    <3> QED
      BY <3>2, <3>3
  <2> QED
    BY <2>1, <2>2 DEF GroupFrame
<1>7. ASSUME NEW n \in Push, Fetch(n)
      PROVE  /\ \A p \in 1..committed' : at'[To(p)] # NoCs => Enqueued(p)'
             /\ \A p \in (committed' + 1)..wk'.hi : at'[To(p)] # NoCs => Enqueued(p)' \/ Waiting(p)'
  <2>1. /\ committed' = committed /\ wk'.hi = n /\ wk'.todo = (committed + 1)..n
    BY Zenon, <1>7, FetchDoes DEF Fetch, topics
  <2> QED
    BY <1>1, <1>4, <2>1 DEF Waiting
<1>8. ASSUME Route
      PROVE  /\ committed' = committed /\ wk'.hi = wk.hi
             /\ \A p \in Push : at[To(p)] # NoCs /\ Waiting(p) => Waiting(p)'
  <2>1. PICK p \in wk.todo : Routes(p) /\ Gathers(p)
    BY <1>8, RouteDoes
  <2>2. committed' = committed
    BY <1>8 DEF Route, topics
  <2>3. \A q \in Push : IdleGroup.res[q] = "none"
    BY IdleOK
  <2>4. ASSUME NEW q \in Push, at[To(q)] # NoCs, Waiting(q) PROVE Waiting(q)'
    <3>1. CASE q = p
      <4>1. Get(To(p)) # NoCs
        BY <1>1, <2>4, <3>1, SteadyGet, PushType DEF To
      <4>2. PICK c \in Cs : c = Get(To(p))
        BY <2>1, <4>1 DEF Routes
      <4>3. Waits(grp'[c], q)
        BY ZenonT(60), <2>1, <2>3, <3>1, <4>2 DEF Gathers, GathersOK, Waits, With
      <4> QED
        BY <4>3 DEF Waiting, Waits, With
    <3>2. CASE q \in wk.todo \ {p}
      BY <2>1, <3>2 DEF Routes, Waiting
    <3>3. ASSUME NEW s \in Cs, Waits(grp[s], q) PROVE Waiting(q)'
      <4>1. Waits(grp'[s], q)
        BY ZenonT(60), <2>1, <2>3, <3>3, PushType DEF Gathers, GathersOK, Waits, With
      <4> QED
        BY <4>1 DEF Waiting, Waits, With
    <3> QED
      BY <2>4, <3>1, <3>2, <3>3 DEF Waiting
  <2> QED
    BY <2>1, <2>2, <2>4 DEF Routes
<1>9. ~RouteSkips
  BY <1>1, RouteSkipsDoes, RouteHit, GentleStays
<1>10. ASSUME Dispatch
       PROVE  /\ committed' = committed /\ wk'.hi = wk.hi
              /\ \A p \in Push : Waiting(p) => Waiting(p)'
  <2>1. committed' = committed /\ wk'.hi = wk.hi /\ wk'.todo = wk.todo
    BY <1>10, DispatchDoes DEF Dispatch, topics
  <2>2. \A s \in Cs : \A p \in Push : Waits(grp[s], p) => Waits(grp'[s], p)
    BY <1>10, DispatchDoes DEF GathersOK, Waits, With
  <2> QED
    BY <2>1, <2>2 DEF Waiting, Waits, With
<1>11. CASE Collected \/ FlushAcks \/ FlushNotifies \/ Commit
  <2>1. wk.todo = {} /\ \A s \in Cs : \A p \in Push : ~Waits(grp[s], p)
    BY <1>11, FlushDoes, PushType DEF Done, Waits, With
  <2>2. \A p \in Push : ~Waiting(p)
    BY <2>1 DEF Waiting
  <2>3. CASE Collected \/ FlushAcks \/ FlushNotifies
    <3>1. committed' = committed /\ wk'.hi = wk.hi
      BY Zenon, <2>3, WorkType DEF Collected, FlushAcks, FlushNotifies, Iteration, topics
    <3> QED
      BY <2>2, <3>1, BatchOrder
  <2>4. CASE Commit
    <3>1. wk'.hi = 0 /\ committed' = wk.hi
      BY <2>4, IdleWorkerOK DEF Commit
    <3>2. ASSUME NEW p \in 1..wk.hi, at[To(p)] # NoCs PROVE Enqueued(p)'
      <4>1. p \in 1..committed \/ p \in (committed + 1)..wk.hi
        BY <1>2
      <4>2. p \in Push /\ Enqueued(p)
        BY <1>3, <2>2, <3>2, <4>1
      <4> QED
        BY <1>1, <4>2, EnqueuedStays
    <3> QED
      BY <1>2, <1>5, <3>1, <3>2
  <2> QED
    BY Zenon, <1>11, <2>3, <2>4
<1>12. ASSUME Environment \/ UNCHANGED vars
       PROVE  /\ committed' = committed /\ wk'.hi = wk.hi
              /\ \A p \in Push : Waiting(p) => Waiting(p)'
  <2>1. UNCHANGED <<wk, grp, committed>>
    BY <1>12, EnvironmentFrames
  <2> QED
    BY <2>1 DEF Waiting, Waits, With
<1>13. CASE Crash
  <2>1. wk'.hi = 0 /\ committed' = committed
    BY <1>13, CrashDoes, IdleWorkerOK DEF topics
  <2> QED
    BY <1>2, <1>4, <1>5, <2>1
<1> QED
  BY Zenon, <1>6, <1>7, <1>8, <1>9, <1>10, <1>11, <1>12, <1>13, BatchOrder DEF Next, Run

LEMMA ListsNext ==
  ASSUME DeliverAssumption, TypeOK, RoutesOK, OrderOK, [Next]_vars, Smooth'
  PROVE  \A s \in Cs : \A p \in Lists(grp'[s]) \cap Push : at'[To(p)] = s
<1>1. Smooth /\ Steady /\ at' = at
  BY SmoothStays DEF Smooth
<1>2. \A s \in Cs : \A p \in Lists(grp[s]) \cap Push : at[To(p)] = s
  BY <1>1 DEF OrderOK
<1>3. 0 \notin Push
  BY PushType
<1>4. CASE \A s \in Cs : Lists(grp'[s]) \subseteq Lists(grp[s]) \cup {0}
  BY <1>1, <1>2, <1>3, <1>4
<1>5. ASSUME NEW s \in Cs, Group(s) PROVE \A t \in Cs : Lists(grp'[t]) \subseteq Lists(grp[t]) \cup {0}
  BY Zenon, <1>5, GroupFrames DEF GroupFrame, Only
<1>6. CASE Route
  <2>1. PICK p \in wk.todo : Routes(p) /\ Gathers(p)
    BY <1>6, RouteDoes
  <2>2. Get(To(p)) = at[To(p)]
    BY <1>1, <2>1, SteadyGet, PushType DEF Routes, To
  <2>3. ASSUME NEW s \in Cs, NEW q \in Lists(grp'[s]) \cap Push PROVE at[To(q)] = s
    <3>1. q \in Lists(grp[s]) \/ (q = p /\ s = Get(To(p)))
      <4>1. grp'[s].todo = {} /\ grp'[s].push = 0 /\ q \in Lists(grp'[s]) /\ q # 0
        BY Zenon, <1>3, <2>1, <2>3 DEF Gathers, GathersOK
      <4>2. q \in grp'[s].list
        BY <4>1 DEF Lists
      <4>3. grp'[s].list = IF s = Get(To(p)) THEN grp[s].list \cup {p} ELSE grp[s].list
        BY Zenon, <2>1 DEF Gathers
      <4> QED
        BY <4>2, <4>3 DEF Lists
    <3> QED
      BY <1>2, <2>2, <2>3, <3>1
  <2> QED
    BY <1>1, <2>3
<1>7. CASE grp' = grp
  BY <1>1, <1>2, <1>7
<1>8. ASSUME (\E n \in Push : Fetch(n)) \/ RouteSkips \/ Collected \/ FlushAcks \/ FlushNotifies \/ Commit
      PROVE  grp' = grp
  BY Zenon, <1>8 DEF Fetch, RouteSkips, Collected, FlushAcks, FlushNotifies, Commit
<1>9. Dispatch => \A s \in Cs : Lists(grp'[s]) \subseteq Lists(grp[s]) \cup {0}
  BY DispatchDoes DEF GathersOK, Lists
<1>10. Environment \/ UNCHANGED vars => grp' = grp
  BY EnvironmentFrames
<1>11. Crash => \A s \in Cs : Lists(grp'[s]) \subseteq Lists(grp[s]) \cup {0}
  BY CrashDoes, IdleOK DEF Lists
<1> QED
  BY Zenon, <1>4, <1>5, <1>6, <1>7, <1>8, <1>9, <1>10, <1>11 DEF Next, Run

LEMMA StreamNext ==
  ASSUME DeliverAssumption, TypeOK, OrderOK, InBatch, [Next]_vars, Smooth', NEW u \in Uid
  PROVE  Stream(got'[u], send'[u], u)
<1>1. /\ Smooth /\ Steady' /\ Stream(got[u], send[u], u)
  BY SmoothStays DEF OrderOK, StreamOK
<1>2. /\ got \in [Uid -> Seq(Push)] /\ send \in [Uid -> Seq(Push)]
      /\ \A i \in DOMAIN got[u] : To(got[u][i]) = u
  BY Zenon DEF TypeOK, To
<1>3. PICK g \in Seq(Push) : g = got[u]
  BY <1>2
<1>4. PICK c \in Seq(Push) : c = send[u]
  BY <1>2
<1>5. Stream(g, c, u) /\ \A i \in DOMAIN g : To(g[i]) = u
  BY <1>1, <1>2, <1>3, <1>4
<1>6. CASE UNCHANGED <<send, got>>
  BY <1>1, <1>6
<1>7. ASSUME NEW v \in Uid, Write(v) PROVE Stream(got'[u], send'[u], u)
  <2>1. CASE v # u
    <3>1. send'[u] = send[u] /\ got'[u] = got[u]
      BY SMTT(60), <1>2, <1>7, <2>1, WriteDoes
    <3> QED
      BY <1>1, <3>1
  <2>2. CASE v = u
    <3>1. PICK h \in Push : h = Head(c)
      BY Zenon, <1>4, <1>7, <2>2, WriteDoes
    <3>2. /\ c # <<>> /\ To(h) = u /\ send'[u] = Tail(c)
          /\ got'[u] = IF Contains(g, h) THEN g ELSE Append(g, h)
      BY ZenonT(60), <1>2, <1>3, <1>4, <1>7, <2>2, <3>1, WriteDoes
    <3>3. Stream(IF Contains(g, h) THEN g ELSE Append(g, h), Tail(c), u)
      BY Zenon, <1>5, <3>1, <3>2, StreamWrite
    <3> QED
      BY <3>2, <3>3
  <2> QED
    BY <2>1, <2>2
<1>8. ASSUME NEW s \in Cs, NEW p \in Push, Offers(s, p) PROVE Stream(got'[u], send'[u], u)
  <2>1. got' = got /\ (send' = send \/ send' = [send EXCEPT ![To(p)] = Append(@, p)])
    BY <1>8, EnqueueDoes DEF Offers
  <2>2. CASE send'[u] = send[u]
    BY <1>1, <2>1, <2>2
  <2>3. CASE To(p) = u /\ send'[u] = Append(c, p)
    <3>1. ASSUME NEW q \in Push, To(q) = u, q < p PROVE Contains(g, q) \/ Contains(c, q)
      <4>1. Enqueued(q)
        BY <1>1, <1>8, <2>3, <3>1, OffersInOrder
      <4> QED
        BY <1>3, <1>4, <3>1, <4>1 DEF Enqueued
    <3>2. Stream(g, Append(c, p), u)
      BY <1>5, <3>1, StreamAppend
    <3> QED
      BY <1>3, <2>1, <2>3, <3>2
  <2>4. send'[u] = send[u] \/ (To(p) = u /\ send'[u] = Append(c, p))
    BY Zenon, <1>2, <1>4, <2>1
  <2> QED
    BY <2>2, <2>3, <2>4
<1> QED
  BY <1>1, <1>6, <1>7, <1>8, ChannelsMove

LEMMA OrderNext ==
  ASSUME DeliverAssumption, TypeOK, RoutesOK, OrderOK, InBatch, [Next]_vars
  PROVE  OrderOK'
<1>1. SUFFICES ASSUME Smooth'
      PROVE  /\ \A s \in Cs : \A p \in Lists(grp'[s]) \cap Push : at'[To(p)] = s
             /\ \A p \in 1..committed' : at'[To(p)] # NoCs => Enqueued(p)'
             /\ \A p \in (committed' + 1)..wk'.hi : at'[To(p)] # NoCs => Enqueued(p)' \/ Waiting(p)'
             /\ \A u \in Uid : Stream(got'[u], send'[u], u)
  BY DEF OrderOK, StreamOK, Lists, To, Stream
<1> QED
  BY <1>1, ListsNext, WaitingNext, StreamNext
-----------------------------------------------------------------------------
(***************************************************************************)
(* The theorems.                                                           *)
(***************************************************************************)
LEMMA InitFacts ==
  ASSUME DeliverAssumption, Init
  PROVE  RoutesOK /\ FetchedOK /\ AcksOK /\ NotifiesOK /\ InBatch /\ OrderOK
<1>1. /\ committed = 0 /\ acked = {} /\ notified = {} /\ full = {} /\ online = at /\ up = Cs
      /\ wk = IdleWorker /\ faults.move = 0 /\ faults.rpc = 0 /\ missed = {}
      /\ \A s \in Cs : op[s] = NoOp
      /\ \A u \in Uid : left[u] = {} /\ changes[u] = 0
      /\ \A s \in Cs : grp[s] = IdleGroup
      /\ \A u \in Uid : cache[u] = Unknown /\ send[u] = <<>> /\ got[u] = <<>>
  BY DEF Init, FreshGroups, FreshCache
<1>2. /\ wk.hi = 0 /\ wk.todo = {} /\ wk.pending = {} /\ wk.offline = {}
  BY <1>1, IdleWorkerOK
<1>3. \A s \in Cs : /\ Lists(grp[s]) = {0} /\ Lists(grp[s]) \cap Push = {}
                    /\ With(grp[s], "delivered") = {}
  BY SMTT(30), <1>1, IdleOK, PushType DEF Lists, With
<1>4. 1..0 = {} /\ (0 + 1)..0 = {}
  OBVIOUS
<1>5. RoutesOK
  <2>1. \A s \in Cs : SingleOK(grp[s])
    BY <1>1, IdleOK DEF SingleOK
  <2> QED
    BY <1>1, <2>1 DEF RoutesOK, RecordsOK, CacheOK
<1>6. FetchedOK /\ NotifiesOK
  BY <1>1, <1>2, <1>4 DEF FetchedOK, NotifiesOK
<1>7. AcksOK
  BY Zenon, <1>1, <1>2, <1>3 DEF AcksOK
<1>8. InBatch
  BY SMTT(60), <1>2, <1>3 DEF InBatch
<1>9. \A u \in Uid : StreamOK(u)
  <2>1. DOMAIN <<>> = {}
    OBVIOUS
  <2> QED
    BY <1>1, <2>1 DEF StreamOK, Stream
<1>10. OrderOK
  BY <1>1, <1>2, <1>3, <1>4, <1>9 DEF OrderOK
<1> QED
  BY <1>5, <1>6, <1>7, <1>8, <1>10

LEMMA RoutesStay == Spec => []RoutesOK
<1>1. Init => TypeOK /\ RoutesOK
  BY DeliverAssumption, InitType, InitFacts
<1>2. TypeOK /\ RoutesOK /\ [Next]_vars => TypeOK' /\ RoutesOK'
  BY DeliverAssumption, NextType, RoutesNext
<1> QED
  BY <1>1, <1>2, PTL DEF Spec

(***************************************************************************)
(* A push whose offset is committed has a record in chat.ack or in         *)
(* chat.notify, or has met a full channel: in spite of a stale cache, of   *)
(* lost calls, of restarts of the worker and of any number of connections  *)
(* that come and go, when servers and lookups do not fail and fewer calls  *)
(* are lost than a push has attempts.  Two things can prevent it: the      *)
(* record of the receiver has changed twice, or the push met a server that *)
(* the record named and that had no connection of the receiver             *)
(* (deliver.go 245-274, 282-328, 376-446; manager.go 55-78).               *)
(***************************************************************************)
THEOREM CommittedWereAnswered == Spec => []CommittedIsAnswered
<1>1. Init => FetchedOK
  BY DeliverAssumption, InitFacts
<1>2. TypeOK /\ RoutesOK /\ FetchedOK /\ [Next]_vars => FetchedOK'
  BY DeliverAssumption, FetchedNext
<1>3. TypeOK /\ FetchedOK => CommittedIsAnswered
  <2> SUFFICES ASSUME TypeOK, FetchedOK, Gentle, NEW p \in 1..committed, changes[ToUid[p]] <= 1
               PROVE  p \in Answered \cup missed
    BY DEF CommittedIsAnswered
  <2>1. AnsweredOne(p)
    BY DEF FetchedOK
  <2>2. changes[To(p)] \in Nat
    <3>1. committed \in 0..Len(ToUid)
      BY DEF TypeOK
    <3>2. To(p) \in Uid
      BY DeliverAssumption, <3>1, PushType DEF To
    <3> QED
      BY <3>2 DEF TypeOK
  <2> QED
    BY <2>1, <2>2 DEF AnsweredOne, Answered, To
<1> QED
  BY <1>1, <1>2, <1>3, TypeCorrect, RoutesStay, PTL DEF Spec

(***************************************************************************)
(* What the worker tells others is true: a push that is acked as delivered *)
(* was put into a channel of its receiver, and a push is notified before   *)
(* it is committed exactly when its receiver is away (deliver.go 253-256,  *)
(* 301-361, 407-411).                                                      *)
(***************************************************************************)
THEOREM AnswersStayTrue == Spec => []AnswersAreTrue
<1>1. Init => AcksOK /\ NotifiesOK
  BY DeliverAssumption, InitFacts
<1>2. TypeOK /\ RoutesOK /\ AcksOK /\ NotifiesOK /\ [Next]_vars => AcksOK' /\ NotifiesOK'
  BY DeliverAssumption, AcksNext, NotifiesNext
<1>3. TypeOK /\ AcksOK /\ NotifiesOK => AnswersAreTrue
  <2>1. AcksOK => AckedWasEnqueued
    BY DEF AcksOK, AckedWasEnqueued, Enqueued, To
  <2>2. NotifiesOK => OfflineIsNotified
    BY DEF NotifiesOK, OfflineIsNotified, To
  <2> QED
    BY <2>1, <2>2 DEF AnswersAreTrue
<1> QED
  BY <1>1, <1>2, <1>3, TypeCorrect, RoutesStay, PTL DEF Spec

(***************************************************************************)
(* A receiver who stays connected and keeps up first sees its pushes in    *)
(* the order of the log, over lost batch calls whose pushes are delivered  *)
(* again one by one, and over restarts of the worker, while no push is     *)
(* skipped by a failed lookup or given up (deliver.go 205, 234, 278-328).  *)
(***************************************************************************)
THEOREM SteadyInOrder == Spec => []SteadySeenInOrder
<1>1. Init => InBatch /\ OrderOK
  BY DeliverAssumption, InitFacts
<1>2. TypeOK /\ RoutesOK /\ InBatch /\ OrderOK /\ [Next]_vars => InBatch' /\ OrderOK'
  BY DeliverAssumption, BatchNext, OrderNext
<1>3. OrderOK => SteadySeenInOrder
  BY DEF OrderOK, StreamOK, Stream, Smooth, SteadySeenInOrder, SeenInOrder
<1> QED
  BY <1>1, <1>2, <1>3, TypeCorrect, RoutesStay, PTL DEF Spec
=============================================================================
