-------------------------- MODULE SnowflakeProofs --------------------------
(***************************************************************************)
(* Ids rise, for every number of gateways, ids, restarts and clocks that   *)
(* are set back, and for every length of a sequence.                       *)
(***************************************************************************)
EXTENDS Snowflake, TLAPS

(***************************************************************************)
(* What a generator knows of the ids it has returned in this life (they    *)
(* are not above its last one), and its clock of those returned since the  *)
(* last time it was set back (they are not later, and earlier if the       *)
(* process was restarted).  While a call sleeps, the sequence has started  *)
(* again and says nothing of the last millisecond.                         *)
(***************************************************************************)
BelowLast ==
  \A i \in DOMAIN issued : LET g == issued[i].of IN
    issued[i].life = life[g] =>
      /\ issued[i].ms <= gen[g].last
      /\ issued[i].ms = gen[g].last /\ gen[g].pc # "sleep" => issued[i].seq <= gen[g].seq

BelowClock ==
  \A i \in DOMAIN issued : LET g == issued[i].of IN
    issued[i].back = back[g] =>
      /\ issued[i].ms <= clock[g]
      /\ issued[i].life # life[g] => issued[i].ms < clock[g]

Past ==
  \A i \in DOMAIN issued : LET g == issued[i].of IN
    issued[i].life <= life[g] /\ issued[i].back <= back[g]

SnowInv == SnowTypeOK /\ BelowLast /\ BelowClock /\ Past /\ IdsInOrder

-----------------------------------------------------------------------------
\* The sequence after the next id: the next number, or 0 after the last.
LEMMA NextNumber ==
  ASSUME NEW S \in Nat \ {0}, NEW n \in 0..(S - 1)
  PROVE  /\ (n + 1) % S \in 0..(S - 1)
         /\ (n + 1) % S # 0 => (n + 1) % S = n + 1
<1>1. CASE n + 1 < S
  BY <1>1
<1>2. CASE n + 1 = S
  <2>1. S % S = 0
    OBVIOUS
  <2> QED BY <1>2, <2>1
<1> QED BY <1>1, <1>2

LEMMA InitInv == SnowInit => SnowInv
<1> SUFFICES ASSUME SnowInit PROVE SnowInv
  OBVIOUS
<1>1. DOMAIN issued = {}
  BY DEF SnowInit
<1>2. SnowTypeOK
  BY SnowflakeAssumption DEF SnowInit, SnowTypeOK, NewGen, SnowflakeAssumption
<1> QED
  BY <1>1, <1>2 DEF SnowInv, BelowLast, BelowClock, Past, IdsInOrder, UniqueButAfterWait, IdsDoNotFall

(***************************************************************************)
(* An id whose millisecond is that of the clock, not below the last one    *)
(* and, in the same millisecond, with a sequence not below that of any     *)
(* earlier id, and above it unless the call has waited.                    *)
(***************************************************************************)
LEMMA IssueInv ==
  ASSUME SnowInv, NEW g \in Generator, NEW seq \in 0..(SeqSize - 1), NEW after \in {"call", "wait"},
         gen[g].last <= clock[g],
         \A i \in DOMAIN issued :
           issued[i].of = g /\ issued[i].life = life[g] /\ issued[i].ms = clock[g] =>
             issued[i].seq <= seq /\ (issued[i].seq = seq => after = "wait"),
         Issue(g, clock[g], seq, after), UNCHANGED <<clock, back, life>>
  PROVE  SnowInv'
<1> DEFINE n == Len(issued) + 1
           new == [ms |-> clock[g], of |-> g, seq |-> seq, after |-> after, back |-> back[g], life |-> life[g]]
<1>1. new \in Result
  BY DEF SnowInv, SnowTypeOK, Result
<1>2. issued \in Seq(Result) /\ issued' = Append(issued, new)
  BY DEF SnowInv, SnowTypeOK, Issue
<1>3. /\ DOMAIN issued' = DOMAIN issued \cup {n}
      /\ issued'[n] = new
      /\ \A i \in DOMAIN issued : issued'[i] = issued[i] /\ issued[i] \in Result /\ i < n /\ i \in Nat
      /\ n \in Nat
  BY <1>1, <1>2
<1> HIDE DEF n, new
<1>4. gen' = [gen EXCEPT ![g] = [pc |-> "idle", last |-> clock[g], seq |-> seq]]
  BY DEF Issue
<1>5. SnowTypeOK'
  BY <1>1, <1>2, <1>4 DEF SnowInv, SnowTypeOK
<1>6. /\ gen \in [Generator -> [pc : {"idle", "sleep", "spin", "reread"}, last : Nat, seq : 0..(SeqSize - 1)]]
      /\ clock \in [Generator -> Nat] /\ back \in [Generator -> Nat] /\ life \in [Generator -> Nat]
  BY DEF SnowInv, SnowTypeOK
<1>7. gen'[g] = [pc |-> "idle", last |-> clock[g], seq |-> seq] /\ \A h \in Generator \ {g} : gen'[h] = gen[h]
  BY <1>4, <1>6
<1>8. /\ new.ms = clock[g] /\ new.of = g /\ new.seq = seq /\ new.after = after
      /\ new.back = back[g] /\ new.life = life[g]
  BY DEF new
<1>9. \A i \in DOMAIN issued : issued[i].of = g /\ issued[i].life = life[g] => issued[i].ms <= clock[g]
  BY <1>3, <1>6 DEF SnowInv, BelowLast, Result
<1>10. BelowLast'
  <2> SUFFICES ASSUME NEW i \in DOMAIN issued', issued'[i].life = life[issued'[i].of]
               PROVE  /\ issued'[i].ms <= gen'[issued'[i].of].last
                      /\ issued'[i].ms = gen'[issued'[i].of].last /\ gen'[issued'[i].of].pc # "sleep"
                           => issued'[i].seq <= gen'[issued'[i].of].seq
    BY DEF BelowLast
  <2>1. CASE i = n
    BY <2>1, <1>3, <1>6, <1>7, <1>8
  <2>2. CASE i \in DOMAIN issued /\ issued[i].of = g
    BY <2>2, <1>3, <1>7, <1>9
  <2>3. CASE i \in DOMAIN issued /\ issued[i].of # g
    <3>1. issued'[i] = issued[i] /\ gen'[issued[i].of] = gen[issued[i].of]
      BY <2>3, <1>3, <1>7 DEF Result
    <3> QED BY <2>3, <3>1 DEF SnowInv, BelowLast
  <2> QED BY <2>1, <2>2, <2>3, <1>3
<1>11. BelowClock'
  BY <1>3, <1>6, <1>8 DEF SnowInv, BelowClock
<1>12. Past'
  BY <1>3, <1>6, <1>8 DEF SnowInv, Past
\* The earlier ids the new one must be above.
<1>13. ASSUME NEW i \in DOMAIN issued, issued[i].of = g, issued[i].life = life[g] \/ issued[i].back = back[g]
       PROVE  /\ issued[i].ms < clock[g] \/ (issued[i].ms = clock[g] /\ issued[i].seq <= seq)
              /\ issued[i].ms = clock[g] /\ issued[i].seq = seq => after = "wait"
  <2>1. issued[i].ms \in Nat /\ clock[g] \in Nat
    BY <1>3, <1>6 DEF Result
  <2>2. CASE issued[i].life = life[g]
    BY <1>13, <2>1, <2>2, <1>9
  <2>3. CASE issued[i].life # life[g]
    <3>1. issued[i].ms < clock[g]
      BY <1>13, <2>3 DEF SnowInv, BelowClock
    <3> QED BY <3>1, <2>1
  <2> QED BY <2>2, <2>3
<1>14. ASSUME NEW i \in DOMAIN issued', NEW j \in DOMAIN issued', i < j,
               issued'[i].of = issued'[j].of,
               issued'[i].life = issued'[j].life \/ issued'[i].back = issued'[j].back
       PROVE  /\ \/ issued'[i].ms < issued'[j].ms
                 \/ issued'[i].ms = issued'[j].ms /\ issued'[i].seq <= issued'[j].seq
              /\ issued'[i].ms = issued'[j].ms /\ issued'[i].seq = issued'[j].seq => issued'[j].after = "wait"
  <2>1. i \in DOMAIN issued
    BY <1>14, <1>3
  <2>2. CASE j = n
    BY <1>14, <2>1, <2>2, <1>3, <1>8, <1>13
  <2>3. CASE j \in DOMAIN issued
    <3>1. issued'[i] = issued[i] /\ issued'[j] = issued[j]
      BY <2>1, <2>3, <1>3
    <3> QED
      BY <1>14, <2>1, <2>3, <3>1 DEF SnowInv, IdsInOrder, UniqueButAfterWait, IdsDoNotFall, Remembered, Id
  <2> QED BY <2>2, <2>3, <1>3
<1>15. UniqueButAfterWait'
  BY <1>14 DEF UniqueButAfterWait, Remembered, Id
<1>16. IdsDoNotFall'
  BY <1>14 DEF IdsDoNotFall, Remembered
<1> QED
  BY <1>5, <1>10, <1>11, <1>12, <1>15, <1>16 DEF SnowInv, IdsInOrder

\* A call that is still on its way: nothing is returned, the last id stays.
LEMMA WaitInv ==
  ASSUME SnowInv, NEW g \in Generator,
         NEW pc \in {"idle", "sleep", "spin", "reread"}, NEW seq \in 0..(SeqSize - 1),
         pc = "sleep" \/ (gen[g].pc # "sleep" /\ seq = gen[g].seq),
         gen' = [gen EXCEPT ![g].pc = pc, ![g].seq = seq], UNCHANGED <<clock, issued, back, life>>
  PROVE  SnowInv'
<1>1. gen \in [Generator -> [pc : {"idle", "sleep", "spin", "reread"}, last : Nat, seq : 0..(SeqSize - 1)]]
  BY DEF SnowInv, SnowTypeOK
<1>2. /\ gen'[g] = [pc |-> pc, last |-> gen[g].last, seq |-> seq]
      /\ \A h \in Generator \ {g} : gen'[h] = gen[h]
  BY ZenonT(60), <1>1
<1>3. SnowTypeOK'
  BY <1>1, <1>2 DEF SnowInv, SnowTypeOK
<1>4. \A i \in DOMAIN issued : issued[i] \in Result
  BY DEF SnowInv, SnowTypeOK
<1>5. BelowLast'
  BY <1>1, <1>2, <1>4 DEF SnowInv, BelowLast, Result
<1>6. BelowClock' /\ Past' /\ IdsInOrder'
  BY DEF SnowInv, BelowClock, Past, IdsInOrder, UniqueButAfterWait, IdsDoNotFall, Remembered, Id
<1> QED
  BY <1>3, <1>5, <1>6 DEF SnowInv

LEMMA NextIdInv == ASSUME SnowInv, NEW g \in Generator, NextId(g) PROVE SnowInv'
<1> DEFINE G == [pc : {"idle", "sleep", "spin", "reread"}, last : Nat, seq : 0..(SeqSize - 1)]
<1>1. gen \in [Generator -> G] /\ clock[g] \in Nat /\ SeqSize \in Nat \ {0}
  BY SnowflakeAssumption DEF SnowInv, SnowTypeOK, SnowflakeAssumption
<1>2. \A i \in DOMAIN issued : issued[i] \in Result
  BY DEF SnowInv, SnowTypeOK
\* What the generator remembers.
<1>3. \A i \in DOMAIN issued : issued[i].of = g /\ issued[i].life = life[g] =>
        /\ issued[i].ms <= gen[g].last
        /\ issued[i].ms = gen[g].last /\ gen[g].pc # "sleep" => issued[i].seq <= gen[g].seq
  BY DEF SnowInv, BelowLast
<1>4. CASE NextLater(g)
  <2>1. \A i \in DOMAIN issued : issued[i].of = g /\ issued[i].life = life[g] => issued[i].ms # clock[g]
    BY SMTT(30), <1>1, <1>2, <1>3, <1>4 DEF NextLater, Result
  <2>2. 0 \in 0..(SeqSize - 1) /\ gen[g].last <= clock[g]
    BY <1>1, <1>4 DEF NextLater
  <2> QED BY <1>4, <2>1, <2>2, IssueInv DEF NextLater
<1>5. CASE NextSame(g)
  <2> DEFINE seq == (gen[g].seq + 1) % SeqSize
  <2>1. seq \in 0..(SeqSize - 1) /\ (seq # 0 => seq = gen[g].seq + 1)
    BY <1>1, NextNumber
  <2>2. CASE seq = 0
    <3>1. gen' = [gen EXCEPT ![g].pc = "sleep", ![g].seq = 0] /\ UNCHANGED <<clock, issued, back, life>>
      BY <1>5, <2>2 DEF NextSame
    <3> QED BY Zenon, <2>1, <2>2, <3>1, WaitInv
  <2>3. CASE seq # 0
    <3>1. Issue(g, clock[g], seq, "call") /\ UNCHANGED <<clock, back, life>> /\ gen[g].pc = "idle" /\ clock[g] = gen[g].last
      BY <1>5, <2>3 DEF NextSame
    <3>2. \A i \in DOMAIN issued : issued[i].of = g /\ issued[i].life = life[g] /\ issued[i].ms = clock[g]
            => issued[i].seq <= seq /\ issued[i].seq # seq
      <4> HIDE DEF seq
      <4> QED BY <1>1, <1>2, <1>3, <2>1, <2>3, <3>1 DEF Result
    <3>3. gen[g].last <= clock[g]
      BY <1>1, <3>1
    <3> HIDE DEF seq
    <3> QED BY <2>1, <3>1, <3>2, <3>3, IssueInv
  <2> QED BY <2>2, <2>3
<1>6. CASE Wake(g)
  <2>1. \A i \in DOMAIN issued : issued[i].of = g /\ issued[i].life = life[g] => issued[i].ms # clock[g]
    BY <1>1, <1>2, <1>3, <1>6 DEF Wake, Result
  <2>2. gen[g].seq \in 0..(SeqSize - 1) /\ gen[g].last <= clock[g]
    BY <1>1, <1>6 DEF Wake
  <2> QED BY <1>6, <2>1, <2>2, IssueInv DEF Wake
<1>7. CASE Reread(g)
  <2>1. gen[g].seq \in 0..(SeqSize - 1) /\ gen[g].last <= clock[g] /\ gen[g].pc = "reread"
    BY <1>1, <1>7 DEF Reread
  <2>2. \A i \in DOMAIN issued : issued[i].of = g /\ issued[i].life = life[g] /\ issued[i].ms = clock[g]
          => issued[i].seq <= gen[g].seq
    BY <1>1, <1>2, <1>3, <2>1 DEF Result
  <2> QED BY <1>7, <2>1, <2>2, IssueInv DEF Reread
<1>8. ASSUME NEW pc \in {"idle", "spin", "reread"}, gen[g].pc # "sleep",
             gen' = [gen EXCEPT ![g].pc = pc], UNCHANGED <<clock, issued, back, life>>
      PROVE  SnowInv'
  <2>1. gen[g].seq \in 0..(SeqSize - 1)
    BY <1>1
  <2>2. gen' = [gen EXCEPT ![g].pc = pc, ![g].seq = gen[g].seq]
    BY Zenon, <1>1, <1>8
  <2> QED BY Zenon, <1>8, <2>1, <2>2, WaitInv
<1>9. CASE NextBehind(g)
  BY <1>8, <1>9 DEF NextBehind
<1>10. CASE SpinEnds(g)
  BY <1>8, <1>10 DEF SpinEnds
<1>11. CASE Refuse(g)
  BY <1>8, <1>11 DEF Refuse
<1> QED
  BY <1>4, <1>5, <1>6, <1>7, <1>9, <1>10, <1>11 DEF NextId

\* The clocks and the restarts.
LEMMA HostInv ==
  ASSUME SnowInv, NEW g \in Generator, Advance(g) \/ SetBack(g) \/ RestartGateway(g)
  PROVE  SnowInv'
<1> DEFINE G == [pc : {"idle", "sleep", "spin", "reread"}, last : Nat, seq : 0..(SeqSize - 1)]
<1>1. /\ gen \in [Generator -> G] /\ clock \in [Generator -> Nat]
      /\ back \in [Generator -> Nat] /\ life \in [Generator -> Nat]
      /\ \A i \in DOMAIN issued : issued[i] \in Result
  BY DEF SnowInv, SnowTypeOK
<1>2. issued' = issued /\ IdsInOrder'
  BY DEF SnowInv, Advance, SetBack, RestartGateway, IdsInOrder, UniqueButAfterWait, IdsDoNotFall, Remembered, Id
<1>3. SnowTypeOK'
  <2>1. NewGen \in G
    BY SnowflakeAssumption DEF NewGen, SnowflakeAssumption
  <2> HIDE DEF G
  <2>2. gen' \in [Generator -> G] /\ life' \in [Generator -> Nat] /\ back' \in [Generator -> Nat]
    BY <1>1, <2>1 DEF Advance, SetBack, RestartGateway
  <2>3. clock' \in [Generator -> Nat]
    BY <1>1 DEF Advance, SetBack, RestartGateway
  <2> QED BY Zenon, <1>2, <2>2, <2>3 DEF SnowInv, SnowTypeOK, G
<1> HIDE DEF G
<1>4. CASE Advance(g)
  <2>1. BelowLast' /\ Past'
    BY <1>4 DEF SnowInv, Advance, BelowLast, Past
  <2>2. BelowClock'
    BY <1>1, <1>4 DEF SnowInv, Advance, BelowClock, Result
  <2> QED BY <1>2, <1>3, <2>1, <2>2 DEF SnowInv
<1>5. CASE SetBack(g)
  <2>1. BelowLast'
    BY <1>5 DEF SnowInv, SetBack, BelowLast
  <2>2. BelowClock' /\ Past'
    BY <1>1, <1>5 DEF SnowInv, SetBack, BelowClock, Past, Result
  <2> QED BY <1>2, <1>3, <2>1, <2>2 DEF SnowInv
<1>6. CASE RestartGateway(g)
  <2>1. BelowLast'
    BY <1>1, <1>6 DEF SnowInv, RestartGateway, BelowLast, Past, Result
  <2>2. BelowClock' /\ Past'
    BY <1>1, <1>6 DEF SnowInv, RestartGateway, BelowClock, Past, Result
  <2> QED BY <1>2, <1>3, <2>1, <2>2 DEF SnowInv
<1> QED BY <1>4, <1>5, <1>6

LEMMA InvInductive == SnowInv /\ [SnowNext]_snowVars => SnowInv'
<1> SUFFICES ASSUME SnowInv, [SnowNext]_snowVars PROVE SnowInv'
  OBVIOUS
<1>1. CASE SnowNext
  BY <1>1, NextIdInv, HostInv DEF SnowNext
<1>2. CASE UNCHANGED snowVars
  BY <1>2 DEF snowVars, SnowInv, SnowTypeOK, BelowLast, BelowClock, Past,
              IdsInOrder, UniqueButAfterWait, IdsDoNotFall, Remembered, Id
<1> QED BY <1>1, <1>2

(***************************************************************************)
(* The ids of a gateway do not fall, and each is new unless its call has   *)
(* waited for a clock that was behind (Generator.Next), as long as no      *)
(* restart comes together with a clock that was set back.                  *)
(***************************************************************************)
THEOREM IdsRise == SnowSpec => []IdsInOrder
<1>1. SnowInv => IdsInOrder
  BY DEF SnowInv
<1> QED
  BY InitInv, InvInductive, <1>1, PTL DEF SnowSpec
=============================================================================
