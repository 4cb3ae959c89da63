----------------------------- MODULE Snowflake -----------------------------
(***************************************************************************)
(* The identifiers of conversations and groups (internal/snowflake): a     *)
(* generator per gateway packs its clock, its worker number and a sequence *)
(* into an id.  A mutex makes calls of one generator follow each other.    *)
(* Each generator reads the clock of its host, which may be set back.      *)
(***************************************************************************)
EXTENDS Integers, Sequences

CONSTANTS
  Generator,   \* gateways; each has a worker number of its own
  SeqSize,     \* maxSeq + 1
  Patience,    \* how far behind a clock may be waited for (2 ms in the code)
  MaxMs,       \* bound: the time of the clocks
  MaxIds,      \* bound: ids
  MaxBack,     \* bound: how often a clock is set back
  MaxLife      \* bound: how often a gateway restarts

ASSUME SnowflakeAssumption ==
  /\ SeqSize \in Nat \ {0}
  /\ {Patience, MaxMs, MaxIds, MaxBack, MaxLife} \subseteq Nat

VARIABLES
  clock,    \* clock[g]: the clock of the host of g, in ms
  gen,      \* gen[g]: the Generator, and where its call is
  issued,   \* history: what Next has returned, in this order
  back,     \* back[g]: how often the clock of g was set back
  life      \* life[g]: how often g was restarted

snowVars == <<clock, gen, issued, back, life>>

\* lastMs is 0 in a new generator: before every reading of the clock.
NewGen == [pc |-> "idle", last |-> 0, seq |-> 0]

SnowInit ==
  /\ clock = [g \in Generator |-> 1]
  /\ gen = [g \in Generator |-> NewGen]
  /\ issued = <<>>
  /\ back = [g \in Generator |-> 0]
  /\ life = [g \in Generator |-> 0]

-----------------------------------------------------------------------------
(***************************************************************************)
(* Next.  An id is the fields ms, of and seq; the widths of the shifts     *)
(* keep them apart.  The other fields are history: "after" is the branch   *)
(* of the switch the call has gone through.                                *)
(***************************************************************************)
Issue(g, now, seq, after) ==
  /\ gen' = [gen EXCEPT ![g] = [pc |-> "idle", last |-> now, seq |-> seq]]
  /\ issued' = Append(issued, [ms |-> now, of |-> g, seq |-> seq,
                              after |-> after, back |-> back[g], life |-> life[g]])

\* default: a new millisecond.
NextLater(g) ==
  /\ gen[g].pc = "idle"
  /\ Len(issued) < MaxIds
  /\ clock[g] > gen[g].last
  /\ Issue(g, clock[g], 0, "call")
  /\ UNCHANGED <<clock, back, life>>

\* Mutant of NextSame: no action uses it.
NextSameNoSleep(g) ==
  /\ gen[g].pc = "idle"
  /\ Len(issued) < MaxIds
  /\ clock[g] = gen[g].last
  /\ Issue(g, clock[g], (gen[g].seq + 1) % SeqSize, "call")
  /\ UNCHANGED <<clock, back, life>>

\* The same millisecond: the next number, or, after the last, sleep.
NextSame(g) ==
  LET seq == (gen[g].seq + 1) % SeqSize IN
  /\ gen[g].pc = "idle"
  /\ Len(issued) < MaxIds
  /\ clock[g] = gen[g].last
  /\ IF seq = 0
     THEN gen' = [gen EXCEPT ![g].pc = "sleep", ![g].seq = 0] /\ UNCHANGED issued
     ELSE Issue(g, clock[g], seq, "call")
  /\ UNCHANGED <<clock, back, life>>

Wake(g) ==
  /\ gen[g].pc = "sleep"
  /\ Len(issued) < MaxIds
  /\ clock[g] > gen[g].last
  /\ Issue(g, clock[g], gen[g].seq, "call")
  /\ UNCHANGED <<clock, back, life>>

\* The clock is behind: wait for it, the sequence as it is.
NextBehind(g) ==
  /\ gen[g].pc = "idle"
  /\ clock[g] < gen[g].last
  /\ gen' = [gen EXCEPT ![g].pc = "spin"]
  /\ UNCHANGED <<clock, issued, back, life>>

SpinEnds(g) ==
  /\ gen[g].pc = "spin"
  /\ clock[g] >= gen[g].last
  /\ gen' = [gen EXCEPT ![g].pc = "reread"]
  /\ UNCHANGED <<clock, issued, back, life>>

Reread(g) ==
  /\ gen[g].pc = "reread"
  /\ Len(issued) < MaxIds
  /\ clock[g] >= gen[g].last
  /\ Issue(g, clock[g], gen[g].seq, "wait")
  /\ UNCHANGED <<clock, back, life>>

\* ErrClockBackward: too far behind, or behind again at the second reading.
Refuse(g) ==
  /\ \/ gen[g].pc = "spin" /\ gen[g].last - clock[g] > Patience
     \/ gen[g].pc = "reread" /\ clock[g] < gen[g].last
  /\ gen' = [gen EXCEPT ![g].pc = "idle"]
  /\ UNCHANGED <<clock, issued, back, life>>

-----------------------------------------------------------------------------
Advance(g) ==
  /\ clock[g] < MaxMs
  /\ clock' = [clock EXCEPT ![g] = @ + 1]
  /\ UNCHANGED <<gen, issued, back, life>>

SetBack(g) ==
  /\ back[g] < MaxBack
  /\ back' = [back EXCEPT ![g] = @ + 1]
  /\ \E ms \in 1..(clock[g] - 1) : clock' = [clock EXCEPT ![g] = ms]
  /\ UNCHANGED <<gen, issued, life>>

\* A new process; a restart takes longer than a millisecond.
RestartGateway(g) ==
  /\ life[g] < MaxLife
  /\ life' = [life EXCEPT ![g] = @ + 1]
  /\ gen' = [gen EXCEPT ![g] = NewGen]
  /\ clock' = [clock EXCEPT ![g] = @ + 1]
  /\ UNCHANGED <<issued, back>>

NextId(g) ==
  \/ NextLater(g) \/ NextSame(g) \/ Wake(g)
  \/ NextBehind(g) \/ SpinEnds(g) \/ Reread(g) \/ Refuse(g)

SnowNext == \E g \in Generator : NextId(g) \/ Advance(g) \/ SetBack(g) \/ RestartGateway(g)

SnowSpec == SnowInit /\ [][SnowNext]_snowVars

-----------------------------------------------------------------------------
Id(i) == <<issued[i].ms, issued[i].of, issued[i].seq>>

\* Nothing between the two ids has made the generator forget the first.
Remembered(i, j) ==
  /\ issued[i].of = issued[j].of
  /\ issued[i].life = issued[j].life \/ issued[i].back = issued[j].back

Result == [ms : Nat, of : Generator, seq : 0..(SeqSize - 1),
           after : {"call", "wait"}, back : Nat, life : Nat]

\* The variables hold what the code can put into them.
SnowTypeOK ==
  /\ clock \in [Generator -> Nat]
  /\ gen \in [Generator -> [pc : {"idle", "sleep", "spin", "reread"}, last : Nat, seq : 0..(SeqSize - 1)]]
  /\ issued \in Seq(Result)
  /\ back \in [Generator -> Nat]
  /\ life \in [Generator -> Nat]

(***************************************************************************)
(* Two calls return different ids, over sequences that run out, clocks     *)
(* that are set back and restarts, except for a call that has waited for   *)
(* the clock, and a restart together with a clock that is set back.        *)
(***************************************************************************)
UniqueButAfterWait ==
  \A i, j \in DOMAIN issued :
    i < j /\ Id(i) = Id(j) => issued[j].after = "wait" \/ ~Remembered(i, j)

(***************************************************************************)
(* The ids of a generator do not fall: the millisecond never goes back,    *)
(* and the sequence only with a new millisecond, with one exception, a     *)
(* restart together with a clock that is set back.                         *)
(***************************************************************************)
IdsDoNotFall ==
  \A i, j \in DOMAIN issued :
    i < j /\ Remembered(i, j) =>
      \/ issued[i].ms < issued[j].ms
      \/ issued[i].ms = issued[j].ms /\ issued[i].seq <= issued[j].seq

(***************************************************************************)
(* Both: ids in the order of the calls, each once, but for those two       *)
(* exceptions.                                                             *)
(***************************************************************************)
IdsInOrder == UniqueButAfterWait /\ IdsDoNotFall

(***************************************************************************)
(* snowflake.go:2: an id is unique.  After a clock that was behind by at   *)
(* most Patience it is the last id again.                                  *)
(***************************************************************************)
IdsAreUnique == \A i, j \in DOMAIN issued : i < j => Id(i) # Id(j)

=============================================================================
