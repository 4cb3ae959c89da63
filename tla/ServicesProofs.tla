--------------------------- MODULE ServicesProofs ---------------------------
(***************************************************************************)
(* The machines of MCServices, for every number of devices, requests,      *)
(* services, callers, messages and frames, and every bound on what fails:  *)
(* each keeps its types and limits, and what it writes in two places or    *)
(* tells to two callers is the same there.                                 *)
(*                                                                         *)
(* For each machine there is an inductive invariant, a lemma for each      *)
(* action, and a theorem on the machine alone; the last part puts them     *)
(* together for the specification TLC checks.                              *)
(***************************************************************************)
EXTENDS MCServices, SnowflakeProofs, FiniteSetTheorems, TLAPS

-----------------------------------------------------------------------------
(***************************************************************************)
(* Push.  A notification is taken again after a crash, and would then be   *)
(* counted twice if the device still had a badge; but a crash forgets all  *)
(* badges, and the first notification after it starts again at 1.  The     *)
(* count of the hour is that of the pushes since the last restart.         *)
(***************************************************************************)
Ages == 0..Window
Counts == 0..HourMax
Flags == BOOLEAN
DeviceState == [age : Ages, badge : Nat, count : Counts, sameHour : Flags]

PushTyped ==
  /\ devices \in [Device -> DeviceState]
  /\ notifyPc \in {"fetch", "commit"}
  /\ notifyDone \in 0..Len(Notify)
  /\ notifyPc = "commit" => notifyDone < Len(Notify)
  /\ waiting \in [Device -> SUBSET (1..Len(Notify))]
  /\ \A d \in Device : \A n \in waiting[d] : Notify[n] = d
  /\ hourly \in [Device -> Nat]
  /\ stops \in Nat

\* What has been taken: up to the committed offset, and the next one.
TakenOnly == \A d \in Device : \A n \in waiting[d] : n <= notifyDone + 1

\* A notification that comes again meets a device without a badge.
AgainAfresh ==
  notifyPc = "fetch" => \A d \in Device : notifyDone + 1 \in waiting[d] =>
    devices[d].badge = 0 /\ devices[d].age = Window

\* Pushes of this life are counted; those of a life that is over are at most HourMax.
CountedPushes ==
  \A d \in Device : hourly[d] <= HourMax * stops + (IF devices[d].sameHour THEN devices[d].count ELSE 0)

PushInv == PushTyped /\ TakenOnly /\ AgainAfresh /\ BadgeIsReal /\ CountedPushes

-----------------------------------------------------------------------------
(***************************************************************************)
(* Friends.  Whose change a row carries, and what a request has already    *)
(* made of the rows it has handled.                                        *)
(***************************************************************************)
Todo == {<<>>, <<1>>, <<2>>, <<1, 2>>, <<2, 1>>}

FriendsTyped ==
  /\ friends \subseteq Row
  /\ holder \in [Row -> Req \cup {NoReq}]
  /\ ftx \in [Req -> [pc : {"new", "run", "wait", "done", "failed"}, todo : Todo]]
  /\ mixed \in BOOLEAN

\* A row is held by a request that goes on: inserted and not yet there, or deleted and still there.
HolderOK ==
  \A r \in Row, q \in Req : holder[r] = q =>
    Active(q) /\ (r \in friends <=> Kind[q] = "delete")

WaitOK ==
  \A q \in Req : ftx[q].pc = "wait" =>
    /\ Kind[q] = "delete" /\ ftx[q].todo # <<>>
    /\ Target(q) \in friends /\ holder[Target(q)] # NoReq

OneKind ==
  ~mixed => \A p, q \in Req : Active(p) /\ Active(q) => Kind[p] = Kind[q]

\* Row r is none of the statements request q has still to do.
Handled(q, r) == ftx[q].todo \in {<<>>, <<3 - r>>}

HandledOK ==
  ~mixed => \A q \in Req, r \in Row : Active(q) /\ Handled(q, r) =>
    holder[r] = q \/ (r \in friends <=> Kind[q] = "create")

FriendsInv == FriendsTyped /\ HolderOK /\ WaitOK /\ OneKind /\ HandledOK /\ FriendsAgree

-----------------------------------------------------------------------------
(***************************************************************************)
(* Registry.  The last event that waits for a service says whether it has  *)
(* a key; where none waits the list says it.                               *)
(***************************************************************************)
Places == {"new", "put", "keep", "run", "down"}
Registration == [pc : Places, lease : Nat, id : Nat]
Event == [of : Service, put : Flags]
Events == Seq(Event)
GatewayPc == {"get", "gap", "watch", "off"}
GatewayState == [pc : GatewayPc, list : SUBSET Service, events : Events, sink : SUBSET Service]

RegistryTyped ==
  /\ reg \in [Service -> Registration]
  /\ live \in [Service -> SUBSET Nat]
  /\ key \in [Service -> Nat]
  /\ gateway \in GatewayState
  /\ missedKey \in BOOLEAN

\* The lease in hand is the last granted, and the key of one that is kept alive is attached to it.
LeaseOK(s) ==
  /\ reg[s].id <= reg[s].lease
  /\ live[s] \subseteq 1..reg[s].lease
  /\ key[s] \in live[s] \cup {NoLease}
  /\ reg[s].pc = "run" => reg[s].id = reg[s].lease
  /\ reg[s].pc \in {"keep", "run"} /\ reg[s].lease \in live[s] => key[s] = reg[s].lease

LeasesOK == \A s \in Service : LeaseOK(s)

HasKey(s) == key[s] # NoLease

LastEvent(s, k) ==
  /\ k \in DOMAIN gateway.events /\ gateway.events[k].of = s
  /\ \A j \in DOMAIN gateway.events : gateway.events[j].of = s => j <= k

Followed(s) ==
  \/ /\ \A j \in DOMAIN gateway.events : gateway.events[j].of # s
     /\ s \in gateway.list <=> HasKey(s)
  \/ \E k \in DOMAIN gateway.events : LastEvent(s, k) /\ (gateway.events[k].put <=> HasKey(s))

ListFollows ==
  /\ gateway.pc # "watch" => gateway.events = <<>>
  /\ gateway.pc \in {"gap", "watch"} /\ ~missedKey => \A s \in Service : Followed(s)

RegistryInv == RegistryTyped /\ LeasesOK /\ ListFollows

-----------------------------------------------------------------------------
(***************************************************************************)
(* Conversations.  A pair has one conversation, or one insertion that is   *)
(* not over, or nothing.                                                   *)
(***************************************************************************)
Users == UNION {SingleKey(c) : c \in Caller}
CallPc == {"new", "select", "insert", "members", "commit", "get", "answered", "failed"}
Added == SUBSET Users
CallState == [pc : CallPc, id : Nat, added : Added]

CallTyped ==
  /\ ids \in Nat /\ convFails \in 0..MaxFail
  /\ call \in [Caller -> CallState]
  /\ \A c \in Caller : call[c].id <= ids /\ call[c].added \subseteq SingleKey(c)

ConvsOK ==
  /\ \A v \in convs : v.id \in 1..ids /\ v.members = v.key
  /\ \A v, w \in convs : v.id = w.id \/ v.key = w.key => v = w

\* The call has in hand the conversation of its pair.
HasConv(c) == \E v \in convs : v.id = call[c].id /\ v.key = SingleKey(c)

\* It has made one: no other call and no committed row has this id or this pair.
HasNew(c) ==
  /\ call[c].id # NoId
  /\ \A v \in convs : v.id # call[c].id /\ v.key # SingleKey(c)
  /\ \A o \in Caller \ {c} : Inserted(o) => call[o].id # call[c].id /\ SingleKey(o) # SingleKey(c)

CallOK(c) ==
  /\ call[c].pc \in {"select", "insert"} => call[c].added = {}
  /\ call[c].pc = "members" => HasNew(c) /\ call[c].added # SingleKey(c)
  /\ call[c].pc = "commit" => HasConv(c) \/ (HasNew(c) /\ call[c].added = SingleKey(c))
  /\ call[c].pc \in {"get", "answered"} => HasConv(c)

CallsOK == \A c \in Caller : CallOK(c)

ConvInv == CallTyped /\ ConvsOK /\ CallsOK

-----------------------------------------------------------------------------
(***************************************************************************)
(* History.  The messages are numbered without a gap, the one being        *)
(* written has the next number, and a page is the messages after its       *)
(* cursor up to some point.                                                *)
(***************************************************************************)
LastNumber == Cardinality(stored)
Numbers == SUBSET Nat
ClientState == [on : Flags, lastSeq : Nat, seen : Numbers]
PageAnswer == [read : Flags, page : Numbers]
PullState == [after : Nat, got : PageAnswer]

StoredOK ==
  /\ IsFiniteSet(stored) /\ LastNumber <= MaxSeq
  /\ \A m \in stored : m.seq \in 1..LastNumber
  /\ \A n \in 1..LastNumber : \E m \in stored : m.seq = n

WritersOK ==
  /\ wtx \in [Writer -> Nat]
  /\ \A w \in Writer : wtx[w] # 0 =>
       /\ wtx[w] = LastNumber + 1 /\ wtx[w] <= MaxSeq
       /\ \A o \in Writer \ {w} : wtx[o] = 0

ClientOK ==
  /\ client \in ClientState
  /\ client.lastSeq <= LastNumber /\ client.seen \subseteq 1..LastNumber
  /\ client.lastSeq \in client.seen \cup {0}
  /\ first \in 0..client.lastSeq
  /\ first = 0 <=> client.lastSeq = 0
  /\ excused \in BOOLEAN

PullOK(p) ==
  /\ p \in PullState /\ p.after <= client.lastSeq
  /\ p.got.read => \E b \in p.after..LastNumber : p.got.page = (p.after + 1)..b

PullsOK ==
  /\ IsFiniteSet(pulls) /\ Cardinality(pulls) <= MaxPulls
  /\ \A p \in pulls : PullOK(p)

HistoryInv == StoredOK /\ WritersOK /\ ClientOK /\ PullsOK /\ GapsAreCovered

-----------------------------------------------------------------------------
(***************************************************************************)
(* Likes.  A like that is between its two statements came with a request.  *)
(***************************************************************************)
RowAges == Age \cup {NoRow}
Readers == 0..Cardinality(Reader)

LikesTyped ==
  /\ rows \in [Actions -> [Reader -> RowAges]]
  /\ counters \in [Actions -> Readers]
  /\ toggles \in [Reader -> Nat]
  /\ flush \in {"wait", "touched", "recount"}

TogglesRequested == acts \in 0..MaxAct /\ \A u \in Reader : toggles[u] <= acts

LikesInv == LikesTyped /\ TogglesRequested

-----------------------------------------------------------------------------
(***************************************************************************)
(* A connection.  The read pump produces a message and answers with a      *)
(* reply, and a relay call holds the connection for a push that is still   *)
(* to be delivered.                                                        *)
(***************************************************************************)
AnyFrame == Msg \cup {""}
AnyReply == Replies \cup {""}
ReaderPc == {"read", "produce", "answer", "done"}
ReaderState == [pc : ReaderPc, frame : AnyFrame, reply : AnyReply]
Packets == Seq(Item)
ChanState == [buf : Packets, closed : Flags]
WriterPc == {"wait", "packet", "done"}
WriterState == [pc : WriterPc, packet : Packets]
Entries == {"this", "other", "none"}
ManagerState == [entry : Entries, unregister : Flags, kick : Flags]
Turn == 1..(MaxPush + 1)
PushSets == SUBSET Pushes
RelayState == [next : Turn, holds : Flags, delivered : PushSets]

SaidOK == said \in Seq(Frame) /\ unread \in 0..Len(said)
SocketOK == peer \in {"here", "silent", "gone"} /\ socket \in Flags /\ idle \in Flags /\ alive \in Flags
ReaderOK ==
  /\ reader \in ReaderState
  /\ reader.pc = "produce" => reader.frame \in Msg
  /\ reader.pc = "answer" => reader.reply \in Replies
ChanOK == chan \in ChanState /\ Len(chan.buf) <= Capacity
WriterOK == writer \in WriterState /\ got \in Seq(Packets)
ManagerOK == manager \in ManagerState
RelayOK == relay \in RelayState /\ (relay.holds => relay.next \in Pushes)
LogOK == msgLog \in Seq(Msg) /\ refused \in 0..MaxProduceFail

ConnectionInv ==
  SaidOK /\ SocketOK /\ ReaderOK /\ ChanOK /\ WriterOK /\ ManagerOK /\ RelayOK /\ LogOK


-----------------------------------------------------------------------------
LEMMA PushConstants ==
  /\ Window \in Nat /\ Window > 0 /\ HourMax \in Nat /\ HourMax > 0
  /\ Len(Notify) \in Nat /\ \A n \in 1..Len(Notify) : Notify[n] \in Device
  BY PushAssumption DEF PushAssumption

LEMMA CardOfInterval ==
  ASSUME NEW n \in Nat
  PROVE  IsFiniteSet(1..n) /\ Cardinality(1..n) = n
<1>1. /\ IsFiniteSet(1..n)
      /\ Cardinality(1..n) = IF 1 > n THEN 0 ELSE n - 1 + 1
  BY FS_Interval, 1 \in Int, n \in Int
<1> QED
  BY <1>1

LEMMA StateRanges ==
  /\ 0 \in Ages /\ Window \in Ages /\ \A a \in Ages : a \in Nat /\ a <= Window
  /\ 0 \in Counts /\ \A c \in Counts : c \in Nat /\ c <= HourMax
  /\ \A c \in Counts : c < HourMax => c + 1 \in Counts
  /\ TRUE \in Flags
  BY PushConstants DEF Ages, Counts, Flags

LEMMA NotesFinite ==
  ASSUME NEW S \in SUBSET (1..Len(Notify))
  PROVE  IsFiniteSet(S) /\ Cardinality(S) \in Nat
<1>1. IsFiniteSet(1..Len(Notify))
  BY FS_Interval, PushConstants
<1> QED
  BY Zenon, <1>1, FS_Subset, FS_CardinalityType

\* What waits for a device is finite, and one more notification is one more or the same.
LEMMA WaitingFinite ==
  ASSUME PushTyped, NEW d \in Device, NEW n \in 1..Len(Notify)
  PROVE  /\ IsFiniteSet(waiting[d]) /\ Cardinality(waiting[d]) \in Nat
         /\ Cardinality(waiting[d] \cup {n}) \in Nat \ {0}
         /\ n \notin waiting[d] => Cardinality(waiting[d] \cup {n}) = Cardinality(waiting[d]) + 1
<1>1. waiting[d] \subseteq 1..Len(Notify)
  BY DEF PushTyped
<1>2. IsFiniteSet(waiting[d])
  BY <1>1, NotesFinite
<1>3. CASE n \in waiting[d]
  <2>1. waiting[d] \cup {n} = waiting[d]
    BY <1>3
  <2>2. Cardinality(waiting[d]) # 0
    BY <1>2, <1>3, FS_EmptySet
  <2> QED
    BY Zenon, <1>2, <1>3, <2>1, <2>2, FS_CardinalityType
<1>4. CASE n \notin waiting[d]
  BY <1>2, <1>4, FS_AddElement, FS_CardinalityType
<1> QED
  BY <1>3, <1>4

LEMMA SendDoes ==
  ASSUME NEW st \in DeviceState
  PROVE  /\ NewHour(st) \in DeviceState /\ NewHour(st).sameHour
         /\ NewHour(st).age = st.age /\ NewHour(st).badge = st.badge
         /\ NewHour(st).count = IF st.sameHour THEN st.count ELSE 0
         /\ ~Limited(st) => /\ Sent(st) \in DeviceState /\ Sent(st).sameHour
                            /\ Sent(st).age = 0 /\ Sent(st).badge = 0
                            /\ Sent(st).count = (IF st.sameHour THEN st.count ELSE 0) + 1
<1>1. /\ NewHour(st) \in DeviceState /\ NewHour(st).sameHour
      /\ NewHour(st).age = st.age /\ NewHour(st).badge = st.badge
      /\ NewHour(st).count = IF st.sameHour THEN st.count ELSE 0
  <2>1. CASE st.sameHour
    BY <2>1 DEF NewHour, DeviceState
  <2>2. CASE ~st.sameHour
    <3>1. PICK t \in Flags : t = TRUE
      BY Zenon DEF Flags
    <3>2. NewHour(st) = [st EXCEPT !.count = 0, !.sameHour = t]
      BY Zenon, <2>2, <3>1 DEF NewHour
    <3>3. /\ NewHour(st) \in DeviceState /\ NewHour(st).sameHour = t /\ NewHour(st).count = 0
          /\ NewHour(st).age = st.age /\ NewHour(st).badge = st.badge
      BY Zenon, <3>2, StateRanges DEF DeviceState
    <3> QED
      BY Zenon, <2>2, <3>1, <3>3
  <2> QED
    BY <2>1, <2>2
<1>2. PICK h \in DeviceState : h = NewHour(st)
  BY <1>1
<1>3. ASSUME ~Limited(st)
      PROVE  /\ Sent(st) \in DeviceState /\ Sent(st).sameHour = h.sameHour
             /\ Sent(st).age = 0 /\ Sent(st).badge = 0 /\ Sent(st).count = h.count + 1
  <2>1. h.count \in Counts /\ h.count < HourMax
    BY <1>2, <1>3, PushConstants, StateRanges DEF Limited, DeviceState
  <2>2. h.count + 1 \in Counts /\ 0 \in Ages
    BY <2>1, StateRanges
  <2>3. Sent(st) = [h EXCEPT !.age = 0, !.count = h.count + 1, !.badge = 0]
    BY Zenon, <1>2 DEF Sent
  <2>4. PICK c \in Counts : c = h.count + 1
    BY <2>2
  <2>a. PICK a \in Ages : a = 0
    BY <2>2
  <2>b. PICK b \in Nat : b = 0
    OBVIOUS
  <2>5. Sent(st) = [h EXCEPT !.age = a, !.count = c, !.badge = b]
    BY Zenon, <2>3, <2>4, <2>a, <2>b
  <2>6. Sent(st) \in DeviceState
    BY Zenon, <2>5 DEF DeviceState
  <2>7. Sent(st).age = a /\ Sent(st).badge = b /\ Sent(st).count = c
    BY <2>5 DEF DeviceState
  <2>8. Sent(st).sameHour = h.sameHour
    BY <2>5 DEF DeviceState
  <2> QED
    BY Zenon, <2>4, <2>a, <2>b, <2>6, <2>7, <2>8
<1> QED
  BY <1>1, <1>2, <1>3

(***************************************************************************)
(* A call of the vendor for device d: the count of the hour follows the    *)
(* pushes, the badge is 0 or stays.                                        *)
(***************************************************************************)
LEMMA SendPush ==
  ASSUME PushTyped, CountedPushes, UNCHANGED stops, NEW d \in Device, NEW st \in DeviceState,
         st.count = devices[d].count, st.sameHour = devices[d].sameHour,
         SendWorks(d, st) \/ SendFails(d, st)
  PROVE  /\ devices' \in [Device -> DeviceState] /\ hourly' \in [Device -> Nat]
         /\ CountedPushes'
         /\ \A e \in Device \ {d} : devices'[e] = devices[e]
         /\ SendWorks(d, st) => devices'[d].badge = 0
         /\ ~SendWorks(d, st) => devices'[d].badge = st.badge /\ devices'[d].age = st.age
<1>1. /\ devices \in [Device -> DeviceState] /\ hourly \in [Device -> Nat]
      /\ stops \in Nat /\ HourMax * stops \in Nat
  BY PushConstants DEF PushTyped
<1>2. PICK x \in DeviceState :
        /\ x.sameHour /\ devices' = [devices EXCEPT ![d] = x]
        /\ \/ /\ SendWorks(d, st) /\ x.badge = 0 /\ x.count = (IF st.sameHour THEN st.count ELSE 0) + 1
              /\ hourly' = [hourly EXCEPT ![d] = @ + 1]
           \/ /\ ~SendWorks(d, st) /\ x.badge = st.badge /\ x.age = st.age
              /\ x.count = IF st.sameHour THEN st.count ELSE 0
              /\ hourly' = hourly
  <2>1. CASE SendWorks(d, st)
    <3>1. ~Limited(st) /\ devices' = [devices EXCEPT ![d] = Sent(st)] /\ hourly' = [hourly EXCEPT ![d] = @ + 1]
      BY <2>1 DEF SendWorks
    <3> QED
      BY Zenon, <2>1, <3>1, SendDoes
  <2>2. CASE ~SendWorks(d, st)
    <3>1. devices' = [devices EXCEPT ![d] = NewHour(st)] /\ hourly' = hourly
      BY <2>2 DEF SendFails
    <3> QED
      BY Zenon, <2>2, <3>1, SendDoes
  <2> QED
    BY <2>1, <2>2
<1>3. devices' \in [Device -> DeviceState] /\ devices'[d] = x /\ \A e \in Device \ {d} : devices'[e] = devices[e]
  BY <1>1, <1>2
<1>4. /\ hourly' \in [Device -> Nat] /\ \A e \in Device \ {d} : hourly'[e] = hourly[e]
      /\ hourly'[d] \in {hourly[d], hourly[d] + 1}
      /\ SendWorks(d, st) => hourly'[d] = hourly[d] + 1
      /\ ~SendWorks(d, st) => hourly'[d] = hourly[d]
  BY <1>1, <1>2
<1>5. x.count \in Nat /\ devices[d].count \in Nat /\ hourly[d] \in Nat
  BY <1>1, StateRanges DEF DeviceState
<1>6. hourly'[d] <= HourMax * stops + x.count
  <2>1. PICK k \in Nat : k = HourMax * stops
    BY <1>1
  <2>2. PICK c \in Nat : c = IF st.sameHour THEN st.count ELSE 0
    BY <1>5
  <2>3. hourly[d] <= k + c
    BY Zenon, <2>1, <2>2 DEF CountedPushes
  <2>4. \/ x.count = c + 1 /\ SendWorks(d, st)
        \/ x.count = c /\ ~SendWorks(d, st)
    <3> HIDE DEF SendWorks
    <3> QED
      BY <1>2, <2>2
  <2>5. hourly'[d] <= k + x.count
    BY <1>4, <1>5, <2>3, <2>4
  <2> QED
    BY Zenon, <2>1, <2>5
<1>7. CountedPushes'
  <2> SUFFICES ASSUME NEW e \in Device
               PROVE  hourly'[e] <= HourMax * stops + (IF devices'[e].sameHour THEN devices'[e].count ELSE 0)
    BY Zenon DEF CountedPushes
  <2>1. CASE e = d
    BY Zenon, <1>2, <1>3, <1>6, <2>1
  <2>2. CASE e # d
    BY Zenon, <1>3, <1>4, <2>2 DEF CountedPushes
  <2> QED
    BY <2>1, <2>2
<1> QED
  BY Zenon, <1>2, <1>3, <1>4, <1>7

LEMMA NewDeviceType ==
  /\ NewDevice \in DeviceState /\ NewDevice.sameHour
  /\ NewDevice.age = Window /\ NewDevice.badge = 0 /\ NewDevice.count = 0
<1>1. PICK t \in Flags : t = TRUE
  BY Zenon DEF Flags
<1>2. NewDevice = [age |-> Window, badge |-> 0, count |-> 0, sameHour |-> t]
  BY Zenon, <1>1 DEF NewDevice
<1> QED
  BY Zenon, <1>1, <1>2, StateRanges DEF DeviceState

LEMMA PushInitInv == PushInit => PushInv
<1> SUFFICES ASSUME PushInit PROVE PushInv
  OBVIOUS
<1>2. devices \in [Device -> DeviceState] /\ \A d \in Device : devices[d].badge = 0 /\ devices[d].count = 0
  BY NewDeviceType DEF PushInit
<1>3. PushTyped
  BY <1>2, PushConstants DEF PushInit, PushTyped
<1>4. \A d \in Device : waiting[d] = {} /\ hourly[d] = 0
  BY DEF PushInit
<1>5. TakenOnly /\ AgainAfresh
  BY <1>4 DEF TakenOnly, AgainAfresh
<1>6. BadgeIsReal
  <2> SUFFICES ASSUME NEW d \in Device PROVE devices[d].badge <= Cardinality(waiting[d])
    BY Zenon DEF BadgeIsReal
  <2>1. Cardinality(waiting[d]) = 0
    BY <1>4, FS_EmptySet
  <2> QED
    BY <1>2, <2>1
<1>7. CountedPushes
  BY <1>2, <1>4, PushConstants DEF CountedPushes, PushInit
<1> QED
  BY <1>3, <1>5, <1>6, <1>7 DEF PushInv

LEMMA IngestInv == ASSUME PushInv, Ingest PROVE PushInv'
<1>1. PushTyped /\ notifyPc = "fetch" /\ notifyPc' = "commit" /\ UNCHANGED <<notifyDone, stops>>
  BY DEF Ingest, PushInv
<1>2. PICK n \in 1..Len(Notify) : n = notifyDone + 1
  BY <1>1, PushConstants DEF Ingest, PushTyped
<1>3. PICK d \in Device : d = Notify[n]
  BY <1>2, PushConstants
<1>4. /\ devices \in [Device -> DeviceState] /\ waiting \in [Device -> SUBSET (1..Len(Notify))]
      /\ \A e \in Device : \A k \in waiting[e] : Notify[k] = e
  BY <1>1 DEF PushTyped
<1>5. PICK st \in DeviceState : st = devices[d]
  BY <1>4
<1>6. PICK rs \in DeviceState : rs = Reset(st) /\ rs.badge = 1 /\ rs.count = st.count /\ rs.sameHour = st.sameHour
  <2>1. Reset(st) \in DeviceState
    BY DEF Reset, DeviceState
  <2>2. Reset(st).badge = 1 /\ Reset(st).count = st.count
    BY DEF Reset, DeviceState
  <2>3. Reset(st).sameHour = st.sameHour
    BY DEF Reset, DeviceState
  <2> QED
    BY Zenon, <2>1, <2>2, <2>3
<1>7. PICK now \in SUBSET (1..Len(Notify)) : now = waiting[d] \cup {n}
  BY Zenon, <1>2, <1>4
<1>8. \/ /\ st.age = Window /\ SendWorks(d, rs) /\ waiting' = [waiting EXCEPT ![d] = {}]
      \/ /\ st.age = Window /\ SendFails(d, rs) /\ waiting' = [waiting EXCEPT ![d] = now]
      \/ /\ st.age # Window /\ devices' = [devices EXCEPT ![d].badge = @ + 1]
         /\ waiting' = [waiting EXCEPT ![d] = now]
         /\ UNCHANGED <<hourly, vendorFails>>
  BY Zenon, <1>2, <1>3, <1>5, <1>6, <1>7 DEF Ingest
<1>9. /\ devices' \in [Device -> DeviceState] /\ hourly' \in [Device -> Nat] /\ CountedPushes'
      /\ \A e \in Device \ {d} : devices'[e] = devices[e]
      /\ \/ devices'[d].badge = 0
         \/ devices'[d].badge = 1 /\ waiting'[d] = now
         \/ devices'[d].badge = devices[d].badge + 1 /\ devices[d].age # Window /\ waiting'[d] = now
  <2>1. CASE st.age = Window
    <3>1. SendWorks(d, rs) \/ SendFails(d, rs)
      BY <1>8, <2>1
    <3>2. SendWorks(d, rs) \/ waiting'[d] = now
      BY <1>4, <1>8, <2>1
    <3>3. rs.count = devices[d].count /\ rs.sameHour = devices[d].sameHour /\ rs.badge = 1
      BY <1>5, <1>6
    <3> QED
      BY Zenon, <1>1, <3>1, <3>2, <3>3, SendPush DEF PushInv
  <2>2. CASE st.age # Window
    <3>b. PICK b \in Nat : b = st.badge + 1
      BY DEF DeviceState
    <3>1. PICK x \in DeviceState : /\ x.badge = b /\ x.sameHour = st.sameHour /\ x.count = st.count
                                   /\ x = [st EXCEPT !.badge = b]
      BY Zenon DEF DeviceState
    <3>2. devices' = [devices EXCEPT ![d] = x] /\ waiting' = [waiting EXCEPT ![d] = now] /\ hourly' = hourly
      BY Zenon, <1>5, <1>8, <2>2, <3>b, <3>1
    <3>3. /\ devices'[d] = x /\ \A e \in Device \ {d} : devices'[e] = devices[e]
          /\ devices' \in [Device -> DeviceState] /\ waiting'[d] = now
      BY <1>4, <3>2
    <3>4. \A e \in Device : devices'[e].count = devices[e].count /\ devices'[e].sameHour = devices[e].sameHour
      BY Zenon, <1>5, <3>1, <3>3
    <3>5. CountedPushes'
      BY Zenon, <1>1, <3>2, <3>4 DEF CountedPushes, PushInv
    <3>6. hourly' \in [Device -> Nat]
      BY <1>1, <3>2 DEF PushTyped
    <3> QED
      BY Zenon, <1>5, <2>2, <3>b, <3>1, <3>3, <3>5, <3>6
  <2> QED
    BY <2>1, <2>2
<1>10. /\ waiting' \in [Device -> SUBSET (1..Len(Notify))]
       /\ \A e \in Device \ {d} : waiting'[e] = waiting[e]
       /\ waiting'[d] \subseteq now
  BY <1>4, <1>8
<1>11. PushTyped'
  <2>1. notifyDone < Len(Notify)
    BY <1>1, <1>2, PushConstants DEF PushTyped
  <2>2. \A e \in Device : \A k \in waiting'[e] : Notify[k] = e
    BY <1>3, <1>4, <1>7, <1>10
  <2> QED
    BY <1>1, <1>9, <1>10, <2>1, <2>2 DEF PushTyped
<1>12. TakenOnly'
  BY <1>1, <1>2, <1>7, <1>10 DEF PushInv, TakenOnly
<1>13. AgainAfresh'
  BY <1>1 DEF AgainAfresh
<1>14. BadgeIsReal'
  <2> SUFFICES ASSUME NEW e \in Device PROVE devices'[e].badge <= Cardinality(waiting'[e])
    BY Zenon DEF BadgeIsReal
  <2>1. CASE e # d
    BY Zenon, <1>9, <1>10, <2>1 DEF BadgeIsReal, PushInv
  <2>2. CASE e = d
    <3>1. Cardinality(waiting'[d]) \in Nat
      BY <1>10, NotesFinite
    <3>2. /\ Cardinality(now) \in Nat \ {0} /\ Cardinality(waiting[d]) \in Nat
          /\ n \notin waiting[d] => Cardinality(now) = Cardinality(waiting[d]) + 1
      BY Zenon, <1>1, <1>7, WaitingFinite
    <3>3. devices[d].age # Window => n \notin waiting[d]
      BY <1>1, <1>2 DEF PushInv, AgainAfresh
    <3>4. devices[d].badge \in Nat
      BY <1>4 DEF DeviceState
    <3>5. devices[d].badge <= Cardinality(waiting[d])
      BY Zenon DEF PushInv, BadgeIsReal
    <3> QED
      BY SMTT(30), <1>9, <2>2, <3>1, <3>2, <3>3, <3>4, <3>5
  <2> QED
    BY <2>1, <2>2
<1> QED
  BY <1>9, <1>11, <1>12, <1>13, <1>14 DEF PushInv

LEMMA FlushInv == ASSUME PushInv, NEW d \in Device, FlushDue(d) PROVE PushInv'
<1>1. /\ PushTyped /\ UNCHANGED <<notifyPc, notifyDone, stops>>
      /\ notifyPc = "fetch" /\ devices[d].badge > 1
  BY DEF FlushDue, PushInv, Due
<1>2. /\ devices \in [Device -> DeviceState] /\ waiting \in [Device -> SUBSET (1..Len(Notify))]
      /\ \A e \in Device : \A k \in waiting[e] : Notify[k] = e
  BY <1>1 DEF PushTyped
<1>3. PICK st \in DeviceState : st = devices[d] /\ st.badge > 1
  BY <1>1, <1>2
<1>4. \/ SendWorks(d, st) /\ waiting' = [waiting EXCEPT ![d] = {}]
      \/ SendFails(d, st) /\ waiting' = waiting
  BY Zenon, <1>3 DEF FlushDue
<1>5. /\ devices' \in [Device -> DeviceState] /\ hourly' \in [Device -> Nat] /\ CountedPushes'
      /\ \A e \in Device \ {d} : devices'[e] = devices[e]
      /\ \/ devices'[d].badge = 0
         \/ devices'[d].badge = st.badge /\ waiting' = waiting
  BY Zenon, <1>1, <1>3, <1>4, SendPush DEF PushInv
<1>6. /\ waiting' \in [Device -> SUBSET (1..Len(Notify))]
      /\ \A e \in Device \ {d} : waiting'[e] = waiting[e]
      /\ waiting'[d] \subseteq waiting[d]
  BY <1>2, <1>4
<1>7. PushTyped' /\ TakenOnly'
  <2>1. \A e \in Device : waiting'[e] \subseteq waiting[e]
    BY <1>6
  <2> QED
    BY <1>1, <1>2, <1>5, <1>6, <2>1 DEF PushInv, PushTyped, TakenOnly
<1>8. AgainAfresh'
  <2>1. notifyDone + 1 \notin waiting[d]
    BY <1>1 DEF AgainAfresh, PushInv
  <2> QED
    BY <1>1, <1>5, <1>6, <2>1 DEF AgainAfresh, PushInv
<1>9. BadgeIsReal'
  <2> SUFFICES ASSUME NEW e \in Device PROVE devices'[e].badge <= Cardinality(waiting'[e])
    BY Zenon DEF BadgeIsReal
  <2>1. Cardinality(waiting'[e]) \in Nat
    BY <1>6, NotesFinite
  <2>2. e # d => devices'[e] = devices[e] /\ waiting'[e] = waiting[e]
    BY <1>5, <1>6
  <2>3. devices[e].badge <= Cardinality(waiting[e])
    BY Zenon DEF BadgeIsReal, PushInv
  <2>4. \/ devices'[e].badge = 0
        \/ devices'[e].badge = devices[e].badge /\ waiting'[e] = waiting[e]
    BY Zenon, <1>3, <1>5, <2>2
  <2> QED
    BY <2>1, <2>3, <2>4
<1> QED
  BY <1>5, <1>7, <1>8, <1>9 DEF PushInv


LEMMA CommitNotifyInv == ASSUME PushInv, CommitNotify PROVE PushInv'
<1>1. /\ notifyPc = "commit" /\ notifyPc' = "fetch" /\ notifyDone' = notifyDone + 1
      /\ devices' = devices /\ waiting' = waiting /\ hourly' = hourly /\ stops' = stops
  BY DEF CommitNotify
<1>2. PushTyped'
  BY <1>1, PushConstants DEF PushInv, PushTyped
<1>3. \A d \in Device : \A n \in waiting[d] : n \in Nat /\ n <= notifyDone + 1
  BY DEF PushInv, PushTyped, TakenOnly
<1>4. notifyDone \in Nat
  BY PushConstants DEF PushInv, PushTyped
<1>5. TakenOnly' /\ AgainAfresh'
  BY <1>1, <1>3, <1>4 DEF TakenOnly, AgainAfresh
<1>6. BadgeIsReal' /\ CountedPushes'
  BY Zenon, <1>1 DEF BadgeIsReal, CountedPushes, PushInv
<1> QED
  BY <1>2, <1>5, <1>6 DEF PushInv

LEMMA StopInv == ASSUME PushInv, Stop PROVE PushInv'
<1>1. /\ stops' = stops + 1 /\ devices' = [d \in Device |-> NewDevice] /\ notifyPc' = "fetch"
      /\ notifyDone' = notifyDone /\ waiting' = waiting /\ hourly' = hourly
  BY DEF Stop
<1>2. PushTyped
  BY DEF PushInv
<1>3. /\ devices' \in [Device -> DeviceState]
      /\ \A d \in Device : /\ devices'[d].badge = 0 /\ devices'[d].age = Window
                           /\ devices'[d].count = 0 /\ devices'[d].sameHour
  BY <1>1, NewDeviceType
<1>4. PushTyped'
  BY <1>1, <1>2, <1>3 DEF PushTyped
<1>5. TakenOnly' /\ AgainAfresh'
  BY <1>1, <1>3 DEF TakenOnly, AgainAfresh, PushInv
<1>6. BadgeIsReal'
  <2> SUFFICES ASSUME NEW d \in Device PROVE devices'[d].badge <= Cardinality(waiting'[d])
    BY Zenon DEF BadgeIsReal
  <2>1. Cardinality(waiting'[d]) \in Nat
    BY <1>1, <1>2, NotesFinite DEF PushTyped
  <2> QED
    BY <1>3, <2>1
<1>7. CountedPushes'
  <2> SUFFICES ASSUME NEW d \in Device
               PROVE  hourly'[d] <= HourMax * stops' + (IF devices'[d].sameHour THEN devices'[d].count ELSE 0)
    BY Zenon DEF CountedPushes
  <2>1. stops \in Nat /\ hourly[d] \in Nat /\ devices[d].count \in Nat /\ devices[d].count <= HourMax
    BY <1>2, StateRanges DEF PushTyped, DeviceState
  <2>2. PICK c \in Nat : c = (IF devices[d].sameHour THEN devices[d].count ELSE 0) /\ c <= HourMax
    BY <2>1, PushConstants
  <2>3. hourly[d] <= HourMax * stops + c
    BY Zenon, <2>2 DEF CountedPushes, PushInv
  <2>4. HourMax * (stops + 1) = HourMax * stops + HourMax /\ HourMax * stops \in Nat
    BY <2>1, PushConstants
  <2>5. PICK k \in Nat : k = HourMax * stops
    BY <2>4
  <2>6. hourly[d] <= k + HourMax
    BY <2>1, <2>2, <2>3, <2>5, PushConstants
  <2>7. HourMax * stops' = k + HourMax
    BY Zenon, <1>1, <2>4, <2>5
  <2>8. (IF devices'[d].sameHour THEN devices'[d].count ELSE 0) = 0
    BY Zenon, <1>3
  <2>9. hourly'[d] <= (k + HourMax) + 0
    BY <1>1, <2>1, <2>6, PushConstants
  <2> QED
    BY Zenon, <2>7, <2>8, <2>9
<1> QED
  BY <1>4, <1>5, <1>6, <1>7 DEF PushInv

LEMMA TickInv == ASSUME PushInv, Tick PROVE PushInv'
<1>1. /\ devices' = [d \in Device |->
           IF devices[d].age < Window THEN [devices[d] EXCEPT !.age = @ + 1] ELSE devices[d]]
      /\ notifyPc' = notifyPc /\ notifyDone' = notifyDone /\ waiting' = waiting
      /\ hourly' = hourly /\ stops' = stops
  BY DEF Tick
<1>2. PushTyped
  BY DEF PushInv
<1>3. ASSUME NEW d \in Device
      PROVE  /\ devices'[d] \in DeviceState
             /\ devices'[d].badge = devices[d].badge /\ devices'[d].count = devices[d].count
             /\ devices'[d].sameHour = devices[d].sameHour
             /\ devices[d].age = Window => devices'[d].age = Window
  <2>1. PICK st \in DeviceState : st = devices[d]
    BY <1>2 DEF PushTyped
  <2>2. CASE st.age < Window
    <3>1. PICK a \in Ages : a = st.age + 1
      BY <2>2, PushConstants DEF DeviceState, Ages
    <3>2. devices'[d] = [st EXCEPT !.age = a]
      BY Zenon, <1>1, <2>1, <2>2, <3>1
    <3>3. devices'[d] \in DeviceState
      BY <3>2 DEF DeviceState
    <3>4. devices'[d].badge = st.badge /\ devices'[d].count = st.count
      BY <3>2 DEF DeviceState
    <3>5. devices'[d].sameHour = st.sameHour
      BY <3>2 DEF DeviceState
    <3>6. st.age # Window
      BY <2>2, StateRanges, PushConstants DEF DeviceState
    <3> QED
      BY Zenon, <2>1, <3>3, <3>4, <3>5, <3>6
  <2>3. CASE ~(st.age < Window)
    <3>1. devices'[d] = st
      BY Zenon, <1>1, <2>1, <2>3
    <3> QED
      BY Zenon, <2>1, <3>1
  <2> QED
    BY <2>2, <2>3
<1>4. devices' \in [Device -> DeviceState]
  BY <1>1, <1>3
<1>5. PushTyped'
  BY <1>1, <1>2, <1>4 DEF PushTyped
<1>6. TakenOnly' /\ AgainAfresh'
  BY Zenon, <1>1, <1>3 DEF TakenOnly, AgainAfresh, PushInv
<1>7. BadgeIsReal'
  BY Zenon, <1>1, <1>3 DEF BadgeIsReal, PushInv
<1>8. CountedPushes'
  BY ZenonT(60), <1>1, <1>3 DEF CountedPushes, PushInv
<1> QED
  BY <1>5, <1>6, <1>7, <1>8 DEF PushInv

LEMMA HourTurnsInv == ASSUME PushInv, HourTurns PROVE PushInv'
<1>1. /\ devices' = [d \in Device |-> [devices[d] EXCEPT !.sameHour = FALSE]]
      /\ hourly' = [d \in Device |-> 0]
      /\ notifyPc' = notifyPc /\ notifyDone' = notifyDone /\ waiting' = waiting /\ stops' = stops
  BY DEF HourTurns
<1>2. PushTyped
  BY DEF PushInv
<1>3. ASSUME NEW d \in Device
      PROVE  /\ devices'[d] \in DeviceState /\ ~devices'[d].sameHour
             /\ devices'[d].badge = devices[d].badge /\ devices'[d].age = devices[d].age
  <2>1. PICK st \in DeviceState : st = devices[d]
    BY <1>2 DEF PushTyped
  <2>2. PICK f \in Flags : f = FALSE
    BY Zenon DEF Flags
  <2>3. devices'[d] = [st EXCEPT !.sameHour = f]
    BY Zenon, <1>1, <2>1, <2>2
  <2>4. devices'[d] \in DeviceState /\ devices'[d].sameHour = f
    BY <2>3 DEF DeviceState
  <2>5. devices'[d].badge = st.badge /\ devices'[d].age = st.age
    BY <2>3 DEF DeviceState
  <2> QED
    BY Zenon, <2>1, <2>2, <2>4, <2>5
<1>4. devices' \in [Device -> DeviceState]
  BY <1>1, <1>3
<1>5. PushTyped'
  BY <1>1, <1>2, <1>4 DEF PushTyped
<1>6. TakenOnly' /\ AgainAfresh'
  BY Zenon, <1>1, <1>3 DEF TakenOnly, AgainAfresh, PushInv
<1>7. BadgeIsReal'
  BY Zenon, <1>1, <1>3 DEF BadgeIsReal, PushInv
<1>8. CountedPushes'
  <2> SUFFICES ASSUME NEW d \in Device
               PROVE  hourly'[d] <= HourMax * stops + (IF devices'[d].sameHour THEN devices'[d].count ELSE 0)
    BY Zenon, <1>1 DEF CountedPushes
  <2>1. PICK k \in Nat : k = HourMax * stops
    BY <1>2, PushConstants DEF PushTyped
  <2>2. hourly'[d] <= k + 0
    BY <1>1
  <2> QED
    BY Zenon, <1>3, <2>1, <2>2
<1> QED
  BY <1>5, <1>6, <1>7, <1>8 DEF PushInv

LEMMA PushInductive == PushInv /\ [PushNext]_pushVars => PushInv'
<1> SUFFICES ASSUME PushInv, [PushNext]_pushVars PROVE PushInv'
  OBVIOUS
<1>1. CASE PushNext
  BY Zenon, <1>1, IngestInv, CommitNotifyInv, StopInv, TickInv, HourTurnsInv, FlushInv DEF PushNext, PushRun
<1>2. CASE UNCHANGED pushVars
  BY Zenon, <1>2 DEF pushVars, PushInv, PushTyped, TakenOnly, AgainAfresh, BadgeIsReal, CountedPushes
<1> QED
  BY <1>1, <1>2

LEMMA PushFollows == PushInv => PushTypeOK /\ BadgeIsReal /\ HourlyLimit
<1> SUFFICES ASSUME PushInv PROVE PushTypeOK /\ BadgeIsReal /\ HourlyLimit
  OBVIOUS
<1>1. PushTyped /\ BadgeIsReal
  BY DEF PushInv
<1>2. ASSUME NEW d \in Device
      PROVE  /\ devices[d] \in [age : 0..Window, badge : 0..Len(Notify), count : 0..HourMax, sameHour : BOOLEAN]
             /\ hourly[d] <= HourMax * (1 + stops)
  <2>1. PICK st \in DeviceState : st = devices[d]
    BY <1>1 DEF PushTyped
  <2>2. /\ st.age \in Ages /\ st.badge \in Nat /\ st.count \in Counts /\ st.sameHour \in Flags
        /\ st = [age |-> st.age, badge |-> st.badge, count |-> st.count, sameHour |-> st.sameHour]
    BY DEF DeviceState
  <2>3. st.badge \in 0..Len(Notify)
    <3>1. st.badge <= Cardinality(waiting[d])
      BY Zenon, <1>1, <2>1 DEF BadgeIsReal
    <3>2. /\ IsFiniteSet(1..Len(Notify)) /\ Cardinality(1..Len(Notify)) = Len(Notify)
      BY CardOfInterval, PushConstants
    <3>3. Cardinality(waiting[d]) <= Len(Notify) /\ Cardinality(waiting[d]) \in Nat
      BY <1>1, <3>2, FS_Subset, NotesFinite DEF PushTyped
    <3> QED
      BY <2>2, <3>1, <3>3, PushConstants
  <2>4. st \in [age : Ages, badge : 0..Len(Notify), count : Counts, sameHour : Flags]
    <3>1. PICK B : B = 0..Len(Notify)
      OBVIOUS
    <3>2. st.badge \in B
      BY <2>3, <3>1
    <3>3. st \in [age : Ages, badge : B, count : Counts, sameHour : Flags]
      BY Zenon, <2>2, <3>2
    <3> QED
      BY Zenon, <3>1, <3>3
  <2>5. hourly[d] <= HourMax * (1 + stops)
    <3>1. PICK c \in Nat : c = (IF st.sameHour THEN st.count ELSE 0) /\ c <= HourMax
      BY <2>2, StateRanges, PushConstants
    <3>2. hourly[d] <= HourMax * stops + c
      BY Zenon, <2>1, <3>1 DEF CountedPushes, PushInv
    <3>3. stops \in Nat /\ hourly[d] \in Nat
      BY <1>1 DEF PushTyped
    <3>4. PICK k \in Nat : k = HourMax * stops
      BY <3>3, PushConstants
    <3>5. HourMax * (1 + stops) = k + HourMax
      BY <3>3, <3>4, PushConstants
    <3>6. hourly[d] <= k + HourMax
      BY <3>1, <3>2, <3>3, <3>4, PushConstants
    <3> QED
      BY Zenon, <3>5, <3>6
  <2> QED
    BY Zenon, <2>1, <2>4, <2>5 DEF Ages, Counts, Flags
<1>3. devices \in [Device -> [age : 0..Window, badge : 0..Len(Notify), count : 0..HourMax, sameHour : BOOLEAN]]
  <2>1. devices = [d \in Device |-> devices[d]]
    BY <1>1 DEF PushTyped
  <2>2. PICK S : S = [age : 0..Window, badge : 0..Len(Notify), count : 0..HourMax, sameHour : BOOLEAN]
    OBVIOUS
  <2>3. devices \in [Device -> S]
    BY Zenon, <1>2, <2>1, <2>2
  <2> QED
    BY Zenon, <2>2, <2>3
<1>4. \A d \in Device : waiting[d] \subseteq {n \in DOMAIN Notify : Notify[n] = d}
  <2>1. DOMAIN Notify = 1..Len(Notify)
    BY PushAssumption DEF PushAssumption
  <2> QED
    BY <1>1, <2>1 DEF PushTyped
<1>5. PushTypeOK
  BY Zenon, <1>1, <1>3, <1>4 DEF PushTypeOK, PushTyped
<1> QED
  BY Zenon, <1>1, <1>2, <1>5 DEF HourlyLimit

(***************************************************************************)
(* push.go: the badge never says more than what has arrived since the      *)
(* device was last told, and no device gets more than HourMax pushes in an *)
(* hour but for a restart, over failed calls of the vendor, pushes held    *)
(* back, crashes and notifications that come again.                        *)
(***************************************************************************)
THEOREM PushLimits == PushSpec => [](BadgeIsReal /\ HourlyLimit)
<1> QED
  BY PushInitInv, PushInductive, PushFollows, PTL DEF PushSpec

-----------------------------------------------------------------------------
\* What is left of the statements of a request after the first of them.
LEMMA NextStatement ==
  ASSUME NEW t \in Todo, t # <<>>
  PROVE  /\ Head(t) \in Row /\ Tail(t) \in Todo
         /\ \A r \in Row : Tail(t) \in {<<>>, <<3 - r>>} /\ r # Head(t) => t \in {<<>>, <<3 - r>>}
<1>1. CASE t = <<1>>
  <2>1. Head(t) = 1 /\ Tail(t) = <<>>
    BY <1>1
  <2> QED
    BY <1>1, <2>1 DEF Todo, Row
<1>2. CASE t = <<2>>
  <2>1. Head(t) = 2 /\ Tail(t) = <<>>
    BY <1>2
  <2> QED
    BY <1>2, <2>1 DEF Todo, Row
<1>3. CASE t = <<1, 2>>
  <2>1. Head(t) = 1 /\ Tail(t) = <<2>>
    BY <1>3
  <2>2. <<2>> # <<1>> /\ <<2>> # <<>>
    OBVIOUS
  <2> QED
    BY <2>1, <2>2 DEF Todo, Row
<1>4. CASE t = <<2, 1>>
  <2>1. Head(t) = 2 /\ Tail(t) = <<1>>
    BY <1>4
  <2>2. <<1>> # <<2>> /\ <<1>> # <<>>
    OBVIOUS
  <2> QED
    BY <2>1, <2>2 DEF Todo, Row
<1> QED
  BY <1>1, <1>2, <1>3, <1>4 DEF Todo

LEMMA FriendsRequest ==
  ASSUME FriendsTyped, NEW q \in Req
  PROVE  /\ ftx[q] = [pc |-> ftx[q].pc, todo |-> ftx[q].todo]
         /\ ftx[q].pc \in {"new", "run", "wait", "done", "failed"} /\ ftx[q].todo \in Todo
         /\ HasStatement(q) => Target(q) \in Row /\ Next1(q) \in [pc : {"run"}, todo : Todo]
<1>1. /\ ftx[q] = [pc |-> ftx[q].pc, todo |-> ftx[q].todo]
      /\ ftx[q].pc \in {"new", "run", "wait", "done", "failed"} /\ ftx[q].todo \in Todo
  BY DEF FriendsTyped
<1>2. ASSUME HasStatement(q)
      PROVE  Target(q) \in Row /\ Next1(q) \in [pc : {"run"}, todo : Todo]
  BY <1>1, <1>2, NextStatement DEF HasStatement, Target, Next1
<1> QED
  BY <1>1, <1>2

LEMMA FriendsInitInv == FriendsInit => FriendsInv
<1> SUFFICES ASSUME FriendsInit PROVE FriendsInv
  OBVIOUS
<1>1. /\ friends \in {{}, Row} /\ mixed = FALSE
      /\ \A r \in Row : holder[r] = NoReq
      /\ \A q \in Req : ftx[q].pc = "new" /\ ~Active(q)
  BY DEF FriendsInit, Active
<1>2. FriendsTyped
  BY Zenon, <1>1 DEF FriendsInit, FriendsTyped, Todo
<1>3. HolderOK
  BY <1>1, FriendsAssumption DEF HolderOK, FriendsAssumption
<1>4. WaitOK /\ OneKind /\ HandledOK /\ FriendsAgree
  BY <1>1 DEF WaitOK, OneKind, HandledOK, FriendsAgree
<1> QED
  BY <1>2, <1>3, <1>4 DEF FriendsInv

LEMMA BeginFriendsInv == ASSUME FriendsInv, NEW q \in Req, BeginFriends(q) PROVE FriendsInv'
<1>1. FriendsTyped /\ HolderOK /\ WaitOK /\ OneKind /\ HandledOK /\ FriendsAgree
  BY DEF FriendsInv
<1>2. PICK r \in Row : ftx' = [ftx EXCEPT ![q] = [pc |-> "run", todo |-> <<r, 3 - r>>]]
  BY Zenon DEF BeginFriends
<1>3. PICK t \in Todo : t = <<r, 3 - r>> /\ \A h \in Row : t \notin {<<>>, <<3 - h>>}
  BY DEF Row, Todo
<1>4. /\ friends' = friends /\ holder' = holder /\ ~Active(q)
      /\ mixed' = (mixed \/ \E o \in Req : Active(o) /\ Kind[o] # Kind[q])
  BY DEF BeginFriends, Active
<1>5. /\ ftx' \in [Req -> [pc : {"new", "run", "wait", "done", "failed"}, todo : Todo]]
      /\ ftx'[q].pc = "run" /\ ftx'[q].todo = t
      /\ \A o \in Req \ {q} : ftx'[o] = ftx[o]
  BY <1>1, <1>2, <1>3 DEF FriendsTyped
<1>6. Active(q)' /\ \A o \in Req \ {q} : (Active(o)' <=> Active(o)) /\ Target(o)' = Target(o)
  BY <1>5 DEF Active, Target
<1>7. FriendsTyped'
  BY <1>1, <1>4, <1>5 DEF FriendsTyped
<1>8. HolderOK' /\ WaitOK'
  <2>1. \A h \in Row : holder[h] # q
    BY <1>1, <1>4, FriendsAssumption DEF HolderOK, FriendsAssumption
  <2>2. HolderOK'
    BY <1>1, <1>4, <1>6, <2>1 DEF HolderOK, FriendsTyped
  <2>3. WaitOK'
    BY <1>1, <1>4, <1>5, <1>6 DEF WaitOK
  <2> QED
    BY <2>2, <2>3
<1>9. OneKind'
  BY Zenon, <1>1, <1>4, <1>6 DEF OneKind
<1>10. HandledOK'
  BY ZenonT(60), <1>1, <1>3, <1>4, <1>5, <1>6 DEF HandledOK, Handled
<1>11. FriendsAgree'
  BY Zenon, <1>1, <1>4 DEF FriendsAgree
<1> QED
  BY <1>7, <1>8, <1>9, <1>10, <1>11 DEF FriendsInv

(***************************************************************************)
(* A statement of a running request is done: it holds its row, or has      *)
(* found it as it wants it.                                                *)
(***************************************************************************)
LEMMA StatementInv ==
  ASSUME FriendsInv, NEW q \in Req, InsertRow(q) \/ DeleteRow(q)
  PROVE  FriendsInv'
<1>1. FriendsTyped /\ HolderOK /\ WaitOK /\ OneKind /\ HandledOK /\ FriendsAgree
  BY DEF FriendsInv
<1>2. /\ HasStatement(q) /\ friends' = friends /\ mixed' = mixed
      /\ ftx' = [ftx EXCEPT ![q] = Next1(q)]
  BY DEF InsertRow, DeleteRow
<1>3. PICK t \in Row : t = Target(q)
  BY Zenon, <1>1, <1>2, FriendsRequest
<1>4. Kind[q] \in {"create", "delete"} /\ NoReq \notin Req
  BY FriendsAssumption DEF FriendsAssumption
<1>5. \/ holder' = holder /\ (t \in friends <=> Kind[q] = "create")
      \/ /\ holder' = [holder EXCEPT ![t] = q] /\ (t \in friends <=> Kind[q] = "delete")
         /\ holder[t] = NoReq
  BY <1>2, <1>3, <1>4 DEF InsertRow, DeleteRow, InTheWay
<1>6. /\ \A r \in Row \ {t} : holder'[r] = holder[r]
      /\ holder' \in [Row -> Req \cup {NoReq}]
      /\ \/ holder'[t] = holder[t] /\ (t \in friends <=> Kind[q] = "create")
         \/ /\ holder'[t] = q /\ (t \in friends <=> Kind[q] = "delete")
            /\ holder[t] = NoReq
  BY <1>1, <1>5 DEF FriendsTyped
<1>7. PICK x \in [pc : {"run"}, todo : Todo] : x = Next1(q) /\ x.todo = Tail(ftx[q].todo)
  BY Zenon, <1>1, <1>2, FriendsRequest DEF Next1
<1>8. /\ ftx' \in [Req -> [pc : {"new", "run", "wait", "done", "failed"}, todo : Todo]]
      /\ ftx'[q].pc = "run" /\ ftx'[q].todo = Tail(ftx[q].todo)
      /\ \A o \in Req \ {q} : ftx'[o] = ftx[o]
  BY <1>1, <1>2, <1>7 DEF FriendsTyped
<1>9. /\ Active(q) /\ Active(q)' /\ ftx[q].todo # <<>>
      /\ \A o \in Req \ {q} : (Active(o)' <=> Active(o)) /\ Target(o)' = Target(o)
  BY <1>2, <1>8 DEF HasStatement, Active, Target
<1>10. FriendsTyped'
  BY <1>1, <1>2, <1>6, <1>8 DEF FriendsTyped
<1>11. HolderOK'
  <2> SUFFICES ASSUME NEW r \in Row, NEW o \in Req, holder'[r] = o
               PROVE  Active(o)' /\ (r \in friends <=> Kind[o] = "delete")
    BY <1>2 DEF HolderOK
  <2>1. CASE holder[r] = o
    <3>1. Active(o) /\ (r \in friends <=> Kind[o] = "delete")
      BY <1>1, <2>1 DEF HolderOK
    <3> QED
      BY <1>9, <3>1
  <2>2. CASE holder[r] # o
    BY <1>6, <1>9, <2>2
  <2> QED
    BY <2>1, <2>2
<1>12. WaitOK'
  <2> SUFFICES ASSUME NEW o \in Req, ftx'[o].pc = "wait"
               PROVE  /\ Kind[o] = "delete" /\ ftx'[o].todo # <<>>
                      /\ Target(o)' \in friends /\ holder'[Target(o)'] # NoReq
    BY <1>2 DEF WaitOK, Target
  <2>1. o # q /\ ftx'[o] = ftx[o] /\ Target(o)' = Target(o)
    BY <1>8, <1>9
  <2>2. PICK r \in Row : r = Target(o) /\ r \in friends /\ holder[r] # NoReq
    BY <1>1, <2>1 DEF WaitOK, FriendsTyped
  <2>3. holder'[r] # NoReq
    BY <1>4, <1>6, <2>2
  <2> QED
    BY <1>1, <2>1, <2>2, <2>3 DEF WaitOK
<1>13. OneKind'
  BY <1>1, <1>2, <1>9 DEF OneKind
<1>14. HandledOK'
  <2> SUFFICES ASSUME ~mixed, NEW o \in Req, NEW r \in Row, Active(o)', Handled(o, r)'
               PROVE  holder'[r] = o \/ (r \in friends <=> Kind[o] = "create")
    BY <1>2 DEF HandledOK
  <2>1. CASE o # q
    <3>1. Active(o) /\ Handled(o, r)
      BY <1>8, <1>9, <2>1 DEF Handled
    <3>2. holder[r] = o \/ (r \in friends <=> Kind[o] = "create")
      BY <1>1, <3>1 DEF HandledOK
    <3> QED
      BY <1>4, <1>6, <3>2
  <2>2. CASE o = q /\ r # t
    <3>1. ftx[q].todo \in {<<>>, <<3 - r>>}
      BY Zenon, <1>1, <1>3, <1>8, <1>9, <2>2, FriendsRequest, NextStatement DEF Handled, Target
    <3> QED
      BY <1>1, <1>6, <1>9, <2>2, <3>1 DEF HandledOK, Handled
  <2>3. CASE o = q /\ r = t
    BY <1>6, <2>3
  <2> QED
    BY <2>1, <2>2, <2>3
<1> QED
  BY <1>1, <1>2, <1>10, <1>11, <1>12, <1>13, <1>14 DEF FriendsInv, FriendsAgree

LEMMA DeleteWaitsInv == ASSUME FriendsInv, NEW q \in Req, DeleteWaits(q) PROVE FriendsInv'
<1>1. FriendsTyped /\ HolderOK /\ WaitOK /\ OneKind /\ HandledOK /\ FriendsAgree
  BY DEF FriendsInv
<1>2. /\ HasStatement(q) /\ Kind[q] = "delete" /\ InTheWay(q) # NoReq
      /\ friends' = friends /\ holder' = holder /\ mixed' = mixed
      /\ ftx' = [ftx EXCEPT ![q].pc = "wait"]
  BY DEF DeleteWaits
<1>3. Target(q) \in friends /\ holder[Target(q)] # NoReq
  BY <1>2 DEF InTheWay
<1>4. /\ ftx' \in [Req -> [pc : {"new", "run", "wait", "done", "failed"}, todo : Todo]]
      /\ ftx'[q].pc = "wait" /\ \A o \in Req : ftx'[o].todo = ftx[o].todo
      /\ \A o \in Req \ {q} : ftx'[o] = ftx[o]
  BY <1>1, <1>2 DEF FriendsTyped
<1>5. /\ ftx[q].todo # <<>> /\ \A o \in Req : (Active(o)' <=> Active(o)) /\ Target(o)' = Target(o)
      /\ \A o \in Req, r \in Row : Handled(o, r)' <=> Handled(o, r)
  BY <1>2, <1>4 DEF HasStatement, Active, Target, Handled
<1>6. FriendsTyped' /\ WaitOK'
  BY <1>1, <1>2, <1>3, <1>4, <1>5 DEF FriendsTyped, WaitOK
<1>7. HolderOK'
  BY <1>1, <1>2, <1>5 DEF HolderOK, FriendsTyped
<1> QED
  BY <1>1, <1>2, <1>5, <1>6, <1>7 DEF FriendsInv, OneKind, HandledOK, FriendsAgree

(***************************************************************************)
(* The end of a transaction: its rows are free, and those who waited for   *)
(* one of them go on, past their statement or at it again.                 *)
(***************************************************************************)
LEMMA OverDoes ==
  ASSUME FriendsInv, NEW q \in Req, NEW result \in {"done", "failed"}, NEW gone, Over(q, result, gone)
  PROVE  /\ mixed' = mixed /\ holder' \in [Row -> Req \cup {NoReq}]
         /\ \A r \in Row : holder'[r] = IF holder[r] = q THEN NoReq ELSE holder[r]
         /\ ftx' \in [Req -> [pc : {"new", "run", "wait", "done", "failed"}, todo : Todo]]
         /\ ~Active(q)'
         /\ \A o \in Req \ {q} :
              /\ Active(o)' <=> Active(o)
              /\ ftx'[o].pc = "wait" =>
                   ftx[o].pc = "wait" /\ ftx'[o] = ftx[o] /\ holder[Target(o)] # q
              /\ \/ ftx'[o].todo = ftx[o].todo
                 \/ /\ gone /\ ftx[o].pc = "wait" /\ holder[Target(o)] = q
                    /\ ftx'[o].todo = Tail(ftx[o].todo)
<1>1. FriendsTyped /\ WaitOK /\ HolderOK
  BY DEF FriendsInv
<1>2. /\ mixed' = mixed
      /\ holder' = [r \in Row |-> IF holder[r] = q THEN NoReq ELSE holder[r]]
      /\ ftx' = [o \in Req |->
           IF o = q THEN [pc |-> result, todo |-> <<>>]
           ELSE IF ftx[o].pc = "wait" /\ Target(o) \in Held(q)
           THEN IF gone THEN Next1(o) ELSE [ftx[o] EXCEPT !.pc = "run"]
           ELSE ftx[o]]
  BY DEF Over
<1>3. /\ holder' \in [Row -> Req \cup {NoReq}]
      /\ \A r \in Row : holder'[r] = IF holder[r] = q THEN NoReq ELSE holder[r]
  BY <1>1, <1>2 DEF FriendsTyped
<1>4. ftx'[q] = [pc |-> result, todo |-> <<>>] /\ <<>> \in Todo
  BY <1>2 DEF Todo
<1>5. ASSUME NEW o \in Req \ {q}
      PROVE  /\ ftx'[o] \in [pc : {"new", "run", "wait", "done", "failed"}, todo : Todo]
             /\ Active(o)' <=> Active(o)
             /\ ftx'[o].pc = "wait" =>
                  ftx[o].pc = "wait" /\ ftx'[o] = ftx[o] /\ holder[Target(o)] # q
             /\ \/ ftx'[o].todo = ftx[o].todo
                \/ /\ gone /\ ftx[o].pc = "wait" /\ holder[Target(o)] = q
                   /\ ftx'[o].todo = Tail(ftx[o].todo)
  <2>1. /\ ftx[o] = [pc |-> ftx[o].pc, todo |-> ftx[o].todo]
        /\ ftx[o].pc \in {"new", "run", "wait", "done", "failed"} /\ ftx[o].todo \in Todo
    BY <1>1, FriendsRequest
  <2>2. ASSUME ftx[o].pc = "wait"
        PROVE  /\ HasStatement(o) /\ Target(o) \in Row
               /\ Target(o) \in Held(q) <=> holder[Target(o)] = q
    <3>1. HasStatement(o)
      BY <1>1, <2>2 DEF WaitOK, HasStatement, Active
    <3> QED
      BY Zenon, <1>1, <3>1, FriendsRequest DEF Held
  <2>3. CASE ftx[o].pc = "wait" /\ Target(o) \in Held(q) /\ gone
    <3>1. ftx'[o] = Next1(o)
      BY <1>2, <2>3
    <3>a. Next1(o) \in [pc : {"run"}, todo : Todo]
      BY Zenon, <1>1, <2>2, <2>3, FriendsRequest
    <3>2. ftx'[o].pc = "run" /\ ftx'[o].todo = Tail(ftx[o].todo) /\ Next1(o) \in [pc : {"run"}, todo : Todo]
      BY <3>1, <3>a DEF Next1
    <3> QED
      BY <2>2, <2>3, <3>1, <3>2 DEF Active
  <2>4. CASE ftx[o].pc = "wait" /\ Target(o) \in Held(q) /\ ~gone
    <3>1. ftx'[o] = [ftx[o] EXCEPT !.pc = "run"]
      BY <1>2, <2>4
    <3>2. ftx'[o].pc = "run" /\ ftx'[o].todo = ftx[o].todo
          /\ ftx'[o] \in [pc : {"new", "run", "wait", "done", "failed"}, todo : Todo]
      BY <2>1, <3>1
    <3> QED
      BY <2>4, <3>2 DEF Active
  <2>5. CASE ~(ftx[o].pc = "wait" /\ Target(o) \in Held(q))
    <3>1. ftx'[o] = ftx[o]
      BY <1>2, <2>5
    <3>2. ftx'[o] \in [pc : {"new", "run", "wait", "done", "failed"}, todo : Todo]
      BY <1>1, <3>1 DEF FriendsTyped
    <3> QED
      BY <2>2, <2>5, <3>1, <3>2 DEF Active
  <2> QED
    BY <2>3, <2>4, <2>5
<1>6. ftx' \in [Req -> [pc : {"new", "run", "wait", "done", "failed"}, todo : Todo]]
  <2>1. ftx' = [o \in Req |-> ftx'[o]]
    BY <1>2
  <2>2. ftx'[q] \in [pc : {"new", "run", "wait", "done", "failed"}, todo : Todo]
    BY <1>4
  <2> QED
    BY <1>5, <2>1, <2>2
<1>7. ~Active(q)'
  BY <1>4 DEF Active
<1> QED
  BY <1>2, <1>3, <1>5, <1>6, <1>7

LEMMA OverInv ==
  ASSUME FriendsInv, NEW q \in Req, Active(q), NEW result \in {"done", "failed"}, NEW gone,
         Over(q, result, gone), friends' \subseteq Row,
         \A r \in Row : holder[r] # q => (r \in friends' <=> r \in friends),
         \A r \in Row : gone /\ holder[r] = q => (r \in friends' <=> Kind[q] = "create"),
         ~gone => friends' = friends,
         FriendsAgree'
  PROVE  FriendsInv'
<1>1. FriendsTyped /\ HolderOK /\ WaitOK /\ OneKind /\ HandledOK
  BY DEF FriendsInv
<1>2. /\ mixed' = mixed /\ holder' \in [Row -> Req \cup {NoReq}]
      /\ \A r \in Row : holder'[r] = IF holder[r] = q THEN NoReq ELSE holder[r]
      /\ ftx' \in [Req -> [pc : {"new", "run", "wait", "done", "failed"}, todo : Todo]]
      /\ ~Active(q)'
  BY OverDoes
<1>3. \A o \in Req \ {q} :
        /\ Active(o)' <=> Active(o)
        /\ ftx'[o].pc = "wait" => ftx[o].pc = "wait" /\ ftx'[o] = ftx[o] /\ holder[Target(o)] # q
        /\ \/ ftx'[o].todo = ftx[o].todo
           \/ /\ gone /\ ftx[o].pc = "wait" /\ holder[Target(o)] = q
              /\ ftx'[o].todo = Tail(ftx[o].todo)
  BY OverDoes
<1>4. NoReq \notin Req /\ Kind \in [Req -> {"create", "delete"}]
  BY FriendsAssumption DEF FriendsAssumption
<1>5. FriendsTyped'
  BY <1>1, <1>2 DEF FriendsTyped
<1>6. HolderOK'
  <2> SUFFICES ASSUME NEW r \in Row, NEW o \in Req, holder'[r] = o
               PROVE  Active(o)' /\ (r \in friends' <=> Kind[o] = "delete")
    BY DEF HolderOK
  <2>1. o = holder[r] /\ o # q
    BY <1>2, <1>4
  <2>2. Active(o) /\ (r \in friends <=> Kind[o] = "delete")
    BY <1>1, <1>4, <2>1 DEF HolderOK
  <2>3. Active(o)'
    BY <1>3, <2>1, <2>2
  <2> QED
    BY <2>1, <2>2, <2>3
<1>7. WaitOK'
  <2> SUFFICES ASSUME NEW o \in Req, ftx'[o].pc = "wait"
               PROVE  /\ Kind[o] = "delete" /\ ftx'[o].todo # <<>>
                      /\ Target(o)' \in friends' /\ holder'[Target(o)'] # NoReq
    BY DEF WaitOK, Target
  <2>1. o # q
    BY <1>2 DEF Active
  <2>2. ftx[o].pc = "wait" /\ ftx'[o] = ftx[o] /\ holder[Target(o)] # q
    BY <1>3, <2>1
  <2>3. Target(o)' = Target(o)
    BY <2>2 DEF Target
  <2>4. /\ Kind[o] = "delete" /\ ftx[o].todo # <<>> /\ Target(o) \in friends
        /\ Target(o) \in Row /\ holder[Target(o)] # NoReq
    BY <1>1, <2>2 DEF WaitOK, FriendsTyped
  <2> QED
    BY <1>2, <2>2, <2>3, <2>4
<1>8. OneKind'
  BY <1>1, <1>2, <1>3 DEF OneKind
<1>9. HandledOK'
  <2> SUFFICES ASSUME ~mixed, NEW o \in Req, NEW r \in Row, Active(o)', Handled(o, r)'
               PROVE  holder'[r] = o \/ (r \in friends' <=> Kind[o] = "create")
    BY <1>2 DEF HandledOK
  <2>1. o # q /\ Active(o)
    BY <1>2, <1>3
  <2>2. Kind[o] = Kind[q]
    BY <1>1, <2>1 DEF OneKind
  <2>3. CASE gone /\ holder[r] = q
    BY <2>2, <2>3
  <2>4. CASE ~(gone /\ holder[r] = q)
    <3>1. Handled(o, r)
      <4>1. CASE ftx'[o].todo = ftx[o].todo
        BY <4>1 DEF Handled
      <4>2. CASE gone /\ ftx[o].pc = "wait" /\ holder[Target(o)] = q /\ ftx'[o].todo = Tail(ftx[o].todo)
        <5>1. ftx[o].todo \in Todo /\ ftx[o].todo # <<>> /\ r # Head(ftx[o].todo)
          BY Zenon, <1>1, <2>4, <4>2, FriendsRequest DEF WaitOK, Target
        <5> QED
          BY <4>2, <5>1, NextStatement DEF Handled
      <4> QED
        BY <1>3, <2>1, <4>1, <4>2
    <3>2. holder[r] = o \/ (r \in friends <=> Kind[o] = "create")
      BY <1>1, <2>1, <3>1 DEF HandledOK
    <3>3. r \in friends' <=> r \in friends
      BY <2>4
    <3> QED
      BY <1>2, <2>1, <3>2, <3>3
  <2> QED
    BY <2>3, <2>4
<1> QED
  BY <1>5, <1>6, <1>7, <1>8, <1>9 DEF FriendsInv

LEMMA CommitFriendsInv == ASSUME FriendsInv, NEW q \in Req, CommitFriends(q) PROVE FriendsInv'
<1>1. FriendsTyped /\ HandledOK
  BY DEF FriendsInv
<1>2. /\ ftx[q].todo = <<>> /\ Active(q) /\ Over(q, "done", TRUE)
      /\ friends' = IF Kind[q] = "create" THEN friends \cup Held(q) ELSE friends \ Held(q)
  BY Zenon DEF CommitFriends, Active
<1>3. /\ friends' \subseteq Row
      /\ \A r \in Row : holder[r] # q => (r \in friends' <=> r \in friends)
      /\ \A r \in Row : holder[r] = q => (r \in friends' <=> Kind[q] = "create")
  BY <1>1, <1>2 DEF Held, FriendsTyped
<1>4. mixed' = mixed
  BY <1>2 DEF Over
<1>5. FriendsAgree'
  <2> SUFFICES ASSUME ~mixed PROVE friends' \in {{}, Row}
    BY <1>4 DEF FriendsAgree
  <2>1. \A r \in Row : r \in friends' <=> Kind[q] = "create"
    BY <1>1, <1>2, <1>3 DEF HandledOK, Handled
  <2> QED
    BY <1>3, <2>1
<1> QED
  BY Zenon, <1>2, <1>3, <1>5, OverInv

LEMMA RollbackFriendsInv == ASSUME FriendsInv, NEW q \in Req, RollbackFriends(q) PROVE FriendsInv'
<1>1. Active(q) /\ Over(q, "failed", FALSE) /\ friends' = friends /\ friends \subseteq Row
  BY Zenon DEF RollbackFriends, FriendsInv, FriendsTyped
<1>2. mixed' = mixed
  BY <1>1 DEF Over
<1>3. FriendsAgree'
  BY <1>1, <1>2 DEF FriendsAgree, FriendsInv
<1> QED
  BY Zenon, <1>1, <1>3, OverInv

LEMMA FriendsInductive == FriendsInv /\ [FriendsNext]_friendsVars => FriendsInv'
<1> SUFFICES ASSUME FriendsInv, [FriendsNext]_friendsVars PROVE FriendsInv'
  OBVIOUS
<1>1. CASE FriendsNext
  BY Zenon, <1>1, BeginFriendsInv, StatementInv, DeleteWaitsInv, CommitFriendsInv, RollbackFriendsInv
     DEF FriendsNext, HandleFriends, FriendsDeadlock
<1>2. CASE UNCHANGED friendsVars
  BY ZenonT(60), <1>2 DEF friendsVars, FriendsInv, FriendsTyped, HolderOK, WaitOK, OneKind, HandledOK,
                     FriendsAgree, Active, Target, Handled
<1> QED
  BY <1>1, <1>2

LEMMA FriendsFollows == FriendsInv => FriendsTypeOK /\ FriendsAgree
<1> SUFFICES ASSUME FriendsInv PROVE FriendsTypeOK
  BY DEF FriendsInv
<1>1. FriendsTyped /\ HolderOK /\ WaitOK
  BY DEF FriendsInv
<1>2. ASSUME NEW q \in Req
      PROVE  /\ ftx[q].pc \in {"new", "run", "wait", "done", "failed"}
             /\ Held(q) # {} => Active(q)
             /\ ftx[q].pc = "wait" => InTheWay(q) # NoReq
  <2>1. ftx[q].pc \in {"new", "run", "wait", "done", "failed"}
    BY Zenon, <1>1, FriendsRequest
  <2>2. Held(q) # {} => Active(q)
    BY <1>1, FriendsAssumption DEF Held, HolderOK, FriendsAssumption
  <2>3. ftx[q].pc = "wait" => InTheWay(q) # NoReq
    BY <1>1 DEF WaitOK, InTheWay, HasStatement, Active
  <2> QED
    BY <2>1, <2>2, <2>3
<1> QED
  BY <1>1, <1>2 DEF FriendsTypeOK, FriendsTyped

(***************************************************************************)
(* friend.go:23: friendship goes both ways, over requests of both users at *)
(* the same time, deadlocks and failures between the two rows, as long as  *)
(* no creation has run beside a deletion.                                  *)
(***************************************************************************)
THEOREM FriendshipIsMutual == FriendsSpec => []FriendsAgree
<1> QED
  BY FriendsInitInv, FriendsInductive, FriendsFollows, PTL DEF FriendsSpec

-----------------------------------------------------------------------------
LEMMA RegistryInitInv == RegistryInit => RegistryInv
<1> SUFFICES ASSUME RegistryInit PROVE RegistryInv
  OBVIOUS
<1>1. /\ reg = [s \in Service |-> [pc |-> "new", lease |-> 0, id |-> 0]]
      /\ live = [s \in Service |-> {}] /\ key = [s \in Service |-> 0]
      /\ gateway = [pc |-> "get", list |-> {}, events |-> <<>>, sink |-> {}]
      /\ missedKey = FALSE
  BY DEF RegistryInit, NoLease
<1>2. <<>> \in Events
  BY DEF Events
<1>3. gateway \in GatewayState /\ gateway.pc = "get" /\ gateway.events = <<>>
  BY <1>1, <1>2 DEF GatewayState, GatewayPc
<1>4. RegistryTyped
  BY Zenon, <1>1, <1>3 DEF RegistryTyped, Registration, Places
<1>5. LeasesOK
  BY <1>1 DEF LeasesOK, LeaseOK, NoLease
<1> QED
  BY <1>3, <1>4, <1>5 DEF RegistryInv, ListFollows

(***************************************************************************)
(* etcd changes the key of a service: with an open watch the event is the  *)
(* last of this service, before it nothing is missed if there was a key    *)
(* already.                                                                *)
(***************************************************************************)
LEMMA SetKeyDoes ==
  ASSUME RegistryTyped, ListFollows, NEW s \in Service, NEW l \in Nat, SetKey(s, l)
  PROVE  /\ key' \in [Service -> Nat] /\ key'[s] = l
         /\ \A t \in Service \ {s} : key'[t] = key[t]
         /\ gateway' \in GatewayState /\ missedKey' \in BOOLEAN /\ ListFollows'
<1>1. /\ key \in [Service -> Nat] /\ gateway \in GatewayState /\ missedKey \in BOOLEAN
      /\ key' = [key EXCEPT ![s] = l]
  BY DEF RegistryTyped, SetKey
<1>2. /\ key' \in [Service -> Nat] /\ key'[s] = l
      /\ \A t \in Service \ {s} : key'[t] = key[t]
  BY <1>1
<1>3. \A t \in Service \ {s} : HasKey(t)' <=> HasKey(t)
  BY <1>2 DEF HasKey
<1>4. HasKey(s)' <=> l # NoLease
  BY <1>2 DEF HasKey
<1>5. CASE gateway.pc = "watch"
  <2>1. PICK p \in Flags : p <=> l # NoLease
    BY Zenon DEF Flags
  <2>2. PICK e \in Event : e.of = s /\ e.put = p /\ e = [of |-> s, put |-> p]
    BY Zenon DEF Event
  <2>3. gateway' = [gateway EXCEPT !.events = Append(@, e)] /\ missedKey' = missedKey
    <3>1. gateway' = [gateway EXCEPT !.events = Append(@, [of |-> s, put |-> l # NoLease])] /\ missedKey' = missedKey
      BY <1>5 DEF SetKey
    <3>2. p = (l # NoLease)
      BY <2>1 DEF Flags
    <3> QED
      BY Zenon, <2>2, <3>1, <3>2
  <2>4. gateway.events \in Seq(Event)
    BY <1>1 DEF GatewayState, Events
  <2>a. Append(gateway.events, e) \in Events
    BY <2>4 DEF Events
  <2>5. PICK evs \in Events : evs = Append(gateway.events, e)
    BY Zenon, <2>a
  <2>6. /\ gateway' \in GatewayState /\ gateway'.pc = "watch"
        /\ gateway'.events = evs /\ gateway'.list = gateway.list
    BY Zenon, <1>1, <1>5, <2>3, <2>5 DEF GatewayState
  <2>7. PICK n \in Nat : n = Len(gateway.events)
    BY <2>4
  <2>8. /\ DOMAIN gateway.events = 1..n /\ DOMAIN evs = 1..(n + 1)
        /\ evs[n + 1] = e /\ \A j \in 1..n : evs[j] = gateway.events[j]
    BY <2>4, <2>5, <2>7
  <2>9. ASSUME ~missedKey, NEW t \in Service PROVE Followed(t)'
    <3>1. CASE t = s
      <4>1. LastEvent(t, n + 1)'
        BY <2>2, <2>6, <2>8, <3>1 DEF LastEvent
      <4>2. evs[n + 1].put <=> HasKey(t)'
        BY <1>4, <2>1, <2>2, <2>8, <3>1
      <4> QED
        BY <2>6, <2>8, <4>1, <4>2 DEF Followed
    <3>2. CASE t # s
      <4>1. Followed(t)
        BY <1>5, <2>9 DEF ListFollows
      <4>2. CASE /\ \A j \in DOMAIN gateway.events : gateway.events[j].of # t
                 /\ t \in gateway.list <=> HasKey(t)
        <5>1. \A j \in DOMAIN evs : evs[j].of # t
          BY <2>2, <2>8, <3>2, <4>2
        <5> QED
          BY <1>3, <2>6, <3>2, <4>2, <5>1 DEF Followed
      <4>3. ASSUME NEW k \in DOMAIN gateway.events, LastEvent(t, k), gateway.events[k].put <=> HasKey(t)
            PROVE  Followed(t)'
        <5>1. k \in 1..n /\ evs[k] = gateway.events[k]
          BY <2>8, <4>3
        <5>2. k \in DOMAIN evs /\ evs[k].of = t /\ \A j \in DOMAIN evs : evs[j].of = t => j <= k
          BY <2>2, <2>8, <3>2, <4>3, <5>1 DEF LastEvent
        <5> QED
          BY <1>3, <2>6, <3>2, <4>3, <5>1, <5>2 DEF Followed, LastEvent
      <4> QED
        BY <4>1, <4>2, <4>3 DEF Followed
    <3> QED
      BY <3>1, <3>2
  <2> QED
    BY <1>1, <1>2, <2>3, <2>6, <2>9 DEF ListFollows
<1>6. CASE gateway.pc # "watch"
  <2>1. /\ gateway' = gateway /\ gateway.events = <<>>
        /\ missedKey' = (missedKey \/ (gateway.pc = "gap" /\ (key[s] = NoLease) # (l = NoLease)))
    BY <1>6 DEF SetKey, ListFollows
  <2>2. ASSUME gateway.pc = "gap", ~missedKey', NEW t \in Service PROVE Followed(t)'
    <3>1. HasKey(t)' <=> HasKey(t)
      BY Zenon, <1>3, <1>4, <2>1, <2>2 DEF HasKey
    <3>2. Followed(t)
      BY Zenon, <2>1, <2>2 DEF ListFollows
    <3> QED
      BY <2>1, <3>1, <3>2 DEF Followed, LastEvent
  <2> QED
    BY <1>1, <1>2, <1>6, <2>1, <2>2 DEF ListFollows
<1> QED
  BY <1>5, <1>6

\* One service has moved; the others are as they were.
LEMMA OneService ==
  ASSUME RegistryTyped, LeasesOK, NEW s \in Service,
         reg' \in [Service -> Registration], live' \in [Service -> SUBSET Nat], key' \in [Service -> Nat],
         gateway' \in GatewayState, missedKey' \in BOOLEAN, ListFollows',
         \A t \in Service \ {s} : reg'[t] = reg[t] /\ live'[t] = live[t] /\ key'[t] = key[t],
         LeaseOK(s)'
  PROVE  RegistryInv'
<1>1. \A t \in Service : LeaseOK(t)'
  BY DEF LeasesOK, LeaseOK
<1> QED
  BY <1>1 DEF RegistryInv, RegistryTyped, LeasesOK

\* A service by its fields.
LEMMA RegistrationOf ==
  ASSUME RegistryTyped, NEW s \in Service
  PROVE  /\ reg[s].pc \in Places /\ reg[s].lease \in Nat /\ reg[s].id \in Nat
         /\ live[s] \subseteq Nat /\ key[s] \in Nat /\ NoLease \in Nat
  BY DEF RegistryTyped, Registration, NoLease

LEMMA RegistrationIs ==
  ASSUME NEW p \in Places, NEW l \in Nat, NEW i \in Nat
  PROVE  \E r \in Registration : /\ r = [pc |-> p, lease |-> l, id |-> i]
                                 /\ r.pc = p /\ r.lease = l /\ r.id = i
<1>1. [pc |-> p, lease |-> l, id |-> i] \in Registration
  BY DEF Registration
<1>2. /\ [pc |-> p, lease |-> l, id |-> i].pc = p /\ [pc |-> p, lease |-> l, id |-> i].lease = l
      /\ [pc |-> p, lease |-> l, id |-> i].id = i
  OBVIOUS
<1> QED
  BY Zenon, <1>1, <1>2

LEMMA ByFields ==
  ASSUME NEW r \in Registration
  PROVE  r = [pc |-> r.pc, lease |-> r.lease, id |-> r.id]
  BY DEF Registration

\* A change of the place alone.
LEMMA PlaceChanges ==
  ASSUME RegistryTyped, NEW s \in Service, NEW p \in Places
  PROVE  \E r \in Registration : /\ [reg EXCEPT ![s].pc = p] = [reg EXCEPT ![s] = r]
                                 /\ r.pc = p /\ r.lease = reg[s].lease /\ r.id = reg[s].id
<1>1. PICK x \in Registration : x = reg[s]
  BY DEF RegistryTyped
<1>2. x.pc \in Places /\ x.lease \in Nat /\ x.id \in Nat
  BY DEF Registration
<1>3. PICK r \in Registration : /\ r = [pc |-> p, lease |-> x.lease, id |-> x.id]
                                /\ r.pc = p /\ r.lease = x.lease /\ r.id = x.id
  BY <1>2, RegistrationIs
<1>4. [x EXCEPT !.pc = p] = r
  BY <1>3, ByFields
<1>5. [reg EXCEPT ![s].pc = p] = [reg EXCEPT ![s] = r]
  BY Zenon, <1>1, <1>4
<1> QED
  BY Zenon, <1>1, <1>3, <1>5

\* The service goes to another place, with a lease and an id.
LEMMA Moves ==
  ASSUME RegistryTyped, NEW s \in Service, NEW r \in Registration, reg' = [reg EXCEPT ![s] = r]
  PROVE  /\ reg' \in [Service -> Registration] /\ reg'[s] = r
         /\ \A t \in Service \ {s} : reg'[t] = reg[t]
  BY DEF RegistryTyped

LEMMA GrantInv == ASSUME RegistryInv, NEW s \in Service, Grant(s) PROVE RegistryInv'
<1>1. RegistryTyped /\ LeasesOK /\ ListFollows /\ LeaseOK(s)
  BY DEF RegistryInv, LeasesOK
<1>a. /\ reg[s].lease \in Nat /\ reg[s].id \in Nat /\ reg[s] \in Registration
      /\ live[s] \subseteq Nat /\ key[s] \in Nat
  BY <1>1, RegistrationOf DEF RegistryTyped
<1>2. PICK n \in Nat : n = reg[s].lease + 1
  BY <1>a
<1>b. PICK p \in Places : p = "put"
  BY DEF Places
<1>3. /\ live' = [live EXCEPT ![s] = @ \cup {n}]
      /\ reg' = [reg EXCEPT ![s].pc = "put", ![s].lease = n]
      /\ key' = key /\ gateway' = gateway /\ missedKey' = missedKey
  BY <1>2 DEF Grant, NewLease
<1>4. PICK r \in Registration : /\ r = [pc |-> p, lease |-> n, id |-> reg[s].id]
                                /\ r.pc = p /\ r.lease = n /\ r.id = reg[s].id
  BY <1>a, RegistrationIs
<1>c. [reg[s] EXCEPT !.pc = p, !.lease = n] = r
  BY Zenon, <1>a, <1>4, ByFields
<1>5. reg' = [reg EXCEPT ![s] = r]
  BY Zenon, <1>3, <1>b, <1>c
<1>6. /\ reg' \in [Service -> Registration] /\ reg'[s] = r
      /\ \A t \in Service \ {s} : reg'[t] = reg[t]
  BY Zenon, <1>1, <1>5, Moves
<1>7. /\ live' \in [Service -> SUBSET Nat] /\ live'[s] = live[s] \cup {n}
      /\ \A t \in Service \ {s} : live'[t] = live[t]
  BY <1>1, <1>3 DEF RegistryTyped
<1>8. LeaseOK(s)'
  BY <1>1, <1>2, <1>3, <1>4, <1>6, <1>7, <1>a, <1>b DEF LeaseOK
<1>9. ListFollows'
  BY <1>1, <1>3 DEF ListFollows, Followed, LastEvent, HasKey
<1> QED
  BY <1>1, <1>3, <1>6, <1>7, <1>8, <1>9, OneService DEF RegistryTyped

\* Put, done: the key hangs on the lease in hand, which is alive.
LEMMA PutInv ==
  ASSUME RegistryInv, NEW s \in Service, NEW pc \in Places, pc \in {"keep", "new"},
         reg[s].pc = "put", reg[s].lease \in live[s], SetKey(s, reg[s].lease),
         reg' = [reg EXCEPT ![s].pc = pc], live' = live
  PROVE  RegistryInv'
<1>1. RegistryTyped /\ LeasesOK /\ ListFollows /\ LeaseOK(s)
  BY DEF RegistryInv, LeasesOK
<1>2. PICK l \in Nat : l = reg[s].lease
  <2>1. reg[s].lease \in Nat
    BY <1>1, RegistrationOf
  <2> QED
    BY Zenon, <2>1
<1>3. /\ key' \in [Service -> Nat] /\ key'[s] = l
      /\ \A t \in Service \ {s} : key'[t] = key[t]
      /\ gateway' \in GatewayState /\ missedKey' \in BOOLEAN /\ ListFollows'
  BY <1>1, <1>2, SetKeyDoes
<1>4. PICK r \in Registration : /\ reg' = [reg EXCEPT ![s] = r]
                                /\ r.pc = pc /\ r.lease = l /\ r.id = reg[s].id
  BY Zenon, <1>1, <1>2, PlaceChanges
<1>6. /\ reg' \in [Service -> Registration] /\ reg'[s] = r
      /\ \A t \in Service \ {s} : reg'[t] = reg[t]
  BY Zenon, <1>1, <1>4, Moves
<1>7. LeaseOK(s)'
  BY <1>1, <1>2, <1>3, <1>4, <1>6 DEF LeaseOK
<1> QED
  BY <1>1, <1>3, <1>6, <1>7, OneService DEF RegistryTyped

\* A call that leaves etcd as it is: KeepAlive, an error, a new start.
LEMMA MoveInv ==
  ASSUME RegistryInv, NEW s \in Service, NEW r \in Registration, reg' = [reg EXCEPT ![s] = r],
         r.lease = reg[s].lease,
         \/ /\ r.pc \in {"new", "down"} /\ r.id = reg[s].id
         \/ /\ r.pc = "run" /\ reg[s].pc = "keep" /\ r.id = reg[s].lease,
         live' = live, key' = key, gateway' = gateway, missedKey' = missedKey
  PROVE  RegistryInv'
<1>1. RegistryTyped /\ LeasesOK /\ ListFollows /\ LeaseOK(s)
  BY DEF RegistryInv, LeasesOK
<1>2. /\ reg' \in [Service -> Registration] /\ reg'[s] = r
      /\ \A t \in Service \ {s} : reg'[t] = reg[t]
  BY Zenon, <1>1, Moves
<1>3. LeaseOK(s)'
  BY <1>1, <1>2, RegistrationOf DEF LeaseOK
<1>4. ListFollows'
  BY <1>1 DEF ListFollows, Followed, LastEvent, HasKey
<1> QED
  BY <1>1, <1>2, <1>3, <1>4, OneService DEF RegistryTyped

\* A lease ends, of a service that stops or goes on without it.
LEMMA EndLeaseInv ==
  ASSUME RegistryInv, NEW s \in Service, NEW l \in live[s], EndLease(s, l),
         \/ reg' = reg
         \/ reg' = [reg EXCEPT ![s].pc = "down"]
  PROVE  RegistryInv'
<1>1. RegistryTyped /\ LeasesOK /\ ListFollows /\ LeaseOK(s)
  BY DEF RegistryInv, LeasesOK
<1>2. /\ live' \in [Service -> SUBSET Nat] /\ live'[s] = live[s] \ {l}
      /\ \A t \in Service \ {s} : live'[t] = live[t]
  BY <1>1 DEF EndLease, RegistryTyped
<1>3. /\ key' \in [Service -> Nat] /\ key'[s] = IF key[s] = l THEN NoLease ELSE key[s]
      /\ \A t \in Service \ {s} : key'[t] = key[t]
      /\ gateway' \in GatewayState /\ missedKey' \in BOOLEAN /\ ListFollows'
  <2>1. CASE key[s] = l
    <3>1. SetKey(s, NoLease) /\ NoLease \in Nat
      BY <2>1 DEF EndLease, NoLease
    <3>2. PICK z \in Nat : z = NoLease /\ SetKey(s, z)
      BY <3>1
    <3> QED
      BY <1>1, <2>1, <3>2, SetKeyDoes
  <2>2. CASE key[s] # l
    <3>1. key' = key /\ gateway' = gateway /\ missedKey' = missedKey
      BY <2>2 DEF EndLease
    <3>2. ListFollows'
      BY <1>1, <3>1 DEF ListFollows, Followed, LastEvent, HasKey
    <3> QED
      BY <1>1, <2>2, <3>1, <3>2 DEF RegistryTyped
  <2> QED
    BY <2>1, <2>2
<1>4. PICK r \in Registration :
        /\ reg' = [reg EXCEPT ![s] = r] /\ r.lease = reg[s].lease /\ r.id = reg[s].id
        /\ r.pc = reg[s].pc \/ r.pc = "down"
  <2>1. CASE reg' = reg
    BY <1>1, <2>1 DEF RegistryTyped
  <2>2. CASE reg' = [reg EXCEPT ![s].pc = "down"]
    <3>1. PICK p \in Places : p = "down"
      BY DEF Places
    <3>2. PICK r \in Registration : /\ [reg EXCEPT ![s].pc = p] = [reg EXCEPT ![s] = r]
                                    /\ r.pc = p /\ r.lease = reg[s].lease /\ r.id = reg[s].id
      BY Zenon, <1>1, PlaceChanges
    <3> QED
      BY Zenon, <2>2, <3>1, <3>2
  <2> QED
    BY <2>1, <2>2
<1>5. /\ reg' \in [Service -> Registration] /\ reg'[s] = r
      /\ \A t \in Service \ {s} : reg'[t] = reg[t]
  BY Zenon, <1>1, <1>4, Moves
<1>6. LeaseOK(s)'
  <2>1. /\ reg'[s].id <= reg'[s].lease /\ live'[s] \subseteq 1..reg'[s].lease
        /\ reg'[s].pc = "run" => reg'[s].id = reg'[s].lease
    BY <1>1, <1>2, <1>4, <1>5 DEF LeaseOK
  <2>2. key'[s] \in live'[s] \cup {NoLease}
    BY <1>1, <1>2, <1>3 DEF LeaseOK
  <2>3. reg'[s].pc \in {"keep", "run"} /\ reg'[s].lease \in live'[s] => key'[s] = reg'[s].lease
    BY <1>1, <1>2, <1>3, <1>4, <1>5 DEF LeaseOK
  <2> QED
    BY <2>1, <2>2, <2>3 DEF LeaseOK
<1> QED
  BY <1>1, <1>2, <1>3, <1>5, <1>6, OneService

LEMMA ServiceInv ==
  ASSUME RegistryInv, NEW s \in Service, Register(s) \/ StopService(s) \/ Expire(s)
  PROVE  RegistryInv'
<1>1. RegistryTyped
  BY DEF RegistryInv
<1>2. reg[s].lease \in Nat /\ reg[s].id \in Nat
  BY <1>1, RegistrationOf
<1>3. reg[s] \in Registration
  BY <1>1 DEF RegistryTyped
<1>4. ASSUME NEW pc \in Places, pc \in {"new", "down"}, reg' = [reg EXCEPT ![s].pc = pc],
             live' = live, key' = key, gateway' = gateway, missedKey' = missedKey
      PROVE  RegistryInv'
  <2>1. PICK r \in Registration :
               /\ [reg EXCEPT ![s].pc = pc] = [reg EXCEPT ![s] = r]
               /\ r.pc = pc /\ r.lease = reg[s].lease /\ r.id = reg[s].id
    BY Zenon, <1>1, PlaceChanges
  <2> QED
    BY Zenon, <1>4, <2>1, MoveInv
<1>a. "new" \in Places /\ "keep" \in Places /\ "down" \in Places /\ "run" \in Places
  BY DEF Places
<1>5. CASE Grant(s)
  BY <1>5, GrantInv
<1>6. CASE PutKey(s)
  <2>1. /\ reg[s].pc = "put" /\ reg[s].lease \in live[s] /\ SetKey(s, reg[s].lease)
        /\ reg' = [reg EXCEPT ![s].pc = "keep"] /\ live' = live
    BY <1>6 DEF PutKey
  <2>2. PICK pc \in Places : pc = "keep"
    BY <1>a
  <2> QED
    BY Zenon, <2>1, <2>2, PutInv
<1>7. CASE KeepAlive(s)
  <2>1. /\ reg[s].pc = "keep" /\ reg' = [reg EXCEPT ![s].pc = "run", ![s].id = reg[s].lease]
        /\ live' = live /\ key' = key /\ gateway' = gateway /\ missedKey' = missedKey
    BY <1>7 DEF KeepAlive
  <2>2. PICK p \in Places : p = "run"
    BY <1>a
  <2>3. PICK r \in Registration : /\ r = [pc |-> p, lease |-> reg[s].lease, id |-> reg[s].lease]
                                  /\ r.pc = p /\ r.lease = reg[s].lease /\ r.id = reg[s].lease
    BY <1>2, RegistrationIs
  <2>4. [reg[s] EXCEPT !.pc = p, !.id = reg[s].lease] = r
    BY Zenon, <1>3, <2>3, ByFields
  <2>5. reg' = [reg EXCEPT ![s] = r]
    BY Zenon, <2>1, <2>2, <2>4
  <2> QED
    BY Zenon, <2>1, <2>2, <2>3, <2>5, MoveInv
<1>8. CASE RegisterFails(s)
  <2>1. reg' = [reg EXCEPT ![s].pc = "new"] /\ live' = live
    BY <1>8 DEF RegisterFails
  <2>2. CASE key' = key /\ gateway' = gateway /\ missedKey' = missedKey
    BY Zenon, <1>4, <1>a, <2>1, <2>2
  <2>3. CASE reg[s].pc = "put" /\ reg[s].lease \in live[s] /\ SetKey(s, reg[s].lease)
    <3>1. PICK pc \in Places : pc = "new"
      BY <1>a
    <3> QED
      BY Zenon, <2>1, <2>3, <3>1, PutInv
  <2> QED
    BY <1>8, <2>2, <2>3 DEF RegisterFails
<1>9. CASE ReRegister(s)
  BY Zenon, <1>4, <1>9, <1>a DEF ReRegister
<1>10. CASE StopService(s)
  <2>1. reg' = [reg EXCEPT ![s].pc = "down"]
    BY <1>10 DEF StopService
  <2>2. CASE reg[s].id \in live[s] /\ EndLease(s, reg[s].id)
    <3>1. PICK l \in live[s] : l = reg[s].id
      BY <2>2
    <3> QED
      BY Zenon, <2>1, <2>2, <3>1, EndLeaseInv
  <2>3. CASE live' = live /\ key' = key /\ gateway' = gateway /\ missedKey' = missedKey
    BY Zenon, <1>4, <1>a, <2>1, <2>3
  <2> QED
    BY <1>10, <2>2, <2>3 DEF StopService
<1>11. CASE Expire(s)
  <2>1. PICK l \in live[s] : EndLease(s, l) /\ reg' = reg
    BY <1>11 DEF Expire
  <2> QED
    BY <2>1, EndLeaseInv
<1> QED
  BY <1>5, <1>6, <1>7, <1>8, <1>9, <1>10, <1>11 DEF Register

-----------------------------------------------------------------------------
(***************************************************************************)
(* The gateway: the listing takes the keys over, and an event applied      *)
(* makes the list right for its service if it was the last of it.          *)
(***************************************************************************)
LEMMA GatewayFields ==
  ASSUME RegistryTyped
  PROVE  /\ gateway.pc \in GatewayPc /\ gateway.list \subseteq Service /\ gateway.sink \subseteq Service
         /\ gateway.events \in Seq(Event)
  BY DEF RegistryTyped, GatewayState, Events

LEMMA ListServicesInv == ASSUME RegistryInv, ListServices PROVE RegistryInv'
<1>1. RegistryTyped /\ LeasesOK /\ ListFollows
  BY DEF RegistryInv
<1>2. /\ gateway.pc = "get" /\ gateway' = [gateway EXCEPT !.pc = "gap", !.list = Keys, !.sink = Keys]
      /\ reg' = reg /\ live' = live /\ key' = key /\ missedKey' = missedKey
  BY DEF ListServices
<1>a. Keys \subseteq Service /\ \A s \in Service : s \in Keys <=> HasKey(s)
  BY DEF Keys, HasKey
<1>3. PICK keys \in SUBSET Service : keys = Keys /\ \A s \in Service : s \in keys <=> HasKey(s)
  BY Zenon, <1>a
<1>4. PICK pc \in GatewayPc : pc = "gap"
  BY DEF GatewayPc
<1>5. gateway' = [gateway EXCEPT !.pc = pc, !.list = keys, !.sink = keys]
  BY <1>2, <1>3, <1>4
<1>6. /\ gateway' \in GatewayState /\ gateway'.pc = pc /\ gateway'.list = keys
      /\ gateway'.events = gateway.events
  BY Zenon, <1>1, <1>5 DEF GatewayState, RegistryTyped
<1>7. gateway.events = <<>>
  BY <1>1, <1>2 DEF ListFollows
<1>8. \A s \in Service : Followed(s)'
  BY <1>2, <1>3, <1>6, <1>7 DEF Followed, HasKey
<1>9. ListFollows'
  BY <1>6, <1>7, <1>8 DEF ListFollows
<1>10. LeasesOK'
  BY <1>1, <1>2 DEF LeasesOK, LeaseOK
<1> QED
  BY <1>1, <1>2, <1>6, <1>9, <1>10 DEF RegistryInv, RegistryTyped

\* The watch opens, the listing fails, or logins get the list: the list and the events stay.
LEMMA GatewayMoves ==
  ASSUME RegistryInv, ListFails \/ Watch \/ Refresh
  PROVE  RegistryInv'
<1>1. RegistryTyped /\ LeasesOK /\ ListFollows
  BY DEF RegistryInv
<1>2. reg' = reg /\ live' = live /\ key' = key /\ missedKey' = missedKey
  BY DEF ListFails, Watch, Refresh
<1>3. PICK pc \in GatewayPc, sink \in SUBSET Service :
        /\ gateway' = [gateway EXCEPT !.pc = pc, !.sink = sink]
        /\ \/ gateway.pc = "get" /\ pc = "off"
           \/ gateway.pc = "gap" /\ pc = "watch"
           \/ pc = gateway.pc
  <2>1. /\ gateway.pc \in GatewayPc /\ gateway.list \subseteq Service /\ gateway.sink \subseteq Service
    BY <1>1, GatewayFields
  <2>2. gateway = [gateway EXCEPT !.pc = gateway.pc, !.sink = gateway.sink]
    BY Zenon, <1>1 DEF RegistryTyped, GatewayState
  <2>3. CASE ListFails
    <3>1. PICK pc \in GatewayPc : pc = "off"
      BY DEF GatewayPc
    <3>2. gateway.pc = "get" /\ gateway' = [gateway EXCEPT !.pc = pc]
      BY <2>3, <3>1 DEF ListFails
    <3>3. gateway' = [gateway EXCEPT !.pc = pc, !.sink = gateway.sink]
      BY Zenon, <1>1, <3>2 DEF RegistryTyped, GatewayState
    <3> QED
      BY Zenon, <2>1, <3>1, <3>2, <3>3
  <2>4. CASE Watch
    <3>1. PICK pc \in GatewayPc : pc = "watch"
      BY DEF GatewayPc
    <3>2. gateway.pc = "gap" /\ gateway' = [gateway EXCEPT !.pc = pc]
      BY <2>4, <3>1 DEF Watch
    <3>3. gateway' = [gateway EXCEPT !.pc = pc, !.sink = gateway.sink]
      BY Zenon, <1>1, <3>2 DEF RegistryTyped, GatewayState
    <3> QED
      BY Zenon, <2>1, <3>1, <3>2, <3>3
  <2>5. CASE Refresh
    <3>1. gateway' = [gateway EXCEPT !.sink = gateway.list]
      BY <2>5 DEF Refresh
    <3>2. gateway' = [gateway EXCEPT !.pc = gateway.pc, !.sink = gateway.list]
      BY Zenon, <1>1, <3>1 DEF RegistryTyped, GatewayState
    <3> QED
      BY Zenon, <2>1, <3>2
  <2> QED
    BY Zenon, <2>3, <2>4, <2>5
<1>4. /\ gateway' \in GatewayState /\ gateway'.pc = pc /\ gateway'.list = gateway.list
      /\ gateway'.events = gateway.events
  BY Zenon, <1>1, <1>3 DEF RegistryTyped, GatewayState
<1>5. \A s \in Service : Followed(s)' <=> Followed(s)
  BY <1>2, <1>4 DEF Followed, LastEvent, HasKey
<1>6. ListFollows'
  BY <1>1, <1>2, <1>3, <1>4, <1>5 DEF ListFollows
<1>7. LeasesOK'
  BY <1>1, <1>2 DEF LeasesOK, LeaseOK
<1> QED
  BY <1>1, <1>2, <1>4, <1>6, <1>7 DEF RegistryInv, RegistryTyped

LEMMA ApplyEventInv == ASSUME RegistryInv, ApplyEvent PROVE RegistryInv'
<1>1. RegistryTyped /\ LeasesOK /\ ListFollows
  BY DEF RegistryInv
<1>2. /\ gateway.events # <<>>
      /\ gateway' = [gateway EXCEPT !.list = Applied(@, Head(gateway.events)), !.events = Tail(@)]
      /\ reg' = reg /\ live' = live /\ key' = key /\ missedKey' = missedKey
  BY DEF ApplyEvent
<1>3. /\ gateway.pc = "watch" /\ gateway.list \subseteq Service /\ gateway.events \in Seq(Event)
  BY <1>1, <1>2, GatewayFields DEF ListFollows
<1>4. PICK n \in Nat : n = Len(gateway.events) /\ n > 0 /\ DOMAIN gateway.events = 1..n
  BY <1>2, <1>3
<1>a. Tail(gateway.events) \in Events
  BY <1>2, <1>3 DEF Events
<1>5. PICK evs \in Events : evs = Tail(gateway.events)
  BY Zenon, <1>a
<1>6. DOMAIN evs = 1..(n - 1) /\ \A j \in 1..(n - 1) : evs[j] = gateway.events[j + 1]
  BY <1>3, <1>4, <1>5
<1>7. PICK e \in Event : e = Head(gateway.events) /\ e = gateway.events[1]
  BY <1>2, <1>3, <1>4
<1>8. PICK new \in SUBSET Service :
        /\ new = Applied(gateway.list, e)
        /\ \A s \in Service \ {e.of} : s \in new <=> s \in gateway.list
        /\ e.of \in new <=> e.put
  <2>1. e.of \in Service
    BY DEF Event
  <2>2. /\ Applied(gateway.list, e) \subseteq Service
        /\ \A s \in Service \ {e.of} : s \in Applied(gateway.list, e) <=> s \in gateway.list
        /\ e.of \in Applied(gateway.list, e) <=> e.put
    BY <1>3, <2>1 DEF Applied
  <2> QED
    BY Zenon, <2>2
<1>9. gateway' = [gateway EXCEPT !.list = new, !.events = evs]
  BY <1>2, <1>5, <1>7, <1>8
<1>10. /\ gateway' \in GatewayState /\ gateway'.pc = "watch" /\ gateway'.list = new
       /\ gateway'.events = evs
  BY Zenon, <1>1, <1>3, <1>9 DEF RegistryTyped, GatewayState
<1>11. ASSUME ~missedKey, NEW s \in Service PROVE Followed(s)'
  <2>1. Followed(s)
    BY <1>1, <1>3, <1>11 DEF ListFollows
  <2>2. HasKey(s)' <=> HasKey(s)
    BY <1>2 DEF HasKey
  <2>3. CASE /\ \A j \in DOMAIN gateway.events : gateway.events[j].of # s
             /\ s \in gateway.list <=> HasKey(s)
    <3>1. e.of # s /\ \A j \in DOMAIN evs : evs[j].of # s
      BY SMTT(30), <1>4, <1>6, <1>7, <2>3
    <3> QED
      BY <1>8, <1>10, <2>2, <2>3, <3>1 DEF Followed
  <2>4. ASSUME NEW k \in DOMAIN gateway.events, LastEvent(s, k), gateway.events[k].put <=> HasKey(s)
        PROVE  Followed(s)'
    <3>1. k \in 1..n /\ gateway.events[k].of = s /\ \A j \in 1..n : gateway.events[j].of = s => j <= k
      BY <1>4, <2>4 DEF LastEvent
    <3>2. CASE k = 1
      <4>1. \A j \in DOMAIN evs : evs[j].of # s
        BY <1>4, <1>6, <3>1, <3>2
      <4>2. s \in new <=> HasKey(s)
        BY <1>7, <1>8, <2>4, <3>1, <3>2
      <4> QED
        BY <1>10, <2>2, <4>1, <4>2 DEF Followed
    <3>3. CASE k # 1
      <4>1. PICK h \in 1..(n - 1) : h = k - 1 /\ evs[h] = gateway.events[k]
        BY <1>4, <1>6, <3>1, <3>3
      <4>2. h \in DOMAIN evs /\ evs[h].of = s /\ \A j \in DOMAIN evs : evs[j].of = s => j <= h
        BY SMTT(30), <1>4, <1>6, <3>1, <4>1
      <4> QED
        BY <1>10, <2>2, <2>4, <4>1, <4>2 DEF Followed, LastEvent
    <3> QED
      BY <3>2, <3>3
  <2> QED
    BY <2>1, <2>3, <2>4 DEF Followed
<1>12. ListFollows'
  BY <1>2, <1>10, <1>11 DEF ListFollows
<1>13. LeasesOK'
  BY <1>1, <1>2 DEF LeasesOK, LeaseOK
<1> QED
  BY <1>1, <1>2, <1>10, <1>12, <1>13 DEF RegistryInv, RegistryTyped

LEMMA RegistryInductive == RegistryInv /\ [RegistryNext]_registryVars => RegistryInv'
<1> SUFFICES ASSUME RegistryInv, [RegistryNext]_registryVars PROVE RegistryInv'
  OBVIOUS
<1>1. CASE RegistryNext
  <2>1. CASE \E s \in Service : Register(s) \/ StopService(s) \/ Expire(s)
    BY Zenon, <2>1, ServiceInv
  <2>2. CASE Discover \/ ListFails
    BY Zenon, <2>2, ListServicesInv, GatewayMoves, ApplyEventInv DEF Discover
  <2> QED
    BY Zenon, <1>1, <2>1, <2>2 DEF RegistryNext
<1>2. CASE UNCHANGED registryVars
  <2>1. /\ reg' = reg /\ live' = live /\ key' = key /\ gateway' = gateway /\ missedKey' = missedKey
    BY <1>2 DEF registryVars
  <2>2. RegistryTyped /\ LeasesOK /\ ListFollows
    BY DEF RegistryInv
  <2>3. RegistryTyped' /\ LeasesOK'
    BY Zenon, <2>1, <2>2 DEF RegistryTyped, LeasesOK, LeaseOK
  <2>4. ListFollows'
    BY Zenon, <2>1, <2>2 DEF ListFollows, Followed, LastEvent, HasKey
  <2> QED
    BY <2>3, <2>4 DEF RegistryInv
<1> QED
  BY <1>1, <1>2

LEMMA RegistryFollows == RegistryInv => RegistryTypeOK /\ RunningHasKey /\ ListIsKeys
<1> SUFFICES ASSUME RegistryInv PROVE RegistryTypeOK /\ RunningHasKey /\ ListIsKeys
  OBVIOUS
<1>1. RegistryTyped /\ LeasesOK /\ ListFollows
  BY DEF RegistryInv
<1>2. RunningHasKey
  BY <1>1 DEF RunningHasKey, LeasesOK, LeaseOK
<1>3. ListIsKeys
  <2> SUFFICES ASSUME gateway.pc = "watch", gateway.events = <<>>, ~missedKey
               PROVE  gateway.list = Keys
    BY DEF ListIsKeys
  <2>1. \A s \in Service : s \in gateway.list <=> HasKey(s)
    BY <1>1 DEF ListFollows, Followed
  <2> QED
    BY <1>1, <2>1, GatewayFields DEF Keys, HasKey
<1>4. RegistryTypeOK
  BY <1>1, GatewayFields, RegistrationOf DEF RegistryTypeOK, LeasesOK, LeaseOK, GatewayPc, Places
<1> QED
  BY <1>2, <1>3, <1>4

(***************************************************************************)
(* service_register.go (Run, putKeyWithLease), service_discovery.go: over  *)
(* failed calls, leases that run out and services that stop, a service     *)
(* whose lease is kept alive has its key attached to it, and the list of a *)
(* gateway whose watch has missed nothing is that of the keys.             *)
(***************************************************************************)
THEOREM RegistryIsFollowed == RegistrySpec => [](RunningHasKey /\ ListIsKeys)
<1>1. RegistryInv => RunningHasKey /\ ListIsKeys
  BY RegistryFollows
<1> QED
  BY <1>1, RegistryInitInv, RegistryInductive, PTL DEF RegistrySpec

-----------------------------------------------------------------------------
LEMMA ConvInitInv == ConvInit => ConvInv
<1> SUFFICES ASSUME ConvInit PROVE ConvInv
  OBVIOUS
<1>1. /\ convs = {} /\ ids = 0 /\ convFails = 0 /\ MaxFail \in Nat
      /\ call = [c \in Caller |-> [pc |-> "new", id |-> 0, added |-> {}]]
  BY ConversationsAssumption DEF ConvInit, NoId, ConversationsAssumption
<1>2. call \in [Caller -> CallState]
  BY <1>1 DEF CallState, CallPc, Added
<1>3. \A c \in Caller : call[c].pc = "new" /\ call[c].id = 0 /\ call[c].added = {}
  BY <1>1
<1> QED
  BY <1>1, <1>2, <1>3 DEF ConvInv, CallTyped, ConvsOK, CallsOK, CallOK

LEMMA CallFields ==
  ASSUME CallTyped, NEW c \in Caller
  PROVE  /\ call[c].pc \in CallPc /\ call[c].id \in Nat /\ call[c].added \in Added
         /\ call[c].id <= ids /\ call[c].added \subseteq SingleKey(c)
         /\ \A a \in SUBSET SingleKey(c) : a \in Added
<1>1. SingleKey(c) \subseteq Users
  BY DEF Users
<1> QED
  BY <1>1 DEF CallTyped, CallState, Added

LEMMA CallByFields ==
  ASSUME NEW r \in CallState
  PROVE  r = [pc |-> r.pc, id |-> r.id, added |-> r.added]
  BY DEF CallState

\* A call goes on with another place, id or members.
LEMMA CallStateIs ==
  ASSUME NEW p \in CallPc, NEW i \in Nat, NEW a \in Added
  PROVE  \E r \in CallState : /\ r = [pc |-> p, id |-> i, added |-> a]
                              /\ r.pc = p /\ r.id = i /\ r.added = a
<1>1. [pc |-> p, id |-> i, added |-> a] \in CallState
  BY DEF CallState
<1>2. PICK r \in CallState : r = [pc |-> p, id |-> i, added |-> a]
  BY Zenon, <1>1
<1>3. r.pc = p /\ r.id = i /\ r.added = a
  BY <1>2
<1> QED
  BY Zenon, <1>2, <1>3

LEMMA PlaceOfCall ==
  ASSUME CallTyped, NEW c \in Caller, NEW p \in CallPc
  PROVE  \E r \in CallState : /\ [call EXCEPT ![c].pc = p] = [call EXCEPT ![c] = r]
                              /\ r.pc = p /\ r.id = call[c].id /\ r.added = call[c].added
<1>1. PICK x \in CallState : x = call[c]
  BY DEF CallTyped
<1>2. x.id \in Nat /\ x.added \in Added
  BY DEF CallState
<1>3. PICK r \in CallState : /\ r = [pc |-> p, id |-> x.id, added |-> x.added]
                             /\ r.pc = p /\ r.id = x.id /\ r.added = x.added
  BY <1>2, CallStateIs
<1>4. [x EXCEPT !.pc = p] = r
  BY <1>3, CallByFields
<1>5. [call EXCEPT ![c].pc = p] = [call EXCEPT ![c] = r]
  BY Zenon, <1>1, <1>4
<1> QED
  BY Zenon, <1>1, <1>3, <1>5

\* The calls when call c is at p with id i, or with members a.
WithId(c, p, i) == [call EXCEPT ![c].pc = p, ![c].id = i]
WithAdded(c, a, p) == [call EXCEPT ![c].added = a, ![c].pc = p]

LEMMA PlaceAndId ==
  ASSUME CallTyped, NEW c \in Caller, NEW p \in CallPc, NEW i \in Nat
  PROVE  \E r \in CallState : /\ WithId(c, p, i) = [call EXCEPT ![c] = r]
                              /\ r.pc = p /\ r.id = i /\ r.added = call[c].added
<1>1. PICK x \in CallState : /\ [call EXCEPT ![c].pc = p] = [call EXCEPT ![c] = x]
                             /\ x.pc = p /\ x.id = call[c].id /\ x.added = call[c].added
  BY Zenon, PlaceOfCall
<1>2. x.added \in Added
  BY DEF CallState
<1>3. PICK r \in CallState : /\ r = [pc |-> p, id |-> i, added |-> x.added]
                             /\ r.pc = p /\ r.id = i /\ r.added = x.added
  BY <1>2, CallStateIs
<1>4. [x EXCEPT !.id = i] = r
  BY <1>1, <1>3, CallByFields
<1>5. [[call EXCEPT ![c] = x] EXCEPT ![c].id = i] = [call EXCEPT ![c] = r]
  BY Zenon, <1>4 DEF CallTyped
<1>6. WithId(c, p, i) = [call EXCEPT ![c] = r]
  BY Zenon, <1>1, <1>5 DEF WithId
<1> QED
  BY Zenon, <1>1, <1>3, <1>6

LEMMA AddedAndPlace ==
  ASSUME CallTyped, NEW c \in Caller, NEW p \in CallPc, NEW a \in Added
  PROVE  \E r \in CallState : /\ WithAdded(c, a, p) = [call EXCEPT ![c] = r]
                              /\ r.pc = p /\ r.id = call[c].id /\ r.added = a
<1>1. PICK x \in CallState : x = call[c]
  BY DEF CallTyped
<1>2. x.pc \in CallPc /\ x.id \in Nat
  BY DEF CallState
<1>3. PICK y \in CallState : /\ y = [pc |-> x.pc, id |-> x.id, added |-> a]
                             /\ y.pc = x.pc /\ y.id = x.id /\ y.added = a
  BY <1>2, CallStateIs
<1>4. PICK r \in CallState : /\ r = [pc |-> p, id |-> x.id, added |-> a]
                             /\ r.pc = p /\ r.id = x.id /\ r.added = a
  BY <1>2, CallStateIs
<1>5. [x EXCEPT !.added = a] = y
  BY <1>3, CallByFields
<1>6. [y EXCEPT !.pc = p] = r
  BY <1>3, <1>4, CallByFields
<1>7. [call EXCEPT ![c].added = a] = [call EXCEPT ![c] = y]
  BY Zenon, <1>1, <1>5
<1>8. [[call EXCEPT ![c] = y] EXCEPT ![c].pc = p] = [call EXCEPT ![c] = r]
  BY Zenon, <1>6 DEF CallTyped
<1>9. WithAdded(c, a, p) = [call EXCEPT ![c] = r]
  BY Zenon, <1>7, <1>8 DEF WithAdded
<1> QED
  BY Zenon, <1>1, <1>4, <1>9

\* Call c, as it goes on, has made no conversation, or the same as before, or one with a new id.
MakesNoOther(c, r) ==
  \/ r.pc \notin {"members", "commit"}
  \/ \E v \in convs : v.id = r.id
  \/ Inserted(c) /\ r.id = call[c].id
  \/ /\ r.id = ids + 1
     /\ \A o \in Caller \ {c} : Inserted(o) => SingleKey(o) # SingleKey(c)

(***************************************************************************)
(* Another call keeps the conversation it has made, if a call that goes on *)
(* has made none, or the same as before.                                   *)
(***************************************************************************)
LEMMA CallMoves ==
  ASSUME ConvInv, NEW c \in Caller, NEW r \in CallState, call' = [call EXCEPT ![c] = r],
         convs' = convs, ids' \in Nat, ids <= ids', convFails' \in 0..MaxFail,
         r.id <= ids', r.added \subseteq SingleKey(c),
         MakesNoOther(c, r), CallOK(c)'
  PROVE  ConvInv'
<1>1. CallTyped /\ ConvsOK /\ CallsOK
  BY DEF ConvInv
<1>2. /\ call' \in [Caller -> CallState] /\ call'[c] = r
      /\ \A o \in Caller \ {c} : call'[o] = call[o]
  BY <1>1 DEF CallTyped
<1>3. CallTyped'
  <2>1. ASSUME NEW o \in Caller PROVE call'[o].id <= ids' /\ call'[o].added \subseteq SingleKey(o)
    <3>1. call[o].id <= ids /\ call[o].id \in Nat /\ ids \in Nat /\ call[o].added \subseteq SingleKey(o)
      BY <1>1, CallFields DEF CallTyped
    <3> QED
      BY <1>2, <3>1
  <2> QED
    BY <1>2, <2>1 DEF CallTyped, SingleKey
<1>4. ConvsOK'
  BY <1>1 DEF ConvsOK, CallTyped
<1>5. ASSUME NEW o \in Caller \ {c} PROVE CallOK(o)'
  <2>1. CallOK(o) /\ call'[o] = call[o]
    BY <1>1, <1>2 DEF CallsOK
  <2>2. HasConv(o)' <=> HasConv(o)
    BY <2>1 DEF HasConv
  <2>3. ASSUME call[o].pc \in {"members", "commit"}, HasNew(o) PROVE HasNew(o)'
    <3>1. Inserted(o) /\ call[o].id # NoId
      BY <2>3 DEF HasNew, Inserted
    <3>2. ASSUME NEW n \in Caller \ {o}, Inserted(n)'
          PROVE  call'[n].id # call[o].id /\ SingleKey(n) # SingleKey(o)
      <4>1. CASE n # c
        <5>1. Inserted(n)
          BY <1>2, <3>2, <4>1 DEF Inserted
        <5> QED
          BY <1>2, <2>3, <4>1, <5>1 DEF HasNew
      <4>2. CASE n = c
        <5>1. r.pc \in {"members", "commit"} /\ \A v \in convs : v.id # r.id
          BY <1>2, <3>2, <4>2 DEF Inserted
        <5>2. CASE Inserted(c) /\ r.id = call[c].id
          BY <1>2, <2>3, <4>2, <5>2 DEF HasNew
        <5>3. CASE /\ r.id = ids + 1
                   /\ \A m \in Caller \ {c} : Inserted(m) => SingleKey(m) # SingleKey(c)
          <6>1. call[o].id <= ids /\ call[o].id \in Nat /\ ids \in Nat
            BY <1>1, CallFields DEF CallTyped
          <6> QED
            BY <1>2, <3>1, <4>2, <5>3, <6>1
        <5> QED
          BY <5>1, <5>2, <5>3 DEF MakesNoOther
      <4> QED
        BY <4>1, <4>2
    <3> QED
      BY <2>1, <2>3, <3>2 DEF HasNew
  <2> QED
    BY <2>1, <2>2, <2>3 DEF CallOK
<1>6. CallsOK'
  BY <1>5 DEF CallsOK
<1> QED
  BY <1>3, <1>4, <1>6 DEF ConvInv

(***************************************************************************)
(* COMMIT, its answer received or lost: the conversation of the call is    *)
(* there with both members, and it is the only one of its pair.            *)
(***************************************************************************)
LEMMA CommitInv ==
  ASSUME ConvInv, NEW c \in Caller, call[c].pc = "commit", Commit(c),
         NEW p \in CallPc, p \in {"get", "failed"}, call' = [call EXCEPT ![c].pc = p],
         ids' = ids, convFails' \in 0..MaxFail
  PROVE  ConvInv'
<1>1. CallTyped /\ ConvsOK /\ CallsOK /\ CallOK(c)
  BY DEF ConvInv, CallsOK
<1>2. /\ call[c].id \in Nat /\ call[c].added \in Added /\ call[c].id <= ids
      /\ call[c].added \subseteq SingleKey(c)
  BY <1>1, CallFields
<1>a. CallTyped
  BY <1>1
<1>3. PICK r \in CallState : /\ [call EXCEPT ![c].pc = p] = [call EXCEPT ![c] = r]
                             /\ r.pc = p /\ r.id = call[c].id /\ r.added = call[c].added
  BY Zenon, <1>a, PlaceOfCall
<1>4. call' = [call EXCEPT ![c] = r]
  BY <1>3
<1>5. /\ call' \in [Caller -> CallState] /\ call'[c] = r
      /\ \A o \in Caller \ {c} : call'[o] = call[o]
  BY <1>1, <1>4 DEF CallTyped
<1>6. CASE ~Inserted(c)
  <2>1. convs' = convs
    BY <1>6 DEF Commit
  <2>2. HasConv(c)
    BY <1>1, <1>6 DEF CallOK, HasNew, Inserted
  <2>3. CallOK(c)'
    BY <1>3, <1>5, <2>1, <2>2 DEF CallOK, HasConv
  <2> QED
    <3>1. MakesNoOther(c, r)
      BY <1>3, <2>2 DEF MakesNoOther, HasConv
    <3>2. ids' \in Nat /\ ids <= ids' /\ r.id <= ids' /\ r.added \subseteq SingleKey(c)
      BY <1>1, <1>2, <1>3 DEF CallTyped
    <3> QED
      BY Zenon, <1>4, <2>1, <2>3, <3>1, <3>2, CallMoves
<1>7. CASE Inserted(c)
  <2>1. PICK v : /\ v = [id |-> call[c].id, key |-> SingleKey(c), members |-> call[c].added]
                 /\ v.id = call[c].id /\ v.key = SingleKey(c) /\ v.members = call[c].added
    <3>1. PICK v : v = [id |-> call[c].id, key |-> SingleKey(c), members |-> call[c].added]
      OBVIOUS
    <3>2. v.id = call[c].id /\ v.key = SingleKey(c) /\ v.members = call[c].added
      BY <3>1
    <3> QED
      BY Zenon, <3>1, <3>2
  <2>2. convs' = convs \cup {v}
    BY <1>7, <2>1 DEF Commit
  <2>3. HasNew(c) /\ call[c].added = SingleKey(c)
    BY <1>1, <1>7 DEF CallOK, HasConv, Inserted
  <2>4. ConvsOK'
    <3>1. v.id \in 1..ids /\ v.members = v.key
      BY <1>1, <1>2, <2>1, <2>3 DEF HasNew, NoId, CallTyped
    <3>2. \A w \in convs : w.id # v.id /\ w.key # v.key
      BY <2>1, <2>3 DEF HasNew
    <3> QED
      BY <1>1, <2>2, <3>1, <3>2 DEF ConvsOK
  <2>5. CallTyped'
    BY <1>1, <1>3, <1>5 DEF CallTyped, SingleKey
  <2>6. CallOK(c)'
    BY <1>3, <1>5, <2>1, <2>2 DEF CallOK, HasConv, SingleKey
  <2>7. ASSUME NEW o \in Caller \ {c} PROVE CallOK(o)'
    <3>1. CallOK(o) /\ call'[o] = call[o]
      BY <1>1, <1>5 DEF CallsOK
    <3>2. HasConv(o) => HasConv(o)'
      BY <2>2, <3>1 DEF HasConv, SingleKey
    <3>3. ASSUME call[o].pc \in {"members", "commit"}, HasNew(o) PROVE HasNew(o)'
      <4>1. call[c].id # call[o].id /\ SingleKey(c) # SingleKey(o)
        BY <1>7, <3>3 DEF HasNew
      <4>2. \A n \in Caller : Inserted(n)' => Inserted(n) /\ n # c
        BY <1>3, <1>5, <2>2 DEF Inserted
      <4>3. \A w \in convs' : w.id # call[o].id /\ w.key # SingleKey(o)
        BY <2>1, <2>2, <3>3, <4>1 DEF HasNew
      <4>4. \A n \in Caller \ {o} : Inserted(n)' => call'[n].id # call[o].id /\ SingleKey(n) # SingleKey(o)
        BY <1>5, <3>3, <4>2 DEF HasNew
      <4> QED
        BY <3>1, <3>3, <4>3, <4>4 DEF HasNew, SingleKey
    <3> QED
      BY <3>1, <3>2, <3>3 DEF CallOK, SingleKey
  <2> QED
    BY <2>4, <2>5, <2>6, <2>7 DEF ConvInv, CallsOK
<1> QED
  BY <1>6, <1>7

\* A call that gives up, begins or ends: it has made nothing that is not committed.
LEMMA CallEnds ==
  ASSUME ConvInv, NEW c \in Caller, NEW p \in CallPc, call' = [call EXCEPT ![c].pc = p],
         \/ p \in {"new", "failed"}
         \/ p = "insert" /\ call[c].pc = "select"
         \/ p = "answered" /\ call[c].pc = "get",
         convs' = convs, ids' = ids, convFails' \in 0..MaxFail
  PROVE  ConvInv'
<1>1. CallTyped /\ ConvsOK /\ CallsOK /\ CallOK(c)
  BY DEF ConvInv, CallsOK
<1>2. /\ call[c].id \in Nat /\ call[c].added \in Added /\ call[c].id <= ids
      /\ call[c].added \subseteq SingleKey(c)
  BY <1>1, CallFields
<1>a. CallTyped
  BY <1>1
<1>3. PICK r \in CallState : /\ [call EXCEPT ![c].pc = p] = [call EXCEPT ![c] = r]
                             /\ r.pc = p /\ r.id = call[c].id /\ r.added = call[c].added
  BY Zenon, <1>a, PlaceOfCall
<1>4. call' = [call EXCEPT ![c] = r] /\ call'[c] = r
  BY <1>1, <1>3 DEF CallTyped
<1>5. HasConv(c)' <=> HasConv(c)
  BY <1>3, <1>4 DEF HasConv, SingleKey
<1>6. CallOK(c)'
  BY <1>1, <1>3, <1>4, <1>5 DEF CallOK
<1>7. MakesNoOther(c, r)
  BY <1>3 DEF MakesNoOther
<1>8. ids' \in Nat /\ ids <= ids' /\ r.id <= ids' /\ r.added \subseteq SingleKey(c)
  BY <1>1, <1>2, <1>3 DEF CallTyped
<1> QED
  BY Zenon, <1>4, <1>6, <1>7, <1>8, CallMoves

LEMMA BeginCallInv == ASSUME ConvInv, NEW c \in Caller, BeginCall(c) PROVE ConvInv'
<1>1. CallTyped
  BY DEF ConvInv
<1>2. "select" \in CallPc /\ NoId \in Nat /\ {} \in Added
  BY DEF CallPc, NoId, Added
<1>a. PICK p \in CallPc, n \in Nat, a \in Added : p = "select" /\ n = NoId /\ a = {}
  BY Zenon, <1>2
<1>3. PICK r \in CallState : /\ r = [pc |-> p, id |-> n, added |-> a]
                             /\ r.pc = p /\ r.id = n /\ r.added = a
  BY CallStateIs
<1>4. call' = [call EXCEPT ![c] = r] /\ convs' = convs /\ ids' = ids /\ convFails' = convFails
  BY <1>3, <1>a DEF BeginCall
<1>5. call'[c] = r
  BY <1>1, <1>4 DEF CallTyped
<1>6. CallOK(c)'
  BY <1>3, <1>5, <1>a DEF CallOK
<1>7. MakesNoOther(c, r)
  BY <1>3, <1>a DEF MakesNoOther
<1>8. /\ ids' \in Nat /\ ids <= ids' /\ r.id <= ids' /\ r.added \subseteq SingleKey(c)
      /\ convFails' \in 0..MaxFail
  BY <1>1, <1>3, <1>4, <1>a DEF CallTyped, NoId
<1> QED
  BY Zenon, <1>4, <1>6, <1>7, <1>8, CallMoves

LEMMA SelectConvInv == ASSUME ConvInv, NEW c \in Caller, SelectConv(c) PROVE ConvInv'
<1>1. CallTyped /\ ConvsOK /\ CallOK(c) /\ convFails \in 0..MaxFail
  BY DEF ConvInv, CallsOK, CallTyped
<1>2. call[c].pc = "select" /\ convs' = convs /\ ids' = ids /\ convFails' = convFails
  BY DEF SelectConv
<1>3. "insert" \in CallPc /\ "commit" \in CallPc
  BY DEF CallPc
<1>4. CASE call' = [call EXCEPT ![c].pc = "insert"]
  BY Zenon, <1>1, <1>2, <1>3, <1>4, CallEnds
<1>5. ASSUME NEW v \in convs, v.key = SingleKey(c),
             call' = [call EXCEPT ![c].pc = "commit", ![c].id = v.id]
      PROVE  ConvInv'
  <2>1. v.id \in Nat /\ v.id <= ids /\ ids \in Nat
    BY <1>1 DEF ConvsOK, CallTyped
  <2>2. call[c].added \in Added /\ call[c].added \subseteq SingleKey(c)
    BY <1>1, CallFields
  <2>b. PICK p \in CallPc, n \in Nat : p = "commit" /\ n = v.id
    BY Zenon, <1>3, <2>1
  <2>c. PICK r \in CallState :
          /\ WithId(c, p, n) = [call EXCEPT ![c] = r]
          /\ r.pc = p /\ r.id = n /\ r.added = call[c].added
    BY <1>1, PlaceAndId
  <2>3. /\ [call EXCEPT ![c].pc = "commit", ![c].id = v.id] = [call EXCEPT ![c] = r]
        /\ r.pc = "commit" /\ r.id = v.id /\ r.added = call[c].added
    BY Zenon, <2>b, <2>c DEF WithId
  <2>4. call' = [call EXCEPT ![c] = r] /\ call'[c] = r
    BY <1>1, <1>5, <2>3 DEF CallTyped
  <2>a. HasConv(c)'
    BY <1>2, <1>5, <2>3, <2>4 DEF HasConv, SingleKey
  <2>5. CallOK(c)'
    BY <2>3, <2>4, <2>a DEF CallOK
  <2>6. MakesNoOther(c, r)
    BY <2>3 DEF MakesNoOther
  <2>7. /\ ids' \in Nat /\ ids <= ids' /\ r.id <= ids' /\ r.added \subseteq SingleKey(c)
        /\ convFails' \in 0..MaxFail
    BY <1>1, <1>2, <2>1, <2>2, <2>3
  <2> QED
    BY Zenon, <1>2, <2>4, <2>5, <2>6, <2>7, CallMoves
<1> QED
  BY <1>4, <1>5 DEF SelectConv

LEMMA InsertConvInv == ASSUME ConvInv, NEW c \in Caller, InsertConv(c) PROVE ConvInv'
<1>1. CallTyped /\ ConvsOK /\ CallsOK /\ CallOK(c) /\ convFails \in 0..MaxFail /\ ids \in Nat
  BY DEF ConvInv, CallsOK, CallTyped
<1>2. call[c].pc = "insert" /\ convs' = convs /\ ids' = ids + 1 /\ convFails' = convFails
  BY DEF InsertConv
<1>a. call' = [call EXCEPT ![c].pc = "members", ![c].id = ids + 1]
  BY DEF InsertConv
<1>b. /\ \A o \in Caller \ {c} : Inserted(o) => SingleKey(o) # SingleKey(c)
      /\ \A v \in convs : v.key # SingleKey(c)
  BY DEF InsertConv
<1>3. "members" \in CallPc /\ ids + 1 \in Nat
  BY <1>1 DEF CallPc
<1>4. call[c].added \in Added /\ call[c].added \subseteq SingleKey(c) /\ call[c].added = {}
  BY <1>1, <1>2, CallFields DEF CallOK
<1>e. PICK p \in CallPc, n \in Nat : p = "members" /\ n = ids + 1
  BY Zenon, <1>3
<1>f. PICK r \in CallState :
        /\ WithId(c, p, n) = [call EXCEPT ![c] = r]
        /\ r.pc = p /\ r.id = n /\ r.added = call[c].added
  BY <1>1, PlaceAndId
<1>5. /\ [call EXCEPT ![c].pc = "members", ![c].id = ids + 1] = [call EXCEPT ![c] = r]
      /\ r.pc = "members" /\ r.id = ids + 1 /\ r.added = call[c].added
  BY Zenon, <1>e, <1>f DEF WithId
<1>c. r.pc = "members" /\ r.id = ids + 1 /\ r.added = call[c].added
  BY Zenon, <1>5
<1>d. call' = [call EXCEPT ![c] = r]
  BY Zenon, <1>5, <1>a
<1>6. /\ call'[c] = r
      /\ \A o \in Caller \ {c} : call'[o] = call[o]
  BY <1>1, <1>d DEF CallTyped
<1>7. HasNew(c)'
  <2>1. \A v \in convs : v.id # ids + 1 /\ v.key # SingleKey(c)
    BY <1>1, <1>b DEF ConvsOK
  <2>2. ASSUME NEW o \in Caller \ {c}, Inserted(o)'
        PROVE  call'[o].id # ids + 1 /\ SingleKey(o) # SingleKey(c)
    <3>1. Inserted(o)
      BY <1>2, <1>6, <2>2 DEF Inserted
    <3>2. call[o].id <= ids /\ call[o].id \in Nat
      BY <1>1, CallFields
    <3>3. call'[o].id # ids + 1
      BY <1>1, <1>6, <3>2
    <3> QED
      BY <1>b, <3>1, <3>3
  <2>3. call'[c].id = ids + 1 /\ ids + 1 # 0
    BY <1>1, <1>6, <1>c
  <2> QED
    BY <1>2, <2>1, <2>2, <2>3 DEF HasNew, NoId, SingleKey
<1>8. CallOK(c)'
  <2>1. SingleKey(c) # {}
    BY DEF SingleKey
  <2> QED
    BY <1>4, <1>6, <1>7, <1>c, <2>1 DEF CallOK, SingleKey
<1>9. MakesNoOther(c, r)
  BY <1>b, <1>c DEF MakesNoOther
<1>10. /\ ids' \in Nat /\ ids <= ids' /\ r.id <= ids' /\ r.added \subseteq SingleKey(c)
       /\ convFails' \in 0..MaxFail
  BY <1>1, <1>2, <1>4, <1>c
<1> QED
  BY Zenon, <1>2, <1>8, <1>9, <1>10, <1>d, CallMoves

LEMMA InsertMemberInv == ASSUME ConvInv, NEW c \in Caller, InsertMember(c) PROVE ConvInv'
<1>1. CallTyped /\ ConvsOK /\ CallsOK /\ CallOK(c) /\ convFails \in 0..MaxFail /\ ids \in Nat
  BY DEF ConvInv, CallsOK, CallTyped
<1>2. call[c].pc = "members" /\ convs' = convs /\ ids' = ids /\ convFails' = convFails
  BY DEF InsertMember
<1>3. PICK u \in {From[c], To[c]} \ call[c].added :
        call' = [call EXCEPT ![c].added = @ \cup {u},
                             ![c].pc = IF call[c].added = {} THEN "members" ELSE "commit"]
  BY Zenon DEF InsertMember
<1>4. PICK p \in CallPc : p = IF call[c].added = {} THEN "members" ELSE "commit"
  BY DEF CallPc
<1>5. /\ call[c].id \in Nat /\ call[c].id <= ids /\ call[c].added \in Added
      /\ call[c].added \subseteq SingleKey(c)
  BY <1>1, CallFields
<1>6. PICK a \in Added :
        /\ a = call[c].added \cup {u} /\ a \subseteq SingleKey(c)
        /\ p = "members" => a # SingleKey(c)
        /\ p = "commit" => a = SingleKey(c)
  <2>1. From[c] # To[c] /\ SingleKey(c) = {From[c], To[c]}
    BY ConversationsAssumption DEF ConversationsAssumption, SingleKey
  <2>2. call[c].added \cup {u} \in Added /\ call[c].added \cup {u} \subseteq SingleKey(c)
    BY <1>1, <1>3, <1>5, <2>1, CallFields
  <2>3. p = "members" => call[c].added \cup {u} # SingleKey(c)
    BY <1>3, <1>4, <2>1
  <2>4. p = "commit" => call[c].added \cup {u} = SingleKey(c)
    BY <1>3, <1>4, <1>5, <2>1
  <2> QED
    BY Zenon, <2>2, <2>3, <2>4
<1>7. PICK r \in CallState : /\ WithAdded(c, a, p) = [call EXCEPT ![c] = r]
                             /\ r.pc = p /\ r.id = call[c].id /\ r.added = a
  BY <1>1, AddedAndPlace
<1>a. call' = [call EXCEPT ![c] = r]
  BY Zenon, <1>3, <1>4, <1>6, <1>7 DEF WithAdded
<1>8. /\ call' = [call EXCEPT ![c] = r] /\ call'[c] = r
      /\ \A o \in Caller \ {c} : call'[o] = call[o]
  BY <1>1, <1>a DEF CallTyped
<1>9. HasNew(c) /\ Inserted(c) /\ p \in {"members", "commit"}
  BY <1>1, <1>2, <1>4 DEF CallOK, HasNew, Inserted
<1>10. HasNew(c)'
  <2>1. \A o \in Caller \ {c} : Inserted(o)' <=> Inserted(o)
    BY <1>2, <1>8 DEF Inserted
  <2> QED
    BY <1>2, <1>7, <1>8, <1>9, <2>1 DEF HasNew, SingleKey
<1>11. CallOK(c)'
  BY <1>4, <1>6, <1>7, <1>8, <1>10 DEF CallOK, SingleKey
<1>12. MakesNoOther(c, r)
  BY <1>7, <1>9 DEF MakesNoOther
<1>13. /\ ids' \in Nat /\ ids <= ids' /\ r.id <= ids' /\ r.added \subseteq SingleKey(c)
       /\ convFails' \in 0..MaxFail
  BY <1>1, <1>2, <1>5, <1>6, <1>7
<1> QED
  BY Zenon, <1>2, <1>8, <1>11, <1>12, <1>13, CallMoves

LEMMA ConvInductive == ConvInv /\ [ConvNext]_convVars => ConvInv'
<1> SUFFICES ASSUME ConvInv, [ConvNext]_convVars PROVE ConvInv'
  OBVIOUS
<1>1. convFails \in 0..MaxFail /\ MaxFail \in Nat
  BY ConversationsAssumption DEF ConvInv, CallTyped, ConversationsAssumption
<1>2. "new" \in CallPc /\ "failed" \in CallPc /\ "get" \in CallPc /\ "answered" \in CallPc
  BY DEF CallPc
<1>3. ASSUME NEW c \in Caller, HandleCall(c) PROVE ConvInv'
  <2>1. CASE SelectConv(c) \/ InsertConv(c) \/ InsertMember(c)
    BY <2>1, SelectConvInv, InsertConvInv, InsertMemberInv
  <2>2. CASE UniqueViolation(c)
    BY Zenon, <1>1, <1>2, <2>2, CallEnds DEF UniqueViolation
  <2>3. CASE CommitConv(c)
    BY Zenon, <1>1, <1>2, <2>3, CommitInv DEF CommitConv
  <2>4. CASE GetConv(c)
    <3>1. /\ call[c].pc = "get" /\ convs' = convs /\ ids' = ids /\ convFails' = convFails
          /\ \/ call' = [call EXCEPT ![c].pc = "answered"]
             \/ call' = [call EXCEPT ![c].pc = "failed"]
      BY Zenon, <2>4 DEF GetConv
    <3> QED
      BY <1>1, <1>2, <3>1, CallEnds
  <2> QED
    BY <1>3, <2>1, <2>2, <2>3, <2>4 DEF HandleCall
<1>4. ASSUME NEW c \in Caller, CallFails(c) PROVE ConvInv'
  <2>1. /\ call' = [call EXCEPT ![c].pc = "failed"] /\ ids' = ids /\ convFails' \in 0..MaxFail
        /\ convs' = convs \/ (call[c].pc = "commit" /\ Commit(c))
    BY <1>1, <1>4 DEF CallFails
  <2> QED
    BY Zenon, <1>2, <2>1, CallEnds, CommitInv
<1>5. ASSUME NEW c \in Caller, Redeliver(c) PROVE ConvInv'
  BY Zenon, <1>1, <1>2, <1>5, CallEnds DEF Redeliver
<1>6. CASE ConvNext
  BY Zenon, <1>3, <1>4, <1>5, <1>6, BeginCallInv DEF ConvNext
<1>7. CASE UNCHANGED convVars
  BY ZenonT(60), <1>7 DEF convVars, ConvInv, CallTyped, ConvsOK, CallsOK, CallOK, HasConv, HasNew, Inserted, SingleKey
<1> QED
  BY <1>6, <1>7

LEMMA ConvFollows == ConvInv => ConvTypeOK /\ AnswersAgree
<1> SUFFICES ASSUME ConvInv PROVE ConvTypeOK /\ AnswersAgree
  OBVIOUS
<1>1. CallTyped /\ ConvsOK /\ CallsOK
  BY DEF ConvInv
<1>2. ConvTypeOK
  <2>1. ASSUME NEW c \in Caller
        PROVE  /\ Open(c) \/ call[c].pc \in {"new", "answered", "failed"}
               /\ call[c].id \in 0..ids
               /\ call[c].added \subseteq {From[c], To[c]}
    BY <1>1, CallFields DEF CallPc, Open, SingleKey, CallTyped
  <2> QED
    BY <1>1, <2>1 DEF ConvTypeOK, CallTyped, ConvsOK
<1>3. AnswersAgree
  <2> SUFFICES ASSUME NEW c \in Caller, NEW d \in Caller,
                      call[c].pc = "answered", call[d].pc = "answered", SingleKey(c) = SingleKey(d)
               PROVE  /\ call[c].id = call[d].id
                      /\ \E v \in convs : v.id = call[c].id /\ v.members = SingleKey(c)
    BY DEF AnswersAgree, SingleKey
  <2>1. HasConv(c) /\ HasConv(d)
    BY <1>1 DEF CallsOK, CallOK
  <2> QED
    BY <1>1, <2>1 DEF HasConv, ConvsOK
<1> QED
  BY <1>2, <1>3

(***************************************************************************)
(* conversation.go:88 (EnsureSingle): over calls of both users and of the  *)
(* persist worker at the same time, failed statements and commits whose    *)
(* answer is lost, all answers for a pair name one conversation with both  *)
(* members.                                                                *)
(***************************************************************************)
THEOREM OneConversation == ConvSpec => []AnswersAgree
<1>1. ConvInv => AnswersAgree
  BY ConvFollows
<1> QED
  BY <1>1, ConvInitInv, ConvInductive, PTL DEF ConvSpec

-----------------------------------------------------------------------------
LEMMA MaxIs ==
  ASSUME NEW S \in SUBSET Nat, NEW x \in S, \A y \in S : y <= x
  PROVE  Max(S) = x
<1>1. \A y \in S : x >= y
  OBVIOUS
<1>2. \A z \in S : (\A y \in S : z >= y) => z = x
  <2> SUFFICES ASSUME NEW z \in S, \A y \in S : z >= y PROVE z = x
    OBVIOUS
  <2>1. z \in Nat /\ x \in Nat /\ z <= x /\ z >= x
    OBVIOUS
  <2> QED
    BY <2>1
<1> QED
  BY Zenon, <1>1, <1>2 DEF Max

LEMMA HistoryConstants == Page \in Nat /\ Page > 0 /\ MaxSeq \in Nat /\ MaxPulls \in Nat /\ MaxLost \in Nat
  BY HistoryAssumption DEF HistoryAssumption

LEMMA StoredNumbers ==
  ASSUME StoredOK
  PROVE  LastNumber \in Nat /\ Seqs = 1..LastNumber
<1>1. LastNumber \in Nat
  BY FS_CardinalityType DEF StoredOK, LastNumber
<1> QED
  BY <1>1 DEF StoredOK, Seqs

LEMMA HistoryInitInv == HistoryInit => HistoryInv
<1> SUFFICES ASSUME HistoryInit PROVE HistoryInv
  OBVIOUS
<1>1. /\ stored = {} /\ pulls = {} /\ first = 0 /\ excused = FALSE
      /\ wtx = [w \in Writer |-> 0] /\ client = [on |-> TRUE, lastSeq |-> 0, seen |-> {}]
  BY DEF HistoryInit
<1>2. IsFiniteSet(stored) /\ LastNumber = 0 /\ IsFiniteSet(pulls) /\ Cardinality(pulls) = 0
  BY <1>1, FS_EmptySet DEF LastNumber
<1>3. StoredOK
  BY <1>1, <1>2, HistoryConstants DEF StoredOK
<1>4. WritersOK
  BY <1>1 DEF WritersOK
<1>5. client \in ClientState
  <2>1. PICK t \in Flags : t = TRUE
    BY Zenon DEF Flags
  <2>2. {} \in Numbers
    BY DEF Numbers
  <2>3. client = [on |-> t, lastSeq |-> 0, seen |-> {}]
    BY Zenon, <1>1, <2>1
  <2> QED
    BY <2>2, <2>3 DEF ClientState
<1>a. client.lastSeq = 0 /\ client.seen = {}
  BY <1>1
<1>b. first = 0 /\ excused \in BOOLEAN
  BY Zenon, <1>1
<1>6. ClientOK
  BY <1>2, <1>5, <1>a, <1>b DEF ClientOK
<1>7. PullsOK
  BY <1>1, <1>2, HistoryConstants DEF PullsOK
<1>8. GapsAreCovered
  BY <1>1 DEF GapsAreCovered, Missing, Seqs
<1> QED
  BY <1>3, <1>4, <1>6, <1>7, <1>8 DEF HistoryInv

LEMMA NumberInv == ASSUME HistoryInv, NEW w \in Writer, Number(w) PROVE HistoryInv'
<1>1. StoredOK /\ WritersOK /\ ClientOK /\ PullsOK /\ GapsAreCovered
  BY DEF HistoryInv
<1>2. PICK n \in Nat : n = LastNumber + 1
  BY <1>1, StoredNumbers
<1>3. /\ \A o \in Writer : wtx[o] = 0
      /\ LastNumber < MaxSeq /\ wtx' = [wtx EXCEPT ![w] = n]
      /\ stored' = stored /\ client' = client /\ first' = first /\ pulls' = pulls /\ excused' = excused
  BY <1>2 DEF Number, LastNumber
<1>4. LastNumber' = LastNumber /\ LastNumber \in Nat
  BY <1>1, <1>3, StoredNumbers DEF LastNumber
<1>5. WritersOK'
  <2>1. wtx' \in [Writer -> Nat] /\ wtx'[w] = n /\ \A o \in Writer \ {w} : wtx'[o] = 0
    BY <1>1, <1>3 DEF WritersOK
  <2> QED
    BY <1>2, <1>3, <1>4, <2>1, HistoryConstants DEF WritersOK
<1>6. StoredOK' /\ ClientOK' /\ PullsOK' /\ GapsAreCovered'
  BY <1>1, <1>3, <1>4 DEF StoredOK, ClientOK, PullsOK, PullOK, GapsAreCovered, Missing, Seqs
<1> QED
  BY <1>5, <1>6 DEF HistoryInv

LEMMA CommitMessageInv == ASSUME HistoryInv, NEW w \in Writer, CommitMessage(w) PROVE HistoryInv'
<1>1. StoredOK /\ WritersOK /\ ClientOK /\ PullsOK /\ GapsAreCovered
  BY DEF HistoryInv
<1>2. PICK m : m = [seq |-> wtx[w], from |-> w] /\ m.seq = wtx[w]
  <2>1. PICK m : m = [seq |-> wtx[w], from |-> w]
    OBVIOUS
  <2>2. m.seq = wtx[w]
    BY <2>1
  <2> QED
    BY Zenon, <2>1, <2>2
<1>3. /\ wtx[w] # 0 /\ stored' = stored \cup {m} /\ wtx' = [wtx EXCEPT ![w] = 0]
      /\ client' = client /\ first' = first /\ pulls' = pulls /\ excused' = excused
  BY <1>2 DEF CommitMessage
<1>4. LastNumber \in Nat /\ Seqs = 1..LastNumber
  BY <1>1, StoredNumbers
<1>5. m.seq = LastNumber + 1 /\ m.seq <= MaxSeq /\ \A o \in Writer \ {w} : wtx[o] = 0
  BY <1>1, <1>2, <1>3 DEF WritersOK
<1>6. m \notin stored
  BY <1>1, <1>4, <1>5 DEF StoredOK
<1>7. IsFiniteSet(stored') /\ LastNumber' = LastNumber + 1
  BY <1>1, <1>3, <1>6, FS_AddElement DEF StoredOK, LastNumber
<1>8. StoredOK'
  <2>1. \A k \in stored' : k.seq \in 1..(LastNumber + 1)
    BY <1>1, <1>3, <1>4, <1>5 DEF StoredOK
  <2>2. ASSUME NEW n \in 1..(LastNumber + 1) PROVE \E k \in stored' : k.seq = n
    <3>1. CASE n = LastNumber + 1
      BY <1>3, <1>5, <3>1
    <3>2. CASE n # LastNumber + 1
      BY <1>1, <1>3, <1>4, <3>2 DEF StoredOK
    <3> QED
      BY <3>1, <3>2
  <2> QED
    BY <1>5, <1>7, <2>1, <2>2 DEF StoredOK
<1>9. WritersOK'
  BY <1>1, <1>3, <1>5 DEF WritersOK
<1>10. ClientOK'
  BY <1>1, <1>3, <1>4, <1>7 DEF ClientOK, ClientState
<1>11. PullsOK'
  <2>1. ASSUME NEW p \in pulls PROVE PullOK(p)'
    <3>1. PullOK(p) /\ p.after \in Nat
      BY <1>1 DEF PullsOK, PullOK, PullState
    <3> QED
      BY <1>3, <1>4, <1>7, <3>1 DEF PullOK
  <2> QED
    BY <1>1, <1>3, <2>1 DEF PullsOK
<1>12. GapsAreCovered'
  <2>1. Seqs' = 1..(LastNumber + 1)
    BY <1>7, <1>8, StoredNumbers DEF StoredOK, Seqs
  <2>2. Missing' = Missing
    BY <1>1, <1>3, <1>4, <2>1 DEF Missing, ClientOK, ClientState
  <2> QED
    BY <1>1, <1>3, <2>2 DEF GapsAreCovered, Returns
<1> QED
  BY <1>8, <1>9, <1>10, <1>11, <1>12 DEF HistoryInv

\* Nothing of the server but a number in hand has changed.
LEMMA RollbackMessageInv == ASSUME HistoryInv, NEW w \in Writer, RollbackMessage(w) PROVE HistoryInv'
<1>1. StoredOK /\ WritersOK /\ ClientOK /\ PullsOK /\ GapsAreCovered
  BY DEF HistoryInv
<1>2. /\ wtx' = [wtx EXCEPT ![w] = 0]
      /\ stored' = stored /\ client' = client /\ first' = first /\ pulls' = pulls /\ excused' = excused
  BY DEF RollbackMessage
<1>3. LastNumber' = LastNumber
  BY <1>2 DEF LastNumber
<1>4. WritersOK'
  BY <1>1, <1>2, <1>3 DEF WritersOK
<1>5. StoredOK' /\ ClientOK' /\ PullsOK' /\ GapsAreCovered'
  BY <1>1, <1>2, <1>3 DEF StoredOK, ClientOK, PullsOK, PullOK, GapsAreCovered, Missing, Seqs
<1> QED
  BY <1>4, <1>5 DEF HistoryInv

-----------------------------------------------------------------------------
(***************************************************************************)
(* A step of the client leaves the server as it is.                        *)
(***************************************************************************)
LEMMA ServerStays ==
  ASSUME HistoryInv, UNCHANGED serverVars
  PROVE  /\ StoredOK' /\ WritersOK' /\ LastNumber' = LastNumber /\ Seqs' = Seqs
         /\ LastNumber \in Nat /\ Seqs = 1..LastNumber
<1>1. StoredOK /\ WritersOK
  BY DEF HistoryInv
<1>2. wtx' = wtx /\ stored' = stored
  BY DEF serverVars
<1>3. LastNumber' = LastNumber /\ Seqs' = Seqs
  BY <1>2 DEF LastNumber, Seqs
<1> QED
  BY <1>1, <1>2, <1>3, StoredNumbers DEF StoredOK, WritersOK

LEMMA ClientFields ==
  ASSUME HistoryInv
  PROVE  /\ client.on \in Flags /\ client.lastSeq \in Nat /\ client.seen \in Numbers
         /\ client.lastSeq <= LastNumber /\ client.seen \subseteq 1..LastNumber
         /\ client.lastSeq \in client.seen \cup {0} /\ first \in 0..client.lastSeq
         /\ first = 0 <=> client.lastSeq = 0
         /\ client \in ClientState
  BY DEF HistoryInv, ClientOK, ClientState

\* The client has seen the numbers S as well, and the largest is n.
LEMMA ClientSees ==
  ASSUME HistoryInv, NEW S \in Numbers, NEW T \in SUBSET Nat, Max(T) \in Nat,
         client' = [client EXCEPT !.seen = @ \cup S, !.lastSeq = Max(T)]
  PROVE  /\ client' \in ClientState /\ client'.seen = client.seen \cup S
         /\ client'.lastSeq = Max(T)
<1>1. client \in ClientState
  BY ClientFields
<1>2. client.seen \cup S \in Numbers
  BY <1>1 DEF ClientState, Numbers
<1>3. PICK a \in Numbers : a = client.seen \cup S
  BY Zenon, <1>2
<1>4. PICK n \in Nat : n = Max(T)
  BY Zenon
<1>5. client' = [client EXCEPT !.seen = a, !.lastSeq = n]
  BY Zenon, <1>3, <1>4
<1>6. client' \in ClientState /\ client'.seen = a /\ client'.lastSeq = n
  BY Zenon, <1>1, <1>5 DEF ClientState
<1> QED
  BY Zenon, <1>3, <1>4, <1>6

\* A pull that was on its way is as good as before when the cursor stays below lastSeq.
LEMMA OldPulls ==
  ASSUME HistoryInv, UNCHANGED serverVars, client'.lastSeq \in Nat, client.lastSeq <= client'.lastSeq,
         NEW p \in pulls
  PROVE  PullOK(p)'
<1>1. PullOK(p) /\ p.after \in Nat
  BY DEF HistoryInv, PullsOK, PullOK, PullState
<1>2. LastNumber' = LastNumber /\ client.lastSeq \in Nat
  BY ServerStays, ClientFields
<1> QED
  BY <1>1, <1>2 DEF PullOK

LEMMA NewPull ==
  ASSUME HistoryInv, UNCHANGED serverVars, NEW a \in Nat, a <= client'.lastSeq,
         client'.lastSeq \in Nat, client.lastSeq <= client'.lastSeq, CanPull(a), pulls' = Pull(a)
  PROVE  /\ PullsOK'
         /\ \E p \in pulls' : ~p.got.read /\ p.after = a
         /\ \A p \in pulls : p \in pulls'
<1>1. PICK f \in Flags : f = FALSE
  BY Zenon DEF Flags
<1>2. PICK e \in Numbers : e = {}
  <2>1. {} \in Numbers
    BY DEF Numbers
  <2> QED
    BY Zenon, <2>1
<1>3. PICK g \in PageAnswer : g = [read |-> f, page |-> e] /\ g.read = f
  <2>1. [read |-> f, page |-> e] \in PageAnswer /\ [read |-> f, page |-> e].read = f
    BY DEF PageAnswer
  <2> QED
    BY Zenon, <2>1
<1>4. PICK p \in PullState : p = [after |-> a, got |-> g] /\ p.after = a /\ p.got = g
  <2>1. /\ [after |-> a, got |-> g] \in PullState /\ [after |-> a, got |-> g].after = a
        /\ [after |-> a, got |-> g].got = g
    BY DEF PullState
  <2> QED
    BY Zenon, <2>1
<1>5. pulls' = pulls \cup {p} /\ Cardinality(pulls') <= MaxPulls
  BY Zenon, <1>1, <1>2, <1>3, <1>4 DEF Pull, CanPull, Unread
<1>6. IsFiniteSet(pulls')
  BY <1>5, FS_AddElement DEF HistoryInv, PullsOK
<1>7. PullOK(p)'
  BY <1>1, <1>3, <1>4 DEF PullOK
<1>8. PullsOK'
  BY <1>5, <1>6, <1>7, OldPulls DEF PullsOK
<1> QED
  BY <1>1, <1>3, <1>4, <1>5, <1>8

(***************************************************************************)
(* A message comes as a push.  What is missing afterwards is missing       *)
(* before, or lies between lastSeq and the message: then the client pulls, *)
(* or it is an own message and the gap is excused.                         *)
(***************************************************************************)
LEMMA OnMessageInv == ASSUME HistoryInv, NEW m \in stored, OnMessage(m) PROVE HistoryInv'
<1>1. StoredOK /\ ClientOK /\ PullsOK /\ GapsAreCovered /\ UNCHANGED serverVars
  BY DEF HistoryInv, OnMessage
<1>2. /\ StoredOK' /\ WritersOK' /\ LastNumber' = LastNumber /\ Seqs' = Seqs
      /\ LastNumber \in Nat /\ Seqs = 1..LastNumber
  BY <1>1, ServerStays
<1>3. PICK s \in Nat, l \in Nat : s = m.seq /\ l = client.lastSeq /\ s \in 1..LastNumber
  BY <1>1, <1>2, ClientFields DEF StoredOK
<1>4. PICK k \in Nat : k = (IF l >= s THEN l ELSE s) /\ k = Max({l, s})
  BY MaxIs
<1>5. client' \in ClientState /\ client'.seen = client.seen \cup {s} /\ client'.lastSeq = k
  <2>1. client' = [client EXCEPT !.seen = @ \cup {s}, !.lastSeq = Max({@, s})]
    BY Zenon, <1>3 DEF OnMessage
  <2>2. client' = [client EXCEPT !.seen = @ \cup {s}, !.lastSeq = Max({l, s})]
    BY <1>3, <2>1, ClientFields DEF ClientState
  <2>3. {s} \in Numbers /\ {l, s} \in SUBSET Nat
    BY DEF Numbers
  <2> QED
    BY Zenon, <1>4, <2>2, <2>3, ClientSees
<1>6. /\ s \notin client.seen /\ first' = IF first = 0 THEN s ELSE first
      /\ excused' \in BOOLEAN
  BY Zenon, <1>1, <1>3 DEF OnMessage, ClientOK
<1>7. /\ client.lastSeq \in Nat /\ client.seen \subseteq 1..LastNumber /\ l <= LastNumber
      /\ l \in client.seen \cup {0} /\ first \in 0..l /\ (first = 0 <=> l = 0)
  BY <1>3, ClientFields
<1>a. k \in {l, s} /\ l <= k /\ s <= k /\ k <= LastNumber /\ s > 0
  BY <1>2, <1>3, <1>4, <1>7
<1>b. first' \in 0..k /\ first' # 0 /\ (first # 0 => first' = first) /\ (first = 0 => first' = s /\ k = s)
  BY <1>3, <1>4, <1>6, <1>7, <1>a
<1>8. ClientOK'
  <2>1. client.seen \cup {s} \subseteq 1..LastNumber /\ k \in client.seen \cup {s} \cup {0}
    BY <1>3, <1>7, <1>a
  <2> QED
    BY <1>2, <1>5, <1>6, <1>a, <1>b, <2>1 DEF ClientOK
<1>9. \A n \in Missing' : n \in Missing \/ (l > 0 /\ l < n /\ n < s)
  <2> SUFFICES ASSUME NEW n \in Missing' PROVE n \in Missing \/ (l > 0 /\ l < n /\ n < s)
    OBVIOUS
  <2>1. n \in Seqs /\ n \in Nat /\ first' < n /\ n < k /\ n \notin client.seen /\ n # s
    BY <1>2, <1>5 DEF Missing
  <2>2. l > 0 /\ first' = first
    BY <1>7, <1>b, <2>1
  <2>3. n # l
    BY <1>7, <2>1, <2>2
  <2>4. CASE n < l
    BY <1>3, <2>1, <2>2, <2>4 DEF Missing
  <2>5. CASE ~(n < l)
    BY <1>a, <2>1, <2>2, <2>3, <2>5
  <2> QED
    BY <2>4, <2>5
<1>10. CASE m.from # Me /\ Gap(m.seq) /\ client.lastSeq > 0
  <2>1. CanPull(l) /\ pulls' = Pull(l) /\ excused' = excused
    BY Zenon, <1>3, <1>10 DEF OnMessage
  <2>2. /\ PullsOK' /\ \E p \in pulls' : ~p.got.read /\ p.after = l
        /\ \A p \in pulls : p \in pulls'
    BY SMTT(30), <1>1, <1>3, <1>4, <1>5, <2>1, NewPull
  <2>3. GapsAreCovered'
    <3> SUFFICES ASSUME ~excused, NEW n \in Missing' PROVE \E p \in pulls' : Returns(p, n)
      BY <2>1 DEF GapsAreCovered, Returns
    <3>1. CASE n \in Missing
      BY <1>1, <2>2, <3>1 DEF GapsAreCovered
    <3>2. CASE l < n
      BY <2>2, <3>2 DEF Returns
    <3> QED
      BY <1>9, <3>1, <3>2
  <2> QED
    BY <1>2, <1>8, <2>2, <2>3 DEF HistoryInv
<1>11. CASE ~(m.from # Me /\ Gap(m.seq) /\ client.lastSeq > 0)
  <2>1. pulls' = pulls /\ excused' = (excused \/ (Gap(s) /\ l > 0))
    BY <1>3, <1>11 DEF OnMessage
  <2>2. PullsOK'
    BY SMTT(30), <1>1, <1>3, <1>4, <1>5, <2>1, OldPulls DEF PullsOK
  <2>3. GapsAreCovered'
    <3> SUFFICES ASSUME ~excused', NEW n \in Missing' PROVE \E p \in pulls : Returns(p, n)
      BY <2>1 DEF GapsAreCovered, Returns
    <3>1. ~(l > 0 /\ l < n /\ n < s)
      <4>1. n \in Nat
        BY <1>2 DEF Missing
      <4>2. ~(Gap(s) /\ l > 0)
        BY Zenon, <2>1
      <4> QED
        BY <1>3, <4>1, <4>2 DEF Gap
    <3> QED
      BY Zenon, <1>1, <1>9, <2>1, <3>1 DEF GapsAreCovered
  <2> QED
    BY <1>2, <1>8, <2>2, <2>3 DEF HistoryInv
<1> QED
  BY <1>10, <1>11

LEMMA ConnectInv == ASSUME HistoryInv, Disconnect \/ Reconnect PROVE HistoryInv'
<1>1. StoredOK /\ ClientOK /\ PullsOK /\ GapsAreCovered /\ UNCHANGED serverVars
  BY DEF HistoryInv, Disconnect, Reconnect
<1>2. /\ StoredOK' /\ WritersOK' /\ LastNumber' = LastNumber /\ Seqs' = Seqs
  BY <1>1, ServerStays
<1>3. PICK f \in Flags : client' = [client EXCEPT !.on = f]
  BY Zenon DEF Disconnect, Reconnect, Flags
<1>4. client' \in ClientState /\ client'.lastSeq = client.lastSeq /\ client'.seen = client.seen
  BY <1>3, ClientFields DEF ClientState
<1>5. first' = first /\ excused' = excused
  BY DEF Disconnect, Reconnect
<1>6. ClientOK' /\ Missing' = Missing
  BY <1>1, <1>2, <1>4, <1>5 DEF ClientOK, Missing
<1>7. PullsOK' /\ \A p \in pulls : p \in pulls'
  <2>1. CASE pulls' = pulls
    BY <1>1, <1>4, <2>1, OldPulls, ClientFields DEF PullsOK
  <2>2. CASE CanPull(client.lastSeq) /\ pulls' = Pull(client.lastSeq)
    <3>1. PICK l \in Nat : l = client.lastSeq
      BY ClientFields
    <3> QED
      BY <1>1, <1>4, <2>2, <3>1, NewPull
  <2> QED
    BY <2>1, <2>2 DEF Disconnect, Reconnect
<1>8. GapsAreCovered'
  BY <1>1, <1>5, <1>6, <1>7 DEF GapsAreCovered, Returns
<1> QED
  BY <1>2, <1>6, <1>7, <1>8 DEF HistoryInv

-----------------------------------------------------------------------------
(***************************************************************************)
(* message.go, ListAfter: a page is the messages from its cursor on, as    *)
(* many as there are or the page holds.                                    *)
(***************************************************************************)
LEMMA PageIsInterval ==
  ASSUME StoredOK, NEW a \in Nat, a <= LastNumber
  PROVE  \E b \in a..LastNumber : ListAfter(a) = (a + 1)..b
<1>1. LastNumber \in Nat /\ After(a) = (a + 1)..LastNumber
  BY StoredNumbers DEF After
<1>2. ASSUME NEW n \in (a + 1)..LastNumber
      PROVE  Cardinality({k \in After(a) : k <= n}) = n - a
  <2>1. {k \in After(a) : k <= n} = (a + 1)..n
    BY <1>1
  <2>2. Cardinality((a + 1)..n) = IF a + 1 > n THEN 0 ELSE n - (a + 1) + 1
    <3>1. a + 1 \in Int /\ n \in Int
      BY <1>1
    <3> QED
      BY <3>1, FS_Interval
  <2>3. PICK c : c = Cardinality((a + 1)..n)
    OBVIOUS
  <2>4. c = n - a
    BY <1>1, <2>2, <2>3
  <2> QED
    BY Zenon, <2>1, <2>3, <2>4
<1>3. ListAfter(a) = {n \in (a + 1)..LastNumber : n - a <= Page}
  BY <1>1, <1>2 DEF ListAfter
<1>4. CASE a + Page <= LastNumber
  <2>1. ListAfter(a) = (a + 1)..(a + Page)
    BY <1>1, <1>3, <1>4, HistoryConstants
  <2>2. a + Page \in a..LastNumber
    BY <1>1, <1>4, HistoryConstants
  <2> QED
    BY Zenon, <2>1, <2>2
<1>5. CASE ~(a + Page <= LastNumber)
  <2>1. ListAfter(a) = (a + 1)..LastNumber
    BY <1>1, <1>3, <1>5, HistoryConstants
  <2>2. LastNumber \in a..LastNumber
    BY <1>1
  <2> QED
    BY Zenon, <2>1, <2>2
<1> QED
  BY <1>4, <1>5

(***************************************************************************)
(* The server answers a pull: what is beyond the page and below lastSeq is *)
(* excused.                                                                *)
(***************************************************************************)
LEMMA ReadHistoryInv == ASSUME HistoryInv, NEW p \in pulls, ReadHistory(p) PROVE HistoryInv'
<1>1. StoredOK /\ ClientOK /\ PullsOK /\ GapsAreCovered /\ PullOK(p) /\ UNCHANGED serverVars
  BY DEF HistoryInv, PullsOK, ReadHistory
<1>2. /\ StoredOK' /\ WritersOK' /\ LastNumber' = LastNumber /\ Seqs' = Seqs
      /\ LastNumber \in Nat /\ Seqs = 1..LastNumber
  BY <1>1, ServerStays
<1>3. /\ ~p.got.read /\ client' = client /\ first' = first
      /\ pulls' = (pulls \ {p}) \cup {[p EXCEPT !.got = [read |-> TRUE, page |-> ListAfter(p.after)]]}
      /\ excused' = (excused \/ \E n \in After(p.after) \ ListAfter(p.after) : n < client.lastSeq)
  BY DEF ReadHistory
<1>4. p \in PullState /\ p.after \in Nat /\ p.after <= client.lastSeq /\ p.after <= LastNumber
  BY <1>1, <1>2, ClientFields DEF PullOK, PullState
<1>5. PICK b \in p.after..LastNumber : ListAfter(p.after) = (p.after + 1)..b
  BY Zenon, <1>1, <1>4, PageIsInterval
<1>6. PICK page \in Numbers : page = ListAfter(p.after) /\ page = (p.after + 1)..b
  <2>1. (p.after + 1)..b \in Numbers
    BY <1>2, <1>4 DEF Numbers
  <2> QED
    BY Zenon, <1>5, <2>1
<1>7. PICK t \in Flags : t = TRUE
  BY Zenon DEF Flags
<1>8. PICK g \in PageAnswer : g = [read |-> t, page |-> page] /\ g.read = t /\ g.page = page
  <2>1. [read |-> t, page |-> page] \in PageAnswer
    BY DEF PageAnswer
  <2> QED
    BY <2>1
<1>9. PICK q \in PullState : q = [p EXCEPT !.got = g] /\ q.after = p.after /\ q.got = g
  <2>1. [p EXCEPT !.got = g] \in PullState /\ [p EXCEPT !.got = g].after = p.after
        /\ [p EXCEPT !.got = g].got = g
    BY <1>4 DEF PullState
  <2> QED
    BY Zenon, <2>1
<1>10. pulls' = (pulls \ {p}) \cup {q}
  BY Zenon, <1>3, <1>6, <1>7, <1>8, <1>9
<1>11. PullsOK'
  <2>1. IsFiniteSet(pulls) /\ Cardinality(pulls) \in Nat /\ Cardinality(pulls) <= MaxPulls
    BY <1>1, FS_CardinalityType DEF PullsOK
  <2>2. PICK R : R = pulls \ {p}
    OBVIOUS
  <2>3. IsFiniteSet(R) /\ Cardinality(R) = Cardinality(pulls) - 1 /\ pulls' = R \cup {q}
    BY <1>10, <2>1, <2>2, FS_RemoveElement
  <2>a. /\ IsFiniteSet(R \cup {q})
        /\ Cardinality(R \cup {q}) = IF q \in R THEN Cardinality(R) ELSE Cardinality(R) + 1
    BY <2>3, FS_AddElement
  <2>b. IsFiniteSet(pulls') /\ Cardinality(pulls') \in Nat /\ Cardinality(pulls') <= Cardinality(pulls)
    BY <2>1, <2>3, <2>a, FS_CardinalityType
  <2>c. Cardinality(pulls') <= MaxPulls
    BY <2>1, <2>b, HistoryConstants
  <2>4. PullOK(q)'
    BY <1>2, <1>3, <1>4, <1>5, <1>6, <1>8, <1>9 DEF PullOK
  <2>5. \A r \in pulls : PullOK(r)'
    BY <1>1, <1>3, ClientFields, OldPulls
  <2>d. \A r \in pulls' : PullOK(r)'
    BY <1>10, <2>4, <2>5
  <2> QED
    BY Zenon, <2>b, <2>c, <2>d DEF PullsOK
<1>12. ClientOK'
  BY <1>1, <1>2, <1>3 DEF ClientOK
<1>13. GapsAreCovered'
  <2> SUFFICES ASSUME ~excused', NEW n \in Missing' PROVE \E r \in pulls' : Returns(r, n)
    BY DEF GapsAreCovered, Returns
  <2>1. ~excused /\ n \in Missing /\ n \in Seqs /\ n < client.lastSeq
    BY Zenon, <1>2, <1>3 DEF Missing
  <2>2. PICK r \in pulls : Returns(r, n)
    BY <1>1, <2>1 DEF GapsAreCovered
  <2>3. CASE r # p
    BY <1>10, <2>2, <2>3
  <2>4. CASE r = p
    <3>1. n \in After(p.after)
      BY <1>3, <2>1, <2>2, <2>4 DEF Returns, After
    <3>2. n \in page
      BY Zenon, <1>3, <1>6, <2>1, <3>1
    <3>3. Returns(q, n)
      BY <1>7, <1>8, <1>9, <3>2 DEF Returns
    <3> QED
      BY <1>10, <3>3
  <2> QED
    BY <2>3, <2>4
<1> QED
  BY <1>2, <1>11, <1>12, <1>13 DEF HistoryInv

\* A pull is over: the others are as they were.
LEMMA PullOver ==
  ASSUME HistoryInv, UNCHANGED serverVars, NEW p \in pulls, pulls' = pulls \ {p},
         client'.lastSeq \in Nat, client.lastSeq <= client'.lastSeq
  PROVE  PullsOK'
<1>1. IsFiniteSet(pulls) /\ Cardinality(pulls) \in Nat /\ Cardinality(pulls) <= MaxPulls
  BY FS_CardinalityType DEF HistoryInv, PullsOK
<1>2. IsFiniteSet(pulls') /\ Cardinality(pulls') = Cardinality(pulls) - 1
  BY <1>1, FS_RemoveElement
<1> QED
  BY <1>1, <1>2, OldPulls, HistoryConstants DEF PullsOK

(***************************************************************************)
(* The client gets a page: nothing of it is missing any more, and what     *)
(* lies between the old lastSeq and the new one is in it.                  *)
(***************************************************************************)
LEMMA PulledInv == ASSUME HistoryInv, NEW p \in pulls, Pulled(p) PROVE HistoryInv'
<1>1. StoredOK /\ ClientOK /\ PullsOK /\ GapsAreCovered /\ PullOK(p) /\ UNCHANGED serverVars
  BY DEF HistoryInv, PullsOK, Pulled
<1>2. /\ StoredOK' /\ WritersOK' /\ LastNumber' = LastNumber /\ Seqs' = Seqs
      /\ LastNumber \in Nat /\ Seqs = 1..LastNumber
  BY <1>1, ServerStays
<1>3. PICK a \in Nat, l \in Nat : a = p.after /\ l = client.lastSeq /\ a <= l
  BY <1>1, ClientFields DEF PullOK, PullState
<1>4. PICK b \in a..LastNumber : p.got.page = (a + 1)..b /\ p.got.read
  BY <1>1, <1>3 DEF PullOK, Pulled
<1>5. PICK page \in Numbers : page = (a + 1)..b /\ page = p.got.page
  <2>1. (a + 1)..b \in Numbers
    BY <1>2 DEF Numbers
  <2> QED
    BY Zenon, <1>4, <2>1
<1>6. PICK k \in Nat : k = (IF l >= b THEN l ELSE b) /\ k = Max({l} \cup page)
  <2>1. {l} \cup page \in SUBSET Nat
    BY DEF Numbers
  <2>2. CASE l >= b
    BY <1>2, <1>5, <2>1, <2>2, MaxIs
  <2>3. CASE ~(l >= b)
    <3>1. b \in {l} \cup page /\ \A y \in {l} \cup page : y <= b
      BY <1>2, <1>3, <1>5, <2>3
    <3>2. Max({l} \cup page) = b
      BY <2>1, <3>1, MaxIs
    <3> QED
      BY <1>2, <2>3, <3>2
  <2> QED
    BY <2>2, <2>3
<1>7. client' \in ClientState /\ client'.seen = client.seen \cup page /\ client'.lastSeq = k
  <2>1. client' = [client EXCEPT !.seen = @ \cup page, !.lastSeq = Max({@} \cup page)]
    BY Zenon, <1>5 DEF Pulled
  <2>2. client' = [client EXCEPT !.seen = @ \cup page, !.lastSeq = Max({l} \cup page)]
    BY <1>3, <2>1, ClientFields DEF ClientState
  <2>3. {l} \cup page \in SUBSET Nat
    BY DEF Numbers
  <2> QED
    BY Zenon, <1>6, <2>2, <2>3, ClientSees
<1>8. /\ pulls' = pulls \ {p} /\ excused' = excused
      /\ first' = IF first = 0 /\ page # {} THEN 1 ELSE first
  BY Zenon, <1>5 DEF Pulled
<1>9. /\ client.lastSeq \in Nat /\ client.seen \subseteq 1..LastNumber /\ l <= LastNumber
      /\ l \in client.seen \cup {0} /\ first \in 0..l /\ (first = 0 <=> l = 0)
  BY <1>3, ClientFields
<1>10. ClientOK'
  <2>1. page \subseteq 1..LastNumber
    BY <1>2, <1>5
  <2>2. k <= LastNumber /\ k \in client.seen \cup page \cup {0}
    BY <1>2, <1>3, <1>5, <1>6, <1>9
  <2>3. page = {} <=> b = a
    BY <1>2, <1>5
  <2>4. first' \in 0..k /\ (first' = 0 <=> k = 0)
    BY <1>2, <1>3, <1>6, <1>8, <1>9, <2>3
  <2>5. client.seen \cup page \subseteq 1..LastNumber
    BY <1>9, <2>1
  <2>6. excused' \in BOOLEAN
    BY <1>1, <1>8 DEF ClientOK
  <2> QED
    BY <1>2, <1>7, <2>1, <2>2, <2>4, <2>5, <2>6 DEF ClientOK
<1>11. PullsOK'
  <2>1. k >= l
    BY <1>2, <1>6
  <2>2. client'.lastSeq \in Nat /\ client.lastSeq <= client'.lastSeq
    BY <1>3, <1>7, <2>1
  <2> QED
    BY Zenon, <1>1, <1>8, <2>2, PullOver
<1>12. \A n \in Missing' : n \in Missing /\ n \notin page
  <2> SUFFICES ASSUME NEW n \in Missing' PROVE n \in Missing /\ n \notin page
    OBVIOUS
  <2>1. n \in Seqs /\ n \in Nat /\ first' < n /\ n < k /\ n \notin client.seen /\ n \notin page
    BY <1>2, <1>7 DEF Missing
  <2>2. n < l
    <3>1. ~(l <= n)
      <4> SUFFICES ASSUME l <= n PROVE FALSE
        OBVIOUS
      <4>1. n < b
        BY <1>2, <1>6, <2>1
      <4>2. n = a
        BY <1>2, <1>3, <1>5, <2>1, <4>1
      <4>3. l = 0
        BY <1>3, <1>9, <2>1, <4>2
      <4>4. page # {}
        BY <1>2, <1>5, <4>1, <4>2
      <4> QED
        BY <1>3, <1>8, <1>9, <2>1, <4>2, <4>3, <4>4
    <3> QED
      BY <2>1, <3>1
  <2>3. first < n
    BY <1>8, <1>9, <2>1, <2>2
  <2> QED
    BY <1>3, <2>1, <2>2, <2>3 DEF Missing
<1>13. GapsAreCovered'
  <2> SUFFICES ASSUME ~excused, NEW n \in Missing' PROVE \E r \in pulls' : Returns(r, n)
    BY <1>8 DEF GapsAreCovered, Returns
  <2>1. PICK r \in pulls : Returns(r, n)
    BY <1>1, <1>12 DEF GapsAreCovered
  <2>2. r # p
    BY <1>4, <1>5, <1>12, <2>1 DEF Returns
  <2> QED
    BY <1>8, <2>1, <2>2
<1> QED
  BY <1>2, <1>10, <1>11, <1>13 DEF HistoryInv

LEMMA PullFailsInv == ASSUME HistoryInv, PullFails PROVE HistoryInv'
<1>1. ClientOK /\ UNCHANGED serverVars
  BY DEF HistoryInv, PullFails
<1>2. /\ StoredOK' /\ WritersOK' /\ LastNumber' = LastNumber
  BY <1>1, ServerStays
<1>3. PICK p \in pulls : pulls' = pulls \ {p}
  BY DEF PullFails
<1>4. client' = client /\ first' = first /\ excused' = TRUE
  BY DEF PullFails
<1>5. PullsOK'
  BY <1>1, <1>3, <1>4, ClientFields, PullOver
<1>6. ClientOK'
  BY <1>1, <1>2, <1>4 DEF ClientOK
<1> QED
  BY <1>2, <1>4, <1>5, <1>6 DEF HistoryInv, GapsAreCovered

LEMMA HistoryInductive == HistoryInv /\ [HistoryNext]_historyVars => HistoryInv'
<1> SUFFICES ASSUME HistoryInv, [HistoryNext]_historyVars PROVE HistoryInv'
  OBVIOUS
<1>1. CASE HistoryNext
  BY Zenon, <1>1, NumberInv, CommitMessageInv, RollbackMessageInv, OnMessageInv, ConnectInv,
     ReadHistoryInv, PulledInv, PullFailsInv DEF HistoryNext, AnswerPull
<1>2. CASE UNCHANGED historyVars
  <2>1. /\ wtx' = wtx /\ stored' = stored /\ client' = client /\ first' = first
        /\ pulls' = pulls /\ excused' = excused
    BY <1>2 DEF historyVars
  <2> QED
    BY Zenon, <2>1 DEF HistoryInv, StoredOK, WritersOK, ClientOK, PullsOK, PullOK, GapsAreCovered,
                       LastNumber, Missing, Seqs, Returns
<1> QED
  BY <1>1, <1>2

LEMMA HistoryFollows == HistoryInv => HistoryTypeOK /\ GapsAreCovered
<1> SUFFICES ASSUME HistoryInv PROVE HistoryTypeOK
  BY DEF HistoryInv
<1>1. LastNumber \in Nat /\ Seqs = 1..LastNumber /\ LastNumber <= MaxSeq
  BY StoredNumbers DEF HistoryInv, StoredOK
<1>2. \A w \in Writer : wtx[w] \in 0..MaxSeq
  BY HistoryConstants DEF HistoryInv, WritersOK
<1>3. Cardinality(pulls) <= MaxPulls
  BY DEF HistoryInv, PullsOK
<1>4. client.lastSeq \in {0} \cup Seqs /\ client.seen \subseteq Seqs /\ first <= client.lastSeq
  BY <1>1, ClientFields
<1> QED
  BY <1>2, <1>3, <1>4 DEF HistoryTypeOK

(***************************************************************************)
(* web/app.js and message.go: over pushes lost, late or repeated, and      *)
(* messages that go on being written, what lies between the first message  *)
(* of a client and lastSeq has been seen or is returned by a pull on its   *)
(* way, unless a pull has failed, a page has ended below lastSeq, or an    *)
(* own message came over a gap.                                            *)
(***************************************************************************)
THEOREM NoMessageIsSkipped == HistorySpec => []GapsAreCovered
<1>1. HistoryInv => GapsAreCovered
  BY HistoryFollows
<1> QED
  BY <1>1, HistoryInitInv, HistoryInductive, PTL DEF HistorySpec

-----------------------------------------------------------------------------
\* Likes.

LEMMA LikesConstants ==
  /\ Recent \in Nat /\ Recent > 0 /\ NoRow \notin Nat /\ MaxAct \in Nat /\ IsFiniteSet(Reader)
  /\ Cardinality(Reader) \in Nat /\ 0 \in Readers
<1>1. Recent \in Nat /\ Recent > 0 /\ NoRow \notin Nat /\ MaxAct \in Nat /\ IsFiniteSet(Reader)
  BY LikesAssumption DEF LikesAssumption
<1>2. Cardinality(Reader) \in Nat
  BY <1>1, FS_CardinalityType
<1> QED
  BY <1>1, <1>2 DEF Readers

\* No counter is above the number of readers.
LEMMA CountedIsReaders == ASSUME NEW a PROVE Counted(a) \in Readers
<1> DEFINE C == {u \in Reader : rows[a][u] # NoRow}
<1>1. C \subseteq Reader
  OBVIOUS
<1> HIDE DEF C
<1>2. IsFiniteSet(C) /\ Cardinality(C) <= Cardinality(Reader)
  BY <1>1, LikesConstants, FS_Subset
<1>3. Cardinality(C) \in Nat
  BY <1>2, FS_CardinalityType
<1>4. Counted(a) = Cardinality(C)
  BY DEF Counted, C
<1> QED
  BY <1>2, <1>3, <1>4, LikesConstants DEF Readers

LEMMA AgesOfRows ==
  /\ 0 \in RowAges /\ NoRow \in RowAges
  /\ \A x \in RowAges : Older(x) \in RowAges
<1>1. Recent \in Nat /\ NoRow \notin Nat
  BY LikesConstants
<1>2. 0 \in RowAges /\ NoRow \in RowAges
  BY <1>1 DEF RowAges, Age
<1>3. ASSUME NEW x \in RowAges PROVE Older(x) \in RowAges
  BY <1>1, <1>3 DEF RowAges, Age, Older
<1> QED
  BY <1>2, <1>3

LEMMA LikesInitInv == LikesInit => LikesInv
<1> SUFFICES ASSUME LikesInit PROVE LikesInv
  OBVIOUS
<1>1. LikesTyped
  BY LikesConstants, AgesOfRows DEF LikesInit, LikesTyped
<1>2. TogglesRequested
  BY LikesConstants DEF LikesInit, TogglesRequested
<1> QED
  BY <1>1, <1>2 DEF LikesInv

\* One row changes.
LEMMA OneRow ==
  ASSUME LikesTyped, NEW a \in Actions, NEW u \in Reader, NEW x \in RowAges
  PROVE  [rows EXCEPT ![a][u] = x] \in [Actions -> [Reader -> RowAges]]
  BY DEF LikesTyped

LEMMA LikesRequestInv ==
  ASSUME LikesInv, NEW u \in Reader, ToggleInsert(u) \/ AddComment(u)
  PROVE  LikesInv'
<1>1. "like" \in Actions /\ "comment" \in Actions
  BY DEF Actions
<1>2. acts \in Nat /\ acts' = acts + 1 /\ acts' \in 0..MaxAct
  BY LikesConstants DEF LikesInv, TogglesRequested, ToggleInsert, AddComment, Request
<1>3. counters' = counters /\ flush' = flush
  BY DEF ToggleInsert, AddComment
<1>4. toggles \in [Reader -> Nat] /\ \A v \in Reader : toggles[v] <= acts
  BY DEF LikesInv, LikesTyped, TogglesRequested
<1>5. toggles' \in [Reader -> Nat] /\ \A v \in Reader : toggles'[v] <= acts'
  <2>1. toggles' = toggles \/ toggles' = [toggles EXCEPT ![u] = @ + 1]
    BY DEF ToggleInsert, AddComment
  <2> QED
    BY <2>1, <1>2, <1>4
<1>6. rows' \in [Actions -> [Reader -> RowAges]]
  <2>1. LikesTyped /\ rows \in [Actions -> [Reader -> RowAges]]
    BY DEF LikesInv, LikesTyped
  <2>2. CASE ToggleInsert(u)
    <3>1. rows' = rows \/ rows' = [rows EXCEPT !["like"][u] = 0]
      BY <2>2 DEF ToggleInsert
    <3>2. PICK x \in RowAges : x = 0
      BY AgesOfRows
    <3>3. [rows EXCEPT !["like"][u] = x] \in [Actions -> [Reader -> RowAges]]
      BY <2>1, <1>1, OneRow
    <3> QED
      BY Zenon, <3>1, <3>2, <3>3, <2>1
  <2>3. CASE AddComment(u)
    <3> DEFINE x == IF rows["comment"][u] = NoRow THEN 0 ELSE rows["comment"][u]
    <3>1. rows' = [rows EXCEPT !["comment"][u] = x]
      BY <2>3 DEF AddComment
    <3>2. x \in RowAges
      BY <2>1, <1>1, AgesOfRows
    <3> HIDE DEF x
    <3> QED
      BY <3>1, <3>2, <2>1, <1>1, OneRow
  <2> QED
    BY <2>2, <2>3
<1> QED
  BY <1>2, <1>3, <1>5, <1>6 DEF LikesInv, LikesTyped, TogglesRequested

LEMMA ToggleDeleteInv == ASSUME LikesInv, NEW u \in Reader, ToggleDelete(u) PROVE LikesInv'
<1>1. /\ toggles \in [Reader -> Nat] /\ \A v \in Reader : toggles[v] <= acts
      /\ acts \in 0..MaxAct /\ acts \in Nat
  BY LikesConstants DEF LikesInv, LikesTyped, TogglesRequested
<1>2. toggles[u] > 0 /\ toggles' = [toggles EXCEPT ![u] = @ - 1]
  BY DEF ToggleDelete
<1>3. toggles' \in [Reader -> Nat] /\ \A v \in Reader : toggles'[v] <= acts
  BY <1>1, <1>2
<1>4. rows' = [rows EXCEPT !["like"][u] = NoRow] /\ counters' = counters /\ flush' = flush /\ acts' = acts
  BY DEF ToggleDelete
<1>5. rows' \in [Actions -> [Reader -> RowAges]]
  <2>1. "like" \in Actions /\ LikesTyped
    BY DEF Actions, LikesInv
  <2> QED
    BY <1>4, <2>1, AgesOfRows, OneRow
<1> QED
  BY <1>1, <1>3, <1>4, <1>5 DEF LikesInv, LikesTyped, TogglesRequested

LEMMA FlushPassInv == ASSUME LikesInv, RunCounters \/ FlushFails PROVE LikesInv'
<1>1. LikesTyped /\ TogglesRequested
  BY DEF LikesInv
<1>2. toggles' = toggles /\ acts' = acts
  BY DEF RunCounters, Period, TouchedPostIDs, RecountPostCounters, FlushFails
<1>3. flush' \in {"wait", "touched", "recount"}
  BY DEF RunCounters, Period, TouchedPostIDs, RecountPostCounters, FlushFails
<1>4. rows' \in [Actions -> [Reader -> RowAges]]
  <2>1. rows' = rows \/ rows' = [a \in Actions |-> [u \in Reader |-> Older(rows[a][u])]]
    BY DEF RunCounters, Period, TouchedPostIDs, RecountPostCounters, FlushFails
  <2>2. rows \in [Actions -> [Reader -> RowAges]]
    BY <1>1 DEF LikesTyped
  <2>3. \A a \in Actions, u \in Reader : Older(rows[a][u]) \in RowAges
    BY <2>2, AgesOfRows
  <2> QED
    BY <2>1, <2>2, <2>3
<1>5. counters' \in [Actions -> Readers]
  <2>1. counters' = counters \/ counters' = [a \in Actions |-> Counted(a)]
    BY DEF RunCounters, Period, TouchedPostIDs, RecountPostCounters, FlushFails
  <2>2. counters \in [Actions -> Readers]
    BY <1>1 DEF LikesTyped
  <2>3. \A a \in Actions : Counted(a) \in Readers
    BY CountedIsReaders
  <2> QED
    BY <2>1, <2>2, <2>3
<1> QED
  BY <1>1, <1>2, <1>3, <1>4, <1>5 DEF LikesInv, LikesTyped, TogglesRequested

LEMMA LikesInductive == LikesInv /\ [LikesNext]_likesVars => LikesInv'
<1> SUFFICES ASSUME LikesInv, [LikesNext]_likesVars PROVE LikesInv'
  OBVIOUS
<1>1. CASE LikesNext
  BY <1>1, FlushPassInv, LikesRequestInv, ToggleDeleteInv DEF LikesNext
<1>2. CASE UNCHANGED likesVars
  BY <1>2 DEF likesVars, LikesInv, LikesTyped, TogglesRequested
<1> QED
  BY <1>1, <1>2

LEMMA LikesFollows == LikesInv => LikesTypeOK
<1> SUFFICES ASSUME LikesInv PROVE LikesTypeOK
  OBVIOUS
<1>1. toggles \in [Reader -> 0..MaxAct]
  BY LikesConstants DEF LikesInv, LikesTyped, TogglesRequested
<1> QED
  BY <1>1 DEF LikesInv, LikesTyped, LikesTypeOK, RowAges, Readers

-----------------------------------------------------------------------------
\* A connection.

LEMMA ConnectionConstants ==
  Capacity \in Nat /\ Capacity > 0 /\ MaxFrame \in Nat /\ MaxPush \in Nat /\ MaxProduceFail \in Nat
  BY ConnectionAssumption DEF ConnectionAssumption

LEMMA ItemsOf ==
  /\ \A r \in Replies : Reply(r) \in Item
  /\ \A i \in Pushes : Pushed(i) \in Item
  BY DEF Item, Reply, Pushed

LEMMA AtReadOK == AtRead \in ReaderState /\ AtRead.pc = "read"
<1> DEFINE none == ""
<1>1. none \in AnyFrame /\ none \in AnyReply
  BY Zenon DEF AnyFrame, AnyReply
<1>2. AtRead = [pc |-> "read", frame |-> none, reply |-> none]
  BY Zenon DEF AtRead
<1> HIDE DEF none
<1>3. "read" \in ReaderPc
  BY DEF ReaderPc
<1> QED
  BY <1>1, <1>2, <1>3 DEF ReaderState

LEMMA ConnectionInitInv == ConnectionInit => ConnectionInv
<1> SUFFICES ASSUME ConnectionInit PROVE ConnectionInv
  OBVIOUS
<1>1. TRUE \in Flags /\ FALSE \in Flags
  BY DEF Flags
<1>2. <<>> \in Packets /\ <<>> \in Seq(Packets) /\ Len(<<>>) = 0
  BY DEF Packets
<1>3. SaidOK /\ SocketOK
  <2>1. said = <<>> /\ unread = 0 /\ peer = "here" /\ socket = TRUE /\ idle = FALSE /\ alive = TRUE
    BY Zenon DEF ConnectionInit
  <2>2. said \in Seq(Frame) /\ unread \in 0..Len(said)
    BY <2>1
  <2>3. peer \in {"here", "silent", "gone"} /\ socket \in Flags /\ idle \in Flags /\ alive \in Flags
    BY Zenon, <1>1, <2>1
  <2> QED
    BY Zenon, <2>2, <2>3 DEF SaidOK, SocketOK
<1>4. ReaderOK
  <2>1. reader = AtRead
    BY Zenon DEF ConnectionInit
  <2> QED
    BY <2>1, AtReadOK DEF ReaderOK
<1>5. ChanOK /\ WriterOK
  <2>1. PICK b \in Packets : b = <<>> /\ Len(b) = 0
    BY Zenon, <1>2
  <2>2. PICK no \in Flags : no = FALSE
    BY Zenon, <1>1
  <2>3. chan = [buf |-> b, closed |-> no] /\ writer = [pc |-> "wait", packet |-> b] /\ got = b
    BY Zenon, <2>1, <2>2 DEF ConnectionInit
  <2>4. "wait" \in WriterPc
    BY DEF WriterPc
  <2>5. chan \in ChanState /\ chan.buf = b /\ writer \in WriterState
    BY <2>3, <2>4 DEF ChanState, WriterState
  <2>6. Len(chan.buf) <= Capacity /\ got \in Seq(Packets)
    BY <1>2, <2>1, <2>3, <2>5, ConnectionConstants
  <2> QED
    BY Zenon, <2>5, <2>6 DEF ChanOK, WriterOK
<1>6. ManagerOK /\ RelayOK
  <2>1. /\ manager = [entry |-> "this", unregister |-> FALSE, kick |-> FALSE]
        /\ relay = [next |-> 1, holds |-> FALSE, delivered |-> {}]
    BY Zenon DEF ConnectionInit
  <2>2. "this" \in Entries /\ 1 \in Turn /\ {} \in PushSets
    BY ConnectionConstants DEF Entries, Turn, PushSets
  <2> QED
    BY Zenon, <1>1, <2>1, <2>2 DEF ManagerOK, ManagerState, RelayOK, RelayState
<1>7. LogOK
  <2>1. msgLog = <<>> /\ refused = 0
    BY Zenon DEF ConnectionInit
  <2> QED
    BY <2>1, ConnectionConstants DEF LogOK
<1> QED
  BY Zenon, <1>3, <1>4, <1>5, <1>6, <1>7 DEF ConnectionInv

\* What the variables of each part say stays with them.
LEMMA PartsStay ==
  ASSUME ConnectionInv
  PROVE  /\ UNCHANGED <<said, unread>> => SaidOK'
         /\ UNCHANGED <<peer, socket, idle, alive>> => SocketOK'
         /\ UNCHANGED reader => ReaderOK'
         /\ UNCHANGED chan => ChanOK'
         /\ UNCHANGED <<writer, got>> => WriterOK'
         /\ UNCHANGED manager => ManagerOK'
         /\ UNCHANGED relay => RelayOK'
         /\ UNCHANGED <<msgLog, refused>> => LogOK'
<1>1. SaidOK /\ SocketOK /\ ReaderOK /\ ChanOK /\ WriterOK /\ ManagerOK /\ RelayOK /\ LogOK
  BY DEF ConnectionInv
<1> QED
  BY <1>1 DEF SaidOK, SocketOK, ReaderOK, ChanOK, WriterOK, ManagerOK, RelayOK, LogOK

\* Sockets, clocks and the process: flags.
LEMMA SocketStays ==
  ASSUME ConnectionInv,
         peer' \in {peer, "silent", "gone"}, socket' \in {socket, FALSE},
         idle' \in {idle, TRUE, FALSE}, alive' \in {alive, FALSE}
  PROVE  SocketOK'
  BY Zenon DEF ConnectionInv, SocketOK, Flags

LEMMA ClientInv ==
  ASSUME ConnectionInv, PeerLeaves \/ GoIdle \/ \E f \in Frame : ClientSends(f)
  PROVE  ConnectionInv'
<1>1. /\ UNCHANGED reader /\ UNCHANGED chan /\ UNCHANGED <<writer, got>> /\ UNCHANGED manager
      /\ UNCHANGED relay /\ UNCHANGED <<msgLog, refused>>
  BY DEF PeerLeaves, GoIdle, ClientSends
<1>2. SocketOK'
  <2>1. /\ peer' \in {peer, "silent", "gone"} /\ socket' \in {socket, FALSE}
        /\ idle' \in {idle, TRUE, FALSE} /\ alive' \in {alive, FALSE}
    BY Zenon DEF PeerLeaves, GoIdle, ClientSends
  <2> QED
    BY Zenon, <2>1, SocketStays
<1>3. SaidOK'
  <2>1. CASE UNCHANGED <<said, unread>>
    BY <2>1, PartsStay
  <2>2. ASSUME NEW f \in Frame, ClientSends(f) PROVE SaidOK'
    <3>1. said' = Append(said, f) /\ unread' = unread + 1
      BY <2>2 DEF ClientSends
    <3> QED
      BY <3>1 DEF ConnectionInv, SaidOK
  <2> QED
    BY <2>1, <2>2 DEF PeerLeaves, GoIdle
<1> QED
  BY Zenon, <1>1, <1>2, <1>3, PartsStay DEF ConnectionInv

\* The next frame is one the client has sent.
LEMMA NextIsFrame == ASSUME ConnectionInv, unread > 0 PROVE NextFrame \in Frame
<1>1. said \in Seq(Frame) /\ unread \in 0..Len(said)
  BY DEF ConnectionInv, SaidOK
<1>2. Len(said) - unread + 1 \in 1..Len(said)
  BY <1>1
<1> QED
  BY <1>1, <1>2 DEF NextFrame

LEMMA ReaderFields ==
  ASSUME ConnectionInv
  PROVE  reader \in ReaderState /\ reader.pc \in ReaderPc /\ reader.frame \in AnyFrame /\ reader.reply \in AnyReply
  BY DEF ConnectionInv, ReaderOK, ReaderState

LEMMA ReaderAnswers ==
  ASSUME ConnectionInv, NEW r \in Replies, reader' = [reader EXCEPT !.pc = "answer", !.reply = r]
  PROVE  ReaderOK'
<1>1. PICK p \in ReaderPc : p = "answer"
  BY DEF ReaderPc
<1>2. r \in AnyReply
  BY Zenon DEF AnyReply
<1>3. reader' = [reader EXCEPT !.pc = p, !.reply = r]
  BY <1>1
<1>4. reader' \in ReaderState /\ reader'.pc = p /\ reader'.reply = r
  BY Zenon, <1>2, <1>3, ReaderFields DEF ReaderState
<1> QED
  BY <1>1, <1>4 DEF ReaderOK

LEMMA ReaderProduces ==
  ASSUME ConnectionInv, NEW f \in Msg, reader' = [reader EXCEPT !.pc = "produce", !.frame = f]
  PROVE  ReaderOK'
<1>1. PICK p \in ReaderPc : p = "produce"
  BY DEF ReaderPc
<1>2. f \in AnyFrame
  BY Zenon DEF AnyFrame
<1>3. reader' = [reader EXCEPT !.pc = p, !.frame = f]
  BY <1>1
<1>4. reader' \in ReaderState /\ reader'.pc = p /\ reader'.frame = f
  BY Zenon, <1>2, <1>3, ReaderFields DEF ReaderState
<1> QED
  BY <1>1, <1>4 DEF ReaderOK

LEMMA ReaderReads == ASSUME reader' = AtRead PROVE ReaderOK'
  BY AtReadOK DEF ReaderOK

LEMMA ReaderEnds ==
  ASSUME ConnectionInv, reader' = [reader EXCEPT !.pc = "done"]
  PROVE  ReaderOK'
<1>1. PICK p \in ReaderPc : p = "done"
  BY DEF ReaderPc
<1>2. reader' = [reader EXCEPT !.pc = p]
  BY <1>1
<1>3. reader' \in ReaderState /\ reader'.pc = p
  BY <1>2, ReaderFields DEF ReaderState
<1> QED
  BY <1>1, <1>3 DEF ReaderOK

LEMMA ManagerFields ==
  ASSUME ConnectionInv
  PROVE  /\ manager \in ManagerState /\ manager.entry \in Entries
         /\ manager.unregister \in Flags /\ manager.kick \in Flags
  BY DEF ConnectionInv, ManagerOK, ManagerState

LEMMA ManagerMoves ==
  ASSUME ConnectionInv, NEW e \in Entries, NEW u \in Flags, NEW k \in Flags,
         manager' = [manager EXCEPT !.entry = e, !.unregister = u, !.kick = k]
  PROVE  ManagerOK'
  BY Zenon, ManagerFields DEF ManagerOK, ManagerState

LEMMA ReadFrameInv == ASSUME ConnectionInv, ReadFrame PROVE ConnectionInv'
<1>1. /\ UNCHANGED chan /\ UNCHANGED <<writer, got>> /\ UNCHANGED manager
      /\ UNCHANGED relay /\ UNCHANGED <<msgLog, refused>>
  BY DEF ReadFrame
<1>2. SocketOK'
  <2>1. /\ peer' \in {peer, "silent", "gone"} /\ socket' \in {socket, FALSE}
        /\ idle' \in {idle, TRUE, FALSE} /\ alive' \in {alive, FALSE}
    BY Zenon DEF ReadFrame
  <2> QED
    BY Zenon, <2>1, SocketStays
<1>3. SaidOK'
  BY DEF ReadFrame, ConnectionInv, SaidOK
<1>4. ReaderOK'
  <2>1. CASE Answer("handled")
    <3>1. PICK r \in Replies : r = "handled"
      BY DEF Replies
    <3>2. reader' = [reader EXCEPT !.pc = "answer", !.reply = r]
      BY <2>1, <3>1 DEF Answer
    <3> QED
      BY Zenon, <3>2, ReaderAnswers
  <2>2. ASSUME NEW f \in Msg, reader' = [reader EXCEPT !.pc = "produce", !.frame = f] PROVE ReaderOK'
    BY Zenon, <2>2, ReaderProduces
  <2>3. Handle(NextFrame)
    BY DEF ReadFrame
  <2> QED
    BY Zenon, <2>1, <2>2, <2>3 DEF Handle
<1> QED
  BY Zenon, <1>1, <1>2, <1>3, <1>4, PartsStay DEF ConnectionInv

LEMMA ReadFailsInv == ASSUME ConnectionInv, ReadFails PROVE ConnectionInv'
<1>1. /\ UNCHANGED <<said, unread>> /\ UNCHANGED chan /\ UNCHANGED <<writer, got>>
      /\ UNCHANGED relay /\ UNCHANGED <<msgLog, refused>>
  BY DEF ReadFails
<1>2. SocketOK'
  <2>1. /\ peer' \in {peer, "silent", "gone"} /\ socket' \in {socket, FALSE}
        /\ idle' \in {idle, TRUE, FALSE} /\ alive' \in {alive, FALSE}
    BY Zenon DEF ReadFails
  <2> QED
    BY Zenon, <2>1, SocketStays
<1>3. ReaderOK'
  BY ReaderEnds DEF ReadFails
<1>4. ManagerOK'
  <2>1. PICK u \in Flags : u = TRUE
    BY Zenon DEF Flags
  <2>2. manager' = [manager EXCEPT !.unregister = u]
    BY <2>1 DEF ReadFails
  <2> QED
    BY <2>2, ManagerFields DEF ManagerOK, ManagerState
<1> QED
  BY Zenon, <1>1, <1>2, <1>3, <1>4, PartsStay DEF ConnectionInv

LEMMA ProduceInv == ASSUME ConnectionInv, Produce \/ ProduceFails PROVE ConnectionInv'
<1>1. /\ UNCHANGED <<said, unread>> /\ UNCHANGED <<peer, socket, idle, alive>> /\ UNCHANGED chan
      /\ UNCHANGED <<writer, got>> /\ UNCHANGED manager /\ UNCHANGED relay
  BY DEF Produce, ProduceFails
<1>2. ReaderOK'
  <2>1. PICK r \in Replies : Answer(r)
    BY DEF Replies, Produce, ProduceFails
  <2>2. reader' = [reader EXCEPT !.pc = "answer", !.reply = r]
    BY <2>1 DEF Answer
  <2> QED
    BY Zenon, <2>2, ReaderAnswers
<1>3. LogOK'
  <2>1. reader.frame \in Msg /\ msgLog \in Seq(Msg) /\ refused \in 0..MaxProduceFail
    BY DEF Produce, ProduceFails, ConnectionInv, ReaderOK, LogOK
  <2>2. msgLog' \in {msgLog, Append(msgLog, reader.frame)}
    BY DEF Produce, ProduceFails
  <2>3. refused' \in 0..MaxProduceFail
    BY <2>1, ConnectionConstants DEF Produce, ProduceFails
  <2> QED
    BY <2>1, <2>2, <2>3 DEF LogOK
<1> QED
  BY Zenon, <1>1, <1>2, <1>3, PartsStay DEF ConnectionInv

LEMMA ChanFields ==
  ASSUME ConnectionInv
  PROVE  /\ chan \in ChanState /\ chan.buf \in Packets /\ chan.closed \in Flags
         /\ chan.buf \in Seq(Item) /\ Len(chan.buf) \in Nat /\ Len(chan.buf) <= Capacity
<1>1. chan \in ChanState /\ chan.buf \in Packets /\ chan.closed \in Flags /\ Len(chan.buf) <= Capacity
  BY DEF ConnectionInv, ChanOK, ChanState
<1> QED
  BY <1>1 DEF Packets

\* The buffer of the channel changes.
LEMMA BufferOK ==
  ASSUME ConnectionInv, NEW b \in Packets, Len(b) <= Capacity, chan' = [chan EXCEPT !.buf = b]
  PROVE  ChanOK'
<1>1. chan' \in ChanState /\ chan'.buf = b
  BY ChanFields DEF ChanState
<1> QED
  BY <1>1 DEF ChanOK

LEMMA AppendOK ==
  ASSUME ConnectionInv, HasRoom, NEW x \in Item, chan' = [chan EXCEPT !.buf = Append(@, x)]
  PROVE  ChanOK'
<1> DEFINE b == Append(chan.buf, x)
<1>1. b \in Seq(Item) /\ Len(b) = Len(chan.buf) + 1
  BY ChanFields
<1>2. b \in Packets /\ Len(b) <= Capacity
  BY <1>1, ChanFields, ConnectionConstants DEF Packets, HasRoom
<1>3. chan' = [chan EXCEPT !.buf = b]
  OBVIOUS
<1> HIDE DEF b
<1> QED
  BY <1>2, <1>3, BufferOK

LEMMA ResponseInv == ASSUME ConnectionInv, SendResponse \/ ResponsePanics PROVE ConnectionInv'
<1>1. /\ UNCHANGED <<said, unread>> /\ UNCHANGED <<peer, socket, idle, alive>>
      /\ UNCHANGED <<writer, got>> /\ UNCHANGED manager /\ UNCHANGED relay /\ UNCHANGED <<msgLog, refused>>
  BY DEF SendResponse, ResponsePanics
<1>2. ReaderOK'
  BY ReaderReads DEF SendResponse, ResponsePanics
<1>3. ChanOK'
  <2>1. CASE SendResponse
    <3>1. PICK x \in Item : x = Reply(reader.reply)
      BY <2>1, ItemsOf DEF SendResponse, ConnectionInv, ReaderOK
    <3>2. HasRoom /\ chan' = [chan EXCEPT !.buf = Append(@, x)]
      BY <2>1, <3>1 DEF SendResponse
    <3> QED
      BY <3>2, AppendOK
  <2>2. CASE ResponsePanics
    BY <2>2, PartsStay DEF ResponsePanics
  <2> QED
    BY <2>1, <2>2
<1> QED
  BY Zenon, <1>1, <1>2, <1>3, PartsStay DEF ConnectionInv

\* The channel without its first item, or empty.
LEMMA ShorterBuffer ==
  ASSUME ConnectionInv
  PROVE  /\ <<>> \in Packets /\ Len(<<>>) <= Capacity
         /\ chan.buf # <<>> =>
              /\ Tail(chan.buf) \in Packets /\ Len(Tail(chan.buf)) <= Capacity
              /\ <<Head(chan.buf)>> \in Packets
<1>1. chan.buf \in Seq(Item) /\ Len(chan.buf) <= Capacity
  BY ChanFields
<1> QED
  BY <1>1, ConnectionConstants DEF Packets

LEMMA WriterFields ==
  ASSUME ConnectionInv
  PROVE  writer.packet \in Packets /\ writer.packet \o chan.buf \in Packets /\ got \in Seq(Packets)
<1>1. writer.packet \in Packets /\ got \in Seq(Packets)
  BY DEF ConnectionInv, WriterOK, WriterState
<1>2. writer.packet \o chan.buf \in Packets
  BY <1>1, ChanFields DEF Packets
<1> QED
  BY <1>1, <1>2

LEMMA WriterMoves ==
  ASSUME ConnectionInv, NEW pc \in WriterPc, NEW p \in Packets,
         writer' = [pc |-> pc, packet |-> p], got' = got
  PROVE  WriterOK'
  BY DEF ConnectionInv, WriterOK, WriterState

LEMMA ReceiveInv == ASSUME ConnectionInv, Receive PROVE ConnectionInv'
<1>1. /\ UNCHANGED <<said, unread>> /\ UNCHANGED <<peer, socket, idle, alive>> /\ UNCHANGED reader
      /\ UNCHANGED manager /\ UNCHANGED relay /\ UNCHANGED <<msgLog, refused>>
  BY DEF Receive
<1>2. chan.buf # <<>>
  BY DEF Receive
<1>3. ChanOK'
  <2>1. PICK b \in Packets : b = Tail(chan.buf) /\ Len(b) <= Capacity
    BY Zenon, <1>2, ShorterBuffer
  <2>2. chan' = [chan EXCEPT !.buf = b]
    BY <2>1 DEF Receive
  <2> QED
    BY Zenon, <2>1, <2>2, BufferOK
<1>4. WriterOK'
  <2>1. PICK p \in Packets : p = <<Head(chan.buf)>>
    BY <1>2, ShorterBuffer
  <2>2. PICK pc \in WriterPc : pc = "packet"
    BY DEF WriterPc
  <2>3. writer' = [pc |-> pc, packet |-> p] /\ got' = got
    BY <2>1, <2>2 DEF Receive
  <2> QED
    BY Zenon, <2>3, WriterMoves
<1> QED
  BY Zenon, <1>1, <1>3, <1>4, PartsStay DEF ConnectionInv

LEMMA FlushPacketInv == ASSUME ConnectionInv, Flush PROVE ConnectionInv'
<1>1. /\ UNCHANGED <<said, unread>> /\ UNCHANGED <<peer, socket, idle, alive>> /\ UNCHANGED reader
      /\ UNCHANGED manager /\ UNCHANGED relay /\ UNCHANGED <<msgLog, refused>>
  BY DEF Flush
<1>2. PICK b \in Packets : b = <<>> /\ Len(b) <= Capacity
  BY ShorterBuffer
<1>3. ChanOK'
  <2>1. chan' = [chan EXCEPT !.buf = b]
    BY <1>2 DEF Flush
  <2> QED
    BY Zenon, <1>2, <2>1, BufferOK
<1>4. WriterOK'
  <2>1. PICK p \in Packets : p = writer.packet \o chan.buf
    BY Zenon, WriterFields
  <2>2. got' = Append(got, p) /\ writer' = [pc |-> "wait", packet |-> b]
    BY <1>2, <2>1 DEF Flush
  <2>3. got' \in Seq(Packets)
    BY <2>2, WriterFields
  <2>4. "wait" \in WriterPc
    BY DEF WriterPc
  <2>5. writer' \in WriterState
    BY <2>2, <2>4 DEF WriterState
  <2> QED
    BY <2>3, <2>5 DEF WriterOK
<1> QED
  BY Zenon, <1>1, <1>3, <1>4, PartsStay DEF ConnectionInv

LEMMA WriterEndsInv == ASSUME ConnectionInv, WriterEnds PROVE ConnectionInv'
<1>1. /\ UNCHANGED <<said, unread>> /\ UNCHANGED reader
      /\ UNCHANGED manager /\ UNCHANGED relay /\ UNCHANGED <<msgLog, refused>>
  BY DEF WriterEnds
<1>2. SocketOK'
  <2>1. /\ peer' \in {peer, "silent", "gone"} /\ socket' \in {socket, FALSE}
        /\ idle' \in {idle, TRUE, FALSE} /\ alive' \in {alive, FALSE}
    BY Zenon DEF WriterEnds
  <2> QED
    BY Zenon, <2>1, SocketStays
<1>3. PICK b \in Packets : b = <<>> /\ Len(b) <= Capacity
  BY ShorterBuffer
<1>4. ChanOK'
  <2>1. chan' = chan \/ chan' = [chan EXCEPT !.buf = b]
    BY <1>3 DEF WriterEnds
  <2>2. CASE chan' = chan
    BY <2>2, PartsStay
  <2>3. CASE chan' = [chan EXCEPT !.buf = b]
    BY Zenon, <1>3, <2>3, BufferOK
  <2> QED
    BY <2>1, <2>2, <2>3
<1>5. WriterOK'
  <2> DEFINE rest == IF chan' = chan THEN <<>> ELSE chan.buf
  <2>1. rest \in Packets
    BY <1>3, ChanFields
  <2>2. writer' = [pc |-> "done", packet |-> writer.packet \o rest] /\ got' = got
    BY DEF WriterEnds
  <2> HIDE DEF rest
  <2>3. PICK p \in Packets : p = writer.packet \o rest
    <3>1. writer.packet \o rest \in Packets
      BY <2>1, WriterFields DEF Packets
    <3> QED
      BY Zenon, <3>1
  <2>4. PICK pc \in WriterPc : pc = "done"
    BY DEF WriterPc
  <2>5. writer' = [pc |-> pc, packet |-> p] /\ got' = got
    BY <2>2, <2>3, <2>4
  <2> QED
    BY Zenon, <2>5, WriterMoves
<1> QED
  BY Zenon, <1>1, <1>2, <1>4, <1>5, PartsStay DEF ConnectionInv

LEMMA ManagerInv ==
  ASSUME ConnectionInv, EventUnregister \/ CleanIdle \/ CleanRemove \/ EventRegister
  PROVE  ConnectionInv'
<1>1. /\ UNCHANGED <<said, unread>> /\ UNCHANGED reader /\ UNCHANGED <<writer, got>>
      /\ UNCHANGED relay /\ UNCHANGED <<msgLog, refused>>
  BY DEF EventUnregister, CleanIdle, CleanRemove, EventRegister
<1>2. SocketOK'
  <2>1. /\ peer' \in {peer, "silent", "gone"} /\ socket' \in {socket, FALSE}
        /\ idle' \in {idle, TRUE, FALSE} /\ alive' \in {alive, FALSE}
    BY Zenon DEF EventUnregister, CleanIdle, CleanRemove, EventRegister, Close
  <2> QED
    BY Zenon, <2>1, SocketStays
<1>3. ChanOK'
  <2>1. CASE chan' = chan
    BY <2>1, PartsStay
  <2>2. CASE Close
    <3>1. PICK c \in Flags : c = TRUE
      BY Zenon DEF Flags
    <3>2. chan' = [chan EXCEPT !.closed = c]
      BY <2>2, <3>1 DEF Close
    <3>3. chan' \in ChanState /\ chan'.buf = chan.buf
      BY <3>2, ChanFields DEF ChanState
    <3> QED
      BY <3>3, ChanFields DEF ChanOK
  <2> QED
    BY <2>1, <2>2 DEF EventUnregister, CleanIdle, CleanRemove, EventRegister
<1>4. ManagerOK'
  <2>1. PICK yes \in Flags, no \in Flags : yes = TRUE /\ no = FALSE
    BY Zenon DEF Flags
  <2>2. PICK none \in Entries, other \in Entries : none = "none" /\ other = "other"
    BY DEF Entries
  <2>3. \/ manager' = [manager EXCEPT !.unregister = no, !.entry = none]
        \/ manager' = [manager EXCEPT !.kick = yes]
        \/ manager' = [manager EXCEPT !.kick = no, !.entry = none]
        \/ manager' = [manager EXCEPT !.entry = other]
    BY Zenon, <2>1, <2>2 DEF EventUnregister, CleanIdle, CleanRemove, EventRegister
  <2> QED
    BY Zenon, <2>3, ManagerFields DEF ManagerOK, ManagerState
<1> QED
  BY Zenon, <1>1, <1>2, <1>3, <1>4, PartsStay DEF ConnectionInv

LEMMA RelayFields ==
  ASSUME ConnectionInv
  PROVE  relay \in RelayState /\ relay.next \in Turn /\ relay.holds \in Flags /\ relay.delivered \in PushSets
  BY DEF ConnectionInv, RelayOK, RelayState

\* A push that is still to be relayed has one after it.
LEMMA NextPush == ASSUME NEW i \in Pushes PROVE i + 1 \in Turn /\ i \in Turn
  BY ConnectionConstants DEF Pushes, Turn

LEMMA GetClientInv == ASSUME ConnectionInv, GetClient PROVE ConnectionInv'
<1>1. /\ UNCHANGED <<said, unread>> /\ UNCHANGED <<peer, socket, idle, alive>> /\ UNCHANGED reader
      /\ UNCHANGED chan /\ UNCHANGED <<writer, got>> /\ UNCHANGED manager /\ UNCHANGED <<msgLog, refused>>
  BY DEF GetClient
<1>2. RelayOK'
  <2>1. PICK yes \in Flags : yes = TRUE
    BY Zenon DEF Flags
  <2>2. relay.next \in Pushes /\ relay.holds = FALSE
    BY RelayFields DEF GetClient, Flags
  <2>3. PICK n \in Turn : n = relay.next + 1
    BY <2>2, NextPush
  <2>4. relay' = [relay EXCEPT !.holds = yes] \/ relay' = [relay EXCEPT !.next = n]
    BY <2>1, <2>3 DEF GetClient
  <2>5. CASE relay' = [relay EXCEPT !.holds = yes]
    <3>1. relay' \in RelayState /\ relay'.next = relay.next
      BY <2>5, RelayFields DEF RelayState
    <3> QED
      BY <3>1, <2>2 DEF RelayOK
  <2>6. CASE relay' = [relay EXCEPT !.next = n]
    <3>1. relay' \in RelayState /\ relay'.holds = relay.holds
      BY <2>6, RelayFields DEF RelayState
    <3> QED
      BY <3>1, <2>2 DEF RelayOK
  <2> QED
    BY <2>4, <2>5, <2>6
<1> QED
  BY Zenon, <1>1, <1>2, PartsStay DEF ConnectionInv

LEMMA EnqueueMessageInv == ASSUME ConnectionInv, EnqueueMessage PROVE ConnectionInv'
<1>1. /\ UNCHANGED <<said, unread>> /\ UNCHANGED <<peer, socket, idle, alive>> /\ UNCHANGED reader
      /\ UNCHANGED <<writer, got>> /\ UNCHANGED manager /\ UNCHANGED <<msgLog, refused>>
  BY DEF EnqueueMessage
<1>2. relay.next \in Pushes
  BY DEF EnqueueMessage, ConnectionInv, RelayOK
<1>3. ChanOK'
  <2>1. PICK x \in Item : x = Pushed(relay.next)
    BY <1>2, ItemsOf
  <2>2. IF HasRoom THEN chan' = [chan EXCEPT !.buf = Append(@, x)] ELSE chan' = chan
    BY <2>1 DEF EnqueueMessage, TrySend
  <2>3. CASE HasRoom
    BY <2>2, <2>3, AppendOK
  <2>4. CASE ~HasRoom
    BY <2>2, <2>4, PartsStay
  <2> QED
    BY <2>3, <2>4
<1>4. RelayOK'
  <2>1. PICK no \in Flags : no = FALSE
    BY Zenon DEF Flags
  <2>2. PICK n \in Turn : n = relay.next + 1
    BY <1>2, NextPush
  <2>3. PICK d \in PushSets : d = IF HasRoom THEN relay.delivered \cup {relay.next} ELSE relay.delivered
    BY Zenon, <1>2, RelayFields DEF PushSets
  <2>4. relay' = [relay EXCEPT !.holds = no, !.next = n, !.delivered = d]
    BY Zenon, <2>1, <2>2, <2>3 DEF EnqueueMessage, TrySend
  <2>5. relay' \in RelayState /\ relay'.holds = no
    BY Zenon, <2>4, RelayFields DEF RelayState
  <2> QED
    BY <2>1, <2>5 DEF RelayOK
<1> QED
  BY Zenon, <1>1, <1>3, <1>4, PartsStay DEF ConnectionInv

LEMMA EnqueuePanicsInv == ASSUME ConnectionInv, EnqueuePanics PROVE ConnectionInv'
<1>1. /\ UNCHANGED <<said, unread>> /\ UNCHANGED reader /\ UNCHANGED chan /\ UNCHANGED <<writer, got>>
      /\ UNCHANGED manager /\ UNCHANGED relay /\ UNCHANGED <<msgLog, refused>>
  BY DEF EnqueuePanics
<1>2. SocketOK'
  <2>1. /\ peer' \in {peer, "silent", "gone"} /\ socket' \in {socket, FALSE}
        /\ idle' \in {idle, TRUE, FALSE} /\ alive' \in {alive, FALSE}
    BY Zenon DEF EnqueuePanics
  <2> QED
    BY Zenon, <2>1, SocketStays
<1> QED
  BY Zenon, <1>1, <1>2, PartsStay DEF ConnectionInv

LEMMA ConnectionInductive == ConnectionInv /\ [ConnectionNext]_connectionVars => ConnectionInv'
<1> SUFFICES ASSUME ConnectionInv, [ConnectionNext]_connectionVars PROVE ConnectionInv'
  OBVIOUS
<1>1. CASE ConnectionNext
  <2>1. CASE ReadPump \/ ProduceFails
    BY Zenon, <2>1, ReadFrameInv, ReadFailsInv, ProduceInv, ResponseInv DEF ReadPump
  <2>2. CASE WritePump
    BY Zenon, <2>2, ReceiveInv, FlushPacketInv, WriterEndsInv DEF WritePump
  <2>3. CASE ManagerLoop \/ EventRegister
    BY Zenon, <2>3, ManagerInv DEF ManagerLoop
  <2> QED
    BY Zenon, <1>1, <2>1, <2>2, <2>3, ClientInv, GetClientInv, EnqueueMessageInv, EnqueuePanicsInv
       DEF ConnectionNext
<1>2. CASE UNCHANGED connectionVars
  <2>1. /\ UNCHANGED <<said, unread>> /\ UNCHANGED <<peer, socket, idle, alive>> /\ UNCHANGED reader
        /\ UNCHANGED chan /\ UNCHANGED <<writer, got>> /\ UNCHANGED manager /\ UNCHANGED relay
        /\ UNCHANGED <<msgLog, refused>>
    BY <1>2 DEF connectionVars
  <2> QED
    BY Zenon, <2>1, PartsStay DEF ConnectionInv
<1> QED
  BY <1>1, <1>2

LEMMA ConnectionFollows == ConnectionInv => ConnectionTypeOK
<1> SUFFICES ASSUME ConnectionInv PROVE ConnectionTypeOK
  OBVIOUS
<1>1. SaidOK /\ SocketOK /\ ReaderOK /\ ChanOK /\ WriterOK /\ ManagerOK /\ RelayOK /\ LogOK
  BY DEF ConnectionInv
<1>2. said \in Seq(Frame) /\ unread \in 0..Len(said) /\ msgLog \in Seq(Msg) /\ refused \in 0..MaxProduceFail
  BY Zenon, <1>1 DEF SaidOK, LogOK
<1>3. /\ peer \in {"here", "silent", "gone"}
      /\ socket \in BOOLEAN /\ idle \in BOOLEAN /\ alive \in BOOLEAN
  BY Zenon, <1>1 DEF SocketOK, Flags
<1>4. reader \in [pc : {"read", "produce", "answer", "done"},
                  frame : Msg \cup {""}, reply : Replies \cup {""}]
  BY Zenon, <1>1 DEF ReaderOK, ReaderState, ReaderPc, AnyFrame, AnyReply
<1>5. chan.buf \in Seq(Item) /\ Len(chan.buf) <= Capacity /\ chan.closed \in BOOLEAN
  BY ChanFields DEF Flags
<1>6. writer \in [pc : {"wait", "packet", "done"}, packet : Seq(Item)] /\ got \in Seq(Seq(Item))
  BY Zenon, <1>1 DEF WriterOK, WriterState, WriterPc, Packets
<1>7. manager \in [entry : {"this", "other", "none"}, unregister : BOOLEAN, kick : BOOLEAN]
  BY Zenon, <1>1 DEF ManagerOK, ManagerState, Entries, Flags
<1>8. relay \in [next : 1..(MaxPush + 1), holds : BOOLEAN, delivered : SUBSET Pushes]
  BY Zenon, <1>1 DEF RelayOK, RelayState, Turn, Flags, PushSets
<1> QED
  BY Zenon, <1>2, <1>3, <1>4, <1>5, <1>6, <1>7, <1>8 DEF ConnectionTypeOK

-----------------------------------------------------------------------------
(***************************************************************************)
(* All machines.  A step is one of a single machine; for every other it is *)
(* one that changes nothing.                                               *)
(***************************************************************************)
ServicesInv ==
  /\ PushInv /\ LikesInv /\ FriendsInv /\ SnowInv
  /\ RegistryInv /\ ConvInv /\ HistoryInv /\ ConnectionInv

LEMMA ServicesInitInv == Init => ServicesInv
  BY Zenon, PushInitInv, LikesInitInv, FriendsInitInv, InitInv, RegistryInitInv, ConvInitInv,
     HistoryInitInv, ConnectionInitInv DEF Init, ServicesInv

LEMMA OneMachineSteps ==
  [Next]_vars =>
    /\ [PushNext]_pushVars /\ [LikesNext]_likesVars /\ [FriendsNext]_friendsVars /\ [SnowNext]_snowVars
    /\ [RegistryNext]_registryVars /\ [ConvNext]_convVars /\ [HistoryNext]_historyVars
    /\ [ConnectionNext]_connectionVars
<1>1. UNCHANGED vars =>
        /\ UNCHANGED pushVars /\ UNCHANGED likesVars /\ UNCHANGED friendsVars /\ UNCHANGED snowVars
        /\ UNCHANGED registryVars /\ UNCHANGED convVars /\ UNCHANGED historyVars /\ UNCHANGED connectionVars
  BY DEF vars
<1>2. Next =>
        /\ PushNext \/ UNCHANGED pushVars
        /\ LikesNext \/ UNCHANGED likesVars
        /\ FriendsNext \/ UNCHANGED friendsVars
        /\ SnowNext \/ UNCHANGED snowVars
        /\ RegistryNext \/ UNCHANGED registryVars
        /\ ConvNext \/ UNCHANGED convVars
        /\ HistoryNext \/ UNCHANGED historyVars
        /\ ConnectionNext \/ UNCHANGED connectionVars
  BY DEF Next
<1> QED
  BY Zenon, <1>1, <1>2

LEMMA ServicesInductive == ServicesInv /\ [Next]_vars => ServicesInv'
  BY Zenon, OneMachineSteps, PushInductive, LikesInductive, FriendsInductive, InvInductive,
     RegistryInductive, ConvInductive, HistoryInductive, ConnectionInductive DEF ServicesInv

LEMMA ServicesFollow == ServicesInv => Bounded /\ CopiesAgree
<1> SUFFICES ASSUME ServicesInv PROVE Bounded /\ CopiesAgree
  OBVIOUS
<1>1. SnowTypeOK
  BY Zenon DEF ServicesInv, SnowInv
<1>2. Bounded
  BY Zenon, <1>1, PushFollows, LikesFollows, FriendsFollows, RegistryFollows, ConvFollows,
     HistoryFollows, ConnectionFollows DEF ServicesInv, Bounded
<1>3. CopiesAgree
  BY Zenon, FriendsFollows, RegistryFollows, ConvFollows, HistoryFollows DEF ServicesInv, CopiesAgree
<1> QED
  BY <1>2, <1>3

(***************************************************************************)
(* client.go, actions.go, push.go: the channel Send never holds more than  *)
(* its capacity, a counter of a post is never above the number of its      *)
(* readers, no device gets more than HourMax pushes in an hour of one      *)
(* process, and a badge counts only notifications that have arrived, over  *)
(* failures, restarts and notifications that are taken again.              *)
(***************************************************************************)
THEOREM ServicesAreBounded == Spec => []Bounded
<1>1. ServicesInv => Bounded
  BY ServicesFollow
<1> QED
  BY <1>1, ServicesInitInv, ServicesInductive, PTL DEF Spec

(***************************************************************************)
(* What is written in two places or told to two callers is the same there  *)
(* (friend.go, internal/etcd, conversation.go, app.js): the two rows of a  *)
(* friendship, a service and its key, the keys and a gateway's list, the   *)
(* conversation of a pair and the answers to both, the history and what a  *)
(* client has or asks for.                                                 *)
(***************************************************************************)
THEOREM WhatIsCopiedAgrees == Spec => []CopiesAgree
<1>1. ServicesInv => CopiesAgree
  BY ServicesFollow
<1> QED
  BY <1>1, ServicesInitInv, ServicesInductive, PTL DEF Spec

=============================================================================
