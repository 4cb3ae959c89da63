---------------------------- MODULE PresenceProofs ----------------------------
(***************************************************************************)
(* Proofs about Presence, for every set of users and servers, every page   *)
(* size and every bound.                                                   *)
(***************************************************************************)
EXTENDS Presence, Integers, FiniteSetTheorems, SequenceTheorems, WellFoundedInduction, TLAPS

(***************************************************************************)
(* The inductive invariants.                                               *)
(***************************************************************************)

\* The types of a connection, of an event in progress and of a server.
Connections == [uid : Users, cs : Cs, open : BOOLEAN, idle : BOOLEAN,
                sent : BOOLEAN, left : BOOLEAN, tidy : BOOLEAN]

Events == {NoOp} \cup [do : {"put", "delete"}, uid : Users]

Servers(n) == [reg : Seq(1..n), unreg : Seq(1..n), table : [Users -> 0..n],
               kick : SUBSET (1..n), op : Events]

Entries == [uid : Users, cs : Cs]

Passes == [on : BOOLEAN, alive : SUBSET Cs, after : Users \cup {0},
           page : Seq(Entries), last : BOOLEAN]

Types ==
  /\ conn \in Seq(Connections)
  /\ srv \in [Cs -> Servers(Len(conn))]
  /\ online \in [Users -> Cs \cup {NoCs}]
  /\ running \subseteq Cs /\ listed \subseteq Cs
  /\ sweep \in Passes
  /\ faults \in [crash : Nat, kv : Nat]

(***************************************************************************)
(* Without lost leases and restarts, the pass of the ghost worker knows    *)
(* every server that runs.                                                 *)
(***************************************************************************)
LeasesHold == "lease" \notin Adversity /\ "restart" \notin Adversity

RunningAreKnown ==
  /\ running \subseteq listed
  /\ sweep.on => running \subseteq sweep.alive
  /\ sweep.page # <<>> => sweep.on

(***************************************************************************)
(* A user whose record is about to be written has an entry.                *)
(***************************************************************************)
PutHasEntry ==
  \A u \in Users, s \in running :
    srv[s].op = [do |-> "put", uid |-> u] => srv[s].table[u] # 0

EntryInv == RecordHasEntry /\ PutHasEntry

(***************************************************************************)
(* What is queued at a server, or in its table, or in its event, comes     *)
(* from a connection to that server; what leaves is closed.  An open       *)
(* connection has a server that runs.                                      *)
(***************************************************************************)
Own(s) ==
  /\ \A i \in DOMAIN srv[s].reg : conn[srv[s].reg[i]].cs = s
  /\ \A i \in DOMAIN srv[s].unreg :
       conn[srv[s].unreg[i]].cs = s /\ ~conn[srv[s].unreg[i]].open
  /\ \A u \in Users : srv[s].table[u] # 0 => conn[srv[s].table[u]].cs = s
  /\ \A k \in srv[s].kick : conn[k].cs = s
  /\ srv[s].op.do = "put" =>
       \E k \in Conn : conn[k].uid = srv[s].op.uid /\ conn[k].cs = s
  /\ srv[s].op.do = "delete" =>
       \E k \in Conn : conn[k].uid = srv[s].op.uid /\ conn[k].cs = s /\ ~conn[k].open

OpenAreUp == \A k \in Conn : conn[k].open => conn[k].cs \in running

OwnConnections == (\A s \in Cs : Own(s)) /\ OpenAreUp

(***************************************************************************)
(* The older connections of a tidy user have been registered, each at a    *)
(* server of its own; the newest, once registered and as long as it is     *)
(* open, has the record.                                                   *)
(***************************************************************************)
OthersSettled(u) ==
  \A k, j \in Conn : conn[j].uid = u /\ conn[k].uid = u /\ j < k =>
                       conn[j].cs # conn[k].cs /\ Settled(j)

NewestHasRecord(u) ==
  \A k \in Newest(u) : conn[k].open /\ Settled(k) => online[u] = conn[k].cs

DriftInv ==
  /\ OwnConnections
  /\ \A u \in Users : Tidy(u) => OthersSettled(u) /\ NewestHasRecord(u)
-----------------------------------------------------------------------------
\* Numbers: what a page of the ghost worker is made of.

LEMMA LeastNumber ==
  ASSUME NEW S \in SUBSET Nat, S # {}
  PROVE  \E n \in S : \A m \in S : n <= m
<1>1. PICK n \in S : \A m \in S : <<m, n>> \notin OpToRel(<, Nat)
  BY WFMin, NatLessThanWellFounded, Zenon
<1>2. \A m \in S : ~(m < n)
  BY <1>1, Zenon DEF OpToRel
<1> QED
  BY <1>2

LEMMA GreatestNumber ==
  ASSUME NEW S \in SUBSET Nat, IsFiniteSet(S), S # {}
  PROVE  \E n \in S : \A m \in S : m <= n
<1> DEFINE HasGreatest(U) == \E n \in U : \A m \in U : m <= n
           Size == {Cardinality(U) : U \in {V \in SUBSET S : V # {} /\ ~HasGreatest(V)}}
<1> SUFFICES ASSUME ~HasGreatest(S) PROVE FALSE
  OBVIOUS
<1>1. \A U \in SUBSET S : IsFiniteSet(U) /\ Cardinality(U) \in Nat
  BY Zenon, FS_Subset, FS_CardinalityType
<1>2. PICK n \in Size : \A m \in Size : n <= m
  <2>1. Size \subseteq Nat /\ Size # {}
    BY <1>1
  <2> QED
    BY Zenon, <2>1, LeastNumber
<1>3. PICK U \in SUBSET S : U # {} /\ ~HasGreatest(U) /\ n = Cardinality(U)
  OBVIOUS
<1>4. PICK x \in U : TRUE
  BY <1>3
<1> DEFINE V == U \ {x}
<1>5. V \in SUBSET S /\ Cardinality(V) = n - 1 /\ n \in Nat
  BY Zenon, <1>1, <1>3, <1>4, FS_RemoveElement
<1>6. V # {}
  <2>1. ASSUME V = {} PROVE \A m \in U : m <= x
    BY <2>1, <1>4
  <2> QED
    BY <1>3, <1>4, <2>1
<1>7. HasGreatest(V)
  <2>1. ~HasGreatest(V) => n - 1 \in Size
    BY Zenon, <1>5, <1>6
  <2> QED
    BY <1>2, <1>5, <2>1
<1>8. PICK y \in V : \A m \in V : m <= y
  BY <1>7
<1>9. x \in Nat /\ y \in Nat /\ y \in U
  BY <1>4, <1>8
<1>10. CASE x <= y
  <2>1. \A m \in U : m <= y
    BY <1>8, <1>10
  <2> QED
    BY <1>3, <1>9, <2>1
<1>11. CASE y <= x
  <2>1. \A m \in U : m <= x
    BY <1>8, <1>9, <1>11
  <2> QED
    BY <1>3, <1>4, <2>1
<1> QED
  BY <1>9, <1>10, <1>11

\* A finite set of numbers has an i-th number, for each i up to its size.
LEMMA NthNumber ==
  ASSUME NEW S \in SUBSET Nat, IsFiniteSet(S), NEW i \in 1 .. Cardinality(S)
  PROVE  \E u \in S : Cardinality({v \in S : v <= u}) = i
<1> DEFINE Upto(u) == {v \in S : v <= u}
           Far     == {u \in S : Cardinality(Upto(u)) >= i}
<1>1. \A U \in SUBSET S : IsFiniteSet(U) /\ Cardinality(U) \in Nat
  BY Zenon, FS_Subset, FS_CardinalityType
<1>2. S # {}
  BY FS_EmptySet
<1>3. PICK g \in S : \A m \in S : m <= g
  BY <1>2, GreatestNumber
<1>4. Upto(g) = S
  BY Zenon, <1>3
<1>5. Far \subseteq Nat /\ g \in Far
  <2>1. S \in SUBSET S /\ Cardinality(S) \in Nat
    BY <1>1
  <2>2. Cardinality(Upto(g)) >= i
    BY <1>4, <2>1
  <2> QED
    BY Zenon, <2>2
<1>6. PICK u \in Far : \A w \in Far : u <= w
  BY Zenon, <1>5, LeastNumber
<1> DEFINE Below == Upto(u) \ {u}
<1>7. Below \in SUBSET S /\ Cardinality(Below) = Cardinality(Upto(u)) - 1
  <2>1. u \in Upto(u) /\ Upto(u) \in SUBSET S /\ IsFiniteSet(Upto(u))
    BY <1>1
  <2> QED
    BY Zenon, <2>1, FS_RemoveElement
<1>8. ASSUME Cardinality(Upto(u)) > i PROVE FALSE
  <2>1. Cardinality(Below) >= i /\ Below # {}
    BY <1>1, <1>7, <1>8, FS_EmptySet
  <2>2. PICK w \in Below : \A m \in Below : m <= w
    BY <1>1, <1>7, <2>1, GreatestNumber
  <2>3. w \in S /\ w \in Nat /\ u \in Nat /\ w < u
    OBVIOUS
  <2>4. \A m \in S : m \in Upto(w) <=> m \in Below
    BY <2>2, <2>3
  <2>5. Below = Upto(w)
    BY Zenon, <2>4
  <2>6. w \in Far
    BY <2>1, <2>3, <2>5
  <2> QED
    BY <1>6, <2>3, <2>6
<1>9. Cardinality(Upto(u)) \in Nat /\ Cardinality(Upto(u)) >= i
  BY <1>1
<1> QED
  BY <1>8, <1>9
-----------------------------------------------------------------------------
\* Facts about the operators.

LEMMA PageType ==
  ASSUME PresenceAssumption, NEW us \in SUBSET Users,
         online \in [Users -> Cs \cup {NoCs}], \A u \in us : online[u] # NoCs
  PROVE  Page(us) \in Seq(Entries)
<1> DEFINE rank(u) == Cardinality({v \in us : v <= u})
           size    == IF Cardinality(us) < PageSize THEN Cardinality(us) ELSE PageSize
           nth(i)  == CHOOSE u \in us : rank(u) = i
           entry(i) == [uid |-> nth(i), cs |-> online[nth(i)]]
<1>1. us \in SUBSET Nat /\ IsFiniteSet(us) /\ Cardinality(us) \in Nat
  BY Zenon, FS_Subset, FS_CardinalityType DEF PresenceAssumption
<1>2. size \in Nat /\ 1 .. size \subseteq 1 .. Cardinality(us)
  BY <1>1 DEF PresenceAssumption
<1>3. \A i \in 1 .. size : nth(i) \in us
  BY Zenon, <1>1, <1>2, NthNumber
<1>4. \A i \in 1 .. size : entry(i) \in Entries
  BY Zenon, <1>3 DEF Entries
<1> DEFINE page == [i \in 1 .. size |-> entry(i)]
<1>5. page \in [1 .. size -> Entries]
  BY Zenon, <1>4
<1> HIDE DEF page, size
<1>6. page \in Seq(Entries)
  BY <1>2, <1>5
<1> QED
  BY <1>6 DEF Page, page, size

LEMMA ServersGrow ==
  ASSUME NEW n \in Nat, NEW m \in Nat, n <= m
  PROVE  Servers(n) \subseteq Servers(m)
<1>1. 1 .. n \subseteq 1 .. m /\ 0 .. n \subseteq 0 .. m
  OBVIOUS
<1>2. Seq(1 .. n) \subseteq Seq(1 .. m)
  BY <1>1, SeqMonotonic
<1> QED
  BY <1>1, <1>2 DEF Servers

\* Types, the first part of the invariant, gives TypeOK.
LEMMA TypesImplyTypeOK == Types => TypeOK
<1> SUFFICES ASSUME Types PROVE TypeOK
  OBVIOUS
<1>1. Conn = 1 .. Len(conn) /\ Conn \cup {0} = 0 .. Len(conn)
  BY DEF Types, Conn
<1>2. Events \subseteq [do : Ops, uid : Users \cup {0}]
  BY DEF Events, NoOp, Ops
<1> QED
  BY Zenon, <1>1, <1>2 DEF Types, TypeOK, Connections, Servers, Passes, Entries
-----------------------------------------------------------------------------
\* Types

\* What a connection in the table of connections looks like.
LEMMA ConnType ==
  ASSUME Types
  PROVE  /\ Len(conn) \in Nat /\ Conn = 1 .. Len(conn) /\ DOMAIN conn = Conn
         /\ \A k \in Conn : conn[k] \in Connections
         /\ \A k \in Conn : conn[k].uid \in Users /\ conn[k].cs \in Cs
         /\ \A s \in Cs : srv[s] \in Servers(Len(conn))
<1>1. conn \in Seq(Connections) /\ srv \in [Cs -> Servers(Len(conn))]
  BY DEF Types
<1>2. Len(conn) \in Nat /\ Conn = 1 .. Len(conn) /\ DOMAIN conn = Conn
  BY <1>1 DEF Conn
<1>3. \A k \in Conn : conn[k] \in Connections
  BY <1>1, <1>2
<1> QED
  BY <1>1, <1>2, <1>3 DEF Connections

\* A connection changes, and nothing else of the connections.
LEMMA ConnSet ==
  ASSUME Types, NEW k \in Conn, NEW x \in Connections, conn' = [conn EXCEPT ![k] = x]
  PROVE  conn' \in Seq(Connections) /\ Len(conn') = Len(conn)
<1>1. conn \in Seq(Connections)
  BY DEF Types
<1>2. conn \in Seq(Connections) /\ k \in 1 .. Len(conn)
  BY <1>1 DEF Conn
<1> QED
  BY <1>2, ExceptSeq

LEMMA TypesInit == PresenceAssumption /\ Init => Types
<1> SUFFICES ASSUME PresenceAssumption, Init PROVE Types
  OBVIOUS
<1>1. conn = <<>> /\ Len(conn) = 0 /\ conn \in Seq(Connections)
  BY DEF Init
<1>2. IdleServer \in Servers(0)
  BY DEF IdleServer, Servers, Events
<1>3. NoSweep \in Passes
  BY DEF NoSweep, Passes
<1> QED
  BY <1>1, <1>2, <1>3 DEF Init, Types

LEMMA TypesClient == PresenceAssumption /\ Types /\ Client => Types'
<1> SUFFICES ASSUME PresenceAssumption, Types, Client PROVE Types'
  OBVIOUS
<1>0. conn \in Seq(Connections) /\ srv \in [Cs -> Servers(Len(conn))] /\ Len(conn) \in Nat
  BY DEF Types
<1>1. ASSUME NEW u \in Users, NEW s \in Cs, Open(u, s) PROVE Types'
  <2> DEFINE x == [uid |-> u, cs |-> s, open |-> TRUE, idle |-> FALSE,
                   sent |-> FALSE, left |-> FALSE, tidy |-> ~Again(u, s) /\ ~Late(u)]
  <2>1. x \in Connections
    BY DEF Connections
  <2>2. conn' = Append(conn, x)
    BY <1>1 DEF Open
  <2> HIDE DEF x
  <2>3. conn' \in Seq(Connections) /\ Len(conn') = Len(conn) + 1
    BY <1>0, <2>1, <2>2, AppendProperties
  <2>4. Servers(Len(conn)) \subseteq Servers(Len(conn'))
    BY <1>0, <2>3, ServersGrow
  <2>5. srv' \in [Cs -> Servers(Len(conn'))]
    BY <1>0, <1>1, <2>4 DEF Open
  <2> QED
    BY <1>1, <2>3, <2>5 DEF Open, Types
<1>2. ASSUME NEW k \in Conn, Enroll(k) \/ Hangup(k) \/ GoIdle(k) \/ PumpExit(k) PROVE Types'
  <2>1. conn[k] \in Connections /\ conn[k].cs \in Cs /\ k \in 1 .. Len(conn)
    BY ConnType
  <2>2. srv[conn[k].cs] \in Servers(Len(conn))
    BY <1>0, <2>1
  <2>3. CASE Enroll(k)
    <3>1. Append(srv[conn[k].cs].reg, k) \in Seq(1 .. Len(conn))
      BY <2>1, <2>2 DEF Servers
    <3>2. srv' \in [Cs -> Servers(Len(conn))]
      BY Zenon, <1>0, <2>1, <2>2, <2>3, <3>1 DEF Enroll, Servers
    <3>3. conn' = [conn EXCEPT ![k] = [conn[k] EXCEPT !.sent = TRUE]]
          /\ [conn[k] EXCEPT !.sent = TRUE] \in Connections
      BY Zenon, <2>1, <2>3 DEF Enroll, Connections
    <3>4. conn' \in Seq(Connections) /\ Len(conn') = Len(conn)
      BY Zenon, <3>3, ConnSet
    <3> QED
      BY <2>3, <3>2, <3>4 DEF Enroll, Types
  <2>4. CASE Hangup(k)
    <3>3. conn' = [conn EXCEPT ![k] = [conn[k] EXCEPT !.open = FALSE]]
          /\ [conn[k] EXCEPT !.open = FALSE] \in Connections
      BY Zenon, <2>1, <2>4 DEF Hangup, Connections
    <3>4. conn' \in Seq(Connections) /\ Len(conn') = Len(conn)
      BY Zenon, <3>3, ConnSet
    <3> QED
      BY <2>4, <3>4 DEF Hangup, Types
  <2>5. CASE GoIdle(k)
    <3>3. conn' = [conn EXCEPT ![k] = [conn[k] EXCEPT !.idle = TRUE]]
          /\ [conn[k] EXCEPT !.idle = TRUE] \in Connections
      BY Zenon, <2>1, <2>5 DEF GoIdle, Connections
    <3>4. conn' \in Seq(Connections) /\ Len(conn') = Len(conn)
      BY Zenon, <3>3, ConnSet
    <3> QED
      BY <2>5, <3>4 DEF GoIdle, Types
  <2>6. CASE PumpExit(k)
    <3>1. Append(srv[conn[k].cs].unreg, k) \in Seq(1 .. Len(conn))
      BY <2>1, <2>2 DEF Servers
    <3>2. srv' \in [Cs -> Servers(Len(conn))]
      BY Zenon, <1>0, <2>1, <2>2, <2>6, <3>1 DEF PumpExit, Servers
    <3>3. conn' = [conn EXCEPT ![k] = [conn[k] EXCEPT !.open = FALSE, !.left = TRUE]]
          /\ [conn[k] EXCEPT !.open = FALSE, !.left = TRUE] \in Connections
      BY <2>1, <2>6 DEF PumpExit, Connections
    <3>4. conn' \in Seq(Connections) /\ Len(conn') = Len(conn)
      BY Zenon, <3>3, ConnSet
    <3> QED
      BY <2>6, <3>2, <3>4 DEF PumpExit, Types
  <2> QED
    BY <1>2, <2>3, <2>4, <2>5, <2>6
<1> QED
  BY <1>1, <1>2 DEF Client

LEMMA TypesEventLoop ==
  ASSUME PresenceAssumption, Types, NEW s \in Cs, EventLoop(s)
  PROVE  Types'
<1>0. conn \in Seq(Connections) /\ srv \in [Cs -> Servers(Len(conn))] /\ Len(conn) \in Nat
      /\ srv[s] \in Servers(Len(conn))
  BY DEF Types
<1>1. CASE EventRegister(s)
  <2> DEFINE k == Head(srv[s].reg)
  <2>1. k \in Conn /\ k \in 0 .. Len(conn) /\ Tail(srv[s].reg) \in Seq(1 .. Len(conn))
    BY SMTT(60), <1>0, <1>1 DEF EventRegister, Servers, Conn
  <2>2. conn[k].uid \in Users /\ [do |-> "put", uid |-> conn[k].uid] \in Events
    BY <2>1, ConnType DEF Events
  <2>3. srv' \in [Cs -> Servers(Len(conn))]
    BY Zenon, <1>0, <1>1, <2>1, <2>2 DEF EventRegister, Servers
  <2> QED
    BY <1>1, <2>3 DEF EventRegister, Types
<1>2. CASE EventUnregister(s)
  <2> DEFINE k == Head(srv[s].unreg)
  <2>1. k \in Conn /\ 0 \in 0 .. Len(conn) /\ Tail(srv[s].unreg) \in Seq(1 .. Len(conn))
    BY SMTT(30), <1>0, <1>2 DEF EventUnregister, Servers, Conn
  <2>2. conn[k].uid \in Users /\ [do |-> "delete", uid |-> conn[k].uid] \in Events
    BY <2>1, ConnType DEF Events
  <2>3. srv' \in [Cs -> Servers(Len(conn))]
    BY Zenon, <1>0, <1>2, <2>1, <2>2 DEF EventUnregister, Servers
  <2> QED
    BY <1>2, <2>3 DEF EventUnregister, Types
<1>3. CASE Tick(s)
  <2>1. IdleEntries(s) \in SUBSET (1 .. Len(conn))
    BY <1>0 DEF IdleEntries, Servers
  <2>2. srv' \in [Cs -> Servers(Len(conn))]
    BY Zenon, <1>0, <1>3, <2>1 DEF Tick, Servers
  <2> QED
    BY <1>3, <2>2 DEF Tick, Types
<1>4. ASSUME NEW k \in Conn, Kick(s, k) PROVE Types'
  <2>1. conn[k] \in Connections /\ conn[k].uid \in Users /\ 0 \in 0 .. Len(conn)
        /\ [do |-> "delete", uid |-> conn[k].uid] \in Events
    BY <1>0, ConnType DEF Events
  <2>2. srv' \in [Cs -> Servers(Len(conn))]
    BY Zenon, <1>0, <1>4, <2>1 DEF Kick, Servers
  <2>3. conn' = [conn EXCEPT ![k] = [conn[k] EXCEPT !.open = FALSE]]
        /\ [conn[k] EXCEPT !.open = FALSE] \in Connections
    BY Zenon, <2>1, <1>4 DEF Kick, Connections
  <2>4. conn' \in Seq(Connections) /\ Len(conn') = Len(conn)
    BY Zenon, <2>3, ConnSet
  <2> QED
    BY <1>4, <2>2, <2>4 DEF Kick, Types
<1>5. CASE WriteRecord(s)
  <2>1. srv' \in [Cs -> Servers(Len(conn))]
    BY Zenon, <1>0, <1>5 DEF WriteRecord, Servers, Events
  <2>2. online' \in [Users -> Cs \cup {NoCs}]
    BY Zenon, <1>5 DEF WriteRecord, Upsert, DeleteIfMatch, Types
  <2> QED
    BY <1>5, <2>1, <2>2 DEF WriteRecord, Types
<1>6. CASE WriteFails(s)
  <2>1. srv' \in [Cs -> Servers(Len(conn))]
    BY Zenon, <1>0, <1>6 DEF WriteFails, Servers, Events
  <2>2. faults' \in [crash : Nat, kv : Nat]
    BY SMTT(60), <1>6 DEF WriteFails, Types
  <2> QED
    BY <1>6, <2>1, <2>2 DEF WriteFails, Types
<1> QED
  BY <1>1, <1>2, <1>3, <1>4, <1>5, <1>6 DEF EventLoop

LEMMA TypesServer ==
  ASSUME PresenceAssumption, Types, NEW s \in Cs,
         Crash(s) \/ Restart(s) \/ LeaseExpires(s) \/ Relist(s)
  PROVE  Types'
<1>0. conn \in Seq(Connections) /\ srv \in [Cs -> Servers(Len(conn))] /\ Len(conn) \in Nat
  BY SMTT(60) DEF Types
<1>1. CASE Crash(s)
  <2>1. conn' \in [1 .. Len(conn) -> Connections]
    BY ZenonT(60), <1>0, <1>1, ConnType DEF Crash, Conn, Connections
  <2>2. conn' \in Seq(Connections) /\ Len(conn') = Len(conn)
    BY <1>0, <2>1
  <2>3. IdleServer \in Servers(Len(conn))
    BY <1>0 DEF IdleServer, Servers, Events
  <2>4. srv' \in [Cs -> Servers(Len(conn))]
    BY Zenon, <1>0, <1>1, <2>3 DEF Crash
  <2>5. faults' \in [crash : Nat, kv : Nat]
    <3>1. faults \in [crash : Nat, kv : Nat] /\ faults' = [faults EXCEPT !.crash = @ + 1]
      BY Zenon, <1>1 DEF Crash, Types
    <3> QED
      BY <3>1
  <2> QED
    BY Zenon, <1>1, <2>2, <2>4, <2>5 DEF Crash, Types
<1>2. CASE Restart(s)
  BY <1>2 DEF Restart, Types
<1>3. CASE LeaseExpires(s)
  BY <1>3 DEF LeaseExpires, Types
<1>4. CASE Relist(s)
  BY <1>4 DEF Relist, Types
<1> QED
  BY <1>1, <1>2, <1>3, <1>4

LEMMA TypesSweep == PresenceAssumption /\ Types /\ (Sweep \/ SweepFails) => Types'
<1> SUFFICES ASSUME PresenceAssumption, Types, Sweep \/ SweepFails PROVE Types'
  OBVIOUS
<1>0. sweep \in Passes /\ NoSweep \in Passes /\ sweep.page \in Seq(Entries)
  BY DEF Types, Passes, NoSweep
<1>1. CASE SweepStart
  BY Zenon, <1>0, <1>1 DEF SweepStart, Types, Passes, NoSweep
<1>2. CASE ScanPrefix
  <2> DEFINE us == RecordsAfter(sweep.after)
  <2>1. Page(us) \in Seq(Entries)
    <3>1. us \in SUBSET Users /\ \A u \in us : online[u] # NoCs
      BY DEF RecordsAfter
    <3>2. online \in [Users -> Cs \cup {NoCs}]
      BY DEF Types
    <3> HIDE DEF us
    <3> QED
      BY <3>1, <3>2, PageType
  <2> DEFINE page == Page(us)
  <2>2. /\ page \in Seq(Entries)
        /\ sweep' = [sweep EXCEPT !.page = page, !.last = IsLastPage(page),
                                  !.after = IF page = <<>> THEN @ ELSE LastKey(page)]
    BY <1>2, <2>1 DEF ScanPrefix
  <2> HIDE DEF page
  <2>3. page # <<>> => LastKey(page) \in Users
    <3> SUFFICES ASSUME page # <<>> PROVE LastKey(page) \in Users
      OBVIOUS
    <3>1. Len(page) \in 1 .. Len(page)
      BY <2>2, EmptySeq
    <3>2. page[Len(page)] \in Entries
      BY <2>2, <3>1
    <3> QED
      BY <3>2 DEF LastKey, Entries
  <2>4. IsLastPage(page) \in BOOLEAN
    BY DEF IsLastPage
  <2>5. sweep' \in Passes
    BY Zenon, <1>0, <2>2, <2>3, <2>4 DEF Passes
  <2> QED
    BY <1>2, <2>5 DEF ScanPrefix, Types
<1>3. CASE SweepEntry
  <2>1. Tail(sweep.page) \in Seq(Entries)
    BY <1>0, <1>3 DEF SweepEntry
  <2>2. sweep' \in Passes
    BY Zenon, <1>0, <1>3, <2>1 DEF SweepEntry, Passes
  <2>3. online' \in [Users -> Cs \cup {NoCs}]
    BY Zenon, <1>3 DEF SweepEntry, DeleteIfMatch, Types
  <2> QED
    BY <1>3, <2>2, <2>3 DEF SweepEntry, Types
<1>4. CASE SweepEnd
  BY <1>0, <1>4 DEF SweepEnd, Types
<1>5. CASE SweepFails
  <2>1. sweep.page # <<>> => Tail(sweep.page) \in Seq(Entries)
    BY <1>0
  <2>2. sweep' \in Passes
    <3>1. CASE sweep.page = <<>>
      BY <1>0, <1>5, <3>1 DEF SweepFails
    <3>2. CASE sweep.page # <<>>
      <4>1. sweep' = [sweep EXCEPT !.page = Tail(@)]
        BY <1>5, <3>2 DEF SweepFails
      <4> QED
        BY Zenon, <1>0, <2>1, <3>2, <4>1 DEF Passes
    <3> QED
      BY <3>1, <3>2
  <2>3. faults' \in [crash : Nat, kv : Nat]
    BY <1>5 DEF SweepFails, Types
  <2> QED
    BY <1>5, <2>2, <2>3 DEF SweepFails, Types
<1> QED
  BY <1>1, <1>2, <1>3, <1>4, <1>5 DEF Sweep

LEMMA TypesNext == PresenceAssumption /\ Types /\ [Next]_vars => Types'
<1> SUFFICES ASSUME PresenceAssumption, Types, [Next]_vars PROVE Types'
  OBVIOUS
<1>1. CASE UNCHANGED vars
  BY <1>1 DEF vars, Types
<1>2. CASE Next
  BY <1>2, TypesClient, TypesEventLoop, TypesServer, TypesSweep DEF Next
<1> QED
  BY <1>1, <1>2
-----------------------------------------------------------------------------
\* The pass of the ghost worker knows every server that runs.

LEMMA KnownNext ==
  ASSUME PresenceAssumption, LeasesHold, Types, RunningAreKnown, [Next]_vars
  PROVE  RunningAreKnown'
<1>0. sweep \in Passes
  BY DEF Types
<1>1. CASE UNCHANGED vars
  BY SMTT(60), <1>1 DEF vars, RunningAreKnown
<1>2. CASE Client
  BY Zenon, <1>2 DEF Client, Open, Enroll, Hangup, GoIdle, PumpExit, RunningAreKnown
<1>3. ASSUME NEW s \in Cs, EventLoop(s) PROVE RunningAreKnown'
  BY Zenon, <1>3 DEF EventLoop, EventRegister, EventUnregister, Tick, Kick, WriteRecord, WriteFails, RunningAreKnown
<1>4. ASSUME NEW s \in Cs, Crash(s) \/ Restart(s) \/ LeaseExpires(s) \/ Relist(s)
      PROVE  RunningAreKnown'
  BY Zenon, <1>4 DEF Crash, Restart, LeaseExpires, Relist, LeasesHold, RunningAreKnown
<1>5. CASE Sweep
  <2>1. CASE SweepStart
    BY <1>0, <2>1 DEF SweepStart, NoSweep, RunningAreKnown
  <2>2. CASE ScanPrefix
    <3>1. /\ sweep.on /\ sweep'.on = sweep.on /\ sweep'.alive = sweep.alive
          /\ running' = running /\ listed' = listed
      BY Zenon, <1>0, <2>2 DEF ScanPrefix, Passes
    <3> QED
      BY <3>1 DEF RunningAreKnown
  <2>3. CASE SweepEntry
    BY <1>0, <2>3 DEF SweepEntry, Passes, RunningAreKnown
  <2>4. CASE SweepEnd
    BY <1>0, <2>4 DEF SweepEnd, NoSweep, RunningAreKnown
  <2> QED
    BY <1>5, <2>1, <2>2, <2>3, <2>4 DEF Sweep
<1>6. CASE SweepFails
  BY <1>0, <1>6 DEF SweepFails, NoSweep, Passes, RunningAreKnown
<1> QED
  BY <1>1, <1>2, <1>3, <1>4, <1>5, <1>6 DEF Next

\* A pass removes no record of a server that runs.
LEMMA SweepSpares ==
  ASSUME Types, RunningAreKnown, Sweep \/ SweepFails,
         NEW u \in Users, online[u] \in running
  PROVE  online'[u] = online[u]
<1>1. CASE SweepEntry
  <2> DEFINE e == Head(sweep.page)
  <2>1. e \in Entries /\ sweep.on
    BY <1>1 DEF SweepEntry, Types, Passes, RunningAreKnown
  <2>2. e.cs \notin sweep.alive => online[u] # e.cs
    BY <2>1 DEF RunningAreKnown
  <2> QED
    BY <1>1, <2>2 DEF SweepEntry, DeleteIfMatch, Types
<1>2. CASE SweepStart \/ ScanPrefix \/ SweepEnd \/ SweepFails
  BY <1>2 DEF SweepStart, ScanPrefix, SweepEnd, SweepFails
<1> QED
  BY <1>1, <1>2 DEF Sweep

(***************************************************************************)
(* One step of the records: only the server that a record names deletes    *)
(* it, in an event of that user.                                           *)
(***************************************************************************)
LEMMA RecordGoes ==
  ASSUME PresenceAssumption, Types, RunningAreKnown, [Next]_vars,
         NEW u \in Users, online[u] \in running, online'[u] = NoCs
  PROVE  srv[online[u]].op = [do |-> "delete", uid |-> u]
<1>0. online \in [Users -> Cs \cup {NoCs}] /\ online[u] \in Cs /\ online[u] # NoCs
  BY SMTT(60) DEF Types, PresenceAssumption
<1>1. CASE UNCHANGED vars \/ Client
  BY Zenon, <1>0, <1>1 DEF vars, Client, Open, Enroll, Hangup, GoIdle, PumpExit
<1>2. ASSUME NEW s \in Cs, EventLoop(s)
      PROVE  srv[online[u]].op = [do |-> "delete", uid |-> u]
  <2>1. CASE WriteRecord(s)
    <3>1. srv[s].op \in Events
      BY DEF Types, Servers
    <3>2. s # NoCs
      BY DEF PresenceAssumption
    <3>3. CASE srv[s].op.do = "put"
      BY <1>0, <2>1, <3>2, <3>3 DEF WriteRecord, Upsert
    <3>4. CASE srv[s].op.do # "put"
      <4>1. online[u] = s /\ srv[s].op.uid = u
        BY <1>0, <2>1, <3>4 DEF WriteRecord, DeleteIfMatch
      <4>2. srv[s].op.do = "delete" /\ srv[s].op \in [do : {"put", "delete"}, uid : Users]
        BY SMTT(60), <2>1, <3>1, <3>4 DEF WriteRecord, Events, NoOp
      <4> QED
        BY <4>1, <4>2
    <3> QED
      BY <3>3, <3>4
  <2>2. CASE EventRegister(s) \/ EventUnregister(s) \/ Tick(s) \/ (\E k \in Conn : Kick(s, k))
             \/ WriteFails(s)
    BY Zenon, <1>0, <2>2 DEF EventRegister, EventUnregister, Tick, Kick, WriteFails
  <2> QED
    BY <1>2, <2>1, <2>2 DEF EventLoop
<1>3. ASSUME NEW s \in Cs, Crash(s) \/ Restart(s) \/ LeaseExpires(s) \/ Relist(s)
      PROVE  FALSE
  BY Zenon, <1>0, <1>3 DEF Crash, Restart, LeaseExpires, Relist
<1>4. CASE Sweep \/ SweepFails
  BY <1>0, <1>4, SweepSpares
<1> QED
  BY <1>1, <1>2, <1>3, <1>4 DEF Next
-----------------------------------------------------------------------------
\* A record is backed by an entry.

\* Nothing that a record depends on changes at a server that goes on running.
LEMMA EntryKept ==
  ASSUME EntryInv, running' \subseteq running,
         \A u \in Users : online'[u] \in running' => online'[u] = online[u],
         \A s \in running' : srv'[s].op = srv[s].op /\ srv'[s].table = srv[s].table
  PROVE  EntryInv'
  BY DEF EntryInv, RecordHasEntry, PutHasEntry

\* A client changes the channels of a server only.
LEMMA ClientKeeps ==
  ASSUME Types, Client
  PROVE  \A s \in Cs : /\ srv'[s].op = srv[s].op
                       /\ srv'[s].table = srv[s].table
                       /\ srv'[s].kick = srv[s].kick
<1>0. srv \in [Cs -> Servers(Len(conn))] /\ \A s \in Cs : srv[s] \in Servers(Len(conn))
  BY DEF Types
<1>1. ASSUME NEW u \in Users, NEW s \in Cs, Open(u, s) PROVE srv' = srv
  BY <1>1 DEF Open
<1>2. ASSUME NEW k \in Conn, Enroll(k) \/ PumpExit(k)
      PROVE  \E s \in Cs : \/ srv' = [srv EXCEPT ![s].reg = Append(@, k)]
                          \/ srv' = [srv EXCEPT ![s].unreg = Append(@, k)]
  BY Zenon, <1>2, ConnType DEF Enroll, PumpExit
<1>3. ASSUME NEW k \in Conn, Hangup(k) \/ GoIdle(k) PROVE srv' = srv
  BY <1>3 DEF Hangup, GoIdle
<1>4. ASSUME NEW s \in Cs, NEW k \in Conn,
             \/ srv' = [srv EXCEPT ![s].reg = Append(@, k)]
             \/ srv' = [srv EXCEPT ![s].unreg = Append(@, k)],
             NEW t \in Cs
      PROVE  srv'[t].op = srv[t].op /\ srv'[t].table = srv[t].table /\ srv'[t].kick = srv[t].kick
  <2>1. CASE srv' = [srv EXCEPT ![s].reg = Append(@, k)]
    <3>1. srv'[t] = IF t = s THEN [srv[s] EXCEPT !.reg = Append(@, k)] ELSE srv[t]
      BY <1>0, <2>1
    <3> QED
      BY <1>0, <3>1 DEF Servers
  <2>2. CASE srv' = [srv EXCEPT ![s].unreg = Append(@, k)]
    <3>1. srv'[t] = IF t = s THEN [srv[s] EXCEPT !.unreg = Append(@, k)] ELSE srv[t]
      BY <1>0, <2>2
    <3> QED
      BY <1>0, <3>1 DEF Servers
  <2> QED
    BY <1>4, <2>1, <2>2
<1> QED
  BY ZenonT(60), <1>1, <1>2, <1>3, <1>4 DEF Client

LEMMA EntryNext ==
  ASSUME PresenceAssumption, "restart" \notin Adversity, MaxKvFail = 0,
         Types, EntryInv, [Next]_vars
  PROVE  EntryInv'
<1>0. /\ srv \in [Cs -> Servers(Len(conn))] /\ Len(conn) \in Nat /\ running \subseteq Cs
      /\ online \in [Users -> Cs \cup {NoCs}]
      /\ \A s \in Cs : srv[s] \in Servers(Len(conn)) /\ srv[s].op \in Events
                       /\ srv[s].table \in [Users -> 0 .. Len(conn)]
  BY DEF Types, Servers
<1>a. NoOp # [do |-> "put", uid |-> 0] /\ NoOp.do = "none"
      /\ \A u : NoOp # [do |-> "put", uid |-> u] /\ NoOp # [do |-> "delete", uid |-> u]
  BY DEF NoOp
<1>1. CASE UNCHANGED vars
  BY <1>1, EntryKept DEF vars
<1>2. CASE Client
  <2>1. \A s \in running : srv'[s].op = srv[s].op /\ srv'[s].table = srv[s].table
    BY <1>0, <1>2, ClientKeeps
  <2>2. running' = running /\ online' = online
    BY Zenon, <1>2 DEF Client, Open, Enroll, Hangup, GoIdle, PumpExit
  <2> QED
    BY <2>1, <2>2, EntryKept
<1>3. ASSUME NEW s \in Cs, EventLoop(s) PROVE EntryInv'
  <2>0. running' = running /\ s \in running
    BY Zenon, <1>3 DEF EventLoop, EventRegister, EventUnregister, Tick, Kick, WriteRecord, WriteFails, Waiting
  <2>1. CASE EventRegister(s)
    <3> DEFINE k == Head(srv[s].reg)
               v == conn[k].uid
    <3>1. k \in Conn /\ k # 0 /\ v \in Users
      BY <1>0, <2>1, ConnType DEF EventRegister, Servers
    <3>2. /\ srv'[s].table = [srv[s].table EXCEPT ![v] = k]
          /\ srv'[s].op = [do |-> "put", uid |-> v]
          /\ \A t \in Cs \ {s} : srv'[t] = srv[t]
          /\ online' = online /\ srv[s].op = NoOp
      BY <1>0, <2>1 DEF EventRegister, Waiting, Servers
    <3> HIDE DEF k, v
    <3>3. RecordHasEntry'
      <4>0. \A u \in Users, t \in running :
              online[u] = t /\ srv[t].op # [do |-> "delete", uid |-> u] => srv[t].table[u] # 0
        BY DEF EntryInv, RecordHasEntry
      <4> SUFFICES ASSUME NEW u \in Users, NEW t \in running, online[u] = t,
                          srv'[t].op # [do |-> "delete", uid |-> u]
                   PROVE  srv'[t].table[u] # 0
        BY <2>0, <3>2 DEF RecordHasEntry
      <4>1. CASE t = s /\ u = v
        <5>1. srv'[s].table[v] = k
          BY <1>0, <3>1, <3>2
        <5> QED
          BY Zenon, <3>1, <4>1, <5>1
      <4>2. CASE t = s /\ u # v
        <5>1. srv'[s].table[u] = srv[s].table[u]
          BY <1>0, <3>1, <3>2, <4>2
        <5>2. srv[s].op # [do |-> "delete", uid |-> u]
          BY Zenon, <1>a, <3>2
        <5> QED
          BY Zenon, <4>0, <4>2, <5>1, <5>2
      <4>3. CASE t # s
        <5>1. srv'[t] = srv[t]
          BY <1>0, <3>2, <4>3
        <5> QED
          BY Zenon, <4>0, <5>1
      <4> QED
        BY <4>1, <4>2, <4>3
    <3>4. PutHasEntry'
      BY <1>0, <1>a, <2>0, <3>1, <3>2 DEF EntryInv, PutHasEntry
    <3> QED
      BY <3>3, <3>4 DEF EntryInv
  <2>2. ASSUME NEW v \in Users,
               /\ srv'[s].table = [srv[s].table EXCEPT ![v] = 0]
               /\ srv'[s].op = [do |-> "delete", uid |-> v]
               /\ \A t \in Cs \ {s} : srv'[t] = srv[t]
               /\ online' = online /\ srv[s].op = NoOp
        PROVE  EntryInv'
    <3>1. RecordHasEntry'
      <4>0. \A u \in Users, t \in running :
              online[u] = t /\ srv[t].op # [do |-> "delete", uid |-> u] => srv[t].table[u] # 0
        BY DEF EntryInv, RecordHasEntry
      <4> SUFFICES ASSUME NEW u \in Users, NEW t \in running, online[u] = t,
                          srv'[t].op # [do |-> "delete", uid |-> u]
                   PROVE  srv'[t].table[u] # 0
        BY <2>0, <2>2 DEF RecordHasEntry
      <4>1. CASE t = s
        <5>1. u # v
          BY Zenon, <2>2, <4>1
        <5>2. srv'[s].table[u] = srv[s].table[u]
          BY <1>0, <2>2, <5>1
        <5>3. srv[s].op # [do |-> "delete", uid |-> u]
          BY Zenon, <1>a, <2>2
        <5> QED
          BY Zenon, <4>0, <4>1, <5>2, <5>3
      <4>2. CASE t # s
        <5>1. srv'[t] = srv[t]
          BY <1>0, <2>2, <4>2
        <5> QED
          BY Zenon, <4>0, <5>1
      <4> QED
        BY <4>1, <4>2
    <3>2. PutHasEntry'
      BY <1>0, <1>a, <2>0, <2>2 DEF EntryInv, PutHasEntry
    <3> QED
      BY <3>1, <3>2 DEF EntryInv
  <2>3. CASE EventUnregister(s)
    <3> DEFINE v == conn[Head(srv[s].unreg)].uid
    <3>1. v \in Users
      BY SMTT(30), <1>0, <2>3, ConnType DEF EventUnregister, Servers
    <3>2. /\ srv'[s].table = [srv[s].table EXCEPT ![v] = 0]
          /\ srv'[s].op = [do |-> "delete", uid |-> v]
          /\ \A t \in Cs \ {s} : srv'[t] = srv[t]
          /\ online' = online /\ srv[s].op = NoOp
      BY <1>0, <2>3 DEF EventUnregister, Waiting, Servers
    <3> HIDE DEF v
    <3> QED
      BY <2>2, <3>1, <3>2
  <2>4. ASSUME NEW k \in Conn, Kick(s, k) PROVE EntryInv'
    <3> DEFINE v == conn[k].uid
    <3>1. v \in Users
      BY ConnType
    <3>2. /\ srv'[s].table = [srv[s].table EXCEPT ![v] = 0]
          /\ srv'[s].op = [do |-> "delete", uid |-> v]
          /\ \A t \in Cs \ {s} : srv'[t] = srv[t]
          /\ online' = online /\ srv[s].op = NoOp
      BY <1>0, <2>4 DEF Kick, Servers
    <3> HIDE DEF v
    <3> QED
      BY <2>2, <3>1, <3>2
  <2>5. CASE Tick(s)
    <3>1. \A t \in Cs : srv'[t].op = srv[t].op /\ srv'[t].table = srv[t].table
      BY <1>0, <2>5 DEF Tick, Servers
    <3> QED
      BY <1>0, <2>0, <2>5, <3>1, EntryKept DEF Tick
  <2>6. CASE WriteRecord(s)
    <3>1. /\ srv'[s].table = srv[s].table /\ srv'[s].op = NoOp
          /\ \A t \in Cs \ {s} : srv'[t] = srv[t]
          /\ srv[s].op \in [do : {"put", "delete"}, uid : Users]
      BY <1>0, <2>6 DEF WriteRecord, Servers, Events
    <3>2. CASE srv[s].op.do = "put"
      <4>1. /\ online' = [online EXCEPT ![srv[s].op.uid] = s]
            /\ srv[s].op = [do |-> "put", uid |-> srv[s].op.uid] /\ srv[s].op.uid \in Users
        BY <2>6, <3>1, <3>2 DEF WriteRecord, Upsert
      <4> QED
        BY <1>0, <1>a, <2>0, <3>1, <4>1 DEF EntryInv, RecordHasEntry, PutHasEntry
    <3>3. CASE srv[s].op.do = "delete"
      <4>1. /\ online' = [online EXCEPT ![srv[s].op.uid] = IF @ = s THEN NoCs ELSE @]
            /\ srv[s].op = [do |-> "delete", uid |-> srv[s].op.uid] /\ srv[s].op.uid \in Users
            /\ NoCs \notin running
        BY <1>0, <2>6, <3>1, <3>3 DEF WriteRecord, DeleteIfMatch, PresenceAssumption
      <4> QED
        BY SMTT(30), <1>0, <1>a, <2>0, <3>1, <4>1 DEF EntryInv, RecordHasEntry, PutHasEntry
    <3> QED
      BY <3>1, <3>2, <3>3
  <2>7. ~WriteFails(s)
    BY DEF WriteFails, Types
  <2> QED
    BY <1>3, <2>1, <2>3, <2>4, <2>5, <2>6, <2>7 DEF EventLoop
<1>4. ASSUME NEW s \in Cs, Crash(s) \/ Restart(s) \/ LeaseExpires(s) \/ Relist(s)
      PROVE  EntryInv'
  <2>1. running' \subseteq running /\ online' = online /\ \A t \in running' : srv'[t] = srv[t]
    BY Zenon, <1>0, <1>4 DEF Crash, Restart, LeaseExpires, Relist
  <2> QED
    BY <2>1, EntryKept
<1>5. CASE Sweep \/ SweepFails
  <2>1. running' = running /\ srv' = srv
    BY <1>5 DEF Sweep, SweepStart, ScanPrefix, SweepEntry, SweepEnd, SweepFails
  <2>2. \A u \in Users : online'[u] \in {online[u], NoCs}
    BY <1>0, <1>5 DEF Sweep, SweepStart, ScanPrefix, SweepEntry, SweepEnd, SweepFails, DeleteIfMatch
  <2>3. NoCs \notin running
    BY <1>0 DEF PresenceAssumption
  <2> QED
    BY <2>1, <2>2, <2>3, EntryKept
<1> QED
  BY <1>1, <1>2, <1>3, <1>4, <1>5 DEF Next
-----------------------------------------------------------------------------
\* Connections keep their user and server; none opens again.

ConnectionsLast ==
  /\ Conn \subseteq Conn'
  /\ \A k \in Conn : /\ conn'[k].uid = conn[k].uid
                     /\ conn'[k].cs = conn[k].cs
                     /\ conn'[k].tidy = conn[k].tidy
                     /\ conn'[k].open => conn[k].open

\* One connection is changed, and only in what may change.
LEMMA OneChanges ==
  ASSUME Types, NEW k \in Conn, NEW x \in Connections, conn' = [conn EXCEPT ![k] = x],
         x.uid = conn[k].uid, x.cs = conn[k].cs, x.tidy = conn[k].tidy, x.open => conn[k].open
  PROVE  /\ ConnectionsLast /\ Conn' = Conn /\ conn'[k] = x
         /\ \A j \in Conn \ {k} : conn'[j] = conn[j]
<1>1. conn' \in Seq(Connections) /\ Len(conn') = Len(conn)
  BY Zenon, ConnSet
<1>2. Conn' = Conn
  BY <1>1 DEF Conn
<1>3. \A j \in Conn : conn'[j] = IF j = k THEN x ELSE conn[j]
  BY ConnType
<1> QED
  BY <1>2, <1>3 DEF ConnectionsLast

LEMMA NoneChanges ==
  ASSUME conn' = conn
  PROVE  ConnectionsLast /\ Conn' = Conn
  BY DEF ConnectionsLast, Conn

\* A connection that sends, hangs up, goes idle or ends.
LEMMA PumpStep ==
  ASSUME Types, NEW k \in Conn, Enroll(k) \/ Hangup(k) \/ GoIdle(k) \/ PumpExit(k)
  PROVE  /\ ConnectionsLast /\ Conn' = Conn
         /\ \A j \in Conn \ {k} : conn'[j] = conn[j]
         /\ conn'[k].open => conn[k].open /\ ~PumpExit(k)
         /\ conn[k].sent => conn'[k].sent
<1>0. conn[k] \in Connections
  BY ConnType
<1>e. ASSUME PumpExit(k) PROVE ~conn'[k].open
  <2>1. conn' = [conn EXCEPT ![k] = [conn[k] EXCEPT !.open = FALSE, !.left = TRUE]]
    BY Zenon, <1>e DEF PumpExit
  <2>2. conn'[k] = [conn[k] EXCEPT !.open = FALSE, !.left = TRUE]
    BY <2>1, ConnType
  <2> QED
    BY <1>0, <2>2 DEF Connections
<1>1. CASE Enroll(k)
  <2> DEFINE x == [conn[k] EXCEPT !.sent = TRUE]
  <2>1. conn' = [conn EXCEPT ![k] = x]
    BY <1>1 DEF Enroll
  <2>2. /\ x \in Connections /\ x.uid = conn[k].uid /\ x.cs = conn[k].cs
        /\ x.tidy = conn[k].tidy /\ x.open = conn[k].open /\ x.sent
    BY Zenon, <1>0 DEF Connections
  <2> HIDE DEF x
  <2> QED
    BY Zenon, <1>e, <2>1, <2>2, OneChanges
<1>2. CASE Hangup(k)
  <2> DEFINE x == [conn[k] EXCEPT !.open = FALSE]
  <2>1. conn' = [conn EXCEPT ![k] = x]
    BY <1>2 DEF Hangup
  <2>2. /\ x \in Connections /\ x.uid = conn[k].uid /\ x.cs = conn[k].cs
        /\ x.tidy = conn[k].tidy /\ x.open = FALSE /\ x.sent = conn[k].sent
    BY Zenon, <1>0 DEF Connections
  <2> HIDE DEF x
  <2> QED
    BY Zenon, <2>1, <2>2, OneChanges
<1>3. CASE GoIdle(k)
  <2> DEFINE x == [conn[k] EXCEPT !.idle = TRUE]
  <2>1. conn' = [conn EXCEPT ![k] = x]
    BY <1>3 DEF GoIdle
  <2>2. /\ x \in Connections /\ x.uid = conn[k].uid /\ x.cs = conn[k].cs
        /\ x.tidy = conn[k].tidy /\ x.open = conn[k].open /\ x.sent = conn[k].sent
    BY Zenon, <1>0 DEF Connections
  <2> HIDE DEF x
  <2> QED
    BY Zenon, <1>e, <2>1, <2>2, OneChanges
<1>4. CASE PumpExit(k)
  <2> DEFINE x == [conn[k] EXCEPT !.open = FALSE, !.left = TRUE]
  <2>1. conn' = [conn EXCEPT ![k] = x]
    BY Zenon, <1>4 DEF PumpExit
  <2>2. /\ x \in Connections /\ x.uid = conn[k].uid /\ x.cs = conn[k].cs
        /\ x.tidy = conn[k].tidy /\ x.open = FALSE /\ x.sent = conn[k].sent
    BY Zenon, <1>0 DEF Connections
  <2> HIDE DEF x
  <2> QED
    BY Zenon, <2>1, <2>2, OneChanges
<1> QED
  BY <1>1, <1>2, <1>3, <1>4

LEMMA OpenStep ==
  ASSUME Types, NEW u \in Users, NEW s \in Cs, Open(u, s)
  PROVE  /\ ConnectionsLast
         /\ Conn' = Conn \cup {Len(conn) + 1}
         /\ \A j \in Conn : conn'[j] = conn[j] /\ j < Len(conn) + 1
         /\ conn'[Len(conn) + 1].uid = u /\ conn'[Len(conn) + 1].cs = s
         /\ ~conn'[Len(conn) + 1].sent
         /\ conn'[Len(conn) + 1].tidy <=> ~Again(u, s) /\ ~Late(u)
<1> DEFINE x == [uid |-> u, cs |-> s, open |-> TRUE, idle |-> FALSE,
                 sent |-> FALSE, left |-> FALSE, tidy |-> ~Again(u, s) /\ ~Late(u)]
<1>1. conn' = Append(conn, x) /\ x \in Connections /\ conn \in Seq(Connections)
  BY DEF Open, Connections, Types
<1>2. x.uid = u /\ x.cs = s /\ ~x.sent /\ (x.tidy <=> ~Again(u, s) /\ ~Late(u))
  OBVIOUS
<1> HIDE DEF x
<1>3. /\ Len(conn') = Len(conn) + 1 /\ conn'[Len(conn) + 1] = x
      /\ \A j \in 1 .. Len(conn) : conn'[j] = conn[j]
  BY <1>1, AppendProperties
<1>4. Len(conn) \in Nat
  BY <1>1
<1> QED
  BY <1>2, <1>3, <1>4 DEF Conn, ConnectionsLast

LEMMA KickStep ==
  ASSUME Types, NEW s \in Cs, NEW k \in Conn, Kick(s, k)
  PROVE  /\ ConnectionsLast /\ Conn' = Conn
         /\ \A j \in Conn \ {k} : conn'[j] = conn[j]
         /\ ~conn'[k].open /\ conn'[k].sent = conn[k].sent
<1> DEFINE x == [conn[k] EXCEPT !.open = FALSE]
<1>0. conn[k] \in Connections
  BY ConnType
<1>1. conn' = [conn EXCEPT ![k] = x]
  BY DEF Kick
<1>2. /\ x \in Connections /\ x.uid = conn[k].uid /\ x.cs = conn[k].cs
      /\ x.tidy = conn[k].tidy /\ x.open = FALSE /\ x.sent = conn[k].sent
  BY Zenon, <1>0 DEF Connections
<1> HIDE DEF x
<1> QED
  BY Zenon, <1>1, <1>2, OneChanges

LEMMA CrashStep ==
  ASSUME Types, NEW s \in Cs, Crash(s)
  PROVE  /\ ConnectionsLast /\ Conn' = Conn
         /\ \A k \in Conn : conn[k].cs = s => ~conn'[k].open
         /\ \A k \in Conn : conn[k].sent => conn'[k].sent
         /\ \A k \in Conn : conn[k].cs # s => conn'[k] = conn[k]
<1>1. /\ conn' = [k \in 1 .. Len(conn) |->
                    IF conn[k].cs = s
                    THEN [conn[k] EXCEPT !.open = FALSE, !.sent = TRUE, !.left = TRUE]
                    ELSE conn[k]]
      /\ Len(conn) \in Nat
  BY Zenon, ConnType DEF Crash
<1>2. conn' \in Seq(Connections)
  <2>1. PresenceAssumption => Types'
    BY TypesServer
  <2> QED
    BY <2>1, PresenceAssumption DEF Types
<1>3. Len(conn') = Len(conn)
  <2>1. DOMAIN conn' = 1 .. Len(conn)
    BY Zenon, <1>1
  <2>2. DOMAIN conn' = 1 .. Len(conn') /\ Len(conn') \in Nat /\ Len(conn) \in Nat
    BY <1>2, ConnType
  <2> QED
    BY <2>1, <2>2
<1>4. \A k \in Conn : conn'[k] = IF conn[k].cs = s
                                 THEN [conn[k] EXCEPT !.open = FALSE, !.sent = TRUE, !.left = TRUE]
                                 ELSE conn[k]
  BY Zenon, <1>1 DEF Conn
<1>5. \A k \in Conn : conn[k] \in Connections
  BY ConnType
<1>6. Conn' = Conn
  BY <1>3 DEF Conn
<1> QED
  BY ZenonT(60), <1>4, <1>5, <1>6 DEF ConnectionsLast, Connections
-----------------------------------------------------------------------------
\* What a server holds comes from its own connections.

LEMMA InServer ==
  ASSUME Types, NEW s \in Cs
  PROVE  /\ \A i \in DOMAIN srv[s].reg : srv[s].reg[i] \in Conn
         /\ \A i \in DOMAIN srv[s].unreg : srv[s].unreg[i] \in Conn
         /\ \A u \in Users : srv[s].table[u] # 0 => srv[s].table[u] \in Conn
         /\ srv[s].kick \subseteq Conn
         /\ srv[s].op \in Events
         /\ srv[s].reg # <<>> => Head(srv[s].reg) = srv[s].reg[1] /\ 1 \in DOMAIN srv[s].reg
         /\ srv[s].unreg # <<>> => Head(srv[s].unreg) = srv[s].unreg[1] /\ 1 \in DOMAIN srv[s].unreg
         /\ srv[s].reg \in Seq(Conn) /\ srv[s].unreg \in Seq(Conn)
<1>1. srv[s] \in Servers(Len(conn)) /\ Conn = 1 .. Len(conn) /\ Len(conn) \in Nat
  BY ConnType
<1>2. srv[s].reg \in Seq(Conn) /\ srv[s].unreg \in Seq(Conn)
  BY <1>1 DEF Servers
<1>3. \A u \in Users : srv[s].table[u] \in 0 .. Len(conn)
  BY <1>1 DEF Servers
<1>4. srv[s].kick \subseteq Conn /\ srv[s].op \in Events
  BY <1>1 DEF Servers
<1>5. \A q \in Seq(Conn) :
        /\ \A i \in DOMAIN q : q[i] \in Conn
        /\ q # <<>> => Head(q) = q[1] /\ 1 \in DOMAIN q
  OBVIOUS
<1>6. \A u \in Users : srv[s].table[u] # 0 => srv[s].table[u] \in Conn
  BY <1>1, <1>3
<1> QED
  BY Zenon, <1>2, <1>4, <1>5, <1>6

\* A server that does nothing keeps what it has.
LEMMA OwnStays ==
  ASSUME Types, ConnectionsLast, NEW s \in Cs, Own(s), srv'[s] = srv[s]
  PROVE  Own(s)'
<1>1. \A k \in Conn : /\ k \in Conn' /\ conn'[k].uid = conn[k].uid /\ conn'[k].cs = conn[k].cs
                      /\ conn'[k].open => conn[k].open
  BY DEF ConnectionsLast
<1> QED
  BY SMTT(30), <1>1, InServer DEF Own

\* The elements of a queue that grows or shrinks by one.
LEMMA QueueElements ==
  ASSUME NEW S, NEW q \in Seq(S), NEW k \in S
  PROVE  /\ \A j : InSeq(j, Append(q, k)) <=> InSeq(j, q) \/ j = k
         /\ q # <<>> => \A j : InSeq(j, q) <=> InSeq(j, Tail(q)) \/ j = Head(q)
<1>1. /\ Append(q, k) \in Seq(S) /\ Len(Append(q, k)) = Len(q) + 1 /\ Len(q) \in Nat
      /\ \A i \in 1 .. Len(q) : Append(q, k)[i] = q[i]
      /\ Append(q, k)[Len(q) + 1] = k
      /\ DOMAIN q = 1 .. Len(q) /\ DOMAIN Append(q, k) = 1 .. Len(q) + 1
  BY AppendProperties
<1>2. \A j : InSeq(j, Append(q, k)) <=> InSeq(j, q) \/ j = k
  BY <1>1 DEF InSeq
<1>3. ASSUME q # <<>>, NEW j PROVE InSeq(j, q) <=> InSeq(j, Tail(q)) \/ j = Head(q)
  <2>1. /\ Tail(q) \in Seq(S) /\ Len(Tail(q)) = Len(q) - 1 /\ Len(q) \in Nat /\ Len(q) > 0
        /\ \A i \in 1 .. Len(Tail(q)) : Tail(q)[i] = q[i + 1]
        /\ Head(q) = q[1] /\ DOMAIN q = 1 .. Len(q) /\ DOMAIN Tail(q) = 1 .. Len(q) - 1
    BY <1>3, HeadTailProperties
  <2>2. ASSUME InSeq(j, q) PROVE InSeq(j, Tail(q)) \/ j = Head(q)
    <3>1. PICK i \in 1 .. Len(q) : q[i] = j
      BY <2>1, <2>2 DEF InSeq
    <3>2. CASE i = 1
      BY <2>1, <3>1, <3>2
    <3>3. CASE i # 1
      <4>1. i - 1 \in 1 .. Len(Tail(q)) /\ (i - 1) + 1 = i
        BY <2>1, <3>1, <3>3
      <4>2. Tail(q)[i - 1] = j
        BY <2>1, <3>1, <4>1
      <4> QED
        BY Zenon, <2>1, <4>1, <4>2 DEF InSeq
    <3> QED
      BY <3>2, <3>3
  <2>3. ASSUME InSeq(j, Tail(q)) PROVE InSeq(j, q)
    <3>1. PICK i \in 1 .. Len(Tail(q)) : Tail(q)[i] = j
      BY <2>1, <2>3 DEF InSeq
    <3>2. i + 1 \in 1 .. Len(q) /\ q[i + 1] = j
      BY <2>1, <3>1
    <3> QED
      BY <2>1, <3>2 DEF InSeq
  <2>4. InSeq(Head(q), q)
    BY <2>1 DEF InSeq
  <2> QED
    BY <2>2, <2>3, <2>4
<1> QED
  BY <1>2, <1>3

\* What a step adds to a server is its own.
LEMMA OwnGrows ==
  ASSUME Types, ConnectionsLast, NEW s \in Cs, Own(s),
         \A k : InSeq(k, srv'[s].reg) => InSeq(k, srv[s].reg) \/ conn'[k].cs = s,
         \A k : InSeq(k, srv'[s].unreg) =>
                  InSeq(k, srv[s].unreg) \/ (conn'[k].cs = s /\ ~conn'[k].open),
         \A u \in Users : \/ srv'[s].table[u] \in {0, srv[s].table[u]}
                          \/ conn'[srv'[s].table[u]].cs = s,
         \A k \in srv'[s].kick : k \in srv[s].kick \/ conn'[k].cs = s,
         \/ srv'[s].op = srv[s].op \/ srv'[s].op.do = "none"
         \/ /\ srv'[s].op.do = "put"
            /\ \E k \in Conn' : conn'[k].uid = srv'[s].op.uid /\ conn'[k].cs = s
         \/ /\ srv'[s].op.do = "delete"
            /\ \E k \in Conn' : conn'[k].uid = srv'[s].op.uid /\ conn'[k].cs = s /\ ~conn'[k].open
  PROVE  Own(s)'
<1>0. \A k \in Conn : /\ k \in Conn' /\ conn'[k].uid = conn[k].uid /\ conn'[k].cs = conn[k].cs
                      /\ conn'[k].open => conn[k].open
  BY DEF ConnectionsLast
<1>1. \A i \in DOMAIN srv'[s].reg : conn'[srv'[s].reg[i]].cs = s
  <2>1. \A k : InSeq(k, srv[s].reg) => k \in Conn /\ conn[k].cs = s
    BY InServer DEF InSeq, Own
  <2> QED
    BY <1>0, <2>1 DEF InSeq
<1>2. \A i \in DOMAIN srv'[s].unreg :
        conn'[srv'[s].unreg[i]].cs = s /\ ~conn'[srv'[s].unreg[i]].open
  <2>1. \A k : InSeq(k, srv[s].unreg) => k \in Conn /\ conn[k].cs = s /\ ~conn[k].open
    BY InServer DEF InSeq, Own
  <2> QED
    BY <1>0, <2>1 DEF InSeq
<1>3. \A u \in Users : srv'[s].table[u] # 0 => conn'[srv'[s].table[u]].cs = s
  BY <1>0, InServer DEF Own
<1>4. \A k \in srv'[s].kick : conn'[k].cs = s
  BY <1>0, InServer DEF Own
<1>5. /\ srv'[s].op.do = "put" =>
           \E k \in Conn' : conn'[k].uid = srv'[s].op.uid /\ conn'[k].cs = s
      /\ srv'[s].op.do = "delete" =>
           \E k \in Conn' : conn'[k].uid = srv'[s].op.uid /\ conn'[k].cs = s /\ ~conn'[k].open
  BY <1>0 DEF Own
<1> QED
  BY <1>1, <1>2, <1>3, <1>4, <1>5 DEF Own

LEMMA OwnNext ==
  ASSUME PresenceAssumption, Types, OwnConnections, [Next]_vars
  PROVE  OwnConnections'
<1>0. /\ srv \in [Cs -> Servers(Len(conn))] /\ running \subseteq Cs
      /\ \A s \in Cs : Own(s)
      /\ OpenAreUp
  BY DEF Types, OwnConnections
<1> DEFINE Others(s) == \A t \in Cs \ {s} : srv'[t] = srv[t]
<1>a. ASSUME ConnectionsLast, NEW s \in Cs, Own(s)', Others(s) PROVE \A t \in Cs : Own(t)'
  BY <1>0, <1>a, OwnStays
<1>b. ASSUME ConnectionsLast, Conn' = Conn, running \subseteq running' PROVE OpenAreUp'
  BY <1>0, <1>b DEF OpenAreUp, ConnectionsLast
<1>1. CASE UNCHANGED vars
  BY <1>1 DEF vars, OwnConnections, Own, OpenAreUp, Conn
<1>2. ASSUME NEW u \in Users, NEW s \in Cs, Open(u, s) PROVE OwnConnections'
  <2>1. srv' = srv /\ running' = running /\ s \in running
    BY <1>2 DEF Open
  <2>2. OpenAreUp'
    BY <1>0, <1>2, <2>1, OpenStep DEF OpenAreUp
  <2> QED
    BY <1>0, <1>2, <2>1, <2>2, OpenStep, OwnStays DEF OwnConnections
<1>3. ASSUME NEW k \in Conn, Enroll(k) \/ Hangup(k) \/ GoIdle(k) \/ PumpExit(k)
      PROVE  OwnConnections'
  <2> DEFINE s == conn[k].cs
  <2>0. ConnectionsLast /\ Conn' = Conn /\ running' = running /\ s \in Cs /\ Own(s) /\ conn'[k].cs = s
    BY ZenonT(60), <1>0, <1>3, PumpStep, ConnType DEF Enroll, Hangup, GoIdle, PumpExit, ConnectionsLast
  <2>2. CASE Enroll(k)
    <3>1. /\ srv'[s].reg = Append(srv[s].reg, k)
          /\ srv'[s].unreg = srv[s].unreg /\ srv'[s].table = srv[s].table
          /\ srv'[s].kick = srv[s].kick /\ srv'[s].op = srv[s].op
          /\ Others(s)
      BY <1>0, <2>0, <2>2 DEF Enroll, Servers
    <3>2. \A j : InSeq(j, srv'[s].reg) => InSeq(j, srv[s].reg) \/ conn'[j].cs = s
      BY <2>0, <3>1, InServer, QueueElements
    <3>3. Own(s)'
      BY Zenon, <2>0, <3>1, <3>2, OwnGrows
    <3> QED
      BY <1>a, <1>b, <2>0, <3>1, <3>3 DEF OwnConnections
  <2>3. CASE PumpExit(k)
    <3>1. /\ srv'[s].unreg = Append(srv[s].unreg, k)
          /\ srv'[s].reg = srv[s].reg /\ srv'[s].table = srv[s].table
          /\ srv'[s].kick = srv[s].kick /\ srv'[s].op = srv[s].op
          /\ Others(s)
      BY <1>0, <2>0, <2>3 DEF PumpExit, Servers
    <3>2. ~conn'[k].open
      BY <1>3, <2>3, PumpStep
    <3>3. \A j : InSeq(j, srv'[s].unreg) =>
                   InSeq(j, srv[s].unreg) \/ (conn'[j].cs = s /\ ~conn'[j].open)
      BY <2>0, <3>1, <3>2, InServer, QueueElements
    <3>4. Own(s)'
      BY Zenon, <2>0, <3>1, <3>3, OwnGrows
    <3> QED
      BY <1>a, <1>b, <2>0, <3>1, <3>4 DEF OwnConnections
  <2>4. CASE Hangup(k) \/ GoIdle(k)
    <3>1. srv' = srv
      BY <2>4 DEF Hangup, GoIdle
    <3> QED
      BY <1>0, <1>b, <2>0, <3>1, OwnStays DEF OwnConnections
  <2> QED
    BY <1>3, <2>2, <2>3, <2>4
<1>4. ASSUME NEW s \in Cs, EventLoop(s) PROVE OwnConnections'
  <2>0. running' = running /\ Own(s)
    BY Zenon, <1>0, <1>4 DEF EventLoop, EventRegister, EventUnregister, Tick, Kick, WriteRecord, WriteFails
  <2>1. CASE EventRegister(s)
    <3> DEFINE k == Head(srv[s].reg)
    <3>1. /\ srv'[s].reg = Tail(srv[s].reg) /\ srv[s].reg # <<>>
          /\ srv'[s].unreg = srv[s].unreg
          /\ srv'[s].table = [srv[s].table EXCEPT ![conn[k].uid] = k]
          /\ srv'[s].kick = srv[s].kick
          /\ srv'[s].op.do = "put" /\ srv'[s].op.uid = conn[k].uid
          /\ Others(s) /\ conn' = conn
      BY <1>0, <2>1 DEF EventRegister, Servers
    <3>2. k \in Conn /\ conn[k].cs = s /\ conn[k].uid \in Users /\ srv[s].table \in [Users -> 0 .. Len(conn)]
      BY <1>0, <2>0, <3>1, InServer, ConnType DEF Own, Servers
    <3>3. \A j : InSeq(j, srv'[s].reg) => InSeq(j, srv[s].reg)
      BY <3>1, <3>2, InServer, QueueElements
    <3>4. ConnectionsLast /\ Conn' = Conn
      BY <3>1, NoneChanges
    <3> HIDE DEF k
    <3>5. Own(s)'
      BY SMTT(30), <2>0, <3>1, <3>2, <3>3, <3>4, OwnGrows
    <3> QED
      BY <1>a, <1>b, <2>0, <3>1, <3>4, <3>5 DEF OwnConnections
  <2>2. CASE EventUnregister(s)
    <3> DEFINE k == Head(srv[s].unreg)
    <3>1. /\ srv'[s].unreg = Tail(srv[s].unreg) /\ srv[s].unreg # <<>>
          /\ srv'[s].reg = srv[s].reg
          /\ srv'[s].table = [srv[s].table EXCEPT ![conn[k].uid] = 0]
          /\ srv'[s].kick = srv[s].kick
          /\ srv'[s].op.do = "delete" /\ srv'[s].op.uid = conn[k].uid
          /\ Others(s) /\ conn' = conn
      BY <1>0, <2>2 DEF EventUnregister, Servers
    <3>2. /\ k \in Conn /\ conn[k].cs = s /\ ~conn[k].open /\ conn[k].uid \in Users
          /\ srv[s].table \in [Users -> 0 .. Len(conn)]
      BY <1>0, <2>0, <3>1, InServer, ConnType DEF Own, Servers
    <3>3. \A j : InSeq(j, srv'[s].unreg) => InSeq(j, srv[s].unreg)
      BY <3>1, <3>2, InServer, QueueElements
    <3>4. ConnectionsLast /\ Conn' = Conn
      BY <3>1, NoneChanges
    <3> HIDE DEF k
    <3>5. Own(s)'
      BY <2>0, <3>1, <3>2, <3>3, <3>4, OwnGrows
    <3> QED
      BY <1>a, <1>b, <2>0, <3>1, <3>4, <3>5 DEF OwnConnections
  <2>3. CASE Tick(s)
    <3>1. /\ srv'[s].unreg = srv[s].unreg /\ srv'[s].reg = srv[s].reg
          /\ srv'[s].table = srv[s].table /\ srv'[s].op = srv[s].op
          /\ srv'[s].kick = IdleEntries(s)
          /\ Others(s) /\ conn' = conn
      BY <1>0, <2>3 DEF Tick, Servers
    <3>2. ConnectionsLast /\ Conn' = Conn
      BY <3>1, NoneChanges
    <3>3. \A k \in IdleEntries(s) : conn[k].cs = s
      BY <2>0 DEF IdleEntries, Own
    <3>4. Own(s)'
      BY <2>0, <3>1, <3>2, <3>3, OwnGrows
    <3> QED
      BY <1>a, <1>b, <2>0, <3>1, <3>2, <3>4 DEF OwnConnections
  <2>4. ASSUME NEW k \in Conn, Kick(s, k) PROVE OwnConnections'
    <3>1. /\ srv'[s].unreg = srv[s].unreg /\ srv'[s].reg = srv[s].reg
          /\ srv'[s].table = [srv[s].table EXCEPT ![conn[k].uid] = 0]
          /\ srv'[s].kick = srv[s].kick \ {k} /\ k \in srv[s].kick
          /\ srv'[s].op.do = "delete" /\ srv'[s].op.uid = conn[k].uid
          /\ Others(s)
      BY <1>0, <2>4 DEF Kick, Servers
    <3>2. ConnectionsLast /\ Conn' = Conn /\ ~conn'[k].open
      BY <2>4, KickStep
    <3>3. conn[k].cs = s /\ conn[k].uid \in Users /\ srv[s].table \in [Users -> 0 .. Len(conn)]
      BY <1>0, <2>0, <3>1, ConnType DEF Own, Servers
    <3>4. Own(s)'
      <4>1. conn'[k].uid = conn[k].uid /\ conn'[k].cs = s /\ k \in Conn'
        BY <3>2, <3>3 DEF ConnectionsLast
      <4> QED
        BY Zenon, <2>0, <3>1, <3>2, <3>3, <4>1, OwnGrows
    <3> QED
      BY <1>a, <1>b, <2>0, <3>1, <3>2, <3>4 DEF OwnConnections
  <2>5. CASE WriteRecord(s) \/ WriteFails(s)
    <3>1. /\ srv'[s].unreg = srv[s].unreg /\ srv'[s].reg = srv[s].reg
          /\ srv'[s].table = srv[s].table /\ srv'[s].op.do = "none"
          /\ srv'[s].kick = srv[s].kick
          /\ Others(s) /\ conn' = conn
      BY <1>0, <2>5 DEF WriteRecord, WriteFails, Servers, NoOp
    <3>2. ConnectionsLast /\ Conn' = Conn
      BY <3>1, NoneChanges
    <3>3. Own(s)'
      BY <2>0, <3>1, <3>2, OwnGrows
    <3> QED
      BY <1>a, <1>b, <2>0, <3>1, <3>2, <3>3 DEF OwnConnections
  <2> QED
    BY <1>4, <2>1, <2>2, <2>3, <2>4, <2>5 DEF EventLoop
<1>5. ASSUME NEW s \in Cs, Crash(s) PROVE OwnConnections'
  <2>1. srv' = [srv EXCEPT ![s] = IdleServer] /\ running' = running \ {s}
    BY Zenon, <1>5 DEF Crash
  <2>2. Own(s)'
    BY <1>0, <2>1 DEF Own, IdleServer, NoOp
  <2>3. OpenAreUp'
    BY <1>0, <1>5, <2>1, CrashStep DEF OpenAreUp, ConnectionsLast
  <2> QED
    BY <1>0, <1>a, <1>5, <2>1, <2>2, <2>3, CrashStep DEF OwnConnections
<1>6. ASSUME srv' = srv, conn' = conn, running \subseteq running' PROVE OwnConnections'
  BY <1>0, <1>b, <1>6, NoneChanges, OwnStays DEF OwnConnections
<1>7. ASSUME NEW s \in Cs, Restart(s) \/ LeaseExpires(s) \/ Relist(s) PROVE OwnConnections'
  BY <1>6, <1>7 DEF Restart, LeaseExpires, Relist
<1>8. CASE Sweep \/ SweepFails
  BY <1>6, <1>8 DEF Sweep, SweepStart, ScanPrefix, SweepEntry, SweepEnd, SweepFails
<1> QED
  BY <1>1, <1>2, <1>3, <1>4, <1>5, <1>7, <1>8 DEF Next, Client
-----------------------------------------------------------------------------
\* The newest connection of a tidy user has the record.

LEMMA NextLasts ==
  ASSUME Types, Next
  PROVE  ConnectionsLast
<1>1. ASSUME conn' = conn PROVE ConnectionsLast
  BY <1>1, NoneChanges
<1>2. CASE Client
  BY SMTT(60), <1>2, OpenStep, PumpStep DEF Client
<1>3. ASSUME NEW s \in Cs, EventLoop(s) PROVE ConnectionsLast
  BY <1>1, <1>3, KickStep
    DEF EventLoop, EventRegister, EventUnregister, Tick, WriteRecord, WriteFails
<1>4. ASSUME NEW s \in Cs, Crash(s) \/ Restart(s) \/ LeaseExpires(s) \/ Relist(s)
      PROVE  ConnectionsLast
  BY <1>1, <1>4, CrashStep DEF Restart, LeaseExpires, Relist
<1>5. CASE Sweep \/ SweepFails
  BY <1>1, <1>5 DEF Sweep, SweepStart, ScanPrefix, SweepEntry, SweepEnd, SweepFails
<1> QED
  BY <1>2, <1>3, <1>4, <1>5 DEF Next

LEMMA TidyBefore ==
  ASSUME ConnectionsLast, NEW u, Tidy(u)'
  PROVE  Tidy(u)
  BY DEF ConnectionsLast, Tidy

\* A step that opens no connection.
LEMMA DriftKept ==
  ASSUME ConnectionsLast, Conn' = Conn, NEW u \in Users, OthersSettled(u), NewestHasRecord(u),
         \A j \in Conn : conn[j].uid = u /\ Settled(j) => Settled(j)',
         \A k \in Newest(u) : conn'[k].open /\ Settled(k)' =>
              \/ Settled(k) /\ online'[u] = online[u]
              \/ online'[u] = conn[k].cs
  PROVE  OthersSettled(u)' /\ NewestHasRecord(u)'
<1>0. \A k \in Conn : /\ conn'[k].uid = conn[k].uid /\ conn'[k].cs = conn[k].cs
                      /\ conn'[k].open => conn[k].open
  BY DEF ConnectionsLast
<1>1. OthersSettled(u)'
  BY <1>0 DEF OthersSettled
<1>2. Newest(u)' = Newest(u)
  BY <1>0 DEF Newest
<1>3. \A k \in Newest(u) : k \in Conn
  BY DEF Newest
<1>4. NewestHasRecord(u)'
  BY <1>0, <1>2, <1>3 DEF NewestHasRecord
<1> QED
  BY <1>1, <1>4

\* Whether a connection is settled depends on its server only.
LEMMA SettledKept ==
  ASSUME NEW j \in Conn, conn'[j].cs = conn[j].cs, conn'[j].uid = conn[j].uid,
         conn'[j].sent = conn[j].sent, conn[j].cs \in running <=> conn[j].cs \in running',
         \/ conn[j].cs \notin running
         \/ /\ srv'[conn[j].cs].reg = srv[conn[j].cs].reg
            /\ srv'[conn[j].cs].op = srv[conn[j].cs].op
  PROVE  Settled(j)' <=> Settled(j)
  BY DEF Settled

LEMMA DriftNext ==
  ASSUME PresenceAssumption, LeasesHold, MaxKvFail = 0, Types, RunningAreKnown,
         OwnConnections, NEW u \in Users, OthersSettled(u), NewestHasRecord(u),
         Next, Tidy(u)'
  PROVE  OthersSettled(u)' /\ NewestHasRecord(u)'
<1>0. /\ srv \in [Cs -> Servers(Len(conn))] /\ running \subseteq Cs
      /\ online \in [Users -> Cs \cup {NoCs}] /\ NoCs \notin Cs
      /\ \A s \in Cs : Own(s)
      /\ \A k \in Conn : conn[k].open => conn[k].cs \in running
      /\ \A k \in Conn : conn[k].cs \in Cs
      /\ Conn \subseteq Nat
  BY ConnType DEF Types, OwnConnections, OpenAreUp, PresenceAssumption
<1>a. \A k \in Newest(u) : /\ k \in Conn /\ conn[k].uid = u
                           /\ \A j \in Conn : conn[j].uid = u =>
                                j = k \/ (conn[j].cs # conn[k].cs /\ Settled(j))
  <2>1. \A k \in Newest(u) : /\ k \in Conn /\ conn[k].uid = u
                             /\ \A j \in Conn : conn[j].uid = u => j <= k
    BY DEF Newest
  <2>2. \A k, j \in Conn : j <= k => j = k \/ j < k
    BY <1>0
  <2> QED
    BY <2>1, <2>2 DEF OthersSettled
<1> DEFINE Others(s) == \A t \in Cs \ {s} : srv'[t] = srv[t]
<1>1. ASSUME NEW v \in Users, NEW s \in Cs, Open(v, s)
      PROVE  OthersSettled(u)' /\ NewestHasRecord(u)'
  <2>a. PICK n \in Nat : n = Len(conn) + 1
    BY ConnType
  <2>0. /\ ConnectionsLast /\ Conn' = Conn \cup {n} /\ n \notin Conn
        /\ \A j \in Conn : conn'[j] = conn[j] /\ j < n
        /\ conn'[n].uid = v /\ conn'[n].cs = s /\ ~conn'[n].sent
        /\ conn'[n].tidy => ~Again(v, s) /\ ~Late(v)
        /\ srv' = srv /\ running' = running /\ online' = online /\ s \in running
    BY <1>0, <1>1, <2>a, OpenStep, ConnType DEF Open
  <2>1. \A j \in Conn : Settled(j)' <=> Settled(j)
    BY <2>0, SettledKept
  <2>2. CASE u # v
    <3>1. OthersSettled(u)'
      BY <2>0, <2>1, <2>2 DEF OthersSettled
    <3>2. Newest(u)' = Newest(u)
      BY <2>0, <2>2 DEF Newest
    <3> QED
      BY <1>a, <2>0, <2>1, <3>1, <3>2 DEF NewestHasRecord
  <2>3. CASE u = v
    <3>1. conn'[n].tidy
      BY <2>0, <2>3 DEF Tidy
    <3>2. \A j \in Conn : conn[j].uid = u => conn[j].cs # s /\ Settled(j)
      BY <2>0, <2>3, <3>1 DEF Again, Late
    <3>3. \A j \in Conn : ~(n < j)
      BY <1>0, <2>0
    <3>4. OthersSettled(u)'
      BY <2>0, <2>1, <3>2, <3>3 DEF OthersSettled
    <3>5. \A k \in Newest(u)' : k = n
      <4>1. \A j \in Conn : ~(n <= j)
        BY <1>0, <2>0
      <4> QED
        BY <2>0, <2>3, <4>1 DEF Newest
    <3>6. ~Settled(n)'
      BY <2>0 DEF Settled
    <3> QED
      BY <3>4, <3>5, <3>6 DEF NewestHasRecord
  <2> QED
    BY <2>2, <2>3
<1>2. ASSUME NEW k \in Conn, Enroll(k) \/ Hangup(k) \/ GoIdle(k) \/ PumpExit(k)
      PROVE  OthersSettled(u)' /\ NewestHasRecord(u)'
  <2>0. /\ ConnectionsLast /\ Conn' = Conn
        /\ \A j \in Conn \ {k} : conn'[j] = conn[j]
        /\ running' = running /\ online' = online
        /\ \A j \in Conn : conn'[j].uid = conn[j].uid /\ conn'[j].cs = conn[j].cs
        /\ \A j \in Conn : conn'[j].open => conn[j].open
    BY Zenon, <1>2, PumpStep DEF Enroll, Hangup, GoIdle, PumpExit, ConnectionsLast
  <2>1. CASE Enroll(k)
    <3>1. /\ srv' = [srv EXCEPT ![conn[k].cs].reg = Append(@, k)]
          /\ ~conn[k].sent /\ conn[k].cs \in Cs
      BY <1>0, <2>1 DEF Enroll
    <3>2. \A s \in Cs : /\ srv'[s].op = srv[s].op
                        /\ s # conn[k].cs => srv'[s].reg = srv[s].reg
                        /\ \A j : InSeq(j, srv'[s].reg) <=>
                                  InSeq(j, srv[s].reg) \/ (s = conn[k].cs /\ j = k)
      <4>1. \A s \in Cs : srv[s] \in Servers(Len(conn)) /\ srv[s].reg \in Seq(Conn)
        BY <1>0, InServer
      <4>2. /\ srv'[conn[k].cs].reg = Append(srv[conn[k].cs].reg, k)
            /\ srv'[conn[k].cs].op = srv[conn[k].cs].op
            /\ \A s \in Cs \ {conn[k].cs} : srv'[s] = srv[s]
        BY SMTT(30), <1>0, <3>1, <4>1 DEF Servers
      <4>3. \A j : InSeq(j, srv'[conn[k].cs].reg) <=> InSeq(j, srv[conn[k].cs].reg) \/ j = k
        BY SMTT(30), <3>1, <4>1, <4>2, QueueElements
      <4> QED
        BY Zenon, <4>2, <4>3
    <3>3. \A j \in Conn : Settled(j) => Settled(j)'
      <4>1. ASSUME NEW j \in Conn, Settled(j) PROVE Settled(j)'
        <5>1. CASE conn[j].cs \notin running
          BY <2>0, <5>1 DEF Settled
        <5>2. CASE conn[j].cs \in running
          <6>1. conn[j].sent /\ j # k
            BY <3>1, <4>1, <5>2 DEF Settled
          <6>2. conn'[j] = conn[j]
            BY <2>0, <6>1
          <6> QED
            BY ZenonT(60), <1>0, <2>0, <3>2, <4>1, <5>2, <6>1, <6>2 DEF Settled
        <5> QED
          BY <5>1, <5>2
      <4> QED
        BY <4>1
    <3>4. ASSUME NEW j \in Conn, conn'[j].open, Settled(j)' PROVE Settled(j)
      <4>1. conn[j].cs \in running /\ conn[j].cs \in running'
        BY <1>0, <2>0, <3>4
      <4>2. ~InSeq(j, srv'[conn[j].cs].reg) /\ srv'[conn[j].cs].op # [do |-> "put", uid |-> conn[j].uid]
            /\ conn'[j].sent
        BY <2>0, <3>4, <4>1 DEF Settled
      <4>3. j # k
        BY Zenon, <1>0, <3>2, <4>2
      <4> QED
        BY Zenon, <1>0, <2>0, <3>2, <4>2, <4>3 DEF Settled
    <3> QED
      BY <1>a, <2>0, <3>3, <3>4, DriftKept
  <2>2. CASE Hangup(k) \/ GoIdle(k) \/ PumpExit(k)
    <3>1. /\ \A s \in Cs : srv'[s].op = srv[s].op /\ srv'[s].reg = srv[s].reg
          /\ conn'[k].sent = conn[k].sent
      <4>1. conn[k] \in Connections /\ k \in DOMAIN conn /\ \A s \in Cs : srv[s] \in Servers(Len(conn))
        BY ConnType
      <4>2. CASE Hangup(k) \/ GoIdle(k)
        BY <4>1, <4>2 DEF Hangup, GoIdle, Connections
      <4>3. CASE PumpExit(k)
        <5>1. conn' = [conn EXCEPT ![k] = [conn[k] EXCEPT !.open = FALSE, !.left = TRUE]]
          BY Zenon, <4>3 DEF PumpExit
        <5>2. conn'[k].sent = conn[k].sent
          BY Zenon, <4>1, <5>1 DEF Connections
        <5>3. \A s \in Cs : srv'[s] = IF s = conn[k].cs
                                      THEN [srv[s] EXCEPT !.unreg = Append(@, k)] ELSE srv[s]
          BY Zenon, <1>0, <4>3 DEF PumpExit
        <5> QED
          BY Zenon, <4>1, <5>2, <5>3 DEF Servers
      <4> QED
        BY <2>2, <4>2, <4>3
    <3>2. \A j \in Conn : conn'[j].sent = conn[j].sent
      BY <2>0, <3>1
    <3>3. \A j \in Conn : Settled(j)' <=> Settled(j)
      BY <1>0, <2>0, <3>1, <3>2, SettledKept
    <3> QED
      BY <1>a, <2>0, <3>3, DriftKept
  <2> QED
    BY SMTT(60), <1>2, <2>1, <2>2
<1>3. ASSUME NEW s \in Cs, EventLoop(s) PROVE OthersSettled(u)' /\ NewestHasRecord(u)'
  <2>0. running' = running /\ s \in running /\ srv[s] \in Servers(Len(conn)) /\ Own(s)
    BY Zenon, <1>0, <1>3 DEF EventLoop, EventRegister, EventUnregister, Tick, Kick, WriteRecord, WriteFails, Waiting
  <2>1. CASE EventRegister(s)
    <3> DEFINE k == Head(srv[s].reg)
    <3>1. /\ srv'[s].reg = Tail(srv[s].reg) /\ srv[s].reg # <<>>
          /\ srv'[s].op = [do |-> "put", uid |-> conn[k].uid]
          /\ srv[s].op = NoOp
          /\ Others(s) /\ conn' = conn /\ online' = online
      BY <1>0, <2>0, <2>1 DEF EventRegister, Waiting, Servers
    <3>2. /\ k \in Conn /\ conn[k].cs = s
          /\ \A j : InSeq(j, srv[s].reg) <=> InSeq(j, Tail(srv[s].reg)) \/ j = k
      BY <2>0, <3>1, InServer, QueueElements DEF Own
    <3>3. ConnectionsLast /\ Conn' = Conn
      BY <3>1, NoneChanges
    <3> HIDE DEF k
    <3>4. ASSUME NEW j \in Conn, conn[j].uid = u, Settled(j) PROVE Settled(j)'
      <4>1. CASE conn[j].cs # s
        BY <1>0, <2>0, <3>1, <3>4, <4>1, SettledKept
      <4>2. CASE conn[j].cs = s
        <5>1. conn[j].sent /\ ~InSeq(j, srv[s].reg)
          BY <2>0, <3>4, <4>2 DEF Settled
        <5>2. j # k /\ ~InSeq(j, srv'[s].reg)
          BY <3>1, <3>2, <5>1
        <5>3. conn[k].uid # u
          <6>1. SUFFICES ASSUME conn[k].uid = u PROVE FALSE
            OBVIOUS
          <6>2. j < k \/ k < j
            BY <1>0, <3>2, <5>2
          <6> QED
            BY <3>2, <3>4, <4>2, <6>1, <6>2 DEF OthersSettled
        <5> QED
          BY <3>1, <3>4, <4>2, <5>1, <5>2, <5>3 DEF Settled
      <4> QED
        BY <4>1, <4>2
    <3>5. ASSUME NEW j \in Newest(u), conn'[j].open, Settled(j)' PROVE Settled(j)
      <4>0. j \in Conn /\ conn[j].uid = u /\ conn[j].cs \in running
        BY Zenon, <1>0, <1>a, <3>1, <3>5
      <4>1. CASE conn[j].cs # s
        BY <1>0, <2>0, <3>1, <3>5, <4>0, <4>1, SettledKept
      <4>2. CASE conn[j].cs = s
        <5>1. /\ conn[j].sent /\ ~InSeq(j, srv'[s].reg)
              /\ srv'[s].op # [do |-> "put", uid |-> u]
          BY <2>0, <3>1, <3>5, <4>0, <4>2 DEF Settled
        <5>2. j # k
          BY <3>1, <4>0, <5>1
        <5>3. NoOp # [do |-> "put", uid |-> u]
          BY DEF NoOp
        <5> QED
          BY <3>1, <3>2, <4>0, <4>2, <5>1, <5>2, <5>3 DEF Settled
      <4> QED
        BY <4>1, <4>2
    <3> QED
      BY <1>a, <3>1, <3>3, <3>4, <3>5, DriftKept
  <2>2. CASE EventUnregister(s) \/ Tick(s) \/ \E k \in Conn : Kick(s, k)
    <3>1. /\ ConnectionsLast /\ Conn' = Conn
          /\ \A j \in Conn : conn'[j].sent = conn[j].sent
          /\ online' = online
      <4>1. CASE EventUnregister(s) \/ Tick(s)
        BY <4>1, NoneChanges DEF EventUnregister, Tick
      <4>2. ASSUME NEW k \in Conn, Kick(s, k)
            PROVE  /\ ConnectionsLast /\ Conn' = Conn
                   /\ \A j \in Conn : conn'[j].sent = conn[j].sent
                   /\ online' = online
        <5>1. online' = online
          BY <4>2 DEF Kick
        <5> QED
          BY <4>2, <5>1, KickStep
      <4> QED
        BY <2>2, <4>1, <4>2
    <3>2. /\ srv'[s].reg = srv[s].reg
          /\ srv'[s].op # [do |-> "put", uid |-> u] /\ srv[s].op = NoOp
          /\ Others(s)
      <4>0. NoOp # [do |-> "put", uid |-> u]
        BY DEF NoOp
      <4>1. CASE EventUnregister(s)
        BY Zenon, <1>0, <2>0, <4>1 DEF EventUnregister, Waiting, Servers
      <4>2. CASE Tick(s)
        BY <1>0, <2>0, <4>0, <4>2 DEF Tick, Waiting, Servers
      <4>3. ASSUME NEW k \in Conn, Kick(s, k)
            PROVE  /\ srv'[s].reg = srv[s].reg
                   /\ srv'[s].op # [do |-> "put", uid |-> u] /\ srv[s].op = NoOp
                   /\ Others(s)
        BY <1>0, <2>0, <4>3 DEF Kick, Servers
      <4> QED
        BY <2>2, <4>1, <4>2, <4>3
    <3>3. NoOp # [do |-> "put", uid |-> u]
      BY DEF NoOp
    <3>4. \A j \in Conn : conn'[j].uid = conn[j].uid /\ conn'[j].cs = conn[j].cs
      BY <3>1 DEF ConnectionsLast
    <3>5. ASSUME NEW j \in Conn, conn[j].uid = u PROVE Settled(j)' <=> Settled(j)
      <4>1. CASE conn[j].cs # s
        BY <1>0, <2>0, <3>1, <3>2, <3>4, <4>1, SettledKept
      <4>2. CASE conn[j].cs = s
        BY <2>0, <3>1, <3>2, <3>3, <3>4, <3>5, <4>2 DEF Settled
      <4> QED
        BY <4>1, <4>2
    <3> QED
      BY <1>a, <3>1, <3>5, DriftKept
  <2>3. CASE WriteRecord(s)
    <3>1. /\ srv'[s].reg = srv[s].reg /\ srv'[s].op = NoOp
          /\ srv[s].op \in [do : {"put", "delete"}, uid : Users]
          /\ Others(s) /\ conn' = conn
      BY <1>0, <2>0, <2>3, InServer DEF WriteRecord, Servers, Events
    <3>2. ConnectionsLast /\ Conn' = Conn
      BY <3>1, NoneChanges
    <3>3. NoOp # [do |-> "put", uid |-> u]
      BY DEF NoOp
    <3>4. ASSUME NEW j \in Conn, conn[j].uid = u, Settled(j) PROVE Settled(j)'
      <4>1. CASE conn[j].cs # s
        BY <1>0, <2>0, <3>1, <3>4, <4>1, SettledKept
      <4>2. CASE conn[j].cs = s
        BY <2>0, <3>1, <3>3, <3>4, <4>2 DEF Settled
      <4> QED
        BY <4>1, <4>2
    <3>5. ASSUME NEW k \in Newest(u), conn'[k].open, Settled(k)'
          PROVE  \/ Settled(k) /\ online'[u] = online[u]
                 \/ online'[u] = conn[k].cs
      <4>0. /\ k \in Conn /\ conn[k].uid = u /\ conn[k].open /\ conn[k].cs \in running
            /\ \A j \in Conn : conn[j].uid = u =>
                 j = k \/ (conn[j].cs # conn[k].cs /\ Settled(j))
        BY Zenon, <1>0, <1>a, <3>1, <3>5
      <4>1. srv[s].op.do \in {"put", "delete"} /\ srv[s].op.uid \in Users
            /\ srv[s].op = [do |-> srv[s].op.do, uid |-> srv[s].op.uid]
        BY <3>1
      <4>2. CASE srv[s].op.do = "put" /\ srv[s].op.uid = u
        <5>1. PICK j \in Conn : conn[j].uid = u /\ conn[j].cs = s
          BY <2>0, <4>2 DEF Own
        <5>2. ~Settled(j)
          BY <2>0, <4>1, <4>2, <5>1 DEF Settled
        <5>3. conn[k].cs = s
          BY <4>0, <5>1, <5>2
        <5> QED
          BY <1>0, <2>3, <4>2, <5>3 DEF WriteRecord, Upsert
      <4>3. CASE srv[s].op.do = "delete" /\ srv[s].op.uid = u
        <5>1. PICK j \in Conn : conn[j].uid = u /\ conn[j].cs = s /\ ~conn[j].open
          BY <2>0, <4>3 DEF Own
        <5>2. conn[k].cs # s
          BY <4>0, <5>1
        <5>3. Settled(k)
          BY <1>0, <2>0, <3>1, <3>5, <4>0, <5>2, SettledKept
        <5>4. online[u] = conn[k].cs
          BY <3>5, <4>0, <5>3 DEF NewestHasRecord
        <5> QED
          BY <1>0, <2>3, <4>3, <5>2, <5>3, <5>4 DEF WriteRecord, DeleteIfMatch
      <4>4. CASE srv[s].op.uid # u
        <5>1. online'[u] = online[u]
          BY <1>0, <2>3, <4>4 DEF WriteRecord, Upsert, DeleteIfMatch
        <5>2. Settled(k)
          BY SMTT(30), <1>0, <2>0, <3>1, <3>5, <4>0, <4>1, <4>4 DEF Settled
        <5> QED
          BY <5>1, <5>2
      <4> QED
        BY <4>1, <4>2, <4>3, <4>4
    <3> QED
      BY <3>2, <3>4, <3>5, DriftKept
  <2>4. ~WriteFails(s)
    BY DEF WriteFails, Types
  <2> QED
    BY <1>3, <2>1, <2>2, <2>3, <2>4 DEF EventLoop
<1>4. ASSUME NEW s \in Cs, Crash(s) PROVE OthersSettled(u)' /\ NewestHasRecord(u)'
  <2>0. /\ ConnectionsLast /\ Conn' = Conn
        /\ \A j \in Conn : conn'[j].cs = conn[j].cs /\ conn'[j].uid = conn[j].uid
        /\ \A j \in Conn : conn[j].cs = s => ~conn'[j].open
        /\ \A j \in Conn : conn[j].cs # s => conn'[j] = conn[j]
        /\ running' = running \ {s} /\ Others(s) /\ online' = online
    BY ZenonT(60), <1>0, <1>4, CrashStep DEF Crash, ConnectionsLast
  <2>1. \A j \in Conn : conn[j].cs = s => Settled(j)'
    BY <2>0 DEF Settled
  <2>2. \A j \in Conn : conn[j].cs # s => (Settled(j)' <=> Settled(j))
    BY <1>0, <2>0 DEF Settled
  <2> QED
    BY <1>a, <2>0, <2>1, <2>2, DriftKept
<1>5. ASSUME NEW s \in Cs, Restart(s) \/ LeaseExpires(s) \/ Relist(s)
      PROVE  OthersSettled(u)' /\ NewestHasRecord(u)'
  <2>1. srv' = srv /\ conn' = conn /\ online' = online /\ running' = running
    BY <1>5 DEF Restart, LeaseExpires, Relist, LeasesHold
  <2>2. \A j \in Conn : Settled(j)' <=> Settled(j)
    BY <2>1 DEF Settled
  <2> QED
    BY <1>a, <2>1, <2>2, NoneChanges, DriftKept
<1>6. CASE Sweep \/ SweepFails
  <2>1. srv' = srv /\ conn' = conn /\ running' = running
    BY <1>6 DEF Sweep, SweepStart, ScanPrefix, SweepEntry, SweepEnd, SweepFails
  <2>2. \A j \in Conn : Settled(j)' <=> Settled(j)
    BY <2>1 DEF Settled
  <2>3. ASSUME NEW k \in Newest(u), conn'[k].open, Settled(k)'
        PROVE  online'[u] = conn[k].cs
    <3>1. k \in Conn /\ conn[k].open /\ Settled(k) /\ conn[k].cs \in running
      BY Zenon, <1>0, <1>a, <2>1, <2>2, <2>3
    <3>2. online[u] = conn[k].cs
      BY <2>3, <3>1 DEF NewestHasRecord
    <3> QED
      BY <1>6, <3>1, <3>2, SweepSpares
  <2> QED
    BY <1>a, <2>1, <2>2, <2>3, NoneChanges, DriftKept
<1> QED
  BY <1>1, <1>2, <1>3, <1>4, <1>5, <1>6 DEF Next, Client
-----------------------------------------------------------------------------
\* The theorems.

(***************************************************************************)
(* Every variable keeps its type: connections, channels, tables, records   *)
(* and the page of the ghost worker, whatever goes wrong.                  *)
(***************************************************************************)
THEOREM TypeCorrect == Spec => []TypeOK
<1>1. Init => Types
  BY PresenceAssumption, TypesInit
<1>2. Types /\ [Next]_vars => Types'
  BY PresenceAssumption, TypesNext
<1> QED
  BY <1>1, <1>2, TypesImplyTypeOK, PTL DEF Spec

(***************************************************************************)
(* As long as leases hold, only the server that a record names deletes it, *)
(* in an event that removes that user: neither another server nor the      *)
(* ghost worker, whose view of the live servers may be old, does.          *)
(***************************************************************************)
THEOREM OwnersRemove == ASSUME LeasesHold PROVE Spec => OnlyOwnerRemoves
<1>1. Init => Types /\ RunningAreKnown
  <2>1. Init => RunningAreKnown
    BY DEF Init, NoSweep, RunningAreKnown
  <2> QED
    BY <2>1, PresenceAssumption, TypesInit
<1>2. Types /\ RunningAreKnown /\ [Next]_vars => Types' /\ RunningAreKnown'
  BY PresenceAssumption, LeasesHold, TypesNext, KnownNext
<1>3. Types /\ RunningAreKnown /\ [Next]_vars =>
        [\A u \in Users : online[u] \in running /\ online'[u] = NoCs =>
            srv[online[u]].op = [do |-> "delete", uid |-> u]]_vars
  BY Zenon, PresenceAssumption, RecordGoes
<1> QED
  BY <1>1, <1>2, <1>3, PTL DEF Spec, OnlyOwnerRemoves

(***************************************************************************)
(* As long as no kv statement fails and no server comes back at its old    *)
(* address, a record that names a running server is backed by an entry of  *)
(* its table: the workers are not routed to a server without the user.     *)
(***************************************************************************)
THEOREM RecordsAreBacked ==
  ASSUME "restart" \notin Adversity, MaxKvFail = 0
  PROVE  Spec => []TablesAgree
<1>1. Init => Types /\ EntryInv
  <2>1. ASSUME Init PROVE EntryInv
    <3>1. /\ \A u \in Users : online[u] = NoCs
          /\ \A s \in running : s # NoCs /\ srv[s].op = NoOp
      BY <2>1, PresenceAssumption DEF Init, IdleServer, PresenceAssumption
    <3>2. \A u : NoOp # [do |-> "put", uid |-> u]
      BY DEF NoOp
    <3> QED
      BY <3>1, <3>2 DEF EntryInv, RecordHasEntry, PutHasEntry
  <2> QED
    BY <2>1, PresenceAssumption, TypesInit
<1>2. Types /\ EntryInv /\ [Next]_vars => Types' /\ EntryInv'
  BY PresenceAssumption, TypesNext, EntryNext
<1>3. Types /\ EntryInv => TablesAgree
  BY TypesImplyTypeOK DEF EntryInv, TablesAgree
<1> QED
  BY <1>1, <1>2, <1>3, PTL DEF Spec

(***************************************************************************)
(* When every event is handled, a user who connected tidily and whose      *)
(* newest connection is open has the record, and it names the server of    *)
(* that connection, however late the ends of the older ones came.          *)
(***************************************************************************)
THEOREM NewestIsOnline ==
  ASSUME LeasesHold, MaxKvFail = 0
  PROVE  Spec => []OnlineFollowsNewest
<1> DEFINE Inv == Types /\ RunningAreKnown /\ DriftInv
<1>1. Init => Inv
  <2> SUFFICES ASSUME Init PROVE Inv
    OBVIOUS
  <2>1. Types /\ RunningAreKnown
    BY PresenceAssumption, TypesInit DEF Init, NoSweep, RunningAreKnown
  <2>2. Conn = {}
    BY DEF Init, Conn
  <2>3. OwnConnections
    BY <2>2 DEF Init, IdleServer, NoOp, OwnConnections, Own, OpenAreUp
  <2>4. \A u \in Users : OthersSettled(u) /\ NewestHasRecord(u)
    BY <2>2 DEF OthersSettled, NewestHasRecord, Newest
  <2> QED
    BY <2>1, <2>3, <2>4 DEF DriftInv
<1>2. Inv /\ [Next]_vars => Inv'
  <2> SUFFICES ASSUME Inv, [Next]_vars PROVE Inv'
    OBVIOUS
  <2>1. Types' /\ RunningAreKnown' /\ OwnConnections'
    BY PresenceAssumption, TypesNext, KnownNext, OwnNext DEF DriftInv
  <2>2. ASSUME NEW u \in Users, Tidy(u)' PROVE OthersSettled(u)' /\ NewestHasRecord(u)'
    <3>1. CASE UNCHANGED vars
      <4>1. Tidy(u) => OthersSettled(u) /\ NewestHasRecord(u)
        BY DEF DriftInv
      <4> QED
        BY <2>2, <3>1, <4>1
          DEF vars, Tidy, OthersSettled, NewestHasRecord, Newest, Settled, Conn
    <3>2. CASE Next
      <4>1. Tidy(u)
        <5>1. ConnectionsLast
          BY <3>2, NextLasts
        <5> QED
          BY <2>2, <5>1, TidyBefore
      <4>2. OthersSettled(u) /\ NewestHasRecord(u) /\ OwnConnections
        BY <4>1 DEF DriftInv
      <4> QED
        BY <2>2, <3>2, <4>2, PresenceAssumption, DriftNext
    <3> QED
      BY <3>1, <3>2
  <2> QED
    BY <2>1, <2>2 DEF DriftInv
<1>3. Inv => OnlineFollowsNewest
  <2> SUFFICES ASSUME Inv, Quiet, NEW u \in Users, Tidy(u), NEW k \in Newest(u), conn[k].open
               PROVE  online[u] = conn[k].cs
    BY DEF OnlineFollowsNewest, Reachable
  <2>1. k \in Conn /\ conn[k].cs \in running
    BY DEF Newest, DriftInv, OwnConnections, OpenAreUp
  <2>2. conn[k].sent /\ srv[conn[k].cs].reg = <<>> /\ srv[conn[k].cs].op = NoOp
    BY <2>1 DEF Quiet, Waiting
  <2>3. Settled(k)
    BY <2>1, <2>2 DEF Settled, InSeq, NoOp
  <2> QED
    BY <2>3 DEF DriftInv, NewestHasRecord
<1> QED
  BY <1>1, <1>2, <1>3, PTL DEF Spec
===============================================================================
