------------------------------ MODULE Presence ------------------------------
(***************************************************************************)
(* Who is online, and where: the connection table of every chat server     *)
(* (joker/exchange/manager.go), the record online:{uid} in the kv table    *)
(* that the chat servers write and the workers route by, and the worker    *)
(* that deletes the records of dead servers (worker/ghost/ghost.go).       *)
(*                                                                         *)
(* Each connection has a read pump of its own; the table of a server is    *)
(* written by one event loop, which blocks on the kv statement of an event *)
(* before it takes the next one.  The service registry appears as the set  *)
(* of addresses the ghost worker sees; module Registry has its details.    *)
(***************************************************************************)
EXTENDS Naturals, Sequences, FiniteSets

CONSTANTS
  Users,      \* 1..n: users, in the order of their keys in kv
  Cs,         \* addresses of chat servers
  NoCs,       \* no record
  PageSize,   \* records the ghost worker reads at a time
  Adversity,  \* what may go wrong in this instance, see below
  Sweeping,   \* whether the ghost worker is deployed
  MaxConn,    \* bound: connections ever opened
  MaxCrash,   \* bound: crashes of chat servers
  MaxKvFail   \* bound: kv statements that fail

(***************************************************************************)
(* "again":   a user may come back to a server it was connected to         *)
(* "late":    a user may connect while an older Register is still queued   *)
(* "lease":   a running server may lose its lease                          *)
(* "restart": a crashed server may start again at the same address         *)
(***************************************************************************)
Adversities == {"again", "late", "lease", "restart"}

ASSUME PresenceAssumption ==
  /\ Users \subseteq Nat /\ 0 \notin Users /\ IsFiniteSet(Users)
  /\ NoCs \notin Cs
  /\ PageSize \in Nat \ {0}
  /\ Adversity \subseteq Adversities
  /\ Sweeping \in BOOLEAN
  /\ MaxConn \in Nat /\ MaxCrash \in Nat /\ MaxKvFail \in Nat

VARIABLES
  conn,     \* every connection there ever was, in the order of opening
  srv,      \* per server: Register and Unregister channels, Users, event loop
  online,   \* online[u]: the server named by the record online:{u}, or NoCs
  running,  \* servers whose process runs
  listed,   \* addresses in the service list of the ghost worker
  sweep,    \* the pass of the ghost worker
  faults    \* crashes and failed kv statements so far

vars == <<conn, srv, online, running, listed, sweep, faults>>

Conn == 1..Len(conn)
Ops  == {"none", "put", "delete"}
NoOp == [do |-> "none", uid |-> 0]

IdleServer == [reg |-> <<>>, unreg |-> <<>>, table |-> [u \in Users |-> 0],
               kick |-> {}, op |-> NoOp]
NoSweep == [on |-> FALSE, alive |-> {}, after |-> 0, page |-> <<>>, last |-> FALSE]

Init ==
  /\ conn = <<>>
  /\ srv = [s \in Cs |-> IdleServer]
  /\ online = [u \in Users |-> NoCs]
  /\ running = Cs
  /\ listed = Cs
  /\ sweep = NoSweep
  /\ faults = [crash |-> 0, kv |-> 0]

-----------------------------------------------------------------------------
(***************************************************************************)
(* Connections.  The pumps start before the connection is sent to Register *)
(* (websocket.go), so a read pump may be done before Enroll.  An idle      *)
(* connection has sent nothing for HeartbeatExpiration: its read deadline, *)
(* set with the same clock, has passed as well.                            *)
(***************************************************************************)
InSeq(x, seq) == \E i \in DOMAIN seq : seq[i] = x

Settled(k) ==
  LET s == srv[conn[k].cs]
  IN  \/ conn[k].cs \notin running
      \/ conn[k].sent /\ ~InSeq(k, s.reg) /\ s.op # [do |-> "put", uid |-> conn[k].uid]

\* The user was on s before; an older connection of it is not handled yet.
Again(u, s) == \E k \in Conn : conn[k].uid = u /\ conn[k].cs = s
Late(u)     == \E k \in Conn : conn[k].uid = u /\ ~Settled(k)

MayOpen(u, s) ==
  /\ Again(u, s) => "again" \in Adversity
  /\ Late(u) => "late" \in Adversity

Open(u, s) ==
  /\ s \in running
  /\ Len(conn) < MaxConn
  /\ MayOpen(u, s)
  /\ conn' = Append(conn, [uid |-> u, cs |-> s, open |-> TRUE, idle |-> FALSE,
                           sent |-> FALSE, left |-> FALSE,
                           tidy |-> ~Again(u, s) /\ ~Late(u)])
  /\ UNCHANGED <<srv, online, running, listed, sweep, faults>>

Enroll(k) ==
  /\ ~conn[k].sent
  /\ conn' = [conn EXCEPT ![k].sent = TRUE]
  /\ srv' = [srv EXCEPT ![conn[k].cs].reg = Append(@, k)]
  /\ UNCHANGED <<online, running, listed, sweep, faults>>

Hangup(k) ==
  /\ conn[k].open
  /\ conn' = [conn EXCEPT ![k].open = FALSE]
  /\ UNCHANGED <<srv, online, running, listed, sweep, faults>>

GoIdle(k) ==
  /\ ~conn[k].idle
  /\ conn[k].cs \in running
  /\ conn' = [conn EXCEPT ![k].idle = TRUE]
  /\ UNCHANGED <<srv, online, running, listed, sweep, faults>>

PumpExit(k) ==
  /\ ~conn[k].open \/ conn[k].idle
  /\ ~conn[k].left
  /\ conn' = [conn EXCEPT ![k].open = FALSE, ![k].left = TRUE]
  /\ srv' = [srv EXCEPT ![conn[k].cs].unreg = Append(@, k)]
  /\ UNCHANGED <<online, running, listed, sweep, faults>>

-----------------------------------------------------------------------------
(***************************************************************************)
(* The event loop of a server (Manager.Start).  An event first changes the *)
(* table and then, still inside the event, writes the record.  A failed    *)
(* write is only logged.                                                   *)
(***************************************************************************)
Waiting(s) == s \in running /\ srv[s].op = NoOp /\ srv[s].kick = {}

EventRegister(s) ==
  /\ Waiting(s)
  /\ srv[s].reg # <<>>
  /\ LET k == Head(srv[s].reg)
     IN  srv' = [srv EXCEPT ![s].reg = Tail(@),
                            ![s].table[conn[k].uid] = k,
                            ![s].op = [do |-> "put", uid |-> conn[k].uid]]
  /\ UNCHANGED <<conn, online, running, listed, sweep, faults>>

\* The event removes whatever connection the user has, not the one that left.
EventUnregister(s) ==
  /\ Waiting(s)
  /\ srv[s].unreg # <<>>
  /\ LET u == conn[Head(srv[s].unreg)].uid
     IN  srv' = [srv EXCEPT ![s].unreg = Tail(@),
                            ![s].table[u] = 0,
                            ![s].op = [do |-> "delete", uid |-> u]]
  /\ UNCHANGED <<conn, online, running, listed, sweep, faults>>

\* Mutant of IdleEntries: no action uses it.
NoIdleEntries(s) == {}

IdleEntries(s) == {k \in {srv[s].table[u] : u \in Users} \ {0} : conn[k].idle}

Tick(s) ==
  /\ Waiting(s)
  /\ IdleEntries(s) # {}
  /\ srv' = [srv EXCEPT ![s].kick = IdleEntries(s)]
  /\ UNCHANGED <<conn, online, running, listed, sweep, faults>>

\* Mutant of Kick: no action uses it.
KickOnly(s, k) ==
  /\ s \in running
  /\ srv[s].op = NoOp
  /\ k \in srv[s].kick
  /\ conn' = [conn EXCEPT ![k].open = FALSE]
  /\ srv' = [srv EXCEPT ![s].kick = @ \ {k}, ![s].table[conn[k].uid] = 0]
  /\ UNCHANGED <<online, running, listed, sweep, faults>>

\* cleanIdleClients: one connection, closed and then removed like any other.
Kick(s, k) ==
  /\ s \in running
  /\ srv[s].op = NoOp
  /\ k \in srv[s].kick
  /\ conn' = [conn EXCEPT ![k].open = FALSE]
  /\ srv' = [srv EXCEPT ![s].kick = @ \ {k},
                        ![s].table[conn[k].uid] = 0,
                        ![s].op = [do |-> "delete", uid |-> conn[k].uid]]
  /\ UNCHANGED <<online, running, listed, sweep, faults>>

\* Mutant of DeleteIfMatch: no action uses it.
Delete(u, s) == [online EXCEPT ![u] = NoCs]

\* The record after a conditional delete by, or in the name of, server s.
DeleteIfMatch(u, s) == [online EXCEPT ![u] = IF @ = s THEN NoCs ELSE @]

\* Mutant of Upsert: no action uses it.
UpsertOnce(u, s) == [online EXCEPT ![u] = IF @ = NoCs THEN s ELSE @]

Upsert(u, s) == [online EXCEPT ![u] = s]

WriteRecord(s) ==
  /\ s \in running
  /\ srv[s].op # NoOp
  /\ online' = IF srv[s].op.do = "put" THEN Upsert(srv[s].op.uid, s)
                                       ELSE DeleteIfMatch(srv[s].op.uid, s)
  /\ srv' = [srv EXCEPT ![s].op = NoOp]
  /\ UNCHANGED <<conn, running, listed, sweep, faults>>

WriteFails(s) ==
  /\ s \in running
  /\ srv[s].op # NoOp
  /\ faults.kv < MaxKvFail
  /\ faults' = [faults EXCEPT !.kv = @ + 1]
  /\ srv' = [srv EXCEPT ![s].op = NoOp]
  /\ UNCHANGED <<conn, online, running, listed, sweep>>

-----------------------------------------------------------------------------
(***************************************************************************)
(* Servers and their leases.  A crash closes the sockets of the server.    *)
(***************************************************************************)
Crash(s) ==
  /\ s \in running
  /\ faults.crash < MaxCrash
  /\ faults' = [faults EXCEPT !.crash = @ + 1]
  /\ running' = running \ {s}
  /\ srv' = [srv EXCEPT ![s] = IdleServer]
  /\ conn' = [k \in Conn |-> IF conn[k].cs = s
                             THEN [conn[k] EXCEPT !.open = FALSE, !.sent = TRUE, !.left = TRUE]
                             ELSE conn[k]]
  /\ UNCHANGED <<online, listed, sweep>>

Restart(s) ==
  /\ "restart" \in Adversity
  /\ s \notin running
  /\ running' = running \cup {s}
  /\ UNCHANGED <<conn, srv, online, listed, sweep, faults>>

LeaseExpires(s) ==
  /\ s \in listed
  /\ s \notin running \/ "lease" \in Adversity
  /\ listed' = listed \ {s}
  /\ UNCHANGED <<conn, srv, online, running, sweep, faults>>

Relist(s) ==
  /\ s \in running \ listed
  /\ listed' = listed \cup {s}
  /\ UNCHANGED <<conn, srv, online, running, sweep, faults>>

-----------------------------------------------------------------------------
(***************************************************************************)
(* The ghost worker: one snapshot of the live servers per pass, then the   *)
(* records page by page in key order.                                      *)
(***************************************************************************)
SweepStart ==
  /\ Sweeping
  /\ ~sweep.on
  /\ sweep' = [NoSweep EXCEPT !.on = TRUE, !.alive = listed]
  /\ UNCHANGED <<conn, srv, online, running, listed, faults>>

RecordsAfter(key) == {u \in Users : u > key /\ online[u] # NoCs}

\* The first PageSize users of a set, in order, with the server of each.
Page(us) ==
  LET rank(u) == Cardinality({v \in us : v <= u})
      size == IF Cardinality(us) < PageSize THEN Cardinality(us) ELSE PageSize
      nth(i) == CHOOSE u \in us : rank(u) = i
  IN  [i \in 1..size |-> [uid |-> nth(i), cs |-> online[nth(i)]]]

\* Mutant of IsLastPage: no action uses it.
OnePageOnly(page) == TRUE

IsLastPage(page) == Len(page) < PageSize

LastKey(page) == page[Len(page)].uid

ScanPrefix ==
  /\ sweep.on /\ sweep.page = <<>> /\ ~sweep.last
  /\ LET page == Page(RecordsAfter(sweep.after))
     IN  sweep' = [sweep EXCEPT !.page = page, !.last = IsLastPage(page),
                                !.after = IF page = <<>> THEN @ ELSE LastKey(page)]
  /\ UNCHANGED <<conn, srv, online, running, listed, faults>>

SweepEntry ==
  /\ sweep.page # <<>>
  /\ LET e == Head(sweep.page)
     IN  online' = IF e.cs \in sweep.alive THEN online ELSE DeleteIfMatch(e.uid, e.cs)
  /\ sweep' = [sweep EXCEPT !.page = Tail(@)]
  /\ UNCHANGED <<conn, srv, running, listed, faults>>

\* A failed scan ends the pass; a failed delete leaves the record for the next.
SweepFails ==
  /\ sweep.on
  /\ faults.kv < MaxKvFail
  /\ faults' = [faults EXCEPT !.kv = @ + 1]
  /\ sweep' = IF sweep.page = <<>> THEN NoSweep ELSE [sweep EXCEPT !.page = Tail(@)]
  /\ UNCHANGED <<conn, srv, online, running, listed>>

SweepEnd ==
  /\ sweep.on /\ sweep.page = <<>> /\ sweep.last
  /\ sweep' = NoSweep
  /\ UNCHANGED <<conn, srv, online, running, listed, faults>>

Sweep == SweepStart \/ ScanPrefix \/ SweepEntry \/ SweepEnd

-----------------------------------------------------------------------------
Client ==
  \/ \E u \in Users, s \in Cs : Open(u, s)
  \/ \E k \in Conn : Enroll(k) \/ Hangup(k) \/ GoIdle(k) \/ PumpExit(k)

EventLoop(s) ==
  \/ EventRegister(s) \/ EventUnregister(s) \/ Tick(s)
  \/ \E k \in Conn : Kick(s, k)
  \/ WriteRecord(s) \/ WriteFails(s)

Next ==
  \/ Client
  \/ \E s \in Cs : EventLoop(s) \/ Crash(s) \/ Restart(s) \/ LeaseExpires(s) \/ Relist(s)
  \/ Sweep \/ SweepFails

Spec == Init /\ [][Next]_vars

(***************************************************************************)
(* The pumps and the loops run; select is fair between its ready channels; *)
(* time passes for a closed connection, for a dead server's lease and      *)
(* between two passes of the ghost worker.                                 *)
(***************************************************************************)
NewConn == 1..MaxConn

LoopFairness ==
  /\ \A k \in NewConn :
       /\ WF_vars(k \in Conn /\ (Enroll(k) \/ PumpExit(k)))
       /\ WF_vars(k \in Conn /\ ~conn[k].open /\ GoIdle(k))
  /\ \A s \in Cs :
       /\ SF_vars(EventRegister(s)) /\ SF_vars(EventUnregister(s)) /\ SF_vars(Tick(s))
       /\ WF_vars(WriteRecord(s) \/ \E k \in Conn : Kick(s, k))

GhostFairness ==
  /\ \A s \in Cs : WF_vars(s \notin running /\ LeaseExpires(s)) /\ WF_vars(Relist(s))
  /\ WF_vars(Sweep)

LoopSpec  == Spec /\ LoopFairness
GhostSpec == Spec /\ GhostFairness

-----------------------------------------------------------------------------
\* The variables hold what the code can put into them.
TypeOK ==
  /\ conn \in Seq([uid : Users, cs : Cs, open : BOOLEAN, idle : BOOLEAN,
                   sent : BOOLEAN, left : BOOLEAN, tidy : BOOLEAN])
  /\ \A s \in Cs :
       /\ srv[s].reg \in Seq(Conn) /\ srv[s].unreg \in Seq(Conn)
       /\ srv[s].table \in [Users -> Conn \cup {0}]
       /\ srv[s].kick \subseteq Conn
       /\ srv[s].op \in [do : Ops, uid : Users \cup {0}]
  /\ online \in [Users -> Cs \cup {NoCs}]
  /\ running \subseteq Cs /\ listed \subseteq Cs
  /\ sweep \in [on : BOOLEAN, alive : SUBSET Cs, after : Users \cup {0},
                page : Seq([uid : Users, cs : Cs]), last : BOOLEAN]
  /\ faults \in [crash : Nat, kv : Nat]

(***************************************************************************)
(* As long as no kv statement fails and no server comes back at its old    *)
(* address, a record that names a running server is backed by an entry of  *)
(* its table, except inside the event that is about to delete it: the      *)
(* workers are not routed to a server that would answer not_found for      *)
(* longer than one event.                                                  *)
(***************************************************************************)
RecordHasEntry ==
  \A u \in Users, s \in running :
    online[u] = s /\ srv[s].op # [do |-> "delete", uid |-> u] => srv[s].table[u] # 0

(***************************************************************************)
(* The table of a server and the online records fit together, event by     *)
(* event, while connections come, go and are swept.                        *)
(***************************************************************************)
TablesAgree == TypeOK /\ RecordHasEntry

(***************************************************************************)
(* Drift: when everything the clients did has been handled, a user whose   *)
(* newest connection is open has a record, and it names the server of that *)
(* connection, whatever its older connections on other servers did late -  *)
(* as long as each was registered before the next one was opened.          *)
(***************************************************************************)
Quiet ==
  /\ \A s \in running : srv[s].reg = <<>> /\ srv[s].unreg = <<>> /\ Waiting(s)
  /\ \A k \in Conn : conn[k].sent /\ (conn[k].open \/ conn[k].left)

Newest(u) == {k \in Conn : conn[k].uid = u /\ \A j \in Conn : conn[j].uid = u => j <= k}

Tidy(u) == \A k \in Conn : conn[k].uid = u => conn[k].tidy

Reachable(u) == \A k \in Newest(u) : conn[k].open => online[u] = conn[k].cs

OnlineFollowsNewest == Quiet => \A u \in Users : Tidy(u) => Reachable(u)

\* The same without the assumption on the order: what the documentation says.
DriftProtected ==
  Quiet => \A u \in Users : (\A k, j \in Conn : k # j => conn[k].cs # conn[j].cs) => Reachable(u)

(***************************************************************************)
(* The record of a listed server disappears only in an event of that       *)
(* server: neither another server nor the ghost worker deletes it, even    *)
(* when the record was rewritten after they decided to delete.             *)
(***************************************************************************)
OnlyOwnerRemoves ==
  [][\A u \in Users : online[u] \in running /\ online'[u] = NoCs =>
        srv[online[u]].op = [do |-> "delete", uid |-> u]]_vars

(***************************************************************************)
(* An event that removes a connection removes no other open connection     *)
(* from the table: removing one twice does no harm.                        *)
(***************************************************************************)
RepeatIsHarmless ==
  [][\A s \in Cs, u \in Users :
       LET k == srv[s].table[u]
       IN  k # 0 /\ conn[k].open /\ srv'[s].table[u] = 0 => s \notin running' \/ ~conn'[k].open]_vars

(***************************************************************************)
(* A connection that is closed leaves the table of its server, whether its *)
(* end is handled before or after its beginning.                           *)
(***************************************************************************)
ClosedLeavesTable ==
  \A s \in Cs, u \in Users, k \in NewConn :
    (srv[s].table[u] = k /\ ~conn[k].open) ~> (srv[s].table[u] # k)

(***************************************************************************)
(* The record of a server that has died does not stay while the server is  *)
(* away, although a pass reads the table page by page and may fail.        *)
(***************************************************************************)
GhostsGo ==
  \A u \in Users, s \in Cs : []<>(online[u] = s => s \in running)

(***************************************************************************)
(* It does not stay after a restart at the same address either, unless the *)
(* user is connected there again (T04-online-kv.md, the state machine:     *)
(* ONLINE, GHOST when the server crashes, OFFLINE by the ghost worker).    *)
(***************************************************************************)
CutConnectionsGo ==
  \A u \in Users, s \in Cs :
    (online[u] = s /\ s \notin running) ~> (online[u] # s \/ srv[s].table[u] # 0)
=============================================================================
