----------------------------- MODULE Connection -----------------------------
(***************************************************************************)
(* One WebSocket connection of a chat server: its read pump, which handles *)
(* the frames of the client and produces messages to chat.msg, its write   *)
(* pump, the channel Send between them (joker/exchange/client.go,          *)
(* router.go, internal/kafka/producer.go), a relay call that puts pushes   *)
(* into the channel (joker/relay), and the manager that closes a           *)
(* connection nothing was heard from.                                      *)
(*                                                                         *)
(* Sending to a closed Go channel panics, also for a sender that waits.    *)
(* The read pump recovers; a gRPC handler does not, and the process dies.  *)
(* Module Presence has the table with all its connections and the records; *)
(* here it is the entry of the one user.                                   *)
(***************************************************************************)
EXTENDS Naturals, Sequences, FiniteSets, SequencesExt

CONSTANTS
  Msg,            \* messages the client sends
  Capacity,       \* capacity of the channel Send
  Reconnects,     \* whether the user may connect again under this connection
  MaxFrame,       \* bound: frames the client sends
  MaxPush,        \* bound: pushes that are relayed
  MaxProduceFail  \* bound: produce calls that fail

ASSUME ConnectionAssumption ==
  /\ Capacity \in Nat \ {0} /\ Reconnects \in BOOLEAN
  /\ MaxFrame \in Nat /\ MaxPush \in Nat /\ MaxProduceFail \in Nat

(***************************************************************************)
(* "beat" stands for every frame that is answered and not produced: a      *)
(* heartbeat, a login, one that fails a check.  "long" is over the limit   *)
(* of 512 bytes, which ends the read pump.                                 *)
(***************************************************************************)
Frame   == Msg \cup {"beat", "long"}
Replies == {"handled", "accepted", "unavailable"}
Pushes  == 1..MaxPush

\* What goes through the channel: a reply, or the frame of a push.
Item     == [is : Replies \cup {"push"}, push : Pushes \cup {0}]
Reply(r) == [is |-> r, push |-> 0]
Pushed(i) == [is |-> "push", push |-> i]

VARIABLES
  said,       \* what the client has sent
  unread,     \* how much of it the read pump has not read
  peer,       \* "here", "silent" (nothing comes, nothing is acknowledged) or "gone"
  socket,     \* whether the server's side of the socket is open
  reader,     \* the read pump
  chan,       \* the channel Send
  writer,     \* the write pump: its place and the packet it builds
  got,        \* the packets written to the socket
  idle,       \* nothing was read for HeartbeatExpiration
  manager,    \* the entry of the user, a waiting Unregister, a kick half done
  relay,      \* the push to relay, whether the connection is looked up, and those delivered
  msgLog,     \* what chat.msg has from this connection
  refused,    \* failed produce calls
  alive       \* whether the process lives

connectionVars == <<said, unread, peer, socket, reader, chan, writer, got, idle,
                    manager, relay, msgLog, refused, alive>>

AtRead == [pc |-> "read", frame |-> "", reply |-> ""]

ConnectionInit ==
  /\ said = <<>> /\ unread = 0 /\ peer = "here" /\ socket = TRUE
  /\ reader = AtRead
  /\ chan = [buf |-> <<>>, closed |-> FALSE]
  /\ writer = [pc |-> "wait", packet |-> <<>>]
  /\ got = <<>> /\ idle = FALSE
  /\ manager = [entry |-> "this", unregister |-> FALSE, kick |-> FALSE]
  /\ relay = [next |-> 1, holds |-> FALSE, delivered |-> {}]
  /\ msgLog = <<>> /\ refused = 0 /\ alive = TRUE

-----------------------------------------------------------------------------
\* The client and the network.

ClientSends(f) ==
  /\ alive /\ peer = "here" /\ socket
  /\ Len(said) < MaxFrame
  /\ said' = Append(said, f)
  /\ unread' = unread + 1
  /\ UNCHANGED <<peer, socket, reader, chan, writer, got, idle, manager, relay, msgLog, refused, alive>>

PeerLeaves ==
  /\ alive /\ peer = "here"
  /\ peer' \in {"silent", "gone"}
  /\ UNCHANGED <<said, unread, socket, reader, chan, writer, got, idle, manager, relay, msgLog, refused, alive>>

\* A client that is here sends a heartbeat every 30 s, which the bound does not count.
GoIdle ==
  /\ alive /\ ~idle
  /\ peer # "here" \/ reader.pc # "read"
  /\ idle' = TRUE
  /\ UNCHANGED <<said, unread, peer, socket, reader, chan, writer, got, manager, relay, msgLog, refused, alive>>

-----------------------------------------------------------------------------
\* ReadPump, and the handlers it calls.

NextFrame == said[Len(said) - unread + 1]

Answer(r) == reader' = [reader EXCEPT !.pc = "answer", !.reply = r]

Handle(f) ==
  \/ f = "beat" /\ Answer("handled")
  \/ f \in Msg /\ reader' = [reader EXCEPT !.pc = "produce", !.frame = f]

ReadFrame ==
  /\ alive /\ reader.pc = "read"
  /\ socket /\ unread > 0 /\ NextFrame # "long"
  /\ unread' = unread - 1
  /\ Handle(NextFrame)
  /\ idle' = FALSE
  /\ UNCHANGED <<said, peer, socket, chan, writer, got, manager, relay, msgLog, refused, alive>>

\* The socket is closed, the peer gone, the deadline over or the frame too long:
\* the loop ends and the connection is sent to Unregister.
ReadFails ==
  /\ alive /\ reader.pc = "read"
  /\ \/ ~socket
     \/ idle
     \/ unread = 0 /\ peer = "gone"
     \/ unread > 0 /\ NextFrame = "long"
  /\ socket' = FALSE
  /\ reader' = [reader EXCEPT !.pc = "done"]
  /\ manager' = [manager EXCEPT !.unregister = TRUE]
  /\ UNCHANGED <<said, unread, peer, chan, writer, got, idle, relay, msgLog, refused, alive>>

Produce ==
  /\ alive /\ reader.pc = "produce"
  /\ msgLog' = Append(msgLog, reader.frame)
  /\ Answer("accepted")
  /\ UNCHANGED <<said, unread, peer, socket, chan, writer, got, idle, manager, relay, refused, alive>>

\* Mutant of ProduceFails: no action uses it.
ProduceErrorIgnored ==
  /\ alive /\ reader.pc = "produce"
  /\ refused < MaxProduceFail
  /\ refused' = refused + 1
  /\ msgLog' \in {msgLog, Append(msgLog, reader.frame)}
  /\ Answer("accepted")
  /\ UNCHANGED <<said, unread, peer, socket, chan, writer, got, idle, manager, relay, alive>>

\* A call that timed out may have written the message all the same.
ProduceFails ==
  /\ alive /\ reader.pc = "produce"
  /\ refused < MaxProduceFail
  /\ refused' = refused + 1
  /\ msgLog' \in {msgLog, Append(msgLog, reader.frame)}
  /\ Answer("unavailable")
  /\ UNCHANGED <<said, unread, peer, socket, chan, writer, got, idle, manager, relay, alive>>

HasRoom == Len(chan.buf) < Capacity

\* A plain send: it waits while the channel is full.
SendResponse ==
  /\ alive /\ reader.pc = "answer"
  /\ ~chan.closed /\ HasRoom
  /\ chan' = [chan EXCEPT !.buf = Append(@, Reply(reader.reply))]
  /\ reader' = AtRead
  /\ UNCHANGED <<said, unread, peer, socket, writer, got, idle, manager, relay, msgLog, refused, alive>>

\* The channel is closed: the send panics, poccessMessage recovers, the loop goes on.
ResponsePanics ==
  /\ alive /\ reader.pc = "answer"
  /\ chan.closed
  /\ reader' = AtRead
  /\ UNCHANGED <<said, unread, peer, socket, chan, writer, got, idle, manager, relay, msgLog, refused, alive>>

ReadPump == \/ ReadFrame \/ ReadFails \/ Produce
            \/ SendResponse \/ ResponsePanics

-----------------------------------------------------------------------------
\* WritePump: one item waits, those that have piled up behind it join its packet.

Receive ==
  /\ alive /\ writer.pc = "wait"
  /\ chan.buf # <<>>
  /\ writer' = [pc |-> "packet", packet |-> <<Head(chan.buf)>>]
  /\ chan' = [chan EXCEPT !.buf = Tail(@)]
  /\ UNCHANGED <<said, unread, peer, socket, reader, got, idle, manager, relay, msgLog, refused, alive>>

\* Mutant of Flush: no action uses it.
FlushCountedEarly ==
  /\ alive /\ writer.pc = "packet"
  /\ socket /\ peer # "gone"
  /\ chan.buf # <<>>
  /\ got' = Append(got, writer.packet \o chan.buf)
  /\ chan' = [chan EXCEPT !.buf = <<>>]
  /\ writer' = [pc |-> "wait", packet |-> <<>>]
  /\ UNCHANGED <<said, unread, peer, socket, reader, idle, manager, relay, msgLog, refused, alive>>

Flush ==
  /\ alive /\ writer.pc = "packet"
  /\ socket /\ peer # "gone"
  /\ got' = Append(got, writer.packet \o chan.buf)
  /\ chan' = [chan EXCEPT !.buf = <<>>]
  /\ writer' = [pc |-> "wait", packet |-> <<>>]
  /\ UNCHANGED <<said, unread, peer, socket, reader, idle, manager, relay, msgLog, refused, alive>>

(***************************************************************************)
(* The write pump returns and closes the socket, not the channel: on the   *)
(* end of the channel, on an error before it has taken the rest of the     *)
(* packet out of the channel, or after.                                    *)
(***************************************************************************)
WriterEnds ==
  /\ alive
  /\ \/ writer.pc = "wait" /\ chan.closed /\ chan.buf = <<>> /\ UNCHANGED chan
     \/ /\ writer.pc = "packet" /\ (~socket \/ peer # "here")
        /\ UNCHANGED chan \/ chan' = [chan EXCEPT !.buf = <<>>]
  /\ writer' = [pc |-> "done", packet |-> writer.packet \o (IF chan' = chan THEN <<>> ELSE chan.buf)]
  /\ socket' = FALSE
  /\ UNCHANGED <<said, unread, peer, reader, got, idle, manager, relay, msgLog, refused, alive>>

WritePump == Receive \/ Flush \/ WriterEnds

-----------------------------------------------------------------------------
\* The event loop of the manager.

\* Mutant of Close: no action uses it.
CloseSocketOnly == socket' = FALSE /\ UNCHANGED chan

Close ==
  /\ socket' = FALSE
  /\ chan' = [chan EXCEPT !.closed = TRUE]

EventUnregister ==
  /\ alive /\ manager.unregister /\ ~manager.kick
  /\ manager' = [manager EXCEPT !.unregister = FALSE, !.entry = "none"]
  /\ UNCHANGED <<said, unread, peer, socket, reader, chan, writer, got, idle, relay, msgLog, refused, alive>>

\* cleanIdleClients closes the connection, then takes it out of the table.
CleanIdle ==
  /\ alive /\ ~manager.kick
  /\ manager.entry = "this" /\ idle
  /\ Close
  /\ manager' = [manager EXCEPT !.kick = TRUE]
  /\ UNCHANGED <<said, unread, peer, reader, writer, got, idle, relay, msgLog, refused, alive>>

CleanRemove ==
  /\ alive /\ manager.kick
  /\ manager' = [manager EXCEPT !.kick = FALSE, !.entry = "none"]
  /\ UNCHANGED <<said, unread, peer, socket, reader, chan, writer, got, idle, relay, msgLog, refused, alive>>

ManagerLoop == EventUnregister \/ CleanIdle \/ CleanRemove

\* A new connection of the user takes the entry; nobody closes this one.
EventRegister ==
  /\ Reconnects
  /\ alive /\ ~manager.kick /\ manager.entry = "this"
  /\ manager' = [manager EXCEPT !.entry = "other"]
  /\ UNCHANGED <<said, unread, peer, socket, reader, chan, writer, got, idle, relay, msgLog, refused, alive>>

-----------------------------------------------------------------------------
\* The relay of one push: look the connection up, then try to put it into Send.

GetClient ==
  /\ alive /\ ~relay.holds /\ relay.next \in Pushes
  /\ relay' = IF manager.entry = "this" THEN [relay EXCEPT !.holds = TRUE]
                                        ELSE [relay EXCEPT !.next = @ + 1]
  /\ UNCHANGED <<said, unread, peer, socket, reader, chan, writer, got, idle, manager, msgLog, refused, alive>>

\* A full channel answers send_full, and the push is dropped.
TrySend ==
  /\ chan' = IF HasRoom THEN [chan EXCEPT !.buf = Append(@, Pushed(relay.next))] ELSE chan
  /\ relay' = [relay EXCEPT !.holds = FALSE, !.next = @ + 1,
                            !.delivered = IF HasRoom THEN @ \cup {relay.next} ELSE @]

EnqueueMessage ==
  /\ alive /\ relay.holds /\ ~chan.closed
  /\ TrySend
  /\ UNCHANGED <<said, unread, peer, socket, reader, writer, got, idle, manager, msgLog, refused, alive>>

EnqueuePanics ==
  /\ alive /\ relay.holds /\ chan.closed
  /\ alive' = FALSE
  /\ UNCHANGED <<said, unread, peer, socket, reader, chan, writer, got, idle, manager, relay, msgLog, refused>>

-----------------------------------------------------------------------------
ConnectionNext ==
  \/ \E f \in Frame : ClientSends(f)
  \/ PeerLeaves \/ GoIdle
  \/ ReadPump \/ ProduceFails
  \/ WritePump
  \/ ManagerLoop \/ EventRegister
  \/ GetClient \/ EnqueueMessage \/ EnqueuePanics

ConnectionSpec == ConnectionInit /\ [][ConnectionNext]_connectionVars

-----------------------------------------------------------------------------
\* The variables hold what the code can put into them; Send is never over its capacity.
ConnectionTypeOK ==
  /\ said \in Seq(Frame) /\ unread \in 0..Len(said)
  /\ peer \in {"here", "silent", "gone"}
  /\ socket \in BOOLEAN /\ idle \in BOOLEAN /\ alive \in BOOLEAN
  /\ reader \in [pc : {"read", "produce", "answer", "done"},
                 frame : Msg \cup {""}, reply : Replies \cup {""}]
  /\ chan.buf \in Seq(Item) /\ Len(chan.buf) <= Capacity
  /\ chan.closed \in BOOLEAN
  /\ writer \in [pc : {"wait", "packet", "done"}, packet : Seq(Item)]
  /\ got \in Seq(Seq(Item))
  /\ manager \in [entry : {"this", "other", "none"}, unregister : BOOLEAN, kick : BOOLEAN]
  /\ relay \in [next : 1..(MaxPush + 1), holds : BOOLEAN, delivered : SUBSET Pushes]
  /\ msgLog \in Seq(Msg) /\ refused \in 0..MaxProduceFail

(***************************************************************************)
(* A reply says nothing of which frame it answers (client.go: SendResponse *)
(* with no message): the client can only count.  Counting is right: the    *)
(* k-th reply, through channel and packets, is about the k-th frame, and   *)
(* "accepted" means that this frame's message is in chat.msg, as often as  *)
(* messages were accepted.                                                 *)
(***************************************************************************)
Answered ==
  SelectSeq(FlattenSeq(got) \o writer.packet \o chan.buf, LAMBDA x : x.is \in Replies)

Accepted(m) == {k \in DOMAIN Answered : Answered[k].is = "accepted" /\ said[k] = m}
Produced(m) == {k \in DOMAIN msgLog : msgLog[k] = m}

AcceptedIsProduced ==
  /\ Len(Answered) <= Len(said)
  /\ \A k \in DOMAIN Answered : Answered[k].is \in {"accepted", "unavailable"} <=> said[k] \in Msg
  /\ \A m \in Msg : Cardinality(Accepted(m)) <= Cardinality(Produced(m))

(***************************************************************************)
(* A push answered `delivered` is written to the socket, unless the        *)
(* connection or the process ends first: the write pump may not keep a     *)
(* packet until the next frame comes.                                      *)
(***************************************************************************)
Written(i) == \E j \in DOMAIN got : \E k \in DOMAIN got[j] : got[j][k] = Pushed(i)

DeliveredIsWritten ==
  \A i \in Pushes : i \in relay.delivered ~> (Written(i) \/ ~socket \/ ~alive)

(***************************************************************************)
(* When the socket is closed or the client is away, the read pump ends and *)
(* the connection leaves the table, even if the read pump waits for room   *)
(* in a channel that nobody empties any more (client.go: the worst case is *)
(* one connection that blocks itself, which the idle sweep ends).          *)
(***************************************************************************)
Ended == reader.pc = "done" /\ manager.entry # "this"

BrokenEnds == (~socket \/ peer # "here") ~> (Ended \/ manager.entry = "other" \/ ~alive)

(***************************************************************************)
(* The same for a connection that was replaced in the table, which is what *)
(* the comment says without that condition.                                *)
(***************************************************************************)
ReplacedEnds == (~socket \/ peer # "here") ~> (reader.pc = "done" \/ ~alive)

(***************************************************************************)
(* A relay call is always answered (joker/relay/server.go: a full channel  *)
(* fails at once): it never takes the process down.                        *)
(***************************************************************************)
RelayAnswers == alive

(***************************************************************************)
(* The client reads every packet as one frame (web/app.js: JSON.parse of   *)
(* the whole data, and nothing on an error).                               *)
(***************************************************************************)
PacketsAreFrames == \A j \in DOMAIN got : Len(got[j]) = 1

(***************************************************************************)
(* A slow connection is closed and no push is skipped (T01-bugfix.md: a    *)
(* full channel is kicked, it does not jump).                              *)
(***************************************************************************)
NoJump ==
  \A i \in relay.delivered : \A h \in 1..(i - 1) : h \in relay.delivered
=============================================================================
