------------------------------ MODULE History ------------------------------
(***************************************************************************)
(* How a client gets the messages of a conversation, over losses.  A       *)
(* message is numbered in its transaction (kv.go: NextSeqTx holds the row  *)
(* of the counter to the COMMIT) and pushed afterwards; a push is lost,    *)
(* late or repeated, so it may come at any time, or never.  The history (message.go: ListAfter, GET             *)
(* /conversations/:id/messages) returns one page after a cursor.  The      *)
(* client (web/app.js) keeps what it has seen and the largest number, and  *)
(* pulls when it connects and when a push leaves a gap.                    *)
(*                                                                         *)
(* One conversation, of which the client is a member.                      *)
(***************************************************************************)
EXTENDS Naturals, FiniteSetsExt

CONSTANTS
  Writer,    \* who writes messages: the user of the client, and others
  Me,        \* the user of the client
  Page,      \* limit of a page
  MaxSeq,    \* bound: messages
  MaxPulls,  \* bound: pulls at a time
  MaxLost    \* bound: requests of the client that fail

ASSUME HistoryAssumption ==
  /\ Page \in Nat \ {0} /\ {MaxSeq, MaxPulls, MaxLost} \subseteq Nat

Unread == [read |-> FALSE, page |-> {}]

VARIABLES
  wtx,       \* wtx[w]: the number of its message not yet committed, 0 if there is none
  stored,    \* committed messages: [seq, from]
  client,    \* on: connected, lastSeq, seen
  first,     \* history: the number from which on the client watches, 0 before its first message
  pulls,     \* requests for history on their way: [after, got]
  lost,      \* how many of them have failed
  excused    \* history: one failed, a page ended below lastSeq, or an own message came over a gap

historyVars == <<wtx, stored, client, first, pulls, lost, excused>>
serverVars == <<wtx, stored>>

HistoryInit ==
  /\ wtx = [w \in Writer |-> 0]
  /\ stored = {} /\ pulls = {}
  /\ client = [on |-> TRUE, lastSeq |-> 0, seen |-> {}]
  /\ first = 0 /\ lost = 0 /\ excused = FALSE

Seqs == {m.seq : m \in stored}

-----------------------------------------------------------------------------
\* Mutant of Number: no action uses it.
NumberUnlocked(w) ==
  LET last == Max({0} \cup Seqs \cup {wtx[o] : o \in Writer})
  IN /\ wtx[w] = 0 /\ last < MaxSeq
     /\ wtx' = [wtx EXCEPT ![w] = last + 1]
     /\ UNCHANGED <<stored, client, first, pulls, lost, excused>>

\* NextSeqTx and INSERT: one transaction at a time, for the row of the counter is locked.
Number(w) ==
  /\ \A o \in Writer : wtx[o] = 0
  /\ Cardinality(stored) < MaxSeq
  /\ wtx' = [wtx EXCEPT ![w] = Cardinality(stored) + 1]
  /\ UNCHANGED <<stored, client, first, pulls, lost, excused>>

\* COMMIT.
CommitMessage(w) ==
  /\ wtx[w] # 0
  /\ stored' = stored \cup {[seq |-> wtx[w], from |-> w]}
  /\ wtx' = [wtx EXCEPT ![w] = 0]
  /\ UNCHANGED <<client, first, pulls, lost, excused>>

RollbackMessage(w) ==
  /\ wtx[w] # 0
  /\ wtx' = [wtx EXCEPT ![w] = 0]
  /\ UNCHANGED <<stored, client, first, pulls, lost, excused>>

-----------------------------------------------------------------------------
\* pullHistory: the cursor is lastSeq at the time of the request.
Pull(after) == pulls \cup {[after |-> after, got |-> Unread]}

CanPull(after) == Cardinality(Pull(after)) <= MaxPulls

\* Mutant of Gap: no action uses it.
GapOfTwo(seq) == seq > client.lastSeq + 2

Gap(seq) == seq > client.lastSeq + 1

(***************************************************************************)
(* onMessage: a repeated message is dropped, an own one only counted, a    *)
(* gap makes a pull, with the cursor before this message.                  *)
(***************************************************************************)
OnMessage(m) ==
  /\ client.on /\ m.seq \notin client.seen
  /\ client' = [client EXCEPT !.seen = @ \cup {m.seq}, !.lastSeq = Max({@, m.seq})]
  /\ first' = IF first = 0 THEN m.seq ELSE first
  /\ IF m.from # Me /\ Gap(m.seq) /\ client.lastSeq > 0
     THEN CanPull(client.lastSeq) /\ pulls' = Pull(client.lastSeq) /\ UNCHANGED excused
     ELSE UNCHANGED pulls /\ excused' = (excused \/ (Gap(m.seq) /\ client.lastSeq > 0))
  /\ UNCHANGED <<serverVars, lost>>

Disconnect ==
  /\ client.on
  /\ client' = [client EXCEPT !.on = FALSE]
  /\ UNCHANGED <<serverVars, first, pulls, lost, excused>>

\* ws.onopen: pull after lastSeq.
Reconnect ==
  /\ ~client.on
  /\ client' = [client EXCEPT !.on = TRUE]
  /\ CanPull(client.lastSeq) /\ pulls' = Pull(client.lastSeq)
  /\ UNCHANGED <<serverVars, first, lost, excused>>

-----------------------------------------------------------------------------
\* ListAfter: the committed messages after the cursor, in the order of their numbers, at most a page.
After(a) == {n \in Seqs : n > a}

ListAfter(a) == {n \in After(a) : Cardinality({k \in After(a) : k <= n}) <= Page}

ReadHistory(p) ==
  /\ ~p.got.read
  /\ pulls' = (pulls \ {p}) \cup {[p EXCEPT !.got = [read |-> TRUE, page |-> ListAfter(p.after)]]}
  /\ excused' = (excused \/ \E n \in After(p.after) \ ListAfter(p.after) : n < client.lastSeq)
  /\ UNCHANGED <<serverVars, client, first, lost>>

\* The messages of the page that are new, in their order.
Pulled(p) ==
  /\ p.got.read
  /\ pulls' = pulls \ {p}
  /\ client' = [client EXCEPT !.seen = @ \cup p.got.page,
                              !.lastSeq = Max({@} \cup p.got.page)]
  /\ first' = IF first = 0 /\ p.got.page # {} THEN 1 ELSE first
  /\ UNCHANGED <<serverVars, lost, excused>>

\* One answer to a pull with this cursor.
AnswerPull(after) == \E p \in pulls : p.after = after /\ (ReadHistory(p) \/ Pulled(p))

\* The error is caught and dropped.
PullFails ==
  /\ lost < MaxLost
  /\ \E p \in pulls : pulls' = pulls \ {p}
  /\ lost' = lost + 1
  /\ excused' = TRUE
  /\ UNCHANGED <<serverVars, client, first>>

HistoryNext ==
  \/ \E w \in Writer : Number(w) \/ CommitMessage(w) \/ RollbackMessage(w)
  \/ \E m \in stored : OnMessage(m)
  \/ \E after \in 0..MaxSeq : AnswerPull(after)
  \/ Disconnect \/ Reconnect \/ PullFails

HistorySpec == HistoryInit /\ [][HistoryNext]_historyVars

-----------------------------------------------------------------------------
\* The variables hold what the code can put into them.
HistoryTypeOK ==
  /\ \A w \in Writer : wtx[w] \in 0..MaxSeq
  /\ client.lastSeq \in {0} \cup Seqs
  /\ client.seen \subseteq Seqs
  /\ Cardinality(pulls) <= MaxPulls
  /\ first <= client.lastSeq

(***************************************************************************)
(* The client misses nothing: a message between the first it has got and   *)
(* lastSeq is one it has seen or one that a pull on its way returns,       *)
(* whatever pushes are lost, late or repeated, while messages go on being  *)
(* written.  lastSeq only grows, so nothing would ask for it again.        *)
(***************************************************************************)
Returns(p, n) == IF p.got.read THEN n \in p.got.page ELSE n > p.after

Missing == {n \in Seqs : first < n /\ n < client.lastSeq} \ client.seen

GapsAreCovered == ~excused => \A n \in Missing : \E p \in pulls : Returns(p, n)

\* And the pulls end.
GapsAreFilled == \A n \in 1..MaxSeq : []<>(n \notin Missing \/ excused)

(***************************************************************************)
(* app.js:2: after a reconnection what follows lastSeq is pulled.  A gap   *)
(* is for good when its pull fails, when it is longer than a page and      *)
(* above a message already pushed, or when an own message came over it.    *)
(***************************************************************************)
NothingIsMissed == \A n \in 1..MaxSeq : []<>(n \notin Missing)

=============================================================================
