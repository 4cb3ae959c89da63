-------------------------------- MODULE Feed --------------------------------
(***************************************************************************)
(* The feed: publishing (feed/api/publish.go), the fan-out worker that     *)
(* writes the inboxes of friends (worker/fanout/fanout.go), the reader who *)
(* pages through inbox and pulled posts (feed/api/read.go).                *)
(*                                                                         *)
(* Time is counted in ticks, Sec of them to a second: posts carry the time *)
(* of their row, the event and so the inbox only its second.  Posts are    *)
(* never deleted, nothing in the program calls SoftDeletePost.             *)
(***************************************************************************)
EXTENDS Naturals, Sequences, FiniteSets, SequencesExt

CONSTANTS
  User,       \* users
  Reader,     \* the user whose reading is modelled
  Acquainted, \* pairs of users who are friends to begin with
  BigV,       \* bigVThreshold: with more friends an author is not fanned out
  Batch,      \* batchSize of the fan-out
  Limit,      \* posts on a page
  Sec,        \* ticks of a second
  MaxPost,    \* bound: posts
  MaxPage,    \* bound: pages read
  MaxFriend,  \* bound: friendships made and ended
  MaxFail     \* bound: lost events, failed iterations and crashes

ASSUME FeedAssumption ==
  /\ Reader \in User /\ IsFiniteSet(User)
  /\ Acquainted \subseteq {{u, v} : u, v \in User} \ {{u} : u \in User}
  /\ {Batch, Limit, Sec} \subseteq Nat \ {0}
  /\ {BigV, MaxPost, MaxPage, MaxFriend, MaxFail} \subseteq Nat

VARIABLES
  clock,    \* now
  friends,  \* pairs of rows of friends
  posts,    \* rows of posts
  unsent,   \* rows whose event is not yet written
  inbox,    \* inbox[u]: rows of feed_inbox
  topic,    \* feed.fanout: ids of posts
  done,     \* committed offset
  wk,       \* the fan-out worker: where it reads, and what
  cache,    \* its cached lists of friends
  rd,       \* the reader's session
  lost,     \* offsets at which Handle has failed (history)
  steady,   \* friends since the beginning (history)
  bounds    \* how often each bounded thing has happened

reading  == rd
fanout   == <<inbox, done, wk, cache, lost>>
authors  == <<friends, steady>>
written  == <<clock, posts, unsent, topic>>
vars     == <<authors, written, fanout, reading, bounds>>

Id        == 1 .. MaxPost
Row(i)    == CHOOSE p \in posts : p.id = i
FriendsOf(u) == {v \in User : {u, v} \in friends /\ u # v}

NoJob == [pc |-> "fetch", at |-> 0, rest |-> {}]
Fresh == [pc |-> "idle", before |-> 0, last |-> 0, box |-> {}, from |-> {}, pages |-> <<>>,
          end |-> FALSE]

Init ==
  /\ clock = 0 /\ friends = Acquainted /\ steady = Acquainted
  /\ posts = {} /\ unsent = {} /\ inbox = [u \in User |-> {}]
  /\ topic = <<>> /\ done = 0 /\ wk = NoJob
  /\ cache = [u \in {} |-> {}]
  /\ rd = Fresh
  /\ lost = {}
  /\ bounds = [friend |-> 0, fail |-> 0]

Tick(what, max) ==
  /\ bounds[what] < max
  /\ bounds' = [bounds EXCEPT ![what] = @ + 1]

-----------------------------------------------------------------------------
(* Friends *)

\* Both rows are written, or deleted, in one transaction.
Befriend(u, v) ==
  /\ Tick("friend", MaxFriend)
  /\ u # v
  /\ friends' = friends \cup {{u, v}}
  /\ UNCHANGED <<steady, written, fanout, reading>>

Unfriend(u, v) ==
  /\ Tick("friend", MaxFriend)
  /\ {u, v} \in friends
  /\ friends' = friends \ {{u, v}}
  /\ steady' = steady \ {{u, v}}
  /\ UNCHANGED <<written, fanout, reading>>

-----------------------------------------------------------------------------
(* Publishing *)

(***************************************************************************)
(* createPost: the friends are counted and the row gets a random id.  A    *)
(* request of the reader is taken to last less than a second.              *)
(***************************************************************************)
CreatePost(u, i, ticks) ==
  /\ \A p \in posts : p.id # i
  /\ clock' = clock + ticks
  /\ rd.pc # "idle" => clock' < rd.before
  /\ posts' = posts \cup {[id |-> i, by |-> u, at |-> clock', big |-> Cardinality(FriendsOf(u)) > BigV]}
  /\ unsent' = unsent \cup {i}
  /\ UNCHANGED <<authors, topic, fanout, reading, bounds>>

\* The event; an error is logged and the post stands.
Produce(i) ==
  /\ i \in unsent
  /\ unsent' = unsent \ {i}
  /\ \/ topic' = Append(topic, i) /\ UNCHANGED bounds
     \/ topic' = topic /\ Tick("fail", MaxFail)
  /\ UNCHANGED <<authors, clock, posts, fanout, reading>>

-----------------------------------------------------------------------------
(* The fan-out worker *)

This == Row(topic[wk.at + 1])

Resume(pc) == wk' = [wk EXCEPT !.pc = pc]

\* Mutant of Take: no action uses it.
TakeAndCommit ==
  /\ wk.pc = "fetch" /\ wk.at < Len(topic)
  /\ done' = wk.at + 1
  /\ Resume(IF This.big THEN "commit" ELSE "list")
  /\ UNCHANGED <<authors, written, inbox, cache, lost, reading, bounds>>

\* Fetched, and its row read.  The row says as much as the event does.
Take ==
  /\ wk.pc = "fetch" /\ wk.at < Len(topic)
  /\ Resume(IF This.big THEN "commit" ELSE "list")
  /\ UNCHANGED <<authors, written, inbox, done, cache, lost, reading, bounds>>

(***************************************************************************)
(* friendLister.list: the cached list, or the rows, which are cached.      *)
(***************************************************************************)
Listed(u) == IF u \in DOMAIN cache THEN cache[u] ELSE FriendsOf(u)

List ==
  /\ wk.pc = "list"
  /\ cache' = [u \in DOMAIN cache \cup {This.by} |-> Listed(u)]
  /\ wk' = [wk EXCEPT !.pc = IF Listed(This.by) = {} THEN "commit" ELSE "write", !.rest = Listed(This.by)]
  /\ UNCHANGED <<authors, written, inbox, done, lost, reading, bounds>>

\* Thirty seconds later, here at any time.
Expire(u) ==
  /\ u \in DOMAIN cache
  /\ cache' = [v \in DOMAIN cache \ {u} |-> cache[v]]
  /\ UNCHANGED <<authors, written, inbox, done, wk, lost, reading, bounds>>

(***************************************************************************)
(* InsertInboxBatch: the next users, with the second of the post; a row    *)
(* that is there stays.                                                    *)
(***************************************************************************)
Second(t) == (t \div Sec) * Sec

AtMost(n, set) == IF Cardinality(set) < n THEN Cardinality(set) ELSE n

NextBatch(rest) == {us \in SUBSET rest : Cardinality(us) = AtMost(Batch, rest)}

WriteBatch ==
  /\ wk.pc = "write"
  /\ \E us \in NextBatch(wk.rest) :
       /\ inbox' = [u \in User |->
            inbox[u] \cup {[post |-> This.id, at |-> Second(This.at)] : v \in us \cap {u}}]
       /\ wk' = [wk EXCEPT !.rest = @ \ us, !.pc = IF us = wk.rest THEN "commit" ELSE "write"]
  /\ UNCHANGED <<authors, written, done, cache, lost, reading, bounds>>

\* Handle returns an error: Run goes on with the next record, commits nothing.
HandleFails ==
  /\ Tick("fail", MaxFail)
  /\ wk.pc \in {"list", "write"}
  /\ wk' = [NoJob EXCEPT !.at = wk.at + 1]
  /\ lost' = lost \cup {wk.at + 1}
  /\ UNCHANGED <<authors, written, inbox, done, cache, reading>>

\* Mutant of CommitOffset: no action uses it.
CommitNext ==
  /\ wk.pc = "commit"
  /\ done' = wk.at + 2
  /\ wk' = [NoJob EXCEPT !.at = wk.at + 1]
  /\ UNCHANGED <<authors, written, inbox, cache, lost, reading, bounds>>

CommitOffset ==
  /\ wk.pc = "commit"
  /\ done' = wk.at + 1
  /\ wk' = [NoJob EXCEPT !.at = wk.at + 1]
  /\ UNCHANGED <<authors, written, inbox, cache, lost, reading, bounds>>

\* Or Run ends with an error of the reader, and the process is restarted.
Crash ==
  /\ Tick("fail", MaxFail)
  /\ wk' = [NoJob EXCEPT !.at = done]
  /\ cache' = [u \in {} |-> {}]
  /\ UNCHANGED <<authors, written, inbox, done, lost, reading>>

-----------------------------------------------------------------------------
(* Reading *)

\* What ORDER BY created_at DESC LIMIT may return; ties in any order.
Newest(set) ==
  {s \in SUBSET set :
     /\ Cardinality(s) = AtMost(Limit, set)
     /\ \A e \in s, f \in set \ s : e.at >= f.at}

(***************************************************************************)
(* getFeed, PageInbox: the rows before the cursor, or before now and a     *)
(* second.                                                                 *)
(***************************************************************************)
ReadInbox ==
  /\ rd.pc = "idle" /\ ~rd.end /\ Len(rd.pages) < MaxPage
  /\ LET before == IF rd.pages = <<>> THEN clock + Sec ELSE rd.before
     IN  \E box \in Newest({e \in inbox[Reader] : e.at < before}) :
           rd' = [rd EXCEPT !.pc = "friends", !.before = before, !.box = box]
  /\ UNCHANGED <<authors, written, fanout, bounds>>

\* ListByOwner: a query of its own, friends come and go before the next one.
ReadFriends ==
  /\ rd.pc = "friends"
  /\ rd' = [rd EXCEPT !.pc = "pull", !.from = FriendsOf(Reader) \cup {Reader}]
  /\ UNCHANGED <<authors, written, fanout, bounds>>

\* Mutant of Pulled: no action uses it.
PulledBig == {p \in posts : p.by = Reader \/ (p.big /\ p.by \in rd.from)}

(***************************************************************************)
(* The newest posts of the listed friends and of the reader, without a     *)
(* cursor; those not before it are dropped afterwards.                     *)
(***************************************************************************)
Pulled == {p \in posts : p.by \in rd.from}

(***************************************************************************)
(* Both together, every post once under its later time, by time and id.    *)
(***************************************************************************)
Entries(pulled) ==
  rd.box \cup {[post |-> p.id, at |-> p.at] :
                 p \in {q \in pulled : q.at < rd.before \/ (q.at = rd.before /\ q.id # rd.last)}}

Merged(entries) ==
  LET once == {e \in entries : \A f \in entries : f.post = e.post => f.at <= e.at}
      list == SetToSortSeq(once, LAMBDA e, f : e.at > f.at \/ (e.at = f.at /\ e.post > f.post))
  IN  SubSeq(list, 1, AtMost(Limit, once))

\* The page, and the cursor after its last post when it is full.
ReadPull ==
  /\ rd.pc = "pull"
  /\ \E pulled \in Newest(Pulled) :
       LET merged == Merged(Entries(pulled))
           page   == [k \in DOMAIN merged |-> merged[k].post]
           full   == Len(page) = Limit
       IN  rd' = [rd EXCEPT !.pc = "idle", !.box = {}, !.from = {}, !.end = ~full,
                            !.pages = Append(@, page),
                            !.before = IF full THEN Row(page[Limit]).at ELSE 0,
                            !.last = IF full THEN page[Limit] ELSE 0]
  /\ UNCHANGED <<authors, written, fanout, bounds>>

-----------------------------------------------------------------------------
Work == Take \/ List \/ WriteBatch \/ CommitOffset

Next ==
  \/ \E u, v \in User : Befriend(u, v) \/ Unfriend(u, v)
  \/ \E u \in User, i \in Id, ticks \in 1 .. Sec : CreatePost(u, i, ticks)
  \/ \E i \in Id : Produce(i)
  \/ Work \/ HandleFails \/ Crash \/ \E u \in User : Expire(u)
  \/ ReadInbox \/ ReadFriends \/ ReadPull

Spec == Init /\ [][Next]_vars
FairSpec == Spec /\ WF_vars(Work)

-----------------------------------------------------------------------------
TypeOK ==
  /\ clock \in Nat
  /\ {friends, steady} \subseteq SUBSET {{u, v} : u, v \in User}
  /\ posts \subseteq [id : Id, by : User, at : Nat, big : BOOLEAN]
  /\ unsent \subseteq {p.id : p \in posts}
  /\ inbox \in [User -> SUBSET [post : Id, at : Nat]]
  /\ topic \in Seq(Id) /\ done \in 0 .. Len(topic) /\ lost \subseteq 1 .. Len(topic)
  /\ wk \in [pc : {"fetch", "list", "write", "commit"}, at : Nat, rest : SUBSET User]
  /\ \A u \in DOMAIN cache : cache[u] \subseteq User
  /\ rd.pc \in {"idle", "friends", "pull"} /\ rd.from \subseteq User
  /\ rd.pages \in Seq(Seq(Id)) /\ rd.last \in 0 .. MaxPost

(***************************************************************************)
(* A post that is not on the first page is no newer than any that is, if   *)
(* its author is the reader or was a friend when the friends were listed:  *)
(* whatever became of the event and of the fan-out, and whoever became or  *)
(* ceased to be a friend while the page was read, pulling makes up for it  *)
(* (feed/api/publish.go:73).                                               *)
(***************************************************************************)
TurnsFirstPage == rd.pages = <<>> /\ rd'.pages # <<>>

MissesNothing ==
  [][TurnsFirstPage =>
       LET page == ToSet(rd'.pages[1])
       IN  \A p \in posts :
             p.by \in rd.from /\ p.id \notin page =>
               /\ Cardinality(page) = Limit
               /\ \A i \in page : Row(i).at >= p.at]_vars

(***************************************************************************)
(* The event of an author below the threshold reaches the inbox of each    *)
(* who stays a friend, over crashes and cached lists, unless Handle failed *)
(* at it (fanout.go:131-135).                                              *)
(***************************************************************************)
Due(k, v) == k \in DOMAIN topic /\ ~Row(topic[k]).big /\ {Row(topic[k]).by, v} \in steady

ReachesFriends ==
  \A k \in Id, v \in User :
    []<>(Due(k, v) => k \in lost \/ \E e \in inbox[v] : e.post = topic[k])

\* docs/specs/T11-feed-read.md:19, the test plan: two pages do not overlap.
PagesDoNotOverlap ==
  \A j, k \in DOMAIN rd.pages : j # k => ToSet(rd.pages[j]) \cap ToSet(rd.pages[k]) = {}

\* The same line: the pages cover everything.
PagesCoverAll ==
  rd.end /\ rd.pages[1] # <<>> =>
    \A p \in posts : p.by = Reader /\ p.at <= Row(rd.pages[1][1]).at =>
      \E k \in DOMAIN rd.pages : p.id \in ToSet(rd.pages[k])

\* fanout.go:134: an event that failed is delivered again.
FailedIsRetried ==
  \A k \in Id, v \in User :
    []<>(Due(k, v) => \E e \in inbox[v] : e.post = topic[k])
=============================================================================
