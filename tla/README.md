# TLA+ project for Alfred Brave

Alfred Brave is an instant messenger written in Go.  This directory keeps its
TLA+ models, the TLC configurations that check them on small instances, and the
theorems about them that TLAPS checks.  `PROJECT.json` is the index: components,
runs, mutants, the lines each definition stands for, findings, hazards,
theorems.

Run a check with `tlc -config MCPersist_race.cfg MCPersist`, a proof with
`tlapm PersistProofs.tla`; the other modules with proofs are
`PersistHistoryProofs`, `GroupProofs`, `PresenceProofs`, `SnowflakeProofs`, `AckProofs`,
`DeliverProofs` and `ServicesProofs`.

## 1. The system

### Components, their state and their operations

| Component (source) | State | Operations |
|---|---|---|
| Gateway (`server/`) | none of its own; caches the services found in etcd | register, login (gives a chat server at random), friends, conversations, group management, history by seq |
| Chat server "Joker" (`joker/`) | `Manager.Users` (uid to connection), a send channel of 32 frames per connection, its `online:{uid}` records | connect, heartbeat, disconnect, idle sweep, produce `chat.msg`, accept relayed pushes and acks, consume `chat.ack` |
| Persist worker (`worker/persist`) | the iteration in memory; offsets | consume `chat.msg`, validate, number and store, produce `chat.push`, commit |
| Deliver worker (`worker/deliver`) | router cache, pending acks and notifies, offsets | consume `chat.push`, relay by gRPC to the receiver's chat server, produce `chat.ack` and `chat.notify` |
| Push worker (`worker/push`) | per user: badge, time of the last send, count of the hour | consume `chat.notify`, merge, call the vendor |
| Ghost reconciler (`worker/ghost`) | none | compare `online:*` with the chat servers alive in etcd, delete the rest |
| Fan-out worker (`worker/fanout`) | offsets | consume `feed.fanout`, write inboxes, recount likes and comments |
| Feed API (`feed/api`) | none | publish, read (merge of inbox and big authors), like, comment |
| Stores (`database/`) | PostgreSQL: users, friends, conversations, messages, groups, members, posts, inboxes, kv (`seq:{conv}`, `online:{uid}`) | one transaction per operation |
| Web client (`web/app.js`) | per conversation: `lastSeq`, the messages shown; the socket | send, show pushes, pull the history after a gap or a reconnection |
| Service registry (`internal/etcd`) | leases; a list of services per gateway | register and keep alive, discover and watch |
| Identifiers (`internal/snowflake`) | last millisecond, sequence | next id |
| Tokens, i18n, configuration, HTTP helpers, commands, tools | | not protocol logic |

### How they interact

    client --REST--> gateway --etcd--> the address of a chat server
    client --WebSocket--> chat server --chat.msg (key conv_id)--> persist
    persist --tx--> PostgreSQL; --chat.push (key to_uid)--> deliver
    deliver --gRPC--> chat server --send channel--> client
    deliver --chat.ack (key from_uid)--> chat server --> the sender
    deliver --chat.notify (key to_uid)--> push worker --> vendor
    gateway --tx + chat.msg--> persist            (group events)
    feed API --feed.fanout--> fan-out --> inboxes
    ghost --> kv online:*                         (repair)

Every arrow through Kafka is at-least-once with one consumer group per kind of
worker; every worker exits on an infrastructure error and is restarted by the
deployment.  The online records in `kv` are the only shared state that several
processes write without a transaction around the decision.

### What is hard

* persist: the numbers of a conversation are taken by workers and gateways from
  one counter; repeated frames, batches that fail half-way, redelivery after a
  crash between COMMIT and the pushes, two partitions for one conversation.
* presence: connect, disconnect, reconnect elsewhere, idle sweep and ghost sweep
  write the same record in any order; the deliver worker caches it.
* deliver: a relay that answers not-found, times out or half fails, against the
  order of one receiver's pushes and against committing the batch; the record of a
  user who has just come or gone still names the wrong server, or none.
* acks: one consumer group for all chat servers; forwarding to a peer that died;
  the same records between the two halves of an event.
* groups: membership, the group's state and its event messages change together
  while persist validates group messages outside of that transaction.
* connections: two pumps, the relay and the idle sweep share one channel that
  one of them closes; the read pump itself writes to it without a way out.
* push: a merge window kept in memory per user.
* conversations and friendships: check-then-insert at READ COMMITTED, in pairs
  of rows that two users take in opposite order.
* history: pushes are dropped, late and out of order; one pull must repair it.
* registry: list, then watch, with a gap between; leases that run out.
* feed: a fan-out that is skipped and a later commit; pagination over two sources.
* ids: a clock that goes back.

The full list of hazards, each at its line and with the property that is meant
to catch it, is under "hazards" in `PROJECT.json`.

### What makes each component correct

* persist: a history without holes or repeats per conversation; nothing
  committed that is not stored and pushed; no partition blocked for ever.
* presence: the record of a user names the server that has the newest
  connection; only that server and, once it is dead, the ghost worker remove it.
* deliver: what is committed was answered (ack, notify or a full channel) unless
  record and table disagreed, acks are true, the pushes of a user keep their order.
* groups: both tables of members, the state of the group and its events agree at
  every commit; what is stored was allowed.
* acks: the sender who stays connected, or whose record has changed once, learns of
  every delivery unless record and table disagreed; a dead peer does not stop others.
* push: every notification is in a later badge or a later send.
* feed: a reader who pages sees every post of his authors once; counters
  converge.
* registry and ids: the list converges to the live servers; ids differ.

## 2. The plan

| Step | Module | What | State |
|---|---|---|---|
| 1 | `MessageLog` | the abstract message store: histories that only grow at the end | done |
| 2 | `Persist` | the worker, its batch path, its one-by-one path, transactions, rebalances; implements `MessageLog` | done |
| 3 | `PersistProofs` | `TypeCorrect`, `SeqsAreUnique` | done |
| 4 | `Presence` | connection tables, online records, ghost worker | done |
| 5 | `Deliver` | batches, route cache, relay, retries, acks and notifies | done |
| 6 | `Group` | management transactions against validation and fan-out | done |
| 7 | `Ack` | the shared consumer of the chat servers, forwarding, the second lookup, the consumer that ends after one failed forward | done |
| 8 | `Feed` | publish, fan-out, the page cursor over inbox and pulled posts | done |
|   | `Likes` | likes taken back, comments, the recount of recent ones | done |
| 9 | `Push`, `Snowflake`, `Registry` | merge window and hourly limit; ids under a clock that goes back; list and watch | done |
|   | `Friends`, `Conversations` | friendships made and ended at once; opening a conversation | done |
|   | `Connection`, `History` | the two pumps of a connection with relay and sweep; numbering against paging and what the web client asks for | done |
| 10 | `GroupProofs` | `MembersAgree`, `StoredTextsWereAllowed`, `LeaversGetNoPush`, `AdditionsStayBelowLimit` | done |
|    | `SnowflakeProofs` | `IdsRise` | done |
| 11 | `PresenceProofs` | `OwnersRemove`, `RecordsAreBacked`, `NewestIsOnline`, each with the adversity it excludes | done |
| 12 | `PersistHistoryProofs` | `HistoryStaysSound`, `PushesAgree`, `HistoriesOnlyGrow` (`Persist` implements `MessageLog`), `WhatIsCommittedIsDone` under `OneWriter`; `NothingIsLeftBehind` without it | done |
| 13 | `AckProofs` | `AcksOnce`, `CommittedAcksWereHandled` | done |
| 14 | `DeliverProofs` | `CommittedWereAnswered`, `AnswersStayTrue`, `SteadyInOrder` | done |
| 15 | `ServicesProofs` | `ServicesAreBounded`, `WhatIsCopiedAgrees`; a theorem for each of `Push`, `Friends`, `Registry`, `Conversations`, `History` alone | done |
| 16 | proofs for `Feed` | type correctness | left |

Abstract specifications worth stating: `MessageLog` (done); for the
registry, the set of live services.  A timeline with a cursor would be one for
`Feed`, if its pages did not overlap and end early (section 4).

## 3. The modules and the code

### MessageLog and Persist: `worker/persist`, `database/kv.go`

`Persist` has one action per step of `Worker.Run` and of what it calls.  The
state of one iteration is the record `wk[w]`, whose field `pc` is the place in
the code:

| pc | code | actions |
|---|---|---|
| fetch | `Run`: `FetchMessage`, the collecting of the batch | `Fetch` |
| first | the first lines of `handleSingleBatch` | `Resolve` |
| fallback, other | the loops of `Run` that call `Handle` | `HandleNew`, `HandleReplay`, `HandleRefused`, `SkipPoison`, `SkipUnread`, `QueueDone` |
| select | the SELECT of stored ids, the counts of users and conversations | `Select` |
| seq, assign | the UPSERT of the counters, the numbers, the INSERT and the COMMIT | `NextSeq`, `Assign`, `Insert`, `InsertConflict`, `Abort` |
| replay | the pushes of messages that were stored before | `Replay`, `ReplayDone` |
| flush | `flushPushes` | `FlushPushes`, `FlushFailed` |
| offset | `CommitMessages`, or the error that ends `Run` | `CommitMessages`, `CommitRefused`, `Fail` |

A transaction is three steps, at the grain at which others see it: it locks the
counters of its conversations (`lock`), numbers its messages, and commits.
`Crash` and `Abort` roll it back.  Kafka is `log`, `owner`, `committed`;
`Rebalance` moves a partition while an iteration that holds its records goes on
(`stale`), and its commit is then refused.  `Send` is the chat server's produce,
with the retries of clients; `Prewrite` is a gateway that numbers and stores a
group event; `Route` says which partition each of the two keys of a conversation
(conv_id, or the pair of users before the client knows it) hashes to.
A message is what has one msg_id; its content is abstracted to who receives it
and what is wrong with it (`FaultOf`).

`MessageLog` is what readers rely on; `Persist` implements it by `History`, the
stored rows read in the order of their seq.

### Presence: `joker/exchange/manager.go`, `client.go`, `joker/api/websocket.go`, `worker/ghost`

A chat server is `srv[s]`: the Register and Unregister channels, the table of
users, the connections the idle sweep is about to close and the kv statement its
event loop is in.  Connections are numbered in the order they are opened; their
read pumps are the fields `open`, `idle`, `sent` and `left`.  `EventRegister`
and `EventUnregister` are the table change, `WriteRecord` or `WriteFails` the
statement after it, which may be overtaken by any step of another server.
The ghost worker is `sweep`: the listing of a pass, then page after page
(`ScanPrefix`, `SweepEntry`), each delete conditional on the value it read.
`Adversity` selects what an instance may do: a user who comes back to the same
server, one who connects elsewhere before the older Register is handled, a
running server that loses its lease, a restart at the same address.

### Deliver: `worker/deliver`, `joker/relay`

`wk` is the batch, `grp[s]` the goroutine that serves server `s`: the batch
call, the one-by-one retries with their three attempts, the second lookup
after `not_found`.  Servers are their tables (`at`, the newest connection of a
user, and `left`, the servers that still have an older one), `send` (the Send
channels, `SendMax` frames) and `up`.  `EventRegister` and `EventUnregister` change
a table; the record `online` follows in a step of its own (`op`, `WriteRecord`),
which may come late or fail, as in `manager.go`.  `changes` counts how often a
record has changed, and `missed` are the pushes that a relay did not find where the
record pointed at that moment: between the two halves of an event, or after a
second half that failed.  One abstraction: a push put into the channel of an older
connection is answered `delivered` and not read.  `cache` is the router's, whose
entries may expire at any moment.  Acks and notifies are written after all goroutines are done, then the
offset.  A list of pushes is the set of their offsets, taken from the least
(`First`): the code appends to its lists in the order of the log and never
reorders them.

### Group: `database/group.go`, `server/api/group.go`, `worker/persist`

`tx[r]` is a management request: owner operations lock the row of the group
(`group`, `change`, `commit`); `Quit` locks the row of the member (`row`),
counts (`count`), waits for the row of the group (`wait`) and commits.
PostgreSQL's row locks follow from `pc`; a cycle of a kick and a quit is broken
by `Deadlock`.  `log` has the stored texts and events of the group in the order
of their seq, so the seq is the index.  The worker takes one record at a time:
status, members, row, pushes, offset are separate steps.
Rename, announcement and pin are the operation `edit`.

### Feed: `feed/api`, `worker/fanout`, `database/feed.go`

`posts`, `inbox` and `friends` are the tables; `topic` and `done` are Kafka's,
with the one partition whose order the worker sees.  `wk.pc` is the place in
`Worker.Run`: fetched and read (`Take`), the list of friends with its cache
(`List`, `Expire`), a batch of inbox rows after the other (`WriteBatch`), the
offset.  `HandleFails` is the `continue` of `Run`, which leaves an offset behind
(`lost`); `Crash` begins again at the committed one.  A reader is `rd`: the query
of the inbox, that of the friends (`ReadFriends`) and that of the posts (`ReadPull`)
are three steps, between which others move.  Time is in ticks, so that the row of a post and the second in its inbox
rows differ.  Two abstractions: the number of friends is read with the INSERT
of the post, and a read request takes less than a second.

### Ack: `joker/exchange/ack.go`, `joker/relayclient`, `joker/relay`

Every chat server runs one consumer of `chat.ack`: `it[s]` is its place in
`ConsumeAcksWith` and `dispatch` (batch, lookup of the senders, local ones,
one call per peer, the second lookup of what was not found, commit), or that it
has ended, which any error outside of the lookup retry makes it do while its
reader keeps its partitions.  `Assign` is the consumer group; a crash hands the
uncommitted batch to another member.  Tables and records are those of `Deliver`,
changed in the same two steps; `missed` are the acks whose sender had no record at
a lookup, or was not where the record pointed.

### Connection: `joker/exchange/client.go`, `router.go`, `internal/kafka`, `joker/relay`

One connection.  `reader` is `ReadPump` with the handler it is in (read,
produce, answer, done), `writer` is `WritePump` (wait, packet, done), `chan` the
channel Send, `got` the packets on the socket.  `CleanIdle` and `CleanRemove`
are the two halves of the idle sweep, `GetClient` and `EnqueueMessage` those of a
relay call, so that one half of each may come between those of the other.
Presence has the table and the records of all connections; here `manager.entry`
says only whether the user's entry is this connection.

### Conversations, Friends, History: `database/`, `server/api/`, `web/app.js`

* `Conversations` has the statements of `EnsureSingle` one by one, for gateways
  and the worker: the SELECT ... FOR UPDATE that locks nothing when there is no
  row, the INSERT that meets the unique key.
* `Friends` has the statements of `Create` and `Delete` one by one, with the row
  that makes a statement wait and the deadlock of two users who name each
  other.
* `History` is the counter and the rows of one conversation, pages of
  `ListAfter`, and what `app.js` does: a push above `lastSeq + 1` starts a pull
  with the cursor before it, a reconnection another.  A first push sets
  `lastSeq` without a pull, so what is below it (`first`) is shown only when the
  conversation is opened and outside of the properties.

### Push, Likes, Registry, Snowflake

* `Push`: `waiting`, `devices` and `hourly` are the maps of the worker; `Tick` is
  its timer, `FlushDue` one user of a pass.
* `Likes`: the toggle is two statements (INSERT, then DELETE when there was a
  row); the recount is the list of touched posts and then the two counts.
* `Registry`: `reg[s]` is `ServiceRegister.Run` with the lease in hand and the
  one of its field; `gateway` is the list, the gap before the watch, the watch
  and the copy logins use.
* `Snowflake`: the three branches of `Next`, a clock that is set back, restarts
  with an empty state.

`MCServices` puts these seven and `Connection` side by side for TLC.  They share
no variable; `turn` chooses one in the initial state, so the states are a sum and
not a product.

## 4. The runs

| Run | Question | Answer |
|---|---|---|
| `persist_exclusive` | One worker, crashes and a failing lookup, single chats or a group with its prewritten events, a record that fails for ever: are histories whole, do pushes agree with rows, is everything behind the offset done, is `MessageLog` implemented? | yes; only a message whose own lookup failed may be missing |
| `persist_race` | Two workers, two partitions for one conversation, a rebalance and a crash: are seqs unique, is nothing committed unstored, does every record get its turn? | yes |
| `presence_safety` | Three connections over two servers that overtake each other, with idle and ghost sweeps: does the record follow the newest connection, and who removes it? | it does; only the server it names |
| `presence_live` | Does a closed connection leave the table, even when its end is handled first? | yes, by the idle sweep |
| `presence_ghosts` | Do the records of a dead server go, page by page, with failures? | yes |
| `deliver_batch` | Stale cache, lost call, failed lookup, restart of the worker, a receiver who comes and goes in two halves each: answers, acks, order for who stays | all hold |
| `deliver_live` | The same with a server that crashes: is every push committed? | yes |
| `group_manage` | Two management requests against the worker, with a deadlock and a failure | all hold |
| `feed_live` | A lost event, a failure or a crash of the fan-out, a new or an ended friendship between any two queries: do inboxes get the posts of small authors, and does the first page miss a newer post of who was a friend at the query of friends? | they do unless `Handle` failed; it misses none |
| `ack_relay` | Two servers share the acks of a sender who comes and goes twice, in two halves each; a failing call, lookup or commit, a crash: is what is committed handled, once, and does each partition end or lose its consumer? | yes, or record and table disagreed |
| `services` | Eight machines beside the pipeline, each with its failures, restarts and races (below) | all hold |
| `friends_oneway` | Can a creation and a deletion of one friendship leave one row of the two, which `friend.go:23` excludes? | yes, at READ COMMITTED |

What `services` asks:

| Module | Invariants | Temporal | Question |
|---|---|---|---|
| `Push` | `BadgeIsReal`, `HourlyLimit` in `Bounded` | `MergedIsTold` | is a badge made of notifications that came, no more sends in an hour than allowed, and does what was merged get sent? |
| `Likes` | | `ActionsAreCounted` | does a like or comment get into the counters when the worker runs while it is recent? |
| `Friends` | `FriendsAgree` in `CopiesAgree` | `FriendRequestsEnd` in `CallsEnd` | do both rows agree when no creation crosses a deletion; do deadlocks end? |
| `Snowflake` | `UniqueButAfterWait`, `IdsDoNotFall` in `IdsInOrder` | | are ids different and rising, apart from the branch of a short wait? |
| `Registry` | `RunningHasKey`, `ListIsKeys` in `CopiesAgree` | `SinkConverges` | is a lease lost under a running process repaired; does the gateway's list follow the keys its watch saw? |
| `Conversations` | `AnswersAgree` in `CopiesAgree` | `WorkerGetsIt` in `CallsEnd` | do all callers get one conversation, the worker always, after redelivery? |
| `History` | `GapsAreCovered` in `CopiesAgree` | `GapsAreFilled` | does no page skip a number that appears later; is a gap a push has shown filled, unless a pull failed? |
| `Connection` | `AcceptedIsProduced` | `DeliveredIsWritten`, `BrokenEnds` | can a client tell by counting which message was accepted; is a delivered push written without waiting for the next; does a broken connection end although its reader waits for room? |

Several invariants are conjunctions of named parts, each defined and explained
where its component is: `HistoryIsSound` (`NoHole`, `LastSeqIsNewest`,
`UnknownUserNeverStored`), `CommittedHistory` (`NoHole`, `CommittedIsDone`),
`TablesAgree` (`TypeOK`, `RecordHasEntry`), `AnswersAreTrue` (`TypeOK`,
`AckedWasEnqueued`, `OfflineIsNotified`), `MembershipAgrees` (`TypeOK`,
`EventsTellMembers`, `ReadersAreMembers`), `AcksComeOnce` (`TypeOK`,
`HandledOnce`) and, in `MCServices`, `Bounded` (the type invariants of the eight
modules, `BadgeIsReal`, `HourlyLimit`), `CopiesAgree` and `CallsEnd`.  TLC names the conjunction;
the state it prints shows the part.

Configurations that no run lists are kept because each reproduces a further
divergence between the code and its documents; each ends with a
counterexample to the one property it checks:

| Configuration | Property | What it shows |
|---|---|---|
| `MCPersist_hole` | `NoHole` | the same message through both partitions: the batch path numbers a row that ON CONFLICT then skips |
| `MCPersist_reorder` | `FirstPushesInOrder` | a new message is pushed before an older replayed one of its batch |
| `MCPersist_outsider` | `OnlyMembersStored` | the batch path stores a message of a sender who is not a member |
| `MCPersist_lost` | `NothingIsSkipped` | a failing user lookup is taken for a missing user; the message is skipped |
| `MCPersist_self` | `EventuallyCommitted` | a message of a user to himself is refused but not marked poison: its partition stops for ever |
| `MCPresence_repeat` | `RepeatIsHarmless` | removing a connection twice removes the user's newer one (`manager.go:67` says it is harmless) |
| `MCPresence_late` | `DriftProtected` | a late Register overwrites the record of a newer connection |
| `MCPresence_lease` | `OnlyOwnerRemoves` | a lease lost for a moment costs connected users their records |
| `MCPresence_restart` | `CutConnectionsGo` | a server that restarts at its address keeps its ghosts |
| `MCDeliver_window` | `CorrectedAtOnce` | `docs/architecture-decisions.md:111` says that `not_found` is corrected at once by a look at the record. One user disconnects and nothing else is amiss: between the two halves of his `Unregister` (`manager.go:69`, `:74`) the relay answers `not_found`, the forced look finds the same record, the second relay answers `not_found` too, and `deliver.go:441` lets the push be committed without ack, notify or a full channel |
| `MCGroup_last` | `DismissIsLast` | a quit or a validated text is stored after the event of the dismissal |
| `MCGroup_count` | `CountIsRight` | two quits, or a kick and a quit, leave member_count too high |
| `MCFeed_pages` | `PagesDoNotOverlap` | an inbox row has the second of its post only, so the last post of a page, before its own cursor, comes again |
| `MCAck_stuck` | `AcksGoOn` | one failed forward ends a server's consumer; its partitions stand still while the server lives |

Seven more need a line or two changed:

| Configuration | Changed lines | What it shows |
|---|---|---|
| `MCPersist_hole` | `INVARIANT PushedAsStored` | the push of the losing worker carries a number no row has |
| `MCDeliver_window` | `INVARIANT SeenInOrder`, `MaxMove = 2` | a user who moves gets the first push again after the second (`deliver.go:205` keeps the order) |
| `MCDeliver_window` | `INVARIANT AllAnswered`, `MaxMove = 0`, `MaxRoute = 1` | a push whose lookup failed is committed unanswered |
| `MCDeliver_window` | `INVARIANT AllAnswered`, `MaxMove = 0`, `MaxDown = 1` | so is one whose server died |
| `MCGroup_last` | `INVARIANT StoredIsPushed` | a text stored before a crash is poison after the dismissal: stored, never pushed |
| `MCFeed_pages` | `PROPERTY FailedIsRetried`, `MaxPage = 0`, `MaxFail = 1` | the next record's commit passes the offset of a failed one |
| `MCFeed_pages` | `INVARIANT PagesCoverAll`, `MaxPost = 3`, `Limit = 2` | pulling takes no cursor: the reader's own posts end with the first page |

Ten more of the services need no file of their own either: take `MCServices_friends.cfg`,
change its `Turns` and the bounds named here, and put the property in the place of
`NoOneWayFriends` (under `PROPERTY` for the temporal ones: `NothingForgotten`,
`CountersConverge`, `ListConverges`, `NothingIsMissed`, `ReplacedEnds`).  TLC finds
each violated:

| Changed constants | Property | What it shows |
|---|---|---|
| `Turns = {"push"}` | `NothingForgotten` | a notification merged into a window is forgotten when the next comes after it |
| `Turns = {"likes"}` | `CountersConverge` | a like taken back leaves no row that the recount would find |
| `Turns = {"ids"}` | `IdsAreUnique` | after a clock that was back by at most 2 ms the last id is given again |
| `Turns = {"registry"}` | `ListConverges` | what changes between the list and the watch is never seen |
| `Turns = {"conversations"}` | `EnsureSucceeds` | the later of two first openings fails on the unique key, `conversation.go:88` says it does not |
| `Turns = {"history"}` | `NothingIsMissed` | a failed pull, a short page, or an own message over a gap leaves messages nothing asks for again |
| `Turns = {"connection"}`, `MaxFrame = 3`, `MaxPush = 2` | `RelayAnswers` | the sweep closes the channel of a connection a relay call holds; the send panics, nothing recovers, the chat server dies |
| `Turns = {"connection"}`, `MaxFrame = 3`, `MaxPush = 2` | `PacketsAreFrames` | piled-up frames are joined by newlines into one packet, which `app.js:161` parses as one frame and drops |
| `Turns = {"connection"}`, `MaxFrame = 3`, `MaxPush = 2` | `NoJump` | a full channel drops one push and takes the next (`T01-bugfix.md:32`: it is kicked, it does not jump) |
| `Turns = {"connection"}`, `MaxFrame = 3`, `MaxPush = 2`, `Reconnects = TRUE` | `ReplacedEnds` | a connection that was replaced in the table is not swept: its read pump may wait for room for ever (`client.go:57` relies on the sweep) |

### Bounds

* Two workers and two partitions are the fewest that race; three records per
  partition and batches of up to three put a replay, a repeat and a new message
  into one batch.  In `persist_exclusive` a behaviour has single messages of every
  kind, or a text and an event of a group beside a message that blocks the partition
  (the constraint `SinglesOrGroup`); the lookup may fail for one of the messages.
  `MaxCrash = 1`: a crash leaves only what is stored and the
  offset, so what follows it is a first run from a reachable state; a second
  crash begins from such a state again.
* Presence: drift needs an old and a new connection, the third shows an old end
  handled after two successors.  Two users and pages of one record make the
  cursor cross a page boundary.
* Deliver: order takes two pushes of one receiver; a channel of one frame fills
  with the first.  Two events (`MaxMove = 2`) are a move: the new server registers,
  the old one unregisters, each second half late, failed or overtaken by the other.
  A lost call, a failed lookup and a restart once each, all together; the crash of
  a server is in `deliver_live`, beside all of them and one event.
* Group: two requests in progress, beside the worker; the limit of three is
  reached by one addition and exceeded by the next; `MaxOps = 2` after the
  creation.  A kick and a quit of one member are the shortest deadlock.
* Feed: three users, one with two friends once he has a new one, which makes him
  big (`BigV = 1`) when it comes before the post and gives two batches
  (`Batch = 1`) when it comes after.  Two posts in two ticks of a second, pages of
  one.  A lost event, a failure or a crash, one of them.
* Ack: two servers, and two acks of one sender, who is local to one and remote to
  the other; two events as above, a failing call, a failing lookup or commit and a
  crash, all together.  Batches have one ack, so the two of the second lookup never
  share a list; with `BatchMax = 2`, `MaxLook = 0` and without the temporal property
  TLC takes longer and finds no error either, and the proofs are for any batch.
* The two servers are alike.  `FromS1` of `MCAck` and of `MCDeliver` therefore fixes
  which of them has the partition, or the receiver, in the first state.
* Services: two devices and four notifications let a window close with one, two
  or none waiting; two readers and four actions over two periods; four requests of
  two users, two of them deletions; one generator that is set back or restarted
  once, sequences of two; two services and one failure of etcd; two callers and
  the worker for one pair; two writers, numbers to three and pages of one, so a
  pull may need a second page; a channel of one, two frames, one push
  (`NoJump` needs two), which is enough to fill the channel and wait.

CHECK_DEADLOCK is off everywhere: when every bounded input is used up and every
offset is committed, the program waits for more.

### Fairness

A property "P leads to not P or Q" is written `[]<>(P => Q)`: the two are
equivalent, and TLC checks the second with a smaller tableau.

* Persist: `WF` on each worker.  `Run` ends with an error only to be restarted
  by the deployment (systemd `Restart`, compose `restart`), and every statement
  has a deadline.  Producers, rebalances and crashes have no fairness.
* Presence: weak fairness for pumps and kv statements; strong fairness for the
  three cases of the event loop, since Go's `select` chooses at random among
  those that are ready; the lease of a dead server runs out, a running one
  registers again (`ServiceRegister.Run` retries), the ghost worker passes every
  interval.
* Deliver: `WF` on the loop and on each goroutine; calls have deadlines.
* Group: `WF` on each request and on the worker; lock waits end because the
  holder's next step is always enabled or is a detected deadlock.
* Ack: `WF` on each consumer, the consumer group and the restart of a server.
* Services: the timers and loops of the workers, the statements of a request that
  has begun, leases that run out, redelivery to the worker, the answer of a pull
  (`Fairness` in `MCServices`).  Of a connection: both pumps and the event loop,
  and the passing of time for a client that is away or whose socket is closed.
* Feed: `WF` on the worker, which `fanoutAction` ends with an error for the
  deployment to restart it.

## 5. The proofs

`PersistProofs` has no assumption beyond `ConstantsAssumption`: any numbers of
workers, partitions, conversations and messages, any routes, any bounds.  (One of
its conjuncts is about the gateways: an event has nothing that could be wrong with
it, since `database/group.go` checks before it inserts the row.)

* `TypeCorrect`: `Spec => []TypeOK`.  Besides the types it says that every index
  an iteration has queued is an index of its batch, which is what makes the
  record accesses of the other properties meaningful.
* `SeqsAreUnique`: `Spec => []UniqueSeq`.  `UniqueSeq` is not inductive: a
  commit inserts numbers that were chosen two steps before, while gateways and
  other workers go on.  `SeqInv` adds four conjuncts:
  `PlansAreLocked` (who assigns has the lock of every conversation it plans
  for), `LocksAreAssigning` (a lock is held only by a transaction between its
  UPSERT and its end), `NumbersAreLocked` (a number not yet stored belongs to
  the holder of the lock and lies above the committed counter),
  `NumbersAreDistinct` (no two messages of a conversation have the same in one
  transaction).  The proof has a lemma per group of actions: those that leave
  numbers alone (`SameSeq`, `OutsideSeq`), roll back (`AbortSeq`), lock
  (`NextSeqSeq`), number (`AssignSeq`), commit (`InsertSeq`) and the environment
  (`EnvironmentSeq`, with the gateway's `Prewrite`).

`PersistHistoryProofs` continues it with two invariants, and with one hypothesis
that its theorems name where they need it.

* `OneWriter` is the condition under which one worker at a time sees a
  conversation: no partition moves, and the two keys of a single chat (the pair of
  users before it has a conversation, the `conv_id` after that) hash to one
  partition.  Groups have one key, so nothing is asked of them.  The code does not
  enforce either half, and neither can be dropped: `MCPersist_hole` has a hole with
  the keys in two partitions, and has one also with `Partition = {p1}`,
  `Route <- OneRoute` and `MaxRebalance = 1`.  In both, a worker selects a message
  as not stored, the other stores it, and `INSERT ... DO NOTHING` (persist.go:416)
  leaves the number of the first unused and its push wrong.  Any number of workers
  may share the partitions, and crashes, failed queries and failed flushes are as
  everywhere.
* `HistInvariant`: `OneWriter => (Spec => []HistInv)`.  `Home(m)` is the one worker
  that ever has m in a batch (`ItemsOK`); what it has planned or numbered has no row
  yet and is planned once (`PlanOK`, `Fit`); the numbers of a transaction fill the
  gap between the committed counter and the one it will commit (`NumbersOK`), which
  is what makes the COMMIT leave no hole; pushes carry the number of a row, those
  that wait for the COMMIT the number they wait for (`QueuesOK`).
* `HistoryStaysSound`, `PushesAgree`: `[]HistoryIsSound` and `[]PushedAsStored`, from
  `HistInv` and `SeqInv`.
* `HistoriesOnlyGrow`: `Spec => ImplementsMessageLog`, the refinement.  A step keeps
  the rows there are and moves no counter back (`RowsStay`, which needs no
  hypothesis); with no hole, what `StoredAt` chooses is the one row with that seq
  (`RowsAreReadable`), so the histories before a step are prefixes of those after.
* `DoneInvariant`: `Spec => []DoneInv`.  `Ahead(r)` is the set of indexes of a batch
  that the steps still to come look at; `BatchOK` says that each record is handled or
  has another record of the same message ahead, so that what is left at the commit,
  where nothing is ahead, is handled.  `BatchPlanned` and `OnePlanned` say the same of
  a transaction under way, `TakenOK` that a batch is what follows the committed
  offsets unless its partition was taken away.  `LookupsFail` are the messages at
  whose check `users.Get` may fail; they may be missing themselves
  (`MCPersist_lost`), and take no other message with them.
* `NothingIsLeftBehind`: `[]CommittedIsStored`, for any routes and rebalances.
  `WhatIsCommittedIsDone`: `[]CommittedHistory`, under `OneWriter`, since a push with
  the wrong seq is no push of the row.
* One lemma per action says what the action does to the fields of the iteration
  (`FetchDoes` ... `FlushDoes`); the invariance lemmas (`...History`, `...Done`) use
  these and never expand an action twice.

`SnowflakeProofs` assumes `SnowflakeAssumption`, a sequence of at least one number
and bounds that are numbers: any gateways, clocks, patience.

* `IdsRise`: `SnowSpec => []IdsInOrder`.  The order of the ids speaks of all pairs
  that were returned, the code only knows its last one; `SnowInv` adds what ties
  the two together.  `BelowLast`: ids of this life are not above `last`, and not
  above `seq` in its millisecond, except while a call sleeps with the sequence
  already at 0.  `BelowClock`: ids since the clock was last set back are not later
  than it, and those of an earlier life are strictly earlier, since a restart
  takes a millisecond.  `Past`: no id comes from a later life.  Every branch of
  `Next` that returns is an instance of one lemma, `IssueInv`; the calls that wait
  are `WaitInv`, clocks and restarts `HostInv`.

`GroupProofs` assumes `GroupAssumption`: finitely many users, any number of
requests in progress, any limit, texts and bounds.

* `MembersAgree`, `StoredTextsWereAllowed`, `LeaversGetNoPush` and
  `AdditionsStayBelowLimit` (`Spec => []` of `MembershipAgrees`,
  `StoredWasAllowed`, `LeaversAreSpared`; and the action property `LimitHolds`)
  follow from one invariant, `GroupInv`.  `RequestOK`: a request between its last
  read and its commit has planned its rows from the members there are now, since
  it alone holds the row of the group (`LockIsExclusive`).  A quit holds only the
  member's row until it waits for the group's; a kick of that member then
  deadlocks, and no plan is stale.  `HistoryOK`: there is one dismissal and nobody
  joins after it, so members the worker reads in a living group were members at a
  moment when it lived.  `TopicOK`: a record names a history no longer than the
  present one.  `WorkerOK`: what the worker found between two of its reads holds
  of some moment after the record was sent; the history only grows, so that moment
  stays.
* The lemmas `PastStays` and `EntryAdded` say what a new entry of the history does
  to "member after entry n"; every action is an instance of them.

`PresenceProofs` assumes `PresenceAssumption`: finitely many users, any servers, any
number of connections, any page size.

* `TypeCorrect`: `Spec => []TypeOK`.  A page of the ghost worker is picked by "the
  user with k - 1 listed users below"; that there is one is `NthNumber`, which rests
  on `LeastNumber`, the least element of a set of numbers (`WFMin` of
  `WellFoundedInduction`).
* `OwnersRemove`: `LeasesHold => (Spec => OnlyOwnerRemoves)`; `LeasesHold` is an
  `Adversity` without `lease` and `restart`.  The invariant is `RunningAreKnown`:
  every running server is listed by etcd, and is in the snapshot of a pass under way.
* `RecordsAreBacked`: `TablesAgree`, without restarts and failed statements.  `EntryInv` ties
  the statement of an event loop to its table: a server that is about to write a
  record has the entry.
* `NewestIsOnline`: `OnlineFollowsNewest`, without lost leases, restarts and failed
  statements.  `DriftInv` says of a user who waits for his connection to be
  registered before he opens the next: events of older connections in any channel
  concern another server or are harmless (`OthersSettled`); the connections of one
  server are settled in order (`OwnConnections`); the newest connection has its
  record, its entry, or its Register still to come (`NewestHasRecord`).
* Each hypothesis is needed: `MCPresence_lease`, `MCPresence_restart`,
  `MCPresence_late` show the counterexample when it is dropped.

`AckProofs` assumes `AckAssumption`: any senders and servers, any number of
partitions with any acks, any bounds.

* `TypeCorrect`: `Spec => []TypeOK`, with the shape an iteration has at each place
  of the code: which lists it has, and that an ack is in one of them at most.
* `AcksOnce`: `Spec => []AcksComeOnce`.  `Held(i)` is what an iteration still has to
  do: the acks in its lists but those that were answered.  `OnceInv` says, while no
  server has died, that one member reads a partition up to `pos`, that what a member
  holds it fetched itself and no channel has it (`BatchOK`), and that what channels
  have lies below `pos` (`PutOK`).  Every step either offers one ack it holds, which
  it then holds no more, or leaves the channels alone and holds no more than before
  (`HeldMoves`); a fetched batch lies above all channels (`FetchOnce`).  The crash
  is excluded by the property itself: it hands a batch to another member.
* `CommittedAcksWereHandled`: `Spec => []CommittedIsHandled`, over crashes and
  rebalances.  Every ack below a read position was handled or its sender's record
  has changed too often (`Accounted`), or the member that fetched it holds it, or
  that member has ended (`FetchedOK`, `HoldsRest`); what is left when nothing is
  held, at the commit, is accounted for.  An ack leaves `Held` in no other way
  (`HeldGoes`) because of `ListsOK`: an ack in the list of server `c` was sorted by
  the record, so the record still says `c` or has changed (`LookedUp`); one in a
  list of the retry was not found before, so it is in `missed` or the record has
  changed by then (`NotThere`), and a second change is not `Settled`.  Table and
  record need not agree for this: an ack that meets a record without a connection is
  `missed` in that very step.  A failing call is harmless in `forward`, where it
  ends the consumer, but not in the retry, which takes a sender whose record has
  changed: hence the condition of `Settled` that the two do not come together.
* `HandledInv` is what the steps of one server keep (`ListsStep`, `HandledServe`,
  `HandledFetch`), and what others leave of it (`Aside`: a record changes once at
  most, lists stay, or are gone with their server).

`DeliverProofs` assumes `DeliverAssumption`: any receivers, servers and pushes, any
batches and channels, any number of attempts, any bounds on what goes wrong.

* `TypeCorrect`: `Spec => []TypeOK`, with what a goroutine and the batch have at each
  place of the code (`GoroutineOK`, `WorkerOK`).
* `RoutesOK`, on which the others rest, relates cache and goroutines to the number of
  changes of a record, and does not take record and table to agree while somebody
  moves.  While a record has not changed, the cache is it (`CacheOK`); a first
  lookup has found it unless it has changed; after a `not_found` of a push that was
  not missed it has changed, and the second lookup has found the new value unless it
  has changed once more (`SingleOK`).  Without moves and crashes of servers records
  are the tables (`RecordsOK`), which `AnswersStayTrue` and `SteadyInOrder` need.
* `CommittedWereAnswered`: `Spec => []CommittedIsAnswered`.  `FetchedOK`: every push of
  the batch is answered, missed or its receiver's record has changed twice, or the
  worker still has it, in a queue, in the list of a goroutine or as the one under
  way; at the commit it has none.  A push never leaves a goroutine otherwise
  (`HasGoes`): not found twice means that the record has changed twice or the push
  was missed (`NotFoundTwice`), and attempts outnumber lost calls (`NeverGivesUp`).
  That is a condition of the property: `deliverWithRetry` drops a push after three
  failed attempts and the batch is committed all the same.
* `AnswersStayTrue`: `Spec => []AnswersAreTrue`.  `AcksOK`: what is in the ack queue, or
  answered `delivered` in the batch call under way, was put into a channel, where it
  stays until it is written (`EnqueuedStays`).  `NotifiesOK` says the same of the
  offline queue, and that no push of somebody away is anywhere else.
* `SteadyInOrder`: `Spec => []SteadySeenInOrder`.  The order of first sight is not
  inductive.  `OrderOK` says of what is in a channel that all earlier pushes of the
  receiver were seen or lie before it (`Stream`), and that a push of the batch was put
  into a channel or waits in the lists of the one goroutine that serves its receiver.
  A push is offered only when it is the least that waits there, so all earlier ones
  are in the channel (`OffersInOrder`); a redelivered one goes behind its first copy
  and is not seen a second time.

`ServicesProofs` assumes what `Push`, `Likes`, `Friends`, `Snowflake`, `Registry`,
`Conversations`, `History` and `Connection` assume of their constants: any devices and
notifications, any finite set of readers, any two users' requests, any services,
callers, writers, messages and bounds.  (`Likes` has finitely many readers, since a
counter is a number.)  Every machine has its own invariant, a lemma for each action
and, where it has an invariant to show, a theorem on its own; `ServicesInv` is the
conjunction of all eight.

* `ServicesAreBounded`: `Spec => []Bounded`.  `PushInv`: `HourlyLimit` counts the pushes
  of an hour over restarts, the worker only those of its life, so `CountedPushes`
  bounds the former by the latter and `HourMax` for each life that is over.  That a
  badge is real needs `AgainAfresh`: a notification that is taken again after a crash
  meets a device without a badge, and `TakenOnly`: what waits is not beyond the next
  offset.  `LikesInv`: a recount counts a set of readers, so it is no more than there
  are, and a like between its two statements came with a request.
  `ConnectionInv`: Send is not over its capacity, the place of each pump fits the
  frame or packet it has, and a relay call holds a connection only for a push there is.
* `WhatIsCopiedAgrees`: `Spec => []CopiesAgree`.
  * `FriendsInv`: `FriendsAgree` compares the two rows of a pair when no request is
    between them.  `HolderOK` says whose uncommitted change a row carries, `HandledOK`
    that a row a request is through with is as it wants it or is held by it; while all
    requests are of one kind (`OneKind`) no other can undo that.
  * `RegistryInv`: the list of a gateway lags behind the keys by the events that wait.
    `Followed` says that the last event that waits for a service tells whether it has
    a key, and the list does where none waits; `LeaseOK` that the key of a lease that
    is kept alive is attached to that lease, and no lease is above the last granted.
  * `ConvInv`: a call that has inserted and not committed is the only one for its
    pair and its id (`HasNew`), one that has found a row, or committed its own, names
    the row of its pair (`HasConv`); after a COMMIT whose answer was lost it is one of
    the two.  The unique key does the rest.
  * `HistoryInv`: the rows are numbered from 1 without a gap and the one being written
    has the next number (`WritersOK`, which is where the lock of the counter matters),
    so a page is the messages after its cursor up to some point (`PullOK`) and skips
    nothing that appears later.

Only model-checked:

* Liveness (`EventuallyCommitted`, `ClosedLeavesTable`, `GhostsGo`, `EndIsTold`,
  `RequestsEnd`, `ReachesFriends`, `ConsumedOrStuck` and those of `MCServices`), since
  the prover has neither fairness nor ENABLED.
* `AcceptedIsProduced`: it numbers the replies among all that was written, waits in the
  write pump or is in the channel.  That is `SelectSeq` of a `FlattenSeq`, and what a
  recursive function or a fold computes for every input is out of the prover's reach.
* The invariant and the properties of `Feed`: that a page is a sequence of posts at all
  rests on `SetToSortSeq`, of which the same is true.

## 6. What is not modelled

* Registration, login, tokens and the read of users: single statements on rows
  that are unique and never change.  `CreateSingle`, `AddMembers` of conversations,
  `NextSeq` and `ListAfterForGroup` (the join window of group histories) have no
  caller; `SoftDeletePost` has none either.
* Left out: frame formats and their checks, tokens, translations, HTTP plumbing,
  configuration, commands, load generators, drills, generated protobuf code.
  None of them keeps state that another part reads.
* `Broadcast` of the manager, which nothing sends to; the pools of gRPC
  connections, which change no outcome.
* A panic of a relay call on a closed channel is in `Connection` only: Presence and
  Deliver take a server's death as a crash at any time, which includes it.
* Which check a frame fails; the forms and pages of the web client.
* Creating topics, the listeners and the order of the start of a chat server.
