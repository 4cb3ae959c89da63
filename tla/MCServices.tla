----------------------------- MODULE MCServices -----------------------------
(***************************************************************************)
(* The services that share no state with each other or with the pipeline,  *)
(* for TLC.  A behaviour is one of a single machine, which `turn` names;   *)
(* the others stay as they are.                                            *)
(***************************************************************************)
EXTENDS Push, Likes, Friends, Snowflake, Registry, Conversations, History, Connection

CONSTANT Turns    \* the machines to check
VARIABLE turn

vars == <<turn, pushVars, likesVars, friendsVars, snowVars, registryVars, convVars, historyVars, connectionVars>>

Init ==
  /\ turn \in Turns
  /\ PushInit /\ LikesInit /\ SnowInit /\ RegistryInit /\ ConvInit /\ HistoryInit /\ ConnectionInit
  /\ FriendsInit /\ (turn = "friends" \/ friends = {})

Next ==
  \/ /\ turn = "push" /\ PushNext
     /\ UNCHANGED <<turn, likesVars, friendsVars, snowVars, registryVars, convVars, historyVars, connectionVars>>
  \/ /\ turn = "likes" /\ LikesNext
     /\ UNCHANGED <<turn, pushVars, friendsVars, snowVars, registryVars, convVars, historyVars, connectionVars>>
  \/ /\ turn = "friends" /\ FriendsNext
     /\ UNCHANGED <<turn, pushVars, likesVars, snowVars, registryVars, convVars, historyVars, connectionVars>>
  \/ /\ turn = "ids" /\ SnowNext
     /\ UNCHANGED <<turn, pushVars, likesVars, friendsVars, registryVars, convVars, historyVars, connectionVars>>
  \/ /\ turn = "registry" /\ RegistryNext
     /\ UNCHANGED <<turn, pushVars, likesVars, friendsVars, snowVars, convVars, historyVars, connectionVars>>
  \/ /\ turn = "conversations" /\ ConvNext
     /\ UNCHANGED <<turn, pushVars, likesVars, friendsVars, snowVars, registryVars, historyVars, connectionVars>>
  \/ /\ turn = "history" /\ HistoryNext
     /\ UNCHANGED <<turn, pushVars, likesVars, friendsVars, snowVars, registryVars, convVars, connectionVars>>
  \/ /\ turn = "connection" /\ ConnectionNext
     /\ UNCHANGED <<turn, pushVars, likesVars, friendsVars, snowVars, registryVars, convVars, historyVars>>

(***************************************************************************)
(* What goes on by itself: the loops of the workers and their timers, the  *)
(* statements of a request that has begun, leases that run out, and the    *)
(* redelivery by Kafka.  Not: requests, failures, crashes.                 *)
(***************************************************************************)
Fairness ==
  /\ WF_pushVars(turn = "push" /\ PushRun)
  /\ WF_pushVars(turn = "push" /\ Tick)
  /\ WF_pushVars(turn = "push" /\ HourTurns)
  /\ \A d \in Device : WF_pushVars(turn = "push" /\ FlushDue(d))
  /\ WF_likesVars(turn = "likes" /\ RunCounters)
  /\ \A u \in Reader : WF_likesVars(turn = "likes" /\ ToggleDelete(u))
  /\ \A q \in Req : WF_friendsVars(turn = "friends" /\ HandleFriends(q))
  /\ \A s \in Service : /\ WF_registryVars(turn = "registry" /\ Register(s))
                        /\ WF_registryVars(turn = "registry" /\ Expire(s))
  /\ WF_registryVars(turn = "registry" /\ (ListServices \/ Watch))
  /\ WF_registryVars(turn = "registry" /\ ApplyEvent)
  /\ WF_registryVars(turn = "registry" /\ Refresh)
  /\ \A c \in Caller : WF_convVars(turn = "conversations" /\ HandleCall(c))
  /\ \A c \in Worker : WF_convVars(turn = "conversations" /\ (BeginCall(c) \/ Redeliver(c)))
  /\ \A after \in 0..MaxSeq : WF_historyVars(turn = "history" /\ AnswerPull(after))
  /\ WF_connectionVars(turn = "connection" /\ ReadPump)
  /\ WF_connectionVars(turn = "connection" /\ WritePump)
  /\ WF_connectionVars(turn = "connection" /\ ManagerLoop)
  /\ WF_connectionVars(turn = "connection" /\ (peer # "here" \/ ~socket) /\ GoIdle)

Spec == Init /\ [][Next]_vars /\ Fairness

-----------------------------------------------------------------------------
(***************************************************************************)
(* Every machine stays within its types and limits: the Send channel of a  *)
(* connection, the counters of a post, the pushes of an hour, and a badge  *)
(* that counts only what has arrived.                                      *)
(***************************************************************************)
Bounded ==
  /\ PushTypeOK /\ LikesTypeOK /\ FriendsTypeOK /\ SnowTypeOK
  /\ RegistryTypeOK /\ ConvTypeOK /\ HistoryTypeOK /\ ConnectionTypeOK
  /\ BadgeIsReal
  /\ HourlyLimit

(***************************************************************************)
(* What is written in two places, or told to two callers, is the same      *)
(* there: the two rows of a friendship, a service and its key, the keys    *)
(* and a gateway's list, the conversation of a pair and the answers to     *)
(* both, and the history and what a client has or asks for.                *)
(***************************************************************************)
CopiesAgree ==
  /\ FriendsAgree
  /\ RunningHasKey
  /\ ListIsKeys
  /\ AnswersAgree
  /\ GapsAreCovered

(***************************************************************************)
(* A call that others get in the way of ends: two requests that wait for   *)
(* rows of each other, one of which PostgreSQL fails, and the persist      *)
(* worker, which finds at its next delivery the conversation that won.     *)
(***************************************************************************)
CallsEnd == FriendRequestsEnd /\ WorkerGetsIt

-----------------------------------------------------------------------------
\* Values of the constants.
TwoDevices == <<"d", "d", "e", "d">>
Kinds == [q \in Req |-> IF q \in {"q3", "q4"} THEN "delete" ELSE "create"]
Asks == [c \in Caller |-> IF c = "g" THEN "b" ELSE "a"]
Asked == [c \in Caller |-> IF c = "g" THEN "a" ELSE "b"]
=============================================================================
