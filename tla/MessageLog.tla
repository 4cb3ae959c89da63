----------------------------- MODULE MessageLog -----------------------------
(***************************************************************************)
(* What the message store promises to everyone who reads it: every         *)
(* conversation is a history that only ever grows at its end, in which a   *)
(* message occurs at most once and has its position as its seq.  A client  *)
(* that has read the history up to seq n therefore misses nothing when it  *)
(* asks for the messages after n (database/message.go ListAfter).          *)
(*                                                                         *)
(* Persist implements this specification through one PostgreSQL            *)
(* transaction per message or per batch of messages.                       *)
(***************************************************************************)
EXTENDS Naturals, Sequences

CONSTANTS Conv,    \* the conversations, single chats and groups
          Msg,     \* the messages, a message being what has one msg_id
          ConvOf   \* the conversation a message belongs to

VARIABLE history   \* history[c][n] is the message of c whose seq is n

Init == history = [c \in Conv |-> <<>>]

(***************************************************************************)
(* h is a history of conversation c: only messages of c, none twice.       *)
(***************************************************************************)
IsHistory(h, c) ==
  /\ h \in Seq({m \in Msg : ConvOf[m] = c})
  /\ \A i, j \in DOMAIN h : h[i] = h[j] => i = j

Extends(g, h) ==
  /\ Len(h) <= Len(g)
  /\ \A i \in DOMAIN h : g[i] = h[i]

(***************************************************************************)
(* One commit appends new messages to one or more conversations.           *)
(***************************************************************************)
Publish ==
  /\ DOMAIN history' = Conv
  /\ \A c \in Conv : /\ IsHistory(history'[c], c)
                     /\ Extends(history'[c], history[c])

Spec == Init /\ [][Publish]_history
=============================================================================
