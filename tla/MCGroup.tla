------------------------------- MODULE MCGroup -------------------------------
(***************************************************************************)
(* Small instances of Group: the owner o, the member a, the strangers b    *)
(* and c, and messages that are valid and not.                             *)
(***************************************************************************)
EXTENDS Group

CONSTANTS o, a, b, c

Naming(u, us) == [by |-> u, mentions |-> us, all |-> FALSE]
Calling(u)    == [by |-> u, mentions |-> {}, all |-> TRUE]

Request(op, u, us) == [op |-> op, by |-> u, who |-> us]

Asks == {Request("create", o, {o, a}), Request("add", o, {a, b}), Request("add", o, {c}),
         Request("kick", o, {a}), Request("quit", a, {a}), Request("dismiss", o, {})}

\* Without the creator who names himself, who is counted twice at once.
OldMembers == {q \in Asks : ~(q.op = "create" /\ Owner \in q.who)} \cup {Request("create", o, {a})}

Texts == {Naming(a, {o}), Calling(a)}
=============================================================================
