------------------------------- MODULE MCFeed -------------------------------
(* Reader r and a are friends, and a may become one of b too. *)
EXTENDS Feed

CONSTANTS r, a, b

MCUser       == {r, a, b}
MCAcquainted == {{r, a}}
=============================================================================
