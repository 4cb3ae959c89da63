----------------------------- MODULE MCPresence -----------------------------
(***************************************************************************)
(* Small instances of Presence: one to three chat servers, one or two users, *)
(* up to three connections.                                                *)
(***************************************************************************)
EXTENDS Presence, TLC

CONSTANTS s1, s2, s3

ServerSymmetry == Permutations(Cs)
=============================================================================
