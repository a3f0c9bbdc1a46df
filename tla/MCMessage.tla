----------------------------- MODULE MCMessage -----------------------------
(* Small instances of Message for TLC. *)
EXTENDS Message, TLC

Symmetry == Permutations(Jobs)
=============================================================================
