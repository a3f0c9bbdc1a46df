------------------------------ MODULE MCBroker ------------------------------
(* Small instances of Broker for TLC. *)
EXTENDS Broker, TLC

Symmetry == Permutations(Callers) \cup Permutations(Conns) \cup Permutations(Chans)
=============================================================================
