------------------------------ MODULE MCClients ------------------------------
\* Clients on a small instance: the broker's own publishers, one publisher of the
\* application's, and one consumer that gets its channel from that publisher.
EXTENDS Clients, TLC

CONSTANTS s1, s2, p, k

OnePublisher == k :> p
Symmetry == Permutations(Calls) \cup Permutations(Chans) \cup Permutations(Pool)
=============================================================================
