----------------------------- MODULE MCPublisher -----------------------------
\* Publisher on a small instance.
EXTENDS Publisher, TLC

Symmetry == Permutations(Calls) \cup Permutations(Chans)
=============================================================================
