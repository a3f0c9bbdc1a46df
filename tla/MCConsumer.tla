----------------------------- MODULE MCConsumer -----------------------------
\* Consumer on a small instance.
EXTENDS Consumer, TLC

Symmetry == Permutations(Callers) \cup Permutations(Tags) \cup Permutations(Chans)
=============================================================================
