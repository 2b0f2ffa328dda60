----------------------------- MODULE MCEviction -----------------------------
EXTENDS Eviction, TLC

\* The addresses of nodes are interchangeable.
Symmetry == Permutations(Nodes)
=============================================================================
