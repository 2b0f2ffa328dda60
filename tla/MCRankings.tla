----------------------------- MODULE MCRankings -----------------------------
EXTENDS Rankings, TLC

\* The addresses of nodes are interchangeable.
Symmetry == Permutations(Nodes)
=============================================================================
