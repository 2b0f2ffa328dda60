---------------------------- MODULE MCHttpCache ----------------------------
EXTENDS HttpCache, TLC

\* Transactions are interchangeable.
Symmetry == Permutations(Trans)
=============================================================================
