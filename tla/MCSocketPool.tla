---------------------------- MODULE MCSocketPool ----------------------------
EXTENDS SocketPool, TLC

\* Handles are interchangeable, and so are the identities of connections.
Symmetry == Permutations(Handles) \cup Permutations(Conns)
=============================================================================
