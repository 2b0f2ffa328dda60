---------------------------- MODULE MCWaitableEvent ----------------------------
(* Small instances of WaitableEvent.                                       *)
EXTENDS WaitableEvent

\* WaitMany on both events, in both orders.
BothOrders == {<<1, 2>>, <<2, 1>>}

\* One event of each kind.
Second == {2}

Symmetry == Permutations(Threads)

=============================================================================
