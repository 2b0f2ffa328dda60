---------------------------- MODULE MCEventWatcher ----------------------------
(* Small instances of EventWatcher.                                        *)
EXTENDS EventWatcher, TLC

\* One event of each kind.
Second == {2}

\* Addresses and watchers are interchangeable.
Symmetry == Permutations(Flags) \cup Permutations(Addrs) \cup Permutations(Watchers)

=============================================================================
