------------------------------- MODULE LruSpec -------------------------------
(***************************************************************************)
(* What net/disk_cache/rankings.cc promises its callers: lists of entries, *)
(* most recently used first, in which an entry appears at most once.  The  *)
(* caller asks for one entry to be put at the front of a list or taken out *)
(* of it; that happens in one step, or not at all.  There are no links, no *)
(* log and no crashes here: whatever happens to the process, no entry but  *)
(* the requested one is lost, repeated or moved.                           *)
(***************************************************************************)
EXTENDS Integers, Sequences

CONSTANTS Nodes, Lists, None

VARIABLES
    lru,        \* the sequence of nodes of every list
    request     \* the node and the list of the call under way, or None

Listed(n) == \E l \in Lists : \E i \in 1..Len(lru[l]) : lru[l][i] = n

Init == lru = [l \in Lists |-> <<>>] /\ request = None

\* A call begins, goes on, or ends, also without having done anything.
Request ==
    /\ request' \in (Nodes \X Lists) \cup {None}
    /\ UNCHANGED lru

Insert(n, l) ==
    /\ request = <<n, l>> /\ ~Listed(n)
    /\ lru' = [lru EXCEPT ![l] = <<n>> \o @]
    /\ UNCHANGED request

Remove(n, l) ==
    /\ request = <<n, l>>
    /\ \E i \in 1..Len(lru[l]) :
        /\ lru[l][i] = n
        /\ lru' = [lru EXCEPT ![l] = SubSeq(@, 1, i - 1) \o SubSeq(@, i + 1, Len(@))]
    /\ UNCHANGED request

\* The files are deleted.
DeleteCache ==
    /\ lru' = [l \in Lists |-> <<>>]
    /\ request' \in (Nodes \X Lists) \cup {None}

Next == \/ Request
        \/ \E n \in Nodes, l \in Lists : Insert(n, l) \/ Remove(n, l)
        \/ DeleteCache

Spec == Init /\ [][Next]_<<lru, request>>
=============================================================================
