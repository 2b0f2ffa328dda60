------------------------------- MODULE Rankings -------------------------------
(***************************************************************************)
(* net/disk_cache/rankings.cc: the lists of cache entries by last use, as  *)
(* doubly linked nodes in mapped files, and the log of one operation that  *)
(* repairs them after the process died.                                    *)
(*                                                                         *)
(* What a mapped file holds survives the process, store by store and in    *)
(* the order of the stores; the rest does not.  An operation reads, and    *)
(* then makes a sequence of stores that depends only on what it read, so   *)
(* its beginning computes the sequence `stores' and every step makes one   *)
(* of them.  The process may die before each, also while it repairs.       *)
(*                                                                         *)
(* The first node of a list is its own predecessor, the last one its own   *)
(* successor; a node out of all lists has no links (Out).                  *)
(***************************************************************************)
EXTENDS Integers, Sequences, FiniteSets

CONSTANTS
    Nodes,          \* addresses of rankings nodes
    Lists,          \* numbers of the lists
    NULL,           \* the address 0
    kint32max,      \* the limit of the counters
    MaxCrashes,     \* bound on the deaths of the process
    MaxDeaths       \* the same with the deaths in a repair

ASSUME RankingsAssumption ==
    /\ NULL \notin Nodes
    /\ Lists \subseteq Nat /\ 0 \in Lists
    /\ kint32max \in Nat
    /\ MaxCrashes \in Nat /\ MaxDeaths \in Nat /\ MaxCrashes <= MaxDeaths

VARIABLES
    disk,           \* nodes, heads, tails, sizes and log in the mapped files
    heads_,         \* the copies in memory
    tails_,
    stores,         \* what the running call has still to store
    calls,          \* the running call and those that follow it
    iter,           \* the block of an enumeration, or NULL
    mode,           \* "down", "recovering", "up", "disabled"
    crashes,
    broken          \* the process died while FinishInsert had no log

vars == <<disk, heads_, tails_, stores, calls, iter, mode, crashes, broken>>

Out == [next |-> NULL, prev |-> NULL]

EmptyDisk == [node |-> [n \in Nodes |-> Out],
              head |-> [l \in Lists |-> NULL],
              tail |-> [l \in Lists |-> NULL],
              size |-> [l \in Lists |-> 0],
              log |-> [transaction |-> NULL, operation |-> "NONE",
                       operation_list |-> 0]]

-----------------------------------------------------------------------------
(* Stores.                                                                 *)

StoreOf(cell, at, value) == [cell |-> cell, at |-> at, value |-> value]

Apply(d, s) == [d EXCEPT ![s.cell][s.at] = s.value]

\* Mutant: the address is logged before what is to be done with it.
TransactionAddressFirst(n, op, l) ==
    <<StoreOf("log", "transaction", n), StoreOf("log", "operation", op),
      StoreOf("log", "operation_list", l)>>

\* The constructor of Transaction.
Transaction(n, op, l) ==
    <<StoreOf("log", "operation", op), StoreOf("log", "operation_list", l),
      StoreOf("log", "transaction", n)>>

\* The destructor of Transaction.
EndTransaction ==
    <<StoreOf("log", "transaction", NULL), StoreOf("log", "operation", "NONE"),
      StoreOf("log", "operation_list", 0)>>

Optional(cond, s) == IF cond THEN s ELSE <<>>

\* Mutant: a counter that crashed operations made too small goes below zero.
DecrementedBelowZero(l) == disk.size[l] - 1

\* IncrementCounter and DecrementCounter.  DCHECK(sizes[list] > 0) fails when the
\* process died between WriteHead and IncrementCounter of the last insertion: no
\* repair counts the node, and it is removed from a list that counts none.
Incremented(l) == IF disk.size[l] < kint32max THEN disk.size[l] + 1 ELSE disk.size[l]
Decremented(l) == IF disk.size[l] > 0 THEN disk.size[l] - 1 ELSE disk.size[l]

-----------------------------------------------------------------------------
(* Checks of what was read.                                                *)

IsHead(n) == \E l \in Lists : heads_[l] = n
IsTail(n) == \E l \in Lists : tails_[l] = n

\* SanityCheck of a node that must be in a list.
SanityCheck(n) ==
    /\ disk.node[n].next # NULL /\ disk.node[n].prev # NULL
    /\ disk.node[n].prev = n => IsHead(n)
    /\ disk.node[n].next = n => IsTail(n)

GetRanking(n) == n # NULL /\ SanityCheck(n)

\* The condition of CheckLinks for a node of list l.
LinksAgree(n, l) ==
    LET nx == disk.node[n].next
        pv == disk.node[n].prev
    IN  /\ disk.node[pv].next = n \/ heads_[l] = n
        /\ disk.node[nx].prev = n \/ tails_[l] = n

\* When they do not agree: "the list is actually ok, node is wrong".
NodeIsWrong(n) ==
    LET nx == disk.node[n].next
        pv == disk.node[n].prev
    IN  disk.node[pv].next = nx /\ disk.node[nx].prev = pv

-----------------------------------------------------------------------------
(* The stores of the operations, from what they find.                      *)

\* Insert: the old head points back to the node, then the tail of an empty
\* list, the node, the head and the counter.
InsertStores(n, l) ==
    LET h == heads_[l]
        last == tails_[l] \in {NULL, n}
    IN  Transaction(n, "INSERT", l)
        \o Optional(h # NULL, <<StoreOf("node", h, [disk.node[h] EXCEPT !.prev = n])>>)
        \o Optional(last, <<StoreOf("tail", l, n)>>)
        \o <<StoreOf("node", n, [next |-> IF last THEN n ELSE h, prev |-> n]),
             StoreOf("head", l, n),
             StoreOf("size", l, Incremented(l))>>
        \o EndTransaction

\* Which end of list l the node is.
OnlyNode(n, l) == n \in {heads_[l], tails_[l]} /\ heads_[l] = tails_[l]
FirstNode(n, l) == n = heads_[l] /\ ~OnlyNode(n, l)
LastNode(n, l) == n = tails_[l] /\ ~OnlyNode(n, l) /\ ~FirstNode(n, l)

\* Remove: head and tail, the neighbours, and last the node, whose links are
\* what a repair works from.  At an end of the list the node is its own
\* neighbour; the block of the neighbour then shares its data with the node's
\* when the entry is open (GetRanking's SetData), and is a copy otherwise.
RemoveStores(n, l, shared) ==
    LET nx == disk.node[n].next
        pv == disk.node[n].prev
        next == [disk.node[nx] EXCEPT !.prev = IF FirstNode(n, l) THEN nx ELSE pv]
        prev == [disk.node[pv] EXCEPT !.next = IF LastNode(n, l) THEN pv ELSE nx]
        Cleared(b, data) == IF b = n /\ shared THEN Out ELSE data
    IN  Transaction(n, "REMOVE", l)
        \o Optional(OnlyNode(n, l), <<StoreOf("head", l, NULL), StoreOf("tail", l, NULL)>>)
        \o Optional(FirstNode(n, l), <<StoreOf("head", l, nx)>>)
        \o Optional(LastNode(n, l), <<StoreOf("tail", l, pv), StoreOf("node", pv, prev)>>)
        \o <<StoreOf("node", nx, Cleared(nx, next)),
             StoreOf("node", pv, Cleared(pv, prev)),
             StoreOf("node", n, Out),
             StoreOf("size", l, Decremented(l))>>
        \o EndTransaction

\* FinishInsert, up to its call of Insert: the log is cleared first.
FinishInsertStores ==
    <<StoreOf("log", "transaction", NULL), StoreOf("log", "operation", "NONE")>>

\* Mutant: the predecessor of a node in the middle is not stored.
RevertRemoveStoresNextOnly(n, l) ==
    LET nx == disk.node[n].next
        pv == disk.node[n].prev
        empty == heads_[l] = NULL \/ tails_[l] = NULL
        first == ~empty /\ heads_[l] = nx
        last == ~empty /\ ~first /\ tails_[l] = pv
        next == IF n = nx THEN disk.node[nx]
                ELSE [disk.node[nx] EXCEPT !.prev = n]
    IN  IF nx = NULL \/ pv = NULL
        THEN <<StoreOf("log", "transaction", NULL)>>
        ELSE Optional(empty \/ first, <<StoreOf("head", l, n)>>)
             \o Optional(empty \/ last, <<StoreOf("tail", l, n)>>)
             \o <<StoreOf("node", nx, next)>>
             \o FinishInsertStores

\* RevertRemove links the node in again where its own links say that it was.
RevertRemoveStores(n, l) ==
    LET nx == disk.node[n].next
        pv == disk.node[n].prev
        empty == heads_[l] = NULL \/ tails_[l] = NULL
        first == ~empty /\ heads_[l] = nx
        last == ~empty /\ ~first /\ tails_[l] = pv
        next == IF n = nx /\ ~last THEN disk.node[nx]
                ELSE [disk.node[nx] EXCEPT !.prev = IF last THEN pv ELSE n]
        prev == IF n = pv /\ ~first THEN disk.node[pv]
                ELSE [disk.node[pv] EXCEPT !.next = IF first THEN nx ELSE n]
    IN  IF nx = NULL \/ pv = NULL
        THEN <<StoreOf("log", "transaction", NULL)>>
        ELSE Optional(empty \/ first, <<StoreOf("head", l, n)>>)
             \o Optional(empty \/ last, <<StoreOf("tail", l, n)>>)
             \o <<StoreOf("node", nx, next), StoreOf("node", pv, prev)>>
             \o FinishInsertStores

-----------------------------------------------------------------------------
(* Calls.                                                                  *)

Call(op, n, l, shared) == [op |-> op, node |-> n, list |-> l, shared |-> shared]

Running(op) == calls # <<>> /\ Head(calls).op = op /\ stores = <<>>

Idle == mode = "up" /\ calls = <<>>

\* UpdateIterators and InvalidateIterators.
UpdateIterators(it, n, data) ==
    IF it # NULL /\ it.node = n /\ it.data # NULL THEN [it EXCEPT !.data = data] ELSE it

InvalidateIterators(it, n) ==
    IF it # NULL /\ it.node = n THEN [it EXCEPT !.data = NULL] ELSE it

\* BackendImpl::CriticalError: the files are going to be created again.
CriticalError ==
    /\ mode' = "disabled"
    /\ stores' = <<>> /\ calls' = <<>> /\ iter' = NULL
    /\ UNCHANGED <<disk, heads_, tails_, crashes, broken>>

\* The running call has nothing to store.
Return ==
    /\ calls' = Tail(calls)
    /\ mode' = IF Tail(calls) = <<>> THEN "up" ELSE mode
    /\ UNCHANGED <<disk, heads_, tails_, stores, crashes, broken>>

\* Mutant: a head that already points to the node is refused.
HeadIsFirst(n, l) ==
    LET h == heads_[l] IN h # NULL => GetRanking(h) /\ disk.node[h].prev = h

\* Insert accepts a head that points to itself, or, after a crash, to the node.
HeadAccepted(n, l) ==
    LET h == heads_[l] IN h # NULL => GetRanking(h) /\ disk.node[h].prev \in {h, n}

Insert ==
    /\ Running("Insert")
    /\ LET n == Head(calls).node
           l == Head(calls).list
           h == heads_[l]
       IN  \/ ~HeadAccepted(n, l) /\ CriticalError
           \/ /\ HeadAccepted(n, l)
              /\ stores' = InsertStores(n, l)
              /\ heads_' = [heads_ EXCEPT ![l] = n]
              /\ tails_' = [tails_ EXCEPT ![l] = IF @ = NULL THEN n ELSE @]
              /\ iter' = IF h = NULL THEN iter
                         ELSE UpdateIterators(iter, h, [disk.node[h] EXCEPT !.prev = n])
              /\ UNCHANGED <<disk, calls, mode, crashes, broken>>

\* CheckLinks clears the links of a node that does not belong.
ClearNode(n) ==
    /\ stores' = <<StoreOf("node", n, Out)>>
    /\ iter' = InvalidateIterators(iter, n)
    /\ UNCHANGED <<disk, heads_, tails_, calls, mode, crashes, broken>>

\* Mutant: the iterators at the neighbours keep what they read before.
UnlinkKeepsIterators(n, l, shared) ==
    LET nx == disk.node[n].next
        pv == disk.node[n].prev
    IN  /\ stores' = RemoveStores(n, l, shared)
        /\ heads_' = [heads_ EXCEPT ![l] = IF OnlyNode(n, l) THEN NULL
                                           ELSE IF FirstNode(n, l) THEN nx ELSE @]
        /\ tails_' = [tails_ EXCEPT ![l] = IF OnlyNode(n, l) THEN NULL
                                           ELSE IF LastNode(n, l) THEN pv ELSE @]
        /\ iter' = InvalidateIterators(iter, n)
        /\ UNCHANGED <<disk, calls, mode, crashes, broken>>

Unlink(n, l, shared) ==
    LET nx == disk.node[n].next
        pv == disk.node[n].prev
        next == [disk.node[nx] EXCEPT !.prev = IF FirstNode(n, l) THEN nx ELSE pv]
        prev == [disk.node[pv] EXCEPT !.next = IF LastNode(n, l) THEN pv ELSE nx]
    IN  /\ stores' = RemoveStores(n, l, shared)
        /\ heads_' = [heads_ EXCEPT ![l] = IF OnlyNode(n, l) THEN NULL
                                           ELSE IF FirstNode(n, l) THEN nx ELSE @]
        /\ tails_' = [tails_ EXCEPT ![l] = IF OnlyNode(n, l) THEN NULL
                                           ELSE IF LastNode(n, l) THEN pv ELSE @]
        /\ iter' = UpdateIterators(UpdateIterators(InvalidateIterators(iter, n), nx, next),
                                   pv, prev)
        /\ UNCHANGED <<disk, calls, mode, crashes, broken>>

Remove ==
    /\ Running("Remove")
    /\ LET n == Head(calls).node
           l == Head(calls).list
           nx == disk.node[n].next
           pv == disk.node[n].prev
       IN  \/ /\ nx = NULL \/ pv = NULL
              /\ iter' = InvalidateIterators(iter, n)
              /\ Return
           \/ /\ nx # NULL /\ pv # NULL
              /\ \/ ~(GetRanking(nx) /\ GetRanking(pv)) /\ CriticalError
                 \/ /\ GetRanking(nx) /\ GetRanking(pv)
                    /\ \/ LinksAgree(n, l) /\ Unlink(n, l, Head(calls).shared)
                       \/ ~LinksAgree(n, l) /\ NodeIsWrong(n) /\ ClearNode(n)
                       \/ ~LinksAgree(n, l) /\ ~NodeIsWrong(n) /\ CriticalError

\* FinishInsert, from CompleteTransaction.
FinishInsert ==
    /\ Running("FinishInsert")
    /\ LET n == Head(calls).node
           l == Head(calls).list
       IN  /\ stores' = FinishInsertStores
           /\ calls' = calls \o Optional(heads_[l] # n, <<Call("Insert", n, l, FALSE)>>)
    /\ UNCHANGED <<disk, heads_, tails_, iter, mode, crashes, broken>>

\* RevertRemove, from CompleteTransaction.
RevertRemove ==
    /\ Running("RevertRemove")
    /\ LET n == Head(calls).node
           l == Head(calls).list
           empty == heads_[l] = NULL \/ tails_[l] = NULL
           first == ~empty /\ heads_[l] = disk.node[n].next
           last == ~empty /\ ~first /\ tails_[l] = disk.node[n].prev
           linked == disk.node[n].next # NULL /\ disk.node[n].prev # NULL
       IN  /\ stores' = RevertRemoveStores(n, l)
           /\ heads_' = [heads_ EXCEPT ![l] = IF linked /\ (empty \/ first) THEN n ELSE @]
           /\ tails_' = [tails_ EXCEPT ![l] = IF linked /\ (empty \/ last) THEN n ELSE @]
    /\ UNCHANGED <<disk, calls, iter, mode, crashes, broken>>

\* One store; after the last one the call returns.
Store ==
    /\ stores # <<>>
    /\ disk' = Apply(disk, Head(stores))
    /\ stores' = Tail(stores)
    /\ calls' = IF Tail(stores) = <<>> THEN Tail(calls) ELSE calls
    /\ mode' = IF calls' = <<>> THEN "up" ELSE mode
    /\ UNCHANGED <<heads_, tails_, iter, crashes, broken>>

-----------------------------------------------------------------------------
(* Death and start of the process.                                         *)

\* FinishInsert has cleared the log and its Insert has not written it again, nor
\* come to its end.
Unlogged ==
    /\ mode = "recovering" /\ disk.log.transaction = NULL
    /\ Head(calls).op \in {"FinishInsert", "Insert"}
    /\ disk.head[Head(calls).list] # Head(calls).node

Crash ==
    /\ \/ mode = "up" /\ crashes < MaxCrashes
       \/ mode = "recovering" /\ crashes < MaxDeaths
    /\ mode' = "down"
    /\ broken' = (broken \/ Unlogged)
    /\ crashes' = crashes + 1
    /\ stores' = <<>> /\ calls' = <<>> /\ iter' = NULL
    /\ UNCHANGED <<disk, heads_, tails_>>

\* Mutant: the list of the logged operation is taken to be the first one.
RecoveryOfFirstList(log) ==
    IF log.transaction = NULL THEN <<>>
    ELSE CASE log.operation = "INSERT" -> <<Call("FinishInsert", log.transaction, 0, FALSE)>>
           [] log.operation = "REMOVE" -> <<Call("RevertRemove", log.transaction, 0, FALSE)>>
           [] OTHER -> <<>>

\* CompleteTransaction: the call that the log asks for.
Recovery(log) ==
    IF log.transaction = NULL THEN <<>>
    ELSE CASE log.operation = "INSERT" ->
                  <<Call("FinishInsert", log.transaction, log.operation_list, FALSE)>>
           [] log.operation = "REMOVE" ->
                  <<Call("RevertRemove", log.transaction, log.operation_list, FALSE)>>
           [] OTHER -> <<>>

\* Rankings::Init, with CompleteTransaction.
Start ==
    /\ mode = "down"
    /\ heads_' = disk.head /\ tails_' = disk.tail
    /\ calls' = Recovery(disk.log)
    /\ mode' = IF calls' = <<>> THEN "up" ELSE "recovering"
    /\ UNCHANGED <<disk, stores, iter, crashes, broken>>

\* BackendImpl::RestartCache after a CriticalError: Reset, new files.
RestartCache ==
    /\ mode = "disabled"
    /\ mode' = "up"
    /\ disk' = EmptyDisk
    /\ heads_' = EmptyDisk.head /\ tails_' = EmptyDisk.tail
    /\ broken' = FALSE
    /\ UNCHANGED <<stores, calls, iter, crashes>>

-----------------------------------------------------------------------------
(* The contents of the lists.                                              *)

\* The nodes from start on, along next, up to stop or to a node that is its own
\* successor.
Chain(start, stop) ==
    LET c[k \in 0..Cardinality(Nodes)] ==
            IF k = 0 THEN <<start>>
            ELSE LET s == c[k - 1]
                     x == s[Len(s)]
                     y == disk.node[x].next
                 IN  IF Len(s) < k \/ x = stop \/ y \in {x, NULL} THEN s ELSE Append(s, y)
    IN  IF start = NULL THEN <<>> ELSE c[Cardinality(Nodes)]

\* What list l is worth: what it will be after the logged operation has been
\* finished or reverted.
Contents(l) ==
    LET log == disk.log
        n == log.transaction
        h == disk.head[l]
        nx == disk.node[n].next
        pv == disk.node[n].prev
        rest == IF nx = n THEN <<>> ELSE Chain(nx, NULL)
    IN  IF n = NULL \/ l # log.operation_list THEN Chain(h, NULL)
        ELSE IF log.operation = "INSERT"
             THEN IF h = n THEN Chain(h, NULL) ELSE <<n>> \o Chain(h, NULL)
             ELSE IF disk.node[n] = Out THEN Chain(h, NULL)
                  ELSE IF pv = n THEN <<n>> \o rest ELSE Chain(h, pv) \o <<n>> \o rest

Elements(s) == {s[i] : i \in 1..Len(s)}

Listed(n) == {l \in Lists : n \in Elements(Contents(l))}

-----------------------------------------------------------------------------
(* The callers: Eviction and BackendImpl.  They name the list a node is in   *)
(* (module Eviction is about the crash after which they do not); a node that *)
(* a crash left out of the lists may be removed from any.  Of broken lists   *)
(* only insertions and enumerations are followed, which bounds what can be   *)
(* done to them.                                                             *)

KnownIn(n, l) == ~broken /\ (l \in Listed(n) \/ Listed(n) = {})

Begin(cs) ==
    /\ Idle
    /\ calls' = cs
    /\ UNCHANGED <<disk, heads_, tails_, stores, iter, mode, crashes, broken>>

CreateEntry(n, l) == disk.node[n] = Out /\ Begin(<<Call("Insert", n, l, FALSE)>>)

DestroyEntry(n, l, shared) == KnownIn(n, l) /\ Begin(<<Call("Remove", n, l, shared)>>)

\* Rankings::UpdateRank, and the moves of an entry between lists.
UpdateRank(n, l, m, shared) ==
    /\ KnownIn(n, l)
    /\ Begin(<<Call("Remove", n, l, shared), Call("Insert", n, m, FALSE)>>)

-----------------------------------------------------------------------------
(* Enumerations.                                                           *)

\* The result of GetNext and GetPrev: the block at address n, or NULL.
Found(n, l, linked) ==
    \/ n = NULL /\ iter' = NULL /\ UNCHANGED mode
    \/ n # NULL /\ GetRanking(n) /\ linked
       /\ iter' = [node |-> n, data |-> disk.node[n], list |-> l] /\ UNCHANGED mode
    \/ n # NULL /\ ~(GetRanking(n) /\ linked) /\ iter' = NULL /\ mode' = "disabled"

IterData == IF iter.data = NULL THEN disk.node[iter.node] ELSE iter.data

GetFirst(l) ==
    /\ Idle /\ iter = NULL
    /\ \E n \in {heads_[l], tails_[l]} : n # NULL /\ Found(n, l, TRUE)
    /\ UNCHANGED <<disk, heads_, tails_, stores, calls, crashes, broken>>

GetNext ==
    /\ Idle /\ iter # NULL
    /\ LET l == iter.list
           n == IterData.next
           over == tails_[l] \in {NULL, iter.node} \/ n = iter.node
       IN  Found(IF over THEN NULL ELSE n, l, ~over => disk.node[n].prev = iter.node)
    /\ UNCHANGED <<disk, heads_, tails_, stores, calls, crashes, broken>>

GetPrev ==
    /\ Idle /\ iter # NULL
    /\ LET l == iter.list
           n == IterData.prev
           over == heads_[l] \in {NULL, iter.node} \/ n = iter.node
       IN  Found(IF over THEN NULL ELSE n, l, ~over => disk.node[n].next = iter.node)
    /\ UNCHANGED <<disk, heads_, tails_, stores, calls, crashes, broken>>

-----------------------------------------------------------------------------
Init ==
    /\ disk = EmptyDisk
    /\ heads_ = EmptyDisk.head /\ tails_ = EmptyDisk.tail
    /\ stores = <<>> /\ calls = <<>>
    /\ iter = NULL
    /\ mode = "up"
    /\ crashes = 0 /\ broken = FALSE

Callers ==
    \E n \in Nodes, l \in Lists :
        \/ CreateEntry(n, l)
        \/ \E shared \in BOOLEAN : \/ DestroyEntry(n, l, shared)
                                   \/ \E m \in Lists : UpdateRank(n, l, m, shared)

Enumeration == (\E l \in Lists : GetFirst(l)) \/ GetNext \/ GetPrev

Operation == Insert \/ Remove \/ FinishInsert \/ RevertRemove \/ Store

Process == Crash \/ Start \/ RestartCache

Next == Callers \/ Enumeration \/ Operation \/ Process

Spec == Init /\ [][Next]_vars

-----------------------------------------------------------------------------
(* Properties.                                                             *)

Addresses == Nodes \cup {NULL}
Links == [next : Addresses, prev : Addresses]

\* Every variable has its type; a counter that a crash left too small does not go
\* below zero, although the DCHECK of DecrementCounter fails then.
TypeOK ==
    /\ disk.node \in [Nodes -> Links]
    /\ disk.head \in [Lists -> Addresses] /\ disk.tail \in [Lists -> Addresses]
    /\ disk.size \in [Lists -> Nat]
    /\ disk.log \in [transaction : Addresses, operation : {"NONE", "INSERT", "REMOVE"},
                     operation_list : Lists]
    /\ heads_ \in [Lists -> Addresses] /\ tails_ \in [Lists -> Addresses]
    /\ iter # NULL => iter.node \in Nodes /\ iter.list \in Lists
    /\ mode \in {"down", "recovering", "up", "disabled"}
    /\ crashes \in 0..MaxDeaths /\ broken \in BOOLEAN

\* No logged operation, and no repair that works without the log.
Settled == disk.log.transaction = NULL /\ mode \in {"up", "down"} /\ ~broken

\* CheckList: from the head every node points back to the one before, and the
\* walk ends at the tail.
CheckList(l) ==
    LET s == Chain(disk.head[l], NULL) IN
    IF s = <<>> THEN disk.tail[l] = NULL
    ELSE /\ disk.node[s[1]].prev = s[1]
         /\ \A i \in 1..Len(s) - 1 : disk.node[s[i + 1]].prev = s[i]
         /\ disk.tail[l] = s[Len(s)] /\ disk.node[s[Len(s)]].next = s[Len(s)]

\* Wherever the process died, in an operation or in the repair of one, the lists
\* are those CheckList accepts as soon as no operation is logged, and a node is in
\* one list or in none and then has no links: the order of the stores in Insert and
\* Remove and the repairs of FinishInsert and RevertRemove.  The exception is a
\* second death while FinishInsert has no log.
ListsClosed ==
    LET nodes == [l \in Lists |-> Elements(Contents(l))] IN
    Settled => /\ \A l \in Lists : CheckList(l)
               /\ \A l, m \in Lists : l # m => nodes[l] \cap nodes[m] = {}
               /\ \A n \in Nodes \ UNION {nodes[l] : l \in Lists} : disk.node[n] = Out

\* As long as the callers name the list a node is in (KnownIn; the crash of module
\* Eviction makes them name another, and then Insert finds a head it refuses), a
\* death does not make the cache throw its files away (CriticalError), but for the
\* same exception: Insert accepts the head, Remove the links and an enumeration the
\* neighbours that a repair or another operation left.
NoCriticalError == mode = "disabled" => broken

\* Between two calls heads, tails and the block of an enumeration, all of them
\* copies, are what the files hold: UpdateIterators reaches whoever is changed.
CopiesCurrent ==
    Idle /\ ~broken =>
        /\ heads_ = disk.head /\ tails_ = disk.tail
        /\ iter # NULL /\ iter.data # NULL => iter.data = disk.node[iter.node]

\* The DCHECKs of Transaction (no operation is logged when another begins), of
\* RevertRemove (the neighbours point to the node, to themselves or to each other),
\* and CompleteTransaction's NOTREACHED: what is logged can be repaired.
LogChecks ==
    /\ Running("Insert") \/ Running("Remove") => disk.log.transaction = NULL
    /\ disk.log.transaction # NULL => disk.log.operation # "NONE"
    /\ Running("RevertRemove") =>
           LET n == Head(calls).node
               nx == disk.node[n].next
               pv == disk.node[n].prev
           IN  nx # NULL /\ pv # NULL => /\ disk.node[pv].next \in {n, pv, nx}
                                         /\ disk.node[nx].prev \in {n, nx, pv}

\* The lists a caller may rely on, once a death has not broken them, and what it
\* has asked for; after a death the log has the only word of it.
lruBar == [l \in Lists |-> IF broken \/ mode = "disabled" THEN <<>> ELSE Contents(l)]
requestBar == IF calls # <<>> THEN <<Head(calls).node, Head(calls).list>>
              ELSE IF disk.log.transaction # NULL
                   THEN <<disk.log.transaction, disk.log.operation_list>>
                   ELSE NULL

Lru == INSTANCE LruSpec WITH lru <- lruBar, request <- requestBar, None <- NULL

\* The linked lists implement the atomic ones of LruSpec: whenever the process
\* dies, an entry is inserted or not, removed or not, and no other entry is touched.
ImplementsLru == Lru!Spec
=============================================================================
