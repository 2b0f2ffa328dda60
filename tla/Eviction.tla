------------------------------- MODULE Eviction -------------------------------
(***************************************************************************)
(* net/disk_cache/eviction.cc, the second version: which list an entry is  *)
(* in follows from its EntryStore, its state and how often it was opened.  *)
(* A change of list is a Remove and an Insert of the rankings and a store  *)
(* of the EntryStore, each of them safe by itself against a death of the   *)
(* process; between them the record and the lists disagree.                *)
(*                                                                         *)
(* An entry and its rankings node share an identity.  The process that     *)
(* finds an entry that an earlier one left open destroys it.               *)
(***************************************************************************)
EXTENDS Rankings

CONSTANT kHighUse       \* opens that make an entry highly used, at least 2

NO_USE == 0
LOW_USE == 1
HIGH_USE == 2
DELETED == 3

VARIABLES
    store,          \* the EntryStore of every entry in the files
    info,           \* its copy in memory
    dirty           \* "none", "closed", "open", "doomed", or "invalid"

evictionVars == <<vars, store, info, dirty>>

NoEntry == [state |-> "NONE", reuse_count |-> 0]

\* GetListForEntryV2.
GetListForEntryV2(e) == IF e.reuse_count = 0 THEN NO_USE
                        ELSE IF e.reuse_count < kHighUse THEN LOW_USE ELSE HIGH_USE

\* entry()->Store(), as a call in the sequence of the running handler.
StoreEntryOf(n) == Call("StoreEntry", n, 0, FALSE)

Move(n, from, to) == <<Call("Remove", n, from, TRUE), Call("Insert", n, to, FALSE)>>

\* OnCreateEntryV2 of a new entry; its EntryStore is in the files before.
CreateNew(n) ==
    /\ dirty[n] = "none"
    /\ Begin(<<Call("Insert", n, NO_USE, FALSE)>>)
    /\ store' = [store EXCEPT ![n] = [state |-> "NORMAL", reuse_count |-> 0]]
    /\ info' = [info EXCEPT ![n] = store'[n]]
    /\ dirty' = [dirty EXCEPT ![n] = "open"]

\* OnCreateEntryV2 of an evicted entry (ResurrectEntry).
Resurrect(n) ==
    /\ dirty[n] = "closed" /\ info[n].state = "EVICTED"
    /\ \E use \in {info[n].reuse_count + 1, kHighUse} :
        /\ use <= kHighUse
        /\ info' = [info EXCEPT ![n] = [state |-> "NORMAL", reuse_count |-> use]]
    /\ Begin(<<StoreEntryOf(n)>> \o Move(n, DELETED, GetListForEntryV2(info'[n])))
    /\ dirty' = [dirty EXCEPT ![n] = "open"]
    /\ UNCHANGED store

\* OnOpenEntryV2: the first open, and the one that makes the entry highly used.
OnOpenEntryV2(n) ==
    /\ dirty[n] \in {"closed", "open"} /\ info[n].state = "NORMAL"
    /\ info[n].reuse_count < kHighUse
    /\ info' = [info EXCEPT ![n].reuse_count = @ + 1]
    /\ LET from == GetListForEntryV2(info[n])
           to == GetListForEntryV2(info'[n])
       IN  IF from # to THEN Begin(Append(Move(n, from, to), StoreEntryOf(n)))
           ELSE Idle /\ UNCHANGED vars
    /\ dirty' = [dirty EXCEPT ![n] = "open"]
    /\ UNCHANGED store

\* UpdateRankV2: the entry was read or written.
UpdateRankV2(n) ==
    /\ dirty[n] = "open" /\ info[n].state = "NORMAL"
    /\ LET l == GetListForEntryV2(info[n]) IN Begin(Move(n, l, l))
    /\ UNCHANGED <<store, info, dirty>>

\* The handle of an entry is closed: its record and its node are stored, clean.
Close(n) ==
    /\ Idle /\ dirty[n] = "open"
    /\ store' = [store EXCEPT ![n] = info[n]]
    /\ dirty' = [dirty EXCEPT ![n] = "closed"]
    /\ UNCHANGED <<vars, info>>

\* OnDoomEntryV2, of an open entry or (DestroyInvalidEntry) of one that an earlier
\* process left open.
OnDoomEntryV2(n) ==
    /\ dirty[n] \in {"open", "invalid"} /\ info[n].state = "NORMAL"
    /\ info' = [info EXCEPT ![n].state = "DOOMED"]
    /\ Begin(<<Call("Remove", n, GetListForEntryV2(info[n]), dirty[n] = "open"),
               StoreEntryOf(n), Call("Insert", n, DELETED, FALSE)>>)
    /\ dirty' = [dirty EXCEPT ![n] = "doomed"]
    /\ UNCHANGED store

\* EvictEntry: an entry that nobody uses.
EvictEntry(n) ==
    /\ dirty[n] = "closed" /\ info[n].state = "NORMAL"
    /\ info' = [info EXCEPT ![n].state = "EVICTED"]
    /\ Begin(<<Call("Remove", n, GetListForEntryV2(info[n]), FALSE), StoreEntryOf(n),
               Call("Insert", n, DELETED, FALSE)>>)
    /\ UNCHANGED <<store, dirty>>

\* OnDestroyEntryV2, when the last reference to a doomed entry goes, or from
\* RemoveDeletedNode; node and record are cleared after it.
OnDestroyEntryV2(n) ==
    /\ \/ dirty[n] = "doomed"
       \/ dirty[n] \in {"closed", "invalid"} /\ info[n].state \in {"EVICTED", "DOOMED"}
    /\ \E shared \in BOOLEAN :
           Begin(<<Call("Remove", n, DELETED, shared), Call("ClearEntry", n, 0, FALSE)>>)
    /\ UNCHANGED <<store, info, dirty>>

StoreEntry ==
    /\ Running("StoreEntry")
    /\ store' = [store EXCEPT ![Head(calls).node] = info[Head(calls).node]]
    /\ Return /\ UNCHANGED <<iter, info, dirty>>

ClearEntry ==
    /\ Running("ClearEntry")
    /\ LET n == Head(calls).node
       IN  /\ store' = [store EXCEPT ![n] = NoEntry]
           /\ info' = [info EXCEPT ![n] = NoEntry]
           /\ dirty' = [dirty EXCEPT ![n] = "none"]
    /\ Return /\ UNCHANGED iter

\* A new process reads the records when it opens the entries.
Restarted ==
    /\ Process
    /\ IF mode = "disabled"
       THEN /\ store' = [n \in Nodes |-> NoEntry] /\ info' = store'
            /\ dirty' = [n \in Nodes |-> "none"]
       ELSE /\ info' = IF mode = "down" THEN store ELSE info
            /\ dirty' = [n \in Nodes |-> IF mode # "down" /\ dirty[n] \in {"open", "doomed"}
                                         THEN "invalid" ELSE dirty[n]]
            /\ UNCHANGED store

EvictionInit ==
    /\ Init
    /\ store = [n \in Nodes |-> NoEntry] /\ info = store
    /\ dirty = [n \in Nodes |-> "none"]

EvictionNext ==
    \/ \E n \in Nodes : \/ CreateNew(n) \/ Resurrect(n) \/ OnOpenEntryV2(n)
                        \/ UpdateRankV2(n) \/ Close(n)
                        \/ OnDoomEntryV2(n) \/ EvictEntry(n) \/ OnDestroyEntryV2(n)
    \/ Operation /\ UNCHANGED <<store, info, dirty>>
    \/ StoreEntry \/ ClearEntry
    \/ Restarted

EvictionSpec == EvictionInit /\ [][EvictionNext]_evictionVars

-----------------------------------------------------------------------------
\* CheckLinks clears the links of a node only when, as its comment says, "the list
\* is actually ok, node is wrong": the node is in no list.  The code asks whether the
\* neighbours point at each other past the node, which is also so for the first or
\* last node of another list than the one the EntryStore names.
ClearedNodeIsInNoList ==
    Running("Remove") =>
        LET n == Head(calls).node IN
        /\ disk.node[n].next # NULL /\ disk.node[n].prev # NULL
        /\ GetRanking(disk.node[n].next) /\ GetRanking(disk.node[n].prev)
        /\ ~LinksAgree(n, Head(calls).list) /\ NodeIsWrong(n)
        => Listed(n) = {}
=============================================================================
