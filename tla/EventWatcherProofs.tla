-------------------------- MODULE EventWatcherProofs --------------------------
(***************************************************************************)
(* The invariants of EventWatcher, for every number of watchers, events    *)
(* and addresses.                                                          *)
(*                                                                         *)
(* None of them is inductive alone.  What a signal may still fire (Live)   *)
(* and what is in the queue are tied to the watchers by IInv: no flag has  *)
(* two watchers, a watch that is on has exactly one waiter or one task,    *)
(* and the watcher of a waiter observes the message loop.                  *)
(***************************************************************************)
EXTENDS EventWatcher, ListLemmas

\* The waiters of e that a signal may still fire.
Live(e) == Elems(waiters_[e], signaling[e])

Types == TypeOK /\ signaling \in [Events -> Nat]

Once == \A e \in Events : Distinct(waiters_[e], signaling[e])

WaiterOK(e, a) ==
    /\ heap[a] # NULL
    /\ ~flag_[heap[a].flag]
    /\ watcher[heap[a].watcher].cancel_flag_ = heap[a].flag
    /\ watcher[heap[a].watcher].waiter_ = a
    /\ watcher[heap[a].watcher].kernel_ = e
    /\ watcher[heap[a].watcher].message_loop_

WaitersOK == \A e \in Events : \A a \in Live(e) : WaiterOK(e, a)

OwnFlag ==
    \A v, w \in Watchers :
        watcher[v].cancel_flag_ # NULL /\ watcher[v].cancel_flag_ = watcher[w].cancel_flag_
            => v = w

PostedOnce ==
    \A i, j \in 1..Len(tasks) :
        tasks[i].flag = tasks[j].flag /\ ~flag_[tasks[i].flag] => i = j

NotBoth ==
    \A e \in Events : \A a \in Live(e) : \A j \in 1..Len(tasks) :
        tasks[j].flag # heap[a].flag

WillBeTold(w) ==
    \/ \E j \in 1..Len(tasks) : tasks[j].flag = watcher[w].cancel_flag_
    \/ \E e \in Events : \E a \in Live(e) : heap[a].flag = watcher[w].cancel_flag_

Told == loop # "gone" => \A w \in Watchers : Watching(w) => WillBeTold(w)

Quiet == loop = "gone" => \A e \in Events : Live(e) = {}

IInv ==
    /\ Types /\ Once /\ WaitersOK /\ OwnFlag /\ NoCallbackAfterStop /\ PostedOnce
    /\ NotBoth /\ Told /\ Quiet

-----------------------------------------------------------------------------
(* What a step does to the waiters a signal may fire.                      *)

\* The types that the proofs of the steps use.
LEMMA TypeFacts ==
    ASSUME Types
    PROVE  /\ \A e \in Events : waiters_[e] \in Seq(Addrs) /\ Len(waiters_[e]) \in Nat
           /\ \A e \in Events : signaling[e] \in Nat /\ signaling[e] <= Len(waiters_[e]) + 1
           /\ \A e \in Events : Live(e) \subseteq Addrs
           /\ \A a \in Addrs : heap[a] # NULL => heap[a] \in WaitType
           /\ Len(tasks) \in Nat /\ \A j \in 1..Len(tasks) : tasks[j] \in WaitType
           /\ \A w \in Watchers : /\ watcher[w].cancel_flag_ \in Flags \cup {NULL}
                                  /\ watcher[w].kernel_ \in Events \cup {NULL}
                                  /\ watcher[w].waiter_ \in Addrs \cup {NULL}
                                  /\ watcher[w].message_loop_ \in BOOLEAN
           /\ \A f \in Flags : flag_[f] \in BOOLEAN
<1>1. \A e \in Events : waiters_[e] \in Seq(Addrs) /\ Len(waiters_[e]) \in Nat
  BY DEF Types, TypeOK
<1>2. \A e \in Events : signaling[e] \in Nat /\ signaling[e] <= Len(waiters_[e]) + 1
  BY <1>1 DEF Types, TypeOK
<1>3. \A e \in Events : Live(e) \subseteq Addrs BY <1>1 DEF Live, Elems, From
<1> QED BY <1>1, <1>2, <1>3 DEF Types, TypeOK

\* Two waiters that a signal may fire are of two watches.
LEMMA OneWaiter ==
    ASSUME IInv, NEW d \in Events, NEW e \in Events, NEW a \in Live(d), NEW b \in Live(e),
           heap[a].flag = heap[b].flag
    PROVE  a = b /\ d = e
<1>1. heap[a] \in WaitType /\ heap[b] \in WaitType
  BY TypeFacts DEF IInv, WaitersOK, WaiterOK
<1>2. WaiterOK(d, a) /\ WaiterOK(e, b) BY DEF IInv, WaitersOK
<1>3. heap[a].watcher = heap[b].watcher
  BY <1>1, <1>2, WatcherAssumption DEF WaiterOK, WaitType, IInv, OwnFlag
<1> QED BY <1>2, <1>3 DEF WaiterOK

\* A signal fires a waiter: its watch now has a task.
LEMMA FireStep ==
    ASSUME IInv, NEW e \in Events, NEW a \in Live(e), Fire(a), Types', Once',
           UNCHANGED <<flag_, watcher, loop>>,
           Live(e)' = Live(e) \ {a}, \A d \in Events \ {e} : Live(d)' = Live(d)
    PROVE  IInv'
<1> DEFINE n == Len(tasks)
           x == heap[a]
<1>1. /\ x \in WaitType /\ WaiterOK(e, a) /\ a \in Addrs
  BY TypeFacts DEF IInv, WaitersOK, WaiterOK
<1>2. /\ n \in Nat /\ Len(tasks') = n + 1 /\ tasks'[n + 1] = x
      /\ \A j \in 1..n : tasks'[j] = tasks[j]
  BY <1>1 DEF Fire, WaiterOK, IInv, Types, TypeOK
<1>3. \A d \in Events : \A b \in Live(d)' : b \in Live(d) /\ b # a /\ heap'[b] = heap[b]
  <2>1. ASSUME NEW d \in Events, NEW b \in Live(d)' PROVE b \in Live(d) /\ b # a
    <3>1. CASE d = e BY <3>1
    <3>2. CASE d # e
      <4>1. b \in Live(d) BY <3>2
      <4> QED BY <3>2, <4>1, OneWaiter
    <3> QED BY <3>1, <3>2
  <2> QED BY <2>1, TypeFacts DEF Fire, IInv, Types, TypeOK
<1>4. \A d \in Events : \A b \in Live(d) : b # a => b \in Live(d)' /\ heap'[b] = heap[b]
  BY TypeFacts DEF Fire, IInv, Types, TypeOK
<1> HIDE DEF n, x
<1>5. WaitersOK' BY <1>3 DEF IInv, WaitersOK, WaiterOK
<1>6. NoCallbackAfterStop'
  <2>1. watcher[x.watcher].cancel_flag_ = x.flag BY <1>1 DEF WaiterOK, x
  <2> QED BY <1>2, <2>1 DEF IInv, NoCallbackAfterStop, n
<1>7. \A j \in 1..n : tasks[j].flag # x.flag BY DEF IInv, NotBoth, n, x
<1>8. PostedOnce'
  <2> SUFFICES ASSUME NEW i \in 1..(n + 1), NEW j \in 1..(n + 1),
                      tasks'[i].flag = tasks'[j].flag, ~flag_[tasks'[i].flag]
               PROVE  i = j
    BY <1>2 DEF PostedOnce
  <2>1. CASE i \in 1..n /\ j \in 1..n BY <1>2, <2>1 DEF IInv, PostedOnce, n
  <2> QED BY <1>2, <1>7, <2>1
<1>9. NotBoth'
  <2> SUFFICES ASSUME NEW d \in Events, NEW b \in Live(d)', NEW j \in 1..(n + 1)
               PROVE  tasks'[j].flag # heap'[b].flag
    BY <1>2 DEF NotBoth
  <2>1. CASE j \in 1..n BY <1>2, <1>3, <2>1 DEF IInv, NotBoth, n
  <2>2. CASE j = n + 1 BY <1>2, <1>3, <2>2, OneWaiter DEF x
  <2> QED BY <1>2, <2>1, <2>2
<1>10. Told'
  <2> SUFFICES ASSUME loop # "gone", NEW w \in Watchers, Watching(w)
               PROVE  WillBeTold(w)'
    BY DEF Told, Watching
  <2>1. WillBeTold(w) BY DEF IInv, Told
  <2>2. CASE \E j \in 1..n : tasks[j].flag = watcher[w].cancel_flag_
    BY <1>2, <2>2 DEF WillBeTold
  <2>3. CASE x.flag = watcher[w].cancel_flag_
    <3>1. n + 1 \in 1..Len(tasks') BY <1>2
    <3> QED BY <1>2, <2>3, <3>1 DEF WillBeTold
  <2>4. ASSUME NEW d \in Events, NEW b \in Live(d), heap[b].flag = watcher[w].cancel_flag_,
               b # a
        PROVE  WillBeTold(w)'
    BY <1>4, <2>4 DEF WillBeTold
  <2> QED BY <2>1, <2>2, <2>3, <2>4 DEF WillBeTold, n, x
<1>11. Quiet' BY <1>3 DEF IInv, Quiet
<1> QED BY <1>5, <1>6, <1>8, <1>9, <1>10, <1>11 DEF IInv, OwnFlag

\* A step that leaves the waiters, the queue and the watchers alone.
LEMMA SameStep ==
    ASSUME IInv, Types', Once', UNCHANGED <<heap, flag_, tasks, watcher, loop>>,
           \A e \in Events : Live(e)' = Live(e)
    PROVE  IInv'
<1>1. WaitersOK' BY DEF IInv, WaitersOK, WaiterOK
<1>2. NoCallbackAfterStop' /\ PostedOnce' /\ OwnFlag'
  BY DEF IInv, NoCallbackAfterStop, PostedOnce, OwnFlag
<1>3. NotBoth' BY DEF IInv, NotBoth
<1>4. Told' BY DEF IInv, Told, Watching, WillBeTold
<1>5. Quiet' BY DEF IInv, Quiet
<1> QED BY <1>1, <1>2, <1>3, <1>4, <1>5 DEF IInv

\* Fire keeps the types of the heap and of the queue.
LEMMA FireTypes ==
    ASSUME Types, NEW a \in Addrs, heap[a] \in WaitType, Fire(a)
    PROVE  heap' \in [Addrs -> WaitType \cup {NULL}] /\ tasks' \in Seq(WaitType)
BY DEF Types, TypeOK, Fire

LEMMA SignalAutoStep ==
    ASSUME IInv, NEW e \in Events, SignalAuto(e)
    PROVE  IInv'
<1> DEFINE s == waiters_[e]
<1>1. signaling[e] = 0 /\ s \in Seq(Addrs) /\ Distinct(s, 0) /\ Live(e) = Elems(s, 0)
  BY TypeFacts DEF SignalAuto, Unlocked, IInv, Once, Live
<1>2. CASE s # <<>> /\ Fire(Head(s)) /\ waiters_' = [waiters_ EXCEPT ![e] = Tail(s)]
           /\ UNCHANGED signaled_
  <2> DEFINE t == Tail(s)
  <2>1. 1 \in 1..Len(s) /\ Head(s) = s[1] /\ t \in Seq(Addrs) /\ CutAt(s, 1, t)
    BY <1>1, <1>2 DEF CutAt
  <2> HIDE DEF t
  <2>2. Head(s) \in Elems(s, 0) /\ Distinct(t, 0) /\ Elems(t, 0) = Elems(s, 0) \ {Head(s)}
    BY <1>1, <2>1, ElemsCut
  <2>3. /\ waiters_'[e] = t /\ \A d \in Events \ {e} : waiters_'[d] = waiters_[d]
        /\ waiters_' \in [Events -> Seq(Addrs)] /\ signaling' = signaling
    BY <1>2, <2>1 DEF IInv, Types, TypeOK, SignalAuto, t
  <2>4. Head(s) \in Addrs /\ heap[Head(s)] \in WaitType
    BY <1>1, <2>2, TypeFacts DEF IInv, WaitersOK, WaiterOK
  <2>5. Types'
    <3>1. heap' \in [Addrs -> WaitType \cup {NULL}] /\ tasks' \in Seq(WaitType)
      BY <1>2, <2>4, FireTypes DEF IInv
    <3>2. \A d \in Events : signaling'[d] \in 0..Len(waiters_'[d]) + 1
      <4>1. ASSUME NEW d \in Events \ {e} PROVE signaling'[d] \in 0..Len(waiters_'[d]) + 1
        BY <2>3 DEF IInv, Types, TypeOK
      <4>2. signaling'[e] \in 0..Len(waiters_'[e]) + 1 BY <1>1, <2>1, <2>3 DEF CutAt
      <4> QED BY <4>1, <4>2
    <3> QED BY <1>2, <2>3, <3>1, <3>2 DEF IInv, Types, TypeOK, SignalAuto
  <2>6. Once' BY <1>1, <2>2, <2>3 DEF IInv, Once
  <2>7. Live(e)' = Live(e) \ {Head(s)} /\ \A d \in Events \ {e} : Live(d)' = Live(d)
    BY <1>1, <2>2, <2>3 DEF Live
  <2>8. UNCHANGED <<flag_, watcher, loop>> /\ Head(s) \in Live(e) /\ Fire(Head(s))
    BY <1>1, <1>2, <2>2 DEF SignalAuto
  <2> HIDE DEF s
  <2> QED BY <2>5, <2>6, <2>7, <2>8, FireStep
<1>3. CASE /\ signaled_' = [signaled_ EXCEPT ![e] = TRUE]
           /\ UNCHANGED <<heap, tasks, waiters_>>
  <2>1. Types' BY <1>3 DEF IInv, Types, TypeOK, SignalAuto
  <2>2. Once' /\ \A d \in Events : Live(d)' = Live(d)
    BY <1>3 DEF IInv, Once, Live, SignalAuto
  <2>3. UNCHANGED <<heap, flag_, tasks, watcher, loop>> BY <1>3 DEF SignalAuto
  <2> QED BY <2>1, <2>2, <2>3, SameStep
<1> QED BY <1>2, <1>3 DEF SignalAuto

LEMMA SignalManualStep ==
    ASSUME IInv, NEW e \in Events, SignalManual(e)
    PROVE  IInv'
<1>1. signaling[e] = 0 /\ waiters_[e] \in Seq(Addrs) /\ Distinct(waiters_[e], 0)
  BY TypeFacts DEF SignalManual, Unlocked, IInv, Once
<1>2. /\ signaling'[e] = 1 /\ \A d \in Events \ {e} : signaling'[d] = signaling[d]
      /\ waiters_' = waiters_
  BY DEF SignalManual, IInv, Types
<1>3. Types'
  <2>1. signaling' \in [Events -> Nat] BY DEF SignalManual, IInv, Types
  <2>2. \A d \in Events : signaling'[d] \in 0..Len(waiters_'[d]) + 1
    <3>1. ASSUME NEW d \in Events \ {e} PROVE signaling'[d] \in 0..Len(waiters_'[d]) + 1
      BY <1>2 DEF IInv, Types, TypeOK
    <3>2. signaling'[e] \in 0..Len(waiters_'[e]) + 1 BY <1>1, <1>2
    <3> QED BY <3>1, <3>2
  <2> QED BY <2>1, <2>2 DEF SignalManual, IInv, Types, TypeOK
<1>4. Distinct(waiters_[e], 1) /\ Elems(waiters_[e], 1) = Elems(waiters_[e], 0)
  BY <1>1, ElemsStart
<1>5. Once' /\ \A d \in Events : Live(d)' = Live(d)
  BY <1>1, <1>2, <1>4 DEF IInv, Once, Live
<1>6. UNCHANGED <<heap, flag_, tasks, watcher, loop>> BY DEF SignalManual
<1> QED BY <1>3, <1>5, <1>6, SameStep

LEMMA SignalAllStep ==
    ASSUME IInv, NEW e \in Events, SignalAll(e)
    PROVE  IInv'
<1> DEFINE s == waiters_[e]
           k == signaling[e]
<1>1. k \in Nat /\ k # 0 /\ s \in Seq(Addrs) /\ Distinct(s, k) /\ Live(e) = Elems(s, k)
  BY TypeFacts DEF SignalAll, Unlocked, IInv, Once, Live
<1>2. CASE k <= Len(s) /\ Fire(s[k]) /\ signaling' = [signaling EXCEPT ![e] = k + 1]
           /\ UNCHANGED <<signaled_, waiters_>>
  <2>1. k \in 1..Len(s) BY <1>1, <1>2
  <2>2. /\ s[k] \in Elems(s, k) /\ Distinct(s, k + 1) /\ Elems(s, k + 1) = Elems(s, k) \ {s[k]}
    BY <1>1, <2>1, ElemsStep
  <2>3. /\ signaling'[e] = k + 1 /\ \A d \in Events \ {e} : signaling'[d] = signaling[d]
        /\ signaling' \in [Events -> Nat] /\ waiters_' = waiters_
    BY <1>1, <1>2 DEF IInv, Types
  <2>4. s[k] \in Addrs /\ heap[s[k]] \in WaitType
    BY <1>1, <2>2, TypeFacts DEF IInv, WaitersOK, WaiterOK
  <2>5. Types'
    <3>1. heap' \in [Addrs -> WaitType \cup {NULL}] /\ tasks' \in Seq(WaitType)
      BY <1>2, <2>4, FireTypes DEF IInv
    <3>2. \A d \in Events : signaling'[d] \in 0..Len(waiters_'[d]) + 1
      <4>1. ASSUME NEW d \in Events \ {e} PROVE signaling'[d] \in 0..Len(waiters_'[d]) + 1
        BY <2>3 DEF IInv, Types, TypeOK
      <4>2. signaling'[e] \in 0..Len(waiters_'[e]) + 1 BY <1>1, <2>1, <2>3
      <4> QED BY <4>1, <4>2
    <3> QED BY <1>2, <2>3, <3>1, <3>2 DEF IInv, Types, TypeOK, SignalAll
  <2>6. Once' BY <2>2, <2>3 DEF IInv, Once
  <2>7. Live(e)' = Live(e) \ {s[k]} /\ \A d \in Events \ {e} : Live(d)' = Live(d)
    BY <1>1, <2>2, <2>3 DEF Live
  <2>8. UNCHANGED <<flag_, watcher, loop>> /\ s[k] \in Live(e) /\ Fire(s[k])
    BY <1>1, <1>2, <2>2 DEF SignalAll
  <2> HIDE DEF s, k
  <2> QED BY <2>5, <2>6, <2>7, <2>8, FireStep
<1>3. CASE /\ k > Len(s) /\ waiters_' = [waiters_ EXCEPT ![e] = <<>>]
           /\ signaled_' = [signaled_ EXCEPT ![e] = TRUE]
           /\ signaling' = [signaling EXCEPT ![e] = 0]
           /\ UNCHANGED <<heap, tasks>>
  <2>1. /\ signaling'[e] = 0 /\ \A d \in Events \ {e} : signaling'[d] = signaling[d]
        /\ signaling' \in [Events -> Nat]
        /\ waiters_'[e] = <<>> /\ \A d \in Events \ {e} : waiters_'[d] = waiters_[d]
        /\ waiters_' \in [Events -> Seq(Addrs)]
    BY <1>3 DEF IInv, Types, TypeOK
  <2>2. \A d \in Events : signaling'[d] \in 0..Len(waiters_'[d]) + 1
    BY <2>1 DEF IInv, Types, TypeOK
  <2>3. Types' BY <1>3, <2>1, <2>2 DEF IInv, Types, TypeOK, SignalAll
  <2>4. Elems(s, k) = {} /\ Elems(<<>>, 0) = {} /\ Distinct(<<>>, 0)
    BY <1>1, <1>3, ElemsNone
  <2>5. Once' /\ \A d \in Events : Live(d)' = Live(d)
    BY <2>1, <2>4 DEF IInv, Once, Live
  <2>6. UNCHANGED <<heap, flag_, tasks, watcher, loop>> BY <1>3 DEF SignalAll
  <2> QED BY <2>3, <2>5, <2>6, SameStep
<1> QED BY <1>2, <1>3 DEF SignalAll

\* Reset and the end of an event do not touch its waiters.
LEMMA EventStep ==
    ASSUME IInv, NEW e \in Events, Reset(e) \/ DeleteEvent(e)
    PROVE  IInv'
<1>1. Types' BY DEF Reset, DeleteEvent, IInv, Types, TypeOK
<1>2. Once' /\ \A d \in Events : Live(d)' = Live(d)
  BY DEF Reset, DeleteEvent, IInv, Once, Live
<1>3. UNCHANGED <<heap, flag_, tasks, watcher, loop>> BY DEF Reset, DeleteEvent
<1> QED BY <1>1, <1>2, <1>3, SameStep

-----------------------------------------------------------------------------
(* The steps of the watchers.                                              *)

\* The watcher w gives up its watch, if it has one: its flag is set, or its waiter
\* leaves the list, or there was nothing to do.
LEMMA LeaveStep ==
    ASSUME IInv, NEW w \in Watchers, Types', Once', UNCHANGED <<tasks, loop>>,
           \A v \in Watchers \ {w} : watcher'[v] = watcher[v],
           watcher'[w].cancel_flag_ = NULL,
           \A f \in Flags : f # watcher[w].cancel_flag_ => flag_'[f] = flag_[f],
           \A f \in Flags : ~flag_'[f] => ~flag_[f],
           \A d \in Events : \A a \in Live(d)' : a \in Live(d) /\ heap'[a] = heap[a],
           \A d \in Events : \A a \in Live(d)' : heap[a].flag # watcher[w].cancel_flag_,
           \A d \in Events : \A a \in Live(d) :
               \/ a \in Live(d)' /\ heap'[a] = heap[a]
               \/ heap[a].flag = watcher[w].cancel_flag_,
           \A j \in 1..Len(tasks) :
               tasks[j].flag = watcher[w].cancel_flag_ => flag_'[tasks[j].flag]
    PROVE  IInv'
<1> DEFINE c == watcher[w].cancel_flag_
<1>1. \A f \in Flags : f # c => flag_'[f] = flag_[f] OBVIOUS
<1>2. \A j \in 1..Len(tasks) : tasks[j].flag \in Flags BY TypeFacts DEF IInv, WaitType
<1>3. \A f \in Flags : ~flag_'[f] => ~flag_[f] OBVIOUS
<1>4. \A d \in Events : \A a \in Live(d) : heap[a] \in WaitType /\ WaiterOK(d, a)
  BY TypeFacts DEF IInv, WaitersOK, WaiterOK
<1>5. WaitersOK'
  <2> SUFFICES ASSUME NEW d \in Events, NEW a \in Live(d)' PROVE WaiterOK(d, a)'
    BY DEF WaitersOK
  <2>1. heap[a] \in WaitType /\ WaiterOK(d, a) /\ heap[a].flag # c BY <1>4
  <2>2. heap[a].flag \in Flags /\ heap[a].watcher \in Watchers \ {w}
    BY <2>1 DEF WaitType, WaiterOK
  <2> QED BY <1>1, <2>1, <2>2 DEF WaiterOK
<1>6. NoCallbackAfterStop'
  <2> SUFFICES ASSUME NEW j \in 1..Len(tasks), ~flag_'[tasks[j].flag]
               PROVE  watcher'[tasks[j].watcher].cancel_flag_ = tasks[j].flag
    BY DEF NoCallbackAfterStop
  <2>1. ~flag_[tasks[j].flag] BY <1>2, <1>3
  <2>2. watcher[tasks[j].watcher].cancel_flag_ = tasks[j].flag /\ tasks[j].flag # c
    BY <2>1 DEF IInv, NoCallbackAfterStop
  <2>3. tasks[j].watcher \in Watchers BY TypeFacts DEF IInv, WaitType
  <2> QED BY <2>2, <2>3
<1>7. PostedOnce' BY <1>2, <1>3 DEF IInv, PostedOnce
<1>8. NotBoth' BY DEF IInv, NotBoth
<1>9. OwnFlag' BY DEF IInv, OwnFlag
<1>10. Told'
  <2> SUFFICES ASSUME loop # "gone", NEW v \in Watchers, Watching(v)'
               PROVE  WillBeTold(v)'
    BY DEF Told
  <2>1. v # w /\ watcher'[v] = watcher[v] BY DEF Watching
  <2>2. watcher[v].cancel_flag_ \in Flags /\ watcher[v].cancel_flag_ # c
    BY <2>1, TypeFacts DEF Watching, IInv, OwnFlag
  <2>3. WillBeTold(v) BY <1>3, <2>1, <2>2 DEF Watching, IInv, Told
  <2> QED BY <2>1, <2>2, <2>3 DEF WillBeTold
<1>11. Quiet' BY DEF IInv, Quiet
<1> QED BY <1>5, <1>6, <1>7, <1>8, <1>9, <1>10, <1>11 DEF IInv

\* StopWatching, the destructor and the end of the loop.
LEMMA StopStep ==
    ASSUME IInv, NEW w \in Watchers, NEW after \in {Stopped(w), NotWatching}, Stop(w, after),
           UNCHANGED <<signaled_, signaling, alive, tasks, loop>>
    PROVE  IInv'
<1> DEFINE m == watcher[w]
           c == m.cancel_flag_
           k == m.kernel_
           s == waiters_[k]
           listed == {i \in 1..Len(s) : Matches(s[i], m.waiter_, c)}
           rest(i) == SubSeq(s, 1, i - 1) \o SubSeq(s, i + 1, Len(s))
<1>1. /\ c \in Flags \cup {NULL} /\ k \in Events \cup {NULL}
      /\ m.waiter_ \in Addrs \cup {NULL}
  BY TypeFacts DEF IInv
<1>2. /\ watcher' = [watcher EXCEPT ![w] = after]
      /\ after.cancel_flag_ = NULL
      /\ after \in [cancel_flag_ : Flags \cup {NULL}, kernel_ : Events \cup {NULL},
                    waiter_ : Addrs \cup {NULL}, message_loop_ : BOOLEAN]
  <2>1. m \in [cancel_flag_ : Flags \cup {NULL}, kernel_ : Events \cup {NULL},
               waiter_ : Addrs \cup {NULL}, message_loop_ : BOOLEAN]
    BY DEF IInv, Types, TypeOK
  <2>2. watcher' = [watcher EXCEPT ![w] = after] BY DEF Stop
  <2> HIDE DEF m
  <2>3. CASE after = [m EXCEPT !.cancel_flag_ = NULL, !.message_loop_ = FALSE]
    BY <2>1, <2>2, <2>3
  <2>4. CASE after = NotWatching BY <2>2, <2>4 DEF NotWatching
  <2> QED BY <2>3, <2>4 DEF Stopped, m
<1>3. /\ \A v \in Watchers \ {w} : watcher'[v] = watcher[v]
      /\ watcher'[w].cancel_flag_ = NULL
      /\ watcher' \in [Watchers -> [cancel_flag_ : Flags \cup {NULL},
                                    kernel_ : Events \cup {NULL},
                                    waiter_ : Addrs \cup {NULL},
                                    message_loop_ : BOOLEAN]]
  BY <1>2 DEF IInv, Types, TypeOK
<1>4. \A d \in Events : \A a \in Live(d) :
        heap[a] \in WaitType /\ WaiterOK(d, a) /\ heap[a].flag # NULL
  BY TypeFacts, WatcherAssumption DEF IInv, WaitersOK, WaiterOK, WaitType
<1>5. \A d \in Events : \A a \in Live(d) :
        heap[a].flag = c => heap[a].watcher = w /\ k = d /\ m.waiter_ = a /\ ~flag_[c]
  BY <1>4 DEF WaiterOK, WaitType, IInv, OwnFlag
<1>6. CASE UNCHANGED <<waiters_, heap, flag_>> /\ (c = NULL \/ (c # NULL /\ flag_[c]))
  <2>1. Types' BY <1>3, <1>6 DEF IInv, Types, TypeOK
  <2>2. Once' /\ \A d \in Events : Live(d)' = Live(d) BY <1>6 DEF IInv, Once, Live
  <2>3. \A d \in Events : \A a \in Live(d) : heap[a].flag # c BY <1>4, <1>5, <1>6
  <2>4. \A j \in 1..Len(tasks) : tasks[j].flag = c => flag_'[tasks[j].flag]
    BY <1>6, TypeFacts, WatcherAssumption DEF IInv, WaitType
  <2>5. /\ \A f \in Flags : f # c => flag_'[f] = flag_[f]
        /\ \A f \in Flags : ~flag_'[f] => ~flag_[f]
    BY <1>6
  <2>6. /\ \A d \in Events : \A a \in Live(d)' : a \in Live(d) /\ heap'[a] = heap[a]
        /\ \A d \in Events : \A a \in Live(d)' : heap[a].flag # c
        /\ \A d \in Events : \A a \in Live(d) :
             (a \in Live(d)' /\ heap'[a] = heap[a]) \/ heap[a].flag = c
    BY <1>6, <2>2, <2>3
  <2> QED BY <1>3, <2>1, <2>2, <2>4, <2>5, <2>6, LeaveStep
<1>7. CASE /\ c # NULL /\ CancelTask(w) /\ UNCHANGED <<waiters_, heap>>
           /\ \A d \in Events : \A a \in Live(d) : heap[a].flag # c
  <2>1. /\ flag_' \in [Flags -> BOOLEAN] /\ flag_'[c]
        /\ \A f \in Flags : f # c => flag_'[f] = flag_[f]
        /\ \A f \in Flags : ~flag_'[f] => ~flag_[f]
    BY <1>1, <1>7 DEF CancelTask, IInv, Types, TypeOK
  <2>2. Types' BY <1>3, <1>7, <2>1 DEF IInv, Types, TypeOK
  <2>3. Once' /\ \A d \in Events : Live(d)' = Live(d) BY <1>7 DEF IInv, Once, Live
  <2>4. \A j \in 1..Len(tasks) : tasks[j].flag = c => flag_'[tasks[j].flag] BY <2>1
  <2>5. /\ \A d \in Events : \A a \in Live(d)' : a \in Live(d) /\ heap'[a] = heap[a]
        /\ \A d \in Events : \A a \in Live(d)' : heap[a].flag # c
        /\ \A d \in Events : \A a \in Live(d) :
             (a \in Live(d)' /\ heap'[a] = heap[a]) \/ heap[a].flag = c
    BY <1>7, <2>3
  <2> QED BY <1>3, <2>1, <2>2, <2>3, <2>4, <2>5, LeaveStep
<1>8. CASE /\ c # NULL /\ ~flag_[c] /\ k # NULL /\ Unlocked(k)
           /\ \E i \in listed : /\ waiters_' = [waiters_ EXCEPT ![k] = rest(i)]
                                /\ heap' = [heap EXCEPT ![m.waiter_] = NULL]
                                /\ UNCHANGED flag_
  <2>1. PICK i \in listed : /\ waiters_' = [waiters_ EXCEPT ![k] = rest(i)]
                            /\ heap' = [heap EXCEPT ![m.waiter_] = NULL]
                            /\ UNCHANGED flag_
    BY <1>8
  <2> DEFINE t == rest(i)
             a == m.waiter_
  <2>2. /\ k \in Events /\ s \in Seq(Addrs) /\ signaling[k] = 0 /\ Distinct(s, 0)
        /\ Live(k) = Elems(s, 0) /\ i \in 1..Len(s) /\ s[i] = a /\ heap[a].flag = c
    BY <1>1, <1>8, TypeFacts DEF IInv, Once, Live, Unlocked, Matches
  <2>3. t \in Seq(Addrs) /\ CutAt(s, i, t) BY <2>2, CutSeq
  <2> HIDE DEF rest, t
  <2>4. a \in Live(k) /\ Distinct(t, 0) /\ Elems(t, 0) = Live(k) \ {a}
    <3> HIDE DEF s, listed
    <3> QED BY <2>2, <2>3, ElemsCut
  <2>5. /\ waiters_'[k] = t /\ \A d \in Events \ {k} : waiters_'[d] = waiters_[d]
        /\ waiters_' \in [Events -> Seq(Addrs)] /\ Len(t) \in Nat /\ signaling' = signaling
    BY <2>1, <2>2, <2>3 DEF IInv, Types, TypeOK, t
  <2>6. heap' \in [Addrs -> WaitType \cup {NULL}] /\ \A b \in Addrs : b # a => heap'[b] = heap[b]
    BY <2>1 DEF IInv, Types, TypeOK
  <2>7. Types'
    <3>1. ASSUME NEW d \in Events PROVE signaling'[d] \in 0..Len(waiters_'[d]) + 1
      <4>1. CASE d = k BY <2>2, <2>5, <4>1
      <4>2. CASE d # k BY <2>5, <4>2 DEF IInv, Types, TypeOK
      <4> QED BY <4>1, <4>2
    <3> QED BY <1>3, <2>1, <2>5, <2>6, <3>1 DEF IInv, Types, TypeOK
  <2>8. Once' BY <2>2, <2>4, <2>5 DEF IInv, Once
  <2>9. \A d \in Events : Live(d)' = IF d = k THEN Live(d) \ {a} ELSE Live(d)
    <3> SUFFICES ASSUME NEW d \in Events
                 PROVE  Live(d)' = IF d = k THEN Live(d) \ {a} ELSE Live(d)
      OBVIOUS
    <3>1. CASE d = k
      <4>1. Live(d)' = Elems(t, 0) BY <2>2, <2>5, <3>1 DEF Live
      <4> QED BY <2>4, <3>1, <4>1
    <3>2. CASE d # k BY <2>5, <3>2 DEF Live
    <3> QED BY <3>1, <3>2
  <2>10. \A d \in Events : \A b \in Live(d) : b # a \/ d = k
    BY <2>2, <2>4, OneWaiter
  <2>11. \A d \in Events : \A b \in Live(d)' :
           b \in Live(d) /\ heap'[b] = heap[b] /\ heap[b].flag # c
    <3> SUFFICES ASSUME NEW d \in Events, NEW b \in Live(d)'
                 PROVE  b \in Live(d) /\ heap'[b] = heap[b] /\ heap[b].flag # c
      OBVIOUS
    <3>1. b \in Live(d) /\ b # a
      <4>1. CASE d = k BY <2>9, <4>1
      <4>2. CASE d # k BY <2>9, <2>10, <4>2
      <4> QED BY <4>1, <4>2
    <3>2. b \in Addrs BY <3>1, TypeFacts DEF IInv
    <3> QED BY <2>2, <2>4, <2>6, <3>1, <3>2, OneWaiter
  <2>12. \A d \in Events : \A b \in Live(d) :
           (b \in Live(d)' /\ heap'[b] = heap[b]) \/ heap[b].flag = c
    <3> SUFFICES ASSUME NEW d \in Events, NEW b \in Live(d), b # a
                 PROVE  b \in Live(d)' /\ heap'[b] = heap[b]
      BY <2>2
    <3>1. b \in Addrs BY TypeFacts DEF IInv
    <3>2. CASE d = k BY <2>6, <2>9, <3>1, <3>2
    <3>3. CASE d # k BY <2>6, <2>9, <3>1, <3>3
    <3> QED BY <3>2, <3>3
  <2>13. \A j \in 1..Len(tasks) : tasks[j].flag # c BY <2>2, <2>4 DEF IInv, NotBoth
  <2>14. /\ \A f \in Flags : f # c => flag_'[f] = flag_[f]
         /\ \A f \in Flags : ~flag_'[f] => ~flag_[f]
    BY <2>1
  <2> HIDE DEF a, s, listed
  <2> QED BY <1>3, <2>7, <2>8, <2>11, <2>12, <2>13, <2>14, LeaveStep
<1>9. CASE c # NULL /\ ~flag_[c] /\ k = NULL /\ CancelTask(w) /\ UNCHANGED <<waiters_, heap>>
  <2>1. \A d \in Events : \A a \in Live(d) : heap[a].flag # c
    BY <1>5, <1>9, WatcherAssumption
  <2> QED BY <1>7, <1>9, <2>1
<1>10. CASE /\ c # NULL /\ ~flag_[c] /\ k # NULL /\ Unlocked(k) /\ listed = {}
            /\ CancelTask(w) /\ UNCHANGED <<waiters_, heap>>
  <2>1. ASSUME NEW d \in Events, NEW a \in Live(d), heap[a].flag = c PROVE FALSE
    <3>1. k = d /\ m.waiter_ = a BY <1>5, <2>1
    <3>2. PICK i \in 1..Len(s) : s[i] = a BY <3>1 DEF Live, Elems, From
    <3> QED BY <1>10, <2>1, <3>1, <3>2 DEF Matches
  <2> QED BY <1>7, <1>10, <2>1
<1>11. \/ UNCHANGED <<waiters_, heap, flag_>> /\ (c = NULL \/ (c # NULL /\ flag_[c]))
       \/ c # NULL /\ ~flag_[c] /\ k = NULL /\ CancelTask(w) /\ UNCHANGED <<waiters_, heap>>
       \/ /\ c # NULL /\ ~flag_[c] /\ k # NULL /\ Unlocked(k) /\ listed = {}
          /\ CancelTask(w) /\ UNCHANGED <<waiters_, heap>>
       \/ /\ c # NULL /\ ~flag_[c] /\ k # NULL /\ Unlocked(k)
          /\ \E i \in listed : /\ waiters_' = [waiters_ EXCEPT ![k] = rest(i)]
                               /\ heap' = [heap EXCEPT ![m.waiter_] = NULL]
                               /\ UNCHANGED flag_
  BY DEF Stop
<1> QED BY <1>6, <1>8, <1>9, <1>10, <1>11

\* The watcher w gets a new watch with a flag that nobody else uses: what the other
\* watches have stays theirs.
LEMMA NewWatchStep ==
    ASSUME IInv, NEW w \in Watchers, NEW f \in Flags, Types', Once', loop = "running",
           loop' = loop, flag_' = [flag_ EXCEPT ![f] = FALSE],
           \A v \in Watchers \ {w} : watcher'[v] = watcher[v],
           \A v \in Watchers \ {w} : watcher[v].cancel_flag_ # f,
           watcher'[w].cancel_flag_ = f,
           \A d \in Events : \A b \in Live(d) : heap[b].flag # f /\ heap[b].watcher # w,
           \A d \in Events : \A b \in Live(d) : b \in Live(d)' /\ heap'[b] = heap[b],
           \A d \in Events : \A b \in Live(d)' : b \in Live(d) \/ WaiterOK(d, b)',
           \A j \in 1..Len(tasks) : j \in 1..Len(tasks') /\ tasks'[j] = tasks[j],
           \A j \in 1..Len(tasks) :
               tasks[j].flag # f /\ (tasks[j].watcher = w => flag_[tasks[j].flag]),
           \A j \in 1..Len(tasks') :
               j \in 1..Len(tasks) \/ (tasks'[j].flag = f /\ tasks'[j].watcher = w),
           PostedOnce', NotBoth', WillBeTold(w)'
    PROVE  IInv'
<1>1. \A g \in Flags : g # f => flag_'[g] = flag_[g] BY DEF IInv, Types, TypeOK
<1>2. WaitersOK'
  <2> SUFFICES ASSUME NEW d \in Events, NEW b \in Live(d) PROVE WaiterOK(d, b)'
    BY DEF WaitersOK
  <2>1. heap[b] \in WaitType /\ WaiterOK(d, b) /\ heap'[b] = heap[b]
    BY TypeFacts DEF IInv, WaitersOK, WaiterOK
  <2>2. heap[b].flag \in Flags \ {f} /\ heap[b].watcher \in Watchers \ {w}
    BY <2>1 DEF WaitType
  <2> QED BY <1>1, <2>1, <2>2 DEF WaiterOK
<1>3. OwnFlag'
  <2> SUFFICES ASSUME NEW u \in Watchers, NEW v \in Watchers, watcher'[u].cancel_flag_ # NULL,
                      watcher'[u].cancel_flag_ = watcher'[v].cancel_flag_
               PROVE  u = v
    BY DEF OwnFlag
  <2>1. CASE u = w \/ v = w BY <2>1
  <2>2. CASE u # w /\ v # w BY <2>2 DEF IInv, OwnFlag
  <2> QED BY <2>1, <2>2
<1>4. NoCallbackAfterStop'
  <2> SUFFICES ASSUME NEW j \in 1..Len(tasks'), ~flag_'[tasks'[j].flag]
               PROVE  watcher'[tasks'[j].watcher].cancel_flag_ = tasks'[j].flag
    BY DEF NoCallbackAfterStop
  <2>1. CASE j \in 1..Len(tasks)
    <3>1. tasks[j] \in WaitType /\ tasks'[j] = tasks[j] /\ tasks[j].flag # f
      BY <2>1, TypeFacts DEF IInv
    <3>2. ~flag_[tasks[j].flag] BY <1>1, <3>1 DEF WaitType
    <3>3. tasks[j].watcher \in Watchers \ {w} BY <2>1, <3>1, <3>2 DEF WaitType
    <3> QED BY <2>1, <3>1, <3>2, <3>3 DEF IInv, NoCallbackAfterStop
  <2> QED BY <2>1
<1>5. Told'
  <2> SUFFICES ASSUME NEW v \in Watchers \ {w}, Watching(v)' PROVE WillBeTold(v)'
    BY DEF Told
  <2>1. watcher[v].cancel_flag_ \in Flags \ {f} BY TypeFacts DEF Watching, IInv
  <2>2. WillBeTold(v) BY <1>1, <2>1 DEF Watching, IInv, Told
  <2> QED BY <2>2 DEF WillBeTold
<1>6. Quiet' BY DEF Quiet
<1> QED BY <1>2, <1>3, <1>4, <1>5, <1>6 DEF IInv

LEMMA StartWatchingStep ==
    ASSUME IInv, NEW w \in Watchers, NEW e \in Events, StartWatching(w, e)
    PROVE  IInv'
<1> DEFINE last == watcher[w].cancel_flag_
           over == last # NULL /\ flag_[last]
           n == Len(tasks)
           new(f) == [flag |-> f, watcher |-> w, event |-> e]
           WType == [cancel_flag_ : Flags \cup {NULL}, kernel_ : Events \cup {NULL},
                     waiter_ : Addrs \cup {NULL}, message_loop_ : BOOLEAN]
<1>1. /\ loop = "running" /\ signaling[e] = 0 /\ (last = NULL \/ over)
      /\ UNCHANGED <<signaling, alive, loop>>
  BY DEF StartWatching, Unlocked
<1>2. PICK f \in Flags :
        /\ f \in FreeFlags \/ (f = last /\ over /\ \A i \in 1..n : tasks[i].flag # last)
        /\ flag_' = [flag_ EXCEPT ![f] = FALSE]
        /\ \/ /\ signaled_[e]
              /\ signaled_' = [signaled_ EXCEPT ![e] = e \in Manual]
              /\ tasks' = Append(tasks, new(f))
              /\ watcher' = [watcher EXCEPT ![w].cancel_flag_ = f,
                               ![w].message_loop_ = @ /\ ~over]
              /\ UNCHANGED <<waiters_, heap>>
           \/ /\ ~signaled_[e]
              /\ EnqueueWaiter(w, e, f)
              /\ UNCHANGED <<signaled_, tasks>>
  <2>1. FreeFlags \subseteq Flags BY DEF FreeFlags
  <2>2. over => last \in Flags BY TypeFacts DEF IInv
  <2> QED BY <2>1, <2>2 DEF StartWatching
<1>3. \A d \in Events : \A b \in Live(d) :
        /\ heap[b] \in WaitType /\ WaiterOK(d, b) /\ heap[b].flag \in Flags
        /\ heap[b].watcher \in Watchers \ {w}
  <2> SUFFICES ASSUME NEW d \in Events, NEW b \in Live(d)
               PROVE  /\ heap[b] \in WaitType /\ WaiterOK(d, b) /\ heap[b].flag \in Flags
                      /\ heap[b].watcher \in Watchers \ {w}
    OBVIOUS
  <2>1. heap[b] \in WaitType /\ WaiterOK(d, b)
    BY TypeFacts DEF IInv, WaitersOK, WaiterOK
  <2> QED BY <1>1, <2>1, WatcherAssumption DEF WaiterOK, WaitType
<1>4. \A v \in Watchers \ {w} : watcher[v].cancel_flag_ # f
  BY <1>2 DEF FreeFlags, IInv, OwnFlag
<1>5. /\ n \in Nat
      /\ \A j \in 1..n :
           tasks[j].flag # f /\ (tasks[j].watcher = w => flag_[tasks[j].flag])
  <2>1. \A j \in 1..n : tasks[j].flag # f BY <1>2 DEF FreeFlags
  <2>2. \A j \in 1..n : tasks[j] \in WaitType BY TypeFacts DEF IInv
  <2>3. \A j \in 1..n : tasks[j].watcher = w => flag_[tasks[j].flag]
    BY <1>1, <2>2, WatcherAssumption DEF IInv, NoCallbackAfterStop, WaitType
  <2> QED BY <2>1, <2>3, TypeFacts DEF IInv
<1>6. \A d \in Events : \A b \in Live(d) : heap[b].flag # f /\ heap[b].watcher # w
  BY <1>3, <1>4 DEF WaiterOK
<1>7. flag_' \in [Flags -> BOOLEAN] /\ \A g \in Flags : g # f => flag_'[g] = flag_[g]
  BY <1>2 DEF IInv, Types, TypeOK
<1>8. CASE /\ signaled_' = [signaled_ EXCEPT ![e] = e \in Manual]
           /\ tasks' = Append(tasks, new(f))
           /\ watcher' = [watcher EXCEPT ![w].cancel_flag_ = f,
                               ![w].message_loop_ = @ /\ ~over]
           /\ UNCHANGED <<waiters_, heap>>
  <2>1. /\ new(f) \in WaitType /\ new(f).flag = f /\ new(f).watcher = w BY DEF WaitType
  <2> HIDE DEF new
  <2>2. /\ tasks' \in Seq(WaitType) /\ Len(tasks') = n + 1 /\ tasks'[n + 1] = new(f)
        /\ \A j \in 1..n : tasks'[j] = tasks[j]
    BY <1>8, <2>1 DEF IInv, Types, TypeOK
  <2>3. \E x \in WType : x.cancel_flag_ = f /\ watcher' = [watcher EXCEPT ![w] = x]
    <3> DEFINE x == [watcher[w] EXCEPT !.cancel_flag_ = f,
                                       !.message_loop_ = watcher[w].message_loop_ /\ ~over]
    <3>1. watcher \in [Watchers -> WType] BY DEF IInv, Types, TypeOK
    <3>2. (watcher[w].message_loop_ /\ ~over) \in BOOLEAN OBVIOUS
    <3>3. x \in WType /\ x.cancel_flag_ = f
      <4> HIDE DEF over
      <4> QED BY <3>1, <3>2
    <3>4. watcher' = [watcher EXCEPT ![w] = x] BY <1>8, <3>1
    <3> QED BY <3>3, <3>4
  <2>4. /\ watcher' \in [Watchers -> WType] /\ watcher'[w].cancel_flag_ = f
        /\ \A v \in Watchers \ {w} : watcher'[v] = watcher[v]
    BY <2>3 DEF IInv, Types, TypeOK
  <2>5. Types' BY <1>1, <1>7, <1>8, <2>2, <2>4 DEF IInv, Types, TypeOK
  <2>6. Once' /\ \A d \in Events : Live(d)' = Live(d)
    BY <1>1, <1>8 DEF IInv, Once, Live
  <2>7. /\ \A j \in 1..n : j \in 1..Len(tasks') /\ tasks'[j] = tasks[j]
        /\ \A j \in 1..Len(tasks') : j \in 1..n \/ j = n + 1
        /\ n + 1 \in 1..Len(tasks')
    BY <1>5, <2>2
  <2>8. PostedOnce'
    <3> SUFFICES ASSUME NEW i \in 1..Len(tasks'), NEW j \in 1..Len(tasks'),
                        tasks'[i].flag = tasks'[j].flag, ~flag_'[tasks'[i].flag]
                 PROVE  i = j
      BY DEF PostedOnce
    <3>1. CASE i \in 1..n /\ j \in 1..n
      <4>1. tasks[i].flag \in Flags BY <3>1, TypeFacts DEF IInv, WaitType
      <4>2. tasks[i].flag = tasks[j].flag /\ ~flag_[tasks[i].flag]
        BY <1>5, <1>7, <2>7, <3>1, <4>1
      <4> QED BY <3>1, <4>2 DEF IInv, PostedOnce
    <3>2. CASE i = n + 1 /\ j \in 1..n BY <1>5, <2>1, <2>2, <2>7, <3>2
    <3>3. CASE i \in 1..n /\ j = n + 1 BY <1>5, <2>1, <2>2, <2>7, <3>3
    <3> QED BY <2>7, <3>1, <3>2, <3>3
  <2>9. NotBoth'
    <3> SUFFICES ASSUME NEW d \in Events, NEW b \in Live(d), NEW j \in 1..Len(tasks')
                 PROVE  tasks'[j].flag # heap[b].flag
      BY <1>8, <2>6 DEF NotBoth
    <3>1. CASE j \in 1..n BY <2>7, <3>1 DEF IInv, NotBoth
    <3>2. CASE j = n + 1 BY <1>6, <2>1, <2>2, <3>2
    <3> QED BY <2>7, <3>1, <3>2
  <2>10. WillBeTold(w)' BY <2>1, <2>2, <2>4, <2>7 DEF WillBeTold
  <2>11. \A j \in 1..Len(tasks') : j \in 1..n \/ (tasks'[j].flag = f /\ tasks'[j].watcher = w)
    BY <2>1, <2>2, <2>7
  <2>12. \A d \in Events : \A b \in Live(d) : b \in Live(d)' /\ heap'[b] = heap[b]
    BY <1>8, <2>6
  <2>13. \A d \in Events : \A b \in Live(d)' : b \in Live(d) \/ WaiterOK(d, b)' BY <2>6
  <2>14. \A j \in 1..n : j \in 1..Len(tasks') /\ tasks'[j] = tasks[j] BY <2>7
  <2> QED BY <1>1, <1>2, <1>4, <1>5, <1>6, <2>4, <2>5, <2>6, <2>8, <2>9, <2>10, <2>11,
             <2>12, <2>13, <2>14, NewWatchStep
<1>9. CASE EnqueueWaiter(w, e, f) /\ UNCHANGED <<signaled_, tasks>>
  <2> DEFINE s == waiters_[e]
  <2>1. PICK a \in FreeAddrs :
          /\ heap' = [heap EXCEPT ![a] = new(f)]
          /\ waiters_' = [waiters_ EXCEPT ![e] = Append(s, a)]
          /\ watcher' = [watcher EXCEPT ![w] = [cancel_flag_ |-> f, kernel_ |-> e,
                                               waiter_ |-> a, message_loop_ |-> TRUE]]
    BY <1>9 DEF EnqueueWaiter
  <2> DEFINE x == [cancel_flag_ |-> f, kernel_ |-> e, waiter_ |-> a, message_loop_ |-> TRUE]
  <2>2. /\ new(f) \in WaitType /\ new(f).flag = f /\ new(f).watcher = w /\ new(f) # NULL
        /\ a \in Addrs /\ heap[a] = NULL
    <3>1. new(f) \in WaitType BY DEF WaitType
    <3>2. a \in Addrs /\ heap[a] = NULL BY DEF FreeAddrs
    <3> QED BY <3>1, <3>2, WatcherAssumption
  <2>3. /\ x \in WType /\ x.cancel_flag_ = f /\ x.kernel_ = e /\ x.waiter_ = a
        /\ x.message_loop_
    BY <2>2
  <2> HIDE DEF new, x
  <2>4. /\ s \in Seq(Addrs) /\ Distinct(s, 0) /\ Live(e) = Elems(s, 0)
    BY <1>1, TypeFacts DEF IInv, Once, Live
  <2>5. \A d \in Events : a \notin Live(d) BY <1>3, <2>2 DEF WaiterOK
  <2>6. /\ Append(s, a) \in Seq(Addrs) /\ Distinct(Append(s, a), 0)
        /\ Elems(Append(s, a), 0) = Elems(s, 0) \cup {a}
    BY <2>2, <2>4, <2>5, ElemsAppend
  <2>7. /\ waiters_'[e] = Append(s, a) /\ \A d \in Events \ {e} : waiters_'[d] = waiters_[d]
        /\ waiters_' \in [Events -> Seq(Addrs)] /\ Len(Append(s, a)) \in Nat
    BY <2>1, <2>6 DEF IInv, Types, TypeOK
  <2>8. /\ heap'[a] = new(f) /\ \A b \in Addrs : b # a => heap'[b] = heap[b]
        /\ heap' \in [Addrs -> WaitType \cup {NULL}]
    BY <2>1, <2>2 DEF IInv, Types, TypeOK
  <2>9. /\ watcher' \in [Watchers -> WType] /\ watcher'[w] = x
        /\ \A v \in Watchers \ {w} : watcher'[v] = watcher[v]
    BY <2>1, <2>3 DEF IInv, Types, TypeOK, x
  <2>10. Types'
    <3>1. ASSUME NEW d \in Events PROVE signaling'[d] \in 0..Len(waiters_'[d]) + 1
      <4>1. CASE d = e BY <1>1, <2>7, <4>1
      <4>2. CASE d # e BY <1>1, <2>7, <4>2 DEF IInv, Types, TypeOK
      <4> QED BY <4>1, <4>2
    <3> QED BY <1>1, <1>7, <1>9, <2>7, <2>8, <2>9, <3>1 DEF IInv, Types, TypeOK
  <2>11. Once' BY <1>1, <2>6, <2>7 DEF IInv, Once
  <2>12. Live(e)' = Live(e) \cup {a} /\ \A d \in Events \ {e} : Live(d)' = Live(d)
    BY <1>1, <2>4, <2>6, <2>7 DEF Live
  <2>13. WaiterOK(e, a)'
    <3>1. ~flag_'[f] BY <1>2 DEF IInv, Types, TypeOK
    <3> QED BY <2>2, <2>3, <2>8, <2>9, <3>1 DEF WaiterOK
  <2>14. \A d \in Events : \A b \in Live(d) : b \in Live(d)' /\ heap'[b] = heap[b]
    BY <2>5, <2>8, <2>12, TypeFacts DEF IInv
  <2>15. \A d \in Events : \A b \in Live(d)' : b \in Live(d) \/ (d = e /\ b = a)
    BY <2>12
  <2>16. \A d \in Events : \A b \in Live(d)' : b \in Live(d) \/ WaiterOK(d, b)'
    BY <2>13, <2>15
  <2>17. PostedOnce'
    <3> SUFFICES ASSUME NEW i \in 1..n, NEW j \in 1..n,
                        tasks[i].flag = tasks[j].flag, ~flag_'[tasks[i].flag]
                 PROVE  i = j
      BY <1>9 DEF PostedOnce
    <3>1. tasks[i].flag \in Flags BY TypeFacts DEF IInv, WaitType
    <3> QED BY <1>5, <1>7, <3>1 DEF IInv, PostedOnce
  <2>18. NotBoth'
    <3> SUFFICES ASSUME NEW d \in Events, NEW b \in Live(d)', NEW j \in 1..n
                 PROVE  tasks[j].flag # heap'[b].flag
      BY <1>9 DEF NotBoth
    <3>1. CASE b \in Live(d) BY <2>14, <3>1 DEF IInv, NotBoth
    <3>2. CASE b = a BY <1>5, <2>2, <2>8, <3>2
    <3> QED BY <2>15, <3>1, <3>2
  <2>19. WillBeTold(w)'
    <3>1. a \in Live(e)' /\ heap'[a].flag = watcher'[w].cancel_flag_
      BY <2>2, <2>3, <2>8, <2>9, <2>12
    <3> QED BY <3>1 DEF WillBeTold
  <2>20. /\ \A j \in 1..n : j \in 1..Len(tasks') /\ tasks'[j] = tasks[j]
         /\ \A j \in 1..Len(tasks') :
              j \in 1..n \/ (tasks'[j].flag = f /\ tasks'[j].watcher = w)
    BY <1>9
  <2>21. watcher'[w].cancel_flag_ = f BY <2>3, <2>9
  <2> QED BY <1>1, <1>2, <1>4, <1>5, <1>6, <2>9, <2>10, <2>11, <2>14, <2>16, <2>17,
             <2>18, <2>19, <2>20, <2>21, NewWatchStep
<1> QED BY <1>2, <1>8, <1>9

-----------------------------------------------------------------------------
(* The steps of the message loop.                                          *)

LEMMA RunTaskStep ==
    ASSUME IInv, RunTask
    PROVE  IInv'
<1> DEFINE n == Len(tasks)
           f == Head(tasks).flag
<1>1. /\ n \in Nat /\ n >= 1 /\ Head(tasks) = tasks[1] /\ f \in Flags
      /\ tasks' \in Seq(WaitType) /\ Len(tasks') = n - 1
      /\ \A j \in 1..(n - 1) : tasks'[j] = tasks[j + 1]
  <2>1. tasks \in Seq(WaitType) /\ tasks # <<>> /\ tasks' = Tail(tasks)
    BY DEF RunTask, IInv, Types, TypeOK
  <2>2. n \in Nat /\ n >= 1 /\ Head(tasks) = tasks[1] /\ Head(tasks) \in WaitType BY <2>1
  <2>3. /\ tasks' \in Seq(WaitType) /\ Len(tasks') = n - 1
        /\ \A j \in 1..(n - 1) : tasks'[j] = tasks[j + 1]
    BY <2>1
  <2> QED BY <2>2, <2>3 DEF WaitType
<1>2. /\ flag_' \in [Flags -> BOOLEAN] /\ flag_'[f]
      /\ \A g \in Flags : g # f => flag_'[g] = flag_[g]
      /\ \A g \in Flags : ~flag_'[g] => ~flag_[g] /\ g # f
  BY <1>1 DEF RunTask, IInv, Types, TypeOK
<1>3. \A j \in 1..n : tasks[j].flag \in Flags BY TypeFacts DEF IInv, WaitType
<1>4. \A j \in 1..(n - 1) : j + 1 \in 1..n /\ tasks'[j] = tasks[j + 1] BY <1>1
<1>5. Types' BY <1>1, <1>2 DEF RunTask, kernelVars, IInv, Types, TypeOK
<1>6. Once' /\ (\A d \in Events : Live(d)' = Live(d)) /\ UNCHANGED <<heap, watcher, loop>>
  BY DEF RunTask, kernelVars, IInv, Once, Live
<1>7. \A d \in Events : \A b \in Live(d) : heap[b].flag \in Flags \ {f} /\ WaiterOK(d, b)
  <2> SUFFICES ASSUME NEW d \in Events, NEW b \in Live(d)
               PROVE  heap[b].flag \in Flags \ {f} /\ WaiterOK(d, b)
    OBVIOUS
  <2>1. heap[b] \in WaitType /\ WaiterOK(d, b)
    BY TypeFacts DEF IInv, WaitersOK, WaiterOK
  <2>2. 1 \in 1..n BY <1>1
  <2> QED BY <1>1, <2>1, <2>2 DEF IInv, NotBoth, WaitType
<1> HIDE DEF n, f
<1>8. WaitersOK' BY <1>2, <1>6, <1>7 DEF WaitersOK, WaiterOK
<1>9. OwnFlag' BY <1>6 DEF IInv, OwnFlag
<1>10. NoCallbackAfterStop'
  BY <1>1, <1>2, <1>3, <1>4, <1>6 DEF IInv, NoCallbackAfterStop, n
<1>11. PostedOnce'
  <2> SUFFICES ASSUME NEW i \in 1..(n - 1), NEW j \in 1..(n - 1),
                      tasks'[i].flag = tasks'[j].flag, ~flag_'[tasks'[i].flag]
               PROVE  i = j
    BY <1>1 DEF PostedOnce
  <2>1. i + 1 = j + 1 BY <1>2, <1>3, <1>4 DEF IInv, PostedOnce, n
  <2> QED BY <2>1
<1>12. NotBoth' BY <1>1, <1>4, <1>6 DEF IInv, NotBoth, n
<1>13. Told'
  <2> SUFFICES ASSUME loop # "gone", NEW w \in Watchers, Watching(w)'
               PROVE  WillBeTold(w)'
    BY <1>6 DEF Told
  <2>1. watcher[w].cancel_flag_ \in Flags \ {f} /\ ~flag_[watcher[w].cancel_flag_]
    BY <1>2, <1>6, TypeFacts DEF Watching, IInv
  <2>2. WillBeTold(w) BY <2>1, WatcherAssumption DEF Watching, IInv, Told
  <2>3. ASSUME NEW j \in 1..n, tasks[j].flag = watcher[w].cancel_flag_
        PROVE  WillBeTold(w)'
    <3>1. j # 1 BY <1>1, <2>1, <2>3 DEF f
    <3>2. j - 1 \in 1..Len(tasks') /\ tasks'[j - 1] = tasks[j] BY <1>1, <3>1
    <3> QED BY <1>6, <2>3, <3>2 DEF WillBeTold
  <2> QED BY <1>6, <2>2, <2>3 DEF WillBeTold, n
<1>14. Quiet' BY <1>6 DEF IInv, Quiet
<1> QED BY <1>5, <1>6, <1>8, <1>9, <1>10, <1>11, <1>12, <1>13, <1>14 DEF IInv

\* When the loop is gone nobody observes it any more, hence no waiter is left.
LEMMA DestroyStep ==
    ASSUME IInv, BeginDestroy \/ EndDestroy
    PROVE  IInv'
<1>1. /\ Types' /\ Once' /\ (\A d \in Events : Live(d)' = Live(d))
      /\ UNCHANGED <<heap, flag_, watcher>>
  <2>1. tasks' \in Seq(WaitType)
    <3>1. tasks \in Seq(WaitType) BY DEF IInv, Types, TypeOK
    <3>2. <<>> \in Seq(WaitType) BY EmptySeq
    <3>3. CASE BeginDestroy BY <3>1, <3>3 DEF BeginDestroy
    <3>4. CASE EndDestroy BY <3>2, <3>4 DEF EndDestroy
    <3> QED BY <3>3, <3>4
  <2>2. UNCHANGED <<signaled_, waiters_, signaling, alive, heap, flag_, watcher>>
    BY DEF BeginDestroy, EndDestroy, kernelVars
  <2>3. loop' \in {"running", "destroying", "gone"} BY DEF BeginDestroy, EndDestroy
  <2>4. Types' BY <2>1, <2>2, <2>3 DEF IInv, Types, TypeOK
  <2> QED BY <2>2, <2>4 DEF IInv, Once, Live
<1>2. WaitersOK' /\ OwnFlag' BY <1>1 DEF IInv, WaitersOK, WaiterOK, OwnFlag
<1>3. CASE BeginDestroy
  <2>1. NoCallbackAfterStop' /\ PostedOnce'
    BY <1>1, <1>3 DEF BeginDestroy, IInv, NoCallbackAfterStop, PostedOnce
  <2>2. NotBoth' BY <1>1, <1>3 DEF BeginDestroy, IInv, NotBoth
  <2>3. Told' BY <1>1, <1>3 DEF BeginDestroy, IInv, Told, Watching, WillBeTold
  <2>4. Quiet' BY <1>3 DEF BeginDestroy, Quiet
  <2> QED BY <1>1, <1>2, <2>1, <2>2, <2>3, <2>4 DEF IInv
<1>4. CASE EndDestroy
  <2>1. tasks' = <<>> /\ loop' = "gone" BY <1>4 DEF EndDestroy
  <2>2. NoCallbackAfterStop' /\ PostedOnce' /\ NotBoth' /\ Told'
    BY <2>1 DEF NoCallbackAfterStop, PostedOnce, NotBoth, Told
  <2>3. Quiet'
    <3> SUFFICES ASSUME NEW d \in Events, NEW b \in Live(d) PROVE FALSE
      BY <1>1 DEF Quiet
    <3>1. heap[b] \in WaitType /\ WaiterOK(d, b)
      BY TypeFacts DEF IInv, WaitersOK, WaiterOK
    <3> QED BY <1>4, <3>1 DEF WaiterOK, WaitType, EndDestroy
  <2> QED BY <1>1, <1>2, <2>2, <2>3 DEF IInv
<1> QED BY <1>3, <1>4

-----------------------------------------------------------------------------
(* The theorems.                                                           *)

LEMMA InitIInv == Init => IInv
<1> SUFFICES ASSUME Init PROVE IInv
  OBVIOUS
<1>1. Types BY WatcherAssumption DEF Init, Types, TypeOK, NotWatching
<1>2. \A e \in Events : Live(e) = {} /\ Distinct(waiters_[e], signaling[e])
  BY DEF Init, Live, Elems, From, Distinct
<1>3. OwnFlag /\ Told
  BY DEF Init, OwnFlag, NotWatching, Told, Watching
<1> QED BY <1>1, <1>2, <1>3
        DEF Init, IInv, Once, WaitersOK, NoCallbackAfterStop, PostedOnce, NotBoth, Quiet

LEMMA NextIInv == IInv /\ [Next]_vars => IInv'
<1> SUFFICES ASSUME IInv, [Next]_vars PROVE IInv'
  OBVIOUS
<1>1. CASE UNCHANGED vars
  <2>1. Types' /\ Once' /\ (\A e \in Events : Live(e)' = Live(e))
        /\ UNCHANGED <<heap, flag_, tasks, watcher, loop>>
    BY <1>1 DEF vars, IInv, Types, TypeOK, Once, Live
  <2> QED BY <2>1, SameStep
<1>2. ASSUME NEW e \in Events,
             \/ SignalAuto(e) \/ SignalManual(e) \/ SignalAll(e) \/ Reset(e)
             \/ DeleteEvent(e)
      PROVE  IInv'
  BY <1>2, SignalAutoStep, SignalManualStep, SignalAllStep, EventStep
<1>3. ASSUME NEW e \in Events, NEW w \in Watchers, StartWatching(w, e) PROVE IInv'
  BY <1>3, StartWatchingStep
<1>4. ASSUME NEW w \in Watchers,
             StopWatching(w) \/ DeleteWatcher(w) \/ WillDestroyCurrentMessageLoop(w)
      PROVE  IInv'
  BY <1>4, StopStep DEF StopWatching, DeleteWatcher, WillDestroyCurrentMessageLoop
<1>5. CASE RunTask BY <1>5, RunTaskStep
<1>6. CASE BeginDestroy \/ EndDestroy BY <1>6, DestroyStep
<1> QED BY <1>1, <1>2, <1>3, <1>4, <1>5, <1>6 DEF Next

LEMMA AlwaysIInv == Spec => []IInv
BY InitIInv, NextIInv, PTL DEF Spec

\* The members of watchers, waiters, tasks and events have their types in every
\* state, and SignalAll never runs past the list.
THEOREM WatcherTypes == Spec => []TypeOK
<1>1. IInv => TypeOK BY DEF IInv, Types
<1> QED BY <1>1, AlwaysIInv, PTL

\* After StopWatching or the destructor no task that is on its way calls the
\* delegate: a task whose flag is not set is of the watch its watcher is on.
THEOREM StoppedWatchesStaySilent == Spec => []NoCallbackAfterStop
<1>1. IInv => NoCallbackAfterStop BY DEF IInv
<1> QED BY <1>1, AlwaysIInv, PTL

\* A signal reads no deleted waiter and fires none of a watch that is over, although
\* the addresses of waiters and flags are reused.
THEOREM WaitersAreCurrent == Spec => []WaitersCurrent
<1>1. IInv => WaitersCurrent
  <2> SUFFICES ASSUME IInv, NEW e \in Events, NEW i \in Pending(e)
               PROVE  waiters_[e][i] \in Live(e)
    BY DEF WaitersCurrent, IInv, WaitersOK, WaiterOK
  <2> QED BY DEF Pending, Live, Elems, From
<1> QED BY <1>1, AlwaysIInv, PTL

\* While the loop runs, a watch that is on has exactly one waiter in the list of one
\* event, or exactly one task: it will be told, once.
THEOREM WatchesAreNotForgotten == Spec => []WatchNotForgotten
<1>1. IInv => WatchNotForgotten
  <2> SUFFICES ASSUME IInv, loop = "running", NEW w \in Watchers, Watching(w)
               PROVE  LET f == watcher[w].cancel_flag_
                          posted == {i \in 1..Len(tasks) : tasks[i].flag = f}
                          listed == {e \in Events : \E i \in Pending(e) :
                                       /\ waiters_[e][i] = watcher[w].waiter_
                                       /\ heap[waiters_[e][i]] # NULL
                                       /\ heap[waiters_[e][i]].flag = f}
                      IN  \/ listed = {} /\ \E i \in posted : posted = {i}
                          \/ posted = {} /\ \E e \in listed : listed = {e}
    BY DEF WatchNotForgotten
  <2> DEFINE f == watcher[w].cancel_flag_
             posted == {i \in 1..Len(tasks) : tasks[i].flag = f}
             listed == {e \in Events : \E i \in Pending(e) :
                          /\ waiters_[e][i] = watcher[w].waiter_
                          /\ heap[waiters_[e][i]] # NULL
                          /\ heap[waiters_[e][i]].flag = f}
  <2>1. f \in Flags /\ ~flag_[f] BY TypeFacts DEF IInv, Watching
  <2>2. \A e \in Events : e \in listed <=> \E a \in Live(e) : heap[a].flag = f
    <3> SUFFICES ASSUME NEW e \in Events
                 PROVE  e \in listed <=> \E a \in Live(e) : heap[a].flag = f
      OBVIOUS
    <3>1. ASSUME NEW a \in Live(e), heap[a].flag = f PROVE e \in listed
      <4>1. heap[a] \in WaitType /\ WaiterOK(e, a)
        BY TypeFacts DEF IInv, WaitersOK, WaiterOK
      <4>2. heap[a].watcher = w
        BY <2>1, <3>1, <4>1, WatcherAssumption DEF WaiterOK, WaitType, IInv, OwnFlag
      <4>3. PICK i \in Pending(e) : waiters_[e][i] = a BY DEF Live, Elems, From, Pending
      <4> QED BY <3>1, <4>1, <4>2, <4>3 DEF WaiterOK
    <3>2. ASSUME e \in listed PROVE \E a \in Live(e) : heap[a].flag = f
      BY <3>2 DEF Live, Elems, From, Pending
    <3> QED BY <3>1, <3>2
  <2>3. WillBeTold(w) BY DEF IInv, Told
  <2>4. listed \subseteq Events OBVIOUS
  <2>5. \A d, e \in listed : d = e BY <2>2, <2>4, OneWaiter
  <2>6. listed # {} => posted = {} BY <2>2, <2>4 DEF IInv, NotBoth
  <2>7. \A i, j \in posted : i = j BY <2>1 DEF IInv, PostedOnce
  <2>8. listed # {} \/ posted # {} BY <2>2, <2>3 DEF WillBeTold
  <2> HIDE DEF listed, posted, f
  <2>9. \/ listed = {} /\ \E i \in posted : posted = {i}
        \/ posted = {} /\ \E e \in listed : listed = {e}
    BY <2>5, <2>6, <2>7, <2>8
  <2> QED BY <2>9 DEF listed, posted, f
<1> QED BY <1>1, AlwaysIInv, PTL

\* No signal posts to a message loop that is gone.
THEOREM DeadLoopIsQuiet == Spec => []NothingPostsToDeadLoop
<1>1. IInv => NothingPostsToDeadLoop
  BY DEF IInv, Quiet, NothingPostsToDeadLoop, Live, Elems, From, Pending
<1> QED BY <1>1, AlwaysIInv, PTL

=============================================================================
