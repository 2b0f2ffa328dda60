----------------------------- MODULE EventWatcher -----------------------------
(***************************************************************************)
(* base/waitable_event_watcher_posix.cc: waiting for an event without      *)
(* blocking.  Watchers live on the thread of one message loop; events are  *)
(* signaled by any thread.  A watch puts an AsyncWaiter, on the heap, into *)
(* the list of the event; a signal posts the watch's task to the loop and  *)
(* deletes the waiter; the task calls the delegate unless the Flag of the  *)
(* watch says that it was stopped.                                         *)
(*                                                                         *)
(* Addresses of AsyncWaiters and of Flags are reused as soon as nobody     *)
(* owns the old object: a watcher keeps the pointer to its last waiter, so  *)
(* it may point to the waiter of another watch.                            *)
(*                                                                         *)
(* The actions of the watchers are those of the loop's thread, each atomic *)
(* because it takes at most one lock, held to its end.  Of the other       *)
(* threads only SignalAll can be seen in the middle.                       *)
(***************************************************************************)
EXTENDS Naturals, Sequences

CONSTANTS
    Watchers,
    Events,
    Manual,         \* the events with manual_reset_
    Flags,          \* addresses for Flag objects
    Addrs,          \* addresses for AsyncWaiter objects
    NULL

\* An AsyncWaiter, and the AsyncCallbackTask made with it.
WaitType == [flag : Flags, watcher : Watchers, event : Events]

ASSUME WatcherAssumption ==
    /\ Manual \subseteq Events
    /\ NULL \notin Flags \cup Addrs \cup Events /\ NULL \notin WaitType

VARIABLES
    signaled_,      \* of the kernel of every event
    waiters_,       \* of the kernel of every event: addresses
    signaling,      \* of every event: 0, or the next waiter SignalAll will fire
    alive,          \* the events that were not deleted
    heap,           \* the AsyncWaiter at every address
    flag_,          \* the value of every Flag
    tasks,          \* AsyncCallbackTasks in the queue of the message loop
    watcher,        \* the members of every WaitableEventWatcher
    loop            \* "running", "destroying", "gone"

kernelVars == <<signaled_, waiters_, signaling>>
vars == <<signaled_, waiters_, signaling, alive, heap, flag_, tasks, watcher, loop>>

NotWatching == [cancel_flag_ |-> NULL, kernel_ |-> NULL, waiter_ |-> NULL,
                message_loop_ |-> FALSE]

\* The addresses where a new Flag or AsyncWaiter may be placed.
FreeFlags == {f \in Flags : /\ \A w \in Watchers : watcher[w].cancel_flag_ # f
                            /\ \A a \in Addrs : heap[a] # NULL => heap[a].flag # f
                            /\ \A i \in 1..Len(tasks) : tasks[i].flag # f}
FreeAddrs == {a \in Addrs : heap[a] = NULL}

Unlocked(e) == signaling[e] = 0

-----------------------------------------------------------------------------
(* Signals, from any thread.                                               *)

\* AsyncWaiter::Fire: the task is posted, or deleted when the watch was stopped,
\* and the waiter deletes itself.
Fire(a) ==
    /\ tasks' = IF flag_[heap[a].flag] THEN tasks ELSE Append(tasks, heap[a])
    /\ heap' = [heap EXCEPT ![a] = NULL]

\* Signal of an automatic event: SignalOne, to which an AsyncWaiter never says
\* no.
SignalAuto(e) ==
    /\ e \in alive \ Manual /\ Unlocked(e) /\ ~signaled_[e]
    /\ \/ /\ waiters_[e] # <<>>
          /\ Fire(Head(waiters_[e]))
          /\ waiters_' = [waiters_ EXCEPT ![e] = Tail(@)]
          /\ UNCHANGED signaled_
       \/ /\ waiters_[e] = <<>>
          /\ signaled_' = [signaled_ EXCEPT ![e] = TRUE]
          /\ UNCHANGED <<heap, tasks, waiters_>>
    /\ UNCHANGED <<signaling, alive, flag_, watcher, loop>>

\* Mutant: the first waiter is skipped.
SignalManualFromSecond(e) ==
    /\ e \in alive \cap Manual /\ Unlocked(e) /\ ~signaled_[e]
    /\ signaling' = [signaling EXCEPT ![e] = 2]
    /\ UNCHANGED <<signaled_, waiters_, alive, heap, flag_, tasks, watcher, loop>>

SignalManual(e) ==
    /\ e \in alive \cap Manual /\ Unlocked(e) /\ ~signaled_[e]
    /\ signaling' = [signaling EXCEPT ![e] = 1]
    /\ UNCHANGED <<signaled_, waiters_, alive, heap, flag_, tasks, watcher, loop>>

SignalAll(e) ==
    /\ ~Unlocked(e)
    /\ \/ /\ signaling[e] <= Len(waiters_[e])
          /\ Fire(waiters_[e][signaling[e]])
          /\ signaling' = [signaling EXCEPT ![e] = @ + 1]
          /\ UNCHANGED <<signaled_, waiters_>>
       \/ /\ signaling[e] > Len(waiters_[e])
          /\ waiters_' = [waiters_ EXCEPT ![e] = <<>>]
          /\ signaled_' = [signaled_ EXCEPT ![e] = TRUE]
          /\ signaling' = [signaling EXCEPT ![e] = 0]
          /\ UNCHANGED <<heap, tasks>>
    /\ UNCHANGED <<alive, flag_, watcher, loop>>

Reset(e) ==
    /\ e \in alive /\ Unlocked(e)
    /\ signaled_' = [signaled_ EXCEPT ![e] = FALSE]
    /\ UNCHANGED <<waiters_, signaling, alive, heap, flag_, tasks, watcher, loop>>

\* The WaitableEvent goes; its kernel stays as long as a watcher refers to it.
DeleteEvent(e) ==
    /\ e \in alive /\ Unlocked(e)
    /\ alive' = alive \ {e}
    /\ UNCHANGED <<signaled_, waiters_, signaling, heap, flag_, tasks, watcher, loop>>

-----------------------------------------------------------------------------
(* The watchers.                                                           *)

\* Mutant: the watcher forgets which kernel its waiter is in.
EnqueueWithoutKernel(w, e, f) ==
    \E a \in FreeAddrs :
        /\ heap' = [heap EXCEPT ![a] = [flag |-> f, watcher |-> w, event |-> e]]
        /\ waiters_' = [waiters_ EXCEPT ![e] = Append(@, a)]
        /\ watcher' = [watcher EXCEPT ![w].cancel_flag_ = f, ![w].waiter_ = a,
                                      ![w].message_loop_ = TRUE]

\* Mutant: the watcher does not ask to be told of the end of the loop.
EnqueueUnobserved(w, e, f) ==
    \E a \in FreeAddrs :
        /\ heap' = [heap EXCEPT ![a] = [flag |-> f, watcher |-> w, event |-> e]]
        /\ waiters_' = [waiters_ EXCEPT ![e] = Append(@, a)]
        /\ watcher' = [watcher EXCEPT ![w] = [cancel_flag_ |-> f, kernel_ |-> e,
                                              waiter_ |-> a, message_loop_ |-> FALSE]]

\* The event is not signaled: a new AsyncWaiter joins its list.
EnqueueWaiter(w, e, f) ==
    \E a \in FreeAddrs :
        /\ heap' = [heap EXCEPT ![a] = [flag |-> f, watcher |-> w, event |-> e]]
        /\ waiters_' = [waiters_ EXCEPT ![e] = Append(@, a)]
        /\ watcher' = [watcher EXCEPT ![w] = [cancel_flag_ |-> f, kernel_ |-> e,
                                              waiter_ |-> a, message_loop_ |-> TRUE]]

\* A watcher whose watch was stopped or has called its delegate starts anew.
\* When the event is already signaled the task is posted at once, and the kernel
\* and waiter of an earlier watch are left in place.
StartWatching(w, e) ==
    LET last == watcher[w].cancel_flag_
        over == last # NULL /\ flag_[last]
    IN  /\ loop = "running" /\ e \in alive /\ Unlocked(e)
        /\ last = NULL \/ over
        /\ \E f \in FreeFlags \cup
                    (IF over /\ \A i \in 1..Len(tasks) : tasks[i].flag # last
                     THEN {last} ELSE {}) :
             /\ flag_' = [flag_ EXCEPT ![f] = FALSE]
             /\ \/ /\ signaled_[e]
                   /\ signaled_' = [signaled_ EXCEPT ![e] = e \in Manual]
                   /\ tasks' = Append(tasks, [flag |-> f, watcher |-> w, event |-> e])
                   /\ watcher' = [watcher EXCEPT ![w].cancel_flag_ = f,
                                    ![w].message_loop_ = @ /\ ~over]
                   /\ UNCHANGED <<waiters_, heap>>
                \/ /\ ~signaled_[e]
                   /\ EnqueueWaiter(w, e, f)
                   /\ UNCHANGED <<signaled_, tasks>>
        /\ UNCHANGED <<signaling, alive, loop>>

\* Mutant: the waiter is found by its address only.
MatchesWithoutTag(a, waiter, tag) == a = waiter

\* The test of Dequeue: AsyncWaiter::Compare looks at the flag as well.
Matches(a, waiter, tag) == a = waiter /\ heap[a].flag = tag

\* Mutant: the watch that already fired is left as it is.
StopWithoutFlag(w) == UNCHANGED flag_

\* cancel_flag_->Set(): a task that is on its way will not call the delegate.
CancelTask(w) == flag_' = [flag_ EXCEPT ![watcher[w].cancel_flag_] = TRUE]

\* What StopWatching leaves in the members of the watcher.
Stopped(w) == [watcher[w] EXCEPT !.cancel_flag_ = NULL, !.message_loop_ = FALSE]

\* The body of StopWatching; after is what becomes of the watcher.
Stop(w, after) ==
    LET m == watcher[w]
        k == m.kernel_
        listed == {i \in 1..Len(waiters_[k]) :
                     Matches(waiters_[k][i], m.waiter_, m.cancel_flag_)}
        rest(i) == SubSeq(waiters_[k], 1, i - 1)
                     \o SubSeq(waiters_[k], i + 1, Len(waiters_[k]))
    IN  /\ watcher' = [watcher EXCEPT ![w] = after]
        /\ \/ /\ \/ m.cancel_flag_ = NULL
                 \/ m.cancel_flag_ # NULL /\ flag_[m.cancel_flag_]
              /\ UNCHANGED <<waiters_, heap, flag_>>
           \/ /\ m.cancel_flag_ # NULL /\ ~flag_[m.cancel_flag_] /\ k = NULL
              /\ CancelTask(w)
              /\ UNCHANGED <<waiters_, heap>>
           \/ /\ m.cancel_flag_ # NULL /\ ~flag_[m.cancel_flag_] /\ k # NULL
              /\ Unlocked(k)
              /\ IF listed # {}
                 THEN \E i \in listed :
                        /\ waiters_' = [waiters_ EXCEPT ![k] = rest(i)]
                        /\ heap' = [heap EXCEPT ![m.waiter_] = NULL]
                        /\ UNCHANGED flag_
                 ELSE CancelTask(w) /\ UNCHANGED <<waiters_, heap>>

StopWatching(w) ==
    /\ loop = "running"
    /\ Stop(w, Stopped(w))
    /\ UNCHANGED <<signaled_, signaling, alive, tasks, loop>>

\* The destructor, and a new watcher in the place of the old one.
DeleteWatcher(w) ==
    /\ Stop(w, NotWatching)
    /\ UNCHANGED <<signaled_, signaling, alive, tasks, loop>>

-----------------------------------------------------------------------------
(* The message loop.                                                       *)

\* AsyncCallbackTask::Run.  The delegate is the client; what it does in the
\* callback are further actions.
RunTask ==
    /\ loop = "running" /\ tasks # <<>>
    /\ tasks' = Tail(tasks)
    /\ flag_' = [flag_ EXCEPT ![Head(tasks).flag] = TRUE]
    /\ UNCHANGED <<kernelVars, alive, heap, watcher, loop>>

\* ~MessageLoop: it tells its observers first,
BeginDestroy ==
    /\ loop = "running" /\ loop' = "destroying"
    /\ UNCHANGED <<kernelVars, alive, heap, flag_, tasks, watcher>>

WillDestroyCurrentMessageLoop(w) ==
    /\ loop = "destroying" /\ watcher[w].message_loop_
    /\ Stop(w, Stopped(w))
    /\ UNCHANGED <<signaled_, signaling, alive, tasks, loop>>

\* then it drops what is left in its queue (on POSIX without deleting it).
EndDestroy ==
    /\ loop = "destroying" /\ \A w \in Watchers : ~watcher[w].message_loop_
    /\ loop' = "gone" /\ tasks' = <<>>
    /\ UNCHANGED <<kernelVars, alive, heap, flag_, watcher>>

Init ==
    /\ signaled_ \in [Events -> BOOLEAN]
    /\ waiters_ = [e \in Events |-> <<>>]
    /\ signaling = [e \in Events |-> 0]
    /\ alive = Events
    /\ heap = [a \in Addrs |-> NULL]
    /\ flag_ = [f \in Flags |-> FALSE]
    /\ tasks = <<>>
    /\ watcher = [w \in Watchers |-> NotWatching]
    /\ loop = "running"

Next ==
    \/ \E e \in Events :
         \/ SignalAuto(e) \/ SignalManual(e) \/ SignalAll(e) \/ Reset(e)
         \/ DeleteEvent(e)
         \/ \E w \in Watchers : StartWatching(w, e)
    \/ \E w \in Watchers :
         \/ StopWatching(w) \/ DeleteWatcher(w) \/ WillDestroyCurrentMessageLoop(w)
    \/ RunTask \/ BeginDestroy \/ EndDestroy

Spec == Init /\ [][Next]_vars

-----------------------------------------------------------------------------
(* Properties.                                                             *)

\* Every object has the members its class declares, and SignalAll stays within
\* the list.
TypeOK ==
    /\ signaled_ \in [Events -> BOOLEAN]
    /\ waiters_ \in [Events -> Seq(Addrs)]
    /\ \A e \in Events : signaling[e] \in 0..Len(waiters_[e]) + 1
    /\ alive \subseteq Events
    /\ heap \in [Addrs -> WaitType \cup {NULL}]
    /\ flag_ \in [Flags -> BOOLEAN]
    /\ tasks \in Seq(WaitType)
    /\ watcher \in [Watchers -> [cancel_flag_ : Flags \cup {NULL},
                                 kernel_ : Events \cup {NULL},
                                 waiter_ : Addrs \cup {NULL},
                                 message_loop_ : BOOLEAN]]
    /\ loop \in {"running", "destroying", "gone"}

\* A watch is on: GetWatchedEvent returns an event.
Watching(w) == watcher[w].cancel_flag_ # NULL /\ ~flag_[watcher[w].cancel_flag_]

\* The waiters in the list of e that a signal may still fire.
Pending(e) == {i \in 1..Len(waiters_[e]) : i >= signaling[e]}

\* "The delegate will *not* be called for the current watch after this function
\* returns": a task that would call its delegate belongs to the watch its
\* watcher is on.
NoCallbackAfterStop ==
    \A i \in 1..Len(tasks) : ~flag_[tasks[i].flag] =>
        watcher[tasks[i].watcher].cancel_flag_ = tasks[i].flag

\* A signal fires no deleted waiter, and none of a watch that is over; the kernel
\* of the waiter is kept by the watcher even when the event is deleted.
WaitersCurrent ==
    \A e \in Events : \A i \in Pending(e) :
        LET x == heap[waiters_[e][i]]
        IN  /\ x # NULL
            /\ ~flag_[x.flag]
            /\ watcher[x.watcher].cancel_flag_ = x.flag
            /\ watcher[x.watcher].waiter_ = waiters_[e][i]
            /\ watcher[x.watcher].kernel_ = e

\* A watch that is on will be told: it has one waiter in the list of one event,
\* or one task in the queue, and not both; no other watcher's StopWatching takes
\* it away, although addresses are reused.
WatchNotForgotten ==
    loop = "running" => \A w \in Watchers : Watching(w) =>
        LET f == watcher[w].cancel_flag_
            posted == {i \in 1..Len(tasks) : tasks[i].flag = f}
            listed == {e \in Events : \E i \in Pending(e) :
                         /\ waiters_[e][i] = watcher[w].waiter_
                         /\ heap[waiters_[e][i]] # NULL
                         /\ heap[waiters_[e][i]].flag = f}
        IN  \/ listed = {} /\ \E i \in posted : posted = {i}
            \/ posted = {} /\ \E e \in listed : listed = {e}

\* When the message loop is gone no event has a waiter that would post to it.
NothingPostsToDeadLoop ==
    loop = "gone" => \A e \in Events : Pending(e) = {}

=============================================================================
