----------------------------- MODULE WaitableEvent -----------------------------
(***************************************************************************)
(* base/waitable_event_posix.cc: events, and threads that wait for one or  *)
(* for the first of several.  Each event has a lock and a list of waiters; *)
(* each blocked thread has one SyncWaiter, on its stack, with a lock of its *)
(* own, which is in the list of every event the thread waits for.          *)
(*                                                                         *)
(* One action is what a thread does between two points where it can block  *)
(* or where it releases a lock, so signals, waits, time-outs and resets     *)
(* interleave as they do in the code.  The first Acquire of a method       *)
(* belongs to the action that starts it: a thread that still waits for its *)
(* first lock has done nothing.                                            *)
(***************************************************************************)
EXTENDS Integers, Sequences, FiniteSets, SequencesExt

CONSTANTS
    Threads,
    Events,        \* numbered in the order of their addresses
    Manual,        \* the events with manual_reset_
    WaitLists      \* the arrays given to WaitMany

Nobody == "nobody"
None == 0 - 1

ASSUME EventAssumption ==
    /\ Nobody \notin Threads
    /\ Events \subseteq Nat /\ Manual \subseteq Events
    /\ \A raw \in WaitLists : /\ raw \in Seq(Events) /\ raw # <<>>
                              /\ \A i, j \in 1..Len(raw) : raw[i] = raw[j] => i = j

VARIABLES
    signaled_,         \* of every event
    lock_,             \* of every event: the thread that holds it
    waiters_,          \* of every event: the threads whose SyncWaiter is listed
    fired_,            \* of the SyncWaiter of every thread
    signaling_event_,  \* of the SyncWaiter of every thread
    call               \* the method each thread is in, and where

vars == <<signaled_, lock_, waiters_, fired_, signaling_event_, call>>

Idle == [at |-> "idle"]

\* The thread holds the lock of its own SyncWaiter.
HoldsWaiter(t) == call[t].at \in {"unlock", "check"}

At(t, where) == call' = [call EXCEPT ![t] = where]

\* A wait takes the signal of e, which resets itself unless it is manual.
Consume(e) == signaled_' = [signaled_ EXCEPT ![e] = e \in Manual]

\* The first entry for the waiter of t leaves the list of e, if there is one.
Dequeue(t, e) == waiters_' = [waiters_ EXCEPT ![e] = RemoveFirst(@, t)]

-----------------------------------------------------------------------------
(* Signal.                                                                 *)

\* SyncWaiter::Fire by an event, which blocks while the waiter is locked.
Fire(w, e) ==
    /\ ~HoldsWaiter(w)
    /\ fired_' = [fired_ EXCEPT ![w] = TRUE]
    /\ signaling_event_' = [signaling_event_ EXCEPT ![w] = IF fired_[w] THEN @ ELSE e]

\* Signal of an event that is not signaled; of a signaled one it does nothing.
Signal(t, e) ==
    /\ call[t] = Idle /\ lock_[e] = Nobody /\ ~signaled_[e]
    /\ lock_' = [lock_ EXCEPT ![e] = t]
    /\ At(t, [at |-> IF e \in Manual THEN "all" ELSE "one", event |-> e, i |-> 1])
    /\ UNCHANGED <<signaled_, waiters_, fired_, signaling_event_>>

\* SignalAll, waiter by waiter.
SignalAll(t) ==
    /\ call[t].at = "all"
    /\ LET e == call[t].event
           i == call[t].i
       IN  \/ /\ i <= Len(waiters_[e])
              /\ Fire(waiters_[e][i], e)
              /\ At(t, [call[t] EXCEPT !.i = i + 1])
              /\ UNCHANGED <<signaled_, lock_, waiters_>>
           \/ /\ i > Len(waiters_[e])
              /\ waiters_' = [waiters_ EXCEPT ![e] = <<>>]
              /\ signaled_' = [signaled_ EXCEPT ![e] = TRUE]
              /\ lock_' = [lock_ EXCEPT ![e] = Nobody]
              /\ At(t, Idle)
              /\ UNCHANGED <<fired_, signaling_event_>>

\* SignalOne up to the call of Fire; without a waiter the event stays signaled.
SignalOne(t) ==
    /\ call[t].at = "one"
    /\ LET e == call[t].event
           w == Head(waiters_[e])
       IN  \/ /\ waiters_[e] # <<>>
              /\ Fire(w, e)
              /\ At(t, [at |-> "pop", event |-> e, woken |-> ~fired_[w]])
              /\ UNCHANGED <<signaled_, lock_, waiters_>>
           \/ /\ waiters_[e] = <<>>
              /\ signaled_' = [signaled_ EXCEPT ![e] = TRUE]
              /\ lock_' = [lock_ EXCEPT ![e] = Nobody]
              /\ At(t, Idle)
              /\ UNCHANGED <<waiters_, fired_, signaling_event_>>

\* The rest of the loop: a waiter that rejected the signal is passed over.
SignalOnePop(t) ==
    /\ call[t].at = "pop"
    /\ LET e == call[t].event
       IN  /\ waiters_' = [waiters_ EXCEPT ![e] = Tail(@)]
           /\ IF call[t].woken
              THEN lock_' = [lock_ EXCEPT ![e] = Nobody] /\ At(t, Idle)
              ELSE At(t, [at |-> "one", event |-> e, i |-> 1]) /\ UNCHANGED lock_
    /\ UNCHANGED <<signaled_, fired_, signaling_event_>>

Reset(t, e) ==
    /\ call[t] = Idle /\ lock_[e] = Nobody
    /\ signaled_' = [signaled_ EXCEPT ![e] = FALSE]
    /\ UNCHANGED <<lock_, waiters_, fired_, signaling_event_, call>>

\* IsSignaled that returns true; otherwise it changes nothing.
IsSignaled(t, e) ==
    /\ call[t] = Idle /\ lock_[e] = Nobody /\ signaled_[e]
    /\ Consume(e)
    /\ UNCHANGED <<lock_, waiters_, fired_, signaling_event_, call>>

-----------------------------------------------------------------------------
(* TimedWait, and Wait, which is TimedWait without a limit.                *)

\* The place on the stack of t for a SyncWaiter holds a new one, or none.
NewWaiter(t) ==
    /\ fired_' = [fired_ EXCEPT ![t] = FALSE]
    /\ signaling_event_' = [signaling_event_ EXCEPT ![t] = None]

\* The method is about to return: whether, or by which event, it was released.
Done(t, e) == At(t, [at |-> "return", event |-> e])

TimedWait(t, e, finite) ==
    /\ call[t] = Idle /\ lock_[e] = Nobody
    /\ \/ /\ signaled_[e]
          /\ Consume(e) /\ Done(t, e)
          /\ UNCHANGED <<waiters_, fired_, signaling_event_>>
       \/ /\ ~signaled_[e]
          /\ NewWaiter(t)
          /\ waiters_' = [waiters_ EXCEPT ![e] = Append(@, t)]
          /\ At(t, [at |-> "check", raw |-> <<e>>, many |-> FALSE, finite |-> finite])
          /\ UNCHANGED signaled_
    /\ UNCHANGED lock_

\* Mutant: the waiter still accepts signals after it gave up.
LeaveWithoutDisable(t) == UNCHANGED fired_

\* SyncWaiter::Disable.
Disable(t) == fired_' = [fired_ EXCEPT ![t] = TRUE]

\* The loop of TimedWait, with the lock of the waiter held: fired, out of time,
\* or back to the condition variable.
CheckTimedWait(t) ==
    /\ call[t].at = "check" /\ ~call[t].many
    /\ \/ /\ fired_[t] \/ call[t].finite
          /\ Disable(t)
          /\ At(t, [at |-> "dequeue", event |-> call[t].raw[1], fired |-> fired_[t]])
       \/ /\ ~fired_[t]
          /\ At(t, [call[t] EXCEPT !.at = "wait"])
          /\ UNCHANGED fired_
    /\ UNCHANGED <<signaled_, lock_, waiters_, signaling_event_>>

DequeueAfterWait(t) ==
    /\ call[t].at = "dequeue" /\ lock_[call[t].event] = Nobody
    /\ Dequeue(t, call[t].event)
    /\ Done(t, IF call[t].fired THEN call[t].event ELSE None)
    /\ UNCHANGED <<signaled_, lock_, fired_, signaling_event_>>

\* ConditionVariable::Wait and TimedWait return: after Fire's broadcast, when
\* the time is over, or for no reason.
Wake(t) ==
    /\ call[t].at = "wait"
    /\ At(t, [call[t] EXCEPT !.at = "check"])
    /\ UNCHANGED <<signaled_, lock_, waiters_, fired_, signaling_event_>>

-----------------------------------------------------------------------------
(* WaitMany.                                                               *)

\* Mutant: the array is used as it comes.
Unsorted(raw) == raw

\* The array sorted by address: it has no event twice.
Sorted(raw) ==
    CHOOSE s \in [1..Len(raw) -> ToSet(raw)] :
        /\ ToSet(s) = ToSet(raw)
        /\ \A i, j \in 1..Len(raw) : i < j => s[i] < s[j]

\* Mutant: the events are counted from 0.
WaitManyFromZero(t, raw) ==
    /\ call[t] = Idle
    /\ At(t, [at |-> "lock", raw |-> raw, k |-> 0])
    /\ UNCHANGED <<signaled_, lock_, waiters_, fired_, signaling_event_>>

WaitMany(t, raw) ==
    /\ call[t] = Idle
    /\ At(t, [at |-> "lock", raw |-> raw, k |-> 1])
    /\ UNCHANGED <<signaled_, lock_, waiters_, fired_, signaling_event_>>

\* Mutant: WaitMany does not look whether the event is signaled.
EnqueueManyBlindly(t) ==
    /\ call[t].at = "lock"
    /\ LET s == Sorted(call[t].raw)
           k == call[t].k
           e == s[k]
       IN  /\ lock_[e] = Nobody
           /\ lock_' = [lock_ EXCEPT ![e] = t]
           /\ IF k < Len(s)
              THEN /\ At(t, [call[t] EXCEPT !.k = k + 1])
                   /\ UNCHANGED <<waiters_, fired_, signaling_event_>>
              ELSE /\ waiters_' = [x \in Events |-> IF x \in ToSet(s)
                                     THEN Append(waiters_[x], t) ELSE waiters_[x]]
                   /\ NewWaiter(t)
                   /\ At(t, [at |-> "unlock", raw |-> call[t].raw, k |-> k,
                             finite |-> FALSE])
           /\ UNCHANGED signaled_

\* EnqueueMany: the k-th event is locked.  If it is signaled the locks taken so
\* far are released; behind the last one the waiter joins every list.
EnqueueMany(t) ==
    /\ call[t].at = "lock"
    /\ LET s == Sorted(call[t].raw)
           k == call[t].k
           e == s[k]
       IN  /\ lock_[e] = Nobody
           /\ \/ /\ signaled_[e]
                 /\ Consume(e)
                 /\ At(t, [at |-> "unwind", raw |-> call[t].raw, k |-> k - 1, event |-> e])
                 /\ UNCHANGED <<lock_, waiters_, fired_, signaling_event_>>
              \/ /\ ~signaled_[e] /\ k < Len(s)
                 /\ lock_' = [lock_ EXCEPT ![e] = t]
                 /\ At(t, [call[t] EXCEPT !.k = k + 1])
                 /\ UNCHANGED <<signaled_, waiters_, fired_, signaling_event_>>
              \/ /\ ~signaled_[e] /\ k = Len(s)
                 /\ lock_' = [lock_ EXCEPT ![e] = t]
                 /\ waiters_' = [x \in Events |-> IF x \in ToSet(s)
                                   THEN Append(waiters_[x], t) ELSE waiters_[x]]
                 /\ NewWaiter(t)
                 /\ At(t, [at |-> "unlock", raw |-> call[t].raw, k |-> k,
                             finite |-> FALSE])
                 /\ UNCHANGED signaled_

\* The locks are released in the reverse order, after EnqueueMany found a signal
\* ("unwind") or by WaitMany, which then holds the lock of its waiter ("unlock").
Unlock(t) ==
    /\ call[t].at \in {"unwind", "unlock"}
    /\ LET k == call[t].k
       IN  \/ /\ k > 0
              /\ lock_' = [lock_ EXCEPT ![Sorted(call[t].raw)[k]] = Nobody]
              /\ At(t, [call[t] EXCEPT !.k = k - 1])
           \/ /\ k = 0 /\ call[t].at = "unwind"
              /\ Done(t, call[t].event) /\ UNCHANGED lock_
           \/ /\ k = 0 /\ call[t].at = "unlock"
              /\ At(t, [at |-> "check", raw |-> call[t].raw, many |-> TRUE,
                        finite |-> FALSE])
              /\ UNCHANGED lock_
    /\ UNCHANGED <<signaled_, waiters_, fired_, signaling_event_>>

CheckWaitMany(t) ==
    /\ call[t].at = "check" /\ call[t].many
    /\ At(t, IF fired_[t] THEN [at |-> "leave", raw |-> call[t].raw, k |-> 1]
             ELSE [call[t] EXCEPT !.at = "wait"])
    /\ UNCHANGED <<signaled_, lock_, waiters_, fired_, signaling_event_>>

\* Mutant: WaitMany returns as soon as it was fired.
LeaveAtOnce(t) ==
    /\ call[t].at = "leave"
    /\ Done(t, signaling_event_[t])
    /\ UNCHANGED <<signaled_, lock_, waiters_, fired_, signaling_event_>>

\* The waiter leaves the lists of all events but the one that fired it.
LeaveMany(t) ==
    /\ call[t].at = "leave"
    /\ LET k == call[t].k
           raw == call[t].raw
       IN  \/ /\ k <= Len(raw) /\ raw[k] # signaling_event_[t]
              /\ lock_[raw[k]] = Nobody
              /\ Dequeue(t, raw[k]) /\ At(t, [call[t] EXCEPT !.k = k + 1])
           \/ /\ k <= Len(raw) /\ raw[k] = signaling_event_[t]
              /\ At(t, [call[t] EXCEPT !.k = k + 1]) /\ UNCHANGED waiters_
           \/ /\ k > Len(raw)
              /\ Done(t, signaling_event_[t]) /\ UNCHANGED waiters_
    /\ UNCHANGED <<signaled_, lock_, fired_, signaling_event_>>

\* The method returns, and its SyncWaiter goes out of scope.
Return(t) ==
    /\ call[t].at = "return"
    /\ At(t, Idle)
    /\ NewWaiter(t)
    /\ UNCHANGED <<signaled_, lock_, waiters_>>

-----------------------------------------------------------------------------

Init ==
    /\ signaled_ \in [Events -> BOOLEAN]
    /\ lock_ = [e \in Events |-> Nobody]
    /\ waiters_ = [e \in Events |-> <<>>]
    /\ fired_ = [t \in Threads |-> FALSE]
    /\ signaling_event_ = [t \in Threads |-> None]
    /\ call = [t \in Threads |-> Idle]

\* A thread calls a method of an event.
Begin(t) ==
    \/ \E e \in Events :
         \/ Signal(t, e) \/ Reset(t, e) \/ IsSignaled(t, e)
         \/ \E finite \in BOOLEAN : TimedWait(t, e, finite)
    \/ \E raw \in WaitLists : WaitMany(t, raw)

\* A thread goes on in the method it is in.
Continue(t) ==
    \/ SignalAll(t) \/ SignalOne(t) \/ SignalOnePop(t)
    \/ CheckTimedWait(t) \/ DequeueAfterWait(t) \/ Wake(t)
    \/ EnqueueMany(t) \/ Unlock(t) \/ CheckWaitMany(t) \/ LeaveMany(t)
    \/ Return(t)

Next == \E t \in Threads : Begin(t) \/ Continue(t)

Spec == Init /\ [][Next]_vars

\* Every thread is scheduled, and a thread that can take a lock again and again
\* takes it some time.
Fairness == \A t \in Threads : SF_vars(Continue(t))

FairSpec == Spec /\ Fairness

-----------------------------------------------------------------------------
(* Properties.                                                             *)

CallType ==
    {Idle}
    \cup [at : {"all", "one"}, event : Events, i : Nat \ {0}]
    \cup [at : {"pop"}, event : Events, woken : BOOLEAN]
    \cup [at : {"check", "wait"}, raw : Seq(Events), many : BOOLEAN, finite : BOOLEAN]
    \cup [at : {"dequeue"}, event : Events, fired : BOOLEAN]
    \cup [at : {"lock", "leave"}, raw : Seq(Events), k : Nat]
    \cup [at : {"unwind"}, raw : Seq(Events), k : Nat, event : Events]
    \cup [at : {"unlock"}, raw : Seq(Events), k : Nat, finite : BOOLEAN]
    \cup [at : {"return"}, event : Events \cup {None}]

\* The index into the array of WaitMany stays within it.
KInRange(c) ==
    /\ c.at = "lock" => c.k \in 1..Len(c.raw)
    /\ c.at = "leave" => c.k \in 1..Len(c.raw) + 1
    /\ c.at \in {"unlock", "unwind"} => c.k \in 0..Len(c.raw)

\* Every event, waiter and call has the shape the code gives it, and WaitMany
\* does not run out of its array.
TypeOK ==
    /\ signaled_ \in [Events -> BOOLEAN]
    /\ lock_ \in [Events -> Threads \cup {Nobody}]
    /\ waiters_ \in [Events -> Seq(Threads)]
    /\ fired_ \in [Threads -> BOOLEAN]
    /\ signaling_event_ \in [Threads -> Events \cup {None}]
    /\ call \in [Threads -> CallType]
    /\ \A t \in Threads : KInRange(call[t])

\* The wait that thread w is in still has to leave the list of e.
InWait(w, e) ==
    \/ call[w].at \in {"unlock", "check", "wait"} /\ e \in ToSet(call[w].raw)
    \/ call[w].at = "dequeue" /\ call[w].event = e
    \/ call[w].at = "leave" /\ \E j \in call[w].k..Len(call[w].raw) : call[w].raw[j] = e

\* A signaler that holds the lock of e has fired the i-th waiter and will drop
\* it without looking at it again.
BeingDropped(e, i) ==
    \E t \in Threads : /\ lock_[e] = t /\ call[t].at \in {"all", "pop"}
                       /\ call[t].event = e
                       /\ i < (IF call[t].at = "all" THEN call[t].i ELSE 2)

\* No event keeps a pointer to a SyncWaiter whose stack frame is gone, nor lists
\* one twice: "These waiters are always stack allocated".
NoDanglingWaiter ==
    \A e \in Events : \A i \in 1..Len(waiters_[e]) :
        /\ InWait(waiters_[e][i], e) \/ BeingDropped(e, i)
        /\ \A j \in 1..Len(waiters_[e]) : waiters_[e][i] = waiters_[e][j] => i = j

\* While an event is signaled nobody sleeps in its list: a wait that begins and
\* a signal that comes never miss each other.
NoMissedSignal ==
    \A e \in Events : signaled_[e] =>
        \A i \in 1..Len(waiters_[e]) : fired_[waiters_[e][i]]

\* A thread in a method of an event, other than asleep in the condition
\* variable, gets on: the locks of several events and those of the waiters are
\* taken in an order in which nobody waits for a lock forever.
GetsOn ==
    \A t \in Threads : call[t].at \notin {"idle", "check", "wait"} ~>
                       call[t].at \in {"idle", "check", "wait"}

-----------------------------------------------------------------------------
(* The refinement of EventSpec.                                            *)

\* While SignalAll runs it holds the lock, so nobody sees that the flag is not
\* set yet.
signaledBar ==
    {e \in Events : \/ signaled_[e]
                    \/ \E t \in Threads : call[t].at = "all" /\ call[t].event = e}

Outcome(e) == IF e = None THEN [st |-> "timed out"] ELSE [st |-> "released", by |-> e]

\* What a thread in the call c does for its caller, given the members of its
\* waiter.
Appears(c, fired, by) ==
    CASE c.at \in {"idle", "lock", "all"} -> [st |-> "idle"]
      [] c.at = "one" -> [st |-> "signaling", event |-> c.event]
      [] c.at = "pop" -> IF c.woken THEN [st |-> "idle"]
                         ELSE [st |-> "signaling", event |-> c.event]
      [] c.at \in {"unlock", "check", "wait"} ->
           IF fired THEN Outcome(by)
           ELSE [st |-> "waiting", events |-> ToSet(c.raw), finite |-> c.finite]
      [] c.at = "dequeue" -> Outcome(IF c.fired THEN c.event ELSE None)
      [] c.at = "leave" -> Outcome(by)
      [] c.at \in {"unwind", "return"} -> Outcome(c.event)

threadBar == [t \in Threads |-> Appears(call[t], fired_[t], signaling_event_[t])]

Promise == INSTANCE EventSpec WITH signaled <- signaledBar, thread <- threadBar

\* The lists, locks and waiters implement the events of waitable_event.h: every
\* signal of an automatic event is given to one wait, which returns it, or is
\* kept, and a wait that timed out took none.
ImplementsEventSpec == Promise!ASpec

=============================================================================
