------------------------------- MODULE EventSpec -------------------------------
(***************************************************************************)
(* What base/waitable_event.h promises, without locks and wait lists: an   *)
(* event is signaled or not; a thread waits for one event or for the first *)
(* of several.  A signal of an automatically reset event releases exactly  *)
(* one waiting thread or stays until one comes; a signal of a manually     *)
(* reset event releases all who wait, until it is reset.                   *)
(***************************************************************************)
CONSTANTS Threads, Events, Manual

VARIABLES
    signaled,     \* the events that are signaled
    thread        \* what each thread is doing

avars == <<signaled, thread>>

Idle == [st |-> "idle"]
Waiting(S, finite) == [st |-> "waiting", events |-> S, finite |-> finite]
Signaling(e) == [st |-> "signaling", event |-> e]
Released(e) == [st |-> "released", by |-> e]
TimedOut == [st |-> "timed out"]

\* A thread takes the signal of e.
Take(e) == signaled' = IF e \in Manual THEN signaled ELSE signaled \ {e}

AInit == signaled \in SUBSET Events /\ thread = [t \in Threads |-> Idle]

\* Signal of a manual event.
SignalManual(t, e) ==
    /\ thread[t] = Idle /\ e \in Manual
    /\ signaled' = signaled \cup {e}
    /\ UNCHANGED thread

\* Signal of an automatic event that is not signaled.  It ends in one of two
\* ways: the signal is given to a waiting thread, or it is kept because no thread
\* is waiting.
SignalAuto(t, e) ==
    /\ thread[t] = Idle /\ e \notin Manual /\ e \notin signaled
    /\ thread' = [thread EXCEPT ![t] = Signaling(e)]
    /\ UNCHANGED signaled

Give(t, w) ==
    /\ thread[t].st = "signaling"
    /\ thread[w].st = "waiting" /\ thread[t].event \in thread[w].events
    /\ thread' = [thread EXCEPT ![w] = Released(thread[t].event), ![t] = Idle]
    /\ UNCHANGED signaled

Keep(t) ==
    /\ thread[t].st = "signaling"
    /\ \A w \in Threads :
         thread[w].st = "waiting" => thread[t].event \notin thread[w].events
    /\ signaled' = signaled \cup {thread[t].event}
    /\ thread' = [thread EXCEPT ![t] = Idle]

\* A thread is released by an event that stays signaled.
Release(t, e) ==
    /\ e \in signaled \cap Manual
    /\ thread[t].st = "waiting" /\ e \in thread[t].events
    /\ thread' = [thread EXCEPT ![t] = Released(e)]
    /\ UNCHANGED signaled

\* Reset, and IsSignaled on an automatic event.
Reset(e) == signaled' = signaled \ {e} /\ UNCHANGED thread

\* A wait that need not block.
Pass(t, e) ==
    /\ thread[t] = Idle /\ e \in signaled
    /\ Take(e)
    /\ thread' = [thread EXCEPT ![t] = Released(e)]

\* A wait that blocks: none of the events is signaled.
Block(t, S, finite) ==
    /\ thread[t] = Idle /\ S \cap signaled = {}
    /\ thread' = [thread EXCEPT ![t] = Waiting(S, finite)]
    /\ UNCHANGED signaled

TimeOut(t) ==
    /\ thread[t].st = "waiting" /\ thread[t].finite
    /\ thread' = [thread EXCEPT ![t] = TimedOut]
    /\ UNCHANGED signaled

Return(t) ==
    /\ thread[t].st \in {"released", "timed out"}
    /\ thread' = [thread EXCEPT ![t] = Idle]
    /\ UNCHANGED signaled

ANext ==
    \/ \E e \in Events : Reset(e)
    \/ \E t \in Threads, e \in Events :
         SignalManual(t, e) \/ SignalAuto(t, e) \/ Release(t, e) \/ Pass(t, e)
    \/ \E t, w \in Threads : Give(t, w)
    \/ \E t \in Threads, S \in SUBSET Events, finite \in BOOLEAN : Block(t, S, finite)
    \/ \E t \in Threads : Keep(t) \/ TimeOut(t) \/ Return(t)

ASpec == AInit /\ [][ANext]_avars

=============================================================================
