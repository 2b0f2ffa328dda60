------------------------------ MODULE WorkerPool ------------------------------
(***************************************************************************)
(* base/worker_pool_linux.cc: LinuxDynamicThreadPool, the threads that run *)
(* slow tasks for the rest of the program.  A task is posted to a queue;   *)
(* the pool signals a thread that waits for work or starts another one.    *)
(* Everything the pool keeps is protected by lock_, which a thread gives   *)
(* up only inside TimedWait and while it runs a task.                      *)
(*                                                                         *)
(* Threads have no identity the code looks at, so they are counted by the  *)
(* place where they are.  A thread that was started or whose task is done  *)
(* is at the entry of WaitForTask; one in TimedWait waits, or was woken (by *)
(* a signal, its time-out or for no reason) and has not yet taken lock_    *)
(* again; a thread that runs a task is that task.                          *)
(***************************************************************************)
EXTENDS Naturals, Sequences

CONSTANT Tasks

VARIABLES
    tasks_,
    num_idle_threads_,
    terminated_,
    entering,       \* threads about to lock lock_ in WaitForTask
    waiting,        \* threads blocked in TimedWait
    woken,          \* threads that left the wait and want lock_ back
    running         \* tasks in the hands of a thread

threadVars == <<entering, waiting, woken, running>>
poolVars == <<tasks_, num_idle_threads_, terminated_, threadVars>>

PoolInit ==
    /\ tasks_ = <<>> /\ num_idle_threads_ = 0 /\ terminated_ = FALSE
    /\ entering = 0 /\ waiting = 0 /\ woken = 0 /\ running = {}

\* The tasks that are in the queue or with a thread.
Posted == {tasks_[i] : i \in 1..Len(tasks_)} \cup running

-----------------------------------------------------------------------------
(* The operations.                                                         *)

\* Signal on tasks_available_cv_ does nothing when no thread waits.
SignalOne ==
    IF waiting > 0 THEN waiting' = waiting - 1 /\ woken' = woken + 1
                   ELSE UNCHANGED <<waiting, woken>>

StartThread == entering' = entering + 1

\* Mutant: a thread that waits is taken to be enough.
PostTaskAnyIdle(task) ==
    /\ ~terminated_ /\ task \notin Posted
    /\ tasks_' = Append(tasks_, task)
    /\ \/ num_idle_threads_ > 0 /\ SignalOne /\ UNCHANGED entering
       \/ num_idle_threads_ = 0 /\ StartThread /\ UNCHANGED <<waiting, woken>>
    /\ UNCHANGED <<num_idle_threads_, terminated_, running>>

\* num_idle_threads_ still counts the threads that were woken.
PostTask(task) ==
    /\ ~terminated_ /\ task \notin Posted
    /\ tasks_' = Append(tasks_, task)
    /\ \/ num_idle_threads_ >= Len(tasks_) + 1 /\ SignalOne /\ UNCHANGED entering
       \/ num_idle_threads_ < Len(tasks_) + 1 /\ StartThread /\ UNCHANGED <<waiting, woken>>
    /\ UNCHANGED <<num_idle_threads_, terminated_, running>>

Pop ==
    /\ running' = running \cup {Head(tasks_)}
    /\ tasks_' = Tail(tasks_)

\* WaitForTask up to TimedWait; a thread that is told to exit is forgotten.
EnterWaitForTask ==
    /\ entering > 0 /\ entering' = entering - 1
    /\ \/ terminated_ /\ UNCHANGED <<tasks_, running, num_idle_threads_, waiting>>
       \/ /\ ~terminated_ /\ tasks_ = <<>>
          /\ num_idle_threads_' = num_idle_threads_ + 1
          /\ waiting' = waiting + 1
          /\ UNCHANGED <<tasks_, running>>
       \/ /\ ~terminated_ /\ tasks_ # <<>> /\ Pop
          /\ UNCHANGED <<num_idle_threads_, waiting>>
    /\ UNCHANGED <<terminated_, woken>>

\* The time-out of TimedWait, or a wake-up nobody asked for.
LeaveTimedWait ==
    /\ waiting > 0
    /\ waiting' = waiting - 1 /\ woken' = woken + 1
    /\ UNCHANGED <<tasks_, num_idle_threads_, terminated_, entering, running>>

\* Mutant: a thread that leaves is still counted.
FinishWaitKeepsCount ==
    /\ woken > 0 /\ woken' = woken - 1
    /\ \/ tasks_ = <<>> /\ UNCHANGED <<tasks_, running, num_idle_threads_>>
       \/ tasks_ # <<>> /\ Pop /\ num_idle_threads_' = num_idle_threads_ - 1
    /\ UNCHANGED <<terminated_, entering, waiting>>

\* WaitForTask from the end of TimedWait; terminated_ is not looked at again.
FinishWaitForTask ==
    /\ woken > 0 /\ woken' = woken - 1
    /\ num_idle_threads_' = num_idle_threads_ - 1
    /\ \/ tasks_ = <<>> /\ UNCHANGED <<tasks_, running>>
       \/ tasks_ # <<>> /\ Pop
    /\ UNCHANGED <<terminated_, entering, waiting>>

\* ThreadMain: the task has run and the thread asks for another.
TaskDone(task) ==
    /\ task \in running
    /\ running' = running \ {task}
    /\ entering' = entering + 1
    /\ UNCHANGED <<tasks_, num_idle_threads_, terminated_, waiting, woken>>

Terminate ==
    /\ ~terminated_ /\ terminated_' = TRUE
    /\ woken' = woken + waiting /\ waiting' = 0
    /\ UNCHANGED <<tasks_, num_idle_threads_, entering, running>>

\* The pool on its own: anything may be posted at any time.
PoolNext ==
    \/ \E task \in Tasks : PostTask(task) \/ TaskDone(task)
    \/ EnterWaitForTask \/ LeaveTimedWait \/ FinishWaitForTask \/ Terminate

PoolSpec == PoolInit /\ [][PoolNext]_poolVars

-----------------------------------------------------------------------------
(* Properties.                                                             *)

\* The pool keeps tasks and counts; num_idle_threads_ counts exactly the threads
\* inside TimedWait, so that the comparison in PostTask means what it says.
PoolTypeOK ==
    /\ tasks_ \in Seq(Tasks) /\ running \subseteq Tasks
    /\ terminated_ \in BOOLEAN
    /\ entering \in Nat /\ waiting \in Nat /\ woken \in Nat
    /\ num_idle_threads_ \in Nat
    /\ num_idle_threads_ = waiting + woken

\* No task is left in the queue to wait for another task to end: there is a thread
\* on its way to the queue for each, although the idle threads that PostTask counts
\* may have been signaled for another task or be about to time out.
EveryTaskHasAThread ==
    ~terminated_ => Len(tasks_) <= entering + woken
===============================================================================
