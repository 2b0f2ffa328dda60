--------------------------- MODULE WorkerPoolProofs ---------------------------
(***************************************************************************)
(* Proofs about the worker pool, for any set of tasks and any number of    *)
(* threads.                                                                *)
(***************************************************************************)
EXTENDS WorkerPool, TLAPS

\* PostTask keeps PoolTypeOK: what SignalOne takes from the threads that wait it adds
\* to those that were woken.
LEMMA PostTaskType ==
    ASSUME PoolTypeOK, NEW task \in Tasks, PostTask(task)
    PROVE  PoolTypeOK'
<1>1. tasks_' \in Seq(Tasks)
    BY DEF PoolTypeOK, PostTask
<1>2. CASE num_idle_threads_ >= Len(tasks_) + 1 /\ SignalOne /\ UNCHANGED entering
    BY <1>1, <1>2 DEF PoolTypeOK, PostTask, SignalOne
<1>3. CASE num_idle_threads_ < Len(tasks_) + 1 /\ StartThread /\ UNCHANGED <<waiting, woken>>
    BY <1>1, <1>3 DEF PoolTypeOK, PostTask, StartThread
<1>4. QED
    BY <1>2, <1>3 DEF PostTask

\* What Pop takes from a queue that is not empty is a task, and one is left less.
LEMMA PopType ==
    ASSUME tasks_ \in Seq(Tasks), running \subseteq Tasks, tasks_ # <<>>, Pop
    PROVE  /\ tasks_' \in Seq(Tasks) /\ running' \subseteq Tasks
           /\ Len(tasks_') = Len(tasks_) - 1
BY DEF Pop

\* A step of the pool keeps its counts exact.
LEMMA TypeStep ==
    ASSUME PoolTypeOK, [PoolNext]_poolVars
    PROVE  PoolTypeOK'
<1>1. CASE \E task \in Tasks : PostTask(task)
    BY <1>1, PostTaskType
<1>2. CASE \E task \in Tasks : TaskDone(task)
    BY <1>2 DEF PoolTypeOK, TaskDone
<1>3. CASE EnterWaitForTask
    <2>1. CASE tasks_ # <<>> /\ Pop /\ UNCHANGED <<num_idle_threads_, waiting>>
        BY <1>3, <2>1, PopType DEF PoolTypeOK, EnterWaitForTask
    <2>2. CASE UNCHANGED <<tasks_, running>>
        BY <1>3, <2>2 DEF PoolTypeOK, EnterWaitForTask
    <2>3. QED
        BY <1>3, <2>1, <2>2 DEF EnterWaitForTask
<1>4. CASE LeaveTimedWait
    BY <1>4 DEF PoolTypeOK, LeaveTimedWait
<1>5. CASE FinishWaitForTask
    <2>1. CASE tasks_ # <<>> /\ Pop
        BY <1>5, <2>1, PopType DEF PoolTypeOK, FinishWaitForTask
    <2>2. CASE UNCHANGED <<tasks_, running>>
        BY <1>5, <2>2 DEF PoolTypeOK, FinishWaitForTask
    <2>3. QED
        BY <1>5, <2>1, <2>2 DEF FinishWaitForTask
<1>6. CASE Terminate
    BY <1>6 DEF PoolTypeOK, Terminate
<1>7. CASE UNCHANGED poolVars
    BY <1>7 DEF PoolTypeOK, poolVars, threadVars
<1>8. QED
    BY <1>1, <1>2, <1>3, <1>4, <1>5, <1>6, <1>7 DEF PoolNext

\* A step of the pool keeps a thread on its way for every task in the queue.
LEMMA ThreadStep ==
    ASSUME PoolTypeOK, EveryTaskHasAThread, [PoolNext]_poolVars
    PROVE  EveryTaskHasAThread'
<1>1. ASSUME NEW task \in Tasks, PostTask(task)
      PROVE  EveryTaskHasAThread'
    <2>1. Len(tasks_') = Len(tasks_) + 1 /\ Len(tasks_) \in Nat
        BY <1>1 DEF PostTask, PoolTypeOK
    <2>2. CASE num_idle_threads_ >= Len(tasks_) + 1 /\ SignalOne /\ UNCHANGED entering
        \* with nobody left to signal, all idle threads were woken before
        BY <1>1, <2>1, <2>2 DEF EveryTaskHasAThread, PoolTypeOK, PostTask, SignalOne
    <2>3. CASE num_idle_threads_ < Len(tasks_) + 1 /\ StartThread /\ UNCHANGED <<waiting, woken>>
        BY <1>1, <2>1, <2>3 DEF EveryTaskHasAThread, PoolTypeOK, PostTask, StartThread
    <2>4. QED
        BY <1>1, <2>2, <2>3 DEF PostTask
<1>2. ASSUME NEW task \in Tasks, TaskDone(task)
      PROVE  EveryTaskHasAThread'
    BY <1>2 DEF EveryTaskHasAThread, PoolTypeOK, TaskDone
<1>3. CASE EnterWaitForTask
    <2>1. CASE tasks_ # <<>> /\ Pop
        BY <1>3, <2>1, PopType DEF EveryTaskHasAThread, PoolTypeOK, EnterWaitForTask
    <2>2. CASE tasks_ = <<>> /\ UNCHANGED tasks_
        BY <1>3, <2>2 DEF EveryTaskHasAThread, PoolTypeOK, EnterWaitForTask
    <2>3. CASE terminated_
        BY <1>3, <2>3 DEF EveryTaskHasAThread, EnterWaitForTask
    <2>4. QED
        BY <1>3, <2>1, <2>2, <2>3 DEF EnterWaitForTask
<1>4. CASE LeaveTimedWait
    BY <1>4 DEF EveryTaskHasAThread, PoolTypeOK, LeaveTimedWait
<1>5. CASE FinishWaitForTask
    <2>1. CASE tasks_ # <<>> /\ Pop
        BY <1>5, <2>1, PopType DEF EveryTaskHasAThread, PoolTypeOK, FinishWaitForTask
    <2>2. CASE tasks_ = <<>> /\ UNCHANGED tasks_
        BY <1>5, <2>2 DEF EveryTaskHasAThread, PoolTypeOK, FinishWaitForTask
    <2>3. QED
        BY <1>5, <2>1, <2>2 DEF FinishWaitForTask
<1>6. CASE Terminate
    BY <1>6 DEF EveryTaskHasAThread, Terminate
<1>7. CASE UNCHANGED poolVars
    BY <1>7 DEF EveryTaskHasAThread, poolVars, threadVars
<1>8. QED
    BY <1>1, <1>2, <1>3, <1>4, <1>5, <1>6, <1>7 DEF PoolNext

\* The pool keeps its count of idle threads exact, whatever wakes them.
THEOREM PoolTyped == PoolSpec => []PoolTypeOK
<1>1. ASSUME PoolInit PROVE PoolTypeOK
    <2>1. tasks_ \in Seq(Tasks) /\ running \subseteq Tasks
        BY <1>1 DEF PoolInit
    <2>2. terminated_ \in BOOLEAN
        BY <1>1, Zenon DEF PoolInit
    <2>3. /\ entering \in Nat /\ waiting \in Nat /\ woken \in Nat
          /\ num_idle_threads_ \in Nat /\ num_idle_threads_ = waiting + woken
        BY <1>1 DEF PoolInit
    <2>4. QED
        BY <2>1, <2>2, <2>3 DEF PoolTypeOK
<1>2. PoolTypeOK /\ [PoolNext]_poolVars => PoolTypeOK'
    BY TypeStep
<1>3. QED
    BY <1>1, <1>2, PTL DEF PoolSpec

\* A task that PostTask put into the queue never waits for the end of another task:
\* for each there is a thread that was started or woken and has not looked yet.
THEOREM PoolServes == PoolSpec => []EveryTaskHasAThread
<1>1. PoolInit => EveryTaskHasAThread
    BY DEF PoolInit, EveryTaskHasAThread
<1>2. PoolTypeOK /\ EveryTaskHasAThread /\ [PoolNext]_poolVars => EveryTaskHasAThread'
    BY ThreadStep
<1>3. QED
    BY <1>1, <1>2, PoolTyped, PTL DEF PoolSpec
===============================================================================
