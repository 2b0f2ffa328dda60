------------------------------ MODULE SocketPool ------------------------------
(***************************************************************************)
(* net/socket/client_socket_pool_base.cc: the pool that every kind of      *)
(* client socket pool (TCP, SOCKS, SSL, HTTP proxy) is built on.  It limits *)
(* the sockets of the process and of each group, keeps idle sockets for    *)
(* reuse, starts connect jobs, queues the requests that must wait, and     *)
(* wakes them when a slot is freed.                                        *)
(*                                                                         *)
(* The pool lives on one thread.  What makes it hard is not parallelism    *)
(* but re-entry: a completion callback runs in the middle of               *)
(* ProcessPendingRequest or OnConnectJobComplete and may call the pool     *)
(* again.  The variable `frame' is the method that is suspended in such a  *)
(* callback; while it is set only the client runs, until the callback      *)
(* returns.  Wake-ups are tasks posted to the message loop, so between the *)
(* post and the run anything may happen.                                   *)
(*                                                                         *)
(* The methods of the class are operators on the pool's state, one record  *)
(* whose fields are the members of ClientSocketPoolBaseHelper.  A method   *)
(* whose outcome depends on the network returns the SET of its outcomes.   *)
(*                                                                         *)
(* A connect job and the socket it yields share one identity, an element   *)
(* of Conns.  The deque of idle sockets of a group is a set: which of the  *)
(* idle sockets is taken first is left open (the code takes the newest to  *)
(* reuse and the oldest to close), which only adds behaviours.             *)
(***************************************************************************)
EXTENDS Integers, Sequences, FiniteSets

CONSTANTS
    Groups,                 \* group names, numbered in the order of std::map
    Handles,                \* ClientSocketHandles of the clients
    Conns,                  \* identities for connect jobs and their sockets
    Priorities,             \* RequestPriority, 0 is HIGHEST
    max_sockets_,
    max_sockets_per_group_,
    backup_jobs_enabled_,   \* TRUE for the TCP pool
    ConnectResults,         \* what ConnectJob::Connect may return at once
    MaxGeneration,          \* bound: number of flushes
    MaxTasks                \* bound: posted tasks a client call may add to

ASSUME PoolAssumption ==
    /\ Groups \subseteq Nat /\ IsFiniteSet(Groups)
    /\ IsFiniteSet(Conns)
    /\ Priorities \subseteq Nat
    /\ max_sockets_ \in Nat /\ max_sockets_per_group_ \in Nat
    /\ max_sockets_per_group_ <= max_sockets_
    /\ backup_jobs_enabled_ \in BOOLEAN
    /\ ConnectResults \subseteq {"OK", "ERR_IO_PENDING", "ERR", "ERR_SOCKET"}
    /\ MaxGeneration \in Nat /\ MaxTasks \in Nat

VARIABLES
    pool,     \* the members of ClientSocketPoolBaseHelper, the handles that
              \* point into it, and the tasks it has posted
    frame,    \* the pool method suspended in a completion callback
    stale     \* "no": every Group& used since the client last called was still
              \* in group_map_; "read": an erased Group was read; "erased": and
              \* the read made the code erase the live group with its name

vars == <<pool, frame, stale>>

Free == [st |-> "free"]          \* neither a job nor a socket
None == [st |-> "none"]          \* a handle without request or socket
NoFrame == [kind |-> "none"]

-----------------------------------------------------------------------------
(* Group and its predicates.                                               *)

Jobs(p, g) == {c \in Conns : p.conn[c].st = "connecting" /\ p.conn[c].group = g}
IdleSockets(p, g) == {c \in Conns : p.conn[c].st = "idle" /\ p.conn[c].group = g}
ActiveSockets(p, g) == {c \in Conns : p.conn[c].st = "active" /\ p.conn[c].group = g}
AllJobs(p) == {c \in Conns : p.conn[c].st = "connecting"}
AllIdle(p) == {c \in Conns : p.conn[c].st = "idle"}
AllActive(p) == {c \in Conns : p.conn[c].st = "active"}

\* Mutant: a group with waiting requests only counts as empty.
IsEmptyForgetsRequests(p, g) ==
    /\ p.active_socket_count[g] = 0
    /\ IdleSockets(p, g) = {}
    /\ Jobs(p, g) = {}

IsEmpty(p, g) ==
    /\ p.active_socket_count[g] = 0
    /\ IdleSockets(p, g) = {}
    /\ Jobs(p, g) = {}
    /\ p.pending_requests[g] = <<>>

HasAvailableSocketSlot(p, g) ==
    p.active_socket_count[g] + Cardinality(Jobs(p, g)) < max_sockets_per_group_

TopPendingPriority(p, g) == p.handle[Head(p.pending_requests[g])].priority

CleanupBackupJob(p, g) ==
    [p EXCEPT !.backup_job = @ \ {g}, !.backup_task = @ \ {g}]

\* group_map_.erase(g): the destructor of Group drops the backup job.
EraseGroup(p, g) == [CleanupBackupJob(p, g) EXCEPT !.group_map_ = @ \ {g}]

EraseIfEmpty(p, g) == IF IsEmpty(p, g) THEN EraseGroup(p, g) ELSE p

Total(p) == p.handed_out_socket_count_ + p.connecting_socket_count_
              + p.idle_socket_count_

\* Mutant: the idle sockets are not counted.
ReachedLimitWithoutIdle(p) == Total(p) - p.idle_socket_count_ >= max_sockets_

ReachedMaxSocketsLimit(p) == Total(p) >= max_sockets_

MayHaveStalledGroups(p) ==
    p.last_stalled_group_count_ > 0 \/ ReachedMaxSocketsLimit(p)

-----------------------------------------------------------------------------
(* Idle sockets.                                                           *)

IncrementIdleCount(p) ==
    [p EXCEPT !.idle_socket_count_ = @ + 1,
              !.timer_ = @ \/ p.idle_socket_count_ + 1 = 1]

\* n calls of DecrementIdleCount.
DecrementIdleCount(p, n) ==
    [p EXCEPT !.idle_socket_count_ = @ - n,
              !.timer_ = @ /\ ~(n > 0 /\ p.idle_socket_count_ = n)]

\* The idle sockets S are removed from their groups, and deleted.
DeleteIdle(p, S) ==
    LET q == DecrementIdleCount(p, Cardinality(S))
    IN  [q EXCEPT !.conn = [c \in Conns |-> IF c \in S THEN Free ELSE p.conn[c]]]

AddIdleSocket(p, c, gen, g) ==
    IncrementIdleCount(
        [p EXCEPT !.conn[c] = [st |-> "idle", group |-> g, gen |-> gen]])

\* Closes one socket of the first group that has one, and drops that group if
\* this leaves it empty.  There is no outcome when no group of the map has one
\* (LOG(DFATAL)).
CloseOneIdleSocket(p) ==
    LET holding == {g \in p.group_map_ : IdleSockets(p, g) # {}}
        first == {g \in holding : \A k \in holding : g <= k}
    IN  UNION {{EraseIfEmpty(DeleteIdle(p, {c}), g) : c \in IdleSockets(p, g)} :
                  g \in first}

\* The sweep over all groups that deletes the idle sockets S: all of them when
\* forced, otherwise those that timed out or can no longer be reused.
CleanupIdleSockets(p, S) ==
    LET q == DeleteIdle(p, S)
        gone == {g \in q.group_map_ : IsEmpty(q, g)}
    IN  IF p.idle_socket_count_ = 0
        THEN p
        ELSE [q EXCEPT !.group_map_ = @ \ gone,
                       !.backup_job = @ \ gone,
                       !.backup_task = @ \ gone]

-----------------------------------------------------------------------------
(* Handing out sockets, and the queue of requests.                         *)

\* Mutant: the socket stays where it was.
HandOutWithoutTaking(p, c, gen, g, h) ==
    [p EXCEPT !.handle[h] = [st |-> "active", group |-> g, conn |-> c,
                             pool_id |-> p.pool_generation_number_],
              !.handed_out_socket_count_ = @ + 1,
              !.active_socket_count[g] = @ + 1]

HandOutSocket(p, c, gen, g, h) ==
    [p EXCEPT !.conn[c] = [st |-> "active", group |-> g, gen |-> gen],
              !.handle[h] = [st |-> "active", group |-> g, conn |-> c,
                             pool_id |-> p.pool_generation_number_],
              !.handed_out_socket_count_ = @ + 1,
              !.active_socket_count[g] = @ + 1]

\* Idle sockets are popped until one is still connected and idle: dead are the
\* ones found unusable on the way.
AssignIdleSocketToGroup(p, g, h) ==
    UNION {{HandOutSocket(DeleteIdle(p, dead \cup {c}), c, p.conn[c].gen, g, h) :
               dead \in SUBSET (IdleSockets(p, g) \ {c})} : c \in IdleSockets(p, g)}

\* Mutant: first come, first served.
InsertAtEnd(p, q, h) == {Append(q, h)}

\* h goes behind the k requests of its own or a higher priority that lead q.
InsertRequestIntoQueue(p, q, h) ==
    LET mayPass(i) == p.handle[h].priority < p.handle[q[i]].priority
    IN  {SubSeq(q, 1, k) \o <<h>> \o SubSeq(q, k + 1, Len(q)) :
            k \in {n \in 0..Len(q) : /\ \A i \in 1..n : ~mayPass(i)
                                     /\ n < Len(q) => mayPass(n + 1)}}

RemoveRequestFromQueue(p, g, i) ==
    [p EXCEPT !.pending_requests[g] =
        SubSeq(@, 1, i - 1) \o SubSeq(@, i + 1, Len(@))]

\* Posts ProcessPendingRequest to the message loop.
OnAvailableSocketSlot(p, g, was_at_socket_limit) ==
    [p EXCEPT !.tasks =
        Append(@, [group |-> g, was_at_socket_limit |-> was_at_socket_limit])]

-----------------------------------------------------------------------------
(* Stalled groups.                                                         *)

StalledGroups(p) ==
    {g \in p.group_map_ :
        /\ p.pending_requests[g] # <<>>
        /\ HasAvailableSocketSlot(p, g)
        /\ Len(p.pending_requests[g]) > Cardinality(Jobs(p, g))}

\* The first of the stalled groups whose top request has the highest priority.
FindTopStalledGroup(p) ==
    {g \in StalledGroups(p) : \A k \in StalledGroups(p) :
        \/ TopPendingPriority(p, g) < TopPendingPriority(p, k)
        \/ TopPendingPriority(p, g) = TopPendingPriority(p, k) /\ g <= k}

CheckForStalledSocketGroups(p) ==
    LET q == [p EXCEPT !.last_stalled_group_count_ = Cardinality(StalledGroups(p))]
        room == IF ~ReachedMaxSocketsLimit(q) THEN {q}
                ELSE IF q.idle_socket_count_ > 0 THEN CloseOneIdleSocket(q)
                ELSE {}
    IN  IF StalledGroups(p) = {} \/ room = {} THEN {q}
        ELSE UNION {{OnAvailableSocketSlot(r, top, FALSE) : r \in room} :
                       top \in FindTopStalledGroup(p)}

-----------------------------------------------------------------------------
(* Connect jobs.                                                           *)

\* What ConnectJob::Connect, or a later completion, reports.  ERR stands for
\* every failure without a socket, the time-out of the job included; ERR_SOCKET
\* for the recoverable errors, which come with a socket.
Completions == {"OK", "ERR", "ERR_SOCKET"}

StartBackupSocketTimer(p, g) == [p EXCEPT !.backup_task = @ \cup {g}]

\* The job joins group.jobs and is counted.
StartJob(p, c, g) ==
    [p EXCEPT !.connecting_socket_count_ = @ + 1,
              !.conn[c] = [st |-> "connecting", group |-> g,
                           gen |-> p.pool_generation_number_]]

\* NewConnectJob and Connect on behalf of the request of h, whose outcome is
\* returned to the caller of RequestSocketInternal.
ConnectForRequest(p, g, h) ==
    LET gen == p.pool_generation_number_
        wantsBackup == /\ IsEmpty(p, g) /\ g \notin p.backup_job
                       /\ backup_jobs_enabled_
        withBackup == IF wantsBackup
                      THEN StartBackupSocketTimer(
                               [p EXCEPT !.backup_job = @ \cup {g}], g)
                      ELSE p
        free == {c \in Conns : p.conn[c] = Free}
        connected(rv) ==
            {[rv |-> rv, pool |-> HandOutSocket(p, c, gen, g, h)] : c \in free}
        pending(rv) == {[rv |-> rv, pool |-> StartJob(withBackup, c, g)] : c \in free}
        failed(rv) == {[rv |-> rv, pool |-> EraseIfEmpty(p, g)]}
    IN  UNION {CASE rv \in {"OK", "ERR_SOCKET"} -> connected(rv)
                 [] rv = "ERR_IO_PENDING" -> pending(rv)
                 [] rv = "ERR" -> failed(rv) : rv \in ConnectResults}

RequestSocketInternal(p0, g, h) ==
    LET p == [p0 EXCEPT !.group_map_ = @ \cup {g}]
        q == DeleteIdle(p, IdleSockets(p, g))      \* none of them was usable
        stall == {[rv |-> "ERR_IO_PENDING", pool |-> q]}
    IN  {[rv |-> "OK", pool |-> r] : r \in AssignIdleSocketToGroup(p, g, h)}
        \cup
        (IF ~HasAvailableSocketSlot(q, g) THEN stall
         ELSE IF ~ReachedMaxSocketsLimit(q) THEN ConnectForRequest(q, g, h)
         ELSE IF q.idle_socket_count_ > 0
              THEN UNION {ConnectForRequest(r, g, h) : r \in CloseOneIdleSocket(q)}
         ELSE stall)

\* Mutant: the backup job outlives the last job of its group.
RemoveJobKeepsBackup(p, c) ==
    [p EXCEPT !.connecting_socket_count_ = @ - 1, !.conn[c] = Free]

\* Mutant: the job is counted out twice.
RemoveJobTwice(p, c) ==
    LET g == p.conn[c].group
        q == [p EXCEPT !.connecting_socket_count_ = @ - 2, !.conn[c] = Free]
    IN  IF Jobs(q, g) = {} THEN CleanupBackupJob(q, g) ELSE q

\* Mutant: the job stays in the total.
RemoveJobKeepsCount(p, c) ==
    LET g == p.conn[c].group
        q == [p EXCEPT !.conn[c] = Free]
    IN  IF Jobs(q, g) = {} THEN CleanupBackupJob(q, g) ELSE q

RemoveConnectJob(p, c) ==
    LET g == p.conn[c].group
        q == [p EXCEPT !.connecting_socket_count_ = @ - 1, !.conn[c] = Free]
    IN  IF Jobs(q, g) = {} THEN CleanupBackupJob(q, g) ELSE q

\* Mutant: only the timers are cancelled.
CancelOnlyTimers(p) == [p EXCEPT !.backup_task = {}]

CancelAllConnectJobs(p) ==
    LET q == [p EXCEPT !.connecting_socket_count_ = @ - Cardinality(AllJobs(p)),
                       !.conn = [c \in Conns |->
                                   IF c \in AllJobs(p) THEN Free ELSE p.conn[c]],
                       !.backup_task = {}]
        gone == {g \in q.group_map_ : IsEmpty(q, g)}
    IN  [q EXCEPT !.group_map_ = @ \ gone, !.backup_job = @ \ gone]

-----------------------------------------------------------------------------
(* The calls of a client, made from the message loop or from within a      *)
(* completion callback.                                                    *)

\* Nothing is said of what follows the erasure of a live group: whoever looks the
\* group up next ends the process at a CHECK, and who creates it again finds
\* counts that have forgotten the sockets of the first.
Running == stale # "erased"

\* The reference the suspended ProcessPendingRequest holds to its group dies
\* with the group.
KeepFrame ==
    frame' = IF frame.kind = "process"
             THEN [frame EXCEPT !.valid = @ /\ frame.group \in pool'.group_map_]
             ELSE frame

Room == Len(pool.tasks) < MaxTasks

\* ClientSocketHandle::Init on an unused handle.  HandleInitCompletion resets
\* the handle when the request failed without a socket.
RequestSocket(h, g, pri) ==
    /\ Running /\ pool.handle[h] = None
    /\ \E r \in RequestSocketInternal(pool, g, h) :
          LET q == [r.pool EXCEPT !.handle[h] =
                      [st |-> "pending", group |-> g, priority |-> pri]]
          IN  IF r.rv = "ERR_IO_PENDING"
              THEN \E queue \in InsertRequestIntoQueue(q, q.pending_requests[g], h) :
                      pool' = [q EXCEPT !.pending_requests[g] = queue]
              ELSE pool' = r.pool
    /\ KeepFrame /\ stale' = "no"

\* ClientSocketHandle::Reset on a pending handle, which is the i-th request of
\* the queue of its group.
CancelRequest(h) ==
    /\ Running /\ Room /\ pool.handle[h].st = "pending"
    /\ LET g == pool.handle[h].group
       IN  \E i \in 1..Len(pool.pending_requests[g]) :
             LET q == [RemoveRequestFromQueue(pool, g, i) EXCEPT !.handle[h] = None]
             IN  /\ pool.pending_requests[g][i] = h
                 /\ IF Jobs(q, g) # {} /\ ReachedMaxSocketsLimit(q)
                    THEN \E c \in Jobs(q, g) :
                            pool' \in CheckForStalledSocketGroups(RemoveConnectJob(q, c))
                    ELSE pool' = q
    /\ KeepFrame /\ stale' = "no"

\* ClientSocketHandle::Reset on a handle with a socket, which is still
\* connected and idle or is not.
ReleaseSocket(h, reusable) ==
    /\ Running /\ Room /\ pool.handle[h].st = "active"
    /\ LET hd == pool.handle[h]
           gen == pool.conn[hd.conn].gen
           q == [pool EXCEPT !.handed_out_socket_count_ = @ - 1,
                             !.active_socket_count[hd.group] = @ - 1,
                             !.conn[hd.conn] = Free,
                             !.handle[h] = None]
           can_reuse == reusable /\ hd.pool_id = pool.pool_generation_number_
           a == AddIdleSocket(q, hd.conn, gen, hd.group)
       IN  pool' \in CheckForStalledSocketGroups(
                        IF can_reuse
                        THEN OnAvailableSocketSlot(a, hd.group, MayHaveStalledGroups(a))
                        ELSE q)
    /\ KeepFrame /\ stale' = "no"

-----------------------------------------------------------------------------
(* Events the message loop delivers.                                       *)

\* OnConnectJobComplete, from the job's I/O or its timer.  A failed request
\* that got no socket is told so in the middle of the method.
CompleteJob(p, c, result) ==
    LET g == p.conn[c].group
        gen == p.conn[c].gen
        queue == p.pending_requests[g]
        h == Head(queue)
        q == RemoveConnectJob(p, c)
        r == RemoveRequestFromQueue(q, g, 1)
        a == AddIdleSocket(q, c, gen, g)
    IN  \/ /\ queue # <<>> /\ result \in {"OK", "ERR_SOCKET"}
           /\ pool' = HandOutSocket(r, c, gen, g, h)
           /\ UNCHANGED frame
        \/ /\ queue # <<>> /\ result = "ERR"
           /\ pool' = [r EXCEPT !.handle[h] = None]
           /\ frame' = [kind |-> "connect", group |-> g]
        \/ /\ queue = <<>> /\ result = "OK"
           /\ pool' = OnAvailableSocketSlot(a, g, MayHaveStalledGroups(a))
           /\ UNCHANGED frame
        \/ /\ queue = <<>> /\ result # "OK"
           /\ pool' = OnAvailableSocketSlot(q, g, MayHaveStalledGroups(q))
           /\ UNCHANGED frame

OnConnectJobComplete(c, result) ==
    /\ Running /\ Room /\ frame = NoFrame
    /\ pool.conn[c].st = "connecting"
    /\ CompleteJob(pool, c, result)
    /\ UNCHANGED stale

\* The callback run by OnConnectJobComplete has returned.
OnConnectJobCompleteReturn ==
    /\ Running /\ frame.kind = "connect"
    /\ pool' = OnAvailableSocketSlot(pool, frame.group, MayHaveStalledGroups(pool))
    /\ frame' = NoFrame
    /\ UNCHANGED stale

\* resolving: the first job of the group is still resolving its host.
OnBackupSocketTimerFired(g, resolving) ==
    /\ Running /\ Room /\ frame = NoFrame /\ g \in pool.backup_task
    /\ LET q == [pool EXCEPT !.backup_task = @ \ {g}]
       IN  IF Jobs(q, g) = {}
           THEN pool' = q /\ UNCHANGED frame
           ELSE IF \/ ReachedMaxSocketsLimit(q)
                   \/ ~HasAvailableSocketSlot(q, g)
                   \/ resolving
           THEN pool' = StartBackupSocketTimer(q, g) /\ UNCHANGED frame
           ELSE \E c \in {x \in Conns : q.conn[x] = Free} :
                  LET r == StartJob([q EXCEPT !.backup_job = @ \ {g}], c, g)
                  IN  \/ /\ "ERR_IO_PENDING" \in ConnectResults
                         /\ pool' = r /\ UNCHANGED frame
                      \/ \E result \in ConnectResults \ {"ERR_IO_PENDING"} :
                            CompleteJob(r, c, result)
    /\ UNCHANGED stale

\* CheckForStalledSocketGroups at the end of ProcessPendingRequest.
FinishProcessing(p, was_at_socket_limit) ==
    IF was_at_socket_limit THEN pool' \in CheckForStalledSocketGroups(p)
    ELSE pool' = p

\* The posted ProcessPendingRequest runs.
ProcessPendingRequest ==
    /\ Running /\ frame = NoFrame /\ pool.tasks # <<>>
    /\ LET task == Head(pool.tasks)
           g == task.group
           p == [pool EXCEPT !.tasks = Tail(@)]
           h == Head(p.pending_requests[g])
       IN  IF g \in p.group_map_ /\ p.pending_requests[g] # <<>>
           THEN \E r \in RequestSocketInternal(p, g, h) :
                  \/ /\ r.rv = "ERR_IO_PENDING"
                     /\ FinishProcessing(r.pool, task.was_at_socket_limit)
                     /\ UNCHANGED frame
                  \/ /\ r.rv # "ERR_IO_PENDING"
                     /\ pool' = LET q == RemoveRequestFromQueue(r.pool, g, 1)
                                IN  IF r.rv = "ERR"
                                    THEN [q EXCEPT !.handle[h] = None] ELSE q
                     /\ frame' = [kind |-> "process", group |-> g, valid |-> TRUE,
                                  was_at_socket_limit |-> task.was_at_socket_limit]
           ELSE /\ FinishProcessing(p, task.was_at_socket_limit)
                /\ UNCHANGED frame
    /\ UNCHANGED stale

\* The callback run by ProcessPendingRequest has returned, and the method reads
\* its group again.  If the group was erased in between the read is undefined:
\* it finds the group non-empty, or empty and erases whatever now has its name,
\* with everything that is in it.
ProcessPendingRequestReturn ==
    /\ Running /\ frame.kind = "process"
    /\ frame' = NoFrame
    /\ \/ /\ frame.valid
          /\ FinishProcessing(EraseIfEmpty(pool, frame.group),
                              frame.was_at_socket_limit)
          /\ UNCHANGED stale
       \/ /\ ~frame.valid
          /\ FinishProcessing(pool, frame.was_at_socket_limit)
          /\ stale' = "read"
       \/ /\ ~frame.valid /\ frame.group \in pool.group_map_
          /\ FinishProcessing(EraseGroup(pool, frame.group),
                              frame.was_at_socket_limit)
          /\ stale' = "erased"

OnCleanupTimerFired ==
    /\ Running /\ frame = NoFrame /\ pool.timer_
    /\ \E S \in SUBSET AllIdle(pool) : pool' = CleanupIdleSockets(pool, S)
    /\ UNCHANGED <<frame, stale>>

CloseIdleSockets ==
    /\ Running
    /\ pool' = CleanupIdleSockets(pool, AllIdle(pool))
    /\ KeepFrame /\ stale' = "no"

\* Also OnIPAddressChanged.
Flush ==
    /\ Running
    /\ pool.pool_generation_number_ < MaxGeneration
    /\ LET q == CancelAllConnectJobs(
                   [pool EXCEPT !.pool_generation_number_ = @ + 1])
       IN  pool' = CleanupIdleSockets(q, AllIdle(q))
    /\ KeepFrame /\ stale' = "no"

Init ==
    /\ pool = [group_map_ |-> {},
               conn |-> [c \in Conns |-> Free],
               handle |-> [h \in Handles |-> None],
               pending_requests |-> [g \in Groups |-> <<>>],
               active_socket_count |-> [g \in Groups |-> 0],
               backup_job |-> {},
               backup_task |-> {},
               idle_socket_count_ |-> 0,
               connecting_socket_count_ |-> 0,
               handed_out_socket_count_ |-> 0,
               timer_ |-> FALSE,
               pool_generation_number_ |-> 0,
               last_stalled_group_count_ |-> 0,
               tasks |-> <<>>]
    /\ frame = NoFrame
    /\ stale = "no"

ClientCall ==
    \E h \in Handles :
        \/ \E g \in Groups, pri \in Priorities : RequestSocket(h, g, pri)
        \/ CancelRequest(h)
        \/ \E reusable \in BOOLEAN : ReleaseSocket(h, reusable)

Return == OnConnectJobCompleteReturn \/ ProcessPendingRequestReturn

Next ==
    \/ ClientCall
    \/ \E c \in Conns, result \in Completions : OnConnectJobComplete(c, result)
    \/ \E g \in Groups, b \in BOOLEAN : OnBackupSocketTimerFired(g, b)
    \/ ProcessPendingRequest
    \/ Return
    \/ OnCleanupTimerFired
    \/ CloseIdleSockets
    \/ Flush

Spec == Init /\ [][Next]_vars

\* The message loop runs what was posted to it and callbacks return; every
\* connect job ends (its I/O completes, its timer fires, or the pool deletes
\* it); every client gives its socket back some time.  A slot that becomes free
\* may be taken by a request that comes just then (the code lets it pass the
\* queue), so the clients must stop asking for new sockets some time; nothing is
\* assumed about when, nor about what they cancel.
Fairness ==
    /\ WF_vars(ProcessPendingRequest)
    /\ WF_vars(Return)
    /\ \A c \in Conns : []<>(pool.conn[c].st # "connecting")
    /\ \A h \in Handles : []<>(pool.handle[h].st # "active")
    /\ <>[][\A h \in Handles : pool.handle[h] = None => pool'.handle[h] = None]_vars

FairSpec == Spec /\ Fairness

-----------------------------------------------------------------------------
(* Properties.                                                             *)

ConnType == {Free} \cup
    [st : {"connecting", "idle", "active"}, group : Groups, gen : Nat]

HandleType == {None}
    \cup [st : {"pending"}, group : Groups, priority : Priorities]
    \cup [st : {"active"}, group : Groups, conn : Conns, pool_id : Nat]

TaskType == [group : Groups, was_at_socket_limit : BOOLEAN]

PoolType ==
    [group_map_ : SUBSET Groups,
     conn : [Conns -> ConnType],
     handle : [Handles -> HandleType],
     pending_requests : [Groups -> Seq(Handles)],
     active_socket_count : [Groups -> Nat],
     backup_job : SUBSET Groups,
     backup_task : SUBSET Groups,
     idle_socket_count_ : Nat,
     connecting_socket_count_ : Nat,
     handed_out_socket_count_ : Nat,
     timer_ : BOOLEAN,
     pool_generation_number_ : Nat,
     last_stalled_group_count_ : Nat,
     tasks : Seq(TaskType)]

FrameType == {NoFrame}
    \cup [kind : {"connect"}, group : Groups]
    \cup [kind : {"process"}, group : Groups, valid : BOOLEAN,
          was_at_socket_limit : BOOLEAN]

\* The state of the pool, its handles and its posted tasks has the shape the
\* class declares, and no count goes below zero (the CHECK_GTs before every
\* decrement).
TypeOK ==
    /\ pool \in PoolType
    /\ frame \in FrameType
    /\ stale \in {"no", "read", "erased"}

\* The pool never holds more sockets than it may: the DCHECK_LE(total,
\* max_sockets_) of ReachedMaxSocketsLimit, in every state and not only where
\* the code happens to ask.
SocketLimit == Total(pool) <= max_sockets_

\* The running totals, on which every limit decision rests, are the numbers of
\* idle sockets, connect jobs and handed out sockets that exist; they are
\* updated in nine places, several of them in the middle of a sweep.
CountersExact ==
    /\ pool.idle_socket_count_ = Cardinality(AllIdle(pool))
    /\ pool.connecting_socket_count_ = Cardinality(AllJobs(pool))
    /\ pool.handed_out_socket_count_ = Cardinality(AllActive(pool))
    /\ \A g \in Groups :
         pool.active_socket_count[g] = Cardinality(ActiveSockets(pool, g))

\* Every socket, job and waiting request belongs to a group that is still in
\* group_map_, so that the CHECKs of ReleaseSocket, CancelRequest and
\* OnConnectJobComplete that look the group up hold: of the five places that erase
\* a group only one can erase a group in use, ProcessPendingRequest after a read
\* of a group that is gone (NoStaleGroup).  It does orphan what is in the group.
NoOrphan ==
    stale # "erased" =>
    /\ \A c \in Conns : pool.conn[c] # Free => pool.conn[c].group \in pool.group_map_
    /\ \A h \in Handles : pool.handle[h] # None => pool.handle[h].group \in pool.group_map_

\* A socket is owned once: the handles with a socket hold different, active
\* sockets of their own group, and every active socket is held by a handle.
ExclusiveOwnership ==
    LET Holders == {h \in Handles : pool.handle[h].st = "active"}
    IN  /\ \A h \in Holders :
             /\ pool.conn[pool.handle[h].conn].st = "active"
             /\ pool.conn[pool.handle[h].conn].group = pool.handle[h].group
        /\ \A h, k \in Holders : pool.handle[h].conn = pool.handle[k].conn => h = k
        /\ \A c \in Conns : pool.conn[c].st = "active" =>
             \E h \in Holders : pool.handle[h].conn = c

\* A handle waits in exactly one place of the queue of its group, whatever
\* callbacks and cancellations came in between; the queue is sorted by
\* priority.
QueuesExact ==
    /\ \A g \in Groups :
         LET q == pool.pending_requests[g]
         IN  /\ \A i \in 1..Len(q) : /\ pool.handle[q[i]].st = "pending"
                                     /\ pool.handle[q[i]].group = g
             /\ \A i, j \in 1..Len(q) : i < j =>
                  /\ q[i] # q[j]
                  /\ pool.handle[q[i]].priority <= pool.handle[q[j]].priority
    /\ \A h \in Handles : pool.handle[h].st = "pending" =>
         \E i \in 1..Len(pool.pending_requests[pool.handle[h].group]) :
            pool.pending_requests[pool.handle[h].group][i] = h

\* What OnBackupSocketTimerFired CHECKs when it runs: the group still exists,
\* it still has its backup job, and some job of it is still connecting.
BackupTimerValid ==
    \A g \in pool.backup_task :
        g \in pool.group_map_ /\ g \in pool.backup_job /\ Jobs(pool, g) # {}

\* No socket whose connection began before the last Flush is kept for reuse.
NoReuseAcrossFlush ==
    \A c \in Conns : pool.conn[c].st \in {"idle", "connecting"} =>
        pool.conn[c].gen = pool.pool_generation_number_

\* RequestSocket's promise: "If ERR_IO_PENDING is returned, then the callback
\* will be used to notify the client of completion", and that of
\* CheckForStalledSocketGroups, which wakes one request only: "there is no
\* starvation".  A request that waits is answered, unless its client takes it
\* back.
PendingAnswered ==
    \A h \in Handles :
        pool.handle[h].st = "pending" ~> pool.handle[h].st # "pending"

\* After a callback ProcessPendingRequest does not use a group that the
\* callback made the pool erase ("|group| may no longer be valid after this
\* point.  Be careful not to access it again").
NoStaleGroup == stale = "no"

=============================================================================
