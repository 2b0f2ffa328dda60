----------------------------- MODULE HostResolver -----------------------------
(***************************************************************************)
(* net/base/host_resolver_impl.cc and host_cache.cc, composed with the     *)
(* worker pool: name resolutions are asked for on one thread (the origin   *)
(* loop), looked up by tasks of the pool, and answered on the origin loop. *)
(* Requests for the same key share a job; at most max_jobs_ jobs exist and *)
(* further requests wait in a queue with a limit.                          *)
(*                                                                         *)
(* A callback may call back into the resolver, cancel other requests of    *)
(* the job that is being completed, shut the resolver down or drop the     *)
(* last reference to it.  So cur_completing_job_ # None means that the     *)
(* callback of the it-th request of that job is running, and the calls of  *)
(* the client below may happen then or from any other task of the loop.    *)
(*                                                                         *)
(* A Request is written to its job once, so a Job is named by the request  *)
(* it was created for.  Job::Cancel clears resolver_ and, under the lock   *)
(* DoLookup takes, origin_loop_: they are one flag here, since a post      *)
(* between the two stores is a post before both.                           *)
(*                                                                         *)
(* The way of an IPv6ProbeJob through the pool and back is left out: it is *)
(* cancelled when ipv6_probe_job_ lets go of it, and does nothing then; as *)
(* long as it is there it may complete at any time.                        *)
(***************************************************************************)
EXTENDS WorkerPool, FiniteSets, SequencesExt

CONSTANTS
    Requests,
    Info,           \* the RequestInfo of every request
    NUM_PRIORITIES,
    None,
    max_jobs_,
    Constraints,    \* what SetPoolConstraints is called with
    max_entries_    \* of the cache; 0 stands for no caching at all

UNSPECIFIED == "ADDRESS_FAMILY_UNSPECIFIED"
IPV4 == "ADDRESS_FAMILY_IPV4"
Families == {UNSPECIFIED, IPV4}

Hosts == {Info[r].hostname : r \in Requests}
Keys == Hosts \X Families

ASSUME ResolverAssumption ==
    /\ Info \in [Requests -> [hostname : Hosts, address_family : Families,
                              priority : 0..NUM_PRIORITIES - 1,
                              allow_cached_response : BOOLEAN]]
    /\ NUM_PRIORITIES \in Nat
    /\ Tasks = Requests /\ None \notin Requests
    /\ max_jobs_ \in Nat \ {0} /\ max_entries_ \in Nat
    /\ Constraints \subseteq (Nat \ {0}) \X Nat

VARIABLES
    jobs_,                   \* of every key: its outstanding job
    pending_requests_,       \* queued requests, in the order of their arrival
    num_outstanding_jobs_,
    max_outstanding_jobs_, max_pending_requests_,
    request,                 \* job_ and callback_ of every Request
    job,                     \* key_, requests_ and resolver_ of every Job
    cur_completing_job_, it, \* the frame of OnJobComplete
    entries_,                \* the keys that have an entry in the cache
    default_address_family_,
    ipv6_probe_monitoring_,
    ipv6_probe_job_,         \* there is one, and it was not cancelled
    shutdown_,
    deleted,                 \* the destructor has run
    loop,                    \* OnLookupComplete tasks in the origin loop: their jobs
    client,                  \* what the client knows of every request
    failed                   \* a DCHECK stopped the program

jobVars == <<jobs_, pending_requests_, num_outstanding_jobs_, request, job>>
limitVars == <<max_outstanding_jobs_, max_pending_requests_>>
frameVars == <<cur_completing_job_, it>>
familyVars == <<default_address_family_, ipv6_probe_monitoring_, ipv6_probe_job_>>
vars == <<jobVars, limitVars, frameVars, entries_, familyVars, shutdown_, deleted, loop,
          client, failed, poolVars>>

NoRequest == [job_ |-> None, callback_ |-> FALSE]
NoJob == [key_ |-> None, requests_ |-> <<>>, resolver_ |-> FALSE]

Init ==
    /\ jobs_ = [k \in Keys |-> None] /\ pending_requests_ = <<>>
    /\ num_outstanding_jobs_ = 0
    /\ max_outstanding_jobs_ = max_jobs_ /\ max_pending_requests_ = 100 * max_jobs_
    /\ request = [r \in Requests |-> NoRequest]
    /\ job = [r \in Requests |-> NoJob]
    /\ cur_completing_job_ = None /\ it = 0
    /\ entries_ = {}
    /\ default_address_family_ = UNSPECIFIED
    /\ ipv6_probe_monitoring_ = FALSE /\ ipv6_probe_job_ = FALSE
    /\ shutdown_ = FALSE /\ deleted = FALSE /\ loop = <<>>
    /\ client = [r \in Requests |-> "unused"]
    /\ failed = FALSE
    /\ PoolInit

-----------------------------------------------------------------------------
(* HostCache.                                                              *)

\* Lookup may find an entry.  Time is left out: an entry may also have expired, so
\* Lookup may always find nothing.
Lookup(r, key) == Info[r].allow_cached_response /\ key \in entries_

\* Compact may leave the entry that was just added and any others within the limit:
\* which are expired, and the order of the map, are not known.
Compact(entries, pinned) ==
    {S \in SUBSET entries : pinned \in S /\ Cardinality(S) <= max_entries_}

\* HostCache::Set, as the set of its outcomes.
SetEntry(key) ==
    LET entries == entries_ \cup {key} IN
    IF max_entries_ = 0 THEN {entries_}
    ELSE IF Cardinality(entries) > max_entries_ THEN Compact(entries, key) ELSE {entries}

ClearEntries == entries_' = {}

-----------------------------------------------------------------------------
(* JobPool and the map of jobs.                                            *)

GetEffectiveKeyForRequest(r) ==
    <<Info[r].hostname, IF Info[r].address_family = UNSPECIFIED
                        THEN default_address_family_ ELSE Info[r].address_family>>

OutstandingJobs(jobs) == {jobs[k] : k \in Keys} \ {None}

CanCreateJobForPool(jobs, outstanding) ==
    /\ Cardinality(OutstandingJobs(jobs)) + 1 <= max_jobs_
    /\ outstanding + 1 <= max_outstanding_jobs_

\* The requests of a list that are in S, in their order.
Among(requests, S) ==
    LET kept[i \in 0..Len(requests)] ==
            IF i = 0 THEN <<>>
            ELSE IF requests[i] \in S THEN Append(kept[i - 1], requests[i])
            ELSE kept[i - 1]
    IN  kept[Len(requests)]

Without(requests, gone) == Among(requests, Requests \ gone)

\* The i-th request of the list comes before the j-th in its queue, or is in another.
Older(requests, i, j) ==
    Info[requests[i]].priority = Info[requests[j]].priority => i <= j

\* The i-th request is the oldest of the lowest priority, which is the highest number.
LowestPriority(requests, i) ==
    \A j \in 1..Len(requests) : /\ Info[requests[i]].priority >= Info[requests[j]].priority
                                /\ Older(requests, i, j)

\* The i-th request is the oldest of the highest priority.
TopPendingRequest(requests, i) ==
    \A j \in 1..Len(requests) : /\ Info[requests[i]].priority <= Info[requests[j]].priority
                                /\ Older(requests, i, j)

\* The other queued requests that a job for r can service.
CanService(r) ==
    {q \in ToSet(pending_requests_) \ {r} :
        GetEffectiveKeyForRequest(q) = GetEffectiveKeyForRequest(r)}

\* The order in which a job takes requests along, queue by queue.
MoveRequestsToJob(moved) ==
    FlattenSeq([i \in 1..NUM_PRIORITIES |->
        Among(pending_requests_, {q \in moved : Info[q].priority = i - 1})])

\* What is left when the last reference to the jobs goes and they delete their
\* requests with them.
JobsWithout(freed) == [j \in Requests |-> IF j \in freed THEN NoJob ELSE job[j]]
RequestsWithout(freed) ==
    [r \in Requests |-> IF \E j \in freed : r \in ToSet(job[j].requests_)
                        THEN NoRequest ELSE request[r]]
Free(freed) == job' = JobsWithout(freed) /\ request' = RequestsWithout(freed)

\* CreateAndStartJob with the requests that piggy-back on it.  Called from
\* OnJobComplete, jobs and outstanding are what is left of jobs_ and
\* num_outstanding_jobs_, and freed is the old job if no callback is left to run.
CreateAndStartJob(jobs, outstanding, freed, r, moved) ==
    LET key == GetEffectiveKeyForRequest(r)
    IN  /\ jobs_' = [jobs EXCEPT ![key] = r]
        /\ num_outstanding_jobs_' = outstanding + 1
        /\ job' = [JobsWithout(freed) EXCEPT ![r] =
                      [key_ |-> key, requests_ |-> <<r>> \o MoveRequestsToJob(moved), resolver_ |-> TRUE]]
        /\ request' = [q \in Requests |-> IF q \in {r} \cup moved
                          THEN [job_ |-> r, callback_ |-> TRUE] ELSE RequestsWithout(freed)[q]]
        /\ PostTask(r)

\* Job::Cancel: the jobs lose their resolver and the requests are marked.
Cancel(cancelled, marked) ==
    /\ job' = [j \in Requests |-> IF j \in cancelled THEN [job[j] EXCEPT !.resolver_ = FALSE]
                                  ELSE job[j]]
    /\ request' = [r \in Requests |-> IF r \in marked THEN NoRequest ELSE request[r]]

-----------------------------------------------------------------------------
(* The calls of the client.                                                *)

Alive == ~deleted /\ ~failed

\* "Can only set constraints during setup": CHECK(jobs_.empty()), which also lets a
\* call through between two jobs, in the callbacks of the last one and after Shutdown.
SetPoolConstraints(max_jobs, max_requests) ==
    /\ Alive /\ OutstandingJobs(jobs_) = {}
    /\ max_outstanding_jobs_' = max_jobs /\ max_pending_requests_' = max_requests
    /\ UNCHANGED <<jobVars, frameVars, entries_, familyVars, shutdown_, deleted, loop,
                   client, failed, poolVars>>

\* Resolve returns without IO_PENDING: after Shutdown, from the cache, or, when no
\* callback is given, after a look-up on the calling thread.
ResolveNow(r) ==
    LET key == GetEffectiveKeyForRequest(r) IN
    /\ Alive /\ client[r] = "unused" /\ client' = [client EXCEPT ![r] = "done"]
    /\ \/ (shutdown_ \/ Lookup(r, key)) /\ UNCHANGED entries_
       \/ ~shutdown_ /\ entries_' \in SetEntry(key)
    /\ UNCHANGED <<jobVars, limitVars, frameVars, familyVars, shutdown_, deleted, loop,
                   failed, poolVars>>

\* Resolve has to wait for a look-up.
Pending(r) ==
    /\ Alive /\ client[r] = "unused" /\ ~shutdown_
    /\ UNCHANGED <<limitVars, frameVars, entries_, familyVars, shutdown_, deleted, loop, failed>>

WaitForAnswer(r) == client' = [client EXCEPT ![r] = "waiting"]

\* Resolve joins the outstanding job of its key.
JoinJob(r) ==
    LET j == jobs_[GetEffectiveKeyForRequest(r)] IN
    /\ Pending(r) /\ j # None
    /\ job' = [job EXCEPT ![j].requests_ = Append(@, r)]
    /\ request' = [request EXCEPT ![r] = [job_ |-> j, callback_ |-> TRUE]]
    /\ WaitForAnswer(r)
    /\ UNCHANGED <<jobs_, pending_requests_, num_outstanding_jobs_, poolVars>>

StartJob(r) ==
    /\ Pending(r) /\ jobs_[GetEffectiveKeyForRequest(r)] = None
    /\ CanCreateJobForPool(jobs_, num_outstanding_jobs_)
    /\ CreateAndStartJob(jobs_, num_outstanding_jobs_, {}, r, {})
    /\ WaitForAnswer(r)
    /\ UNCHANGED pending_requests_

\* The callback of a request runs.
Told(was) == IF was \in {"unused", "waiting"} THEN "done"
             ELSE IF was = "ignored" THEN "ignored" ELSE "surprised"

\* The evicted request is told with its callback, or by the result of Resolve when
\* it is the new one.  Resolve does nothing after the callback, so what the client
\* does in it is what it does next.
EnqueueRequest(r) ==
    LET queue == Append(pending_requests_, r) IN
    /\ Pending(r) /\ jobs_[GetEffectiveKeyForRequest(r)] = None
    /\ ~CanCreateJobForPool(jobs_, num_outstanding_jobs_)
    /\ \/ /\ Len(queue) <= max_pending_requests_
          /\ pending_requests_' = queue
          /\ request' = [request EXCEPT ![r].callback_ = TRUE]
          /\ WaitForAnswer(r)
       \/ /\ Len(queue) > max_pending_requests_
          /\ \E i \in 1..Len(queue) :
               /\ LowestPriority(queue, i)
               /\ pending_requests_' = Without(queue, {queue[i]})
               /\ request' = [request EXCEPT ![r].callback_ = TRUE,
                                            ![queue[i]].callback_ = FALSE]
               /\ client' = [client EXCEPT ![r] = "waiting", ![queue[i]] = Told(@)]
    /\ UNCHANGED <<jobs_, num_outstanding_jobs_, job, poolVars>>

\* Mutant: the request stays in the queue of its pool.
CancelRequestQueued(r) ==
    /\ Alive /\ client[r] = "waiting" /\ ~shutdown_
    /\ client' = [client EXCEPT ![r] = "done"]
    /\ request' = [request EXCEPT ![r] = NoRequest]
    /\ UNCHANGED <<jobs_, pending_requests_, num_outstanding_jobs_, job, limitVars, frameVars, entries_, familyVars, shutdown_,
                   deleted, loop, failed, poolVars>>

\* A request that has a job stays in the list of the job.
CancelRequest(r) ==
    /\ Alive /\ client[r] = "waiting" /\ ~shutdown_
    /\ client' = [client EXCEPT ![r] = "done"]
    /\ request' = [request EXCEPT ![r] = NoRequest]
    /\ \/ request[r].job_ # None /\ UNCHANGED pending_requests_
       \/ request[r].job_ = None /\ pending_requests_' = Without(pending_requests_, {r})
    /\ UNCHANGED <<jobs_, num_outstanding_jobs_, job, limitVars, frameVars, entries_, familyVars,
                   shutdown_, deleted, loop, failed, poolVars>>

\* After Shutdown the call is ignored.
CancelRequestIgnored(r) ==
    /\ Alive /\ client[r] = "waiting" /\ shutdown_
    /\ client' = [client EXCEPT ![r] = "ignored"]
    /\ UNCHANGED <<jobVars, limitVars, frameVars, entries_, familyVars, shutdown_, deleted, loop,
                   failed, poolVars>>

\* Mutant: the cancelled jobs stay in the map.
ShutdownKeepsJobs ==
    /\ Alive /\ ~shutdown_ /\ shutdown_' = TRUE
    /\ Cancel(OutstandingJobs(jobs_), {})
    /\ ipv6_probe_job_' = FALSE
    /\ UNCHANGED <<jobs_, pending_requests_, num_outstanding_jobs_, limitVars, frameVars,
                   entries_, default_address_family_, ipv6_probe_monitoring_, deleted, loop,
                   client, failed, poolVars>>

\* CancelRequest ignores the calls of Job::Cancel too.  The queue is left alone, and
\* so are cur_completing_job_ and num_outstanding_jobs_.
Shutdown ==
    /\ Alive /\ ~shutdown_ /\ shutdown_' = TRUE
    /\ Cancel(OutstandingJobs(jobs_), {})
    /\ jobs_' = [k \in Keys |-> None]
    /\ ipv6_probe_job_' = FALSE
    /\ UNCHANGED <<pending_requests_, num_outstanding_jobs_, limitVars, frameVars, entries_,
                   default_address_family_, ipv6_probe_monitoring_, deleted, loop,
                   client, failed, poolVars>>

\* The members of the resolver are destroyed with it.
Gone ==
    /\ deleted' = TRUE
    /\ jobs_' = [k \in Keys |-> None] /\ pending_requests_' = <<>>
    /\ num_outstanding_jobs_' = 0 /\ ClearEntries
    /\ default_address_family_' = UNSPECIFIED
    /\ ipv6_probe_monitoring_' = FALSE /\ ipv6_probe_job_' = FALSE
    /\ shutdown_' = FALSE
    /\ client' = [r \in Requests |-> IF client[r] = "waiting" THEN "done" ELSE client[r]]

\* The queued requests are deleted; CancelRequest marks the others, unless the
\* resolver was shut down.
MarkedWith(cancelled) ==
    ToSet(pending_requests_)
    \cup {r \in Requests : ~shutdown_ /\ request[r].job_ \in cancelled}

\* ~HostResolverImpl, perhaps called by a callback.
Destroy ==
    LET cancelled == OutstandingJobs(jobs_) \cup ({cur_completing_job_} \ {None}) IN
    /\ Alive /\ Gone
    /\ Cancel(cancelled, MarkedWith(cancelled))
    /\ UNCHANGED <<limitVars, frameVars, loop, failed, poolVars>>

-----------------------------------------------------------------------------
(* The default address family and its probe.                               *)

SetDefaultAddressFamily(family) ==
    /\ Alive
    /\ ipv6_probe_monitoring_' = FALSE /\ ipv6_probe_job_' = FALSE
    /\ default_address_family_' = family
    /\ UNCHANGED <<jobVars, limitVars, frameVars, entries_, shutdown_, deleted, loop, client,
                   failed, poolVars>>

ProbeIPv6Support ==
    /\ Alive /\ ~shutdown_ /\ ~ipv6_probe_monitoring_
    /\ ipv6_probe_monitoring_' = TRUE
    /\ ClearEntries /\ ipv6_probe_job_' = TRUE
    /\ UNCHANGED <<jobVars, limitVars, frameVars, default_address_family_, shutdown_, deleted, loop,
                   client, failed, poolVars>>

\* A notification of the NetworkChangeNotifier, a task of its own.
OnIPAddressChanged ==
    /\ Alive /\ cur_completing_job_ = None
    /\ ClearEntries
    /\ ipv6_probe_job_' = (ipv6_probe_job_ \/ (ipv6_probe_monitoring_ /\ ~shutdown_))
    /\ UNCHANGED <<jobVars, limitVars, frameVars, default_address_family_, ipv6_probe_monitoring_,
                   shutdown_, deleted, loop, client, failed, poolVars>>

\* IPv6ProbeSetDefaultAddressFamily, called by a task of its own.
OnProbeComplete(family) ==
    /\ Alive /\ cur_completing_job_ = None
    /\ ipv6_probe_job_ /\ ipv6_probe_job_' = FALSE
    /\ default_address_family_' = family
    /\ UNCHANGED <<jobVars, limitVars, frameVars, entries_, ipv6_probe_monitoring_, shutdown_,
                   deleted, loop, client, failed, poolVars>>

-----------------------------------------------------------------------------
(* The tasks of the worker pool.                                           *)

\* A job that was cancelled is gone with its task.
LookupDone(j) ==
    /\ TaskDone(j)
    /\ \/ /\ job[j].resolver_ /\ loop' = Append(loop, j)
          /\ UNCHANGED <<job, request>>
       \/ /\ ~job[j].resolver_ /\ Free({j})
          /\ UNCHANGED loop
    /\ UNCHANGED <<jobs_, pending_requests_, num_outstanding_jobs_, limitVars, frameVars,
                   entries_, familyVars, shutdown_, deleted, client, failed>>

\* Mutant: look-ups that run at the same time block each other.
DoLookupAlone(j) == running = {j} /\ ~failed /\ LookupDone(j)

DoLookup(j) == ~failed /\ LookupDone(j)

-----------------------------------------------------------------------------
(* The tasks of the origin loop.                                           *)

\* Mutant: a cancelled request of the list is called too.
NextRequestAny(j, i) == IF i < Len(job[j].requests_) THEN i + 1 ELSE 0

\* The index of the next request of j, after the i-th, that was not cancelled.
NextRequest(j, i) ==
    LET rest == {n \in i + 1..Len(job[j].requests_) : request[job[j].requests_[n]].callback_}
    IN  IF rest = {} THEN 0 ELSE CHOOSE n \in rest : \A m \in rest : n <= m

\* The loop of OnJobComplete goes on to the callback of its n-th request, or ends.
GoOn(j, n) ==
    IF n = 0 THEN cur_completing_job_' = None /\ it' = 0 /\ UNCHANGED client
    ELSE LET r == job[j].requests_[n] IN
         /\ cur_completing_job_' = j /\ it' = n
         /\ client' = [client EXCEPT ![r] = Told(@)]

NothingStarted(jobs, outstanding, freed) ==
    /\ jobs_' = jobs /\ num_outstanding_jobs_' = outstanding
    /\ Free(freed)
    /\ UNCHANGED <<pending_requests_, poolVars>>

\* Mutant: a queued request waits until a call of Resolve starts a job.
ProcessNoRequests(jobs, outstanding, freed) == NothingStarted(jobs, outstanding, freed)

\* ProcessQueuedRequests starts at most one job, which takes along what it can.
ProcessQueuedRequests(jobs, outstanding, freed) ==
    IF pending_requests_ # <<>> /\ CanCreateJobForPool(jobs, outstanding)
    THEN \E i \in 1..Len(pending_requests_) :
           LET r == pending_requests_[i] IN
           /\ TopPendingRequest(pending_requests_, i)
           /\ CreateAndStartJob(jobs, outstanding, freed, r, CanService(r))
           /\ pending_requests_' = Without(pending_requests_, {r} \cup CanService(r))
    ELSE NothingStarted(jobs, outstanding, freed)

\* The key of a request may have changed while it was queued, and an outstanding job
\* may have that key.
FindsJob(jobs, outstanding) ==
    /\ pending_requests_ # <<>> /\ CanCreateJobForPool(jobs, outstanding)
    /\ \E i \in 1..Len(pending_requests_) :
          /\ TopPendingRequest(pending_requests_, i)
          /\ jobs[GetEffectiveKeyForRequest(pending_requests_[i])] # None

\* OnLookupComplete and, unless the job was cancelled, OnJobComplete up to the
\* first callback.  AddOutstandingJob says DCHECK(!found_job): the program stops.
OnLookupComplete ==
    LET j == Head(loop)
        jobs == [jobs_ EXCEPT ![job[j].key_] = None]
        outstanding == num_outstanding_jobs_ - 1
        first == NextRequest(j, 0)
    IN
    /\ ~failed /\ cur_completing_job_ = None
    /\ loop # <<>> /\ loop' = Tail(loop)
    /\ \/ /\ ~job[j].resolver_ /\ Free({j})
          /\ UNCHANGED <<jobs_, pending_requests_, num_outstanding_jobs_, frameVars, entries_,
                         client, failed, poolVars>>
       \/ /\ job[j].resolver_ /\ FindsJob(jobs, outstanding) /\ failed' = TRUE
          /\ UNCHANGED <<jobVars, frameVars, entries_, client, poolVars>>
       \/ /\ job[j].resolver_ /\ ~FindsJob(jobs, outstanding) /\ UNCHANGED failed
          /\ entries_' \in SetEntry(job[j].key_)
          /\ ProcessQueuedRequests(jobs, outstanding, IF first = 0 THEN {j} ELSE {})
          /\ GoOn(j, first)
    /\ UNCHANGED <<limitVars, familyVars, shutdown_, deleted>>

\* Mutant: OnJobComplete gives up its reference to the job after the first callback.
CallbackReturnsFrees ==
    LET j == cur_completing_job_
        next == IF job[j].resolver_ THEN NextRequest(j, it) ELSE 0
    IN
    /\ j # None /\ ~failed
    /\ GoOn(j, next) /\ Free({j})
    /\ UNCHANGED <<jobs_, pending_requests_, num_outstanding_jobs_, limitVars, entries_,
                   familyVars, shutdown_, deleted, loop, failed, poolVars>>

\* The callback returns into OnJobComplete, which ends if the callback deleted the
\* resolver.
CallbackReturns ==
    LET j == cur_completing_job_
        next == IF job[j].resolver_ THEN NextRequest(j, it) ELSE 0
    IN
    /\ j # None /\ ~failed
    /\ GoOn(j, next) /\ Free(IF next = 0 THEN {j} ELSE {})
    /\ UNCHANGED <<jobs_, pending_requests_, num_outstanding_jobs_, limitVars, entries_, familyVars,
                   shutdown_, deleted, loop, failed, poolVars>>

-----------------------------------------------------------------------------
PoolThreads ==
    /\ ~failed
    /\ EnterWaitForTask \/ LeaveTimedWait \/ FinishWaitForTask
    /\ UNCHANGED <<jobVars, limitVars, frameVars, entries_, familyVars, shutdown_, deleted, loop,
                   client, failed>>

\* The pool is terminated when the program exits.
ExitProgram ==
    /\ deleted /\ cur_completing_job_ = None
    /\ Terminate
    /\ UNCHANGED <<jobVars, limitVars, frameVars, entries_, familyVars, shutdown_, deleted, loop,
                   client, failed>>

Next ==
    \/ \E r \in Requests : \/ ResolveNow(r) \/ JoinJob(r) \/ StartJob(r) \/ EnqueueRequest(r)
                           \/ CancelRequest(r) \/ CancelRequestIgnored(r) \/ DoLookup(r)
    \/ \E family \in Families : SetDefaultAddressFamily(family) \/ OnProbeComplete(family)
    \/ \E c \in Constraints : SetPoolConstraints(c[1], c[2])
    \/ Shutdown \/ Destroy \/ ProbeIPv6Support \/ OnIPAddressChanged
    \/ OnLookupComplete \/ CallbackReturns
    \/ PoolThreads \/ ExitProgram

Spec == Init /\ [][Next]_vars

\* What the system does by itself: the threads of the pool are scheduled, getaddrinfo
\* returns, the origin loop runs its tasks and the callbacks return.
SystemStep ==
    \/ \E r \in Requests : DoLookup(r)
    \/ OnLookupComplete \/ CallbackReturns
    \/ (EnterWaitForTask \/ FinishWaitForTask) /\ PoolThreads

\* As long as the system can do something it does, in an order nobody promises.
Fairness == WF_vars(SystemStep)

FairSpec == Spec /\ Fairness

-----------------------------------------------------------------------------
(* Properties.                                                             *)

Places(seq, x) == {i \in 1..Len(seq) : seq[i] = x}

\* Every object and container has the shape the code gives it; the counter of the
\* pool never wraps below zero.
TypeOK ==
    /\ jobs_ \in [Keys -> Requests \cup {None}]
    /\ pending_requests_ \in Seq(Requests)
    /\ num_outstanding_jobs_ \in Nat
    /\ max_outstanding_jobs_ \in Nat \ {0} /\ max_pending_requests_ \in Nat
    /\ request \in [Requests -> [job_ : Requests \cup {None}, callback_ : BOOLEAN]]
    /\ job \in [Requests -> [key_ : Keys \cup {None}, requests_ : Seq(Requests),
                             resolver_ : BOOLEAN]]
    /\ cur_completing_job_ \in Requests \cup {None}
    /\ cur_completing_job_ # None => it \in 1..Len(job[cur_completing_job_].requests_)
    /\ entries_ \subseteq Keys
    /\ default_address_family_ \in Families
    /\ ipv6_probe_job_ \in BOOLEAN /\ ipv6_probe_monitoring_ \in BOOLEAN
    /\ client \in [Requests -> {"unused", "waiting", "done", "ignored", "surprised"}]

\* A job that still has its resolver is in the map under its key, counted once, and
\* on its way: with the pool or in one task of the origin loop, not both.  OnJobComplete
\* relies on it when it erases the job it was called for.
JobsExact ==
    ~failed =>
    LET live == {j \in Requests \ {cur_completing_job_} : job[j].resolver_}
    IN  /\ live = OutstandingJobs(jobs_)
        /\ ~shutdown_ /\ ~deleted => num_outstanding_jobs_ = Cardinality(live)
        /\ \A j \in live :
              /\ jobs_[job[j].key_] = j
              /\ Cardinality(Places(tasks_, j)) + Cardinality({j} \cap running)
                 + Cardinality(Places(loop, j)) = 1

\* No request is forgotten: one the client waits for is in the queue, or it is in the
\* list of an outstanding job, or its turn in the job that is being completed is
\* still to come; and the queue holds nothing else.
NoRequestForgotten ==
    ~shutdown_ /\ ~deleted /\ ~failed =>
    /\ ToSet(pending_requests_) \subseteq {r \in Requests : client[r] = "waiting"}
    /\ \A r \in Requests : client[r] = "waiting" =>
          LET j == request[r].job_ IN
          /\ request[r].callback_
          /\ Cardinality(Places(pending_requests_, r)) = (IF j = None THEN 1 ELSE 0)
          /\ j # None => /\ Cardinality(Places(job[j].requests_, r)) = 1
                         /\ \/ j \in OutstandingJobs(jobs_)
                            \/ /\ j = cur_completing_job_
                               /\ \A i \in Places(job[j].requests_, r) : i > it

\* A queued request waits for a slot that is really taken.  ProcessQueuedRequests
\* starts "up to 1 job" per completion, which is enough.
NoIdleSlot ==
    pending_requests_ # <<>> /\ ~shutdown_ => ~CanCreateJobForPool(jobs_, num_outstanding_jobs_)

\* A callback runs at most once, and not for a request that was cancelled, nor after
\* the resolver was destroyed: "its completion callback will not be called".  (A
\* cancellation that Shutdown made the resolver ignore is left out.)
CallbackOnce ==
    \A r \in Requests : client[r] # "surprised"

\* Everybody who waits is answered, unless the resolver is shut down or destroyed: in
\* the end, since a request is made once, nobody waits.
AnsweredEventually ==
    <>[](\A r \in Requests : client[r] = "waiting" => shutdown_ \/ failed)

\* "This prevents starting concurrent resolves for the same hostname.": a job is
\* created only for a key that has none.
NoConcurrentResolves == ~failed
===============================================================================
