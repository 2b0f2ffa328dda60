# A TLA+ development for the networking and threading core

The repository is a snapshot of Chromium (2010): `base/` (threads, message
loops, synchronisation), `net/` (sockets, HTTP, disk cache, DNS), `native_client/`
and `ppapi/`, with vendored libraries and test frameworks.  This directory models
the parts of it whose correctness depends on the order of events rather than on
the values of data, checks the models with TLC on small instances, and proves
with TLAPS what holds for every size.

## 1. Inventory

| Component | State | Operations | Interacts through | Hard because | Correct when |
|---|---|---|---|---|---|
| Client socket pool (`net/socket/client_socket_pool_base.*`) | groups with idle sockets, jobs, waiting requests, backup job; three totals; generation | request, cancel, release, job completion, wake-up, backup timer, idle timer, flush | callbacks into clients (which call back), tasks posted to the message loop | re-entry in the middle of methods; wake-ups that run later; limits shared by groups | limits, exact totals, one owner per socket, every waiting request answered |
| Waitable event (`base/waitable_event_posix.cc`) | flag, lock, list of waiters | Signal, Reset, IsSignaled, Wait, TimedWait, WaitMany | threads; condition variables; locks of several events | a signal between time-out and removal; a waiter in several lists; lock order | a signal is taken by exactly one wait or kept; no dead waiter in a list; no deadlock |
| Event watcher (`base/waitable_event_watcher_posix.cc`) | waiter, flag and kernel of the current watch | StartWatching, StopWatching, destruction, the posted callback | message loop, other threads' signals | reuse of addresses; the task already posted when the watch stops; loop destruction | no callback after stop; no watch forgotten |
| HTTP cache entries (`net/http/http_cache.cc`) | active and doomed entries, writer, readers, queue, pending backend operations | add, done writing/reading, doom, backend completion | disk cache callbacks, posted queue processing | entry deleted while a task for it is posted | one writer or readers; no transaction forgotten |
| Disk cache rankings (`net/disk_cache/rankings.cc`) | doubly linked lists in a mapped file, one-word log | insert, remove, update rank, recovery | files | crash between any two stores | every list closed after recovery |
| Disk cache backend and block files | hash table, entries, allocation bitmaps | create, open, doom, evict, allocate | cache thread, callbacks | crash, dirty entries, operations in flight | no block used twice |
| Host resolver (`net/base/host_resolver_impl.cc`) | jobs, queued requests, cache | resolve, cancel, completion, address change, shutdown | worker threads, callbacks | cancellation inside callbacks; late lookups | each request answered at most once, limits kept |
| Message loop (`base/message_loop.cc`) | four task queues, nesting | post, run, nest, quit | all threads | lost wake-up of the pump; nested loops | each task run once, in order |
| Worker pool (`base/worker_pool_linux.cc`) | task queue, number of idle threads | post, wait for a task, terminate | threads, a condition variable | the idle count is stale when used | no task without a thread |
| Eviction (`net/disk_cache/eviction.cc`) | which list an entry is in, by its record | create, open, doom, evict, destroy | rankings, entry records in files | record and list are stored one after the other | record and list agree |
| Timers, watchdog, Windows condition variable (`base/`) | counts, queues | wait, signal | threads | hand-made signalling | no lost signal |
| SPDY, WebSocket, SocketStream | connection state machines | frames, callbacks | socket pool | order of callbacks | one close, no frame lost |
| Native Client runtime and untrusted pthreads | thread tables, queues, mutexes | create, exit, join, lock | system calls | exit against join | no leak, no double join |
| PPAPI trackers | reference counts | add, release, abort | plugin channel | callbacks at instance death | counts agree |
| Parsers, encoders, validators, platform glue | – | – | – | – | data transformations, left to unit tests |

`PROJECT.json` lists the same components with their files and status, and under
"hazards" what is hard to test, at the line where it bites.

## 2. Plan

Done:

1. `SocketPool`, its runs, and the theorems on limits and counters.
2. `WaitableEvent` with the abstract `EventSpec`, and `EventWatcher`.
3. `HttpCache`: active entries with writer, readers and queue, pending
   operations, and the transactions that use them.
4. `Rankings` with the abstract `LruSpec`: the linked lists store by store, a
   death of the process between any two, and the repair; `Eviction` on top.
5. `WorkerPool` with its theorems, and `HostResolver` composed with it.
6. Proofs about ownership, queues, timers and generations of the socket pool; the
   invariants of events and watchers; that the events implement `EventSpec`; the
   invariants of the host resolver.
7. Proofs of all safety invariants of the HTTP cache.

Next:

8. `MessageLoop`, the hand-over of operations to the thread of the disk cache,
   block allocation, then the smaller machines.

Modules that carry theorems use no RECURSIVE operator; their parameters are
constants with named assumptions.

## 3. Modules

### SocketPool

The pool's members are the fields of one record `pool`; a method is an operator
on that record, and a method whose outcome depends on the network returns the set
of its outcomes.  A connect job and the socket it becomes share an identity
(`Conns`), whose record says whether it is connecting, idle or active, in which
group, and in which generation of the pool its connection began.  `handle` is the
`ClientSocketHandle` of each client, `tasks` the posted `ProcessPendingRequest`
calls.

Clients act at any time, also while a pool method is suspended in a completion
callback: `frame` is that method.  `OnConnectJobComplete` and
`ProcessPendingRequest` go on after the callback, in the actions ending in
`Return`.  Whatever is public may be called from a callback, `Flush` and
`CloseIdleSockets` included.  `ProcessPendingRequest` holds a reference to its group
meanwhile; when the group is erased the next read is undefined, which the model
shows in `stale` and resolves in both ways.  If the dead object reads as empty while
a new group has its name, the code erases the new group with what belongs to it:
so does the model (`stale = "erased"`), and there it ends, for the CHECKs of the next
calls stop the program.

Left open, which only adds behaviours: which of a group's idle sockets is taken
first, which of them turn out dead, when timers fire, what connects return.  Left
out: net log, histograms, load states, socket time-outs as numbers (any idle
socket may time out).

### WaitableEvent and EventSpec

`WaitableEvent` has one step between any two points where a thread may block or
releases a lock.  `lock_` is the lock of each event; the lock of a thread's
`SyncWaiter` is held exactly at the places `HoldsWaiter` names, and `Fire` waits
for it.  `call` is the method a thread is in and how far it is.  `EventSpec` is
the abstract event of the header's comments: threads wait, are released or time
out, without locks and lists; signaling an automatic event is an operation that
must end by releasing one waiting thread or by leaving the event signaled because
nobody waits.  The mapping (`signaledBar`, `threadBar`) shows an event as signaled
from the start of `SignalAll`, since the lock hides the flag until the end.

### EventWatcher

Watchers, their flags and waiters, the queue of the loop, the signals of other
threads, deletion of events (the kernel stays while a watcher refers to it) and
the end of the loop.  Addresses are reused at once, so the stale pointer that a
watcher keeps to a fired waiter can match the waiter of another watch: the reason
for the tag of `Dequeue`.

### HttpCache

Everything the cache shares it shares per key, so the model has one key.  The
fields of the record `cache` are the entry in `active_entries_`, all live entries
(the doomed ones too), the operation in `pending_ops_`, whether the disk holds an
entry, the backend and who waits for it, the posted `OnProcessPendingQueue` tasks,
and of each transaction its mode, `entry_`, `new_entry_` and whether it waits.

The cache runs on one thread and re-enters itself, so the C++ stack is part of
the state (`stack`): the `DoLoop` of a transaction, the loops of `OnIOComplete`,
`DoneWritingToEntry` and `OnBackendCreated` with the local lists they walk, and
the callback of a client.  The states of a transaction that get an entry are
actions of their own names.  What happens while it has the entry depends on
headers and data; it is reduced to what it does to the lock: wait (`Suspend`),
become a pure writer (`Overwrite`) or a reader (`Validated`), doom the entry
(`NoStore`, `DoomPartialEntry`) or give it back.  DCHECKs that fail are recorded in
`failed` until the next call of a client (`Called`) and the code goes on, as in a
release build; which of them can fail is said under
"Disagreements".

The backend is the one on disk, which always answers later, or the one in memory,
which always answers inside the call; which one is chosen when it is created.  The
cache relies on a backend not doing both: if a Doom were answered later and the
Create after it at once, a queued Open would be told that there is no entry while
one is active, and `CreateEntry`'s DCHECK would fail.

Assumed of the clients: none deletes the transaction whose code is running below
it on the stack, and none deletes, in the callback of one transaction, another one
that waits in the local list of the same loop.  The comment of `OnIOComplete`
(:914-920) says of its own list that this is not supported; of the list of
`DoneWritingToEntry` (:737-749) no comment does, and `RemovePendingTransaction` would
not find the transaction there, which the loop then uses after its end.  Two more
things rest on this assumption.  `Transaction::DoneWritingToEntry` clears `entry_` and
`mode_` after the cache has told the waiting transactions to start over, the model
before: nobody reads them in between, since their transaction is not deleted.  And the
result of `AddTruncatedFlag` is left open, but it runs a `DoLoop` which, if the
response cannot be written (`http_cache_transaction.cc`:1084, :1746), calls
`DoneWritingToEntry` itself; `DoneWithEntry` would then use the entry that this has
deleted.  The model assumes that the flag can be written or is written later.

### Rankings and LruSpec

`disk` is what the mapped files hold: the links of every node, head, tail and
size of every list, and the log (an address, an operation, a list).  A method of
`Rankings` reads first and then stores a sequence that depends only on what it
read, so `calls` is the running method with those that follow it and `stores` the
stores it has still to make; `Store` makes one.  `Crash` may come before any of
them and leaves only `disk`; `Start` reads heads and tails and, if an operation is
logged, runs `FinishInsert` or `RevertRemove`, which are sequences of stores too.
In `RemoveStores` a block that the caller shares with its neighbour is stored
earlier than one it does not (`shared`), as in the code.  An enumeration keeps a
copy of its node, which `UpdateIterators` refreshes.  `CriticalError` turns the
cache off (`mode = "disabled"`), until `RestartCache` deletes the files.

`LruSpec` is what a caller may rely on: sequences of nodes, and calls that insert
or remove one node in one step or do nothing.  There is one exception in the code:
`FinishInsert` clears the log before its `Insert` writes it again, and a second
death in that window leaves a node half inserted, with nothing logged (`broken`).
The properties of the lists are stated up to that window.

### Eviction

`Eviction` adds the record of every entry (`store` in the files, `info` in memory)
and the handlers of the second version, each a sequence of rankings calls and of
stores of the record.  A process that finds an entry left open by a dead one
destroys it, with the list the record names.

### WorkerPool

Everything `LinuxDynamicThreadPool` keeps is protected by `lock_`, so a step is
what happens while the lock is held.  The code does not distinguish threads, so
they are counted by where they are: at the entry of `WaitForTask`, in `TimedWait`,
woken and waiting for the lock, or running a task.  A woken thread does not look
at `terminated_` again and may take a task after `Terminate`.

### HostResolver

It extends `WorkerPool`, whose tasks are the `DoLookup` calls of its jobs.  A job
is named by the request it was created for.  `cur_completing_job_` and `it` are the
frame of `OnJobComplete`: while they are set a callback is running, in which the
client may do what it can do at any other time, also shut the resolver down or
destroy it.  `client` is what the client knows of each request: a callback that it
did not expect shows as `"surprised"`.  `Resolve` is split by its outcome
(`ResolveNow`, `JoinJob`, `StartJob`, `EnqueueRequest`), and so is `CancelRequest`.
The queues of all priorities are one sequence in the order of arrival: the queue of
one priority is what is of that priority in it (`Among`), and its front the request
that is `Older` than the others.  The host cache is the set of keys with an entry; which
entries have expired is left open.  The DCHECK of `AddOutstandingJob` stops the
model (`failed`), and no property says anything of the states after it; without
DCHECKs the code would go on with a map that has forgotten a job.

## 4. Runs

| Run | Instance | Shows |
|---|---|---|
| `pool_two_groups` | 2 groups with backup jobs, 3 handles, 2 priorities, `max_sockets_` = 2, 3 identities, 1 flush | limit, counters, ownership, no orphan, queues, generations, the CHECKs of the backup timer |
| `event_sync` | 3 threads, an automatic and a manual event | lists, no missed signal, refinement of `EventSpec` |
| `event_live` | 2 threads, both events, WaitMany in both orders | no lock is waited for forever |
| `event_watcher` | 2 watchers, 2 events, 3 flags, 2 waiter addresses | no callback after stop, none forgotten, nothing dead used |
| `cache_shared_entry` | 3 transactions of 4 modes, 2 entry addresses, both backends | the lock, the queues, the tasks, the DCHECKs, no leaked entry |
| `cache_live` | 2 transactions of 4 modes, 2 addresses | every waiting transaction gets on |
| `rankings` | 3 nodes, 2 lists, an enumeration, 1 death and 1 more in a repair | lists closed, copies current, log repairable, refinement of `LruSpec` |
| `host_resolver` | 3 requests, 2 hosts, 2 priorities, 2 jobs or 1, queue of 1 or 2, cache of 1 | jobs and requests in one place, one callback each, no idle slot, no task without a thread, everybody answered |
| `pool_starvation` | 2 groups, 2 handles, 1 slot, no flush, no backup jobs | a stalled request that nobody wakes (below) |
| `pool_stale_group`, `eviction_lists`, `resolver_same_key` | 3 handles and 1 slot; 2 nodes; as above | the disagreements below |

Two sockets and two groups are the least in which one group takes the slot of
another, closes its idle socket, or stalls on the total; the third handle is the
one that waits, and a second flush repeats the first.  A connect may succeed, fail
or pend; one that fails at once and leaves its socket (`ERR_SOCKET`) fills a handle
like one that succeeds, and is left to `pool_stale_group`.  Three threads are a waiter
in both lists, a waiter that competes with it and a signaler.  Three flags let a
stopped watch's task be in the queue while both watchers are on; two addresses are
reused by either.  Three transactions are one that has the entry, one that waits
for it and one that dooms it or is told of a race; two entries are an active one
and one that is doomed and still used.  The disk cache activates no entry when
the addresses are taken (`BackendResults`), and at most one Doom without a
transaction is under way (`DoomOwnEntry`).
`MaxTasks` bounds the queue of posted tasks that a client's call may extend,
`MaxGeneration` the flushes; both are guards of the calls that add to them.

Three nodes are a first, an inner and a last one of a list; with two lists a node
changes from one to the other.  `MaxCrashes` bounds the deaths outside a repair,
`MaxDeaths` all of them: the repair of the second death is the one that could undo
the first.  `kint32max` is small so that the counters reach it.  Two of the three
requests have the same host and a key that agrees or not with the default family,
the third another host; with one job two of them queue, and with a queue of one
the second overflows it (`Constraints`).

Fairness.  `pool_starvation`: the message loop runs posted tasks and callbacks return
(weak fairness), every connect job ends (each has a timer), clients return their
sockets, and at some time they stop asking for new ones: the code lets a new
request take a free slot before the queue, so without that no request need ever
be answered.  The violation needs none of these to fail: every task has run, the
only connect job has ended, and the request waits beside a free slot.  `event_live`: threads are scheduled and a mutex that becomes free
again and again is obtained.  `cache_live`: calls return, the disk cache answers,
tasks run; a client that has an entry finishes with it or deletes its transaction;
and at some time no new requests come, since readers that keep coming may keep a
writer waiting.  `host_resolver`: weak fairness of the system as a whole
(`SystemStep`): as long as a thread of the pool can run, a look-up can return, the
origin loop has a task or a callback can return, one of these happens, in an order
nobody promises; nothing is assumed of the client, of time-outs or of notifications.

Deadlock is checked but in `event_live`, whose property `GetsOn` says it more
precisely, in the pool's runs, where the model stops after an undefined read has
erased a live group (`stale = "erased"`), and in those of the resolver, which ends
when every request was made and the resolver is gone.

### Disagreements between the code and what it says of itself

Four runs end in a violation, each of one property that a comment or an assertion
states.

- `pool_stale_group`: after the callback `ProcessPendingRequest` reads the group
  that its own comment says may be gone.  If it then erases the new group of that
  name, the sockets, jobs and requests of that group are orphaned: without its
  condition on `stale`, `NoOrphan` is violated after 8 steps of this instance.
- `pool_starvation`: a group stalls on the total limit and the connect job that held
  the slot fails.  `OnConnectJobComplete` removes the job before it asks
  `MayHaveStalledGroups()`, which is then false, and no flag was set when the group
  stalled: nobody wakes it, although "there is no starvation"
  (`client_socket_pool_base.cc`:537).
- `eviction_lists`: `OnOpenEntryV2` moves a node to another list and stores the
  record that says so afterwards.  If the process dies in between, the next one
  removes the node from the list the old record names.  `CheckLinks` compares the
  neighbours; for the first or last node of the new list they point at each other
  through the node itself, so it takes the node to be in no list and clears it,
  while the head or tail of the list still names it.
- `resolver_same_key`: `Resolve` looks for an outstanding job of its key,
  `ProcessQueuedRequests` does not.  A queued request with an unspecified family
  gets another key when the default family changes, and a second job is started for
  a key that has one.

Met on the way, with instances other than those of the runs:

- Socket pool: `Flush` deletes the jobs of waiting requests and keeps the requests;
  `PendingAnswered` fails with a flush.  It also fails when a connect may fail at
  once (`"ERR"` in `ConnectResults`): the one request that
  `CheckForStalledSocketGroups` wakes is answered with the error, and nobody wakes
  the next.
- Socket pool: with `backup_jobs_enabled_` a group may exceed
  `max_sockets_per_group_` by one: the backup job is started without counting idle
  sockets, and an idle socket is handed out without a slot check.
- HTTP cache: three DCHECKs can fail; `FailingChecks` names them, and TLC finds each
  in `cache_shared_entry` when `EntryChecks` is asked to exclude it.  `"doom_in_use"`:
  `DCHECK(entry->writer || !entry->readers.empty())` (`http_cache.cc`:478) fails when
  a request dooms an entry whose writer has finished and whose posted
  `OnProcessPendingQueue` has not run (13 steps); the task deletes the entry all the
  same.  `"doom_trans"`, `"doom_result"`: a transaction dooms its key after another
  request has doomed the entry it uses.  An operation for nobody is started on
  whatever the key names now, against `DCHECK(trans)` (`http_cache.cc`:483), and
  unless the backend in memory answers OK, against `DCHECK_EQ(OK, rv)` of the callers
  (`http_cache_transaction.cc`:898, :1795) (18 steps).
- Rankings: `DCHECK(control_data_->sizes[list] > 0)` (`rankings.cc`:800) fails after a
  death between `WriteHead` and `IncrementCounter` of `Insert`: `FinishInsert` finds
  the node at the head and does not count it, and its removal decrements a counter
  that is zero.  The test under the DCHECK keeps it there, which `TypeOK` says.
- Rankings: after the crash of `eviction_lists` callers name the wrong list, against
  what `KnownIn` assumes in `Rankings`; a head that was cleared is refused by the next
  `Insert` (`rankings.cc`:272), which throws the cache away.  `NoCriticalError` is
  about callers that name the right one.
- Eviction: the only node of a list, removed under the wrong list, passes
  `CheckLinks`, and the head of the real list goes on naming a cleared node.
- Host resolver: a callback calls `Shutdown` and then cancels another request of
  the same job.  `CancelRequest` ignores it, because "|req_handle| is already
  cancelled" (line 843), but the job that is completing is in no map, was not
  cancelled, and calls the callback.  `CallbackOnce` leaves out such a request.
- Host resolver: a job started before `OnIPAddressChanged` puts its result into the
  cache that was just cleared; and `DCHECK(!shutdown_)` in that method fails when
  the address changes after `Shutdown` while the probe is monitored.
- Worker pool: "Stops handing out tasks" (`worker_pool_linux.h`) is not so for an
  idle thread that `Terminate` wakes while a task is queued.

## 5. Proofs

`SocketPoolProofs` proves, for every number of groups, handles and sockets, every
limit and with or without backup jobs:

- `TypeCorrect`: `Spec => []TypeOK`; in particular no counter goes below zero;
- `CountersAreExact`: `Spec => []CountersExact`;
- `LimitHolds`: `Spec => []SocketLimit`.

Assumed is only `PoolAssumption` (finitely many groups and sockets, natural
limits, the group limit not above the total).

The limit rests on the totals being exact, for the pool compares totals and not
sets.  Exactness is not inductive by itself: `ReleaseSocket` decrements on the
word of a handle, so the socket of the handle must be active, in the handle's
group, and held by no other handle.  The inductive invariant `IInv` joins types
over the integers, exactness (`Exact`), ownership (`Owned`) and the limit; types
over the naturals follow from exactness.  `Good(p)` states the first three for an
arbitrary value `p` of the pool's record, and one lemma per method says that it
preserves `Good` and how it moves `Total`; the proof of a step follows the calls
of the handler through these lemmas, intermediate states included.

`SocketPoolOwnership` builds on it and proves the rest of what the run of the pool
checks, under the same assumption:

- `SocketsAreOwnedOnce`: `Spec => []ExclusiveOwnership`;
- `QueuesAreExact`: `Spec => []QueuesExact`;
- `NothingIsOrphaned`: `Spec => []NoOrphan`, which is conditional on the erase of
  `ProcessPendingRequest` through a dead reference not having happened;
- `BackupTimersAreValid`: `Spec => []BackupTimerValid`;
- `FlushIsFinal`: `Spec => []NoReuseAcrossFlush`.

The five come from one invariant, `Ownership`, for each needs the others.  `Homes`:
what belongs to a group has its group in `group_map_`, and a running timer has a
backup job and a job.  `Held`: an active socket has a handle, and the `pool_id` of
a handle is the generation of its connection.  `Fresh`: jobs and idle sockets are of
this generation.  `Lined`: handles and queues say the same, and queues are sorted.
The erase through a dead reference destroys `Homes`; what survives it is `Lasts`, and
`Ownership` is `Lasts` in all states and the whole (`Owning`) before.
It is inductive only on top of `IInv`: a group is erased when its *counts*
are zero, which means that nothing is in it only because the counts are exact
(lemma `EmptyGroup`).  Most steps of a handler only take away; `Trims(p, q)` says
so of two values of the pool and its lemma covers them together.  What a request
may get (a socket, a place in the queue, an error) is `Answers`.

`WaitableEventProofs` proves, for all sets of threads and events
(`EventAssumption`):

- `EventTypes`: `Spec => []TypeOK`;
- `WaitersOutliveTheirEntries`: `Spec => []NoDanglingWaiter`;
- `SignalsAreNotMissed`: `Spec => []NoMissedSignal`;
- `EventsKeepTheirPromise`: `Spec => ImplementsEventSpec`.

The invariant `IInv` says who holds which lock at which place of which method
(`LockOK`), that a locked event is not signaled (`LockedQuiet`), that a list has no
entry twice (`Once`), that the part of a list the signaler has not passed consists
of waits that are still to leave it (`LiveOK`), that a wait that was not fired is in
that part of the list of each of its events (`Listed`), that a wait that leaves was
fired, and by an event it waited for (`FiredOK`), and that what `SignalOne` fired is
still there to be dropped (`PopOK`).  The part not yet passed is
what makes it inductive: `SignalAll` and `SignalOne` fire a waiter before they drop
its entry, and in between the thread may have returned.  The refinement has one lemma
per action: firing a waiter that was not fired yet is the step that releases its
wait (`Give`, `Release`), an empty list the one that keeps the signal (`Keep`), the
step in which `WaitMany` has all events locked the one that blocks (`Block`);
locking, unlocking, leaving and popping lists are stutters.

`EventWatcherProofs` proves, for all sets of events, watchers, addresses and flags
(`WatcherAssumption`):

- `WatcherTypes`: `Spec => []TypeOK`;
- `StoppedWatchesStaySilent`: `Spec => []NoCallbackAfterStop`;
- `WaitersAreCurrent`: `Spec => []WaitersCurrent`;
- `WatchesAreNotForgotten`: `Spec => []WatchNotForgotten`;
- `DeadLoopIsQuiet`: `Spec => []NothingPostsToDeadLoop`.

Addresses of waiters and flags are reused in the model as they are by the
allocator, so an address identifies nothing by itself.  The invariant ties each
waiter to its watch by three facts at once: the waiter is alive, carries the flag
its watcher holds, and sits in the list of the kernel the watcher keeps
(`WaitersOK`).  To this come that no two watchers share a flag (`OwnFlag`), that a
flag not yet set is in at most one task (`PostedOnce`) and not both in a task and in a list
(`NotBoth`), that a watch that is on is in one of them (`Told`), and that a loop
that is gone has no waiters left (`Quiet`).

The assumptions on the constants say that the special values (`NULL`, `Nobody`) are
not members of the sets they are added to, that manual events are events, that the
events stand for addresses, which are numbers, and that `WaitMany` is called with a
non-empty array of different events, as its callers must.

`ListLemmas` has what these proofs need of sequences: what `RemoveFirst`
and a cut leave, that an entry is inserted into a sorted queue
by the inverse of a cut, and that a list of different numbers can be sorted.
Where one would use induction, the least number with a property (`LeastNat`) takes
its place.

`WorkerPoolProofs` proves, for every set of tasks and any number of threads:

- `PoolTyped`: `PoolSpec => []PoolTypeOK`: `num_idle_threads_` is exactly the
  number of threads in `TimedWait` or leaving it;
- `PoolServes`: `PoolSpec => []EveryTaskHasAThread`.

The second is inductive only with the first: `PostTask` compares the queue with
`num_idle_threads_`, and signals when that is at least the number of tasks.  If a
thread still waits, the signal adds a woken one; if none does, all idle threads
are woken already, and there are as many as tasks because the count is exact.  A
woken or entering thread that leaves takes a task with it unless there is none.
`PoolSpec` is the pool alone, with anything posted at any time; every step of
`HostResolver` is a step of it or leaves the pool alone.

`HostResolverProofs` proves, for any requests, hosts, families, priorities and limits
(`ResolverAssumption`: the limits on jobs are not zero, `None` is not a request, a
task of the worker pool is a job, a job is named by a request):

- `ResolverTypes`: `Spec => []TypeOK`;
- `JobsAreExact`: `Spec => []JobsExact`;
- `RequestsAreNotForgotten`: `Spec => []NoRequestForgotten`;
- `SlotsAreUsed`: `Spec => []NoIdleSlot`;
- `CallbacksRunOnce`: `Spec => []CallbackOnce`.

They come from one invariant `IInv`.  `Ways`: a job is at most once with the pool or
in the origin loop, is not the one being completed, and exists meanwhile; without it
a second `OnLookupComplete` could delete a job that is in use.  `Mapped`: `jobs_`
holds exactly the jobs with a resolver except the one being completed, under their
keys.  `Counted`: `num_outstanding_jobs_` is the size of the map.  `Listed`: a
request is in one list and there once, so that what `~Job` deletes belongs to nobody
else.  `Answerable`: a request with a callback is one the client waits for (or has
tried to cancel too late), and a request the client waits for is `Expected`: queued,
or further on in the list of a job than the callback that is running.  `NoIdleSlot`
needs the exact count, for a completion frees one slot and starts at most one job.
After the DCHECK of `AddOutstandingJob` (`failed`) the program only ends; the types,
`NoIdleSlot` and `CallbackOnce` are proved of these states too (`FailedStep`), the
other two properties do not speak of them.

A job that starts, one that ends, and the last callback of one that ends and lets
another start are one kind of change to the lists and the map, `Change(Old, Freed,
New, T)`; lemma `JobsChange` says once that it preserves `Sound`.  `AllCancelled`
does so for `Shutdown` and the destructor, `QueueChange` for overflow and
cancellation.  What the loops over the queues leave (`Among`, `MoveRequestsToJob`)
is proved too (`AmongSet`, `MoveSet`), with the least number at which the loop is
wrong in the place of an induction.

`HttpCacheProofs` proves, for any transactions, modes and addresses of entries
(`CacheAssumption`: addresses are finitely many numbers other than the NULL pointer,
the modes are those of `Transaction::Mode`, `NoTrans` is no transaction):

- `CacheInvariant`: `Spec => []Good(cache)`, the inductive invariant, and from it
- `CacheTypes`: `Spec => []TypeOK`;
- `LocksAreExact`: `Spec => []LockExact`;
- `WaitsAreInOnePlace`: `Spec => []WaitsInOnePlace`;
- `TasksAreExact`: `Spec => []TasksExact`;
- `NoEntryIsAbandoned`: `Spec => []NoAbandonedEntry`;
- `ChecksHold`: `Spec => []EntryChecks`: no DCHECK but the three of `FailingChecks`
  fails, also after one of those has.

The bounds of the model are part of `Spec` here too (no entry becomes active while all
addresses are taken, one operation without a transaction at a time), and so is what is
assumed of the clients.  There is no bound on the depth of the stack.

None of these is inductive alone, because the cache is entered again while it is in the
middle of something: what a call on the stack has learnt must still be true when the
calls above it have returned.  The parts of `Good` say what that is.  `Framed`: a
transaction has at most one `DoLoop` on the stack, and one that is not on top has
nothing left to do but to start over or to go on without the cache (`Quiet`).
`Frames`: what a `DoLoop` was told holds of the cache (there is no active entry:
`Missed`; there is one, and it is its `new_entry`: `Found`; it holds the lock: `Added`),
and a loop that passes on an error does so while there is no active entry.  `TransOK`
and `LockOK`: transactions and entries name each other; an entry that nobody holds and
that has no task is one that the `DoLoop` on top is about to use (`Finding`); a
writer excludes a posted task.  `Disk`: while there is an operation there is no active
entry, and its items name each transaction once, which is why `CreateEntry`'s and
`ActivateEntry`'s DCHECKs hold.  `PlacedOnce`: a transaction waits exactly if it is in
a list, and in one only.  `Tasked`: tasks and promises agree.

A step changes one transaction, one entry and the frames on top.  `StepGood` says what
must be shown of these for `Good` to be preserved.  Special cases take most of the
actions: the entries stay (`CalmGood`), the `DoLoop` on top goes on (`TopGood`), one is
started (`WakeGood`), an entry changes (`EntryGood`), is destroyed (`DestroyGood`) or
is activated (`ActivateGood`).  That the places stay right is shown by lemmas of their
own (`PlacedSame`, `PlacedNowhere`, `PlacedThere`).  The operators of the model
have a lemma each that says which fields they change (`...Facts`), so that no proof of
an action looks into more than one of them.

Only model-checked: the rankings with the refinement of `LruSpec`, the run of the
eviction, and liveness, which the prover does not treat (`Served` of the HTTP cache and
`AnsweredEventually` of the resolver among it).  What a list of `Rankings` contains is
what following the links yields, a recursion that is out of the prover's reach, and it
must be followed in every state in which the process may die between two stores.

## 6. Not modelled

Besides the planned parts: net log, histograms, observers and tracing; time as a
number; the Windows variants of events; of the HTTP cache its destructor,
`GetBackend` of external callers, `WriteMetadata` and playback keys; of the
rankings the times of last use, external files and failures of `Load` and `Store`;
of eviction which entries are trimmed and when, and the first version; of the
resolver the way of the IPv6 probe through the worker pool and a default family of
IPv6; the data that flows through sockets and caches;
parsers, encoders and the Native Client validators.
