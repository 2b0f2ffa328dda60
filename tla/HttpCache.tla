------------------------------ MODULE HttpCache ------------------------------
(***************************************************************************)
(* net/http/http_cache.cc: the entries of the HTTP cache that are in use,  *)
(* and the transactions (http_cache_transaction.cc) that share them.       *)
(*                                                                         *)
(* An ActiveEntry is a lock for one writer or many readers with a queue.   *)
(* Opening, creating and dooming entries of the disk cache goes through a  *)
(* PendingOp per key.  Everything that is shared is shared per key, so the *)
(* model has one key: active_entries_ is the entry in use or NoEntry, and  *)
(* pending_ops_ is one operation or NoOp (the one for the backend, with an *)
(* empty key, is `backend' and its queue).                                 *)
(*                                                                         *)
(* The cache lives on one thread and re-enters itself: a notification runs *)
(* the state machine of a transaction, which calls the cache again, and    *)
(* may end in the callback of a client, who starts and deletes             *)
(* transactions.  The C++ stack is the field `stack': the DoLoop of a      *)
(* transaction ("run"), the loops that notify the work items of an         *)
(* operation ("items"), the transactions of a dead entry ("race") or the   *)
(* ones that wait for the backend ("backend"), and the client ("user").    *)
(* Only the frame on top runs; the message loop runs when there is none.   *)
(*                                                                         *)
(* A DCHECK that fails is recorded in `failed', until the client calls     *)
(* again, and the code goes on, as it does in a release build.             *)
(***************************************************************************)
EXTENDS Integers, Sequences, FiniteSets, SequencesExt

CONSTANTS
    Trans,             \* transactions, all for the same key
    Entries,           \* addresses of ActiveEntry objects
    Modes,             \* modes a transaction may ask for
    NoTrans

ASSUME CacheAssumption ==
    /\ Entries \subseteq Nat \ {0} /\ IsFiniteSet(Entries)
    /\ Modes \subseteq {"READ", "WRITE", "READ_WRITE", "UPDATE"}
    /\ NoTrans \notin Trans

VARIABLE cache

vars == cache

NoEntry == 0
NoOp == [writer |-> "none"]
Dead == [writer |-> "dead"]      \* a deleted ActiveEntry
Gone == [st |-> "free", mode |-> "NONE", entry |-> NoEntry, new_entry |-> NoEntry]
User == [k |-> "user"]

\* mode_ & WRITE
CanWrite(mode) == mode \in {"WRITE", "READ_WRITE", "UPDATE"}

Live(c) == {e \in Entries : c.entries[e] # Dead}
Fail(c, check, ok) == IF ok THEN c ELSE [c EXCEPT !.failed = @ \cup {check}]

InSeq(x, q) == \E i \in 1..Len(q) : q[i] = x

\* find and erase: the first of the positions P goes.
Erase(q, P) == RemoveAt(q, CHOOSE i \in P : \A j \in P : i <= j)
EraseTrans(q, t) == Erase(q, {i \in 1..Len(q) : q[i] = t})
EraseItem(q, t) == Erase(q, {i \in 1..Len(q) : q[i].trans = t})

-----------------------------------------------------------------------------
(* The stack.                                                              *)

Run(t, s, rv) == [k |-> "run", t |-> t, s |-> s, rv |-> rv]
Top(c) == c.stack[Len(c.stack)]
Push(c, f) == [c EXCEPT !.stack = Append(@, f)]
Pop(c) == [c EXCEPT !.stack = SubSeq(@, 1, Len(@) - 1)]

\* A loop that notifies has moved the transaction to a local list.
InLocalList(c, t) ==
    \E i \in 1..Len(c.stack) :
        LET f == c.stack[i]
        IN  \/ f.k = "items" /\ \E j \in 1..Len(f.items) : f.items[j].trans = t
            \/ f.k = "race" /\ InSeq(t, f.queue)

\* The state in which a transaction waits for an operation of the disk cache.
Completed == [OPEN |-> "OPEN_COMPLETE", CREATE |-> "CREATE_COMPLETE",
              DOOM |-> "DOOM_COMPLETE"]

\* The transaction on top goes on in state s.
Goto(c, t, s, rv) == Push(Pop(c), Run(t, s, rv))

\* Its DoLoop returns ERR_IO_PENDING.
Block(c, t, st) == Pop([c EXCEPT !.trans[t].st = st])

\* Its DoLoop returns a result: to the client that made the call, or through
\* the callback.
HandleResult(c, t, st) ==
    LET d == Block(c, t, st)
    IN  IF d.stack = <<>> THEN d ELSE IF Top(d) = User THEN d ELSE Push(d, User)

\* The same for a transaction that does not use the cache any more: it is gone
\* for the cache, although the client may keep it.
Leave(c, t) == LET d == HandleResult(c, t, "free")
               IN  [d EXCEPT !.trans[t] = Gone]

\* The callback of a transaction runs its DoLoop.
Notify(c, t, s, rv) ==
    IF t = NoTrans THEN c
    ELSE Push([c EXCEPT !.trans[t].st = "running"], Run(t, s, rv))

-----------------------------------------------------------------------------
(* Active entries.                                                         *)

FindActiveEntry(c) == c.active

\* Mutant: the constructor of ActiveEntry leaves writer out.
ActivateUninitialized(c) ==
    LET e == CHOOSE x \in Entries \ Live(c) : \A y \in Entries \ Live(c) : x <= y
    IN  [c EXCEPT !.active = e,
                  !.entries[e] = [writer |-> "garbage", readers |-> {}, pending_queue |-> <<>>,
                                  will_process |-> FALSE, doomed |-> FALSE]]

\* The entry gets the first free address.
ActivateEntry(c) ==
    LET e == CHOOSE x \in Entries \ Live(c) : \A y \in Entries \ Live(c) : x <= y
    IN  [Fail(c, "activate", c.active = NoEntry) EXCEPT
            !.active = e,
            !.entries[e] = [writer |-> NoTrans, readers |-> {}, pending_queue |-> <<>>,
                            will_process |-> FALSE, doomed |-> FALSE]]

\* FinalizeDoomedEntry or DeactivateEntry.
DestroyEntry(c, e) ==
    LET x == c.entries[e]
        d == Fail(c, "destroy", x.writer = NoTrans /\ x.readers = {}
                                /\ x.pending_queue = <<>> /\ ~x.will_process)
    IN  [d EXCEPT !.entries[e] = Dead,
                  !.active = IF x.doomed THEN @ ELSE NoEntry]

\* Mutant: the flag is set, the task is not posted.
ProcessWithoutTask(c, e) == [c EXCEPT !.entries[e].will_process = TRUE]

ProcessPendingQueue(c, e) ==
    IF c.entries[e].will_process THEN c
    ELSE [c EXCEPT !.entries[e].will_process = TRUE, !.tasks = Append(@, e)]

AddTransactionToEntry(c, e, t) ==
    LET x == c.entries[e]
        read == [c EXCEPT !.entries[e].readers = @ \cup {t}]
    IN  IF \/ x.writer # NoTrans \/ x.will_process
           \/ CanWrite(c.trans[t].mode) /\ x.readers # {}
        THEN [rv |-> "PENDING", cache |-> [c EXCEPT !.entries[e].pending_queue = Append(@, t)]]
        ELSE IF CanWrite(c.trans[t].mode)
        THEN [rv |-> "OK", cache |-> [c EXCEPT !.entries[e].writer = t]]
        ELSE [rv |-> "OK", cache |-> IF x.pending_queue = <<>> THEN read
                                     ELSE ProcessPendingQueue(read, e)]

\* Mutant: the queue is processed only if somebody is in it.
DoneReadingIfQueued(c, e, t) ==
    LET d == [c EXCEPT !.entries[e].readers = @ \ {t}]
    IN  IF c.entries[e].pending_queue = <<>> THEN d ELSE ProcessPendingQueue(d, e)

DoneReadingFromEntry(c, e, t) ==
    LET x == c.entries[e]
        d == Fail(c, "done_reading", x.writer = NoTrans /\ t \in x.readers)
    IN  ProcessPendingQueue([d EXCEPT !.entries[e].readers = @ \ {t}], e)

\* Mutant: the waiting transactions go down with the entry.
DoneWritingForgetsQueue(c, e, success) ==
    LET d == [c EXCEPT !.entries[e].writer = NoTrans]
    IN  IF success THEN ProcessPendingQueue(d, e)
        ELSE DestroyEntry([d EXCEPT !.disk = @ /\ c.entries[e].doomed], e)

\* A failure deletes the entry, also from the disk, and tells the transactions
\* that waited for it to start over.
DoneWritingToEntry(c, e, success) ==
    LET d == [Fail(c, "done_writing", c.entries[e].readers = {}) EXCEPT
                 !.entries[e].writer = NoTrans]
        q == c.entries[e].pending_queue
        gone == DestroyEntry([d EXCEPT !.disk = @ /\ c.entries[e].doomed,
                                       !.entries[e].pending_queue = <<>>], e)
    IN  IF success THEN ProcessPendingQueue(d, e)
        ELSE IF q = <<>> THEN gone
        ELSE Push(gone, [k |-> "race", queue |-> q])

\* success: what AddTruncatedFlag returned.  Assumed: the DoLoop in which it
\* writes the flag does not fail at once, and so leaves the entry in place.
DoneWithEntry(c, e, t, success) ==
    IF c.entries[e].will_process /\ c.entries[e].readers = {} THEN c
    ELSE IF c.entries[e].writer # NoTrans
    THEN DoneWritingToEntry(Fail(c, "done_with", c.entries[e].writer = t), e, success)
    ELSE DoneReadingFromEntry(c, e, t)

\* Mutant: the writer is a reader as well.
ConvertKeepsWriter(c, e, t) ==
    ProcessPendingQueue([c EXCEPT !.entries[e].readers = @ \cup {t},
                                  !.trans[t].mode = "READ"], e)

ConvertWriterToReader(c, e, t) ==
    LET d == Fail(c, "convert", c.entries[e].writer = t /\ c.entries[e].readers = {})
    IN  ProcessPendingQueue([d EXCEPT !.entries[e].writer = NoTrans,
                                      !.entries[e].readers = @ \cup {t},
                                      !.trans[t].mode = "READ"], e)

-----------------------------------------------------------------------------
(* Operations of the disk cache.                                           *)

\* What the disk cache may answer (the same of both backends).  It finds an entry if there is one, creates
\* one if there is none, and may always fail.  Bound: no entry becomes active
\* while all addresses are taken.
BackendResults(c, op) ==
    {"ERR"} \cup {r \in {"OK"} : /\ c.disk <=> (op # "CREATE")
                                 /\ op # "DOOM" => Live(c) # Entries}

\* The effect of the answer.  If nobody wants the entry any more it is closed,
\* and deleted if it was just created.
CompleteOp(c, item, valid, result) ==
    IF result # "OK" THEN c
    ELSE IF item.op = "DOOM" THEN [c EXCEPT !.disk = FALSE]
    ELSE IF valid THEN [ActivateEntry(c) EXCEPT !.disk = TRUE]
    ELSE c

\* GetPendingOp, and the call of the disk cache if the operation is new: the
\* possible states of the caller, which waits, or has its answer at once: the
\* backend in memory always answers so, the one on disk never.
StartOp(c, op, t) ==
    LET item == [op |-> op, trans |-> t]
        d == Fail(c, "op_while_active", c.active = NoEntry)
        wait(x) == {IF t = NoTrans THEN x ELSE Block(x, t, "pending")}
        answered(r) ==
            LET x == CompleteOp(d, item, TRUE, r)
                y == IF op = "DOOM" THEN x ELSE [x EXCEPT !.trans[t].new_entry = x.active]
            IN  IF t = NoTrans THEN x ELSE Goto(y, t, Completed[op], r)
    IN  IF c.op # NoOp THEN wait([d EXCEPT !.op.queue = Append(@, item)])
        ELSE IF c.backend = "memory" THEN {answered(r) : r \in BackendResults(c, op)}
        ELSE wait([d EXCEPT !.op = [writer |-> item, queue |-> <<>>]])

\* The entry in use is abandoned to the transactions that use it.  DoomEntry
\* expects one, but the last may have finished: the entry waits for its task.
DoomActiveEntry(c) ==
    LET x == c.entries[c.active]
    IN  [Fail(c, "doom_in_use", x.writer # NoTrans \/ x.readers # {}) EXCEPT
            !.active = NoEntry, !.disk = FALSE, !.entries[c.active].doomed = TRUE]

\* AsyncDoomEntry without a transaction, which DCHECK(trans) forbids.  It
\* returns OK, as the callers expect, only if the entry is off the disk at once.
\* Bound: no second operation without a transaction while there is one.
AsyncDoomForNobody(c) ==
    {Fail(Fail(d, "doom_trans", FALSE), "doom_result", c.disk /\ ~d.disk) :
        d \in {x \in StartOp(c, "DOOM", NoTrans) :
                 \/ c.op = NoOp
                 \/ /\ c.op.writer.trans # NoTrans
                    /\ \A i \in 1..Len(c.op.queue) : c.op.queue[i].trans # NoTrans}}

\* DoomEntry(key, NULL) on behalf of a transaction that uses an entry, which
\* somebody else may have doomed before.
DoomOwnEntry(c) ==
    IF c.active # NoEntry THEN {DoomActiveEntry(c)} ELSE AsyncDoomForNobody(c)

\* Mutant: doomed entries are not searched.
RemoveForgetsDoomed(c, t) ==
    IF c.active # NoEntry /\ InSeq(t, c.entries[c.active].pending_queue)
    THEN [c EXCEPT !.entries[c.active].pending_queue = EraseTrans(@, t)]
    ELSE IF InSeq(t, c.backend_queue) THEN [c EXCEPT !.backend_queue = EraseTrans(@, t)]
    ELSE IF c.op # NoOp /\ c.op.writer.trans = t
    THEN [c EXCEPT !.op.writer.trans = NoTrans]
    ELSE IF c.op # NoOp /\ \E i \in 1..Len(c.op.queue) : c.op.queue[i].trans = t
    THEN [c EXCEPT !.op.queue = EraseItem(@, t)]
    ELSE c

RemovePendingTransaction(c, t) ==
    LET doomed == {e \in Live(c) : /\ c.entries[e].doomed
                                   /\ InSeq(t, c.entries[e].pending_queue)}
    IN  IF c.active # NoEntry /\ InSeq(t, c.entries[c.active].pending_queue)
        THEN [c EXCEPT !.entries[c.active].pending_queue = EraseTrans(@, t)]
        ELSE IF InSeq(t, c.backend_queue) THEN [c EXCEPT !.backend_queue = EraseTrans(@, t)]
        ELSE IF c.op # NoOp /\ c.op.writer.trans = t
        THEN [c EXCEPT !.op.writer.trans = NoTrans]
        ELSE IF c.op # NoOp /\ \E i \in 1..Len(c.op.queue) : c.op.queue[i].trans = t
        THEN [c EXCEPT !.op.queue = EraseItem(@, t)]
        ELSE IF doomed # {}
        THEN LET e == CHOOSE x \in doomed : TRUE
             IN  [c EXCEPT !.entries[e].pending_queue = EraseTrans(@, t)]
        ELSE Fail(c, "found", FALSE)

-----------------------------------------------------------------------------
(* Notifications.                                                          *)

AtLoop == cache.stack = <<>>
OnTop(k) == cache.stack # <<>> /\ Top(cache).k = k
building_backend_(c) ==
    c.backend = "building" \/ \E i \in 1..Len(c.stack) : c.stack[i].k = "backend"

\* disk_cache_.get()
Ready(c) == c.backend \in {"disk", "memory"}

\* The disk cache answers: OnIOComplete up to the notification of the first
\* item.  The other items are moved to a local list, and the operation is
\* deleted, before anybody is notified.
OnIOComplete(result) ==
    /\ AtLoop /\ cache.op # NoOp
    /\ LET item == cache.op.writer
           valid == item.trans # NoTrans
           d == CompleteOp([cache EXCEPT !.op = NoOp], item, valid, result)
           new == IF result = "OK" THEN d.active ELSE NoEntry
           x == IF valid /\ item.op # "DOOM"
                THEN [d EXCEPT !.trans[item.trans].new_entry = new] ELSE d
           f == [k |-> "items", items |-> cache.op.queue, result |-> result,
                 op |-> item.op, fail |-> result = "OK" /\ (item.op = "DOOM" \/ ~valid)]
       IN  /\ result \in BackendResults(cache, item.op)
           /\ cache' = Notify(IF f.items = <<>> THEN x ELSE Push(x, f),
                              item.trans, Completed[item.op], result)

\* Mutant: a Doom is told the result like everybody else.
AnswerSharesDoom(f, op, active) ==
    IF f.fail \/ (f.result = "OK" /\ active = NoEntry)
    THEN [rv |-> "RACE", fail |-> TRUE]
    ELSE IF op = "CREATE" /\ f.result = "OK"
    THEN [rv |-> "CREATE_FAILURE", fail |-> FALSE]
    ELSE [rv |-> f.result, fail |-> FALSE]

\* What an item that waited behind the operation of frame f is told, and
\* whether everybody after it has to start over.
Answer(f, op, active) ==
    IF f.fail \/ op = "DOOM" \/ (f.result = "OK" /\ active = NoEntry)
    THEN [rv |-> "RACE", fail |-> TRUE]
    ELSE IF op = "CREATE" /\ f.result = "OK"
    THEN [rv |-> "CREATE_FAILURE", fail |-> FALSE]
    ELSE IF f.result # "OK" /\ (op = "CREATE") # (f.op = "CREATE")
    THEN [rv |-> "RACE", fail |-> TRUE]
    ELSE [rv |-> f.result, fail |-> FALSE]

\* OnIOComplete: the next of the items that waited.
NotifyItem ==
    /\ OnTop("items")
    /\ LET f == Top(cache)
           item == Head(f.items)
           a == Answer(f, item.op, FindActiveEntry(cache))
           d == Pop(cache)
           x == IF item.op = "DOOM" THEN d
                ELSE [d EXCEPT !.trans[item.trans].new_entry =
                                  IF a.rv = "OK" THEN cache.active ELSE NoEntry]
           rest == [f EXCEPT !.items = Tail(@), !.fail = a.fail]
       IN  cache' = Notify(IF rest.items = <<>> THEN x ELSE Push(x, rest),
                           item.trans, Completed[item.op], a.rv)

\* DoneWritingToEntry: the next of the transactions that waited for the entry.
NotifyRace ==
    /\ OnTop("race")
    /\ LET q == Top(cache).queue
           d == Pop(cache)
       IN  cache' = Notify(IF Tail(q) = <<>> THEN d
                           ELSE Push(d, [k |-> "race", queue |-> Tail(q)]),
                           Head(q), "ADD_COMPLETE", "RACE")

OnProcessPendingQueue ==
    /\ AtLoop /\ cache.tasks # <<>>
    /\ LET e == Head(cache.tasks)
           c == [Fail(cache, "process", cache.entries[e].writer = NoTrans) EXCEPT
                    !.tasks = Tail(@), !.entries[e].will_process = FALSE]
           x == c.entries[e]
           next == Head(x.pending_queue)
           a == AddTransactionToEntry(
                   [c EXCEPT !.entries[e].pending_queue = Tail(@)], e, next)
       IN  \/ /\ x.pending_queue = <<>>
              /\ cache' = IF x.readers = {} THEN DestroyEntry(c, e) ELSE c
           \/ /\ x.pending_queue # <<>>
              /\ CanWrite(c.trans[next].mode) /\ x.readers # {}
              /\ cache' = c
           \/ /\ x.pending_queue # <<>>
              /\ ~(CanWrite(c.trans[next].mode) /\ x.readers # {})
              /\ cache' = IF a.rv = "PENDING" THEN a.cache
                          ELSE Notify(a.cache, next, "ADD_COMPLETE", a.rv)

\* The backend, of the type the cache was set up with, is ready, or could not
\* be created.
OnBackendCreated(result) ==
    /\ AtLoop /\ cache.backend = "building"
    /\ cache' = Push([cache EXCEPT !.backend = result], [k |-> "backend"])

\* Where a transaction goes when it knows about the backend: without one it
\* does not use the cache.
AfterBackend(c) == IF Ready(c) THEN "INIT_ENTRY" ELSE "PASS"

NotifyBackendWaiter ==
    /\ OnTop("backend")
    /\ cache' = IF cache.backend_queue = <<>> THEN Pop(cache)
                ELSE Notify([cache EXCEPT !.backend_queue = Tail(@)],
                            Head(cache.backend_queue), AfterBackend(cache), "OK")

-----------------------------------------------------------------------------
(* The client.                                                             *)

UserRuns == AtLoop \/ OnTop("user")

\* `failed' tells what has failed since the client last called.
Called(c) == [c EXCEPT !.failed = {}]

\* CreateTransaction and Start.
Start(t, mode) ==
    /\ UserRuns /\ cache.trans[t] = Gone
    /\ LET c == [Called(cache) EXCEPT
                    !.trans[t] = [Gone EXCEPT !.st = "pending", !.mode = mode],
                    !.backend = IF @ = "none" THEN "building" ELSE @]
       IN  cache' = IF ~Ready(c) /\ building_backend_(c)
                    THEN [c EXCEPT !.backend_queue = Append(@, t)]
                    ELSE Notify(c, t, AfterBackend(c), "OK")

\* The client deletes a transaction.  success: if the transaction is writing
\* and can be resumed later, the entry is kept.  Assumed: nobody deletes, in the
\* callback of one transaction, another one that the same loop is about to
\* notify.  The comment of OnIOComplete rules it out for its own list; nothing
\* in the code does for that of DoneWritingToEntry.
Delete(t) ==
    /\ UserRuns /\ cache.trans[t].st \in {"pending", "own"}
    /\ LET x == cache.trans[t]
           c == [Called(cache) EXCEPT !.trans[t] = Gone]
       IN  \/ /\ x.st = "own"
              /\ \E success \in BOOLEAN : cache' = DoneWithEntry(c, x.entry, t, success)
           \/ /\ x.st = "pending"
              /\ ~InLocalList(cache, t)
              /\ cache' = RemovePendingTransaction(c, t)

\* The client calls Read, or the disk cache or the network answers: the
\* DoLoop of a transaction that uses an entry goes on.
Resume(t) ==
    /\ UserRuns /\ cache.trans[t].st = "own"
    /\ cache' = Notify(Called(cache), t, "USE", "OK")

UserReturn == OnTop("user") /\ cache' = Pop(cache)

-----------------------------------------------------------------------------
(* DoLoop: getting an entry.                                               *)

At(t, s) == OnTop("run") /\ Top(cache).t = t /\ Top(cache).s = s
Rv == Top(cache).rv
Mode(t) == cache.trans[t].mode

\* DoInitEntry, and DoDoomEntry or DoOpenEntry.
DoInitEntry(t) ==
    /\ At(t, "INIT_ENTRY")
    /\ \/ /\ Mode(t) = "WRITE" /\ cache.active # NoEntry
          /\ cache' = Goto(DoomActiveEntry(cache), t, "DOOM_COMPLETE", "OK")
       \/ /\ Mode(t) = "WRITE" /\ cache.active = NoEntry
          /\ cache' \in StartOp(cache, "DOOM", t)
       \/ /\ Mode(t) # "WRITE" /\ cache.active # NoEntry
          /\ cache' = Goto([cache EXCEPT !.trans[t].new_entry = cache.active],
                           t, "OPEN_COMPLETE", "OK")
       \/ /\ Mode(t) # "WRITE" /\ cache.active = NoEntry
          /\ cache' \in StartOp(cache, "OPEN", t)

\* The state machine goes over to the network, without the cache.
PassThrough(c, t) ==
    Goto([c EXCEPT !.trans[t].mode = "NONE", !.trans[t].entry = NoEntry],
         t, "PASS", "OK")

DoOpenEntryComplete(t) ==
    /\ At(t, "OPEN_COMPLETE")
    /\ \/ Rv = "OK" /\ cache' = Goto(cache, t, "ADD_TO_ENTRY", "OK")
       \/ Rv = "RACE" /\ cache' = Goto(cache, t, "INIT_ENTRY", "OK")
       \/ /\ Rv = "ERR" /\ Mode(t) = "READ_WRITE"
          /\ cache' = Goto([cache EXCEPT !.trans[t].mode = "WRITE"], t, "CREATE_ENTRY", "OK")
       \/ Rv = "ERR" /\ Mode(t) = "UPDATE" /\ cache' = PassThrough(cache, t)
       \/ /\ Rv = "ERR" /\ Mode(t) = "READ"
          /\ cache' = Leave(cache, t)

DoCreateEntry(t) ==
    /\ At(t, "CREATE_ENTRY")
    /\ cache' \in StartOp(cache, "CREATE", t)

DoCreateEntryComplete(t) ==
    /\ At(t, "CREATE_COMPLETE")
    /\ \/ Rv = "OK" /\ cache' = Goto(cache, t, "ADD_TO_ENTRY", "OK")
       \/ Rv = "RACE" /\ cache' = Goto(cache, t, "INIT_ENTRY", "OK")
       \/ Rv \in {"ERR", "CREATE_FAILURE"} /\ cache' = PassThrough(cache, t)

DoDoomEntryComplete(t) ==
    /\ At(t, "DOOM_COMPLETE")
    /\ cache' = Goto(cache, t, IF Rv = "RACE" THEN "INIT_ENTRY" ELSE "CREATE_ENTRY", "OK")

DoAddToEntry(t) ==
    /\ At(t, "ADD_TO_ENTRY")
    /\ LET a == AddTransactionToEntry(cache, cache.trans[t].new_entry, t)
       IN  cache' = IF a.rv = "PENDING" THEN Block(a.cache, t, "pending")
                    ELSE Goto(a.cache, t, "ADD_COMPLETE", a.rv)

DoAddToEntryComplete(t) ==
    /\ At(t, "ADD_COMPLETE")
    /\ LET c == [cache EXCEPT !.trans[t].new_entry = NoEntry]
       IN  \/ Rv = "RACE" /\ cache' = Goto(c, t, "INIT_ENTRY", "OK")
           \/ /\ Rv = "OK"
              /\ cache' = Goto([c EXCEPT !.trans[t].entry = cache.trans[t].new_entry],
                               t, "USE", "OK")

-----------------------------------------------------------------------------
(* DoLoop: using the entry.  What the disk and the network answer decides  *)
(* which of these steps comes next.                                        *)

\* It waits for the disk or the network, or gives the client a result.
Suspend(t) ==
    /\ At(t, "USE")
    /\ cache' \in {Block(cache, t, "own"), HandleResult(cache, t, "own")}

\* BeginCacheValidation, DoSuccessfulSendRequest: the response will be replaced.
Overwrite(t) ==
    /\ At(t, "USE") /\ Mode(t) \in {"READ_WRITE", "UPDATE"}
    /\ cache' = [cache EXCEPT !.trans[t].mode = "WRITE"]

\* BeginCacheValidation, DoUpdateCachedResponseComplete: the response is valid.
Validated(t) ==
    /\ At(t, "USE") /\ Mode(t) = "READ_WRITE"
    /\ cache' = ConvertWriterToReader(cache, cache.trans[t].entry, t)

\* DoUpdateCachedResponse, DoUpdateCachedResponseComplete: not modified, but
\* not to be stored any more.  A range request may go on to its next range.
NoStore(t) ==
    /\ At(t, "USE") /\ Mode(t) \in {"READ_WRITE", "UPDATE"}
    /\ \E c \in DoomOwnEntry(cache) :
         \/ Mode(t) = "READ_WRITE" /\ cache' = ConvertWriterToReader(c, c.trans[t].entry, t)
         \/ Mode(t) = "READ_WRITE" /\ cache' = c
         \/ /\ Mode(t) = "UPDATE"
            /\ cache' = DoneWritingToEntry(PassThrough(c, t), c.trans[t].entry, TRUE)

\* End of the data, a redirect, or an error of the disk or the network.  The
\* code clears entry_ and mode_ after it has told the others to start over;
\* nobody looks at them in between, as a transaction that runs is not deleted.
DoneWriting(t, success) ==
    /\ At(t, "USE") /\ CanWrite(Mode(t))
    /\ cache' = DoneWritingToEntry(PassThrough(cache, t), cache.trans[t].entry, success)

DoneReading(t) ==
    /\ At(t, "USE") /\ Mode(t) = "READ"
    /\ cache' = Leave(DoneReadingFromEntry(cache, cache.trans[t].entry, t), t)

\* DoomPartialEntry, called by ValidateEntryHeadersAndContinue, which starts
\* over, and by ValidatePartialResponse, which goes on without the cache.
DoomPartialEntry(t) ==
    /\ At(t, "USE") /\ Mode(t) \in {"READ_WRITE", "WRITE"}
    /\ \E c \in DoomOwnEntry(cache) :
         LET e == c.trans[t].entry
             again == Goto([c EXCEPT !.trans[t].entry = NoEntry, !.trans[t].mode = "WRITE"],
                           t, "INIT_ENTRY", "OK")
         IN  \/ Mode(t) = "READ_WRITE" /\ cache' = DoneWithEntry(again, e, t, FALSE)
             \/ cache' = DoneWithEntry(PassThrough(c, t), e, t, FALSE)

\* Without an entry: the network answers later, or the client has its result.
Pass(t) ==
    /\ At(t, "PASS")
    /\ cache' \in {Leave(cache, t), Pop([cache EXCEPT !.trans[t] = Gone])}

-----------------------------------------------------------------------------
Init ==
    cache = [active |-> NoEntry,
             entries |-> [e \in Entries |-> Dead],
             op |-> NoOp,
             disk |-> FALSE,
             backend |-> "none",
             backend_queue |-> <<>>,
             tasks |-> <<>>,
             trans |-> [t \in Trans |-> Gone],
             stack |-> <<>>,
             failed |-> {}]

DoLoop(t) ==
    \/ DoInitEntry(t) \/ DoOpenEntryComplete(t)
    \/ DoCreateEntry(t) \/ DoCreateEntryComplete(t)
    \/ DoDoomEntryComplete(t)
    \/ DoAddToEntry(t) \/ DoAddToEntryComplete(t)
    \/ Suspend(t) \/ Overwrite(t) \/ Validated(t) \/ NoStore(t)
    \/ \E success \in BOOLEAN : DoneWriting(t, success)
    \/ DoneReading(t) \/ DoomPartialEntry(t) \/ Pass(t)

\* The frame on top takes its next step.
StackStep ==
    \/ \E t \in Trans : DoLoop(t)
    \/ NotifyItem \/ NotifyRace \/ NotifyBackendWaiter
    \/ UserReturn

LoopStep ==
    \/ \E result \in {"OK", "ERR"} : OnIOComplete(result)
    \/ \E result \in {"disk", "memory", "failed"} : OnBackendCreated(result)
    \/ OnProcessPendingQueue

UserStep ==
    \E t \in Trans : (\E mode \in Modes : Start(t, mode)) \/ Delete(t) \/ Resume(t)

Next == StackStep \/ LoopStep \/ UserStep

Spec == Init /\ [][Next]_vars

\* Calls return, the disk cache answers and the message loop runs its tasks; a
\* client that has an entry finishes with it or deletes its transaction.  The
\* clients stop making requests some time: readers that keep coming may keep a
\* writer waiting for ever.
Fairness ==
    /\ WF_vars(StackStep)
    /\ WF_vars(\E result \in {"OK", "ERR"} : OnIOComplete(result))
    /\ WF_vars(\E result \in {"disk", "memory", "failed"} : OnBackendCreated(result))
    /\ WF_vars(OnProcessPendingQueue)
    /\ \A t \in Trans : []<>(cache.trans[t].entry = NoEntry)
    /\ <>[][\A t \in Trans : cache.trans[t] = Gone => cache'.trans[t] = Gone]_vars

FairSpec == Spec /\ Fairness

-----------------------------------------------------------------------------
(* Properties.                                                             *)

Holders(c, e) ==
    IF c.entries[e] = Dead THEN {}
    ELSE c.entries[e].readers \cup ({c.entries[e].writer} \ {NoTrans})

TransType ==
    [st : {"free", "pending", "running", "own"},
     mode : {"NONE", "READ", "WRITE", "READ_WRITE", "UPDATE"},
     entry : Entries \cup {NoEntry}, new_entry : Entries \cup {NoEntry}]

EntryType ==
    [writer : Trans \cup {NoTrans}, readers : SUBSET Trans, pending_queue : Seq(Trans),
     will_process : BOOLEAN, doomed : BOOLEAN]

ItemType == [op : {"OPEN", "CREATE", "DOOM"}, trans : Trans \cup {NoTrans}]

\* The maps, entries and work items have the shape http_cache.h declares.
TypeOK ==
    /\ cache.active \in Entries \cup {NoEntry}
    /\ cache.entries \in [Entries -> EntryType \cup {Dead}]
    /\ cache.op # NoOp => cache.op \in [writer : ItemType, queue : Seq(ItemType)]
    /\ cache.backend \in {"none", "building", "disk", "memory", "failed"}
    /\ cache.trans \in [Trans -> TransType]
    /\ cache.disk \in BOOLEAN

\* The lock of an entry, and the transactions' view of it, agree in every
\* state: a writer is alone, readers only read, a transaction that uses an
\* entry has its lock, and the lock is held by nobody who is gone ("a basic
\* reader/writer lock").
LockExact ==
    \A e \in Live(cache) :
        LET x == cache.entries[e]
        IN  /\ x.writer # NoTrans => x.readers = {} /\ CanWrite(Mode(x.writer))
            /\ \A t \in x.readers : ~CanWrite(Mode(t))
            /\ \A t \in Trans : cache.trans[t].entry = e => t \in Holders(cache, e)
            /\ \A t \in Holders(cache, e) : e \in {cache.trans[t].entry, cache.trans[t].new_entry}

\* Where a transaction that waits may be: in the queue of an entry, among the
\* items of the operation, with the backend, or in the local list of a loop
\* that is notifying.
Places(c, t) ==
    {<<"entry", e>> : e \in {x \in Live(c) : InSeq(t, c.entries[x].pending_queue)}}
    \cup (IF c.op # NoOp /\ c.op.writer.trans = t THEN {<<"op", 0>>} ELSE {})
    \cup (IF c.op = NoOp THEN {} ELSE
            {<<"op", i>> : i \in {j \in 1..Len(c.op.queue) : c.op.queue[j].trans = t}})
    \cup (IF InSeq(t, c.backend_queue) THEN {<<"backend", 0>>} ELSE {})
    \cup (IF InLocalList(c, t) THEN {<<"loop", 0>>} ELSE {})

\* A transaction that waits is in exactly one place, and one that does not wait
\* is in none: it is notified once, and can be found when it is deleted (unless
\* it is in a local list), through every restart, failure and re-entrant call.
WaitsInOnePlace ==
    \A t \in Trans :
        Cardinality(Places(cache, t)) = IF cache.trans[t].st = "pending" THEN 1 ELSE 0

\* Every posted OnProcessPendingQueue finds its entry alive, and there is one
\* task for each entry that was promised one.
TasksExact ==
    /\ \A i, j \in 1..Len(cache.tasks) : cache.tasks[i] = cache.tasks[j] => i = j
    /\ \A e \in Entries : InSeq(e, cache.tasks) <=>
         cache.entries[e] # Dead /\ cache.entries[e].will_process

\* Between two tasks of the message loop no entry is left without anybody who
\* will come back to it: the comment of DoOpenEntryComplete, "otherwise the
\* cache will end up with an active entry without any transaction attached".
NoAbandonedEntry ==
    AtLoop => \A e \in Live(cache) :
        Holders(cache, e) # {} \/ cache.entries[e].will_process

\* The DCHECKs that can fail: an entry is doomed while nobody uses it and its
\* task is on its way (DoomEntry), and a key is doomed for nobody after another
\* transaction doomed the entry (AsyncDoomEntry and the callers of DoomEntry).
FailingChecks == {"doom_in_use", "doom_trans", "doom_result"}

\* The other DCHECKs never fail, also after one of those has: an entry that is
\* deleted is not in use (DeactivateEntry, FinalizeDoomedEntry), none is
\* activated over another (ActivateEntry), no operation starts while an entry
\* is active (CreateEntry, GetPendingOp), who gives a lock back or converts it
\* has it (DoneWithEntry, DoneWritingToEntry, DoneReadingFromEntry,
\* ConvertWriterToReader), no task meets a writer (OnProcessPendingQueue), and
\* RemovePendingTransaction finds the transaction that is deleted.
EntryChecks == cache.failed \subseteq FailingChecks

\* A transaction that waits gets an entry, or learns that it must do without
\* the cache, unless its client deletes it: the restarts after ERR_CACHE_RACE
\* come to an end, and nobody is forgotten in a queue.
Served ==
    \A t \in Trans : cache.trans[t].st = "pending" ~>
        (cache.trans[t].entry # NoEntry \/ cache.trans[t] = Gone)

=============================================================================
