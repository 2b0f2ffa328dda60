-------------------------- MODULE SocketPoolProofs --------------------------
(***************************************************************************)
(* For every number of groups, handles, connections and every value of the *)
(* limits: the pool never holds more sockets than max_sockets_, its four    *)
(* kinds of counters are exact, no count goes below zero, and two handles  *)
(* never share a socket.                                                   *)
(*                                                                         *)
(* The counters are decremented by what a handle or a sweep says is there, *)
(* so exactness needs ownership: the socket that a handle gives back is    *)
(* really out, and in the handle's own group.  The inductive invariant     *)
(* Good(p) joins the two, on any value p of the record `pool', and each    *)
(* method of the pool gets one lemma that says how it moves Good and Total.*)
(***************************************************************************)
EXTENDS SocketPool, FiniteSetTheorems, SequenceTheorems, TLAPS

IntPoolType ==
    [group_map_ : SUBSET Groups,
     conn : [Conns -> ConnType],
     handle : [Handles -> HandleType],
     pending_requests : [Groups -> Seq(Handles)],
     active_socket_count : [Groups -> Int],
     backup_job : SUBSET Groups,
     backup_task : SUBSET Groups,
     idle_socket_count_ : Int,
     connecting_socket_count_ : Int,
     handed_out_socket_count_ : Int,
     timer_ : BOOLEAN,
     pool_generation_number_ : Nat,
     last_stalled_group_count_ : Nat,
     tasks : Seq(TaskType)]

Exact(p) ==
    /\ p.idle_socket_count_ = Cardinality(AllIdle(p))
    /\ p.connecting_socket_count_ = Cardinality(AllJobs(p))
    /\ p.handed_out_socket_count_ = Cardinality(AllActive(p))
    /\ \A g \in Groups :
         p.active_socket_count[g] = Cardinality(ActiveSockets(p, g))

Owned(p) ==
    /\ \A h \in Handles : p.handle[h].st = "active" =>
         /\ p.conn[p.handle[h].conn].st = "active"
         /\ p.conn[p.handle[h].conn].group = p.handle[h].group
    /\ \A h, k \in Handles :
         (/\ p.handle[h].st = "active" /\ p.handle[k].st = "active"
          /\ p.handle[h].conn = p.handle[k].conn) => h = k

Good(p) == p \in IntPoolType /\ Exact(p) /\ Owned(p)

-----------------------------------------------------------------------------
(* Cardinalities, and the types of the fields.                             *)

\* What one element more or less does to the size of a finite set.
LEMMA CardUpdate ==
    ASSUME NEW A, NEW B, NEW c, IsFiniteSet(A), A \ {c} = B \ {c}
    PROVE  /\ IsFiniteSet(B)
           /\ Cardinality(A) \in Nat /\ Cardinality(B) \in Nat
           /\ c \in A /\ c \notin B => Cardinality(B) = Cardinality(A) - 1
           /\ c \notin A /\ c \in B => Cardinality(B) = Cardinality(A) + 1
<1>1. IsFiniteSet(A \ {c}) BY FS_RemoveElement
<1>2. c \in B => B = (B \ {c}) \cup {c} OBVIOUS
<1>3. c \notin B => B = B \ {c} OBVIOUS
<1>4. IsFiniteSet(B) BY <1>1, <1>2, <1>3, FS_AddElement
<1>5. Cardinality(A) \in Nat /\ Cardinality(B) \in Nat BY <1>4, FS_CardinalityType
<1>6. Cardinality(A \ {c}) = IF c \in A THEN Cardinality(A) - 1 ELSE Cardinality(A)
  BY FS_RemoveElement
<1>7. Cardinality(B \ {c}) = IF c \in B THEN Cardinality(B) - 1 ELSE Cardinality(B)
  BY <1>4, FS_RemoveElement
<1> QED BY <1>4, <1>5, <1>6, <1>7

\* Every set of connections is finite.
LEMMA ConnSets ==
    ASSUME PoolAssumption, NEW S \in SUBSET Conns
    PROVE  IsFiniteSet(S) /\ Cardinality(S) \in Nat
BY FS_Subset, FS_CardinalityType DEF PoolAssumption

\* Sequences keep their type when an element is cut out, put in or appended.
LEMMA SeqCut ==
    ASSUME NEW S, NEW s \in Seq(S), NEW i \in 1..(Len(s) + 1)
    PROVE  SubSeq(s, 1, i - 1) \o SubSeq(s, i + 1, Len(s)) \in Seq(S)
<1>1. /\ Len(s) \in Nat /\ i \in Int /\ i - 1 \in Int /\ i + 1 \in Int
      /\ \A j \in 1..(i - 1) : j \in 1..Len(s)
      /\ \A j \in (i + 1)..Len(s) : j \in 1..Len(s)
  OBVIOUS
<1>2. \A j \in 1..Len(s) : s[j] \in S OBVIOUS
<1>3. SubSeq(s, 1, i - 1) \in Seq(S) BY <1>1, <1>2, SubSeqProperties
<1>4. SubSeq(s, i + 1, Len(s)) \in Seq(S) BY <1>1, <1>2, SubSeqProperties
<1> QED BY <1>3, <1>4, ConcatProperties

LEMMA SeqInsert ==
    ASSUME NEW S, NEW s \in Seq(S), NEW k \in 0..Len(s), NEW e \in S
    PROVE  SubSeq(s, 1, k) \o <<e>> \o SubSeq(s, k + 1, Len(s)) \in Seq(S)
<1>1. /\ Len(s) \in Nat /\ k \in Int /\ k + 1 \in Int
      /\ \A j \in 1..k : j \in 1..Len(s)
      /\ \A j \in (k + 1)..Len(s) : j \in 1..Len(s)
  OBVIOUS
<1>2. \A j \in 1..Len(s) : s[j] \in S OBVIOUS
<1>3. SubSeq(s, 1, k) \in Seq(S) BY <1>1, <1>2, SubSeqProperties
<1>4. SubSeq(s, k + 1, Len(s)) \in Seq(S) BY <1>1, <1>2, SubSeqProperties
<1>5. <<e>> \in Seq(S) OBVIOUS
<1>6. SubSeq(s, 1, k) \o <<e>> \in Seq(S) BY <1>3, <1>5, ConcatProperties
<1> QED BY <1>4, <1>6, ConcatProperties

LEMMA SeqAppend ==
    ASSUME NEW S, NEW s \in Seq(S), NEW e \in S
    PROVE  Append(s, e) \in Seq(S)
OBVIOUS

LEMMA FieldTypes ==
    ASSUME NEW p, p \in IntPoolType
    PROVE  /\ p.group_map_ \in SUBSET Groups
           /\ p.conn \in [Conns -> ConnType]
           /\ p.handle \in [Handles -> HandleType]
           /\ p.pending_requests \in [Groups -> Seq(Handles)]
           /\ p.active_socket_count \in [Groups -> Int]
           /\ \A g \in Groups : p.active_socket_count[g] \in Int
           /\ p.backup_job \in SUBSET Groups /\ p.backup_task \in SUBSET Groups
           /\ p.idle_socket_count_ \in Int
           /\ p.connecting_socket_count_ \in Int
           /\ p.handed_out_socket_count_ \in Int
           /\ p.timer_ \in BOOLEAN
           /\ p.pool_generation_number_ \in Nat
           /\ p.last_stalled_group_count_ \in Nat
           /\ p.tasks \in Seq(TaskType)
           /\ Total(p) \in Int
BY DEF IntPoolType, Total

\* A step that leaves the connections, the handles and the counters alone.
LEMMA SameCore ==
    ASSUME NEW p, NEW q, Good(p), q \in IntPoolType,
           q.conn = p.conn, q.handle = p.handle,
           q.idle_socket_count_ = p.idle_socket_count_,
           q.connecting_socket_count_ = p.connecting_socket_count_,
           q.handed_out_socket_count_ = p.handed_out_socket_count_,
           q.active_socket_count = p.active_socket_count
    PROVE  Good(q) /\ Total(q) = Total(p)
BY DEF Good, Exact, Owned, AllIdle, AllJobs, AllActive, ActiveSockets, Total

\* One of the sets of groups gets a new value.
LEMMA PutGroupsGood ==
    ASSUME NEW p, Good(p), NEW G \in SUBSET Groups,
           NEW q \in {[p EXCEPT !.group_map_ = G], [p EXCEPT !.backup_job = G],
                      [p EXCEPT !.backup_task = G]}
    PROVE  /\ Good(q) /\ Total(q) = Total(p) /\ q.conn = p.conn
           /\ q.pending_requests = p.pending_requests
<1>1. p \in IntPoolType BY DEF Good
<1>2. CASE q = [p EXCEPT !.group_map_ = G] BY <1>1, <1>2, SameCore DEF IntPoolType
<1>3. CASE q = [p EXCEPT !.backup_job = G] BY <1>1, <1>3, SameCore DEF IntPoolType
<1>4. CASE q = [p EXCEPT !.backup_task = G] BY <1>1, <1>4, SameCore DEF IntPoolType
<1> QED BY <1>2, <1>3, <1>4

-----------------------------------------------------------------------------
(* The methods of the pool.                                                *)

LEMMA HandOutGood ==
    ASSUME PoolAssumption, NEW p, Good(p), NEW c \in Conns, p.conn[c] = Free,
           NEW gen \in Nat, NEW g \in Groups, NEW h \in Handles
    PROVE  LET q == HandOutSocket(p, c, gen, g, h)
           IN  Good(q) /\ Total(q) = Total(p) + 1
<1> DEFINE q == HandOutSocket(p, c, gen, g, h)
           cv == [st |-> "active", group |-> g, gen |-> gen]
           hv == [st |-> "active", group |-> g, conn |-> c,
                  pool_id |-> p.pool_generation_number_]
           n == p.handed_out_socket_count_ + 1
           m == p.active_socket_count[g] + 1
<1>1. p \in IntPoolType BY DEF Good
<1>2. cv \in ConnType BY DEF ConnType
<1>3. hv \in HandleType BY <1>1, FieldTypes DEF HandleType
<1>4. n \in Int /\ m \in Int BY <1>1, FieldTypes
<1>5. q = [p EXCEPT !.conn[c] = cv, !.handle[h] = hv,
                    !.handed_out_socket_count_ = n, !.active_socket_count[g] = m]
  BY DEF HandOutSocket
<1>6. q \in IntPoolType
  <2> HIDE DEF cv, hv, n, m, q
  <2> QED BY <1>1, <1>2, <1>3, <1>4, <1>5 DEF IntPoolType
<1>7. /\ q.conn = [p.conn EXCEPT ![c] = cv]
      /\ q.handle = [p.handle EXCEPT ![h] = hv]
      /\ q.handed_out_socket_count_ = n
      /\ q.active_socket_count = [p.active_socket_count EXCEPT ![g] = m]
      /\ q.idle_socket_count_ = p.idle_socket_count_
      /\ q.connecting_socket_count_ = p.connecting_socket_count_
  <2> HIDE DEF cv, hv, n, m, q
  <2> QED BY <1>1, <1>5 DEF IntPoolType
<1>8. Exact(q)
  <2>1. AllIdle(q) = AllIdle(p) /\ AllJobs(q) = AllJobs(p)
    BY <1>1, <1>7, FieldTypes DEF AllIdle, AllJobs, Free
  <2>2. /\ AllActive(q) \ {c} = AllActive(p) \ {c}
        /\ c \in AllActive(q) /\ c \notin AllActive(p)
    BY <1>1, <1>7, FieldTypes DEF AllActive, Free
  <2>3. Cardinality(AllActive(q)) = Cardinality(AllActive(p)) + 1
    BY <2>2, CardUpdate, ConnSets DEF AllActive
  <2>4. /\ ActiveSockets(q, g) \ {c} = ActiveSockets(p, g) \ {c}
        /\ c \in ActiveSockets(q, g) /\ c \notin ActiveSockets(p, g)
    BY <1>1, <1>7, FieldTypes DEF ActiveSockets, Free
  <2>5. Cardinality(ActiveSockets(q, g)) = Cardinality(ActiveSockets(p, g)) + 1
    BY <2>4, CardUpdate, ConnSets DEF ActiveSockets
  <2>6. ASSUME NEW k \in Groups, k # g PROVE ActiveSockets(q, k) = ActiveSockets(p, k)
    BY <1>1, <1>7, <2>6, FieldTypes DEF ActiveSockets, Free
  <2>7. \A k \in Groups : q.active_socket_count[k] = Cardinality(ActiveSockets(q, k))
    BY <1>1, <1>7, <2>5, <2>6, FieldTypes DEF Good, Exact
  <2> QED BY <1>7, <2>1, <2>3, <2>7 DEF Good, Exact
<1>9. Owned(q)
  BY <1>1, <1>7, FieldTypes DEF Good, Owned, HandleType, Free
<1> QED BY <1>1, <1>6, <1>7, <1>8, <1>9, FieldTypes DEF Good, Total

LEMMA AddIdleGood ==
    ASSUME PoolAssumption, NEW p, Good(p), NEW c \in Conns, p.conn[c] = Free,
           NEW gen \in Nat, NEW g \in Groups
    PROVE  LET q == AddIdleSocket(p, c, gen, g)
           IN  Good(q) /\ Total(q) = Total(p) + 1
<1> DEFINE q == AddIdleSocket(p, c, gen, g)
           cv == [st |-> "idle", group |-> g, gen |-> gen]
           n == p.idle_socket_count_ + 1
           t == p.timer_ \/ p.idle_socket_count_ + 1 = 1
<1>1. p \in IntPoolType BY DEF Good
<1>2. cv \in ConnType BY DEF ConnType
<1>3. n \in Int BY <1>1, FieldTypes
<1>4. t \in BOOLEAN OBVIOUS
<1>5. q = [p EXCEPT !.conn[c] = cv, !.idle_socket_count_ = n, !.timer_ = t]
  BY <1>1, FieldTypes DEF AddIdleSocket, IncrementIdleCount, IntPoolType
<1>6. q \in IntPoolType
  <2> HIDE DEF cv, n, t, q
  <2> QED BY <1>1, <1>2, <1>3, <1>4, <1>5 DEF IntPoolType
<1>7. /\ q.conn = [p.conn EXCEPT ![c] = cv]
      /\ q.handle = p.handle
      /\ q.handed_out_socket_count_ = p.handed_out_socket_count_
      /\ q.active_socket_count = p.active_socket_count
      /\ q.idle_socket_count_ = n
      /\ q.connecting_socket_count_ = p.connecting_socket_count_
  <2> HIDE DEF cv, n, t, q
  <2> QED BY <1>1, <1>5 DEF IntPoolType
<1>8. Exact(q)
  <2>1. /\ AllActive(q) = AllActive(p) /\ AllJobs(q) = AllJobs(p)
        /\ \A k \in Groups : ActiveSockets(q, k) = ActiveSockets(p, k)
    BY <1>1, <1>7, FieldTypes DEF AllActive, AllJobs, ActiveSockets, Free
  <2>2. /\ AllIdle(q) \ {c} = AllIdle(p) \ {c}
        /\ c \in AllIdle(q) /\ c \notin AllIdle(p)
    BY <1>1, <1>7, FieldTypes DEF AllIdle, Free
  <2>3. Cardinality(AllIdle(q)) = Cardinality(AllIdle(p)) + 1
    BY <2>2, CardUpdate, ConnSets DEF AllIdle
  <2> QED BY <1>7, <2>1, <2>3 DEF Good, Exact
<1>9. Owned(q)
  BY <1>1, <1>7, FieldTypes DEF Good, Owned, HandleType, Free
<1> QED BY <1>1, <1>6, <1>7, <1>8, <1>9, FieldTypes DEF Good, Total

\* Dropping the backup job of a group, or the group.
LEMMA CleanupBackupJobGood ==
    ASSUME NEW p, Good(p), NEW g
    PROVE  LET q == CleanupBackupJob(p, g)
           IN  /\ Good(q) /\ Total(q) = Total(p) /\ q.conn = p.conn
               /\ q.pending_requests = p.pending_requests
               /\ q.pool_generation_number_ = p.pool_generation_number_
BY SameCore DEF Good, CleanupBackupJob, IntPoolType

LEMMA EraseGroupGood ==
    ASSUME NEW p, Good(p), NEW g
    PROVE  LET q == EraseGroup(p, g)
           IN  /\ Good(q) /\ Total(q) = Total(p) /\ q.conn = p.conn
               /\ q.pool_generation_number_ = p.pool_generation_number_
<1> DEFINE r == CleanupBackupJob(p, g)
           q == EraseGroup(p, g)
<1>1. /\ Good(r) /\ Total(r) = Total(p) /\ r.conn = p.conn
      /\ r.pool_generation_number_ = p.pool_generation_number_
  BY CleanupBackupJobGood
<1>2. /\ Good(q) /\ Total(q) = Total(p) /\ q.conn = p.conn
      /\ q.pool_generation_number_ = p.pool_generation_number_
  <2>1. q = [r EXCEPT !.group_map_ = @ \ {g}] BY DEF EraseGroup
  <2> HIDE DEF q, r
  <2> QED BY <1>1, <2>1, SameCore DEF Good, IntPoolType
<1> QED BY <1>2

LEMMA EraseIfEmptyGood ==
    ASSUME NEW p, Good(p), NEW g
    PROVE  LET q == EraseIfEmpty(p, g)
           IN  /\ Good(q) /\ Total(q) = Total(p) /\ q.conn = p.conn
               /\ q.pool_generation_number_ = p.pool_generation_number_
BY EraseGroupGood DEF EraseIfEmpty

LEMMA OnAvailableSocketSlotGood ==
    ASSUME NEW p, Good(p), NEW g \in Groups, NEW b \in BOOLEAN
    PROVE  LET q == OnAvailableSocketSlot(p, g, b)
           IN  Good(q) /\ Total(q) = Total(p)
<1> DEFINE t == [group |-> g, was_at_socket_limit |-> b]
           s == Append(p.tasks, t)
           q == OnAvailableSocketSlot(p, g, b)
<1>1. p \in IntPoolType BY DEF Good
<1>2. s \in Seq(TaskType)
  <2>1. t \in TaskType BY DEF TaskType
  <2>2. p.tasks \in Seq(TaskType) BY <1>1, FieldTypes
  <2> HIDE DEF t
  <2> QED BY <2>1, <2>2, SeqAppend
<1>3. q = [p EXCEPT !.tasks = s] BY DEF OnAvailableSocketSlot
<1>4. Good(q) /\ Total(q) = Total(p)
  <2> HIDE DEF q, s, t
  <2> QED BY <1>1, <1>2, <1>3, SameCore DEF IntPoolType
<1> QED BY <1>4

LEMMA RemoveRequestGood ==
    ASSUME NEW p, Good(p), NEW g \in Groups,
           NEW i \in 1..(Len(p.pending_requests[g]) + 1)
    PROVE  LET q == RemoveRequestFromQueue(p, g, i)
           IN  /\ Good(q) /\ Total(q) = Total(p) /\ q.conn = p.conn
               /\ q.pool_generation_number_ = p.pool_generation_number_
<1> DEFINE old == p.pending_requests[g]
           s == SubSeq(old, 1, i - 1) \o SubSeq(old, i + 1, Len(old))
           q == RemoveRequestFromQueue(p, g, i)
<1>1. p \in IntPoolType BY DEF Good
<1>2. old \in Seq(Handles) BY <1>1, FieldTypes
<1>3. s \in Seq(Handles)
  <2>1. i \in 1..(Len(old) + 1) OBVIOUS
  <2> HIDE DEF old
  <2> QED BY <1>2, <2>1, SeqCut
<1>4. q = [p EXCEPT !.pending_requests[g] = s] BY DEF RemoveRequestFromQueue
<1>5. /\ Good(q) /\ Total(q) = Total(p) /\ q.conn = p.conn
      /\ q.pool_generation_number_ = p.pool_generation_number_
  <2> HIDE DEF q, s, old
  <2> QED BY <1>1, <1>3, <1>4, SameCore DEF IntPoolType
<1> QED BY <1>5

\* A handle that gets no socket, or gives up its request.
LEMMA SetHandleGood ==
    ASSUME NEW p, Good(p), NEW h \in Handles, NEW v \in HandleType, v.st # "active"
    PROVE  LET q == [p EXCEPT !.handle[h] = v]
           IN  /\ Good(q) /\ Total(q) = Total(p) /\ q.conn = p.conn
               /\ q.pending_requests = p.pending_requests
<1> DEFINE q == [p EXCEPT !.handle[h] = v]
<1>1. p \in IntPoolType BY DEF Good
<1>2. q \in IntPoolType BY <1>1 DEF IntPoolType
<1>3. /\ q.conn = p.conn /\ q.handle = [p.handle EXCEPT ![h] = v]
      /\ q.idle_socket_count_ = p.idle_socket_count_
      /\ q.connecting_socket_count_ = p.connecting_socket_count_
      /\ q.handed_out_socket_count_ = p.handed_out_socket_count_
      /\ q.active_socket_count = p.active_socket_count
      /\ q.pending_requests = p.pending_requests
  BY <1>1 DEF IntPoolType
<1>4. Exact(q)
  BY <1>3 DEF Good, Exact, AllIdle, AllJobs, AllActive, ActiveSockets
<1>5. Owned(q)
  <2> HIDE DEF q
  <2> QED BY <1>1, <1>3, FieldTypes DEF Good, Owned
<1> QED BY <1>2, <1>3, <1>4, <1>5 DEF Good, Total

LEMMA RemoveConnectJobGood ==
    ASSUME PoolAssumption, NEW p, Good(p), NEW c \in Conns,
           p.conn[c].st = "connecting"
    PROVE  LET q == RemoveConnectJob(p, c)
           IN  /\ Good(q) /\ Total(q) = Total(p) - 1 /\ q.conn[c] = Free
               /\ q.pending_requests = p.pending_requests
               /\ q.pool_generation_number_ = p.pool_generation_number_
<1> DEFINE n == p.connecting_socket_count_ - 1
           q == [p EXCEPT !.connecting_socket_count_ = n, !.conn[c] = Free]
<1>1. p \in IntPoolType BY DEF Good
<1>2. n \in Int BY <1>1, FieldTypes
<1>3. Free \in ConnType BY DEF ConnType
<1>4. q \in IntPoolType
  <2> HIDE DEF n
  <2> QED BY <1>1, <1>2, <1>3 DEF IntPoolType
<1>5. /\ q.conn = [p.conn EXCEPT ![c] = Free]
      /\ q.handle = p.handle
      /\ q.handed_out_socket_count_ = p.handed_out_socket_count_
      /\ q.active_socket_count = p.active_socket_count
      /\ q.idle_socket_count_ = p.idle_socket_count_
      /\ q.connecting_socket_count_ = n
      /\ q.pending_requests = p.pending_requests
      /\ q.pool_generation_number_ = p.pool_generation_number_
  <2> HIDE DEF n
  <2> QED BY <1>1 DEF IntPoolType
<1>6. Exact(q)
  <2> HIDE DEF q
  <2>1. /\ AllActive(q) = AllActive(p) /\ AllIdle(q) = AllIdle(p)
        /\ \A k \in Groups : ActiveSockets(q, k) = ActiveSockets(p, k)
    BY <1>1, <1>5, FieldTypes DEF AllActive, AllIdle, ActiveSockets, Free
  <2>2. /\ AllJobs(q) \ {c} = AllJobs(p) \ {c}
        /\ c \notin AllJobs(q) /\ c \in AllJobs(p)
    BY <1>1, <1>5, FieldTypes DEF AllJobs, Free
  <2>3. Cardinality(AllJobs(q)) = Cardinality(AllJobs(p)) - 1
    BY <2>2, CardUpdate, ConnSets DEF AllJobs
  <2> QED BY <1>5, <2>1, <2>3 DEF Good, Exact
<1>7. Owned(q)
  <2> HIDE DEF q
  <2> QED BY <1>1, <1>5, FieldTypes DEF Good, Owned, HandleType, Free
<1>8. Good(q) /\ Total(q) = Total(p) - 1 /\ q.conn[c] = Free
  <2> HIDE DEF q
  <2> QED BY <1>1, <1>4, <1>5, <1>6, <1>7, FieldTypes DEF Good, Total
<1> DEFINE r == CleanupBackupJob(q, p.conn[c].group)
<1>9. /\ Good(r) /\ Total(r) = Total(q) /\ r.conn = q.conn
      /\ r.pending_requests = q.pending_requests
      /\ r.pool_generation_number_ = q.pool_generation_number_
  <2> HIDE DEF q
  <2> QED BY <1>8, CleanupBackupJobGood
<1>10. RemoveConnectJob(p, c) \in {q, r} BY DEF RemoveConnectJob
<1> HIDE DEF q, r
<1> QED BY <1>5, <1>8, <1>9, <1>10

LEMMA DeleteIdleGood ==
    ASSUME PoolAssumption, NEW p, Good(p), NEW S \in SUBSET AllIdle(p)
    PROVE  LET q == DeleteIdle(p, S)
           IN  /\ Good(q) /\ Total(q) = Total(p) - Cardinality(S)
               /\ Cardinality(S) \in Nat
               /\ \A c \in S : q.conn[c] = Free
               /\ q.pending_requests = p.pending_requests
               /\ q.pool_generation_number_ = p.pool_generation_number_
<1> DEFINE s == Cardinality(S)
           n == p.idle_socket_count_ - s
           t == p.timer_ /\ ~(s > 0 /\ p.idle_socket_count_ = s)
           f == [c \in Conns |-> IF c \in S THEN Free ELSE p.conn[c]]
           q == DeleteIdle(p, S)
<1>1. p \in IntPoolType BY DEF Good
<1>2. S \subseteq Conns /\ s \in Nat /\ IsFiniteSet(S)
  BY ConnSets DEF AllIdle
<1>3. n \in Int BY <1>1, <1>2, FieldTypes
<1>4. t \in BOOLEAN OBVIOUS
<1>5. f \in [Conns -> ConnType]
  <2>1. Free \in ConnType BY DEF ConnType
  <2> QED BY <1>1, <2>1, FieldTypes
<1>6. q = [p EXCEPT !.idle_socket_count_ = n, !.timer_ = t, !.conn = f]
  BY <1>1 DEF DeleteIdle, DecrementIdleCount, IntPoolType
<1>7. q \in IntPoolType
  <2> HIDE DEF n, t, f, q
  <2> QED BY <1>1, <1>3, <1>4, <1>5, <1>6 DEF IntPoolType
<1>8. /\ q.conn = f
      /\ q.handle = p.handle
      /\ q.handed_out_socket_count_ = p.handed_out_socket_count_
      /\ q.active_socket_count = p.active_socket_count
      /\ q.idle_socket_count_ = n
      /\ q.connecting_socket_count_ = p.connecting_socket_count_
      /\ q.pending_requests = p.pending_requests
      /\ q.pool_generation_number_ = p.pool_generation_number_
  <2> HIDE DEF n, t, f, q
  <2> QED BY <1>1, <1>6 DEF IntPoolType
<1>9. Exact(q)
  <2>1. /\ AllActive(q) = AllActive(p) /\ AllJobs(q) = AllJobs(p)
        /\ \A k \in Groups : ActiveSockets(q, k) = ActiveSockets(p, k)
        /\ AllIdle(q) = AllIdle(p) \ S
    <3> HIDE DEF q
    <3> QED BY <1>1, <1>8, FieldTypes
            DEF AllActive, AllIdle, AllJobs, ActiveSockets, Free
  <2>2. Cardinality(AllIdle(q)) = Cardinality(AllIdle(p)) - s
    <3>1. AllIdle(p) \cap S = S OBVIOUS
    <3>2. IsFiniteSet(AllIdle(p)) BY ConnSets DEF AllIdle
    <3> QED BY <2>1, <3>1, <3>2, FS_Difference
  <2> HIDE DEF q, s
  <2> QED BY <1>8, <2>1, <2>2 DEF Good, Exact
<1>10. Owned(q)
  <2>1. \A c \in S : p.conn[c].st = "idle" BY DEF AllIdle
  <2>2. \A c \in Conns : p.conn[c].st = "active" => f[c] = p.conn[c]
    BY <2>1
  <2>3. \A h \in Handles : p.handle[h].st = "active" => p.handle[h].conn \in Conns
    BY <1>1, FieldTypes DEF HandleType, None
  <2> HIDE DEF q, f
  <2> QED BY <1>1, <1>8, <2>2, <2>3, FieldTypes DEF Good, Owned
<1>11. Total(q) = Total(p) - s
  <2> HIDE DEF q, s
  <2> QED BY <1>1, <1>2, <1>8, FieldTypes DEF Total
<1>12. \A c \in S : q.conn[c] = Free BY <1>2, <1>8
<1> QED BY <1>2, <1>7, <1>8, <1>9, <1>10, <1>11, <1>12 DEF Good

LEMMA CloseOneIdleSocketGood ==
    ASSUME PoolAssumption, NEW p, Good(p), NEW q \in CloseOneIdleSocket(p)
    PROVE  /\ Good(q) /\ Total(q) = Total(p) - 1
           /\ q.pool_generation_number_ = p.pool_generation_number_
<1>1. PICK g : \E c \in AllIdle(p) : q = EraseIfEmpty(DeleteIdle(p, {c}), g)
  <2>1. PICK g : \E c \in IdleSockets(p, g) : q = EraseIfEmpty(DeleteIdle(p, {c}), g)
    BY DEF CloseOneIdleSocket
  <2>2. IdleSockets(p, g) \subseteq AllIdle(p) BY DEF IdleSockets, AllIdle
  <2> QED BY <2>1, <2>2
<1>0. PICK c \in AllIdle(p) : q = EraseIfEmpty(DeleteIdle(p, {c}), g) BY <1>1
<1> DEFINE r == DeleteIdle(p, {c})
<1>2. Cardinality({c}) = 1 BY FS_Singleton
<1>3. /\ Good(r) /\ Total(r) = Total(p) - 1
      /\ r.pool_generation_number_ = p.pool_generation_number_
  BY <1>2, DeleteIdleGood
<1> HIDE DEF r
<1>4. q = EraseIfEmpty(r, g) BY <1>0 DEF r
<1> QED BY <1>3, <1>4, EraseIfEmptyGood

LEMMA CheckForStalledGood ==
    ASSUME PoolAssumption, NEW p, Good(p), NEW q \in CheckForStalledSocketGroups(p)
    PROVE  Good(q) /\ Total(q) <= Total(p)
<1> DEFINE n == Cardinality(StalledGroups(p))
           s == [p EXCEPT !.last_stalled_group_count_ = n]
<1>1. p \in IntPoolType BY DEF Good
<1>2. n \in Nat
  <2>1. StalledGroups(p) \subseteq Groups BY <1>1, FieldTypes DEF StalledGroups
  <2> QED BY <2>1, FS_Subset, FS_CardinalityType DEF PoolAssumption
<1>3. Good(s) /\ Total(s) = Total(p)
  <2> HIDE DEF n
  <2> QED BY <1>1, <1>2, SameCore DEF IntPoolType
<1>4. Total(p) \in Int BY <1>1, FieldTypes
<1>5. CASE q = s BY <1>3, <1>4, <1>5
<1>6. CASE \E r : \E top \in Groups :
             /\ r = s \/ r \in CloseOneIdleSocket(s)
             /\ q = OnAvailableSocketSlot(r, top, FALSE)
  <2>0. PICK r : \E top \in Groups : /\ r = s \/ r \in CloseOneIdleSocket(s)
                                     /\ q = OnAvailableSocketSlot(r, top, FALSE)
    BY <1>6
  <2>1. PICK top \in Groups : /\ r = s \/ r \in CloseOneIdleSocket(s)
                              /\ q = OnAvailableSocketSlot(r, top, FALSE)
    BY <2>0
  <2> HIDE DEF s
  <2>2. Good(r) /\ Total(r) <= Total(p)
    BY <1>3, <1>4, <2>1, CloseOneIdleSocketGood
  <2> QED BY <2>1, <2>2, OnAvailableSocketSlotGood
<1>7. \/ q = s
      \/ \E r : \E top \in Groups :
            /\ r = s \/ r \in CloseOneIdleSocket(s)
            /\ q = OnAvailableSocketSlot(r, top, FALSE)
  <2>1. FindTopStalledGroup(p) \subseteq Groups
    BY <1>1, FieldTypes DEF FindTopStalledGroup, StalledGroups
  <2> DEFINE room == IF ~ReachedMaxSocketsLimit(s) THEN {s}
                     ELSE IF s.idle_socket_count_ > 0 THEN CloseOneIdleSocket(s)
                     ELSE {}
             woken == UNION {{OnAvailableSocketSlot(r, top, FALSE) : r \in room} :
                                top \in FindTopStalledGroup(p)}
  <2>2. q \in IF StalledGroups(p) = {} \/ room = {} THEN {s} ELSE woken
    BY DEF CheckForStalledSocketGroups
  <2>3. \A r \in room : r = s \/ r \in CloseOneIdleSocket(s) OBVIOUS
  <2>4. q = s \/ q \in woken
    <3> HIDE DEF room, woken, s
    <3> QED BY <2>2
  <2>5. ASSUME q \in woken
        PROVE  \E r \in room : \E top \in FindTopStalledGroup(p) :
                  q = OnAvailableSocketSlot(r, top, FALSE)
    <3> HIDE DEF room, s
    <3> QED BY <2>5
  <2> HIDE DEF room, woken, s
  <2> QED BY <2>1, <2>3, <2>4, <2>5
<1> QED BY <1>5, <1>6, <1>7

\* The groups G, and their backup jobs, go.
LEMMA DropGroupsGood ==
    ASSUME NEW p, Good(p), NEW G
    PROVE  /\ LET q == [p EXCEPT !.group_map_ = @ \ G, !.backup_job = @ \ G,
                                 !.backup_task = @ \ G]
              IN  Good(q) /\ Total(q) = Total(p)
           /\ LET q == [p EXCEPT !.group_map_ = @ \ G, !.backup_job = @ \ G]
              IN  Good(q) /\ Total(q) = Total(p)
BY SameCore DEF Good, IntPoolType

LEMMA CleanupIdleSocketsGood ==
    ASSUME PoolAssumption, NEW p, Good(p), NEW S \in SUBSET AllIdle(p)
    PROVE  LET q == CleanupIdleSockets(p, S)
           IN  Good(q) /\ Total(q) <= Total(p)
<1> DEFINE r == DeleteIdle(p, S)
           gone == {g \in r.group_map_ : IsEmpty(r, g)}
           s == [r EXCEPT !.group_map_ = @ \ gone, !.backup_job = @ \ gone,
                          !.backup_task = @ \ gone]
<1>1. Good(r) /\ Total(r) <= Total(p)
  <2>1. Total(p) \in Int BY FieldTypes DEF Good
  <2> QED BY <2>1, DeleteIdleGood
<1>2. Good(s) /\ Total(s) = Total(r)
  <2> HIDE DEF r, gone
  <2> QED BY <1>1, DropGroupsGood
<1>3. CleanupIdleSockets(p, S) \in {p, s} BY DEF CleanupIdleSockets
<1>4. Total(p) <= Total(p) BY FieldTypes DEF Good
<1> HIDE DEF s, r
<1> QED BY <1>1, <1>2, <1>3, <1>4

LEMMA CancelAllConnectJobsGood ==
    ASSUME PoolAssumption, NEW p, Good(p)
    PROVE  LET q == CancelAllConnectJobs(p)
           IN  Good(q) /\ Total(q) <= Total(p)
<1> DEFINE n == p.connecting_socket_count_ - Cardinality(AllJobs(p))
           f == [c \in Conns |-> IF c \in AllJobs(p) THEN Free ELSE p.conn[c]]
           q == [p EXCEPT !.connecting_socket_count_ = n, !.conn = f,
                          !.backup_task = {}]
           gone == {g \in q.group_map_ : IsEmpty(q, g)}
           r == [q EXCEPT !.group_map_ = @ \ gone, !.backup_job = @ \ gone]
<1>1. p \in IntPoolType BY DEF Good
<1>2. Cardinality(AllJobs(p)) \in Nat /\ n = 0 /\ n <= p.connecting_socket_count_
  BY <1>1, ConnSets, FieldTypes DEF AllJobs, Good, Exact
<1>3. f \in [Conns -> ConnType]
  <2>1. Free \in ConnType BY DEF ConnType
  <2> QED BY <1>1, <2>1, FieldTypes
<1>4. q \in IntPoolType
  <2>1. n \in Int BY <1>2
  <2> HIDE DEF n, f
  <2> QED BY <1>1, <1>3, <2>1 DEF IntPoolType
<1>5. /\ q.conn = f
      /\ q.handle = p.handle
      /\ q.handed_out_socket_count_ = p.handed_out_socket_count_
      /\ q.active_socket_count = p.active_socket_count
      /\ q.idle_socket_count_ = p.idle_socket_count_
      /\ q.connecting_socket_count_ = n
  <2> HIDE DEF n, f
  <2> QED BY <1>1 DEF IntPoolType
<1>6. Exact(q)
  <2>1. /\ AllActive(q) = AllActive(p) /\ AllIdle(q) = AllIdle(p)
        /\ \A k \in Groups : ActiveSockets(q, k) = ActiveSockets(p, k)
        /\ AllJobs(q) = {}
    <3> HIDE DEF q
    <3> QED BY <1>1, <1>5, FieldTypes
            DEF AllActive, AllIdle, AllJobs, ActiveSockets, Free
  <2>2. Cardinality(AllJobs(q)) = 0 BY <2>1, FS_EmptySet
  <2> HIDE DEF q, n
  <2> QED BY <1>2, <1>5, <2>1, <2>2 DEF Good, Exact
<1>7. Owned(q)
  <2>1. \A c \in Conns : p.conn[c].st = "active" => f[c] = p.conn[c]
    BY DEF AllJobs
  <2>2. \A h \in Handles : p.handle[h].st = "active" => p.handle[h].conn \in Conns
    BY <1>1, FieldTypes DEF HandleType, None
  <2> HIDE DEF q, f
  <2> QED BY <1>1, <1>5, <2>1, <2>2, FieldTypes DEF Good, Owned
<1>8. Good(q) /\ Total(q) <= Total(p)
  <2> HIDE DEF q, n
  <2> QED BY <1>1, <1>2, <1>4, <1>5, <1>6, <1>7, FieldTypes DEF Good, Total
<1>9. Good(r) /\ Total(r) = Total(q)
  <2> HIDE DEF q, gone
  <2> QED BY <1>8, DropGroupsGood
<1>10. CancelAllConnectJobs(p) = r BY DEF CancelAllConnectJobs
<1> HIDE DEF q, r
<1> QED BY <1>8, <1>9, <1>10

LEMMA StartJobGood ==
    ASSUME PoolAssumption, NEW p, Good(p), NEW c \in Conns, p.conn[c] = Free,
           NEW g \in Groups
    PROVE  LET q == StartJob(p, c, g)
           IN  /\ Good(q) /\ Total(q) = Total(p) + 1
               /\ q.conn[c].st = "connecting" /\ q.conn[c].group = g
               /\ q.conn[c].gen \in Nat
               /\ q.pending_requests = p.pending_requests
<1> DEFINE n == p.connecting_socket_count_ + 1
           cv == [st |-> "connecting", group |-> g, gen |-> p.pool_generation_number_]
           q == StartJob(p, c, g)
<1>1. p \in IntPoolType BY DEF Good
<1>2. n \in Int BY <1>1, FieldTypes
<1>3. cv \in ConnType /\ cv.gen \in Nat BY <1>1, FieldTypes DEF ConnType
<1>4. q = [p EXCEPT !.connecting_socket_count_ = n, !.conn[c] = cv] BY DEF StartJob
<1>5. q \in IntPoolType
  <2> HIDE DEF n, cv, q
  <2> QED BY <1>1, <1>2, <1>3, <1>4 DEF IntPoolType
<1>6. /\ q.conn = [p.conn EXCEPT ![c] = cv]
      /\ q.handle = p.handle
      /\ q.handed_out_socket_count_ = p.handed_out_socket_count_
      /\ q.active_socket_count = p.active_socket_count
      /\ q.idle_socket_count_ = p.idle_socket_count_
      /\ q.connecting_socket_count_ = n
      /\ q.pending_requests = p.pending_requests
  <2> HIDE DEF n, cv, q
  <2> QED BY <1>1, <1>4 DEF IntPoolType
<1>7. Exact(q)
  <2> HIDE DEF q
  <2>1. /\ AllActive(q) = AllActive(p) /\ AllIdle(q) = AllIdle(p)
        /\ \A k \in Groups : ActiveSockets(q, k) = ActiveSockets(p, k)
    BY <1>1, <1>6, FieldTypes DEF AllActive, AllIdle, ActiveSockets, Free
  <2>2. /\ AllJobs(q) \ {c} = AllJobs(p) \ {c}
        /\ c \in AllJobs(q) /\ c \notin AllJobs(p)
    BY <1>1, <1>6, FieldTypes DEF AllJobs, Free
  <2>3. Cardinality(AllJobs(q)) = Cardinality(AllJobs(p)) + 1
    BY <2>2, CardUpdate, ConnSets DEF AllJobs
  <2> QED BY <1>6, <2>1, <2>3 DEF Good, Exact
<1>8. Owned(q)
  <2> HIDE DEF q
  <2> QED BY <1>1, <1>6, FieldTypes DEF Good, Owned, HandleType, Free
<1>9. /\ Good(q) /\ Total(q) = Total(p) + 1
      /\ q.conn[c].st = "connecting" /\ q.conn[c].group = g /\ q.conn[c].gen \in Nat
  <2> HIDE DEF q
  <2> QED BY <1>1, <1>3, <1>5, <1>6, <1>7, <1>8, FieldTypes DEF Good, Total
<1> QED BY <1>6, <1>9

\* A request that finds room under the limit keeps the pool under the limit,
\* whatever Connect returns.
LEMMA ConnectForRequestGood ==
    ASSUME PoolAssumption, NEW p, Good(p), Total(p) < max_sockets_,
           NEW g \in Groups, NEW h \in Handles, NEW r \in ConnectForRequest(p, g, h)
    PROVE  Good(r.pool) /\ Total(r.pool) <= max_sockets_
<1> DEFINE gen == p.pool_generation_number_
           b == StartBackupSocketTimer([p EXCEPT !.backup_job = @ \cup {g}], g)
           w == IF /\ IsEmpty(p, g) /\ g \notin p.backup_job
                   /\ backup_jobs_enabled_
                THEN b ELSE p
           free == {c \in Conns : p.conn[c] = Free}
<1>1. gen \in Nat /\ Total(p) \in Int /\ max_sockets_ \in Int
  BY FieldTypes DEF Good, PoolAssumption
<1>2. Good(b) /\ Total(b) = Total(p) /\ b.conn = p.conn
  <2> DEFINE a == [p EXCEPT !.backup_job = @ \cup {g}]
  <2>1. p.backup_job \cup {g} \in SUBSET Groups BY FieldTypes DEF Good
  <2>2. Good(a) /\ Total(a) = Total(p) /\ a.conn = p.conn
    BY <2>1, PutGroupsGood
  <2>3. b = [a EXCEPT !.backup_task = @ \cup {g}] BY DEF StartBackupSocketTimer
  <2> HIDE DEF a, b
  <2>4. a.backup_task \cup {g} \in SUBSET Groups BY <2>2, FieldTypes DEF Good
  <2> QED BY <2>2, <2>3, <2>4, PutGroupsGood
<1>3. Good(w) /\ Total(w) = Total(p) /\ w.conn = p.conn
  <2> HIDE DEF b
  <2> QED BY <1>2
<1> DEFINE Outcome(rv) ==
              CASE rv \in {"OK", "ERR_SOCKET"} ->
                     {[rv |-> rv, pool |-> HandOutSocket(p, c, gen, g, h)] : c \in free}
               [] rv = "ERR_IO_PENDING" ->
                     {[rv |-> rv, pool |-> StartJob(w, c, g)] : c \in free}
               [] rv = "ERR" -> {[rv |-> rv, pool |-> EraseIfEmpty(p, g)]}
<1>4. PICK rv \in ConnectResults : r \in Outcome(rv)
  <2>1. r \in UNION {Outcome(rv) : rv \in ConnectResults} BY DEF ConnectForRequest
  <2> HIDE DEF Outcome
  <2> QED BY <2>1
<1> HIDE DEF w, gen, b
<1>5. \/ \E c \in free : r.pool = HandOutSocket(p, c, gen, g, h)
      \/ \E c \in free : r.pool = StartJob(w, c, g)
      \/ r.pool = EraseIfEmpty(p, g)
  <2>1. rv \in {"OK", "ERR_SOCKET", "ERR_IO_PENDING", "ERR"} BY DEF PoolAssumption
  <2> HIDE DEF free
  <2> QED BY <1>4, <2>1
<1>6. ASSUME NEW c \in free, r.pool = HandOutSocket(p, c, gen, g, h)
      PROVE  Good(r.pool) /\ Total(r.pool) <= max_sockets_
  BY <1>1, <1>6, HandOutGood
<1>7. ASSUME NEW c \in free, r.pool = StartJob(w, c, g)
      PROVE  Good(r.pool) /\ Total(r.pool) <= max_sockets_
  BY <1>1, <1>3, <1>7, StartJobGood
<1>8. ASSUME r.pool = EraseIfEmpty(p, g)
      PROVE  Good(r.pool) /\ Total(r.pool) <= max_sockets_
  BY <1>1, <1>8, EraseIfEmptyGood
<1> QED BY <1>5, <1>6, <1>7, <1>8

LEMMA AssignIdleGood ==
    ASSUME PoolAssumption, NEW p, Good(p), NEW g \in Groups, NEW h \in Handles,
           NEW q \in AssignIdleSocketToGroup(p, g, h)
    PROVE  Good(q) /\ Total(q) <= Total(p)
<1>1. PICK c \in IdleSockets(p, g) : \E dead \in SUBSET (IdleSockets(p, g) \ {c}) :
        q = HandOutSocket(DeleteIdle(p, dead \cup {c}), c, p.conn[c].gen, g, h)
  BY DEF AssignIdleSocketToGroup
<1>2. PICK dead \in SUBSET (IdleSockets(p, g) \ {c}) :
        q = HandOutSocket(DeleteIdle(p, dead \cup {c}), c, p.conn[c].gen, g, h)
  BY <1>1
<1> DEFINE S == dead \cup {c}
           r == DeleteIdle(p, S)
           gen == p.conn[c].gen
<1>3. S \in SUBSET AllIdle(p) /\ c \in S /\ c \in Conns
  BY DEF AllIdle, IdleSockets
<1>4. gen \in Nat
  BY FieldTypes DEF Good, ConnType, Free, IdleSockets
<1>5. Cardinality(S) \in Nat /\ Cardinality(S) # 0
  <2>1. S \in SUBSET Conns /\ S # {} BY <1>3 DEF AllIdle
  <2> HIDE DEF S
  <2> QED BY <2>1, ConnSets, FS_EmptySet
<1>6. Good(r) /\ Total(r) = Total(p) - Cardinality(S) /\ r.conn[c] = Free
  <2> HIDE DEF S
  <2> QED BY <1>3, DeleteIdleGood
<1>7. Total(p) \in Int BY FieldTypes DEF Good
<1> HIDE DEF r, S, gen
<1>8. q = HandOutSocket(r, c, gen, g, h) BY <1>2 DEF r, S, gen
<1>9. Good(q) /\ Total(q) = Total(r) + 1 BY <1>3, <1>4, <1>6, <1>8, HandOutGood
<1> QED BY <1>5, <1>6, <1>7, <1>9

LEMMA RequestSocketInternalGood ==
    ASSUME PoolAssumption, NEW p0, Good(p0), Total(p0) <= max_sockets_,
           NEW g \in Groups, NEW h \in Handles,
           NEW x \in RequestSocketInternal(p0, g, h)
    PROVE  Good(x.pool) /\ Total(x.pool) <= max_sockets_
<1> DEFINE p == [p0 EXCEPT !.group_map_ = @ \cup {g}]
           q == DeleteIdle(p, IdleSockets(p, g))
           stall == {[rv |-> "ERR_IO_PENDING", pool |-> q]}
           assigned == {[rv |-> "OK", pool |-> r] : r \in AssignIdleSocketToGroup(p, g, h)}
           closed == UNION {ConnectForRequest(r, g, h) : r \in CloseOneIdleSocket(q)}
<1>1. Good(p) /\ Total(p) = Total(p0)
  <2>1. p0.group_map_ \cup {g} \in SUBSET Groups BY FieldTypes DEF Good
  <2> QED BY <2>1, PutGroupsGood
<1>2. Total(p) \in Int /\ max_sockets_ \in Int
  BY <1>1, FieldTypes DEF Good, PoolAssumption
<1>3. Good(q) /\ Total(q) <= Total(p) /\ Total(q) \in Int
  <2> HIDE DEF p
  <2>1. IdleSockets(p, g) \in SUBSET AllIdle(p) BY DEF IdleSockets, AllIdle
  <2> QED BY <1>1, <1>2, <2>1, DeleteIdleGood
<1>4. \/ x \in assigned
      \/ x \in stall
      \/ ~ReachedMaxSocketsLimit(q) /\ x \in ConnectForRequest(q, g, h)
      \/ x \in closed
  <2>1. x \in assigned \cup
             (IF ~HasAvailableSocketSlot(q, g) THEN stall
              ELSE IF ~ReachedMaxSocketsLimit(q) THEN ConnectForRequest(q, g, h)
              ELSE IF q.idle_socket_count_ > 0 THEN closed
              ELSE stall)
    BY DEF RequestSocketInternal
  <2> HIDE DEF assigned, stall, closed, q
  <2> QED BY <2>1
<1> HIDE DEF p, q
<1>5. CASE x \in assigned
  <2>1. PICK r \in AssignIdleSocketToGroup(p, g, h) : x.pool = r BY <1>5
  <2>2. Good(r) /\ Total(r) <= Total(p) BY <1>1, AssignIdleGood
  <2>3. Total(r) \in Int BY <2>2, FieldTypes DEF Good
  <2> QED BY <1>1, <1>2, <2>1, <2>2, <2>3
<1>6. CASE x \in stall BY <1>1, <1>2, <1>3, <1>6
<1>7. CASE ~ReachedMaxSocketsLimit(q) /\ x \in ConnectForRequest(q, g, h)
  <2>1. Total(q) < max_sockets_ BY <1>2, <1>3, <1>7 DEF ReachedMaxSocketsLimit
  <2> QED BY <1>3, <1>7, <2>1, ConnectForRequestGood
<1>8. CASE x \in closed
  <2>1. PICK r \in CloseOneIdleSocket(q) : x \in ConnectForRequest(r, g, h) BY <1>8
  <2>2. Good(r) /\ Total(r) = Total(q) - 1 BY <1>3, CloseOneIdleSocketGood
  <2>3. Total(r) < max_sockets_ BY <1>1, <1>2, <1>3, <2>2
  <2> QED BY <2>1, <2>2, <2>3, ConnectForRequestGood
<1> QED BY <1>4, <1>5, <1>6, <1>7, <1>8

LEMMA RemoveFirstRequestGood ==
    ASSUME NEW p, Good(p), NEW g \in Groups
    PROVE  LET q == RemoveRequestFromQueue(p, g, 1)
           IN  /\ Good(q) /\ Total(q) = Total(p) /\ q.conn = p.conn
               /\ q.pool_generation_number_ = p.pool_generation_number_
<1>1. p.pending_requests[g] \in Seq(Handles) BY FieldTypes DEF Good
<1>2. 1 \in 1..(Len(p.pending_requests[g]) + 1) BY <1>1, LenProperties
<1> QED BY <1>2, RemoveRequestGood

LEMMA PutQueueGood ==
    ASSUME NEW p, Good(p), NEW g \in Groups, NEW s \in Seq(Handles)
    PROVE  LET q == [p EXCEPT !.pending_requests[g] = s]
           IN  Good(q) /\ Total(q) = Total(p)
<1>1. p \in IntPoolType BY DEF Good
<1> QED BY <1>1, SameCore DEF IntPoolType

LEMMA PopTaskGood ==
    ASSUME NEW p, Good(p), p.tasks # <<>>
    PROVE  LET q == [p EXCEPT !.tasks = Tail(@)]
           IN  /\ Good(q) /\ Total(q) = Total(p)
               /\ Head(p.tasks) \in TaskType
<1>1. p \in IntPoolType BY DEF Good
<1>2. p.tasks \in Seq(TaskType) BY <1>1, FieldTypes
<1>3. Tail(p.tasks) \in Seq(TaskType) /\ Head(p.tasks) \in TaskType
  BY <1>2, HeadTailProperties
<1> DEFINE s == Tail(p.tasks)
<1>4. Good([p EXCEPT !.tasks = s]) /\ Total([p EXCEPT !.tasks = s]) = Total(p)
  <2> HIDE DEF s
  <2>1. s \in Seq(TaskType) BY <1>3 DEF s
  <2> QED BY <1>1, <2>1, SameCore DEF IntPoolType
<1> QED BY <1>3, <1>4

\* A handle gives back the socket that, by Owned, it holds alone.
LEMMA TakeBackGood ==
    ASSUME PoolAssumption, NEW p, Good(p), NEW h \in Handles,
           p.handle[h].st = "active"
    PROVE  LET hd == p.handle[h]
               q == [p EXCEPT !.handed_out_socket_count_ = @ - 1,
                              !.active_socket_count[hd.group] = @ - 1,
                              !.conn[hd.conn] = Free,
                              !.handle[h] = None]
           IN  /\ Good(q) /\ Total(q) = Total(p) - 1
               /\ hd.conn \in Conns /\ hd.group \in Groups
               /\ q.conn[hd.conn] = Free /\ p.conn[hd.conn].gen \in Nat
<1> DEFINE hd == p.handle[h]
           c == hd.conn
           g == hd.group
           n == p.handed_out_socket_count_ - 1
           m == p.active_socket_count[g] - 1
           q == [p EXCEPT !.handed_out_socket_count_ = n,
                          !.active_socket_count[g] = m,
                          !.conn[c] = Free, !.handle[h] = None]
<1>1. p \in IntPoolType BY DEF Good
<1>2. c \in Conns /\ g \in Groups
  BY <1>1, FieldTypes DEF HandleType, None
<1>3. n \in Int /\ m \in Int
  <2>1. p.active_socket_count[g] \in Int /\ p.handed_out_socket_count_ \in Int
    BY <1>1, <1>2, FieldTypes
  <2> HIDE DEF g
  <2> QED BY <2>1
<1>4. Free \in ConnType /\ None \in HandleType BY DEF ConnType, HandleType
<1>5. /\ q \in IntPoolType
      /\ q.conn = [p.conn EXCEPT ![c] = Free]
      /\ q.handle = [p.handle EXCEPT ![h] = None]
      /\ q.handed_out_socket_count_ = n
      /\ q.active_socket_count = [p.active_socket_count EXCEPT ![g] = m]
      /\ q.idle_socket_count_ = p.idle_socket_count_
      /\ q.connecting_socket_count_ = p.connecting_socket_count_
  <2> HIDE DEF n, m, c, g
  <2> QED BY <1>1, <1>2, <1>3, <1>4 DEF IntPoolType
<1>6. p.conn[c].st = "active" /\ p.conn[c].group = g BY DEF Good, Owned
<1>7. p.conn[c].gen \in Nat
  <2> HIDE DEF c
  <2> QED BY <1>1, <1>2, <1>6, FieldTypes DEF ConnType, Free
<1>8. Exact(q)
  <2> HIDE DEF q, c, g
  <2>1. AllIdle(q) = AllIdle(p) /\ AllJobs(q) = AllJobs(p)
    BY <1>1, <1>2, <1>5, <1>6, FieldTypes DEF AllIdle, AllJobs, Free
  <2>2. /\ AllActive(q) \ {c} = AllActive(p) \ {c}
        /\ c \notin AllActive(q) /\ c \in AllActive(p)
    BY <1>1, <1>2, <1>5, <1>6, FieldTypes DEF AllActive, Free
  <2>3. Cardinality(AllActive(q)) = Cardinality(AllActive(p)) - 1
    BY <2>2, CardUpdate, ConnSets DEF AllActive
  <2>4. /\ ActiveSockets(q, g) \ {c} = ActiveSockets(p, g) \ {c}
        /\ c \notin ActiveSockets(q, g) /\ c \in ActiveSockets(p, g)
    BY <1>1, <1>2, <1>5, <1>6, FieldTypes DEF ActiveSockets, Free
  <2>5. Cardinality(ActiveSockets(q, g)) = Cardinality(ActiveSockets(p, g)) - 1
    BY <2>4, CardUpdate, ConnSets DEF ActiveSockets
  <2>6. ASSUME NEW k \in Groups, k # g PROVE ActiveSockets(q, k) = ActiveSockets(p, k)
    BY <1>1, <1>2, <1>5, <1>6, <2>6, FieldTypes DEF ActiveSockets, Free
  <2>7. \A k \in Groups : q.active_socket_count[k] = Cardinality(ActiveSockets(q, k))
    BY <1>1, <1>2, <1>5, <2>5, <2>6, FieldTypes DEF Good, Exact
  <2> QED BY <1>5, <2>1, <2>3, <2>7 DEF Good, Exact
<1>9. Owned(q)
  <2>1. \A k \in Handles : k # h /\ p.handle[k].st = "active" =>
          p.handle[k].conn \in Conns /\ p.handle[k].conn # c
    BY <1>1, FieldTypes DEF Good, Owned, HandleType, None
  <2> HIDE DEF q, c
  <2> QED BY <1>1, <1>2, <1>5, <2>1, FieldTypes DEF Good, Owned, None
<1>10. Total(q) = Total(p) - 1 /\ q.conn[c] = Free
  <2> HIDE DEF q, c
  <2> QED BY <1>1, <1>2, <1>5, FieldTypes DEF Total
<1> QED BY <1>2, <1>5, <1>7, <1>8, <1>9, <1>10 DEF Good

-----------------------------------------------------------------------------
(* The actions.                                                            *)

Safe(p) == Good(p) /\ Total(p) <= max_sockets_

IInv ==
    /\ Safe(pool)
    /\ frame \in FrameType
    /\ stale \in {"no", "read", "erased"}

LEMMA TotalType ==
    ASSUME PoolAssumption, NEW p, Good(p)
    PROVE  Total(p) \in Int /\ max_sockets_ \in Int
BY FieldTypes DEF Good, PoolAssumption

LEMMA KeepFrameType ==
    ASSUME frame \in FrameType, KeepFrame
    PROVE  frame' \in FrameType
<1>1. CASE frame.kind = "process"
  <2>1. frame \in [kind : {"process"}, group : Groups, valid : BOOLEAN,
                   was_at_socket_limit : BOOLEAN]
    BY <1>1 DEF FrameType, NoFrame
  <2> DEFINE v == frame.valid /\ frame.group \in pool'.group_map_
  <2>2. v \in BOOLEAN OBVIOUS
  <2>3. frame' = [frame EXCEPT !.valid = v] BY <1>1 DEF KeepFrame
  <2> HIDE DEF v
  <2>4. frame' \in [kind : {"process"}, group : Groups, valid : BOOLEAN,
                    was_at_socket_limit : BOOLEAN]
    BY <2>1, <2>2, <2>3
  <2> QED BY <2>4 DEF FrameType
<1>2. CASE frame.kind # "process" BY <1>2 DEF KeepFrame
<1> QED BY <1>1, <1>2

LEMMA StalledSafe ==
    ASSUME PoolAssumption, NEW p, Safe(p), NEW q \in CheckForStalledSocketGroups(p)
    PROVE  Safe(q)
<1>1. Good(q) /\ Total(q) <= Total(p) BY CheckForStalledGood DEF Safe
<1> QED BY <1>1, TotalType DEF Safe

LEMMA RequestSocketStep ==
    ASSUME PoolAssumption, IInv, NEW h \in Handles, NEW g \in Groups,
           NEW pri \in Priorities, RequestSocket(h, g, pri)
    PROVE  IInv'
<1>1. frame' \in FrameType /\ stale' \in {"no", "read", "erased"}
  BY KeepFrameType DEF IInv, RequestSocket
<1> DEFINE v == [st |-> "pending", group |-> g, priority |-> pri]
           Q(r) == [r.pool EXCEPT !.handle[h] = v]
<1>2. PICK r \in RequestSocketInternal(pool, g, h) :
        IF r.rv = "ERR_IO_PENDING"
        THEN \E queue \in InsertRequestIntoQueue(Q(r), Q(r).pending_requests[g], h) :
                pool' = [Q(r) EXCEPT !.pending_requests[g] = queue]
        ELSE pool' = r.pool
  BY DEF RequestSocket
<1>3. Safe(r.pool) BY RequestSocketInternalGood DEF IInv, Safe
<1>4. v \in HandleType /\ v.st # "active" BY DEF HandleType
<1> DEFINE q == Q(r)
<1>5. Good(q) /\ Total(q) = Total(r.pool)
  <2> HIDE DEF v
  <2> QED BY <1>3, <1>4, SetHandleGood DEF Safe
<1>6. ASSUME NEW queue \in InsertRequestIntoQueue(q, q.pending_requests[g], h)
      PROVE  Safe([q EXCEPT !.pending_requests[g] = queue])
  <2> HIDE DEF q
  <2> DEFINE s == q.pending_requests[g]
  <2>1. s \in Seq(Handles) BY <1>5, FieldTypes DEF Good
  <2>2. PICK k \in 0..Len(s) :
          queue = SubSeq(s, 1, k) \o <<h>> \o SubSeq(s, k + 1, Len(s))
    BY DEF InsertRequestIntoQueue
  <2>3. queue \in Seq(Handles)
    <3> HIDE DEF s
    <3> QED BY <2>1, <2>2, SeqInsert
  <2> QED BY <1>3, <1>5, <2>3, PutQueueGood DEF Safe
<1>7. Safe(pool')
  <2> HIDE DEF Q
  <2> QED BY <1>2, <1>3, <1>6
<1> QED BY <1>1, <1>7 DEF IInv

LEMMA CancelRequestStep ==
    ASSUME PoolAssumption, IInv, NEW h \in Handles, CancelRequest(h)
    PROVE  IInv'
<1>1. frame' \in FrameType /\ stale' \in {"no", "read", "erased"}
  BY KeepFrameType DEF IInv, CancelRequest
<1> DEFINE g == pool.handle[h].group
           Q(i) == [RemoveRequestFromQueue(pool, g, i) EXCEPT !.handle[h] = None]
<1>2. PICK i \in 1..Len(pool.pending_requests[g]) :
        IF Jobs(Q(i), g) # {} /\ ReachedMaxSocketsLimit(Q(i))
        THEN \E c \in Jobs(Q(i), g) :
                pool' \in CheckForStalledSocketGroups(RemoveConnectJob(Q(i), c))
        ELSE pool' = Q(i)
  BY DEF CancelRequest
<1>3. g \in Groups
  BY FieldTypes DEF CancelRequest, IInv, Safe, Good, HandleType, None
<1>4. i \in 1..(Len(pool.pending_requests[g]) + 1)
  <2>1. pool.pending_requests[g] \in Seq(Handles)
    BY <1>3, FieldTypes DEF IInv, Safe, Good
  <2>2. Len(pool.pending_requests[g]) \in Nat BY <2>1, LenProperties
  <2> HIDE DEF g
  <2> QED BY <2>2
<1> DEFINE r == RemoveRequestFromQueue(pool, g, i)
           q == Q(i)
<1>5. Good(r) /\ Total(r) = Total(pool)
  <2> HIDE DEF g
  <2> QED BY <1>3, <1>4, RemoveRequestGood DEF IInv, Safe
<1>6. None \in HandleType /\ None.st # "active" BY DEF HandleType, None
<1>7. Safe(q)
  <2>1. q = [r EXCEPT !.handle[h] = None] OBVIOUS
  <2> HIDE DEF r, q
  <2> QED BY <1>5, <1>6, <2>1, SetHandleGood DEF IInv, Safe
<1>8. ASSUME NEW c \in Jobs(q, g) PROVE Safe(RemoveConnectJob(q, c))
  <2> HIDE DEF q, g
  <2>1. c \in Conns /\ q.conn[c].st = "connecting" BY DEF Jobs
  <2>2. /\ Good(RemoveConnectJob(q, c))
        /\ Total(RemoveConnectJob(q, c)) = Total(q) - 1
    BY <1>7, <2>1, RemoveConnectJobGood DEF Safe
  <2> QED BY <1>7, <2>2, TotalType DEF Safe
<1>9. Safe(pool')
  <2> HIDE DEF Q, g
  <2> QED BY <1>2, <1>7, <1>8, StalledSafe
<1> QED BY <1>1, <1>9 DEF IInv

LEMMA ReleaseSocketStep ==
    ASSUME PoolAssumption, IInv, NEW h \in Handles, NEW reusable \in BOOLEAN,
           ReleaseSocket(h, reusable)
    PROVE  IInv'
<1>1. frame' \in FrameType /\ stale' \in {"no", "read", "erased"}
  BY KeepFrameType DEF IInv, ReleaseSocket
<1> DEFINE hd == pool.handle[h]
           gen == pool.conn[hd.conn].gen
           q == [pool EXCEPT !.handed_out_socket_count_ = @ - 1,
                             !.active_socket_count[hd.group] = @ - 1,
                             !.conn[hd.conn] = Free,
                             !.handle[h] = None]
           a == AddIdleSocket(q, hd.conn, gen, hd.group)
           w == OnAvailableSocketSlot(a, hd.group, MayHaveStalledGroups(a))
<1>2. pool' \in CheckForStalledSocketGroups(q) \/ pool' \in CheckForStalledSocketGroups(w)
  BY DEF ReleaseSocket
<1>3. /\ Good(q) /\ Total(q) = Total(pool) - 1
      /\ hd.conn \in Conns /\ hd.group \in Groups
      /\ q.conn[hd.conn] = Free /\ gen \in Nat
  BY TakeBackGood DEF ReleaseSocket, IInv, Safe
<1>4. Total(pool) \in Int /\ max_sockets_ \in Int /\ Total(pool) <= max_sockets_
  BY TotalType DEF IInv, Safe
<1>5. Safe(q)
  <2> HIDE DEF q
  <2> QED BY <1>3, <1>4 DEF Safe
<1>6. Safe(w)
  <2>1. Good(a) /\ Total(a) = Total(q) + 1
    <3> HIDE DEF q, hd, gen
    <3> QED BY <1>3, AddIdleGood
  <2>2. MayHaveStalledGroups(a) \in BOOLEAN BY DEF MayHaveStalledGroups
  <2>3. Good(w) /\ Total(w) = Total(a)
    <3> HIDE DEF a, hd
    <3> QED BY <1>3, <2>1, <2>2, OnAvailableSocketSlotGood
  <2> HIDE DEF w, a, q
  <2> QED BY <1>3, <1>4, <2>1, <2>3 DEF Safe
<1>7. Safe(pool')
  <2> HIDE DEF q, w
  <2> QED BY <1>2, <1>5, <1>6, StalledSafe
<1> QED BY <1>1, <1>7 DEF IInv

LEMMA CompleteJobSafe ==
    ASSUME PoolAssumption, NEW p, Safe(p), NEW c \in Conns,
           p.conn[c].st = "connecting", NEW result,
           frame \in FrameType, CompleteJob(p, c, result)
    PROVE  Safe(pool') /\ frame' \in FrameType
<1> DEFINE g == p.conn[c].group
           gen == p.conn[c].gen
           h == Head(p.pending_requests[g])
           q == RemoveConnectJob(p, c)
           r == RemoveRequestFromQueue(q, g, 1)
           a == AddIdleSocket(q, c, gen, g)
<1>1. g \in Groups /\ gen \in Nat
  BY FieldTypes DEF Safe, Good, ConnType, Free
<1>2. Total(p) \in Int /\ max_sockets_ \in Int /\ Total(p) <= max_sockets_
  BY TotalType DEF Safe
<1>3. Good(q) /\ Total(q) = Total(p) - 1 /\ q.conn[c] = Free
  BY RemoveConnectJobGood DEF Safe
<1>4. Good(r) /\ Total(r) = Total(p) - 1 /\ r.conn[c] = Free
  <2> HIDE DEF q, g
  <2> QED BY <1>1, <1>3, RemoveFirstRequestGood
<1>5. ASSUME p.pending_requests[g] # <<>> PROVE h \in Handles
  <2>1. p.pending_requests[g] \in Seq(Handles) BY <1>1, FieldTypes DEF Safe, Good
  <2> QED BY <1>5, <2>1, HeadTailProperties
<1>6. \/ /\ p.pending_requests[g] # <<>>
         /\ pool' = HandOutSocket(r, c, gen, g, h) /\ UNCHANGED frame
      \/ /\ p.pending_requests[g] # <<>>
         /\ pool' = [r EXCEPT !.handle[h] = None]
         /\ frame' = [kind |-> "connect", group |-> g]
      \/ /\ pool' = OnAvailableSocketSlot(a, g, MayHaveStalledGroups(a))
         /\ UNCHANGED frame
      \/ /\ pool' = OnAvailableSocketSlot(q, g, MayHaveStalledGroups(q))
         /\ UNCHANGED frame
  BY DEF CompleteJob
<1> HIDE DEF g, gen, h, q, r, a
<1>7. CASE /\ p.pending_requests[g] # <<>>
           /\ pool' = HandOutSocket(r, c, gen, g, h) /\ UNCHANGED frame
  <2>1. h \in Handles BY <1>5, <1>7
  <2>2. Good(pool') /\ Total(pool') = Total(r) + 1
    BY <1>1, <1>4, <1>7, <2>1, HandOutGood
  <2>3. Total(pool') <= max_sockets_ BY <1>2, <1>4, <2>2
  <2> QED BY <1>7, <2>2, <2>3 DEF Safe
<1>8. CASE /\ p.pending_requests[g] # <<>>
           /\ pool' = [r EXCEPT !.handle[h] = None]
           /\ frame' = [kind |-> "connect", group |-> g]
  <2>1. None \in HandleType /\ None.st # "active" BY DEF HandleType, None
  <2>2. Safe(pool') BY <1>2, <1>4, <1>5, <1>8, <2>1, SetHandleGood DEF Safe
  <2>3. frame' \in FrameType BY <1>1, <1>8 DEF FrameType
  <2> QED BY <2>2, <2>3
<1>9. CASE /\ pool' = OnAvailableSocketSlot(a, g, MayHaveStalledGroups(a))
           /\ UNCHANGED frame
  <2>1. Good(a) /\ Total(a) = Total(q) + 1 BY <1>1, <1>3, AddIdleGood DEF a
  <2>2. MayHaveStalledGroups(a) \in BOOLEAN BY DEF MayHaveStalledGroups
  <2>3. Good(pool') /\ Total(pool') = Total(a)
    BY <1>1, <1>9, <2>1, <2>2, OnAvailableSocketSlotGood
  <2> QED BY <1>2, <1>3, <1>9, <2>1, <2>3 DEF Safe
<1>10. CASE /\ pool' = OnAvailableSocketSlot(q, g, MayHaveStalledGroups(q))
            /\ UNCHANGED frame
  <2>1. MayHaveStalledGroups(q) \in BOOLEAN BY DEF MayHaveStalledGroups
  <2>2. Good(pool') /\ Total(pool') = Total(q)
    BY <1>1, <1>3, <1>10, <2>1, OnAvailableSocketSlotGood
  <2> QED BY <1>2, <1>3, <1>10, <2>2 DEF Safe
<1> QED BY <1>6, <1>7, <1>8, <1>9, <1>10

LEMMA OnConnectJobCompleteStep ==
    ASSUME PoolAssumption, IInv, NEW c \in Conns, NEW result,
           OnConnectJobComplete(c, result)
    PROVE  IInv'
BY CompleteJobSafe DEF IInv, OnConnectJobComplete

LEMMA OnConnectJobCompleteReturnStep ==
    ASSUME PoolAssumption, IInv, OnConnectJobCompleteReturn
    PROVE  IInv'
<1>1. frame.group \in Groups
  BY DEF IInv, OnConnectJobCompleteReturn, FrameType, NoFrame
<1>2. MayHaveStalledGroups(pool) \in BOOLEAN BY DEF MayHaveStalledGroups
<1>3. Safe(pool')
  BY <1>1, <1>2, OnAvailableSocketSlotGood DEF IInv, Safe, OnConnectJobCompleteReturn
<1>4. frame' \in FrameType /\ stale' = stale
  BY DEF OnConnectJobCompleteReturn, FrameType
<1> QED BY <1>3, <1>4 DEF IInv

LEMMA OnBackupSocketTimerFiredStep ==
    ASSUME PoolAssumption, IInv, NEW g \in Groups, NEW b \in BOOLEAN,
           OnBackupSocketTimerFired(g, b)
    PROVE  IInv'
<1> DEFINE q == [pool EXCEPT !.backup_task = @ \ {g}]
           s == [q EXCEPT !.backup_job = @ \ {g}]
<1>1. Good(q) /\ Total(q) = Total(pool) /\ q.conn = pool.conn
  <2>1. pool.backup_task \ {g} \in SUBSET Groups BY FieldTypes DEF IInv, Safe, Good
  <2> QED BY <2>1, PutGroupsGood DEF IInv, Safe
<1>2. Good(s) /\ Total(s) = Total(q) /\ s.conn = q.conn
  <2> HIDE DEF q
  <2>1. q.backup_job \ {g} \in SUBSET Groups BY <1>1, FieldTypes DEF Good
  <2> QED BY <1>1, <2>1, PutGroupsGood
<1>3. Total(pool) \in Int /\ max_sockets_ \in Int /\ Total(pool) <= max_sockets_
  BY TotalType DEF IInv, Safe
<1>4. stale' = stale BY DEF OnBackupSocketTimerFired
<1>5. \/ pool' = q /\ UNCHANGED frame
      \/ pool' = StartBackupSocketTimer(q, g) /\ UNCHANGED frame
      \/ /\ ~ReachedMaxSocketsLimit(q)
         /\ \E c \in Conns : /\ q.conn[c] = Free
                             /\ \/ pool' = StartJob(s, c, g) /\ UNCHANGED frame
                                \/ \E result : CompleteJob(StartJob(s, c, g), c, result)
  <2>1. IF Jobs(q, g) = {}
        THEN pool' = q /\ UNCHANGED frame
        ELSE IF ReachedMaxSocketsLimit(q) \/ ~HasAvailableSocketSlot(q, g) \/ b
        THEN pool' = StartBackupSocketTimer(q, g) /\ UNCHANGED frame
        ELSE \E c \in {x \in Conns : q.conn[x] = Free} :
               \/ /\ "ERR_IO_PENDING" \in ConnectResults
                  /\ pool' = StartJob(s, c, g) /\ UNCHANGED frame
               \/ \E result \in ConnectResults \ {"ERR_IO_PENDING"} :
                     CompleteJob(StartJob(s, c, g), c, result)
    BY DEF OnBackupSocketTimerFired
  <2> HIDE DEF q, s
  <2>2. CASE Jobs(q, g) = {} BY <2>1, <2>2
  <2>3. CASE /\ Jobs(q, g) # {}
             /\ ReachedMaxSocketsLimit(q) \/ ~HasAvailableSocketSlot(q, g) \/ b
    BY <2>1, <2>3
  <2>4. CASE /\ Jobs(q, g) # {}
             /\ ~(ReachedMaxSocketsLimit(q) \/ ~HasAvailableSocketSlot(q, g) \/ b)
    <3>1. PICK c \in {x \in Conns : q.conn[x] = Free} :
               \/ pool' = StartJob(s, c, g) /\ UNCHANGED frame
               \/ \E result : CompleteJob(StartJob(s, c, g), c, result)
      BY <2>1, <2>4, Zenon
    <3> QED BY <2>4, <3>1, Zenon
  <2> QED BY <2>2, <2>3, <2>4
<1> HIDE DEF q, s
<1>6. CASE pool' = q /\ UNCHANGED frame
  BY <1>1, <1>3, <1>4, <1>6 DEF IInv, Safe
<1>7. CASE pool' = StartBackupSocketTimer(q, g) /\ UNCHANGED frame
  <2>1. q.backup_task \cup {g} \in SUBSET Groups BY <1>1, FieldTypes DEF Good
  <2>2. Good(pool') /\ Total(pool') = Total(q)
    BY <1>1, <1>7, <2>1, PutGroupsGood DEF StartBackupSocketTimer
  <2> QED BY <1>1, <1>3, <1>4, <1>7, <2>2 DEF IInv, Safe
<1>8. ASSUME ~ReachedMaxSocketsLimit(q), NEW c \in Conns, q.conn[c] = Free,
             \/ pool' = StartJob(s, c, g) /\ UNCHANGED frame
             \/ \E result : CompleteJob(StartJob(s, c, g), c, result)
      PROVE  Safe(pool') /\ frame' \in FrameType
  <2> DEFINE j == StartJob(s, c, g)
  <2>1. Good(j) /\ Total(j) = Total(s) + 1 /\ j.conn[c].st = "connecting"
    BY <1>2, <1>8, StartJobGood
  <2>2. Total(q) < max_sockets_ BY <1>1, <1>3, <1>8 DEF ReachedMaxSocketsLimit
  <2> HIDE DEF j
  <2>3. Safe(j) BY <1>1, <1>2, <1>3, <2>1, <2>2 DEF Safe
  <2>4. frame \in FrameType BY DEF IInv
  <2>5. CASE pool' = j /\ UNCHANGED frame BY <2>3, <2>4, <2>5
  <2>6. CASE \E result : CompleteJob(j, c, result)
    BY <2>1, <2>3, <2>4, <2>6, CompleteJobSafe
  <2> QED BY <1>8, <2>5, <2>6 DEF j
<1> QED BY <1>4, <1>5, <1>6, <1>7, <1>8 DEF IInv

LEMMA FinishProcessingSafe ==
    ASSUME PoolAssumption, NEW p, Safe(p), NEW b, FinishProcessing(p, b)
    PROVE  Safe(pool')
BY StalledSafe DEF FinishProcessing

LEMMA ProcessPendingRequestStep ==
    ASSUME PoolAssumption, IInv, ProcessPendingRequest
    PROVE  IInv'
<1> DEFINE task == Head(pool.tasks)
           g == task.group
           b == task.was_at_socket_limit
           p == [pool EXCEPT !.tasks = Tail(@)]
           h == Head(p.pending_requests[g])
<1>1. Safe(p) /\ task \in TaskType
  BY PopTaskGood DEF IInv, Safe, ProcessPendingRequest
<1>2. g \in Groups /\ b \in BOOLEAN
  <2> HIDE DEF task
  <2> QED BY <1>1 DEF TaskType
<1>3. stale' = stale /\ frame \in FrameType /\ frame = NoFrame
  BY DEF IInv, ProcessPendingRequest
<1>4. IF g \in p.group_map_ /\ p.pending_requests[g] # <<>>
      THEN \E r \in RequestSocketInternal(p, g, h) :
             \/ /\ r.rv = "ERR_IO_PENDING"
                /\ FinishProcessing(r.pool, b)
                /\ UNCHANGED frame
             \/ /\ r.rv # "ERR_IO_PENDING"
                /\ pool' = IF r.rv = "ERR"
                           THEN [RemoveRequestFromQueue(r.pool, g, 1)
                                    EXCEPT !.handle[h] = None]
                           ELSE RemoveRequestFromQueue(r.pool, g, 1)
                /\ frame' = [kind |-> "process", group |-> g, valid |-> TRUE,
                             was_at_socket_limit |-> b]
      ELSE FinishProcessing(p, b) /\ UNCHANGED frame
  BY DEF ProcessPendingRequest
<1> HIDE DEF task, g, b, p, h
<1>5. CASE g \in p.group_map_ /\ p.pending_requests[g] # <<>>
  <2>1. h \in Handles
    <3>1. p.pending_requests[g] \in Seq(Handles)
      BY <1>1, <1>2, FieldTypes DEF Safe, Good
    <3> QED BY <1>5, <3>1, HeadTailProperties DEF h
  <2>2. PICK r \in RequestSocketInternal(p, g, h) :
             \/ FinishProcessing(r.pool, b) /\ UNCHANGED frame
             \/ /\ \/ pool' = [RemoveRequestFromQueue(r.pool, g, 1)
                                  EXCEPT !.handle[h] = None]
                   \/ pool' = RemoveRequestFromQueue(r.pool, g, 1)
                /\ frame' = [kind |-> "process", group |-> g, valid |-> TRUE,
                             was_at_socket_limit |-> b]
    BY <1>4, <1>5
  <2>3. Safe(r.pool) BY <1>1, <1>2, <2>1, RequestSocketInternalGood DEF Safe
  <2>4. CASE FinishProcessing(r.pool, b) /\ UNCHANGED frame
    BY <1>3, <2>3, <2>4, FinishProcessingSafe DEF IInv
  <2> DEFINE q == RemoveRequestFromQueue(r.pool, g, 1)
  <2>5. Safe(q) BY <1>2, <2>3, RemoveFirstRequestGood DEF Safe
  <2>6. Safe([q EXCEPT !.handle[h] = None])
    <3>1. None \in HandleType /\ None.st # "active" BY DEF HandleType, None
    <3> HIDE DEF q
    <3> QED BY <2>1, <2>5, <3>1, SetHandleGood DEF Safe
  <2>7. CASE /\ pool' \in {q, [q EXCEPT !.handle[h] = None]}
             /\ frame' = [kind |-> "process", group |-> g, valid |-> TRUE,
                          was_at_socket_limit |-> b]
    <3>1. frame' \in FrameType BY <1>2, <2>7 DEF FrameType
    <3>2. Safe(pool')
      <4> HIDE DEF q
      <4> QED BY <2>5, <2>6, <2>7
    <3> QED BY <1>3, <3>1, <3>2 DEF IInv
  <2> HIDE DEF q
  <2> QED BY <2>2, <2>4, <2>7 DEF q
<1>6. CASE ~(g \in p.group_map_ /\ p.pending_requests[g] # <<>>)
  <2>1. FinishProcessing(p, b) /\ UNCHANGED frame BY <1>4, <1>6
  <2> QED BY <1>1, <1>3, <2>1, FinishProcessingSafe DEF IInv
<1> QED BY <1>5, <1>6

LEMMA ProcessPendingRequestReturnStep ==
    ASSUME PoolAssumption, IInv, ProcessPendingRequestReturn
    PROVE  IInv'
<1>1. frame' \in FrameType BY DEF ProcessPendingRequestReturn, FrameType
<1>2. stale' \in {"no", "read", "erased"} BY DEF ProcessPendingRequestReturn, IInv
<1>3. Safe(EraseIfEmpty(pool, frame.group)) /\ Safe(EraseGroup(pool, frame.group))
  BY EraseIfEmptyGood, EraseGroupGood DEF IInv, Safe
<1>4. Safe(pool')
  BY <1>3, FinishProcessingSafe DEF IInv, ProcessPendingRequestReturn
<1> QED BY <1>1, <1>2, <1>4 DEF IInv

LEMMA CleanupSafe ==
    ASSUME PoolAssumption, NEW p, Safe(p), NEW S \in SUBSET AllIdle(p)
    PROVE  Safe(CleanupIdleSockets(p, S))
<1> DEFINE q == CleanupIdleSockets(p, S)
<1>1. Good(q) /\ Total(q) <= Total(p) BY CleanupIdleSocketsGood DEF Safe
<1> HIDE DEF q
<1>2. Safe(q) BY <1>1, TotalType DEF Safe
<1> QED BY <1>2 DEF q

LEMMA FlushStep ==
    ASSUME PoolAssumption, IInv, Flush
    PROVE  IInv'
<1> DEFINE n == pool.pool_generation_number_ + 1
           p == [pool EXCEPT !.pool_generation_number_ = n]
           q == CancelAllConnectJobs(p)
<1>1. n \in Nat
  <2>1. pool.pool_generation_number_ \in Nat BY FieldTypes DEF IInv, Safe, Good
  <2> QED BY <2>1
<1>2. Good(p) /\ Total(p) = Total(pool)
  <2>1. pool \in IntPoolType BY DEF IInv, Safe, Good
  <2> HIDE DEF n
  <2> QED BY <1>1, <2>1, SameCore DEF IInv, Safe, IntPoolType
<1>3. Good(q) /\ Total(q) <= Total(p)
  <2> HIDE DEF p
  <2> QED BY <1>2, CancelAllConnectJobsGood
<1>4. Safe(q)
  <2> HIDE DEF p, q
  <2> QED BY <1>2, <1>3, TotalType DEF IInv, Safe
<1>5. pool' = CleanupIdleSockets(q, AllIdle(q)) BY DEF Flush
<1> HIDE DEF q
<1>6. Safe(pool') BY <1>4, <1>5, CleanupSafe
<1> QED BY <1>6, KeepFrameType DEF Flush, IInv

LEMMA OnCleanupTimerFiredStep ==
    ASSUME PoolAssumption, IInv, OnCleanupTimerFired
    PROVE  IInv'
<1>1. PICK S \in SUBSET AllIdle(pool) : pool' = CleanupIdleSockets(pool, S)
  BY DEF OnCleanupTimerFired
<1>2. Safe(pool') BY <1>1, CleanupSafe DEF IInv
<1> QED BY <1>2 DEF OnCleanupTimerFired, IInv

LEMMA CloseIdleSocketsStep ==
    ASSUME PoolAssumption, IInv, CloseIdleSockets
    PROVE  IInv'
<1>1. Safe(pool') BY CleanupSafe DEF IInv, CloseIdleSockets
<1> QED BY <1>1, KeepFrameType DEF CloseIdleSockets, IInv

-----------------------------------------------------------------------------
(* The inductive invariant and what follows from it.                       *)

\* A pool that was just built is empty, and its counters are 0.
LEMMA InitIInv ==
    ASSUME PoolAssumption, Init
    PROVE  IInv
<1>1. pool \in IntPoolType
  <2>1. \A S : <<>> \in Seq(S) OBVIOUS
  <2>2. [g \in Groups |-> <<>>] \in [Groups -> Seq(Handles)] BY <2>1
  <2>3. <<>> \in Seq(TaskType) BY <2>1
  <2>4. [c \in Conns |-> Free] \in [Conns -> ConnType] BY DEF ConnType
  <2>5. [h \in Handles |-> None] \in [Handles -> HandleType] BY DEF HandleType
  <2>6. [g \in Groups |-> 0] \in [Groups -> Int] OBVIOUS
  <2> QED BY <2>2, <2>3, <2>4, <2>5, <2>6 DEF Init, IntPoolType
<1>2. \A c \in Conns : pool.conn[c].st = "free" BY DEF Init, Free
<1>3. /\ AllIdle(pool) = {} /\ AllJobs(pool) = {} /\ AllActive(pool) = {}
      /\ \A g \in Groups : ActiveSockets(pool, g) = {}
  BY <1>2 DEF AllIdle, AllJobs, AllActive, ActiveSockets
<1>4. Exact(pool) BY <1>3, FS_EmptySet DEF Init, Exact
<1>5. Owned(pool)
  <2>1. \A h \in Handles : pool.handle[h].st = "none" BY DEF Init, None
  <2> QED BY <2>1 DEF Owned
<1>6. Total(pool) = 0 BY DEF Init, Total
<1>7. Safe(pool) BY <1>1, <1>4, <1>5, <1>6 DEF Safe, Good, PoolAssumption
<1> QED BY <1>7 DEF Init, IInv, FrameType

\* Every step of the pool, its clients and the message loop keeps it.
LEMMA NextIInv ==
    ASSUME PoolAssumption, IInv, [Next]_vars
    PROVE  IInv'
<1>1. ASSUME NEW h \in Handles, NEW g \in Groups, NEW pri \in Priorities,
             RequestSocket(h, g, pri)
      PROVE  IInv'
  BY <1>1, RequestSocketStep
<1>2. ASSUME NEW h \in Handles, CancelRequest(h) PROVE IInv'
  BY <1>2, CancelRequestStep
<1>3. ASSUME NEW h \in Handles, NEW b \in BOOLEAN, ReleaseSocket(h, b)
      PROVE  IInv'
  BY <1>3, ReleaseSocketStep
<1>4. ASSUME NEW c \in Conns, NEW result \in Completions,
             OnConnectJobComplete(c, result)
      PROVE  IInv'
  BY <1>4, OnConnectJobCompleteStep
<1>5. ASSUME NEW g \in Groups, NEW b \in BOOLEAN, OnBackupSocketTimerFired(g, b)
      PROVE  IInv'
  BY <1>5, OnBackupSocketTimerFiredStep
<1>6. CASE ProcessPendingRequest BY <1>6, ProcessPendingRequestStep
<1>7. CASE OnConnectJobCompleteReturn BY <1>7, OnConnectJobCompleteReturnStep
<1>8. CASE ProcessPendingRequestReturn BY <1>8, ProcessPendingRequestReturnStep
<1>9. CASE OnCleanupTimerFired BY <1>9, OnCleanupTimerFiredStep
<1>10. CASE CloseIdleSockets BY <1>10, CloseIdleSocketsStep
<1>11. CASE Flush BY <1>11, FlushStep
<1>12. CASE UNCHANGED vars BY <1>12 DEF vars, IInv
<1>13. CASE Next
  BY <1>1, <1>2, <1>3, <1>4, <1>5, <1>6, <1>7, <1>8, <1>9, <1>10, <1>11, <1>13
     DEF Next, ClientCall, Return
<1> QED BY <1>12, <1>13

\* Every reachable state of the pool satisfies the inductive invariant.
THEOREM Inductive == Spec => []IInv
<1>1. Init => IInv BY InitIInv, PoolAssumption
<1>2. IInv /\ [Next]_vars => IInv' BY NextIInv, PoolAssumption
<1> QED BY <1>1, <1>2, PTL DEF Spec

\* The pool never holds more than max_sockets_ sockets, jobs included: the
\* DCHECK_LE of ReachedMaxSocketsLimit, whatever clients and network do.
THEOREM LimitHolds == Spec => []SocketLimit
<1>1. IInv => SocketLimit BY DEF IInv, Safe, SocketLimit
<1> QED BY <1>1, Inductive, PTL

\* idle_socket_count_, connecting_socket_count_, handed_out_socket_count_ and
\* every active_socket_count always equal the number of sockets they count.
THEOREM CountersAreExact == Spec => []CountersExact
<1>1. IInv => CountersExact BY DEF IInv, Safe, Good, Exact, CountersExact
<1> QED BY <1>1, Inductive, PTL

\* The pool's state keeps its shape and no counter goes below zero: the
\* CHECK_GTs before the decrements never fail.
THEOREM TypeCorrect == Spec => []TypeOK
<1>1. ASSUME IInv PROVE TypeOK
  <2>1. pool \in IntPoolType /\ Exact(pool) BY <1>1 DEF IInv, Safe, Good
  <2>2. /\ AllIdle(pool) \in SUBSET Conns /\ AllJobs(pool) \in SUBSET Conns
        /\ AllActive(pool) \in SUBSET Conns
        /\ \A g \in Groups : ActiveSockets(pool, g) \in SUBSET Conns
    BY DEF AllIdle, AllJobs, AllActive, ActiveSockets
  <2>3. /\ pool.idle_socket_count_ \in Nat
        /\ pool.connecting_socket_count_ \in Nat
        /\ pool.handed_out_socket_count_ \in Nat
    BY <2>1, <2>2, ConnSets, PoolAssumption DEF Exact
  <2>4. \A g \in Groups : pool.active_socket_count[g] \in Nat
    BY <2>1, <2>2, ConnSets, PoolAssumption DEF Exact
  <2>5. pool.active_socket_count \in [Groups -> Nat]
    BY <2>1, <2>4 DEF IntPoolType
  <2>6. pool \in PoolType BY <2>1, <2>3, <2>5 DEF IntPoolType, PoolType
  <2> QED BY <1>1, <2>6 DEF IInv, TypeOK
<1> QED BY <1>1, Inductive, PTL

=============================================================================
