------------------------- MODULE SocketPoolOwnership -------------------------
(***************************************************************************)
(* What the pool's members say of each other, for every number of groups,  *)
(* handles and connections: who owns a socket, in which queue a request    *)
(* waits, which groups are still in group_map_, which backup timers run,   *)
(* and which sockets may be reused after a flush.                          *)
(*                                                                         *)
(* It builds on the inductive invariant of SocketPoolProofs: a group is    *)
(* erased on the word of its active_socket_count, so that the count is     *)
(* exact is why no socket loses its group.                                 *)
(***************************************************************************)
EXTENDS SocketPoolProofs, ListLemmas

\* Jobs, sockets and queues belong to groups of the map; a backup timer that
\* runs has its backup job and a job to back up.
Homes(p) ==
    /\ \A c \in Conns : p.conn[c] # Free => p.conn[c].group \in p.group_map_
    /\ \A g \in Groups : p.pending_requests[g] # <<>> => g \in p.group_map_
    /\ \A g \in p.backup_task : g \in p.backup_job /\ Jobs(p, g) # {}

\* Every socket that is out is held by a handle, and the handle's pool_id is the
\* generation in which the connection of its socket began.
Held(p) ==
    /\ \A h \in Handles : p.handle[h].st = "active" =>
         p.conn[p.handle[h].conn].gen = p.handle[h].pool_id
    /\ \A c \in Conns : p.conn[c].st = "active" =>
         \E h \in Handles : p.handle[h].st = "active" /\ p.handle[h].conn = c

\* Jobs and idle sockets are of this generation.
Fresh(p) ==
    \A c \in Conns : p.conn[c].st \in {"idle", "connecting"} =>
        p.conn[c].gen = p.pool_generation_number_

\* The queue r of the group g agrees with the states s of the handles: it holds
\* pending requests of g, none twice, in the order of their priorities.
Line(s, r, g) ==
    /\ \A i \in 1..Len(r) : s[r[i]].st = "pending" /\ s[r[i]].group = g
    /\ \A i, j \in 1..Len(r) : i < j =>
         r[i] # r[j] /\ s[r[i]].priority <= s[r[j]].priority

\* All queues q do, and every pending handle is in the queue of its group.
Lined(s, q) ==
    /\ \A g \in Groups : Line(s, q[g], g)
    /\ \A h \in Handles : s[h].st = "pending" =>
         \E i \in 1..Len(q[s[h].group]) : q[s[h].group][i] = h

\* The handles t are the handles s but for h, which has got a socket.
Gets(s, t, h) == \E v : v.st = "active" /\ t = [s EXCEPT ![h] = v]

Kept(p) == Homes(p) /\ Held(p) /\ Fresh(p)

Own(p) == Kept(p) /\ Lined(p.handle, p.pending_requests)

\* What holds until a stale read makes the pool erase a group in use.
Owning == Own(pool)

\* The part that is not about group_map_, and what is left of Homes when a group
\* in use is erased: a backup timer still has its group.
Timed(p) ==
    \A g \in p.backup_task :
        g \in p.group_map_ /\ g \in p.backup_job /\ Jobs(p, g) # {}
Lasts(p) == Timed(p) /\ Held(p) /\ Fresh(p) /\ Lined(p.handle, p.pending_requests)

\* The inductive invariant, together with that of SocketPoolProofs.
Ownership == Lasts(pool) /\ (stale # "erased" => Owning)

\* q differs from p by jobs and idle sockets that are gone, and otherwise only in
\* what the invariant does not speak of.
Trims(p, q) ==
    /\ q.handle = p.handle /\ q.pending_requests = p.pending_requests
    /\ q.pool_generation_number_ = p.pool_generation_number_
    /\ \A c \in Conns : q.conn[c] = p.conn[c] \/ q.conn[c] = Free
    /\ \A c \in Conns : p.conn[c].st = "active" => q.conn[c] = p.conn[c]

-----------------------------------------------------------------------------
(* Steps that only take away.                                              *)

LEMMA TrimsTransitive ==
    ASSUME NEW p, NEW q, NEW r, Trims(p, q), Trims(q, r)
    PROVE  Trims(p, r)
BY DEF Trims

\* Deleting jobs and idle sockets disturbs neither owners nor generations.
LEMMA TrimsKeeps ==
    ASSUME NEW p, Good(p), NEW q, Trims(p, q), Homes(q), Held(p)
    PROVE  Held(q) /\ (Fresh(p) => Kept(q))
<1>1. \A h \in Handles : p.handle[h].st = "active" =>
        p.handle[h].conn \in Conns /\ p.conn[p.handle[h].conn].st = "active"
  BY FieldTypes DEF Good, Owned, HandleType, None
<1>2. \A c \in Conns : q.conn[c].st = "active" => p.conn[c].st = "active"
  BY DEF Trims, Free
<1>3. Held(q) BY <1>1, <1>2 DEF Held, Trims
<1>4. ASSUME Fresh(p) PROVE Fresh(q) BY <1>4 DEF Fresh, Trims, Free
<1> QED BY <1>3, <1>4 DEF Kept

\* A group that IsEmpty has nothing, active sockets included: the count is exact.
LEMMA EmptyGroup ==
    ASSUME PoolAssumption, NEW p, Good(p), NEW g \in Groups, IsEmpty(p, g)
    PROVE  /\ \A c \in Conns : p.conn[c] # Free => p.conn[c].group # g
           /\ p.pending_requests[g] = <<>>
<1>1. ActiveSockets(p, g) \in SUBSET Conns BY DEF ActiveSockets
<1>2. Cardinality(ActiveSockets(p, g)) = 0 BY DEF IsEmpty, Good, Exact
<1>3. ActiveSockets(p, g) = {} BY <1>1, <1>2, ConnSets, FS_EmptySet
<1>4. \A c \in Conns : p.conn[c] = Free \/ p.conn[c].st \in {"connecting", "idle", "active"}
  BY FieldTypes DEF Good, ConnType
<1> QED BY <1>3, <1>4 DEF IsEmpty, Jobs, IdleSockets, ActiveSockets

\* Empty groups are dropped, with their backup jobs and timers.
LEMMA DropHomes ==
    ASSUME PoolAssumption, NEW p, Good(p), Homes(p), NEW G \in SUBSET Groups,
           \A g \in G : IsEmpty(p, g),
           NEW q, q.conn = p.conn, q.handle = p.handle,
           q.pending_requests = p.pending_requests,
           q.pool_generation_number_ = p.pool_generation_number_,
           q.group_map_ = p.group_map_ \ G, q.backup_job = p.backup_job \ G,
           q.backup_task = p.backup_task \ G
    PROVE  Homes(q) /\ Trims(p, q)
<1>1. \A g \in G : /\ \A c \in Conns : p.conn[c] # Free => p.conn[c].group # g
                   /\ p.pending_requests[g] = <<>>
  BY EmptyGroup
<1>2. \A g : Jobs(q, g) = Jobs(p, g) BY DEF Jobs
<1>3. Homes(q) BY <1>1, <1>2 DEF Homes
<1> QED BY <1>3 DEF Trims

\* A step that touches only what Homes does not speak of.
LEMMA SameHomes ==
    ASSUME NEW p, NEW q, Homes(p), q.conn = p.conn, q.handle = p.handle,
           q.pending_requests = p.pending_requests,
           q.pool_generation_number_ = p.pool_generation_number_,
           q.group_map_ = p.group_map_, q.backup_job = p.backup_job,
           q.backup_task = p.backup_task
    PROVE  Homes(q) /\ Trims(p, q)
BY DEF Homes, Trims, Jobs

LEMMA EraseIfEmptyHomes ==
    ASSUME PoolAssumption, NEW p, Good(p), Homes(p), NEW g \in Groups
    PROVE  LET q == EraseIfEmpty(p, g)
           IN  Homes(q) /\ Trims(p, q) /\ p.group_map_ \ {g} \subseteq q.group_map_
<1> DEFINE r == EraseGroup(p, g)
<1>1. p \in IntPoolType BY DEF Good
<1>2. /\ r.conn = p.conn /\ r.handle = p.handle
      /\ r.pending_requests = p.pending_requests
      /\ r.pool_generation_number_ = p.pool_generation_number_
      /\ r.group_map_ = p.group_map_ \ {g} /\ r.backup_job = p.backup_job \ {g}
      /\ r.backup_task = p.backup_task \ {g}
  BY <1>1 DEF EraseGroup, CleanupBackupJob, IntPoolType
<1>3. {g} \in SUBSET Groups OBVIOUS
<1>4. CASE IsEmpty(p, g)
  <2>1. \A k \in {g} : IsEmpty(p, k) BY <1>4
  <2> HIDE DEF r
  <2>2. Homes(r) /\ Trims(p, r) BY <1>2, <1>3, <2>1, DropHomes
  <2> QED BY <1>2, <1>4, <2>2 DEF EraseIfEmpty, r
<1>5. CASE ~IsEmpty(p, g) BY <1>5, SameHomes DEF EraseIfEmpty
<1> QED BY <1>4, <1>5

LEMMA OnAvailableSocketSlotHomes ==
    ASSUME NEW p, Good(p), Homes(p), NEW g, NEW b
    PROVE  LET q == OnAvailableSocketSlot(p, g, b)
           IN  Homes(q) /\ Trims(p, q) /\ q.group_map_ = p.group_map_
<1>1. p \in IntPoolType BY DEF Good
<1> DEFINE q == OnAvailableSocketSlot(p, g, b)
<1>2. /\ q.conn = p.conn /\ q.handle = p.handle
      /\ q.pending_requests = p.pending_requests
      /\ q.pool_generation_number_ = p.pool_generation_number_
      /\ q.group_map_ = p.group_map_ /\ q.backup_job = p.backup_job
      /\ q.backup_task = p.backup_task
  BY <1>1 DEF OnAvailableSocketSlot, IntPoolType
<1> HIDE DEF q
<1>3. Homes(q) /\ Trims(p, q) BY <1>2, SameHomes
<1> QED BY <1>2, <1>3 DEF q

LEMMA DeleteIdleHomes ==
    ASSUME NEW p, Good(p), Homes(p), NEW S \in SUBSET AllIdle(p)
    PROVE  LET q == DeleteIdle(p, S)
           IN  /\ Homes(q) /\ Trims(p, q) /\ q.group_map_ = p.group_map_
               /\ AllIdle(q) = AllIdle(p) \ S /\ AllJobs(q) = AllJobs(p)
<1> DEFINE f == [c \in Conns |-> IF c \in S THEN Free ELSE p.conn[c]]
           q == DeleteIdle(p, S)
<1>1. p \in IntPoolType BY DEF Good
<1>2. /\ q.conn = f /\ q.handle = p.handle
      /\ q.pending_requests = p.pending_requests
      /\ q.pool_generation_number_ = p.pool_generation_number_
      /\ q.group_map_ = p.group_map_ /\ q.backup_job = p.backup_job
      /\ q.backup_task = p.backup_task
  BY <1>1 DEF DeleteIdle, DecrementIdleCount, IntPoolType
<1>3. /\ \A c \in Conns : q.conn[c] = IF c \in S THEN Free ELSE p.conn[c]
      /\ \A c \in S : p.conn[c].st = "idle"
  BY <1>2 DEF AllIdle
<1> HIDE DEF q, f
<1>4. /\ AllIdle(q) = AllIdle(p) \ S /\ AllJobs(q) = AllJobs(p)
      /\ \A g : Jobs(q, g) = Jobs(p, g)
  BY <1>3 DEF AllIdle, AllJobs, Jobs, Free
<1>5. Homes(q) BY <1>2, <1>3, <1>4 DEF Homes
<1>6. Trims(p, q) BY <1>2, <1>3 DEF Trims
<1> QED BY <1>2, <1>4, <1>5, <1>6 DEF q

\* The group that loses its idle socket, and may go with it, is one that had one.
LEMMA CloseOneIdleSocketHomes ==
    ASSUME PoolAssumption, NEW p, Good(p), Homes(p), NEW q \in CloseOneIdleSocket(p)
    PROVE  /\ Homes(q) /\ Trims(p, q)
           /\ \A g \in p.group_map_ : IdleSockets(p, g) = {} => g \in q.group_map_
<1>1. PICK first : \E c \in IdleSockets(p, first) :
                      q = EraseIfEmpty(DeleteIdle(p, {c}), first)
  BY DEF CloseOneIdleSocket
<1>2. PICK c \in IdleSockets(p, first) : q = EraseIfEmpty(DeleteIdle(p, {c}), first)
  BY <1>1
<1> DEFINE r == DeleteIdle(p, {c})
<1>3. {c} \in SUBSET AllIdle(p) BY DEF IdleSockets, AllIdle
<1>4. first \in Groups BY FieldTypes DEF Good, ConnType, Free, IdleSockets
<1>5. Good(r) BY <1>3, DeleteIdleGood
<1>6. Homes(r) /\ Trims(p, r) /\ r.group_map_ = p.group_map_
  BY <1>3, DeleteIdleHomes
<1> HIDE DEF r
<1>7. q = EraseIfEmpty(r, first) BY <1>2 DEF r
<1>8. Homes(q) /\ Trims(r, q) /\ r.group_map_ \ {first} \subseteq q.group_map_
  BY <1>4, <1>5, <1>6, <1>7, EraseIfEmptyHomes
<1>9. Trims(p, q) BY <1>6, <1>8, TrimsTransitive
<1> QED BY <1>2, <1>6, <1>8, <1>9

\* The same calls when a group that is in use may be missing from the map.
LEMMA EraseGroupTimed ==
    ASSUME NEW p, Good(p), Timed(p), NEW g
    PROVE  LET q == EraseGroup(p, g) IN Timed(q) /\ Trims(p, q)
<1> DEFINE q == EraseGroup(p, g)
<1>1. p \in IntPoolType BY DEF Good
<1>2. /\ q.conn = p.conn /\ q.handle = p.handle
      /\ q.pending_requests = p.pending_requests
      /\ q.pool_generation_number_ = p.pool_generation_number_
      /\ q.group_map_ = p.group_map_ \ {g} /\ q.backup_job = p.backup_job \ {g}
      /\ q.backup_task = p.backup_task \ {g}
  BY <1>1 DEF EraseGroup, CleanupBackupJob, IntPoolType
<1> HIDE DEF q
<1>3. Timed(q) /\ Trims(p, q) BY <1>2 DEF Timed, Trims, Jobs
<1> QED BY <1>3 DEF q

LEMMA CloseOneIdleSocketTimed ==
    ASSUME PoolAssumption, NEW p, Good(p), Timed(p), NEW q \in CloseOneIdleSocket(p)
    PROVE  Timed(q) /\ Trims(p, q)
<1>1. PICK first : \E c \in IdleSockets(p, first) :
                      q = EraseIfEmpty(DeleteIdle(p, {c}), first)
  BY DEF CloseOneIdleSocket
<1>2. PICK c \in IdleSockets(p, first) : q = EraseIfEmpty(DeleteIdle(p, {c}), first)
  BY <1>1
<1> DEFINE r == DeleteIdle(p, {c})
           f == [k \in Conns |-> IF k \in {c} THEN Free ELSE p.conn[k]]
<1>3. c \in Conns /\ p.conn[c].st = "idle" /\ {c} \in SUBSET AllIdle(p)
  BY DEF IdleSockets, AllIdle
<1>4. Good(r) BY <1>3, DeleteIdleGood
<1>5. /\ r.conn = f /\ r.handle = p.handle
      /\ r.pending_requests = p.pending_requests
      /\ r.pool_generation_number_ = p.pool_generation_number_
      /\ r.group_map_ = p.group_map_ /\ r.backup_job = p.backup_job
      /\ r.backup_task = p.backup_task
  <2>1. p \in IntPoolType BY DEF Good
  <2> QED BY <2>1 DEF DeleteIdle, DecrementIdleCount, IntPoolType
<1>6. \A k \in Conns : r.conn[k] = IF k = c THEN Free ELSE p.conn[k] BY <1>5
<1> HIDE DEF r, f
<1>7. Timed(r) /\ Trims(p, r) BY <1>3, <1>5, <1>6 DEF Timed, Trims, Jobs, Free
<1>8. CASE q = r BY <1>7, <1>8
<1>9. CASE q = EraseGroup(r, first)
  <2>1. Timed(q) /\ Trims(r, q) BY <1>4, <1>7, <1>9, EraseGroupTimed
  <2> QED BY <1>7, <2>1, TrimsTransitive
<1> QED BY <1>2, <1>8, <1>9 DEF EraseIfEmpty, r

LEMMA CheckForStalledTimed ==
    ASSUME PoolAssumption, NEW p, Good(p), Timed(p),
           NEW q \in CheckForStalledSocketGroups(p)
    PROVE  Timed(q) /\ Trims(p, q)
<1> DEFINE n == Cardinality(StalledGroups(p))
           s == [p EXCEPT !.last_stalled_group_count_ = n]
           room == IF ~ReachedMaxSocketsLimit(s) THEN {s}
                   ELSE IF s.idle_socket_count_ > 0 THEN CloseOneIdleSocket(s)
                   ELSE {}
           woken == UNION {{OnAvailableSocketSlot(r, top, FALSE) : r \in room} :
                              top \in FindTopStalledGroup(p)}
<1>1. p \in IntPoolType BY DEF Good
<1>2. n \in Nat
  <2>1. StalledGroups(p) \subseteq Groups BY <1>1, FieldTypes DEF StalledGroups
  <2> QED BY <2>1, FS_Subset, FS_CardinalityType DEF PoolAssumption
<1>3. Good(s)
  <2> HIDE DEF n
  <2> QED BY <1>1, <1>2, SameCore DEF IntPoolType
<1>4. Timed(s) /\ Trims(p, s) BY <1>1 DEF IntPoolType, Timed, Trims, Jobs
<1>5. q \in IF StalledGroups(p) = {} \/ room = {} THEN {s} ELSE woken
  BY DEF CheckForStalledSocketGroups
<1>6. \A r \in room : r = s \/ r \in CloseOneIdleSocket(s) OBVIOUS
<1> HIDE DEF s
<1>7. ASSUME NEW r \in room PROVE Good(r) /\ Timed(r) /\ Trims(p, r)
  <2>1. CASE r = s BY <1>3, <1>4, <2>1
  <2>2. CASE r \in CloseOneIdleSocket(s)
    <3>1. Good(r) BY <1>3, <2>2, CloseOneIdleSocketGood
    <3>2. Timed(r) /\ Trims(s, r) BY <1>3, <1>4, <2>2, CloseOneIdleSocketTimed
    <3> QED BY <1>4, <3>1, <3>2, TrimsTransitive
  <2> HIDE DEF room
  <2> QED BY <1>6, <2>1, <2>2
<1> HIDE DEF room
<1>8. CASE q = s BY <1>4, <1>8
<1>9. CASE q \in woken
  <2>1. PICK r \in room : \E top : q = OnAvailableSocketSlot(r, top, FALSE) BY <1>9
  <2>2. PICK top : q = OnAvailableSocketSlot(r, top, FALSE) BY <2>1
  <2>3. Good(r) /\ Timed(r) /\ Trims(p, r) BY <1>7
  <2>4. Timed(q) /\ Trims(r, q)
    BY <2>2, <2>3 DEF OnAvailableSocketSlot, Good, IntPoolType, Timed, Trims, Jobs
  <2> QED BY <2>3, <2>4, TrimsTransitive
<1> HIDE DEF woken
<1> QED BY <1>5, <1>8, <1>9

LEMMA CheckForStalledHomes ==
    ASSUME PoolAssumption, NEW p, Good(p), Homes(p),
           NEW q \in CheckForStalledSocketGroups(p)
    PROVE  Homes(q) /\ Trims(p, q)
<1> DEFINE n == Cardinality(StalledGroups(p))
           s == [p EXCEPT !.last_stalled_group_count_ = n]
           room == IF ~ReachedMaxSocketsLimit(s) THEN {s}
                   ELSE IF s.idle_socket_count_ > 0 THEN CloseOneIdleSocket(s)
                   ELSE {}
           woken == UNION {{OnAvailableSocketSlot(r, top, FALSE) : r \in room} :
                              top \in FindTopStalledGroup(p)}
<1>1. p \in IntPoolType BY DEF Good
<1>2. n \in Nat
  <2>1. StalledGroups(p) \subseteq Groups BY <1>1, FieldTypes DEF StalledGroups
  <2> QED BY <2>1, FS_Subset, FS_CardinalityType DEF PoolAssumption
<1>3. Good(s)
  <2> HIDE DEF n
  <2> QED BY <1>1, <1>2, SameCore DEF IntPoolType
<1>4. Homes(s) /\ Trims(p, s)
  <2>1. /\ s.conn = p.conn /\ s.handle = p.handle
        /\ s.pending_requests = p.pending_requests
        /\ s.pool_generation_number_ = p.pool_generation_number_
        /\ s.group_map_ = p.group_map_ /\ s.backup_job = p.backup_job
        /\ s.backup_task = p.backup_task
    BY <1>1 DEF IntPoolType
  <2> HIDE DEF s
  <2> QED BY <2>1, SameHomes
<1>5. q \in IF StalledGroups(p) = {} \/ room = {} THEN {s} ELSE woken
  BY DEF CheckForStalledSocketGroups
<1>6. \A r \in room : r = s \/ r \in CloseOneIdleSocket(s) OBVIOUS
<1> HIDE DEF s
<1>7. ASSUME NEW r \in room PROVE Good(r) /\ Homes(r) /\ Trims(p, r)
  <2>1. CASE r = s BY <1>3, <1>4, <2>1
  <2>2. CASE r \in CloseOneIdleSocket(s)
    <3>1. Good(r) BY <1>3, <2>2, CloseOneIdleSocketGood
    <3>2. Homes(r) /\ Trims(s, r) BY <1>3, <1>4, <2>2, CloseOneIdleSocketHomes
    <3> QED BY <1>4, <3>1, <3>2, TrimsTransitive
  <2> HIDE DEF room
  <2> QED BY <1>6, <2>1, <2>2
<1> HIDE DEF room
<1>8. CASE q = s BY <1>4, <1>8
<1>9. CASE q \in woken
  <2>1. PICK r \in room : \E top : q = OnAvailableSocketSlot(r, top, FALSE) BY <1>9
  <2>2. PICK top : q = OnAvailableSocketSlot(r, top, FALSE) BY <2>1
  <2>3. Good(r) /\ Homes(r) /\ Trims(p, r) BY <1>7
  <2>4. Homes(q) /\ Trims(r, q) BY <2>2, <2>3, OnAvailableSocketSlotHomes
  <2> QED BY <2>3, <2>4, TrimsTransitive
<1> HIDE DEF woken
<1> QED BY <1>5, <1>8, <1>9

LEMMA CleanupIdleSocketsHomes ==
    ASSUME PoolAssumption, NEW p, Good(p), Homes(p), NEW S \in SUBSET AllIdle(p)
    PROVE  LET q == CleanupIdleSockets(p, S)
           IN  /\ Homes(q) /\ Trims(p, q) /\ AllJobs(q) = AllJobs(p)
               /\ S = AllIdle(p) => AllIdle(q) = {}
<1> DEFINE r == DeleteIdle(p, S)
           gone == {g \in r.group_map_ : IsEmpty(r, g)}
           s == [r EXCEPT !.group_map_ = @ \ gone, !.backup_job = @ \ gone,
                          !.backup_task = @ \ gone]
<1>1. Good(r) BY DeleteIdleGood
<1>2. /\ Homes(r) /\ Trims(p, r) /\ AllIdle(r) = AllIdle(p) \ S
      /\ AllJobs(r) = AllJobs(p)
  BY DeleteIdleHomes
<1>3. CleanupIdleSockets(p, S) = IF p.idle_socket_count_ = 0 THEN p ELSE s
  BY DEF CleanupIdleSockets
<1> HIDE DEF r
<1>4. gone \in SUBSET Groups /\ \A g \in gone : IsEmpty(r, g)
  BY <1>1, FieldTypes DEF Good
<1>5. /\ s.conn = r.conn /\ s.handle = r.handle
      /\ s.pending_requests = r.pending_requests
      /\ s.pool_generation_number_ = r.pool_generation_number_
      /\ s.group_map_ = r.group_map_ \ gone /\ s.backup_job = r.backup_job \ gone
      /\ s.backup_task = r.backup_task \ gone
  <2>1. r \in IntPoolType BY <1>1 DEF Good
  <2> HIDE DEF gone
  <2> QED BY <2>1 DEF IntPoolType
<1> HIDE DEF s, gone
<1>6. Homes(s) /\ Trims(r, s) BY <1>1, <1>2, <1>4, <1>5, DropHomes
<1>7. AllIdle(s) = AllIdle(r) /\ AllJobs(s) = AllJobs(r)
  BY <1>5 DEF AllIdle, AllJobs
<1>8. Trims(p, s) BY <1>2, <1>6, TrimsTransitive
<1>9. CASE p.idle_socket_count_ = 0
  <2>1. AllIdle(p) \in SUBSET Conns BY DEF AllIdle
  <2>2. AllIdle(p) = {} BY <1>9, <2>1, ConnSets, FS_EmptySet DEF Good, Exact
  <2> QED BY <1>3, <1>9, <2>2, SameHomes
<1>10. CASE p.idle_socket_count_ # 0
  BY <1>2, <1>3, <1>6, <1>7, <1>8, <1>10
<1> QED BY <1>9, <1>10

\* The backup job goes with the last job of the group.
LEMMA RemoveConnectJobHomes ==
    ASSUME NEW p, Good(p), Homes(p), NEW c \in Conns, p.conn[c].st = "connecting"
    PROVE  LET q == RemoveConnectJob(p, c)
           IN  /\ Homes(q) /\ Trims(p, q) /\ q.conn[c] = Free
               /\ q.group_map_ = p.group_map_
<1> DEFINE g == p.conn[c].group
           n == p.connecting_socket_count_ - 1
           q == [p EXCEPT !.connecting_socket_count_ = n, !.conn[c] = Free]
           r == CleanupBackupJob(q, g)
<1>1. p \in IntPoolType BY DEF Good
<1>2. /\ q.conn = [p.conn EXCEPT ![c] = Free] /\ q.handle = p.handle
      /\ q.pending_requests = p.pending_requests
      /\ q.pool_generation_number_ = p.pool_generation_number_
      /\ q.group_map_ = p.group_map_ /\ q.backup_job = p.backup_job
      /\ q.backup_task = p.backup_task
  <2> HIDE DEF n
  <2> QED BY <1>1 DEF IntPoolType
<1>3. /\ r.conn = q.conn /\ r.handle = q.handle
      /\ r.pending_requests = q.pending_requests
      /\ r.pool_generation_number_ = q.pool_generation_number_
      /\ r.group_map_ = q.group_map_ /\ r.backup_job = q.backup_job \ {g}
      /\ r.backup_task = q.backup_task \ {g}
  <2> HIDE DEF n
  <2> QED BY <1>1 DEF IntPoolType, CleanupBackupJob
<1>4. RemoveConnectJob(p, c) = IF Jobs(q, g) = {} THEN r ELSE q
  BY DEF RemoveConnectJob
<1> HIDE DEF q, r, g
<1>5. /\ \A d \in Conns : q.conn[d] = IF d = c THEN Free ELSE p.conn[d]
      /\ \A k : k # g => Jobs(q, k) = Jobs(p, k)
      /\ \A k : Jobs(r, k) = Jobs(q, k)
  BY <1>1, <1>2, <1>3, FieldTypes DEF Jobs, Free, g
<1>6. Trims(p, q) /\ Trims(p, r) BY <1>2, <1>3, <1>5 DEF Trims
<1>7. CASE Jobs(q, g) = {}
  <2>1. Homes(r) BY <1>2, <1>3, <1>5 DEF Homes
  <2> QED BY <1>2, <1>3, <1>4, <1>5, <1>6, <1>7, <2>1
<1>8. CASE Jobs(q, g) # {}
  <2>1. Homes(q) BY <1>2, <1>5, <1>8 DEF Homes
  <2> QED BY <1>2, <1>4, <1>5, <1>6, <1>8, <2>1
<1> QED BY <1>7, <1>8

LEMMA CancelAllConnectJobsHomes ==
    ASSUME PoolAssumption, NEW p, Good(p), Homes(p)
    PROVE  LET q == CancelAllConnectJobs(p)
           IN  Homes(q) /\ Trims(p, q) /\ AllJobs(q) = {}
<1> DEFINE n == p.connecting_socket_count_ - Cardinality(AllJobs(p))
           f == [c \in Conns |-> IF c \in AllJobs(p) THEN Free ELSE p.conn[c]]
           q == [p EXCEPT !.connecting_socket_count_ = n, !.conn = f,
                          !.backup_task = {}]
           gone == {g \in q.group_map_ : IsEmpty(q, g)}
           r == [q EXCEPT !.group_map_ = @ \ gone, !.backup_job = @ \ gone]
<1>1. p \in IntPoolType BY DEF Good
<1>2. /\ q.conn = f /\ q.handle = p.handle
      /\ q.pending_requests = p.pending_requests
      /\ q.pool_generation_number_ = p.pool_generation_number_
      /\ q.group_map_ = p.group_map_ /\ q.backup_job = p.backup_job
      /\ q.backup_task = {} /\ q.active_socket_count = p.active_socket_count
  <2> HIDE DEF n, f
  <2> QED BY <1>1 DEF IntPoolType
<1>3. /\ r.conn = q.conn /\ r.handle = q.handle
      /\ r.pending_requests = q.pending_requests
      /\ r.pool_generation_number_ = q.pool_generation_number_
      /\ r.group_map_ = q.group_map_ \ gone /\ r.backup_job = q.backup_job \ gone
      /\ r.backup_task = {}
  <2> HIDE DEF n, f, gone
  <2> QED BY <1>1 DEF IntPoolType
<1>4. CancelAllConnectJobs(p) = r BY DEF CancelAllConnectJobs
<1>5. \A c \in Conns : q.conn[c] = IF c \in AllJobs(p) THEN Free ELSE p.conn[c]
  BY <1>2
<1> HIDE DEF q, r, f
<1>6. gone \in SUBSET Groups /\ \A g \in gone : IsEmpty(q, g)
  BY <1>1, <1>2, FieldTypes
<1>7. ASSUME NEW g \in gone
      PROVE  /\ \A c \in Conns : q.conn[c] # Free => q.conn[c].group # g
             /\ q.pending_requests[g] = <<>>
  <2>1. IsEmpty(q, g) /\ g \in Groups BY <1>6
  <2>2. ActiveSockets(q, g) = ActiveSockets(p, g)
    BY <1>5 DEF ActiveSockets, AllJobs, Free
  <2>3. ActiveSockets(p, g) \in SUBSET Conns BY DEF ActiveSockets
  <2>4. Cardinality(ActiveSockets(p, g)) = 0
    BY <1>2, <2>1 DEF IsEmpty, Good, Exact
  <2>5. ActiveSockets(q, g) = {} BY <2>2, <2>3, <2>4, ConnSets, FS_EmptySet
  <2>6. \A c \in Conns : \/ q.conn[c] = Free
                         \/ q.conn[c].st \in {"connecting", "idle", "active"}
    BY <1>1, <1>5, FieldTypes DEF ConnType
  <2> QED BY <2>1, <2>5, <2>6 DEF IsEmpty, Jobs, IdleSockets, ActiveSockets
<1>8. Homes(r)
  <2>1. \A c \in Conns : r.conn[c] # Free => r.conn[c].group \in r.group_map_
    BY <1>2, <1>3, <1>5, <1>7 DEF Homes
  <2>2. \A g \in Groups : r.pending_requests[g] # <<>> => g \in r.group_map_
    BY <1>2, <1>3, <1>7 DEF Homes
  <2> QED BY <1>3, <2>1, <2>2 DEF Homes
<1>9. Trims(p, r) BY <1>2, <1>3, <1>5 DEF Trims, AllJobs
<1>10. AllJobs(r) = {} BY <1>3, <1>5 DEF AllJobs, Free
<1> QED BY <1>4, <1>8, <1>9, <1>10

-----------------------------------------------------------------------------
(* Steps that start a job, keep an idle socket or hand one out.            *)

LEMMA FreeUnheld ==
    ASSUME NEW p, Good(p), NEW c \in Conns, p.conn[c] = Free
    PROVE  \A h \in Handles : p.handle[h].st = "active" =>
              p.handle[h].conn \in Conns /\ p.handle[h].conn # c
BY FieldTypes DEF Good, Owned, HandleType, None, Free

LEMMA StartJobKept ==
    ASSUME NEW p, Good(p), Kept(p), NEW c \in Conns, p.conn[c] = Free,
           NEW g \in p.group_map_
    PROVE  LET q == StartJob(p, c, g)
           IN  /\ Kept(q) /\ q.handle = p.handle
               /\ q.pending_requests = p.pending_requests
               /\ q.group_map_ = p.group_map_
               /\ q.pool_generation_number_ = p.pool_generation_number_
<1> DEFINE n == p.connecting_socket_count_ + 1
           cv == [st |-> "connecting", group |-> g, gen |-> p.pool_generation_number_]
           q == StartJob(p, c, g)
<1>1. p \in IntPoolType BY DEF Good
<1>2. q = [p EXCEPT !.connecting_socket_count_ = n, !.conn[c] = cv] BY DEF StartJob
<1>3. /\ q.conn = [p.conn EXCEPT ![c] = cv] /\ q.handle = p.handle
      /\ q.pending_requests = p.pending_requests
      /\ q.pool_generation_number_ = p.pool_generation_number_
      /\ q.group_map_ = p.group_map_ /\ q.backup_job = p.backup_job
      /\ q.backup_task = p.backup_task
  <2> HIDE DEF n, cv, q
  <2> QED BY <1>1, <1>2 DEF IntPoolType
<1> HIDE DEF q
<1>4. \A d \in Conns : q.conn[d] = IF d = c THEN cv ELSE p.conn[d]
  BY <1>1, <1>3, FieldTypes
<1>5. \A k : Jobs(p, k) \subseteq Jobs(q, k) BY <1>4 DEF Jobs, Free
<1>6. Homes(q) BY <1>3, <1>4, <1>5 DEF Kept, Homes
<1>7. Held(q)
  <2>1. \A h \in Handles : p.handle[h].st = "active" =>
          p.handle[h].conn \in Conns /\ p.handle[h].conn # c
    BY FreeUnheld
  <2> QED BY <1>3, <1>4, <2>1 DEF Kept, Held
<1>8. Fresh(q) BY <1>3, <1>4 DEF Kept, Fresh
<1> QED BY <1>3, <1>6, <1>7, <1>8 DEF Kept, q

LEMMA AddIdleKept ==
    ASSUME NEW p, Good(p), Kept(p), NEW c \in Conns, p.conn[c] = Free,
           NEW g \in p.group_map_, NEW gen, gen = p.pool_generation_number_
    PROVE  LET q == AddIdleSocket(p, c, gen, g)
           IN  /\ Kept(q) /\ q.handle = p.handle
               /\ q.pending_requests = p.pending_requests
               /\ q.group_map_ = p.group_map_
<1> DEFINE cv == [st |-> "idle", group |-> g, gen |-> gen]
           q == AddIdleSocket(p, c, gen, g)
<1>1. p \in IntPoolType BY DEF Good
<1>2. /\ q.conn = [p.conn EXCEPT ![c] = cv] /\ q.handle = p.handle
      /\ q.pending_requests = p.pending_requests
      /\ q.pool_generation_number_ = p.pool_generation_number_
      /\ q.group_map_ = p.group_map_ /\ q.backup_job = p.backup_job
      /\ q.backup_task = p.backup_task
  BY <1>1 DEF IntPoolType, AddIdleSocket, IncrementIdleCount
<1> HIDE DEF q
<1>4. \A d \in Conns : q.conn[d] = IF d = c THEN cv ELSE p.conn[d]
  BY <1>1, <1>2, FieldTypes
<1>5. \A k : Jobs(p, k) \subseteq Jobs(q, k) BY <1>4 DEF Jobs, Free
<1>6. Homes(q) BY <1>2, <1>4, <1>5 DEF Kept, Homes
<1>7. Held(q)
  <2>1. \A h \in Handles : p.handle[h].st = "active" =>
          p.handle[h].conn \in Conns /\ p.handle[h].conn # c
    BY FreeUnheld
  <2> QED BY <1>2, <1>4, <2>1 DEF Kept, Held
<1>8. Fresh(q) BY <1>2, <1>4 DEF Kept, Fresh
<1> QED BY <1>2, <1>6, <1>7, <1>8 DEF Kept, q

\* The handle that takes the socket had none.
LEMMA HandOutKept ==
    ASSUME NEW p, Good(p), Kept(p), NEW c \in Conns, p.conn[c] = Free,
           NEW g \in p.group_map_, NEW gen, gen = p.pool_generation_number_,
           NEW h \in Handles, p.handle[h].st # "active"
    PROVE  LET q == HandOutSocket(p, c, gen, g, h)
           IN  /\ Kept(q) /\ q.pending_requests = p.pending_requests
               /\ q.group_map_ = p.group_map_
               /\ Gets(p.handle, q.handle, h)
<1> DEFINE cv == [st |-> "active", group |-> g, gen |-> gen]
           hv == [st |-> "active", group |-> g, conn |-> c,
                  pool_id |-> p.pool_generation_number_]
           n == p.handed_out_socket_count_ + 1
           m == p.active_socket_count[g] + 1
           q == HandOutSocket(p, c, gen, g, h)
<1>1. p \in IntPoolType BY DEF Good
<1>2. q = [p EXCEPT !.conn[c] = cv, !.handle[h] = hv,
                    !.handed_out_socket_count_ = n, !.active_socket_count[g] = m]
  BY DEF HandOutSocket
<1>3. /\ q.conn = [p.conn EXCEPT ![c] = cv]
      /\ q.handle = [p.handle EXCEPT ![h] = hv]
      /\ q.pending_requests = p.pending_requests
      /\ q.pool_generation_number_ = p.pool_generation_number_
      /\ q.group_map_ = p.group_map_ /\ q.backup_job = p.backup_job
      /\ q.backup_task = p.backup_task
  <2> HIDE DEF cv, hv, n, m, q
  <2> QED BY <1>1, <1>2 DEF IntPoolType
<1> HIDE DEF q
<1>4. /\ \A d \in Conns : q.conn[d] = IF d = c THEN cv ELSE p.conn[d]
      /\ \A k \in Handles : q.handle[k] = IF k = h THEN hv ELSE p.handle[k]
  BY <1>1, <1>3, FieldTypes
<1>5. \A k : Jobs(q, k) = Jobs(p, k) BY <1>4 DEF Jobs, Free
<1>6. Homes(q) BY <1>3, <1>4, <1>5 DEF Kept, Homes
<1>7. Held(q)
  <2>1. \A k \in Handles : p.handle[k].st = "active" =>
          p.handle[k].conn \in Conns /\ p.handle[k].conn # c
    BY FreeUnheld
  <2>2. ASSUME NEW k \in Handles, q.handle[k].st = "active"
        PROVE  q.conn[q.handle[k].conn].gen = q.handle[k].pool_id
    <3>1. CASE k = h BY <1>4, <3>1
    <3>2. CASE k # h BY <1>4, <2>1, <2>2, <3>2 DEF Kept, Held
    <3> QED BY <3>1, <3>2
  <2>3. ASSUME NEW d \in Conns, q.conn[d].st = "active"
        PROVE  \E k \in Handles : q.handle[k].st = "active" /\ q.handle[k].conn = d
    <3>1. CASE d = c BY <1>4, <3>1
    <3>2. CASE d # c
      <4>1. PICK k \in Handles : p.handle[k].st = "active" /\ p.handle[k].conn = d
        BY <1>4, <2>3, <3>2 DEF Kept, Held
      <4> QED BY <1>4, <4>1
    <3> QED BY <3>1, <3>2
  <2> QED BY <2>2, <2>3 DEF Held
<1>8. Fresh(q) BY <1>3, <1>4 DEF Kept, Fresh
<1>9. hv.st = "active" OBVIOUS
<1> HIDE DEF hv
<1> QED BY <1>3, <1>6, <1>7, <1>8, <1>9 DEF Kept, Gets, q

\* x is an outcome of RequestSocketInternal on p for the handle h and its group g:
\* h has a socket, or nothing about the requests has changed, and the group is
\* there unless the connection failed.
Answers(p, x, g, h) ==
    /\ Kept(x.pool) /\ x.pool.pending_requests = p.pending_requests
    /\ x.rv \in {"OK", "ERR_SOCKET", "ERR_IO_PENDING", "ERR"}
    /\ x.rv \in {"OK", "ERR_SOCKET"} => Gets(p.handle, x.pool.handle, h)
    /\ x.rv \in {"ERR_IO_PENDING", "ERR"} => x.pool.handle = p.handle
    /\ x.rv # "ERR" => g \in x.pool.group_map_

\* The first job of a group comes with a backup job and its timer.
LEMMA StartWithBackupKept ==
    ASSUME NEW p, Good(p), Kept(p), NEW c \in Conns, p.conn[c] = Free,
           NEW g \in p.group_map_
    PROVE  LET w == StartBackupSocketTimer([p EXCEPT !.backup_job = @ \cup {g}], g)
               q == StartJob(w, c, g)
           IN  /\ Kept(q) /\ q.handle = p.handle
               /\ q.pending_requests = p.pending_requests
               /\ q.group_map_ = p.group_map_
<1> DEFINE w == StartBackupSocketTimer([p EXCEPT !.backup_job = @ \cup {g}], g)
           q == StartJob(w, c, g)
           r == StartJob(p, c, g)
<1>1. p \in IntPoolType BY DEF Good
<1>2. /\ q.conn = r.conn /\ q.handle = r.handle
      /\ q.pending_requests = r.pending_requests
      /\ q.pool_generation_number_ = r.pool_generation_number_
      /\ q.group_map_ = r.group_map_ /\ q.backup_job = r.backup_job \cup {g}
      /\ q.backup_task = r.backup_task \cup {g}
  BY <1>1 DEF IntPoolType, StartJob, StartBackupSocketTimer
<1>3. /\ Kept(r) /\ r.handle = p.handle /\ r.group_map_ = p.group_map_
      /\ r.pending_requests = p.pending_requests
  BY StartJobKept
<1>4. c \in Jobs(r, g)
  BY <1>1 DEF IntPoolType, StartJob, Jobs
<1> HIDE DEF q, r
<1>5. \A k : Jobs(q, k) = Jobs(r, k) BY <1>2 DEF Jobs
<1>6. Homes(q) BY <1>2, <1>3, <1>4, <1>5 DEF Kept, Homes
<1>7. Held(q) BY <1>2, <1>3 DEF Kept, Held
<1>8. Fresh(q) BY <1>2, <1>3 DEF Kept, Fresh
<1> QED BY <1>2, <1>3, <1>6, <1>7, <1>8 DEF Kept, q

LEMMA ConnectForRequestKept ==
    ASSUME PoolAssumption, NEW p, Good(p), Kept(p), NEW g \in p.group_map_,
           NEW h \in Handles, p.handle[h].st # "active",
           NEW x \in ConnectForRequest(p, g, h)
    PROVE  Answers(p, x, g, h)
<1> DEFINE gen == p.pool_generation_number_
           b == StartBackupSocketTimer([p EXCEPT !.backup_job = @ \cup {g}], g)
           w == IF /\ IsEmpty(p, g) /\ g \notin p.backup_job
                   /\ backup_jobs_enabled_
                THEN b ELSE p
           free == {c \in Conns : p.conn[c] = Free}
<1> DEFINE Outcome(rv) ==
              CASE rv \in {"OK", "ERR_SOCKET"} ->
                     {[rv |-> rv, pool |-> HandOutSocket(p, c, gen, g, h)] : c \in free}
               [] rv = "ERR_IO_PENDING" ->
                     {[rv |-> rv, pool |-> StartJob(w, c, g)] : c \in free}
               [] rv = "ERR" -> {[rv |-> rv, pool |-> EraseIfEmpty(p, g)]}
<1>1. PICK rv \in ConnectResults : x \in Outcome(rv)
  <2>1. x \in UNION {Outcome(rv) : rv \in ConnectResults} BY DEF ConnectForRequest
  <2> HIDE DEF Outcome
  <2> QED BY <2>1
<1>2. w = b \/ w = p OBVIOUS
<1> HIDE DEF w, gen, b
<1>3. \/ /\ x.rv \in {"OK", "ERR_SOCKET"}
         /\ \E c \in free : x.pool = HandOutSocket(p, c, gen, g, h)
      \/ /\ x.rv = "ERR_IO_PENDING"
         /\ \E c \in free : x.pool = StartJob(w, c, g)
      \/ x.rv = "ERR" /\ x.pool = EraseIfEmpty(p, g)
  <2>1. rv \in {"OK", "ERR_SOCKET", "ERR_IO_PENDING", "ERR"} BY DEF PoolAssumption
  <2> HIDE DEF free
  <2> QED BY <1>1, <2>1
<1>4. g \in Groups BY FieldTypes DEF Good
<1>5. ASSUME x.rv \in {"OK", "ERR_SOCKET"}, NEW c \in free,
             x.pool = HandOutSocket(p, c, gen, g, h)
      PROVE  Answers(p, x, g, h)
  <2>1. /\ Kept(x.pool) /\ x.pool.pending_requests = p.pending_requests
        /\ x.pool.group_map_ = p.group_map_
        /\ Gets(p.handle, x.pool.handle, h)
    BY <1>5, HandOutKept DEF gen
  <2> QED BY <1>5, <2>1 DEF Answers
<1>6. ASSUME x.rv = "ERR_IO_PENDING", NEW c \in free, x.pool = StartJob(w, c, g)
      PROVE  Answers(p, x, g, h)
  <2>1. /\ Kept(x.pool) /\ x.pool.handle = p.handle
        /\ x.pool.pending_requests = p.pending_requests
        /\ x.pool.group_map_ = p.group_map_
    BY <1>2, <1>6, StartJobKept, StartWithBackupKept DEF b
  <2> QED BY <1>6, <2>1 DEF Answers
<1>7. ASSUME x.rv = "ERR", x.pool = EraseIfEmpty(p, g)
      PROVE  Answers(p, x, g, h)
  <2>1. Homes(x.pool) /\ Trims(p, x.pool)
    BY <1>4, <1>7, EraseIfEmptyHomes DEF Kept
  <2>2. Kept(x.pool) BY <2>1, TrimsKeeps DEF Kept
  <2> QED BY <1>7, <2>1, <2>2 DEF Answers, Trims
<1> QED BY <1>3, <1>5, <1>6, <1>7

LEMMA AssignIdleKept ==
    ASSUME PoolAssumption, NEW p, Good(p), Kept(p), NEW g \in p.group_map_,
           NEW h \in Handles, p.handle[h].st # "active",
           NEW q \in AssignIdleSocketToGroup(p, g, h)
    PROVE  /\ Kept(q) /\ q.pending_requests = p.pending_requests
           /\ q.group_map_ = p.group_map_
           /\ Gets(p.handle, q.handle, h)
<1>1. PICK c \in IdleSockets(p, g) : \E dead \in SUBSET (IdleSockets(p, g) \ {c}) :
        q = HandOutSocket(DeleteIdle(p, dead \cup {c}), c, p.conn[c].gen, g, h)
  BY DEF AssignIdleSocketToGroup
<1>2. PICK dead \in SUBSET (IdleSockets(p, g) \ {c}) :
        q = HandOutSocket(DeleteIdle(p, dead \cup {c}), c, p.conn[c].gen, g, h)
  BY <1>1
<1> DEFINE S == dead \cup {c}
           r == DeleteIdle(p, S)
           gen == p.conn[c].gen
<1>3. S \in SUBSET AllIdle(p) /\ c \in S /\ c \in Conns
  BY DEF AllIdle, IdleSockets
<1>4. gen = p.pool_generation_number_ BY DEF Kept, Fresh, IdleSockets
<1>5. Good(r) /\ r.conn[c] = Free
  <2> HIDE DEF S
  <2> QED BY <1>3, DeleteIdleGood
<1>6. Homes(r) /\ Trims(p, r) /\ r.group_map_ = p.group_map_
  <2> HIDE DEF S
  <2> QED BY <1>3, DeleteIdleHomes DEF Kept
<1> HIDE DEF r, S, gen
<1>7. Kept(r) BY <1>6, TrimsKeeps DEF Kept
<1>8. q = HandOutSocket(r, c, gen, g, h) BY <1>2 DEF r, S, gen
<1>9. /\ r.handle = p.handle /\ r.pending_requests = p.pending_requests
      /\ gen = r.pool_generation_number_
  BY <1>4, <1>6 DEF Trims
<1>10. /\ Kept(q) /\ q.pending_requests = r.pending_requests
       /\ q.group_map_ = r.group_map_
       /\ Gets(r.handle, q.handle, h)
  BY <1>3, <1>5, <1>6, <1>7, <1>8, <1>9, HandOutKept
<1> HIDE DEF gen
<1> QED BY <1>6, <1>9, <1>10

LEMMA RequestSocketInternalKept ==
    ASSUME PoolAssumption, NEW p0, Good(p0), Kept(p0), NEW g \in Groups,
           NEW h \in Handles, p0.handle[h].st # "active",
           NEW x \in RequestSocketInternal(p0, g, h)
    PROVE  Answers(p0, x, g, h)
<1> DEFINE p == [p0 EXCEPT !.group_map_ = @ \cup {g}]
           q == DeleteIdle(p, IdleSockets(p, g))
           stall == {[rv |-> "ERR_IO_PENDING", pool |-> q]}
           assigned == {[rv |-> "OK", pool |-> r] : r \in AssignIdleSocketToGroup(p, g, h)}
           closed == UNION {ConnectForRequest(r, g, h) : r \in CloseOneIdleSocket(q)}
<1>1. Good(p)
  <2>1. p0.group_map_ \cup {g} \in SUBSET Groups BY FieldTypes DEF Good
  <2> QED BY <2>1, PutGroupsGood
<1>2. Kept(p) /\ g \in p.group_map_ /\ p.handle = p0.handle
      /\ p.pending_requests = p0.pending_requests
  <2>1. /\ p.conn = p0.conn /\ p.handle = p0.handle
        /\ p.pending_requests = p0.pending_requests
        /\ p.pool_generation_number_ = p0.pool_generation_number_
        /\ p.group_map_ = p0.group_map_ \cup {g} /\ p.backup_job = p0.backup_job
        /\ p.backup_task = p0.backup_task
    BY DEF Good, IntPoolType
  <2> HIDE DEF p
  <2>2. Homes(p) BY <2>1 DEF Kept, Homes, Jobs
  <2>3. Trims(p0, p) BY <2>1 DEF Trims
  <2>4. Kept(p) BY <2>2, <2>3, TrimsKeeps DEF Kept
  <2> QED BY <2>1, <2>4
<1>3. IdleSockets(p, g) \in SUBSET AllIdle(p) BY DEF IdleSockets, AllIdle
<1>4. Good(q)
  <2> HIDE DEF p
  <2> QED BY <1>1, <1>3, DeleteIdleGood
<1>5. /\ Homes(q) /\ Trims(p, q) /\ q.group_map_ = p.group_map_
      /\ AllIdle(q) = AllIdle(p) \ IdleSockets(p, g)
  <2> HIDE DEF p
  <2> QED BY <1>1, <1>2, <1>3, DeleteIdleHomes DEF Kept
<1>6. \/ x \in assigned
      \/ x \in stall
      \/ x \in ConnectForRequest(q, g, h)
      \/ x \in closed
  <2>1. x \in assigned \cup
             (IF ~HasAvailableSocketSlot(q, g) THEN stall
              ELSE IF ~ReachedMaxSocketsLimit(q) THEN ConnectForRequest(q, g, h)
              ELSE IF q.idle_socket_count_ > 0 THEN closed
              ELSE stall)
    BY DEF RequestSocketInternal
  <2> HIDE DEF assigned, stall, closed, q
  <2> QED BY <2>1
<1> HIDE DEF p, q
<1>7. Kept(q) BY <1>1, <1>2, <1>5, TrimsKeeps DEF Kept
<1>8. q.handle = p0.handle /\ q.pending_requests = p0.pending_requests
  BY <1>2, <1>5 DEF Trims
<1>9. IdleSockets(q, g) = {}
  <2>1. ASSUME NEW c \in IdleSockets(q, g) PROVE FALSE
    <3>1. c \in Conns /\ q.conn[c].st = "idle" /\ q.conn[c].group = g
      BY DEF IdleSockets
    <3>2. c \in AllIdle(q) BY <3>1 DEF AllIdle
    <3>3. q.conn[c] = p.conn[c] BY <1>5, <3>1 DEF Trims, Free
    <3>4. c \in IdleSockets(p, g) BY <3>1, <3>3 DEF IdleSockets
    <3> QED BY <1>5, <3>2, <3>4
  <2> QED BY <2>1
<1>10. CASE x \in assigned
  <2>1. PICK r \in AssignIdleSocketToGroup(p, g, h) : x.pool = r /\ x.rv = "OK"
    BY <1>10
  <2>2. /\ Kept(r) /\ r.pending_requests = p.pending_requests
        /\ r.group_map_ = p.group_map_
        /\ Gets(p.handle, r.handle, h)
    <3>1. p.handle[h].st # "active" BY <1>2
    <3> QED BY <1>1, <1>2, <3>1, AssignIdleKept
  <2> QED BY <1>2, <2>1, <2>2 DEF Answers
<1>11. CASE x \in stall
  <2>1. x.pool = q /\ x.rv = "ERR_IO_PENDING" BY <1>11
  <2> QED BY <1>2, <1>5, <1>7, <1>8, <2>1 DEF Answers
<1>12. CASE x \in ConnectForRequest(q, g, h)
  <2>1. Answers(q, x, g, h)
    BY <1>2, <1>4, <1>5, <1>7, <1>8, <1>12, ConnectForRequestKept
  <2> QED BY <1>8, <2>1 DEF Answers
<1>13. CASE x \in closed
  <2>1. PICK r \in CloseOneIdleSocket(q) : x \in ConnectForRequest(r, g, h) BY <1>13
  <2>2. Good(r) BY <1>4, CloseOneIdleSocketGood
  <2>3. Homes(r) /\ Trims(q, r) /\ g \in r.group_map_
    BY <1>2, <1>4, <1>5, <1>9, CloseOneIdleSocketHomes
  <2>4. Kept(r) BY <1>4, <1>7, <2>3, TrimsKeeps DEF Kept
  <2>5. r.handle = p0.handle /\ r.pending_requests = p0.pending_requests
    BY <1>8, <2>3 DEF Trims
  <2>6. Answers(r, x, g, h) BY <2>1, <2>2, <2>3, <2>4, <2>5, ConnectForRequestKept
  <2> QED BY <2>5, <2>6 DEF Answers
<1> QED BY <1>6, <1>10, <1>11, <1>12, <1>13

-----------------------------------------------------------------------------
(* The queues.                                                             *)

\* h is not in the list r; t has every element of r except the i-th.
Missing(r, h) == \A i \in 1..Len(r) : r[i] # h
Survive(r, i, t) ==
    \A j \in 1..Len(r) : j # i => \E l \in 1..Len(t) : t[l] = r[j]

\* The place that InsertRequestIntoQueue looks for is behind k requests.
Place(s, r, h, k) ==
    /\ k \in 0..Len(r)
    /\ \A i \in 1..k : ~(s[h].priority < s[r[i]].priority)
    /\ k < Len(r) => s[h].priority < s[r[k + 1]].priority

\* A handle that is not in the queue may change.
LEMMA LineElse ==
    ASSUME NEW s \in [Handles -> HandleType], NEW r \in Seq(Handles), NEW g,
           Line(s, r, g), NEW h, \A i \in 1..Len(r) : r[i] # h, NEW v
    PROVE  Line([s EXCEPT ![h] = v], r, g)
<1>1. \A i \in 1..Len(r) : r[i] \in Handles OBVIOUS
<1>2. \A i \in 1..Len(r) : [s EXCEPT ![h] = v][r[i]] = s[r[i]] BY <1>1
<1> QED BY <1>2 DEF Line

LEMMA LineCut ==
    ASSUME NEW s, NEW r \in Seq(Handles), NEW g, Line(s, r, g),
           NEW i \in 1..Len(r), NEW t \in Seq(Handles), CutAt(r, i, t)
    PROVE  Line(s, t, g) /\ Missing(t, r[i]) /\ Survive(r, i, t)
<1> DEFINE old(j) == IF j < i THEN j ELSE j + 1
<1>1. Len(r) \in Nat /\ Len(t) = Len(r) - 1 BY DEF CutAt
<1>2. \A j \in 1..Len(t) : old(j) \in 1..Len(r) /\ old(j) # i /\ t[j] = r[old(j)]
  BY <1>1 DEF CutAt
<1>3. \A j, l \in 1..Len(t) : j < l => old(j) < old(l) BY <1>1
<1>4. \A j \in 1..Len(r) : old(j) \in Int /\ (j < i \/ j > i \/ j = i) OBVIOUS
<1>5. \A j \in 1..Len(r) : j # i => \E l \in 1..Len(t) : t[l] = r[j]
  <2> SUFFICES ASSUME NEW j \in 1..Len(r), j # i
               PROVE  \E l \in 1..Len(t) : t[l] = r[j]
    OBVIOUS
  <2>1. CASE j < i BY <1>1, <2>1 DEF CutAt
  <2>2. CASE j > i
    <3>1. j - 1 \in 1..Len(t) /\ t[j - 1] = r[j] BY <1>1, <2>2 DEF CutAt
    <3> QED BY <3>1
  <2> QED BY <2>1, <2>2
<1> HIDE DEF old
<1>6. Line(s, t, g)
  <2>1. ASSUME NEW j \in 1..Len(t)
        PROVE  s[t[j]].st = "pending" /\ s[t[j]].group = g
    <3>1. old(j) \in 1..Len(r) /\ t[j] = r[old(j)] BY <1>2
    <3> QED BY <3>1 DEF Line
  <2>2. ASSUME NEW j \in 1..Len(t), NEW l \in 1..Len(t), j < l
        PROVE  t[j] # t[l] /\ s[t[j]].priority <= s[t[l]].priority
    <3>1. /\ old(j) \in 1..Len(r) /\ t[j] = r[old(j)]
          /\ old(l) \in 1..Len(r) /\ t[l] = r[old(l)] /\ old(j) < old(l)
      BY <1>2, <1>3, <2>2
    <3> QED BY <3>1 DEF Line
  <2> QED BY <2>1, <2>2 DEF Line
<1>7. \A j \in 1..Len(t) : t[j] # r[i]
  <2> SUFFICES ASSUME NEW j \in 1..Len(t), t[j] = r[i] PROVE FALSE OBVIOUS
  <2>1. old(j) \in 1..Len(r) /\ old(j) # i /\ r[old(j)] = r[i] BY <1>2
  <2>2. old(j) < i \/ i < old(j) BY <2>1
  <2> QED BY <2>1, <2>2 DEF Line
<1> QED BY <1>5, <1>6, <1>7 DEF Missing, Survive

\* h is put behind the k requests whose priority is at least its own.
LEMMA LineInsert ==
    ASSUME NEW s, NEW r \in Seq(Handles), NEW g, Line(s, r, g), NEW h \in Handles,
           s[h].st = "pending", s[h].group = g, s[h].priority \in Nat,
           Missing(r, h), \A i \in 1..Len(r) : s[r[i]].priority \in Nat,
           NEW k, Place(s, r, h, k),
           NEW t \in Seq(Handles), Len(t) = Len(r) + 1, t[k + 1] = h,
           CutAt(t, k + 1, r)
    PROVE  Line(s, t, g) /\ Survive(r, 0, t) /\ ~Missing(t, h)
<1> DEFINE n == Len(r)
           new(i) == IF i <= k THEN i ELSE i + 1
           P(i) == s[r[i]].priority
<1>0. /\ \A i \in 1..k : ~(s[h].priority < s[r[i]].priority)
      /\ k < Len(r) => s[h].priority < s[r[k + 1]].priority
      /\ \A i \in 1..n : r[i] # h
  BY DEF Place, Missing
<1>1. n \in Nat /\ k \in Nat /\ k <= n /\ k + 1 \in 1..Len(t) BY DEF Place
<1>2. \A i \in 1..n : new(i) \in 1..Len(t) /\ t[new(i)] = r[i] BY <1>1 DEF CutAt
<1>3. \A j \in 1..Len(t) : j = k + 1 \/ \E i \in 1..n : j = new(i)
  <2> SUFFICES ASSUME NEW j \in 1..Len(t), j # k + 1
               PROVE  \E i \in 1..n : j = new(i)
    OBVIOUS
  <2>1. CASE j <= k
    <3>1. j \in 1..n /\ j = new(j) BY <1>1, <2>1
    <3> QED BY <3>1
  <2>2. CASE j > k + 1
    <3>1. j - 1 \in 1..n /\ j = new(j - 1) BY <1>1, <2>2
    <3> QED BY <3>1
  <2> QED BY <1>1, <2>1, <2>2
<1>4. \A i, j \in 1..n : new(i) < new(j) => i < j BY <1>1
<1>5. /\ \A i \in 1..n : new(i) < k + 1 => i \in 1..k
      /\ \A i \in 1..n : k + 1 < new(i) => k + 1 <= i
  BY <1>1
<1>6. \A i \in 1..n : P(i) \in Nat OBVIOUS
<1>7. \A i \in 1..k : P(i) <= s[h].priority
  <2> SUFFICES ASSUME NEW i \in 1..k PROVE P(i) <= s[h].priority OBVIOUS
  <2>1. i \in 1..n BY <1>1
  <2>2. ~(s[h].priority < P(i)) BY <1>0
  <2> HIDE DEF P
  <2> QED BY <1>6, <2>1, <2>2
<1>8. \A i \in 1..n : k + 1 <= i => s[h].priority <= P(i)
  <2> SUFFICES ASSUME NEW i \in 1..n, k + 1 <= i PROVE s[h].priority <= P(i)
    OBVIOUS
  <2>1. k + 1 \in 1..n /\ k < n BY <1>1
  <2>2. s[h].priority < P(k + 1) BY <1>0, <2>1
  <2>3. P(k + 1) <= P(i)
    <3>1. CASE k + 1 = i BY <1>6, <3>1
    <3>2. CASE k + 1 < i BY <2>1, <3>2 DEF Line
    <3> QED BY <1>1, <3>1, <3>2
  <2> HIDE DEF P
  <2> QED BY <1>6, <2>1, <2>2, <2>3
<1> HIDE DEF new
<1>9. ASSUME NEW j \in 1..Len(t)
      PROVE  s[t[j]].st = "pending" /\ s[t[j]].group = g
  <2>1. CASE j = k + 1 BY <2>1
  <2>2. CASE j # k + 1
    <3>1. PICK i \in 1..n : j = new(i) BY <1>3, <2>2
    <3>2. t[j] = r[i] BY <1>2, <3>1
    <3> QED BY <3>1, <3>2 DEF Line
  <2> QED BY <2>1, <2>2
<1>10. ASSUME NEW a \in 1..Len(t), NEW b \in 1..Len(t), a < b
       PROVE  t[a] # t[b] /\ s[t[a]].priority <= s[t[b]].priority
  <2>1. CASE a = k + 1
    <3>1. PICK i \in 1..n : b = new(i) BY <1>1, <1>3, <1>10, <2>1
    <3>2. k + 1 <= i BY <1>5, <1>10, <2>1, <3>1
    <3> QED BY <1>0, <1>2, <1>8, <2>1, <3>1, <3>2
  <2>2. CASE b = k + 1
    <3>1. PICK i \in 1..n : a = new(i) BY <1>1, <1>3, <1>10, <2>2
    <3>2. i \in 1..k BY <1>5, <1>10, <2>2, <3>1
    <3> QED BY <1>0, <1>2, <1>7, <2>2, <3>1, <3>2
  <2>3. CASE a # k + 1 /\ b # k + 1
    <3>1. PICK i \in 1..n : a = new(i) BY <1>3, <2>3
    <3>2. PICK j \in 1..n : b = new(j) BY <1>3, <2>3
    <3>3. i < j BY <1>4, <1>10, <3>1, <3>2
    <3> QED BY <1>2, <3>1, <3>2, <3>3 DEF Line
  <2> QED BY <2>1, <2>2, <2>3
<1>11. Line(s, t, g) BY <1>9, <1>10 DEF Line
<1>12. Survive(r, 0, t) BY <1>2 DEF Survive
<1>13. ~Missing(t, h) BY <1>1 DEF Missing
<1> QED BY <1>11, <1>12, <1>13

\* A handle that neither waited nor waits now concerns no queue.
LEMMA LinedElse ==
    ASSUME NEW s \in [Handles -> HandleType], NEW q \in [Groups -> Seq(Handles)],
           Lined(s, q), NEW h \in Handles, s[h].st # "pending",
           NEW v, v.st # "pending"
    PROVE  Lined([s EXCEPT ![h] = v], q)
<1> DEFINE z == [s EXCEPT ![h] = v]
<1>1. ASSUME NEW g \in Groups PROVE Line(z, q[g], g)
  <2>1. Line(s, q[g], g) BY DEF Lined
  <2>2. \A i \in 1..Len(q[g]) : q[g][i] # h BY <2>1 DEF Line
  <2>3. q[g] \in Seq(Handles) OBVIOUS
  <2> QED BY <2>1, <2>2, <2>3, LineElse
<1>2. \A k \in Handles : z[k].st = "pending" => k # h /\ z[k] = s[k] OBVIOUS
<1> HIDE DEF z
<1>3. Lined(z, q) BY <1>1, <1>2 DEF Lined
<1> QED BY <1>3 DEF z

\* The i-th request of the group g leaves the queue and waits no longer.
LEMMA LinedPop ==
    ASSUME NEW s \in [Handles -> HandleType], NEW q \in [Groups -> Seq(Handles)],
           Lined(s, q), NEW g \in Groups, NEW i \in 1..Len(q[g]),
           NEW t \in Seq(Handles), CutAt(q[g], i, t), NEW v, v.st # "pending"
    PROVE  Lined([s EXCEPT ![q[g][i]] = v], [q EXCEPT ![g] = t])
<1> DEFINE h == q[g][i]
           z == [s EXCEPT ![h] = v]
           u == [q EXCEPT ![g] = t]
<1>0. q[g] \in Seq(Handles) /\ h \in Handles OBVIOUS
<1>1. Line(s, q[g], g) /\ s[h].st = "pending" /\ s[h].group = g
  BY DEF Lined, Line
<1>2. /\ Line(s, t, g) /\ \A j \in 1..Len(t) : t[j] # h
      /\ \A j \in 1..Len(q[g]) : j # i => \E l \in 1..Len(t) : t[l] = q[g][j]
  <2> DEFINE r == q[g]
  <2>1. r \in Seq(Handles) /\ Line(s, r, g) /\ i \in 1..Len(r) /\ CutAt(r, i, t)
    BY <1>0, <1>1
  <2> HIDE DEF r
  <2>2. Line(s, t, g) /\ Missing(t, r[i]) /\ Survive(r, i, t) BY <2>1, LineCut
  <2> QED BY <2>2 DEF r, Missing, Survive
<1>3. /\ \A k \in Groups : u[k] = IF k = g THEN t ELSE q[k]
      /\ \A k \in Handles : z[k] = IF k = h THEN v ELSE s[k]
  BY <1>0
<1>4. ASSUME NEW k \in Groups PROVE Line(z, u[k], k)
  <2>1. CASE k = g
    <3>1. Line(z, t, g) BY <1>2, LineElse
    <3> QED BY <1>3, <2>1, <3>1
  <2>2. CASE k # g
    <3>1. Line(s, q[k], k) BY DEF Lined
    <3>2. \A j \in 1..Len(q[k]) : q[k][j] # h BY <1>1, <2>2, <3>1 DEF Line
    <3>3. q[k] \in Seq(Handles) OBVIOUS
    <3>4. Line(z, q[k], k) BY <3>1, <3>2, <3>3, LineElse
    <3> QED BY <1>3, <2>2, <3>4
  <2> QED BY <2>1, <2>2
<1>5. ASSUME NEW k \in Handles, z[k].st = "pending"
      PROVE  \E j \in 1..Len(u[z[k].group]) : u[z[k].group][j] = k
  <2>1. k # h /\ z[k] = s[k] BY <1>3, <1>5
  <2>2. s[k].group \in Groups BY <1>5, <2>1 DEF HandleType, None
  <2>3. PICK j \in 1..Len(q[s[k].group]) : q[s[k].group][j] = k
    BY <1>5, <2>1 DEF Lined
  <2>4. CASE s[k].group = g
    <3>1. j \in 1..Len(q[g]) /\ j # i /\ q[g][j] = k BY <2>1, <2>3, <2>4
    <3>2. \E l \in 1..Len(t) : t[l] = k BY <1>2, <3>1
    <3>3. u[z[k].group] = t BY <1>3, <2>1, <2>4
    <3> QED BY <3>2, <3>3
  <2>5. CASE s[k].group # g
    <3>1. u[z[k].group] = q[s[k].group] BY <1>3, <2>1, <2>2, <2>5
    <3> QED BY <2>3, <3>1
  <2> QED BY <2>4, <2>5
<1> HIDE DEF u, z
<1>6. Lined(z, u) BY <1>4, <1>5 DEF Lined
<1> QED BY <1>6 DEF z, u, h

\* A handle that did not wait joins the queue of its group.
LEMMA LinedPush ==
    ASSUME PoolAssumption,
           NEW s \in [Handles -> HandleType], NEW q \in [Groups -> Seq(Handles)],
           Lined(s, q), NEW g \in Groups, NEW h \in Handles, s[h].st # "pending",
           NEW z \in [Handles -> HandleType], NEW v, z = [s EXCEPT ![h] = v],
           v.st = "pending", v.group = g, v.priority \in Priorities,
           NEW k, Place(z, q[g], h, k), NEW t \in Seq(Handles), Len(t) = Len(q[g]) + 1, t[k + 1] = h,
           CutAt(t, k + 1, q[g])
    PROVE  Lined(z, [q EXCEPT ![g] = t])
<1> DEFINE u == [q EXCEPT ![g] = t]
           r == q[g]
<1>1. r \in Seq(Handles) /\ \A i \in 1..Len(r) : r[i] \in Handles OBVIOUS
<1>2. /\ \A j \in Groups : u[j] = IF j = g THEN t ELSE q[j]
      /\ \A j \in Handles : z[j] = IF j = h THEN v ELSE s[j]
  OBVIOUS
<1>3. \A j \in Groups : \A i \in 1..Len(q[j]) : q[j][i] # h BY DEF Lined, Line
<1>4. ASSUME NEW j \in Groups PROVE Line(z, q[j], j)
  <2>1. q[j] \in Seq(Handles) /\ Line(s, q[j], j) BY DEF Lined
  <2> QED BY <1>3, <2>1, LineElse
<1>5. Line(z, t, g) /\ Survive(r, 0, t) /\ ~Missing(t, h)
  <2>1. z[h].st = "pending" /\ z[h].group = g /\ z[h].priority \in Nat
    BY <1>2 DEF PoolAssumption
  <2>2. Line(z, r, g) BY <1>4
  <2>3. ASSUME NEW i \in 1..Len(r) PROVE r[i] # h /\ z[r[i]].priority \in Nat
    <3>1. z[r[i]].st = "pending" /\ r[i] \in Handles BY <1>1, <2>2 DEF Line
    <3>2. z[r[i]].priority \in Priorities
      <4>1. z[r[i]] \in HandleType BY <3>1
      <4>2. PICK a : a = z[r[i]] OBVIOUS
      <4>3. a \in HandleType /\ a.st = "pending" BY <3>1, <4>1, <4>2
      <4>4. a.priority \in Priorities BY <4>3 DEF HandleType, None
      <4> QED BY <4>2, <4>4
    <3> QED BY <1>3, <3>2 DEF PoolAssumption
  <2>4. Missing(r, h) /\ \A i \in 1..Len(r) : z[r[i]].priority \in Nat
    BY <2>3 DEF Missing
  <2>5. r \in Seq(Handles) BY <1>1
  <2>6. Place(z, r, h, k) /\ Len(t) = Len(r) + 1 /\ CutAt(t, k + 1, r) OBVIOUS
  <2> HIDE DEF r
  <2> QED BY <2>1, <2>2, <2>4, <2>5, <2>6, LineInsert
<1>6. ASSUME NEW j \in Groups PROVE Line(z, u[j], j) BY <1>2, <1>4, <1>5
<1>7. ASSUME NEW j \in Handles, z[j].st = "pending"
      PROVE  \E i \in 1..Len(u[z[j].group]) : u[z[j].group][i] = j
  <2>1. CASE j = h
    <3>1. u[z[j].group] = t BY <1>2, <2>1
    <3> QED BY <1>5, <2>1, <3>1 DEF Missing
  <2>2. CASE j # h
    <3>1. z[j] = s[j] /\ s[j].group \in Groups
      BY <1>2, <1>7, <2>2 DEF HandleType, None
    <3>2. PICK i \in 1..Len(q[s[j].group]) : q[s[j].group][i] = j
      BY <1>7, <3>1 DEF Lined
    <3>3. CASE s[j].group = g
      <4>1. u[z[j].group] = t BY <1>2, <3>1, <3>3
      <4>2. i \in 1..Len(r) /\ r[i] = j BY <3>2, <3>3
      <4>3. i # 0 BY <4>2
      <4> QED BY <1>5, <4>1, <4>2, <4>3 DEF Survive
    <3>4. CASE s[j].group # g
      <4>1. u[z[j].group] = q[s[j].group] BY <1>2, <3>1, <3>4
      <4> QED BY <3>2, <4>1
    <3> QED BY <3>3, <3>4
  <2> QED BY <2>1, <2>2
<1> HIDE DEF u
<1>8. Lined(z, u) BY <1>6, <1>7 DEF Lined
<1> QED BY <1>8 DEF u

-----------------------------------------------------------------------------
(* Steps of requests, and of handles.                                      *)

\* A handle without a socket may start or stop waiting.
LEMMA SetHandleKept ==
    ASSUME NEW p, Good(p), Kept(p), NEW h \in Handles, p.handle[h].st # "active",
           NEW v, v.st # "active"
    PROVE  LET q == [p EXCEPT !.handle[h] = v]
           IN  /\ Kept(q) /\ q.handle = [p.handle EXCEPT ![h] = v]
               /\ q.pending_requests = p.pending_requests
               /\ q.group_map_ = p.group_map_ /\ q.conn = p.conn
               /\ q.pool_generation_number_ = p.pool_generation_number_
<1> DEFINE q == [p EXCEPT !.handle[h] = v]
<1>1. p \in IntPoolType BY DEF Good
<1>2. /\ q.conn = p.conn /\ q.handle = [p.handle EXCEPT ![h] = v]
      /\ q.pending_requests = p.pending_requests
      /\ q.pool_generation_number_ = p.pool_generation_number_
      /\ q.group_map_ = p.group_map_ /\ q.backup_job = p.backup_job
      /\ q.backup_task = p.backup_task
  BY <1>1 DEF IntPoolType
<1> HIDE DEF q
<1>3. Homes(q) BY <1>2 DEF Kept, Homes, Jobs
<1>4. \A k \in Handles : q.handle[k] = IF k = h THEN v ELSE p.handle[k]
  BY <1>1, <1>2, FieldTypes
<1>5. Held(q) BY <1>2, <1>4 DEF Kept, Held
<1>6. Fresh(q) BY <1>2 DEF Kept, Fresh
<1> QED BY <1>2, <1>3, <1>5, <1>6 DEF Kept, q

\* The queue of a group of the map gets a new value.
PutQueue(p, g, t) == [p EXCEPT !.pending_requests[g] = t]

LEMMA PutQueueKept ==
    ASSUME NEW p, Good(p), Kept(p), NEW g \in p.group_map_, NEW t
    PROVE  LET q == PutQueue(p, g, t)
           IN  /\ Kept(q) /\ q.handle = p.handle /\ q.conn = p.conn
               /\ q.pending_requests = [p.pending_requests EXCEPT ![g] = t]
               /\ q.group_map_ = p.group_map_
               /\ q.pool_generation_number_ = p.pool_generation_number_
<1> DEFINE q == PutQueue(p, g, t)
<1>1. p \in IntPoolType BY DEF Good
<1>2. /\ q.conn = p.conn /\ q.handle = p.handle
      /\ q.pending_requests = [p.pending_requests EXCEPT ![g] = t]
      /\ q.pool_generation_number_ = p.pool_generation_number_
      /\ q.group_map_ = p.group_map_ /\ q.backup_job = p.backup_job
      /\ q.backup_task = p.backup_task
  BY <1>1 DEF IntPoolType, PutQueue
<1> HIDE DEF q
<1>3. \A k \in Groups : q.pending_requests[k] = IF k = g THEN t ELSE p.pending_requests[k]
  BY <1>1, <1>2, FieldTypes
<1>4. Homes(q) BY <1>2, <1>3 DEF Kept, Homes, Jobs
<1>5. Held(q) BY <1>2 DEF Kept, Held
<1>6. Fresh(q) BY <1>2 DEF Kept, Fresh
<1> QED BY <1>2, <1>4, <1>5, <1>6 DEF Kept, q

LEMMA RemoveRequestKept ==
    ASSUME NEW p, Good(p), Kept(p), NEW g \in Groups,
           NEW i \in 1..Len(p.pending_requests[g])
    PROVE  LET q == RemoveRequestFromQueue(p, g, i)
           IN  /\ Kept(q) /\ q.handle = p.handle /\ q.conn = p.conn
               /\ g \in q.group_map_
               /\ q.pool_generation_number_ = p.pool_generation_number_
               /\ \E t \in Seq(Handles) :
                     /\ CutAt(p.pending_requests[g], i, t)
                     /\ q.pending_requests = [p.pending_requests EXCEPT ![g] = t]
<1> DEFINE old == p.pending_requests[g]
           t == SubSeq(old, 1, i - 1) \o SubSeq(old, i + 1, Len(old))
           q == RemoveRequestFromQueue(p, g, i)
<1>1. old \in Seq(Handles) BY FieldTypes DEF Good
<1>2. t \in Seq(Handles) /\ CutAt(old, i, t)
  <2>1. i \in 1..Len(old) OBVIOUS
  <2> HIDE DEF old
  <2> QED BY <1>1, <2>1, CutSeq
<1>3. g \in p.group_map_
  <2>1. p.pending_requests[g] # <<>> BY <1>1
  <2> QED BY <2>1 DEF Kept, Homes
<1>4. q = PutQueue(p, g, t) BY DEF RemoveRequestFromQueue, PutQueue
<1> HIDE DEF t, q, old
<1>5. /\ Kept(q) /\ q.handle = p.handle /\ q.conn = p.conn
      /\ q.pending_requests = [p.pending_requests EXCEPT ![g] = t]
      /\ q.group_map_ = p.group_map_
      /\ q.pool_generation_number_ = p.pool_generation_number_
  BY <1>3, <1>4, PutQueueKept
<1> QED BY <1>2, <1>3, <1>5 DEF q, old

\* The handle gives its socket back; no other handle holds it.
LEMMA TakeBackKept ==
    ASSUME NEW p, Good(p), Kept(p), NEW h \in Handles, p.handle[h].st = "active"
    PROVE  LET hd == p.handle[h]
               q == [p EXCEPT !.handed_out_socket_count_ = @ - 1,
                              !.active_socket_count[hd.group] = @ - 1,
                              !.conn[hd.conn] = Free,
                              !.handle[h] = None]
           IN  /\ Kept(q) /\ q.handle = [p.handle EXCEPT ![h] = None]
               /\ q.pending_requests = p.pending_requests
               /\ hd.group \in q.group_map_
               /\ p.conn[hd.conn].gen = hd.pool_id
               /\ q.pool_generation_number_ = p.pool_generation_number_
<1> DEFINE hd == p.handle[h]
           c == hd.conn
           g == hd.group
           n == p.handed_out_socket_count_ - 1
           m == p.active_socket_count[g] - 1
           q == [p EXCEPT !.handed_out_socket_count_ = n,
                          !.active_socket_count[g] = m,
                          !.conn[c] = Free, !.handle[h] = None]
<1>1. p \in IntPoolType BY DEF Good
<1>2. c \in Conns BY <1>1, FieldTypes DEF HandleType, None
<1>3. /\ q.conn = [p.conn EXCEPT ![c] = Free]
      /\ q.handle = [p.handle EXCEPT ![h] = None]
      /\ q.pending_requests = p.pending_requests
      /\ q.pool_generation_number_ = p.pool_generation_number_
      /\ q.group_map_ = p.group_map_ /\ q.backup_job = p.backup_job
      /\ q.backup_task = p.backup_task
  <2> HIDE DEF n, m, c, g
  <2> QED BY <1>1 DEF IntPoolType
<1>4. /\ p.conn[c].st = "active" /\ p.conn[c].group = g
      /\ p.conn[c].gen = hd.pool_id
  BY DEF Good, Owned, Kept, Held
<1>5. \A k \in Handles : k # h /\ p.handle[k].st = "active" =>
        p.handle[k].conn \in Conns /\ p.handle[k].conn # c
  BY <1>1, FieldTypes DEF Good, Owned, HandleType, None
<1>6. g \in p.group_map_ BY <1>2, <1>4 DEF Kept, Homes, Free
<1> HIDE DEF q, c, g
<1>7. /\ \A d \in Conns : q.conn[d] = IF d = c THEN Free ELSE p.conn[d]
      /\ \A k \in Handles : q.handle[k] = IF k = h THEN None ELSE p.handle[k]
  BY <1>1, <1>2, <1>3, FieldTypes
<1>8. \A k : Jobs(q, k) = Jobs(p, k) BY <1>4, <1>7 DEF Jobs, Free
<1>9. Homes(q) BY <1>3, <1>7, <1>8 DEF Kept, Homes
<1>10. Held(q)
  <2>1. ASSUME NEW k \in Handles, q.handle[k].st = "active"
        PROVE  q.conn[q.handle[k].conn].gen = q.handle[k].pool_id
    <3>1. k # h /\ q.handle[k] = p.handle[k] BY <1>7, <2>1 DEF None
    <3>2. p.handle[k].conn \in Conns /\ p.handle[k].conn # c BY <1>5, <2>1, <3>1
    <3> QED BY <1>7, <2>1, <3>1, <3>2 DEF Kept, Held
  <2>2. ASSUME NEW d \in Conns, q.conn[d].st = "active"
        PROVE  \E k \in Handles : q.handle[k].st = "active" /\ q.handle[k].conn = d
    <3>1. d # c /\ p.conn[d].st = "active" BY <1>7, <2>2 DEF Free
    <3>2. PICK k \in Handles : p.handle[k].st = "active" /\ p.handle[k].conn = d
      BY <3>1 DEF Kept, Held
    <3>3. k # h BY <3>1, <3>2 DEF c
    <3> QED BY <1>7, <3>2, <3>3
  <2> QED BY <2>1, <2>2 DEF Held
<1>11. Fresh(q) BY <1>3, <1>7 DEF Kept, Fresh, Free
<1> QED BY <1>3, <1>4, <1>6, <1>9, <1>10, <1>11 DEF Kept, q, c, g

LEMMA TrimsOwn ==
    ASSUME NEW p, Good(p), Own(p), NEW q, Homes(q), Trims(p, q)
    PROVE  Own(q)
BY TrimsKeeps DEF Own, Kept, Trims

LEMMA StalledOwn ==
    ASSUME PoolAssumption, NEW p, Good(p), Own(p),
           NEW q \in CheckForStalledSocketGroups(p)
    PROVE  Own(q)
<1>1. Homes(q) /\ Trims(p, q) BY CheckForStalledHomes DEF Own, Kept
<1> QED BY <1>1, TrimsOwn

\* What the two invariants say of the head of a queue, or any other place of it.
LEMMA QueuedHandle ==
    ASSUME NEW p, Good(p), Own(p), NEW g \in Groups,
           NEW i \in 1..Len(p.pending_requests[g])
    PROVE  /\ p.pending_requests[g][i] \in Handles
           /\ p.handle[p.pending_requests[g][i]].st = "pending"
<1>1. p.pending_requests[g] \in Seq(Handles) BY FieldTypes DEF Good
<1> QED BY <1>1 DEF Own, Lined, Line

\* A request leaves its queue and its handle is reset.
LEMMA GiveUpOwn ==
    ASSUME NEW p, Good(p), Own(p), NEW g \in Groups,
           NEW i \in 1..Len(p.pending_requests[g]),
           NEW h, h = p.pending_requests[g][i]
    PROVE  Own([RemoveRequestFromQueue(p, g, i) EXCEPT !.handle[h] = None])
<1> DEFINE r == RemoveRequestFromQueue(p, g, i)
           q == [r EXCEPT !.handle[h] = None]
<1>1. h \in Handles /\ p.handle[h].st = "pending" BY QueuedHandle
<1>2. /\ Kept(r) /\ r.handle = p.handle
      /\ \E t \in Seq(Handles) :
            /\ CutAt(p.pending_requests[g], i, t)
            /\ r.pending_requests = [p.pending_requests EXCEPT ![g] = t]
  BY RemoveRequestKept DEF Own
<1>3. Good(r)
  <2>1. p.pending_requests[g] \in Seq(Handles) BY FieldTypes DEF Good
  <2>2. i \in 1..(Len(p.pending_requests[g]) + 1) BY <2>1, LenProperties
  <2> QED BY <2>2, RemoveRequestGood
<1>4. None.st = "none" BY DEF None
<1>5. r.handle[h].st # "active" /\ None.st # "active" BY <1>1, <1>2, <1>4
<1> HIDE DEF r
<1>6. /\ Kept(q) /\ q.handle = [r.handle EXCEPT ![h] = None]
      /\ q.pending_requests = r.pending_requests
  BY <1>1, <1>2, <1>3, <1>5, SetHandleKept
<1>7. PICK t \in Seq(Handles) :
         /\ CutAt(p.pending_requests[g], i, t)
         /\ r.pending_requests = [p.pending_requests EXCEPT ![g] = t]
  BY <1>2
<1>8. /\ p.handle \in [Handles -> HandleType]
      /\ p.pending_requests \in [Groups -> Seq(Handles)]
      /\ Lined(p.handle, p.pending_requests)
  BY FieldTypes DEF Good, Own
<1>9. Lined([p.handle EXCEPT ![p.pending_requests[g][i]] = None],
            [p.pending_requests EXCEPT ![g] = t])
  BY <1>4, <1>7, <1>8, LinedPop
<1> HIDE DEF q
<1>10. Own(q) BY <1>2, <1>6, <1>7, <1>9 DEF Own
<1> QED BY <1>10 DEF q, r

\* The pool, and the groups and timers, after one of the handlers.
LEMMA RequestSocketOwn ==
    ASSUME PoolAssumption, IInv, Owning, NEW h \in Handles, NEW g \in Groups,
           NEW pri \in Priorities, RequestSocket(h, g, pri)
    PROVE  Owning'
<1> DEFINE v == [st |-> "pending", group |-> g, priority |-> pri]
           Q(r) == [r.pool EXCEPT !.handle[h] = v]
<1>1. PICK r \in RequestSocketInternal(pool, g, h) :
        IF r.rv = "ERR_IO_PENDING"
        THEN \E queue \in InsertRequestIntoQueue(Q(r), Q(r).pending_requests[g], h) :
                pool' = [Q(r) EXCEPT !.pending_requests[g] = queue]
        ELSE pool' = r.pool
  BY DEF RequestSocket
<1>2. pool.handle[h].st = "none"
  <2>1. pool.handle[h] = None BY Zenon DEF RequestSocket
  <2> QED BY <2>1 DEF None
<1>3. Good(pool) /\ Kept(pool) /\ Total(pool) <= max_sockets_
      /\ Lined(pool.handle, pool.pending_requests)
  BY DEF IInv, Safe, Owning, Own
<1>4. Good(r.pool) BY <1>3, RequestSocketInternalGood
<1>5. Answers(pool, r, g, h)
  <2>1. pool.handle[h].st # "active" BY <1>2
  <2> QED BY <1>3, <2>1, RequestSocketInternalKept
<1>6. /\ pool.handle \in [Handles -> HandleType]
      /\ pool.pending_requests \in [Groups -> Seq(Handles)]
  BY <1>3, FieldTypes DEF Good
<1>7. CASE r.rv \in {"OK", "ERR_SOCKET"}
  <2>1. pool' = r.pool BY <1>1, <1>7
  <2>2. Gets(pool.handle, pool'.handle, h) /\ Kept(pool')
        /\ pool'.pending_requests = pool.pending_requests
    BY <1>5, <1>7, <2>1 DEF Answers
  <2>3. PICK w : w.st = "active" /\ pool'.handle = [pool.handle EXCEPT ![h] = w]
    BY <2>2 DEF Gets
  <2>4. pool.handle[h].st # "pending" /\ w.st # "pending" BY <1>2, <2>3
  <2>5. Lined([pool.handle EXCEPT ![h] = w], pool.pending_requests)
    BY <1>3, <1>6, <2>4, LinedElse
  <2> QED BY <2>2, <2>3, <2>5 DEF Owning, Own
<1>8. CASE r.rv = "ERR"
  <2>1. pool' = r.pool BY <1>1, <1>8
  <2> QED BY <1>3, <1>5, <1>8, <2>1 DEF Answers, Owning, Own
<1>9. CASE r.rv = "ERR_IO_PENDING"
  <2> DEFINE q == Q(r)
  <2>1. /\ Kept(r.pool) /\ r.pool.handle = pool.handle /\ g \in r.pool.group_map_
        /\ r.pool.pending_requests = pool.pending_requests
    BY <1>5, <1>9 DEF Answers
  <2>2. v \in HandleType /\ v.st = "pending" /\ v.group = g /\ v.priority \in Priorities
    BY DEF HandleType
  <2>3. r.pool.handle[h].st # "active" /\ v.st # "active" BY <1>2, <2>1
  <2> HIDE DEF v
  <2>4. /\ Kept(q) /\ q.handle = [r.pool.handle EXCEPT ![h] = v]
        /\ q.pending_requests = r.pool.pending_requests
        /\ q.group_map_ = r.pool.group_map_
    BY <1>4, <2>1, <2>3, SetHandleKept
  <2>5. Good(q) BY <1>4, <2>2, <2>3, SetHandleGood
  <2>6. PICK queue \in InsertRequestIntoQueue(q, q.pending_requests[g], h) :
          pool' = [q EXCEPT !.pending_requests[g] = queue]
    BY <1>1, <1>9
  <2> HIDE DEF q, Q
  <2> DEFINE s == q.pending_requests[g]
  <2>7. PICK k \in 0..Len(s) :
          /\ \A i \in 1..k : ~(q.handle[h].priority < q.handle[s[i]].priority)
          /\ k < Len(s) => q.handle[h].priority < q.handle[s[k + 1]].priority
          /\ queue = SubSeq(s, 1, k) \o <<h>> \o SubSeq(s, k + 1, Len(s))
    BY DEF InsertRequestIntoQueue
  <2>8. Place(q.handle, s, h, k) BY <2>7 DEF Place
  <2>9. s \in Seq(Handles) BY <2>5, FieldTypes DEF Good
  <2>10. /\ queue \in Seq(Handles) /\ Len(queue) = Len(s) + 1 /\ queue[k + 1] = h
         /\ CutAt(queue, k + 1, s)
    <3> DEFINE u == Inserted(s, k, h)
    <3> HIDE DEF s
    <3>1. k \in 0..Len(s) OBVIOUS
    <3>2. u \in Seq(Handles) /\ Len(u) = Len(s) + 1 /\ u[k + 1] = h /\ CutAt(u, k + 1, s)
      BY <2>9, <3>1, InsertSeq
    <3>3. queue = u BY <2>7 DEF Inserted
    <3> HIDE DEF u
    <3> QED BY <3>2, <3>3
  <2>11. pool' = PutQueue(q, g, queue) BY <2>6 DEF PutQueue
  <2>12. /\ Kept(pool') /\ pool'.handle = q.handle
         /\ pool'.pending_requests = [q.pending_requests EXCEPT ![g] = queue]
    BY <2>1, <2>4, <2>5, <2>11, PutQueueKept
  <2>13. q.handle \in [Handles -> HandleType] /\ q.handle = [pool.handle EXCEPT ![h] = v]
    BY <2>1, <2>4, <2>5, FieldTypes DEF Good
  <2>14. s = pool.pending_requests[g] /\ pool.handle[h].st # "pending"
    BY <1>2, <2>1, <2>4
  <2>15. Lined(q.handle, [pool.pending_requests EXCEPT ![g] = queue])
    <3> HIDE DEF s
    <3>1. /\ Place(q.handle, pool.pending_requests[g], h, k)
          /\ Len(queue) = Len(pool.pending_requests[g]) + 1
          /\ CutAt(queue, k + 1, pool.pending_requests[g])
      BY <2>8, <2>10, <2>14
    <3> QED BY <1>3, <1>6, <2>2, <2>10, <2>13, <2>14, <3>1, LinedPush
  <2> QED BY <2>1, <2>4, <2>12, <2>15 DEF Owning, Own
<1> QED BY <1>5, <1>7, <1>8, <1>9 DEF Answers

LEMMA CancelRequestOwn ==
    ASSUME PoolAssumption, IInv, Owning, NEW h \in Handles, CancelRequest(h)
    PROVE  Owning'
<1> DEFINE g == pool.handle[h].group
           Q(i) == [RemoveRequestFromQueue(pool, g, i) EXCEPT !.handle[h] = None]
<1>1. PICK i \in 1..Len(pool.pending_requests[g]) :
        /\ pool.pending_requests[g][i] = h
        /\ IF Jobs(Q(i), g) # {} /\ ReachedMaxSocketsLimit(Q(i))
           THEN \E c \in Jobs(Q(i), g) :
                   pool' \in CheckForStalledSocketGroups(RemoveConnectJob(Q(i), c))
           ELSE pool' = Q(i)
  BY DEF CancelRequest
<1>2. Good(pool) /\ Own(pool) BY DEF IInv, Safe, Owning
<1>3. g \in Groups BY <1>2, FieldTypes DEF CancelRequest, Good, HandleType, None
<1> DEFINE r == RemoveRequestFromQueue(pool, g, i)
           q == Q(i)
<1>4. Own(q)
  <2> HIDE DEF g
  <2> QED BY <1>1, <1>2, <1>3, GiveUpOwn
<1>5. Good(q)
  <2>1. pool.pending_requests[g] \in Seq(Handles) BY <1>2, <1>3, FieldTypes DEF Good
  <2>2. i \in 1..(Len(pool.pending_requests[g]) + 1) BY <2>1, LenProperties
  <2>3. Good(r)
    <3> HIDE DEF g
    <3> QED BY <1>2, <1>3, <2>2, RemoveRequestGood
  <2>4. None \in HandleType /\ None.st # "active" BY DEF HandleType, None
  <2>5. q = [r EXCEPT !.handle[h] = None] OBVIOUS
  <2> HIDE DEF r, q
  <2> QED BY <2>3, <2>4, <2>5, SetHandleGood
<1>6. ASSUME NEW c \in Jobs(q, g)
      PROVE  Good(RemoveConnectJob(q, c)) /\ Own(RemoveConnectJob(q, c))
  <2> HIDE DEF q, g
  <2>1. c \in Conns /\ q.conn[c].st = "connecting" BY DEF Jobs
  <2>2. Good(RemoveConnectJob(q, c)) BY <1>5, <2>1, RemoveConnectJobGood
  <2>3. Homes(RemoveConnectJob(q, c)) /\ Trims(q, RemoveConnectJob(q, c))
    BY <1>4, <1>5, <2>1, RemoveConnectJobHomes DEF Own, Kept
  <2> QED BY <1>4, <1>5, <2>2, <2>3, TrimsOwn
<1>7. Own(pool')
  <2> HIDE DEF Q, g
  <2> QED BY <1>1, <1>4, <1>6, StalledOwn
<1> QED BY <1>7 DEF Owning

LEMMA ReleaseSocketOwn ==
    ASSUME PoolAssumption, IInv, Owning, NEW h \in Handles,
           NEW reusable \in BOOLEAN, ReleaseSocket(h, reusable)
    PROVE  Owning'
<1> DEFINE hd == pool.handle[h]
           gen == pool.conn[hd.conn].gen
           q == [pool EXCEPT !.handed_out_socket_count_ = @ - 1,
                             !.active_socket_count[hd.group] = @ - 1,
                             !.conn[hd.conn] = Free,
                             !.handle[h] = None]
           a == AddIdleSocket(q, hd.conn, gen, hd.group)
           w == OnAvailableSocketSlot(a, hd.group, MayHaveStalledGroups(a))
<1>1. \/ pool' \in CheckForStalledSocketGroups(q)
      \/ /\ hd.pool_id = pool.pool_generation_number_
         /\ pool' \in CheckForStalledSocketGroups(w)
  BY DEF ReleaseSocket
<1>2. Good(pool) /\ Kept(pool) /\ Lined(pool.handle, pool.pending_requests)
      /\ hd.st = "active"
  BY DEF IInv, Safe, Owning, Own, ReleaseSocket
<1>3. /\ Good(q) /\ hd.conn \in Conns /\ hd.group \in Groups
      /\ q.conn[hd.conn] = Free /\ gen \in Nat
  BY <1>2, TakeBackGood
<1>4. /\ Kept(q) /\ q.handle = [pool.handle EXCEPT ![h] = None]
      /\ q.pending_requests = pool.pending_requests
      /\ hd.group \in q.group_map_ /\ gen = hd.pool_id
      /\ q.pool_generation_number_ = pool.pool_generation_number_
  BY <1>2, TakeBackKept
<1> HIDE DEF q, gen
<1>5. Own(q)
  <2>1. /\ pool.handle \in [Handles -> HandleType]
        /\ pool.pending_requests \in [Groups -> Seq(Handles)]
    BY <1>2, FieldTypes DEF Good
  <2>2. pool.handle[h].st # "pending" /\ None.st # "pending" BY <1>2 DEF None
  <2>3. Lined([pool.handle EXCEPT ![h] = None], pool.pending_requests)
    BY <1>2, <2>1, <2>2, LinedElse
  <2> QED BY <1>4, <2>3 DEF Own
<1>6. ASSUME hd.pool_id = pool.pool_generation_number_ PROVE Good(w) /\ Own(w)
  <2>1. gen = q.pool_generation_number_ BY <1>4, <1>6
  <2> HIDE DEF hd
  <2>2. Good(a) BY <1>3, AddIdleGood
  <2>3. /\ Kept(a) /\ a.handle = q.handle /\ a.pending_requests = q.pending_requests
    BY <1>3, <1>4, <2>1, AddIdleKept
  <2> HIDE DEF a
  <2>4. Own(a) BY <1>5, <2>3 DEF Own
  <2>5. MayHaveStalledGroups(a) \in BOOLEAN BY DEF MayHaveStalledGroups
  <2>6. Good(w) BY <1>3, <2>2, <2>5, OnAvailableSocketSlotGood
  <2>7. Homes(w) /\ Trims(a, w)
    BY <2>2, <2>4, OnAvailableSocketSlotHomes DEF Own, Kept
  <2> QED BY <2>2, <2>4, <2>6, <2>7, TrimsOwn
<1> HIDE DEF w, hd
<1>7. Own(pool') BY <1>1, <1>3, <1>5, <1>6, StalledOwn
<1> QED BY <1>7 DEF Owning

\* The head of a queue leaves it with a socket.
LEMMA ServedOwn ==
    ASSUME NEW p, Good(p), Own(p), NEW g \in Groups, p.pending_requests[g] # <<>>,
           NEW q, Kept(q), Gets(p.handle, q.handle, p.pending_requests[g][1]),
           NEW t \in Seq(Handles), CutAt(p.pending_requests[g], 1, t),
           q.pending_requests = [p.pending_requests EXCEPT ![g] = t]
    PROVE  Own(q)
<1>1. /\ p.handle \in [Handles -> HandleType]
      /\ p.pending_requests \in [Groups -> Seq(Handles)]
      /\ Lined(p.handle, p.pending_requests)
  BY FieldTypes DEF Good, Own
<1>2. 1 \in 1..Len(p.pending_requests[g])
  <2>1. p.pending_requests[g] \in Seq(Handles) BY <1>1
  <2> QED BY <2>1
<1>3. PICK v : /\ v.st = "active"
               /\ q.handle = [p.handle EXCEPT ![p.pending_requests[g][1]] = v]
  BY DEF Gets
<1>4. v.st # "pending" BY <1>3
<1>5. Lined([p.handle EXCEPT ![p.pending_requests[g][1]] = v],
            [p.pending_requests EXCEPT ![g] = t])
  BY <1>1, <1>2, <1>4, LinedPop
<1> QED BY <1>3, <1>5 DEF Own

LEMMA QueueHead ==
    ASSUME NEW p, Good(p), Own(p), NEW g \in Groups, p.pending_requests[g] # <<>>
    PROVE  LET h == Head(p.pending_requests[g])
           IN  /\ 1 \in 1..Len(p.pending_requests[g])
               /\ h = p.pending_requests[g][1] /\ h \in Handles
               /\ p.handle[h].st = "pending"
<1>1. p.pending_requests[g] \in Seq(Handles) BY FieldTypes DEF Good
<1>2. 1 \in 1..Len(p.pending_requests[g]) BY <1>1
<1>3. Head(p.pending_requests[g]) = p.pending_requests[g][1] BY <1>1
<1> QED BY <1>2, <1>3, QueuedHandle

LEMMA CompleteJobOwn ==
    ASSUME PoolAssumption, NEW p, Good(p), Own(p), NEW c \in Conns,
           p.conn[c].st = "connecting", NEW result, CompleteJob(p, c, result)
    PROVE  Owning'
<1> DEFINE g == p.conn[c].group
           gen == p.conn[c].gen
           h == Head(p.pending_requests[g])
           q == RemoveConnectJob(p, c)
           r == RemoveRequestFromQueue(q, g, 1)
           a == AddIdleSocket(q, c, gen, g)
<1>1. g \in Groups /\ gen \in Nat BY FieldTypes DEF Good, ConnType, Free
<1>2. gen = p.pool_generation_number_ /\ g \in p.group_map_
  BY DEF Own, Kept, Fresh, Homes, Free
<1>3. Good(q) BY RemoveConnectJobGood
<1>4. /\ Homes(q) /\ Trims(p, q) /\ q.conn[c] = Free /\ q.group_map_ = p.group_map_
  BY RemoveConnectJobHomes DEF Own, Kept
<1> HIDE DEF q
<1>5. Own(q) BY <1>4, TrimsOwn
<1>6. /\ q.handle = p.handle /\ q.pending_requests = p.pending_requests
      /\ gen = q.pool_generation_number_
  BY <1>2, <1>4 DEF Trims
<1>7. \/ /\ p.pending_requests[g] # <<>>
         /\ pool' = HandOutSocket(r, c, gen, g, h)
      \/ /\ p.pending_requests[g] # <<>>
         /\ pool' = [r EXCEPT !.handle[h] = None]
      \/ pool' = OnAvailableSocketSlot(a, g, MayHaveStalledGroups(a))
      \/ pool' = OnAvailableSocketSlot(q, g, MayHaveStalledGroups(q))
  BY DEF CompleteJob, q
<1> HIDE DEF g, gen, h, r, a
<1>8. ASSUME p.pending_requests[g] # <<>>
      PROVE  /\ 1 \in 1..Len(q.pending_requests[g])
             /\ h = q.pending_requests[g][1] /\ h \in Handles
             /\ q.handle[h].st = "pending"
  BY <1>1, <1>3, <1>5, <1>6, <1>8, QueueHead DEF h
<1>9. CASE /\ p.pending_requests[g] # <<>>
           /\ pool' = HandOutSocket(r, c, gen, g, h)
  <2>1. Good(r) BY <1>1, <1>3, RemoveFirstRequestGood DEF r
  <2>2. /\ Kept(r) /\ r.handle = q.handle /\ r.conn = q.conn /\ g \in r.group_map_
        /\ r.pool_generation_number_ = q.pool_generation_number_
        /\ \E t \in Seq(Handles) :
              /\ CutAt(q.pending_requests[g], 1, t)
              /\ r.pending_requests = [q.pending_requests EXCEPT ![g] = t]
    BY <1>1, <1>3, <1>5, <1>8, <1>9, RemoveRequestKept DEF r, Own
  <2>3. PICK t \in Seq(Handles) :
           /\ CutAt(q.pending_requests[g], 1, t)
           /\ r.pending_requests = [q.pending_requests EXCEPT ![g] = t]
    BY <2>2
  <2>4. /\ r.conn[c] = Free /\ gen = r.pool_generation_number_
        /\ h \in Handles /\ r.handle[h].st # "active"
    BY <1>4, <1>6, <1>8, <1>9, <2>2
  <2>5. /\ Kept(pool') /\ pool'.pending_requests = r.pending_requests
        /\ Gets(r.handle, pool'.handle, h)
    BY <1>9, <2>1, <2>2, <2>4, HandOutKept
  <2>6. Gets(q.handle, pool'.handle, q.pending_requests[g][1])
    BY <1>8, <1>9, <2>2, <2>5
  <2>7. q.pending_requests[g] # <<>> BY <1>6, <1>9
  <2>8. pool'.pending_requests = [q.pending_requests EXCEPT ![g] = t] BY <2>3, <2>5
  <2>9. Own(pool') BY <1>1, <1>3, <1>5, <2>3, <2>5, <2>6, <2>7, <2>8, ServedOwn
  <2> QED BY <2>9 DEF Owning
<1>10. CASE /\ p.pending_requests[g] # <<>>
            /\ pool' = [r EXCEPT !.handle[h] = None]
  <2>1. Own(pool') BY <1>1, <1>3, <1>5, <1>8, <1>10, GiveUpOwn DEF r
  <2> QED BY <2>1 DEF Owning
<1>11. CASE pool' = OnAvailableSocketSlot(a, g, MayHaveStalledGroups(a))
  <2>1. Good(a) BY <1>1, <1>3, <1>4, AddIdleGood DEF a
  <2>2. /\ Kept(a) /\ a.handle = q.handle /\ a.pending_requests = q.pending_requests
    BY <1>2, <1>3, <1>4, <1>5, <1>6, AddIdleKept DEF a, Own
  <2>3. Own(a) BY <1>5, <2>2 DEF Own
  <2>4. Homes(pool') /\ Trims(a, pool')
    BY <1>11, <2>1, <2>3, OnAvailableSocketSlotHomes DEF Own, Kept
  <2>5. Own(pool') BY <2>1, <2>3, <2>4, TrimsOwn
  <2> QED BY <2>5 DEF Owning
<1>12. CASE pool' = OnAvailableSocketSlot(q, g, MayHaveStalledGroups(q))
  <2>1. Homes(pool') /\ Trims(q, pool')
    BY <1>3, <1>5, <1>12, OnAvailableSocketSlotHomes DEF Own, Kept
  <2>2. Own(pool') BY <1>3, <1>5, <2>1, TrimsOwn
  <2> QED BY <2>2 DEF Owning
<1> QED BY <1>7, <1>9, <1>10, <1>11, <1>12

LEMMA OnConnectJobCompleteOwn ==
    ASSUME PoolAssumption, IInv, Owning, NEW c \in Conns, NEW result,
           OnConnectJobComplete(c, result)
    PROVE  Owning'
BY CompleteJobOwn DEF IInv, Safe, Owning, OnConnectJobComplete

LEMMA OnConnectJobCompleteReturnOwn ==
    ASSUME PoolAssumption, IInv, Owning, OnConnectJobCompleteReturn
    PROVE  Owning'
<1>1. Good(pool) /\ Own(pool) BY DEF IInv, Safe, Owning
<1>2. Homes(pool') /\ Trims(pool, pool')
  BY <1>1, OnAvailableSocketSlotHomes DEF Own, Kept, OnConnectJobCompleteReturn
<1>3. Own(pool') BY <1>1, <1>2, TrimsOwn
<1> QED BY <1>3 DEF Owning

LEMMA OnBackupSocketTimerFiredOwn ==
    ASSUME PoolAssumption, IInv, Owning, NEW g \in Groups, NEW b \in BOOLEAN,
           OnBackupSocketTimerFired(g, b)
    PROVE  Owning'
<1> DEFINE q == [pool EXCEPT !.backup_task = @ \ {g}]
           s == [q EXCEPT !.backup_job = @ \ {g}]
<1>1. Good(pool) /\ Own(pool) /\ Kept(pool) /\ pool \in IntPoolType
  BY DEF IInv, Safe, Good, Owning, Own
<1>2. Good(q) /\ Good(s)
  <2>1. pool.backup_task \ {g} \in SUBSET Groups BY <1>1, FieldTypes
  <2>2. Good(q) BY <1>1, <2>1, PutGroupsGood
  <2> HIDE DEF q
  <2>3. q.backup_job \ {g} \in SUBSET Groups BY <2>2, FieldTypes DEF Good
  <2> QED BY <2>2, <2>3, PutGroupsGood
<1>3. /\ q.conn = pool.conn /\ q.handle = pool.handle
      /\ q.pending_requests = pool.pending_requests
      /\ q.pool_generation_number_ = pool.pool_generation_number_
      /\ q.group_map_ = pool.group_map_ /\ q.backup_job = pool.backup_job
      /\ q.backup_task = pool.backup_task \ {g}
      /\ s.conn = pool.conn /\ s.handle = pool.handle
      /\ s.pending_requests = pool.pending_requests
      /\ s.pool_generation_number_ = pool.pool_generation_number_
      /\ s.group_map_ = pool.group_map_ /\ s.backup_job = pool.backup_job \ {g}
      /\ s.backup_task = pool.backup_task \ {g}
  BY <1>1 DEF IntPoolType
<1>4. g \in pool.backup_task BY DEF OnBackupSocketTimerFired
<1>5. \/ pool' = q
      \/ pool' = StartBackupSocketTimer(q, g)
      \/ \E c \in Conns : /\ q.conn[c] = Free
                          /\ \/ pool' = StartJob(s, c, g)
                             \/ \E result : CompleteJob(StartJob(s, c, g), c, result)
  <2>1. IF Jobs(q, g) = {}
        THEN pool' = q /\ UNCHANGED frame
        ELSE IF ReachedMaxSocketsLimit(q) \/ ~HasAvailableSocketSlot(q, g) \/ b
        THEN pool' = StartBackupSocketTimer(q, g) /\ UNCHANGED frame
        ELSE \E c \in {x \in Conns : q.conn[x] = Free} :
               \/ /\ "ERR_IO_PENDING" \in ConnectResults
                  /\ pool' = StartJob(s, c, g) /\ UNCHANGED frame
               \/ \E result \in ConnectResults \ {"ERR_IO_PENDING"} :
                     CompleteJob(StartJob(s, c, g), c, result)
    BY DEF OnBackupSocketTimerFired
  <2> HIDE DEF q, s
  <2>2. CASE Jobs(q, g) = {} BY <2>1, <2>2
  <2>3. CASE /\ Jobs(q, g) # {}
             /\ ReachedMaxSocketsLimit(q) \/ ~HasAvailableSocketSlot(q, g) \/ b
    BY <2>1, <2>3
  <2>4. CASE /\ Jobs(q, g) # {}
             /\ ~(ReachedMaxSocketsLimit(q) \/ ~HasAvailableSocketSlot(q, g) \/ b)
    <3>1. PICK c \in {x \in Conns : q.conn[x] = Free} :
               \/ pool' = StartJob(s, c, g) /\ UNCHANGED frame
               \/ \E result : CompleteJob(StartJob(s, c, g), c, result)
      BY <2>1, <2>4, Zenon
    <3> QED BY <2>4, <3>1, Zenon
  <2> QED BY <2>2, <2>3, <2>4
<1> DEFINE u == StartBackupSocketTimer(q, g)
<1>6. /\ u.conn = pool.conn /\ u.handle = pool.handle
      /\ u.pending_requests = pool.pending_requests
      /\ u.pool_generation_number_ = pool.pool_generation_number_
      /\ u.group_map_ = pool.group_map_ /\ u.backup_job = pool.backup_job
      /\ u.backup_task = pool.backup_task
  BY <1>1, <1>4 DEF StartBackupSocketTimer, IntPoolType
<1> HIDE DEF q, s
<1>7. Homes(q) /\ Trims(pool, q) /\ Homes(s) /\ Trims(pool, s)
  <2>1. \A k : Jobs(q, k) = Jobs(pool, k) /\ Jobs(s, k) = Jobs(pool, k)
    BY <1>3 DEF Jobs
  <2>2. Homes(q) /\ Homes(s) BY <1>1, <1>3, <2>1 DEF Kept, Homes
  <2> QED BY <1>3, <2>2 DEF Trims
<1>8. Own(q) /\ Own(s) BY <1>1, <1>7, TrimsOwn
<1>9. CASE pool' = q BY <1>8, <1>9 DEF Owning
<1>10. CASE pool' = StartBackupSocketTimer(q, g)
  <2>1. Homes(pool') /\ Trims(pool, pool') BY <1>1, <1>6, <1>10, SameHomes DEF Kept
  <2>2. Own(pool') BY <1>1, <2>1, TrimsOwn
  <2> QED BY <2>2 DEF Owning
<1>11. ASSUME NEW c \in Conns, q.conn[c] = Free,
              \/ pool' = StartJob(s, c, g)
              \/ \E result : CompleteJob(StartJob(s, c, g), c, result)
       PROVE  Owning'
  <2> DEFINE j == StartJob(s, c, g)
  <2>1. s.conn[c] = Free BY <1>3, <1>11
  <2>2. g \in s.group_map_
    <3>1. PICK d : d \in Jobs(pool, g) BY <1>1, <1>4 DEF Kept, Homes
    <3>2. d \in Conns /\ pool.conn[d] # Free /\ pool.conn[d].group = g
      BY <3>1 DEF Jobs, Free
    <3> QED BY <1>1, <1>3, <3>2 DEF Kept, Homes
  <2>3. Good(j) /\ j.conn[c].st = "connecting" BY <1>2, <2>1, StartJobGood
  <2>4. Kept(j) /\ j.handle = s.handle /\ j.pending_requests = s.pending_requests
    BY <1>2, <1>8, <2>1, <2>2, StartJobKept DEF Own
  <2> HIDE DEF j
  <2>5. Own(j) BY <1>8, <2>4 DEF Own
  <2>6. CASE pool' = j BY <2>5, <2>6 DEF Owning
  <2>7. CASE \E result : CompleteJob(j, c, result)
    BY <2>3, <2>5, <2>7, CompleteJobOwn
  <2> QED BY <1>11, <2>6, <2>7 DEF j
<1> QED BY <1>5, <1>9, <1>10, <1>11

LEMMA FinishProcessingOwn ==
    ASSUME PoolAssumption, NEW p, Good(p), Own(p), NEW b, FinishProcessing(p, b)
    PROVE  Own(pool')
BY StalledOwn DEF FinishProcessing

LEMMA ProcessPendingRequestOwn ==
    ASSUME PoolAssumption, IInv, Owning, ProcessPendingRequest
    PROVE  Owning'
<1> DEFINE task == Head(pool.tasks)
           g == task.group
           b == task.was_at_socket_limit
           p == [pool EXCEPT !.tasks = Tail(@)]
           h == Head(p.pending_requests[g])
<1>1. Safe(p) /\ task \in TaskType
  BY PopTaskGood DEF IInv, Safe, ProcessPendingRequest
<1>2. g \in Groups
  <2> HIDE DEF task
  <2> QED BY <1>1 DEF TaskType
<1>3. Own(p)
  <2>1. Good(pool) /\ Own(pool) /\ pool \in IntPoolType
    BY DEF IInv, Safe, Good, Owning
  <2>2. /\ p.conn = pool.conn /\ p.handle = pool.handle
        /\ p.pending_requests = pool.pending_requests
        /\ p.pool_generation_number_ = pool.pool_generation_number_
        /\ p.group_map_ = pool.group_map_ /\ p.backup_job = pool.backup_job
        /\ p.backup_task = pool.backup_task
    BY <2>1 DEF IntPoolType
  <2> HIDE DEF p
  <2>3. Homes(p) /\ Trims(pool, p) BY <2>1, <2>2, SameHomes DEF Own, Kept
  <2> QED BY <2>1, <2>3, TrimsOwn
<1>4. IF g \in p.group_map_ /\ p.pending_requests[g] # <<>>
      THEN \E r \in RequestSocketInternal(p, g, h) :
             \/ /\ r.rv = "ERR_IO_PENDING"
                /\ FinishProcessing(r.pool, b)
                /\ UNCHANGED frame
             \/ /\ r.rv # "ERR_IO_PENDING"
                /\ pool' = IF r.rv = "ERR"
                           THEN [RemoveRequestFromQueue(r.pool, g, 1)
                                    EXCEPT !.handle[h] = None]
                           ELSE RemoveRequestFromQueue(r.pool, g, 1)
                /\ frame' = [kind |-> "process", group |-> g, valid |-> TRUE,
                             was_at_socket_limit |-> b]
      ELSE FinishProcessing(p, b) /\ UNCHANGED frame
  BY DEF ProcessPendingRequest
<1>5. Good(p) BY <1>1 DEF Safe
<1> HIDE DEF task, g, b, p, h
<1>6. CASE g \in p.group_map_ /\ p.pending_requests[g] # <<>>
  <2>1. /\ 1 \in 1..Len(p.pending_requests[g])
        /\ h = p.pending_requests[g][1] /\ h \in Handles
        /\ p.handle[h].st = "pending"
    BY <1>2, <1>3, <1>5, <1>6, QueueHead DEF h
  <2>2. PICK r \in RequestSocketInternal(p, g, h) :
             \/ r.rv = "ERR_IO_PENDING" /\ FinishProcessing(r.pool, b)
             \/ /\ r.rv # "ERR_IO_PENDING"
                /\ pool' = IF r.rv = "ERR"
                           THEN [RemoveRequestFromQueue(r.pool, g, 1)
                                    EXCEPT !.handle[h] = None]
                           ELSE RemoveRequestFromQueue(r.pool, g, 1)
    BY <1>4, <1>6
  <2>3. Good(r.pool) BY <1>1, <1>2, <2>1, RequestSocketInternalGood DEF Safe
  <2>4. Answers(p, r, g, h)
    <3>1. p.handle[h].st # "active" BY <2>1
    <3> QED BY <1>2, <1>3, <1>5, <2>1, <3>1, RequestSocketInternalKept DEF Own
  <2>5. Kept(r.pool) /\ r.pool.pending_requests = p.pending_requests
    BY <2>4 DEF Answers
  <2>6. ASSUME r.rv \in {"ERR_IO_PENDING", "ERR"} PROVE Own(r.pool)
    BY <1>3, <2>4, <2>6 DEF Answers, Own
  <2>7. CASE r.rv = "ERR_IO_PENDING"
    <3>1. FinishProcessing(r.pool, b) BY <2>2, <2>7
    <3>2. Own(pool') BY <2>3, <2>6, <2>7, <3>1, FinishProcessingOwn
    <3> QED BY <3>2 DEF Owning
  <2>8. CASE r.rv = "ERR"
    <3>1. pool' = [RemoveRequestFromQueue(r.pool, g, 1) EXCEPT !.handle[h] = None]
      BY <2>2, <2>8
    <3>2. 1 \in 1..Len(r.pool.pending_requests[g]) /\ h = r.pool.pending_requests[g][1]
      BY <2>1, <2>5
    <3>3. Own(pool') BY <1>2, <2>3, <2>6, <2>8, <3>1, <3>2, GiveUpOwn
    <3> QED BY <3>3 DEF Owning
  <2>9. CASE r.rv \in {"OK", "ERR_SOCKET"}
    <3>1. pool' = RemoveRequestFromQueue(r.pool, g, 1) BY <2>2, <2>9
    <3>2. 1 \in 1..Len(r.pool.pending_requests[g]) BY <2>1, <2>5
    <3> DEFINE old == r.pool
               new == RemoveRequestFromQueue(old, g, 1)
    <3>3. Good(old) /\ Kept(old) /\ 1 \in 1..Len(old.pending_requests[g])
      BY <2>3, <2>5, <3>2
    <3> HIDE DEF old
    <3>4. /\ Kept(new) /\ new.handle = old.handle
          /\ \E t \in Seq(Handles) :
                /\ CutAt(old.pending_requests[g], 1, t)
                /\ new.pending_requests = [old.pending_requests EXCEPT ![g] = t]
      BY <1>2, <3>3, RemoveRequestKept
    <3> HIDE DEF new
    <3>5. /\ Kept(pool') /\ pool'.handle = r.pool.handle
          /\ \E t \in Seq(Handles) :
                /\ CutAt(r.pool.pending_requests[g], 1, t)
                /\ pool'.pending_requests = [r.pool.pending_requests EXCEPT ![g] = t]
      BY <3>1, <3>4 DEF new, old
    <3>6. PICK t \in Seq(Handles) :
             /\ CutAt(p.pending_requests[g], 1, t)
             /\ pool'.pending_requests = [p.pending_requests EXCEPT ![g] = t]
      BY <2>5, <3>5
    <3>7. Gets(p.handle, pool'.handle, p.pending_requests[g][1])
      BY <2>1, <2>4, <2>9, <3>5 DEF Answers
    <3>8. Own(pool') BY <1>2, <1>3, <1>5, <1>6, <3>5, <3>6, <3>7, ServedOwn
    <3> QED BY <3>8 DEF Owning
  <2> QED BY <2>4, <2>7, <2>8, <2>9 DEF Answers
<1>7. CASE ~(g \in p.group_map_ /\ p.pending_requests[g] # <<>>)
  <2>1. FinishProcessing(p, b) BY <1>4, <1>7
  <2>2. Own(pool') BY <1>3, <1>5, <2>1, FinishProcessingOwn
  <2> QED BY <2>2 DEF Owning
<1> QED BY <1>6, <1>7

\* What the invariant says of the map is stronger than what lasts.
LEMMA OwnLasts ==
    ASSUME NEW p, Good(p), Own(p)
    PROVE  Lasts(p)
<1>1. ASSUME NEW g \in p.backup_task
      PROVE  g \in p.group_map_ /\ g \in p.backup_job /\ Jobs(p, g) # {}
  <2>1. g \in p.backup_job /\ Jobs(p, g) # {} BY DEF Own, Kept, Homes
  <2>2. PICK c : c \in Jobs(p, g) BY <2>1
  <2>3. c \in Conns /\ p.conn[c] # Free /\ p.conn[c].group = g
    BY <2>2 DEF Jobs, Free
  <2> QED BY <2>1, <2>3 DEF Own, Kept, Homes
<1> QED BY <1>1 DEF Lasts, Timed, Own, Kept

LEMMA TrimsLasts ==
    ASSUME NEW p, Good(p), Lasts(p), NEW q, Timed(q), Trims(p, q)
    PROVE  Lasts(q)
<1>1. \A h \in Handles : p.handle[h].st = "active" =>
        p.handle[h].conn \in Conns /\ p.conn[p.handle[h].conn].st = "active"
  BY FieldTypes DEF Good, Owned, HandleType, None
<1>2. \A c \in Conns : q.conn[c].st = "active" => p.conn[c].st = "active"
  BY DEF Trims, Free
<1>3. Held(q) BY <1>1, <1>2 DEF Lasts, Held, Trims
<1>4. Fresh(q) BY DEF Lasts, Fresh, Trims, Free
<1> QED BY <1>3, <1>4 DEF Lasts, Trims

\* In the last two cases the group was erased while the callback ran; in the very
\* last a group in use is erased.
LEMMA ProcessPendingRequestReturnOwn ==
    ASSUME PoolAssumption, IInv, Owning, ProcessPendingRequestReturn
    PROVE  Lasts(pool') /\ (stale' # "erased" => Owning')
<1>1. Good(pool) /\ Own(pool) BY DEF IInv, Safe, Owning
<1>2. frame.group \in Groups
  BY DEF IInv, ProcessPendingRequestReturn, FrameType, NoFrame
<1> DEFINE b == frame.was_at_socket_limit
           q == EraseIfEmpty(pool, frame.group)
           e == EraseGroup(pool, frame.group)
<1>3. Good(q) BY <1>1, EraseIfEmptyGood
<1>4. Homes(q) /\ Trims(pool, q) BY <1>1, <1>2, EraseIfEmptyHomes DEF Own, Kept
<1>5. Own(q)
  <2> HIDE DEF q
  <2> QED BY <1>1, <1>4, TrimsOwn
<1>6. Good(e) BY <1>1, EraseGroupGood
<1>7. Timed(e) /\ Trims(pool, e) BY <1>1, OwnLasts, EraseGroupTimed DEF Lasts
<1>8. Lasts(e)
  <2> HIDE DEF e
  <2> QED BY <1>1, <1>7, OwnLasts, TrimsLasts
<1>9. Good(pool') BY ProcessPendingRequestReturnStep DEF IInv, Safe
<1>10. \/ FinishProcessing(q, b)
       \/ FinishProcessing(pool, b)
       \/ stale' = "erased" /\ FinishProcessing(e, b)
  BY DEF ProcessPendingRequestReturn
<1> HIDE DEF q, e, b
<1>11. CASE FinishProcessing(q, b) \/ FinishProcessing(pool, b)
  <2>1. Own(pool') BY <1>1, <1>3, <1>5, <1>11, FinishProcessingOwn
  <2> QED BY <1>9, <2>1, OwnLasts DEF Owning
<1>12. CASE stale' = "erased" /\ FinishProcessing(e, b)
  <2>1. pool' = e \/ pool' \in CheckForStalledSocketGroups(e)
    BY <1>12 DEF FinishProcessing
  <2>2. CASE pool' = e BY <1>8, <1>12, <2>2
  <2>3. CASE pool' \in CheckForStalledSocketGroups(e)
    <3>1. Timed(pool') /\ Trims(e, pool')
      BY <1>6, <1>8, <2>3, CheckForStalledTimed DEF Lasts
    <3>2. Lasts(pool') BY <1>6, <1>8, <3>1, TrimsLasts
    <3> QED BY <1>12, <3>2
  <2> QED BY <2>1, <2>2, <2>3
<1> QED BY <1>10, <1>11, <1>12

LEMMA CleanupOwn ==
    ASSUME PoolAssumption, IInv, Owning, NEW S \in SUBSET AllIdle(pool),
           pool' = CleanupIdleSockets(pool, S)
    PROVE  Owning'
<1>1. Good(pool) /\ Own(pool) BY DEF IInv, Safe, Owning
<1>2. Homes(pool') /\ Trims(pool, pool')
  BY <1>1, CleanupIdleSocketsHomes DEF Own, Kept
<1>3. Own(pool') BY <1>1, <1>2, TrimsOwn
<1> QED BY <1>3 DEF Owning

\* The generation moves on; no job and no idle socket is left of the old one.
LEMMA FlushOwn ==
    ASSUME PoolAssumption, IInv, Owning, Flush
    PROVE  Owning'
<1> DEFINE n == pool.pool_generation_number_ + 1
           p == [pool EXCEPT !.pool_generation_number_ = n]
           q == CancelAllConnectJobs(p)
<1>1. Good(pool) /\ Own(pool) /\ pool \in IntPoolType
  BY DEF IInv, Safe, Good, Owning
<1>2. n \in Nat
  <2>1. pool.pool_generation_number_ \in Nat BY <1>1, FieldTypes
  <2> QED BY <2>1
<1>3. Good(p)
  <2> HIDE DEF n
  <2> QED BY <1>1, <1>2, SameCore DEF IntPoolType
<1>4. Homes(p) /\ Held(p) /\ Lined(p.handle, p.pending_requests)
  <2>1. /\ p.conn = pool.conn /\ p.handle = pool.handle
        /\ p.pending_requests = pool.pending_requests
        /\ p.group_map_ = pool.group_map_ /\ p.backup_job = pool.backup_job
        /\ p.backup_task = pool.backup_task
    <3> HIDE DEF n
    <3> QED BY <1>1 DEF IntPoolType
  <2> HIDE DEF p
  <2> QED BY <1>1, <2>1 DEF Own, Kept, Homes, Held, Jobs
<1> HIDE DEF p
<1>5. Good(q) BY <1>3, CancelAllConnectJobsGood
<1>6. Homes(q) /\ Trims(p, q) /\ AllJobs(q) = {}
  BY <1>3, <1>4, CancelAllConnectJobsHomes
<1>7. pool' = CleanupIdleSockets(q, AllIdle(q)) BY DEF Flush, p
<1> HIDE DEF q
<1>8. /\ Homes(pool') /\ Trims(q, pool') /\ AllJobs(pool') = AllJobs(q)
      /\ AllIdle(pool') = {}
  BY <1>5, <1>6, <1>7, CleanupIdleSocketsHomes
<1>9. Trims(p, pool') BY <1>6, <1>8, TrimsTransitive
<1>10. Held(pool') BY <1>3, <1>4, <1>8, <1>9, TrimsKeeps
<1>11. Fresh(pool') BY <1>6, <1>8 DEF Fresh, AllJobs, AllIdle
<1>12. Lined(pool'.handle, pool'.pending_requests) BY <1>4, <1>9 DEF Trims
<1> QED BY <1>8, <1>10, <1>11, <1>12 DEF Owning, Own, Kept

-----------------------------------------------------------------------------
(* The invariant and what follows from it.                                 *)

\* A pool that was just built has neither sockets nor requests nor timers.
LEMMA InitOwn ==
    ASSUME Init
    PROVE  Owning
<1>1. /\ \A c \in Conns : pool.conn[c] = Free
      /\ \A h \in Handles : pool.handle[h] = None
      /\ \A g \in Groups : pool.pending_requests[g] = <<>>
      /\ pool.backup_task = {}
  BY DEF Init
<1>2. Homes(pool) BY <1>1 DEF Homes
<1>3. Held(pool) /\ Fresh(pool) BY <1>1 DEF Held, Fresh, Free, None
<1>4. Lined(pool.handle, pool.pending_requests)
  BY <1>1 DEF Lined, Line, None
<1> QED BY <1>2, <1>3, <1>4 DEF Owning, Own, Kept

\* Every step of the pool, its clients and the message loop keeps it.
LEMMA NextOwn ==
    ASSUME PoolAssumption, IInv, IInv', Ownership, [Next]_vars
    PROVE  Ownership'
<1> SUFFICES ASSUME Next, Owning PROVE Ownership'
  <2>1. CASE UNCHANGED vars BY <2>1 DEF vars, Ownership, Owning
  <2>2. CASE Next
    <3>1. Running
      BY <2>2 DEF Next, ClientCall, Return, RequestSocket, CancelRequest, ReleaseSocket,
         OnConnectJobComplete, OnConnectJobCompleteReturn, OnBackupSocketTimerFired,
         ProcessPendingRequest, ProcessPendingRequestReturn, OnCleanupTimerFired,
         CloseIdleSockets, Flush
    <3> QED BY <2>2, <3>1 DEF Running, Ownership
  <2> QED BY <2>1, <2>2
<1>0. ASSUME Owning' PROVE Ownership'
  <2>1. Good(pool') BY DEF IInv, Safe
  <2>2. Lasts(pool') BY <1>0, <2>1, OwnLasts DEF Owning
  <2> QED BY <1>0, <2>2 DEF Ownership
<1>1. ASSUME NEW h \in Handles, NEW g \in Groups, NEW pri \in Priorities,
             RequestSocket(h, g, pri)
      PROVE  Ownership'
  BY <1>0, <1>1, RequestSocketOwn
<1>2. ASSUME NEW h \in Handles, CancelRequest(h) PROVE Ownership'
  BY <1>0, <1>2, CancelRequestOwn
<1>3. ASSUME NEW h \in Handles, NEW b \in BOOLEAN, ReleaseSocket(h, b)
      PROVE  Ownership'
  BY <1>0, <1>3, ReleaseSocketOwn
<1>4. ASSUME NEW c \in Conns, NEW result \in Completions,
             OnConnectJobComplete(c, result)
      PROVE  Ownership'
  BY <1>0, <1>4, OnConnectJobCompleteOwn
<1>5. ASSUME NEW g \in Groups, NEW b \in BOOLEAN, OnBackupSocketTimerFired(g, b)
      PROVE  Ownership'
  BY <1>0, <1>5, OnBackupSocketTimerFiredOwn
<1>6. CASE ProcessPendingRequest BY <1>0, <1>6, ProcessPendingRequestOwn
<1>7. CASE OnConnectJobCompleteReturn BY <1>0, <1>7, OnConnectJobCompleteReturnOwn
<1>8. CASE ProcessPendingRequestReturn
  BY <1>8, ProcessPendingRequestReturnOwn DEF Ownership
<1>9. CASE OnCleanupTimerFired BY <1>0, <1>9, CleanupOwn DEF OnCleanupTimerFired
<1>10. CASE CloseIdleSockets BY <1>0, <1>10, CleanupOwn DEF CloseIdleSockets
<1>11. CASE Flush BY <1>0, <1>11, FlushOwn
<1> QED
  BY <1>1, <1>2, <1>3, <1>4, <1>5, <1>6, <1>7, <1>8, <1>9, <1>10, <1>11
     DEF Next, ClientCall, Return

\* Every reachable state of the pool satisfies the second invariant as well.
THEOREM OwnershipInductive == Spec => []Ownership
<1>1. Init /\ IInv => Ownership
  <2>1. ASSUME Init, IInv PROVE Ownership
    <3>1. Owning BY <2>1, InitOwn
    <3>2. Good(pool) BY <2>1 DEF IInv, Safe
    <3>3. Lasts(pool) BY <3>1, <3>2, OwnLasts DEF Owning
    <3> QED BY <3>1, <3>3 DEF Ownership
  <2> QED BY <2>1
<1>2. IInv /\ IInv' /\ Ownership /\ [Next]_vars => Ownership'
  BY NextOwn, PoolAssumption
<1> QED BY <1>1, <1>2, Inductive, PTL DEF Spec

\* Two handles never hold the same socket, a handle's socket is active and of the
\* handle's group, and no active socket is without a handle that will give it
\* back: HandOutSocket and ReleaseSocket pair up, whatever comes in between.
THEOREM SocketsAreOwnedOnce == Spec => []ExclusiveOwnership
<1>1. IInv /\ Ownership => ExclusiveOwnership
  BY DEF IInv, Safe, Good, Owned, Ownership, Lasts, Held, ExclusiveOwnership
<1> QED BY <1>1, Inductive, OwnershipInductive, PTL

\* A handle waits in exactly one place of the queue of its group, and each queue
\* is sorted by priority: InsertRequestIntoQueue, RemoveRequestFromQueue and the
\* removal of the head agree with what the handles say.
THEOREM QueuesAreExact == Spec => []QueuesExact
<1>1. Ownership => QueuesExact BY DEF Ownership, Lasts, Lined, Line, QueuesExact
<1> QED BY <1>1, OwnershipInductive, PTL

\* As long as ProcessPendingRequest has not erased a group on the word of one that
\* is gone, no group is erased that a socket, a job or a request still belongs to,
\* and the CHECKs that look the group up in group_map_ hold.
THEOREM NothingIsOrphaned == Spec => []NoOrphan
<1>1. ASSUME IInv, Ownership PROVE NoOrphan
  <2> SUFFICES ASSUME Owning
               PROVE  /\ \A c \in Conns : pool.conn[c] # Free =>
                           pool.conn[c].group \in pool.group_map_
                      /\ \A h \in Handles : pool.handle[h] # None =>
                           pool.handle[h].group \in pool.group_map_
    BY <1>1 DEF Ownership, NoOrphan
  <2>1. \A c \in Conns : pool.conn[c] # Free => pool.conn[c].group \in pool.group_map_
    BY <1>1 DEF Owning, Own, Kept, Homes
  <2>2. ASSUME NEW h \in Handles, pool.handle[h] # None
        PROVE  pool.handle[h].group \in pool.group_map_
    <3>1. pool.handle[h] \in HandleType BY <1>1, FieldTypes DEF IInv, Safe, Good
    <3>2. CASE pool.handle[h].st = "active"
      <4>1. /\ pool.conn[pool.handle[h].conn].st = "active"
            /\ pool.conn[pool.handle[h].conn].group = pool.handle[h].group
        BY <1>1, <3>2 DEF IInv, Safe, Good, Owned
      <4>2. pool.handle[h].conn \in Conns BY <3>1, <3>2 DEF HandleType, None
      <4> QED BY <2>1, <4>1, <4>2 DEF Free
    <3>3. CASE pool.handle[h].st = "pending"
      <4>1. pool.handle[h].group \in Groups BY <3>1, <3>3 DEF HandleType, None
      <4>2. \E i \in 1..Len(pool.pending_requests[pool.handle[h].group]) :
              pool.pending_requests[pool.handle[h].group][i] = h
        BY <1>1, <3>3 DEF Owning, Own, Lined
      <4>3. pool.pending_requests[pool.handle[h].group] # <<>> BY <4>2
      <4> QED BY <1>1, <4>1, <4>3 DEF Owning, Own, Kept, Homes
    <3>4. pool.handle[h].st \in {"active", "pending"} BY <2>2, <3>1 DEF HandleType
    <3> QED BY <3>2, <3>3, <3>4
  <2> QED BY <2>1, <2>2
<1> QED BY <1>1, Inductive, OwnershipInductive, PTL

\* When the timer of a backup job fires, its group, the backup job and a job that
\* still connects are there: the CHECKs of OnBackupSocketTimerFired.
THEOREM BackupTimersAreValid == Spec => []BackupTimerValid
<1>1. Ownership => BackupTimerValid BY DEF Ownership, Lasts, Timed, BackupTimerValid
<1> QED BY <1>1, OwnershipInductive, PTL

\* What is kept for reuse, or will be, was connected after the last Flush: the
\* comparison of the handle's pool_id with pool_generation_number_ in
\* ReleaseSocket is enough.
THEOREM FlushIsFinal == Spec => []NoReuseAcrossFlush
<1>1. Ownership => NoReuseAcrossFlush
  BY DEF Ownership, Lasts, Fresh, NoReuseAcrossFlush
<1> QED BY <1>1, OwnershipInductive, PTL

=============================================================================
