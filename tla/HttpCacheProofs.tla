--------------------------- MODULE HttpCacheProofs ---------------------------
(***************************************************************************)
(* Proofs about the HTTP cache, for any transactions and any addresses of  *)
(* entries.                                                                *)
(*                                                                         *)
(* Every step of the cache concerns one transaction and one entry, and the *)
(* frames on top of the stack.  The invariant Good is stated for any value *)
(* c of the cache; lemma StepGood says what has to be shown of that        *)
(* transaction, that entry and the new frames, and the proof of an action  *)
(* shows it.                                                               *)
(***************************************************************************)
EXTENDS HttpCache, ListLemmas, FiniteSetTheorems

-----------------------------------------------------------------------------
(* The inductive invariant.                                                *)

States == {"INIT_ENTRY", "OPEN_COMPLETE", "CREATE_ENTRY", "CREATE_COMPLETE", "DOOM_COMPLETE",
           "ADD_TO_ENTRY", "ADD_COMPLETE", "USE", "PASS"}
Results == {"OK", "ERR", "RACE", "CREATE_FAILURE"}
Ops == {"OPEN", "CREATE", "DOOM"}

RunFrame == [k : {"run"}, t : Trans, s : States, rv : Results]
ItemsFrame == [k : {"items"}, items : Seq(ItemType), result : {"OK", "ERR"}, op : Ops,
               fail : BOOLEAN]
RaceFrame == [k : {"race"}, queue : Seq(Trans)]
PlainFrame == [k : {"backend", "user"}]
Frame == RunFrame \cup ItemsFrame \cup RaceFrame \cup PlainFrame

OpType == [writer : ItemType, queue : Seq(ItemType)]

CacheType ==
    [active : Entries \cup {NoEntry},
     entries : [Entries -> EntryType \cup {Dead}],
     op : OpType \cup {NoOp},
     disk : BOOLEAN,
     backend : {"none", "building", "disk", "memory", "failed"},
     backend_queue : Seq(Trans),
     tasks : Seq(Entries),
     trans : [Trans -> TransType],
     stack : Seq(Frame),
     failed : SUBSET FailingChecks]

\* A transaction runs if it has a frame, and has one only.  A DoLoop that is not on top
\* of the stack has told others to start over before it goes on without an entry.
Quiet == {"PASS", "INIT_ENTRY"}
Runs(c, i, t) == c.stack[i].k = "run" /\ c.stack[i].t = t

Framed(c) ==
    /\ \A t \in Trans : c.trans[t].st = "running" <=> \E i \in 1..Len(c.stack) : Runs(c, i, t)
    /\ \A t \in Trans : \A i, j \in 1..Len(c.stack) : Runs(c, i, t) /\ Runs(c, j, t) => i = j
    /\ \A i \in 1..Len(c.stack) : c.stack[i].k = "run" /\ i # Len(c.stack) => c.stack[i].s \in Quiet

\* What a DoLoop knows: that there is no entry, that there is one, that it was let in.
Missed(f) ==
    \/ f.s = "CREATE_ENTRY"
    \/ f.s = "DOOM_COMPLETE" /\ f.rv # "RACE"
    \/ f.s = "OPEN_COMPLETE" /\ f.rv = "ERR"
Found(f) == f.s = "ADD_TO_ENTRY" \/ (f.s \in {"OPEN_COMPLETE", "CREATE_COMPLETE"} /\ f.rv = "OK")
Added(f) == f.s = "ADD_COMPLETE" /\ f.rv = "OK"

ItemsOnce(q) == \A i, j \in 1..Len(q) : q[i].trans = q[j].trans => i = j \/ q[i].trans = NoTrans
ItemsNamed(q) == \A i \in 1..Len(q) : q[i].trans = NoTrans => q[i].op = "DOOM"

FrameOK(c, f) ==
    /\ f.k = "run" =>
        /\ f.s = "USE" <=> c.trans[f.t].entry # NoEntry
        /\ f.s # "PASS" => Ready(c)
        /\ Missed(f) => c.active = NoEntry
        /\ Found(f) => c.active # NoEntry /\ c.trans[f.t].new_entry = c.active
        /\ Added(f) => f.t \in Holders(c, c.trans[f.t].new_entry)
                       /\ c.trans[f.t].new_entry \in Entries
    /\ f.k = "items" =>
        /\ f.items # <<>> /\ ItemsOnce(f.items) /\ ItemsNamed(f.items)
        /\ c.backend = "disk" /\ (f.result = "ERR" => c.active = NoEntry)
    /\ f.k = "race" => f.queue # <<>> /\ Distinct(f.queue, 0) /\ Ready(c)

Frames(c) == \A i \in 1..Len(c.stack) : FrameOK(c, c.stack[i])

\* Who has an entry holds its lock.
TransOK(c, t) ==
    /\ c.trans[t].st = "free" => c.trans[t] = Gone
    /\ c.trans[t].st = "own" => c.trans[t].entry # NoEntry
    /\ c.trans[t].st = "pending" => c.trans[t].entry = NoEntry
    /\ c.trans[t].entry # NoEntry => t \in Holders(c, c.trans[t].entry)

\* t was let in to e and has not noted it yet.
Adding(c, e, t) ==
    \E i \in 1..Len(c.stack) : Runs(c, i, t) /\ Added(c.stack[i]) /\ c.trans[t].new_entry = e

\* The DoLoop on top is about to use e, which nobody uses.
Finding(c, e) ==
    \E i \in 1..Len(c.stack) : /\ i = Len(c.stack) /\ c.stack[i].k = "run" /\ Found(c.stack[i])
                               /\ c.trans[c.stack[i].t].new_entry = e

LockOK(c, e) ==
    /\ c.entries[e].writer # NoTrans => /\ c.entries[e].readers = {} /\ ~c.entries[e].will_process
                                        /\ CanWrite(c.trans[c.entries[e].writer].mode)
    /\ \A t \in c.entries[e].readers : ~CanWrite(c.trans[t].mode)
    /\ \A t \in Holders(c, e) : c.trans[t].entry = e \/ Adding(c, e, t)
    /\ ~c.entries[e].doomed => c.active = e
    /\ Holders(c, e) # {} \/ c.entries[e].will_process \/ Finding(c, e)
    /\ Distinct(c.entries[e].pending_queue, 0)
    /\ \A t \in Trans : InSeq(t, c.entries[e].pending_queue) => c.trans[t].new_entry = e

\* The entry in use, the operation and the backend.
Disk(c) ==
    /\ c.active # NoEntry => c.entries[c.active] # Dead /\ ~c.entries[c.active].doomed
    /\ Live(c) # {} => Ready(c)
    /\ c.op # NoOp => /\ c.active = NoEntry /\ c.backend = "disk"
                      /\ ItemsOnce(c.op.queue) /\ ItemsNamed(c.op.queue)
                      /\ \A i \in 1..Len(c.op.queue) :
                            c.op.queue[i].trans = c.op.writer.trans => c.op.writer.trans = NoTrans
    /\ Distinct(c.backend_queue, 0)

Tasked(c) ==
    /\ Distinct(c.tasks, 0)
    /\ \A e \in Entries : InSeq(e, c.tasks) <=> c.entries[e] # Dead /\ c.entries[e].will_process

\* t waits at the place of kind k and number x.
Listed(f, t) ==
    \/ f.k = "items" /\ \E j \in 1..Len(f.items) : f.items[j].trans = t
    \/ f.k = "race" /\ InSeq(t, f.queue)
InOp(op, t) == op # NoOp /\ (op.writer.trans = t \/ \E i \in 1..Len(op.queue) : op.queue[i].trans = t)

InPlace(c, t, k, x) ==
    \/ k = "entry" /\ x \in Live(c) /\ InSeq(t, c.entries[x].pending_queue)
    \/ k = "op" /\ x = 0 /\ InOp(c.op, t)
    \/ k = "backend" /\ x = 0 /\ InSeq(t, c.backend_queue)
    \/ k = "loop" /\ x \in 1..Len(c.stack) /\ Listed(c.stack[x], t)

PlacedOnce(c, t) ==
    /\ c.trans[t].st = "pending" <=> \E k, x : InPlace(c, t, k, x)
    /\ \A k, x, l, y : InPlace(c, t, k, x) /\ InPlace(c, t, l, y) => k = l /\ x = y

Good(c) ==
    /\ c \in CacheType /\ Framed(c) /\ Frames(c)
    /\ \A t \in Trans : TransOK(c, t) /\ PlacedOnce(c, t)
    /\ \A e \in Live(c) : LockOK(c, e)
    /\ Disk(c) /\ Tasked(c)

-----------------------------------------------------------------------------
(* Shapes.                                                                 *)

\* A deleted entry is no entry, and no operation is no operation.
LEMMA Shapes ==
    /\ \A x \in EntryType : x # Dead
    /\ \A x \in OpType : x # NoOp
    /\ Gone \in TransType
<1>1. ASSUME NEW x \in EntryType PROVE x # Dead
  <2>1. DOMAIN x = {"writer", "readers", "pending_queue", "will_process", "doomed"}
    BY DEF EntryType
  <2>2. DOMAIN Dead = {"writer"} BY DEF Dead
  <2> QED BY <2>1, <2>2
<1>2. ASSUME NEW x \in OpType PROVE x # NoOp
  <2>1. DOMAIN x = {"writer", "queue"} BY DEF OpType
  <2>2. DOMAIN NoOp = {"writer"} BY DEF NoOp
  <2> QED BY <2>1, <2>2
<1>3. Gone \in TransType BY DEF Gone, TransType, NoEntry
<1> QED BY <1>1, <1>2, <1>3

LEMMA FieldTypes ==
    ASSUME NEW c \in CacheType
    PROVE  /\ c.active \in Entries \cup {NoEntry}
           /\ c.entries \in [Entries -> EntryType \cup {Dead}]
           /\ c.op \in OpType \cup {NoOp}
           /\ c.disk \in BOOLEAN
           /\ c.backend \in {"none", "building", "disk", "memory", "failed"}
           /\ c.backend_queue \in Seq(Trans)
           /\ c.tasks \in Seq(Entries)
           /\ c.trans \in [Trans -> TransType]
           /\ c.stack \in Seq(Frame) /\ Len(c.stack) \in Nat
           /\ c.failed \subseteq FailingChecks
BY DEF CacheType

\* An entry that is not dead has all its fields.
LEMMA EntryTypes ==
    ASSUME NEW c \in CacheType, NEW e \in Entries
    PROVE  /\ c.entries[e] # Dead <=> c.entries[e] \in EntryType
           /\ e \in Live(c) <=> c.entries[e] # Dead
           /\ e \in Live(c) => /\ c.entries[e].writer \in Trans \cup {NoTrans}
                               /\ c.entries[e].readers \subseteq Trans
                               /\ c.entries[e].pending_queue \in Seq(Trans)
                               /\ c.entries[e].will_process \in BOOLEAN
                               /\ c.entries[e].doomed \in BOOLEAN
<1>1. c.entries[e] \in EntryType \cup {Dead} BY FieldTypes
<1>2. c.entries[e] # Dead <=> c.entries[e] \in EntryType BY <1>1, Shapes
<1>3. e \in Live(c) <=> c.entries[e] # Dead BY DEF Live
<1> QED BY <1>2, <1>3 DEF EntryType

LEMMA TransTypes ==
    ASSUME NEW c \in CacheType, NEW t \in Trans
    PROVE  /\ c.trans[t] \in TransType
           /\ c.trans[t].st \in {"free", "pending", "running", "own"}
           /\ c.trans[t].entry \in Entries \cup {NoEntry}
           /\ c.trans[t].new_entry \in Entries \cup {NoEntry}
           /\ c.trans[t].mode \in {"NONE", "READ", "WRITE", "READ_WRITE", "UPDATE"}
BY FieldTypes DEF TransType

LEMMA FrameTypes ==
    ASSUME NEW f \in Frame
    PROVE  /\ f.k \in {"run", "items", "race", "backend", "user"}
           /\ f.k = "run" => /\ f.t \in Trans /\ f.s \in States /\ f.rv \in Results
           /\ f.k = "items" => /\ f.items \in Seq(ItemType) /\ f.result \in {"OK", "ERR"}
                               /\ f.op \in Ops /\ f.fail \in BOOLEAN /\ f \in ItemsFrame
           /\ f.k = "race" => f.queue \in Seq(Trans)
           /\ f.k = "user" => f = User
<1>1. CASE f \in RunFrame BY <1>1 DEF RunFrame
<1>2. CASE f \in ItemsFrame BY <1>2 DEF ItemsFrame
<1>3. CASE f \in RaceFrame BY <1>3 DEF RaceFrame
<1>4. CASE f \in PlainFrame BY <1>4 DEF PlainFrame, User
<1> QED BY <1>1, <1>2, <1>3, <1>4 DEF Frame

\* The stack without its top, and with a frame more.
LEMMA PopStack ==
    ASSUME NEW S, NEW s \in Seq(S), s # <<>>
    PROVE  LET p == SubSeq(s, 1, Len(s) - 1)
           IN  /\ p \in Seq(S) /\ Len(p) = Len(s) - 1 /\ Len(s) \in Nat \ {0}
               /\ \A i \in 1..(Len(s) - 1) : p[i] = s[i]
<1>1. Len(s) \in Nat \ {0} OBVIOUS
<1>2. \A i \in 1..Len(s) : s[i] \in S OBVIOUS
<1>3. \A i \in 1..(Len(s) - 1) : i \in 1..Len(s) BY <1>1
<1> DEFINE n == Len(s) - 1
           p == SubSeq(s, 1, n)
<1>4. n \in Nat /\ n = Len(s) - 1 /\ \A i \in 1..n : s[i] \in S BY <1>1, <1>2, <1>3
<1> HIDE DEF n
<1>5. /\ p \in Seq(S) /\ Len(p) = IF 1 <= n THEN n - 1 + 1 ELSE 0
      /\ \A i \in 1..(n - 1 + 1) : p[i] = s[1 + i - 1]
  BY <1>4, SubSeqProperties
<1> HIDE DEF p
<1>6. Len(p) = n /\ \A i \in 1..n : p[i] = s[i] BY <1>4, <1>5
<1> QED BY <1>1, <1>4, <1>5, <1>6 DEF p, n

LEMMA PushStack ==
    ASSUME NEW S, NEW s \in Seq(S), NEW f \in S
    PROVE  /\ Append(s, f) \in Seq(S) /\ Len(s) \in Nat
           /\ Len(Append(s, f)) = Len(s) + 1 /\ Append(s, f)[Len(s) + 1] = f
           /\ \A i \in 1..Len(s) : Append(s, f)[i] = s[i]
OBVIOUS

LEMMA PushPop ==
    ASSUME NEW S, NEW s \in Seq(S), s # <<>>, NEW f \in S
    PROVE  LET p == Append(SubSeq(s, 1, Len(s) - 1), f)
           IN  /\ p \in Seq(S) /\ Len(p) = Len(s) /\ Len(s) \in Nat \ {0} /\ p[Len(s)] = f
               /\ \A i \in 1..(Len(s) - 1) : p[i] = s[i]
<1> DEFINE q == SubSeq(s, 1, Len(s) - 1)
<1>1. /\ q \in Seq(S) /\ Len(q) = Len(s) - 1 /\ Len(s) \in Nat \ {0}
      /\ \A i \in 1..(Len(s) - 1) : q[i] = s[i]
  BY PopStack
<1> HIDE DEF q
<1>2. /\ Append(q, f) \in Seq(S) /\ Len(Append(q, f)) = Len(q) + 1
      /\ Append(q, f)[Len(q) + 1] = f /\ \A i \in 1..Len(q) : Append(q, f)[i] = q[i]
  BY <1>1, PushStack
<1>3. Append(q, f) \in Seq(S) /\ Len(Append(q, f)) = Len(s) /\ Append(q, f)[Len(s)] = f
  BY <1>1, <1>2
<1>4. \A i \in 1..(Len(s) - 1) : Append(q, f)[i] = s[i] BY <1>1, <1>2
<1> QED BY <1>1, <1>3, <1>4 DEF q

-----------------------------------------------------------------------------
(* A step from c to d that concerns transaction u, entry e and the frames  *)
(* above n.  Where there is no transaction u is NoTrans, where there is no *)
(* entry e is NoEntry.                                                     *)

\* The frames up to n stay, and those above n that run are u's.
Kept(c, d, u, n) ==
    /\ n \in 0..Len(c.stack) /\ n <= Len(d.stack)
    /\ \A i \in 1..n : /\ d.stack[i] = c.stack[i]
                       /\ c.stack[i].k = "run" => c.stack[i].t # u /\ c.stack[i].s \in Quiet
    /\ \A i \in 1..Len(c.stack) : i > n /\ c.stack[i].k = "run" => c.stack[i].t = u
    /\ \A t \in Trans \ {u} : d.trans[t] = c.trans[t]

NewFrames(d, u, n) ==
    /\ \A i \in 1..Len(d.stack) : i > n =>
          /\ FrameOK(d, d.stack[i])
          /\ d.stack[i].k = "run" => d.stack[i].t = u /\ (i = Len(d.stack) \/ d.stack[i].s \in Quiet)
    /\ \A i, j \in 1..Len(d.stack) :
          i > n /\ j > n /\ d.stack[i].k = "run" /\ d.stack[j].k = "run" => i = j
    /\ u \in Trans => (d.trans[u].st = "running" <=>
                          \E i \in 1..Len(d.stack) : i > n /\ d.stack[i].k = "run")

\* The other entries, which u neither holds nor waits for, stay.
Others(c, d, u, e) ==
    \A x \in Entries \ {e} :
        /\ d.entries[x] = c.entries[x]
        /\ c.entries[x] # Dead => /\ u \notin Holders(c, x)
                                  /\ ~InSeq(u, c.entries[x].pending_queue)
                                  /\ (c.active = x => d.active = x)

\* The entry that a DoLoop had found is e, and nobody but u loses e.
Entry(c, d, u, e, n) ==
    /\ \A i \in 1..Len(c.stack) :
          i > n /\ c.stack[i].k = "run" /\ Found(c.stack[i]) => c.trans[u].new_entry = e
    /\ e \in Entries => \A t \in Trans \ {u} : t \in Holders(c, e) => t \in Holders(d, e)
    /\ e \in Live(d) => LockOK(d, e)

\* What the frames that stay rely on.
Backed(c, d, n) ==
    /\ Ready(c) => Ready(d)
    /\ c.backend = "disk" => d.backend = "disk"
    /\ d.active = NoEntry \/ c.active # NoEntry \/ \A i \in 1..n : c.stack[i].k # "items"

LEMMA FramedStep ==
    ASSUME NEW c \in CacheType, NEW d \in CacheType, NEW u, NEW n,
           Framed(c), Kept(c, d, u, n), NewFrames(d, u, n)
    PROVE  Framed(d)
<1>1. Len(c.stack) \in Nat /\ Len(d.stack) \in Nat BY FieldTypes
<1>2. n \in Nat /\ n <= Len(c.stack) /\ n <= Len(d.stack) BY <1>1 DEF Kept
<1>3. \A i \in 1..Len(d.stack) : i > n \/ i \in 1..n BY <1>1, <1>2
<1>4. \A i \in 1..n : i \in 1..Len(c.stack) /\ i \in 1..Len(d.stack) BY <1>1, <1>2
<1>5. ASSUME NEW t \in Trans
      PROVE  d.trans[t].st = "running" <=> \E i \in 1..Len(d.stack) : Runs(d, i, t)
  <2>1. CASE t = u
    <3>1. \A i \in 1..n : ~Runs(d, i, t) BY <2>1, <1>4 DEF Kept, Runs
    <3>2. \A i \in 1..Len(d.stack) : i > n /\ d.stack[i].k = "run" => d.stack[i].t = t
      BY <2>1 DEF NewFrames
    <3> QED BY <2>1, <3>1, <3>2, <1>3 DEF NewFrames, Runs
  <2>2. CASE t # u
    <3>1. d.trans[t] = c.trans[t] BY <2>2 DEF Kept
    <3>2. c.trans[t].st = "running" <=> \E i \in 1..Len(c.stack) : Runs(c, i, t) BY DEF Framed
    <3>3. \A i \in 1..Len(c.stack) : Runs(c, i, t) => i \in 1..n
      BY <2>2, <1>1, <1>2 DEF Kept, Runs
    <3>4. \A i \in 1..Len(d.stack) : Runs(d, i, t) => i \in 1..n
      BY <2>2, <1>3 DEF NewFrames, Runs
    <3>5. \A i \in 1..n : Runs(d, i, t) <=> Runs(c, i, t) BY DEF Kept, Runs
    <3> QED BY <1>4, <3>1, <3>2, <3>3, <3>4, <3>5
  <2> QED BY <2>1, <2>2
<1>6. ASSUME NEW t \in Trans, NEW i \in 1..Len(d.stack), NEW j \in 1..Len(d.stack),
             Runs(d, i, t), Runs(d, j, t)
      PROVE  i = j
  <2>1. CASE t = u
    <3>1. i > n /\ j > n BY <2>1, <1>3, <1>4, <1>6 DEF Kept, Runs
    <3> QED BY <3>1, <1>6 DEF NewFrames, Runs
  <2>2. CASE t # u
    <3>1. i \in 1..n /\ j \in 1..n BY <2>2, <1>3, <1>6 DEF NewFrames, Runs
    <3>2. Runs(c, i, t) /\ Runs(c, j, t) BY <3>1, <1>6 DEF Kept, Runs
    <3> QED BY <3>1, <3>2, <1>4 DEF Framed
  <2> QED BY <2>1, <2>2
<1>7. ASSUME NEW i \in 1..Len(d.stack), d.stack[i].k = "run", i # Len(d.stack)
      PROVE  d.stack[i].s \in Quiet
  BY <1>3, <1>7 DEF Kept, NewFrames
<1> QED BY <1>5, <1>6, <1>7 DEF Framed

LEMMA FramesStep ==
    ASSUME NEW c \in CacheType, NEW d \in CacheType, NEW u, NEW n,
           Frames(c), Kept(c, d, u, n), NewFrames(d, u, n), Backed(c, d, n)
    PROVE  Frames(d)
<1>1. Len(c.stack) \in Nat /\ Len(d.stack) \in Nat BY FieldTypes
<1>2. n \in Nat /\ n <= Len(c.stack) /\ n <= Len(d.stack) BY <1>1 DEF Kept
<1> SUFFICES ASSUME NEW i \in 1..Len(d.stack) PROVE FrameOK(d, d.stack[i]) BY DEF Frames
<1>3. CASE i > n BY <1>3 DEF NewFrames
<1>4. CASE ~(i > n)
  <2> DEFINE f == c.stack[i]
  <2>1. i \in 1..n /\ i \in 1..Len(c.stack) BY <1>1, <1>2, <1>4
  <2>2. d.stack[i] = f /\ f \in Frame /\ FrameOK(c, f) BY <2>1, FieldTypes DEF Kept, Frames
  <2> HIDE DEF f
  <2>3. CASE f.k = "run"
    <3>1. f.t # u /\ f.s \in Quiet BY <2>1, <2>3 DEF Kept, f
    <3>2. f.t \in Trans BY <2>2, <2>3, FrameTypes
    <3>3. d.trans[f.t] = c.trans[f.t] BY <3>1, <3>2 DEF Kept
    <3>4. ~Missed(f) /\ ~Found(f) /\ ~Added(f) BY <3>1 DEF Missed, Found, Added, Quiet
    <3> QED BY <2>2, <2>3, <3>3, <3>4 DEF FrameOK, Backed
  <2>4. CASE f.k = "items" BY <2>1, <2>2, <2>4 DEF FrameOK, Backed, f
  <2>5. CASE f.k = "race" BY <2>2, <2>5 DEF FrameOK, Backed
  <2>6. CASE f.k \notin {"run", "items", "race"} BY <2>2, <2>6 DEF FrameOK
  <2> QED BY <2>3, <2>4, <2>5, <2>6
<1> QED BY <1>3, <1>4

LEMMA TransStep ==
    ASSUME NEW c \in CacheType, NEW d \in CacheType, NEW u, NEW e, NEW n,
           Kept(c, d, u, n), Others(c, d, u, e), Entry(c, d, u, e, n),
           NEW t \in Trans \ {u}, TransOK(c, t)
    PROVE  TransOK(d, t)
<1>1. d.trans[t] = c.trans[t] BY DEF Kept
<1>2. ASSUME c.trans[t].entry # NoEntry PROVE t \in Holders(d, c.trans[t].entry)
  <2> DEFINE x == c.trans[t].entry
  <2>1. x \in Entries /\ t \in Holders(c, x) BY <1>2, TransTypes DEF TransOK
  <2>2. CASE x = e BY <2>1, <2>2 DEF Entry
  <2>3. CASE x # e BY <2>1, <2>3 DEF Others, Holders
  <2> QED BY <2>2, <2>3
<1> QED BY <1>1, <1>2 DEF TransOK

LEMMA LockStep ==
    ASSUME CacheAssumption, NEW c \in CacheType, NEW d \in CacheType, NEW u, NEW e, NEW n,
           Framed(c), Kept(c, d, u, n), Others(c, d, u, e), Entry(c, d, u, e, n),
           NEW x \in Live(d), x # e, x \in Live(c) => LockOK(c, x)
    PROVE  LockOK(d, x)
<1>1. x \in Entries /\ d.entries[x] = c.entries[x] /\ x \in Live(c)
  BY DEF Live, Others
<1>2. /\ u \notin Holders(c, x) /\ ~InSeq(u, c.entries[x].pending_queue)
      /\ c.active = x => d.active = x
  BY <1>1, EntryTypes DEF Others
<1>3. LockOK(c, x) BY <1>1
<1>4. /\ c.entries[x].writer \in Trans \cup {NoTrans} /\ c.entries[x].readers \subseteq Trans
      /\ c.entries[x].pending_queue \in Seq(Trans)
      /\ Holders(d, x) = Holders(c, x)
      /\ Holders(c, x) = c.entries[x].readers \cup ({c.entries[x].writer} \ {NoTrans})
  BY <1>1, EntryTypes DEF Holders
<1>5. \A t \in Holders(c, x) : t \in Trans \ {u} /\ d.trans[t] = c.trans[t]
  BY <1>2, <1>4 DEF Kept
<1>6. \A t \in Trans : InSeq(t, c.entries[x].pending_queue) => d.trans[t] = c.trans[t]
  BY <1>2 DEF Kept
<1>7. ASSUME NEW t \in Holders(c, x) PROVE c.trans[t].entry = x
  <2> SUFFICES ASSUME Adding(c, x, t) PROVE FALSE BY <1>3 DEF LockOK
  <2>1. PICK i \in 1..Len(c.stack) : Runs(c, i, t) /\ Added(c.stack[i]) BY DEF Adding
  <2>2. t # u BY <1>5
  <2>3. i \in 1..n BY <2>1, <2>2, FieldTypes DEF Kept, Runs
  <2> QED BY <2>1, <2>3 DEF Kept, Runs, Added, Quiet
<1>8. ~Finding(c, x)
  <2> SUFFICES ASSUME Finding(c, x) PROVE FALSE OBVIOUS
  <2>1. PICK i \in 1..Len(c.stack) : /\ c.stack[i].k = "run" /\ Found(c.stack[i])
                                     /\ c.trans[c.stack[i].t].new_entry = x
    BY DEF Finding
  <2>2. CASE i \in 1..n BY <2>1, <2>2 DEF Kept, Found, Quiet
  <2>3. CASE i \notin 1..n
    <3>1. i > n BY <2>3, FieldTypes DEF Kept
    <3>2. c.stack[i].t = u /\ c.trans[u].new_entry = e BY <2>1, <3>1 DEF Kept, Entry
    <3> QED BY <2>1, <3>2
  <2> QED BY <2>2, <2>3
<1>9. Holders(d, x) # {} \/ d.entries[x].will_process BY <1>1, <1>3, <1>4, <1>8 DEF LockOK
<1>10. \A t \in Holders(d, x) : d.trans[t].entry = x BY <1>4, <1>5, <1>7
<1>11. \A t \in d.entries[x].readers : ~CanWrite(d.trans[t].mode)
  BY <1>1, <1>3, <1>4, <1>5 DEF LockOK
<1>12. d.entries[x].writer # NoTrans => /\ d.entries[x].readers = {} /\ ~d.entries[x].will_process
                                        /\ CanWrite(d.trans[d.entries[x].writer].mode)
  BY <1>1, <1>3, <1>4, <1>5 DEF LockOK
<1>13. ~d.entries[x].doomed => d.active = x BY <1>1, <1>2, <1>3 DEF LockOK
<1>14. /\ Distinct(d.entries[x].pending_queue, 0)
       /\ \A t \in Trans : InSeq(t, d.entries[x].pending_queue) => d.trans[t].new_entry = x
  BY <1>1, <1>3, <1>6 DEF LockOK
<1> QED BY <1>9, <1>10, <1>11, <1>12, <1>13, <1>14 DEF LockOK

LEMMA StepGood ==
    ASSUME CacheAssumption, NEW c, Good(c), NEW d \in CacheType, NEW u, NEW e, NEW n,
           Kept(c, d, u, n), NewFrames(d, u, n), Others(c, d, u, e), Entry(c, d, u, e, n),
           Backed(c, d, n), u \in Trans => TransOK(d, u),
           \A t \in Trans : PlacedOnce(d, t), Disk(d), Tasked(d)
    PROVE  Good(d)
<1>1. c \in CacheType /\ Framed(c) /\ Frames(c) BY DEF Good
<1>2. Framed(d) BY <1>1, FramedStep
<1>3. Frames(d) BY <1>1, FramesStep
<1>4. ASSUME NEW t \in Trans PROVE TransOK(d, t)
  <2>1. CASE t = u BY <2>1
  <2>2. CASE t # u BY <2>2, <1>1, TransStep DEF Good
  <2> QED BY <2>1, <2>2
<1>5. ASSUME NEW x \in Live(d) PROVE LockOK(d, x)
  <2>1. CASE x = e BY <2>1 DEF Entry
  <2>2. CASE x # e BY <2>2, <1>1, LockStep DEF Good
  <2> QED BY <2>1, <2>2
<1> QED BY <1>2, <1>3, <1>4, <1>5 DEF Good

-----------------------------------------------------------------------------
(* Places.                                                                 *)

\* The queue of an entry; a dead one has none.
QueueOf(c, x) == IF c.entries[x] = Dead THEN <<>> ELSE c.entries[x].pending_queue

LEMMA InEmpty == \A t : ~InSeq(t, <<>>)
BY DEF InSeq

LEMMA InQueueOf ==
    ASSUME NEW c, NEW t, NEW x
    PROVE  InPlace(c, t, "entry", x) <=> x \in Entries /\ InSeq(t, QueueOf(c, x))
BY InEmpty DEF InPlace, Live, QueueOf

\* t is where it was: in the same queues, in the same operation, and in the same local
\* lists, of which those above n may be new.
SamePlaces(c, d, t, n) ==
    /\ \A x \in Entries : InSeq(t, QueueOf(d, x)) <=> InSeq(t, QueueOf(c, x))
    /\ InOp(d.op, t) <=> InOp(c.op, t)
    /\ InSeq(t, d.backend_queue) <=> InSeq(t, c.backend_queue)
    /\ \A i \in 1..Len(c.stack) : i > n /\ Listed(c.stack[i], t) =>
          i \in 1..Len(d.stack) /\ Listed(d.stack[i], t)
    /\ \A i \in 1..Len(d.stack) : i > n /\ Listed(d.stack[i], t) =>
          i \in 1..Len(c.stack) /\ Listed(c.stack[i], t)

LEMMA InSamePlace ==
    ASSUME NEW c \in CacheType, NEW d \in CacheType, NEW u, NEW n, NEW t,
           Kept(c, d, u, n), SamePlaces(c, d, t, n)
    PROVE  \A k, x : InPlace(d, t, k, x) <=> InPlace(c, t, k, x)
<1> SUFFICES ASSUME NEW k, NEW x PROVE InPlace(d, t, k, x) <=> InPlace(c, t, k, x) OBVIOUS
<1>1. CASE k = "entry" BY <1>1, InQueueOf DEF SamePlaces
<1>2. CASE k = "op" BY <1>2 DEF SamePlaces, InPlace
<1>3. CASE k = "backend" BY <1>3 DEF SamePlaces, InPlace
<1>4. CASE k = "loop"
  <2>1. Len(c.stack) \in Nat /\ Len(d.stack) \in Nat BY FieldTypes
  <2>2. n \in Nat /\ n <= Len(c.stack) /\ n <= Len(d.stack) BY <2>1 DEF Kept
  <2>3. CASE x \in 1..n
    <3>1. x \in 1..Len(c.stack) /\ x \in 1..Len(d.stack) /\ d.stack[x] = c.stack[x]
      BY <2>1, <2>2, <2>3 DEF Kept
    <3> QED BY <1>4, <3>1 DEF InPlace
  <2>4. CASE x \notin 1..n
    <3>1. x \in 1..Len(c.stack) => x > n BY <2>1, <2>2, <2>4
    <3>2. x \in 1..Len(d.stack) => x > n BY <2>1, <2>2, <2>4
    <3> QED BY <1>4, <3>1, <3>2 DEF InPlace, SamePlaces
  <2> QED BY <2>3, <2>4
<1>5. CASE k \notin {"entry", "op", "backend", "loop"} BY <1>5 DEF InPlace
<1> QED BY <1>1, <1>2, <1>3, <1>4, <1>5

LEMMA PlacedSame ==
    ASSUME NEW c \in CacheType, NEW d \in CacheType, NEW u, NEW n, NEW t \in Trans,
           Kept(c, d, u, n), SamePlaces(c, d, t, n), PlacedOnce(c, t),
           d.trans[t].st = "pending" <=> c.trans[t].st = "pending"
    PROVE  PlacedOnce(d, t)
BY InSamePlace DEF PlacedOnce

\* Who does not wait is in no list.
LEMMA Nowhere ==
    ASSUME NEW c, Good(c), NEW t \in Trans, c.trans[t].st # "pending"
    PROVE  /\ \A k, x : ~InPlace(c, t, k, x)
           /\ \A x \in Entries : ~InSeq(t, QueueOf(c, x))
           /\ ~InOp(c.op, t) /\ ~InSeq(t, c.backend_queue)
           /\ \A i \in 1..Len(c.stack) : ~Listed(c.stack[i], t)
<1>1. \A k, x : ~InPlace(c, t, k, x) BY DEF Good, PlacedOnce
<1>2. \A x \in Entries : ~InSeq(t, QueueOf(c, x)) BY <1>1, InQueueOf
<1>3. ~InPlace(c, t, "op", 0) /\ ~InPlace(c, t, "backend", 0) BY <1>1
<1>4. \A i : ~InPlace(c, t, "loop", i) BY <1>1
<1> QED BY <1>1, <1>2, <1>3, <1>4 DEF InPlace

\* Who waits in one place is in no other.
LEMMA Elsewhere ==
    ASSUME NEW c, Good(c), NEW t \in Trans, NEW k, NEW x, InPlace(c, t, k, x)
    PROVE  /\ c.trans[t].st = "pending"
           /\ \A y \in Entries : InSeq(t, QueueOf(c, y)) => k = "entry" /\ x = y
           /\ InOp(c.op, t) => k = "op" /\ x = 0
           /\ InSeq(t, c.backend_queue) => k = "backend" /\ x = 0
           /\ \A i \in 1..Len(c.stack) : Listed(c.stack[i], t) => k = "loop" /\ x = i
<1>1. \A l, y : InPlace(c, t, l, y) => l = k /\ y = x BY DEF Good, PlacedOnce
<1>2. c.trans[t].st = "pending" BY DEF Good, PlacedOnce
<1>3. \A y \in Entries : InSeq(t, QueueOf(c, y)) => k = "entry" /\ x = y BY <1>1, InQueueOf
<1>4. InOp(c.op, t) => InPlace(c, t, "op", 0) BY DEF InPlace
<1>5. InSeq(t, c.backend_queue) => InPlace(c, t, "backend", 0) BY DEF InPlace
<1>6. \A i \in 1..Len(c.stack) : Listed(c.stack[i], t) => InPlace(c, t, "loop", i) BY DEF InPlace
<1> QED BY <1>1, <1>2, <1>3, <1>4, <1>5, <1>6

\* t is nowhere, and does not wait.
LEMMA PlacedNowhere ==
    ASSUME NEW d, NEW t \in Trans, d.trans[t].st # "pending",
           \A x \in Entries : ~InSeq(t, QueueOf(d, x)),
           ~InOp(d.op, t), ~InSeq(t, d.backend_queue),
           \A i \in 1..Len(d.stack) : ~Listed(d.stack[i], t)
    PROVE  PlacedOnce(d, t)
<1>1. \A k, x : ~InPlace(d, t, k, x)
  <2>1. \A x : ~InPlace(d, t, "entry", x) BY InQueueOf
  <2> QED BY <2>1 DEF InPlace
<1> QED BY <1>1 DEF PlacedOnce

\* t waits in one place.
LEMMA PlacedThere ==
    ASSUME NEW d, NEW t \in Trans, d.trans[t].st = "pending", NEW k, NEW x, InPlace(d, t, k, x),
           \A y \in Entries : InSeq(t, QueueOf(d, y)) => k = "entry" /\ x = y,
           InOp(d.op, t) => k = "op" /\ x = 0,
           InSeq(t, d.backend_queue) => k = "backend" /\ x = 0,
           \A i \in 1..Len(d.stack) : Listed(d.stack[i], t) => k = "loop" /\ x = i
    PROVE  PlacedOnce(d, t)
<1>1. ASSUME NEW l, NEW y, InPlace(d, t, l, y) PROVE l = k /\ y = x
  <2>1. CASE l = "entry" BY <1>1, <2>1, InQueueOf
  <2>2. CASE l # "entry" BY <1>1, <2>2 DEF InPlace
  <2> QED BY <2>1, <2>2
<1> QED BY <1>1 DEF PlacedOnce

-----------------------------------------------------------------------------
(* Who holds what.                                                         *)

LEMMA HoldsWhat ==
    ASSUME CacheAssumption, NEW c, Good(c), NEW t \in Trans, NEW x, x \in Entries, t \in Holders(c, x)
    PROVE  /\ x \in Live(c)
           /\ \/ c.trans[t].entry = x
              \/ /\ c.stack # <<>> /\ Runs(c, Len(c.stack), t) /\ Added(c.stack[Len(c.stack)])
                 /\ c.trans[t].new_entry = x /\ c.trans[t].entry = NoEntry
<1>1. c \in CacheType BY DEF Good
<1>2. x \in Live(c) BY <1>1, EntryTypes DEF Holders
<1>3. c.trans[t].entry = x \/ Adding(c, x, t) BY <1>2 DEF Good, LockOK
<1>4. ASSUME Adding(c, x, t)
      PROVE  /\ c.stack # <<>> /\ Runs(c, Len(c.stack), t) /\ Added(c.stack[Len(c.stack)])
             /\ c.trans[t].new_entry = x /\ c.trans[t].entry = NoEntry
  <2>1. PICK i \in 1..Len(c.stack) : Runs(c, i, t) /\ Added(c.stack[i]) /\ c.trans[t].new_entry = x
    BY <1>4 DEF Adding
  <2>2. i = Len(c.stack) BY <2>1 DEF Good, Framed, Runs, Added, Quiet
  <2>3. FrameOK(c, c.stack[i]) BY DEF Good, Frames
  <2>4. c.trans[t].entry = NoEntry BY <2>1, <2>3 DEF FrameOK, Runs, Added
  <2>5. c.stack # <<>> BY <1>1, FieldTypes, <2>1
  <2> QED BY <2>1, <2>2, <2>4, <2>5
<1> QED BY <1>2, <1>3, <1>4

\* A transaction that does not run holds its entry and nothing else.
LEMMA HoldsEntry ==
    ASSUME CacheAssumption, NEW c, Good(c), NEW t \in Trans, c.trans[t].st # "running",
           NEW x \in Entries
    PROVE  t \in Holders(c, x) <=> c.trans[t].entry = x
<1>1. c \in CacheType BY DEF Good
<1>2. ASSUME t \in Holders(c, x) PROVE c.trans[t].entry = x
  <2> SUFFICES ASSUME c.stack # <<>>, Runs(c, Len(c.stack), t) PROVE FALSE BY <1>2, HoldsWhat
  <2>1. Len(c.stack) \in 1..Len(c.stack) BY <1>1, FieldTypes
  <2> QED BY <2>1 DEF Good, Framed
<1>3. c.trans[t].entry = x => t \in Holders(c, x)
  <2>1. x # NoEntry BY DEF CacheAssumption, NoEntry
  <2> QED BY <2>1 DEF Good, TransOK
<1> QED BY <1>2, <1>3

\* What the transaction on top holds, by the state of its DoLoop.
LEMMA HoldsTop ==
    ASSUME CacheAssumption, NEW c, Good(c), c.stack # <<>>, NEW t \in Trans,
           Runs(c, Len(c.stack), t), NEW x \in Entries
    PROVE  LET f == c.stack[Len(c.stack)] IN
           /\ c.trans[t].st = "running" /\ f \in Frame /\ FrameOK(c, f)
           /\ f.s \in States /\ f.rv \in Results
           /\ f.s = "USE" <=> c.trans[t].entry # NoEntry
           /\ f.s = "USE" => (t \in Holders(c, x) <=> c.trans[t].entry = x)
           /\ Added(f) => (t \in Holders(c, x) <=> c.trans[t].new_entry = x)
           /\ f.s # "USE" /\ ~Added(f) => t \notin Holders(c, x)
<1> DEFINE f == c.stack[Len(c.stack)]
<1>1. c \in CacheType BY DEF Good
<1>2. Len(c.stack) \in 1..Len(c.stack) BY <1>1, FieldTypes
<1>3. c.trans[t].st = "running" /\ FrameOK(c, f) BY <1>2 DEF Good, Framed, Frames
<1>4. f \in Frame /\ f.s \in States /\ f.rv \in Results BY <1>1, <1>2, FieldTypes, FrameTypes DEF Runs
<1>5. f.s = "USE" <=> c.trans[t].entry # NoEntry BY <1>3 DEF FrameOK, Runs
<1>6. x # NoEntry BY DEF CacheAssumption, NoEntry
<1>7. f.s = "USE" => (t \in Holders(c, x) <=> c.trans[t].entry = x)
  <2>1. c.trans[t].entry # NoEntry => t \in Holders(c, c.trans[t].entry) BY DEF Good, TransOK
  <2> QED BY <1>5, <1>6, <2>1, HoldsWhat DEF Added
<1>8. Added(f) => (t \in Holders(c, x) <=> c.trans[t].new_entry = x)
  BY <1>3, <1>5, <1>6, HoldsWhat DEF FrameOK, Runs, Added
<1>9. f.s # "USE" /\ ~Added(f) => t \notin Holders(c, x)
  BY <1>5, <1>6, HoldsWhat
<1> QED BY <1>3, <1>4, <1>5, <1>7, <1>8, <1>9

-----------------------------------------------------------------------------
(* Steps that leave the entries alone.                                     *)

\* What u holds it goes on holding, with the same rights.
KeepsLocks(c, d, u) ==
    \A x \in Entries : u \in Holders(c, x) =>
        /\ CanWrite(d.trans[u].mode) <=> CanWrite(c.trans[u].mode)
        /\ d.trans[u].entry = x \/ Adding(d, x, u)

LEMMA CalmGood ==
    ASSUME CacheAssumption, NEW c, Good(c), NEW d \in CacheType, NEW u, NEW n,
           d.entries = c.entries, d.active = c.active, d.tasks = c.tasks,
           Kept(c, d, u, n), NewFrames(d, u, n), Backed(c, d, n),
           u \in Trans => /\ TransOK(d, u) /\ KeepsLocks(c, d, u)
                          /\ \A x \in Entries : InSeq(u, QueueOf(c, x)) =>
                                d.trans[u].new_entry = c.trans[u].new_entry,
           \A i \in 1..Len(c.stack) : i > n /\ c.stack[i].k = "run" /\ Found(c.stack[i]) =>
                Finding(d, c.trans[u].new_entry),
           \A t \in Trans : PlacedOnce(d, t), Disk(d)
    PROVE  Good(d)
<1>1. c \in CacheType /\ Framed(c) /\ Frames(c) BY DEF Good
<1>2. Framed(d) /\ Frames(d) BY <1>1, FramedStep, FramesStep
<1>3. \A x : Holders(d, x) = Holders(c, x) BY DEF Holders
<1>4. ASSUME NEW t \in Trans PROVE TransOK(d, t)
  <2>1. CASE t = u BY <2>1
  <2>2. CASE t # u
    <3>1. d.trans[t] = c.trans[t] /\ TransOK(c, t) BY <2>2 DEF Kept, Good
    <3> QED BY <1>3, <3>1 DEF TransOK
  <2> QED BY <2>1, <2>2
<1>5. Tasked(d) BY DEF Good, Tasked
<1>6. ASSUME NEW x \in Live(d) PROVE LockOK(d, x)
  <2>1. x \in Entries /\ x \in Live(c) /\ LockOK(c, x) BY DEF Live, Good
  <2>2. /\ c.entries[x].writer \in Trans \cup {NoTrans} /\ c.entries[x].readers \subseteq Trans
        /\ Holders(c, x) = c.entries[x].readers \cup ({c.entries[x].writer} \ {NoTrans})
        /\ Holders(c, x) \subseteq Trans
    BY <1>1, <2>1, EntryTypes DEF Holders
  <2>3. \A t \in Holders(c, x) : CanWrite(d.trans[t].mode) <=> CanWrite(c.trans[t].mode)
    BY <2>1, <2>2 DEF KeepsLocks, Kept
  <2>4. ASSUME NEW t \in Holders(c, x) PROVE d.trans[t].entry = x \/ Adding(d, x, t)
    <3>1. CASE t = u BY <3>1, <2>1, <2>2 DEF KeepsLocks
    <3>2. CASE t # u
      <4>1. t \in Trans /\ d.trans[t] = c.trans[t] BY <2>2, <3>2 DEF Kept
      <4> SUFFICES ASSUME Adding(c, x, t) PROVE FALSE BY <2>1, <4>1 DEF LockOK
      <4>2. PICK i \in 1..Len(c.stack) : Runs(c, i, t) /\ Added(c.stack[i]) BY DEF Adding
      <4>3. i \in 1..n BY <3>2, <4>2, <1>1, FieldTypes DEF Kept, Runs
      <4> QED BY <4>2, <4>3 DEF Kept, Runs, Added, Quiet
    <3> QED BY <3>1, <3>2
  <2>5. Finding(c, x) => Finding(d, x)
    <3> SUFFICES ASSUME Finding(c, x) PROVE Finding(d, x) OBVIOUS
    <3>1. PICK i \in 1..Len(c.stack) : /\ c.stack[i].k = "run" /\ Found(c.stack[i])
                                       /\ c.trans[c.stack[i].t].new_entry = x
      BY DEF Finding
    <3>2. i \notin 1..n BY <3>1 DEF Kept, Found, Quiet
    <3>3. i > n BY <3>2, <1>1, FieldTypes DEF Kept
    <3>4. c.stack[i].t = u BY <3>1, <3>3 DEF Kept
    <3> QED BY <3>1, <3>3, <3>4
  <2>6. \A t \in Trans : InSeq(t, c.entries[x].pending_queue) => d.trans[t].new_entry = x
    <3>1. \A t : InSeq(t, c.entries[x].pending_queue) => InSeq(t, QueueOf(c, x))
      BY <2>1, <1>1, EntryTypes DEF QueueOf
    <3>2. \A t \in Trans : InSeq(t, c.entries[x].pending_queue) => c.trans[t].new_entry = x
      BY <2>1 DEF LockOK
    <3> QED BY <2>1, <3>1, <3>2 DEF Kept
  <2>7. d.entries[x].writer # NoTrans => /\ d.entries[x].readers = {} /\ ~d.entries[x].will_process
                                         /\ CanWrite(d.trans[d.entries[x].writer].mode)
    BY <2>1, <2>2, <2>3 DEF LockOK
  <2>8. \A t \in d.entries[x].readers : ~CanWrite(d.trans[t].mode) BY <2>1, <2>2, <2>3 DEF LockOK
  <2>9. /\ ~d.entries[x].doomed => d.active = x
        /\ Holders(d, x) # {} \/ d.entries[x].will_process \/ Finding(d, x)
        /\ Distinct(d.entries[x].pending_queue, 0)
    BY <2>1, <2>5, <1>3 DEF LockOK
  <2>10. \A t \in Holders(d, x) : d.trans[t].entry = x \/ Adding(d, x, t) BY <1>3, <2>4
  <2>11. \A t \in Trans : InSeq(t, d.entries[x].pending_queue) => d.trans[t].new_entry = x BY <2>6
  <2> QED BY <2>7, <2>8, <2>9, <2>10, <2>11 DEF LockOK
<1> QED BY <1>2, <1>4, <1>5, <1>6 DEF Good

-----------------------------------------------------------------------------
(* What the operators on the stack change.                                 *)

SameData(c, d) ==
    /\ d.active = c.active /\ d.entries = c.entries /\ d.op = c.op
    /\ d.backend = c.backend /\ d.backend_queue = c.backend_queue /\ d.tasks = c.tasks

\* c with another stack or another record of a transaction.
LEMMA SetStack ==
    ASSUME NEW c \in CacheType, NEW s \in Seq(Frame)
    PROVE  LET d == [c EXCEPT !.stack = s]
           IN  d \in CacheType /\ SameData(c, d) /\ d.trans = c.trans /\ d.stack = s
BY DEF CacheType, SameData

LEMMA SetTrans ==
    ASSUME NEW c \in CacheType, NEW t \in Trans, NEW x \in TransType
    PROVE  LET d == [c EXCEPT !.trans[t] = x]
           IN  /\ d \in CacheType /\ SameData(c, d) /\ d.stack = c.stack
               /\ d.trans[t] = x /\ \A r \in Trans \ {t} : d.trans[r] = c.trans[r]
<1> DEFINE T == [c.trans EXCEPT ![t] = x]
           d == [c EXCEPT !.trans = T]
<1>1. T \in [Trans -> TransType] /\ T[t] = x /\ \A r \in Trans \ {t} : T[r] = c.trans[r]
  BY FieldTypes
<1> HIDE DEF T
<1>2. d \in CacheType /\ SameData(c, d) /\ d.stack = c.stack /\ d.trans = T
  BY <1>1 DEF CacheType, SameData
<1>3. [c EXCEPT !.trans[t] = x] = d BY DEF d, T
<1> QED BY <1>1, <1>2, <1>3

LEMMA SetField ==
    ASSUME NEW c \in CacheType, NEW t \in Trans, NEW v
    PROVE  /\ v \in {"free", "pending", "running", "own"} =>
                 LET x == [c.trans[t] EXCEPT !.st = v]
                 IN  /\ x \in TransType /\ [c EXCEPT !.trans[t].st = v] = [c EXCEPT !.trans[t] = x]
                     /\ x.st = v /\ x.mode = c.trans[t].mode /\ x.entry = c.trans[t].entry
                     /\ x.new_entry = c.trans[t].new_entry
           /\ v \in Entries \cup {NoEntry} =>
                 LET x == [c.trans[t] EXCEPT !.new_entry = v]
                 IN  /\ x \in TransType
                     /\ [c EXCEPT !.trans[t].new_entry = v] = [c EXCEPT !.trans[t] = x]
                     /\ x.st = c.trans[t].st /\ x.mode = c.trans[t].mode
                     /\ x.entry = c.trans[t].entry /\ x.new_entry = v
           /\ v \in Entries \cup {NoEntry} =>
                 LET x == [c.trans[t] EXCEPT !.entry = v]
                 IN  /\ x \in TransType
                     /\ [c EXCEPT !.trans[t].entry = v] = [c EXCEPT !.trans[t] = x]
                     /\ x.st = c.trans[t].st /\ x.mode = c.trans[t].mode
                     /\ x.new_entry = c.trans[t].new_entry /\ x.entry = v
           /\ v \in {"NONE", "READ", "WRITE", "READ_WRITE", "UPDATE"} =>
                 LET x == [c.trans[t] EXCEPT !.mode = v]
                 IN  /\ x \in TransType
                     /\ [c EXCEPT !.trans[t].mode = v] = [c EXCEPT !.trans[t] = x]
                     /\ x.st = c.trans[t].st /\ x.entry = c.trans[t].entry
                     /\ x.new_entry = c.trans[t].new_entry /\ x.mode = v
<1>1. c.trans[t] \in TransType BY TransTypes
<1> QED BY <1>1 DEF TransType

\* The frames up to n stay.
SameFrames(c, d, n) == \A i \in 1..n : d.stack[i] = c.stack[i]
SameTrans(c, d, t) == \A r \in Trans \ {t} : d.trans[r] = c.trans[r]

LEMMA RunTypes ==
    ASSUME NEW t \in Trans, NEW s \in States, NEW rv \in Results
    PROVE  /\ Run(t, s, rv) \in Frame /\ Run(t, s, rv).k = "run" /\ Run(t, s, rv).t = t
           /\ Run(t, s, rv).s = s /\ Run(t, s, rv).rv = rv
           /\ User \in Frame /\ User.k = "user"
BY DEF Run, RunFrame, Frame, User, PlainFrame

LEMMA PopFacts ==
    ASSUME NEW c \in CacheType, c.stack # <<>>
    PROVE  LET d == Pop(c)
           IN  /\ d \in CacheType /\ SameData(c, d) /\ d.trans = c.trans
               /\ Len(c.stack) \in Nat \ {0} /\ Len(d.stack) = Len(c.stack) - 1
               /\ SameFrames(c, d, Len(c.stack) - 1)
<1> DEFINE s == SubSeq(c.stack, 1, Len(c.stack) - 1)
<1>1. c.stack \in Seq(Frame) BY FieldTypes
<1>2. /\ s \in Seq(Frame) /\ Len(s) = Len(c.stack) - 1 /\ Len(c.stack) \in Nat \ {0}
      /\ \A i \in 1..(Len(c.stack) - 1) : s[i] = c.stack[i]
  BY <1>1, PopStack
<1>3. Pop(c) = [c EXCEPT !.stack = s] BY DEF Pop
<1> HIDE DEF s
<1> QED BY <1>2, <1>3, SetStack DEF SameFrames

LEMMA PushFacts ==
    ASSUME NEW c \in CacheType, NEW f \in Frame
    PROVE  LET d == Push(c, f)
           IN  /\ d \in CacheType /\ SameData(c, d) /\ d.trans = c.trans
               /\ Len(c.stack) \in Nat /\ Len(d.stack) = Len(c.stack) + 1
               /\ d.stack[Len(c.stack) + 1] = f /\ SameFrames(c, d, Len(c.stack))
<1> DEFINE s == Append(c.stack, f)
           d == [c EXCEPT !.stack = s]
<1>1. c.stack \in Seq(Frame) BY FieldTypes
<1>2. /\ s \in Seq(Frame) /\ Len(c.stack) \in Nat
      /\ Len(s) = Len(c.stack) + 1 /\ s[Len(c.stack) + 1] = f
      /\ \A i \in 1..Len(c.stack) : s[i] = c.stack[i]
  BY <1>1, PushStack
<1>3. Push(c, f) = d BY DEF Push
<1> HIDE DEF s
<1>4. d \in CacheType /\ SameData(c, d) /\ d.trans = c.trans /\ d.stack = s BY <1>2, SetStack
<1> HIDE DEF d
<1>5. SameFrames(c, d, Len(c.stack)) BY <1>2, <1>4 DEF SameFrames
<1> QED BY <1>2, <1>3, <1>4, <1>5

LEMMA GotoFacts ==
    ASSUME NEW c \in CacheType, c.stack # <<>>, NEW t \in Trans, NEW s \in States, NEW rv \in Results
    PROVE  LET d == Goto(c, t, s, rv)
           IN  /\ d \in CacheType /\ SameData(c, d) /\ d.trans = c.trans
               /\ Len(c.stack) \in Nat \ {0} /\ Len(d.stack) = Len(c.stack)
               /\ d.stack[Len(c.stack)] = Run(t, s, rv) /\ SameFrames(c, d, Len(c.stack) - 1)
<1> DEFINE p == Pop(c)
           d == Push(p, Run(t, s, rv))
<1>1. /\ p \in CacheType /\ SameData(c, p) /\ p.trans = c.trans
      /\ Len(c.stack) \in Nat \ {0} /\ Len(p.stack) = Len(c.stack) - 1
      /\ SameFrames(c, p, Len(c.stack) - 1)
  BY PopFacts
<1>2. Run(t, s, rv) \in Frame BY RunTypes
<1> HIDE DEF p
<1>3. /\ d \in CacheType /\ SameData(p, d) /\ d.trans = p.trans
      /\ Len(d.stack) = Len(p.stack) + 1
      /\ d.stack[Len(p.stack) + 1] = Run(t, s, rv) /\ SameFrames(p, d, Len(p.stack))
  BY <1>1, <1>2, PushFacts
<1>4. Goto(c, t, s, rv) = d BY DEF Goto, p
<1> HIDE DEF d
<1>5. SameData(c, d) BY <1>1, <1>3 DEF SameData
<1>6. SameFrames(c, d, Len(c.stack) - 1) BY <1>1, <1>3 DEF SameFrames
<1> QED BY <1>1, <1>3, <1>4, <1>5, <1>6

WithSt(x, st) == [x EXCEPT !.st = st]

LEMMA WithStFacts ==
    ASSUME NEW x \in TransType, NEW st \in {"free", "pending", "running", "own"}
    PROVE  LET y == WithSt(x, st)
           IN  /\ y \in TransType /\ y.st = st /\ y.mode = x.mode
               /\ y.entry = x.entry /\ y.new_entry = x.new_entry
BY DEF WithSt, TransType

LEMMA BlockFacts ==
    ASSUME NEW c \in CacheType, c.stack # <<>>, NEW t \in Trans,
           NEW st \in {"free", "pending", "running", "own"}
    PROVE  LET d == Block(c, t, st)
           IN  /\ d \in CacheType /\ SameData(c, d) /\ SameTrans(c, d, t)
               /\ d.trans[t] = WithSt(c.trans[t], st)
               /\ Len(c.stack) \in Nat \ {0} /\ Len(d.stack) = Len(c.stack) - 1
               /\ SameFrames(c, d, Len(c.stack) - 1)
<1> DEFINE x == [c.trans[t] EXCEPT !.st = st]
           p == [c EXCEPT !.trans[t].st = st]
           d == Pop(p)
<1>1. x \in TransType /\ p = [c EXCEPT !.trans[t] = x] BY SetField
<1>2. /\ p \in CacheType /\ SameData(c, p) /\ p.stack = c.stack
      /\ p.trans[t] = x /\ SameTrans(c, p, t)
  BY <1>1, SetTrans DEF SameTrans
<1>3. Block(c, t, st) = d BY DEF Block
<1> HIDE DEF p, x
<1>4. /\ d \in CacheType /\ SameData(p, d) /\ d.trans = p.trans
      /\ Len(p.stack) \in Nat \ {0} /\ Len(d.stack) = Len(p.stack) - 1
      /\ SameFrames(p, d, Len(p.stack) - 1)
  BY <1>2, PopFacts
<1> HIDE DEF d
<1>5. SameData(c, d) /\ SameFrames(c, d, Len(c.stack) - 1) /\ SameTrans(c, d, t)
  BY <1>2, <1>4 DEF SameData, SameFrames, SameTrans
<1> QED BY <1>2, <1>3, <1>4, <1>5 DEF x, WithSt

\* The frame on top goes, and the client may run instead.
Ended(c, d) ==
    /\ SameFrames(c, d, Len(c.stack) - 1)
    /\ \/ Len(d.stack) = Len(c.stack) - 1
       \/ Len(d.stack) = Len(c.stack) /\ d.stack[Len(c.stack)] = User

LEMMA HandleResultFacts ==
    ASSUME NEW c \in CacheType, c.stack # <<>>, NEW t \in Trans,
           NEW st \in {"free", "pending", "running", "own"}
    PROVE  LET d == HandleResult(c, t, st)
           IN  /\ d \in CacheType /\ SameData(c, d) /\ SameTrans(c, d, t)
               /\ d.trans[t] = WithSt(c.trans[t], st)
               /\ Len(c.stack) \in Nat \ {0} /\ Ended(c, d)
<1> DEFINE p == Block(c, t, st)
           d == HandleResult(c, t, st)
<1>1. /\ p \in CacheType /\ SameData(c, p) /\ SameTrans(c, p, t)
      /\ p.trans[t] = WithSt(c.trans[t], st)
      /\ Len(c.stack) \in Nat \ {0} /\ Len(p.stack) = Len(c.stack) - 1
      /\ SameFrames(c, p, Len(c.stack) - 1)
  BY BlockFacts
<1>2. d = p \/ d = Push(p, User) BY DEF HandleResult
<1> HIDE DEF p, d
<1>3. CASE d = p
  <2>1. Ended(c, d) BY <1>1, <1>3 DEF Ended
  <2> QED BY <1>1, <1>3, <2>1 DEF d
<1>4. CASE d = Push(p, User)
  <2>1. User \in Frame BY DEF User, PlainFrame, Frame
  <2>2. /\ d \in CacheType /\ SameData(p, d) /\ d.trans = p.trans
        /\ Len(d.stack) = Len(p.stack) + 1
        /\ d.stack[Len(p.stack) + 1] = User /\ SameFrames(p, d, Len(p.stack))
    BY <1>1, <1>4, <2>1, PushFacts
  <2>3. SameData(c, d) /\ SameTrans(c, d, t) BY <1>1, <2>2 DEF SameData, SameTrans
  <2>4. Ended(c, d) BY <1>1, <2>2 DEF Ended, SameFrames
  <2> QED BY <1>1, <2>2, <2>3, <2>4 DEF d
<1> QED BY <1>2, <1>3, <1>4

LEMMA LeaveFacts ==
    ASSUME NEW c \in CacheType, c.stack # <<>>, NEW t \in Trans
    PROVE  LET d == Leave(c, t)
           IN  /\ d \in CacheType /\ SameData(c, d) /\ SameTrans(c, d, t) /\ d.trans[t] = Gone
               /\ Len(c.stack) \in Nat \ {0} /\ Ended(c, d)
<1> DEFINE p == HandleResult(c, t, "free")
           d == [p EXCEPT !.trans[t] = Gone]
<1>1. /\ p \in CacheType /\ SameData(c, p) /\ SameTrans(c, p, t)
      /\ Len(c.stack) \in Nat \ {0} /\ Ended(c, p)
  BY HandleResultFacts
<1>2. Leave(c, t) = d BY DEF Leave
<1> HIDE DEF p
<1>3. /\ d \in CacheType /\ SameData(p, d) /\ d.stack = p.stack
      /\ d.trans[t] = Gone /\ SameTrans(p, d, t)
  BY <1>1, Shapes, SetTrans DEF SameTrans
<1> HIDE DEF d
<1>4. SameData(c, d) /\ SameTrans(c, d, t) /\ Ended(c, d)
  BY <1>1, <1>3 DEF SameData, SameTrans, Ended, SameFrames
<1> QED BY <1>1, <1>2, <1>3, <1>4

LEMMA NotifyFacts ==
    ASSUME NEW c \in CacheType, NEW t \in Trans, NEW s \in States, NEW rv \in Results,
           CacheAssumption
    PROVE  LET d == Notify(c, t, s, rv)
           IN  /\ d \in CacheType /\ SameData(c, d) /\ SameTrans(c, d, t)
               /\ d.trans[t] = WithSt(c.trans[t], "running")
               /\ Len(c.stack) \in Nat /\ Len(d.stack) = Len(c.stack) + 1
               /\ d.stack[Len(c.stack) + 1] = Run(t, s, rv) /\ SameFrames(c, d, Len(c.stack))
<1> DEFINE x == [c.trans[t] EXCEPT !.st = "running"]
           p == [c EXCEPT !.trans[t].st = "running"]
           d == Push(p, Run(t, s, rv))
<1>1. x \in TransType /\ p = [c EXCEPT !.trans[t] = x] BY SetField
<1>2. /\ p \in CacheType /\ SameData(c, p) /\ p.stack = c.stack
      /\ p.trans[t] = x /\ SameTrans(c, p, t)
  BY <1>1, SetTrans DEF SameTrans
<1>3. t # NoTrans BY DEF CacheAssumption
<1>4. Notify(c, t, s, rv) = d BY <1>3 DEF Notify
<1>5. Run(t, s, rv) \in Frame BY RunTypes
<1> HIDE DEF p, x
<1>6. /\ d \in CacheType /\ SameData(p, d) /\ d.trans = p.trans
      /\ Len(p.stack) \in Nat /\ Len(d.stack) = Len(p.stack) + 1
      /\ d.stack[Len(p.stack) + 1] = Run(t, s, rv) /\ SameFrames(p, d, Len(p.stack))
  BY <1>2, <1>5, PushFacts
<1> HIDE DEF d
<1>7. SameData(c, d) /\ SameTrans(c, d, t) /\ SameFrames(c, d, Len(c.stack))
  BY <1>2, <1>6 DEF SameData, SameTrans, SameFrames
<1> QED BY <1>2, <1>4, <1>6, <1>7 DEF x, WithSt

-----------------------------------------------------------------------------
(* Steps of the DoLoop on top that leave the data alone.                   *)

LEMMA DiskSame ==
    ASSUME NEW c, NEW d, SameData(c, d), Disk(c)
    PROVE  Disk(d)
BY DEF SameData, Disk, Live, Ready

LEMMA TopKept ==
    ASSUME NEW c, Good(c), NEW d \in CacheType, NEW u \in Trans,
           c.stack # <<>>, Runs(c, Len(c.stack), u),
           Len(c.stack) - 1 <= Len(d.stack), SameFrames(c, d, Len(c.stack) - 1), SameTrans(c, d, u)
    PROVE  Kept(c, d, u, Len(c.stack) - 1)
<1> DEFINE n == Len(c.stack) - 1
<1>1. c \in CacheType /\ Framed(c) BY DEF Good
<1>2. Len(c.stack) \in Nat \ {0} BY <1>1, FieldTypes
<1>3. n \in 0..Len(c.stack) /\ Len(c.stack) \in 1..Len(c.stack) BY <1>2
<1>4. \A i \in 1..n : i \in 1..Len(c.stack) /\ i # Len(c.stack) BY <1>2
<1>5. ASSUME NEW i \in 1..n, c.stack[i].k = "run" PROVE c.stack[i].t # u /\ c.stack[i].s \in Quiet
  <2>1. ~Runs(c, i, u) BY <1>1, <1>3, <1>4 DEF Framed
  <2> QED BY <1>1, <1>4, <1>5, <2>1 DEF Framed, Runs
<1>6. \A i \in 1..Len(c.stack) : i > n => i = Len(c.stack) BY <1>2
<1> QED BY <1>3, <1>5, <1>6 DEF Kept, SameFrames, SameTrans, Runs

\* The frame on top, if there is one, is not that of a DoLoop, and u has none.
LEMMA BaseKept ==
    ASSUME NEW c, Good(c), NEW d \in CacheType, NEW u, NEW n \in Nat,
           u \in Trans => c.trans[u].st # "running", n \in {Len(c.stack), Len(c.stack) - 1},
           c.stack # <<>> => c.stack[Len(c.stack)].k # "run",
           n <= Len(d.stack), SameFrames(c, d, n), SameTrans(c, d, u)
    PROVE  Kept(c, d, u, n)
<1>1. c \in CacheType /\ Framed(c) BY DEF Good
<1>2. Len(c.stack) \in Nat BY <1>1, FieldTypes
<1>3. n \in 0..Len(c.stack) BY <1>2
<1>4. \A i \in 1..n : i \in 1..Len(c.stack) BY <1>2
<1>5. ASSUME NEW i \in 1..n, c.stack[i].k = "run" PROVE c.stack[i].t # u /\ c.stack[i].s \in Quiet
  <2>1. c.stack[i] \in Frame BY <1>1, <1>4, FieldTypes
  <2>2. c.stack[i].t \in Trans BY <1>5, <2>1, FrameTypes
  <2>3. c.stack[i].t # u BY <1>1, <1>4, <1>5, <2>2 DEF Framed, Runs
  <2>4. i # Len(c.stack) BY <1>1, <1>5, FieldTypes
  <2> QED BY <1>1, <1>4, <1>5, <2>3, <2>4 DEF Framed
<1>6. \A i \in 1..Len(c.stack) : i > n => c.stack[i].k # "run"
  <2>1. \A i \in 1..Len(c.stack) : i > n => i = Len(c.stack) BY <1>2
  <2>2. \A i \in 1..Len(c.stack) : c.stack # <<>> BY <1>1, FieldTypes
  <2> QED BY <2>1, <2>2
<1> QED BY <1>3, <1>5, <1>6 DEF Kept, SameFrames, SameTrans

\* t is where it was if no frame that comes or goes lists it.
LEMMA PlacesSame ==
    ASSUME NEW c, NEW d, NEW t, NEW n, d.entries = c.entries, d.op = c.op,
           d.backend_queue = c.backend_queue,
           \A i \in 1..Len(c.stack) : i > n => ~Listed(c.stack[i], t),
           \A i \in 1..Len(d.stack) : i > n => ~Listed(d.stack[i], t)
    PROVE  SamePlaces(c, d, t, n)
BY DEF SamePlaces, QueueOf

\* The DoLoop on top goes on, or it ends and the client may run instead.
NextFrame(c, d, u) ==
    /\ SameFrames(c, d, Len(c.stack) - 1)
    /\ \/ Len(d.stack) = Len(c.stack) - 1 /\ d.trans[u].st # "running"
       \/ /\ Len(d.stack) = Len(c.stack) /\ d.trans[u].st # "running"
          /\ d.stack[Len(c.stack)] = User
       \/ /\ Len(d.stack) = Len(c.stack) /\ d.trans[u].st = "running"
          /\ Runs(d, Len(c.stack), u) /\ FrameOK(d, d.stack[Len(c.stack)])

LEMMA NextFrameNew ==
    ASSUME NEW c, NEW d \in CacheType, NEW u, Len(c.stack) \in Nat \ {0}, NextFrame(c, d, u)
    PROVE  /\ NewFrames(d, u, Len(c.stack) - 1) /\ Len(c.stack) - 1 <= Len(d.stack)
           /\ \A t : \A i \in 1..Len(d.stack) : i > Len(c.stack) - 1 => ~Listed(d.stack[i], t)
<1> DEFINE n == Len(c.stack)
<1>1. n \in Nat \ {0} OBVIOUS
<1>2. CASE Len(d.stack) = n - 1 /\ d.trans[u].st # "running"
  <2>1. \A i \in 1..Len(d.stack) : ~(i > n - 1) BY <1>1, <1>2
  <2> QED BY <1>1, <1>2, <2>1 DEF NewFrames
<1>3. CASE Len(d.stack) = n /\ d.trans[u].st # "running" /\ d.stack[n] = User
  <2>1. \A i \in 1..Len(d.stack) : i > n - 1 => i = n BY <1>1, <1>3
  <2>2. User.k = "user" BY DEF User
  <2>3. FrameOK(d, User) BY <2>2 DEF FrameOK
  <2>4. \A t : ~Listed(User, t) BY <2>2 DEF Listed
  <2> QED BY <1>1, <1>3, <2>1, <2>2, <2>3, <2>4 DEF NewFrames
<1>4. CASE /\ Len(d.stack) = n /\ d.trans[u].st = "running"
           /\ Runs(d, n, u) /\ FrameOK(d, d.stack[n])
  <2>1. \A i \in 1..Len(d.stack) : i > n - 1 => i = n BY <1>1, <1>4
  <2>2. \A t : ~Listed(d.stack[n], t) BY <1>4 DEF Listed, Runs
  <2>3. n \in 1..Len(d.stack) /\ n > n - 1 BY <1>1, <1>4
  <2> QED BY <1>1, <1>4, <2>1, <2>2, <2>3 DEF NewFrames, Runs
<1> QED BY <1>2, <1>3, <1>4 DEF NextFrame

LEMMA TopGood ==
    ASSUME CacheAssumption, NEW c, Good(c), NEW d \in CacheType, NEW u \in Trans,
           c.stack # <<>>, Runs(c, Len(c.stack), u), SameData(c, d), SameTrans(c, d, u),
           NextFrame(c, d, u), d.trans[u].st # "pending", TransOK(d, u), KeepsLocks(c, d, u),
           Found(c.stack[Len(c.stack)]) => Finding(d, c.trans[u].new_entry)
    PROVE  Good(d)
<1> DEFINE n == Len(c.stack) - 1
<1>1. c \in CacheType /\ Framed(c) BY DEF Good
<1>2. Len(c.stack) \in Nat \ {0} BY <1>1, FieldTypes
<1>3. /\ NewFrames(d, u, n) /\ n <= Len(d.stack)
      /\ \A t : \A i \in 1..Len(d.stack) : i > n => ~Listed(d.stack[i], t)
  BY <1>2, NextFrameNew
<1>4. Kept(c, d, u, n) BY <1>3, TopKept DEF NextFrame
<1>5. Backed(c, d, n) /\ Disk(d) BY DiskSame DEF SameData, Backed, Ready, Good
<1>6. \A i \in 1..Len(c.stack) : i > n => i = Len(c.stack) BY <1>2
<1>7. c.trans[u].st = "running" BY <1>2, <1>1 DEF Framed
<1>8. ASSUME NEW t \in Trans PROVE PlacedOnce(d, t)
  <2>1. \A i \in 1..Len(c.stack) : i > n => ~Listed(c.stack[i], t) BY <1>6 DEF Listed, Runs
  <2>2. SamePlaces(c, d, t, n) BY <2>1, <1>3, PlacesSame DEF SameData
  <2>3. d.trans[t].st = "pending" <=> c.trans[t].st = "pending" BY <1>7 DEF SameTrans
  <2>4. PlacedOnce(c, t) BY DEF Good
  <2> QED BY <1>1, <1>4, <2>2, <2>3, <2>4, PlacedSame
<1>9. \A x \in Entries : ~InSeq(u, QueueOf(c, x)) BY <1>7, Nowhere
<1>10. \A i \in 1..Len(c.stack) : i > n /\ c.stack[i].k = "run" /\ Found(c.stack[i]) =>
                Finding(d, c.trans[u].new_entry)
  BY <1>6
<1>11. d.entries = c.entries /\ d.active = c.active /\ d.tasks = c.tasks BY DEF SameData
<1> HIDE DEF n
<1> QED BY <1>3, <1>4, <1>5, <1>8, <1>9, <1>10, <1>11, CalmGood

\* The DoLoop on top, after it set its own fields, goes on in state s.
LEMMA GoGood ==
    ASSUME CacheAssumption, NEW c, Good(c), NEW u \in Trans, c.stack # <<>>, Runs(c, Len(c.stack), u),
           NEW x \in CacheType, SameData(c, x), SameTrans(c, x, u), x.stack = c.stack,
           x.trans[u].st = "running", NEW s \in States, NEW rv \in Results,
           FrameOK(x, Run(u, s, rv)),
           x.trans[u].entry # NoEntry => u \in Holders(c, x.trans[u].entry),
           \A e \in Entries : u \in Holders(c, e) =>
                /\ CanWrite(x.trans[u].mode) <=> CanWrite(c.trans[u].mode)
                /\ x.trans[u].entry = e \/ (Added(Run(u, s, rv)) /\ x.trans[u].new_entry = e),
           Found(Top(c)) => Found(Run(u, s, rv)) /\ x.trans[u].new_entry = c.trans[u].new_entry
    PROVE  Good(Goto(x, u, s, rv))
<1> DEFINE d == Goto(x, u, s, rv)
           f == Run(u, s, rv)
           n == Len(c.stack)
<1>1. /\ d \in CacheType /\ SameData(x, d) /\ d.trans = x.trans
      /\ n \in Nat \ {0} /\ Len(d.stack) = n
      /\ d.stack[n] = f /\ SameFrames(x, d, n - 1)
  BY GotoFacts
<1>2. f.k = "run" /\ f.t = u /\ f.s = s /\ f.rv = rv BY RunTypes
<1> HIDE DEF d, f
<1>3. SameData(c, d) /\ SameTrans(c, d, u) /\ SameFrames(c, d, n - 1)
  BY <1>1 DEF SameData, SameTrans, SameFrames
<1>4. \A e : Holders(d, e) = Holders(c, e) BY <1>3 DEF SameData, Holders
<1>5. FrameOK(d, f)
  <2>1. FrameOK(x, f) /\ d.trans = x.trans BY <1>1 DEF f
  <2>2. \A e : Holders(d, e) = Holders(x, e) BY <1>1 DEF SameData, Holders
  <2> QED BY <1>1, <2>1, <2>2, <1>2 DEF FrameOK, SameData, Ready
<1>6. NextFrame(c, d, u) BY <1>1, <1>2, <1>3, <1>5 DEF NextFrame, Runs
<1>7. TransOK(d, u) BY <1>1, <1>4 DEF TransOK
<1>8. n \in 1..Len(d.stack) /\ Runs(d, n, u) BY <1>1, <1>2 DEF Runs
<1>9. KeepsLocks(c, d, u)
  <2>1. \A e : Added(f) /\ x.trans[u].new_entry = e => Adding(d, e, u) BY <1>1, <1>8 DEF Adding
  <2> QED BY <2>1, <1>1 DEF KeepsLocks, f
<1>10. Found(c.stack[n]) => Finding(d, c.trans[u].new_entry)
  BY <1>1, <1>2, <1>8 DEF Finding, Top, f
<1>11. d.trans[u].st # "pending" BY <1>1
<1>12. Good(d) BY <1>1, <1>3, <1>6, <1>7, <1>9, <1>10, <1>11, TopGood
<1> QED BY <1>12 DEF d

\* The same where it has no entry.
LEMMA PlainGo ==
    ASSUME CacheAssumption, NEW c, Good(c), NEW u \in Trans, c.stack # <<>>, Runs(c, Len(c.stack), u),
           Top(c).s # "USE", ~Added(Top(c)),
           NEW x \in CacheType, SameData(c, x), SameTrans(c, x, u), x.stack = c.stack,
           x.trans[u].st = "running", x.trans[u].entry = NoEntry,
           NEW s \in States, NEW rv \in Results, FrameOK(x, Run(u, s, rv)),
           Found(Top(c)) => Found(Run(u, s, rv)) /\ x.trans[u].new_entry = c.trans[u].new_entry
    PROVE  Good(Goto(x, u, s, rv))
<1>1. \A e \in Entries : u \notin Holders(c, e) BY HoldsTop DEF Top
<1> QED BY <1>1, GoGood

\* The DoLoop on top ends, and its transaction with it.
LEMMA EndGood ==
    ASSUME CacheAssumption, NEW c, Good(c), NEW u \in Trans, c.stack # <<>>, Runs(c, Len(c.stack), u),
           Top(c).s # "USE", ~Added(Top(c)), ~Found(Top(c)),
           NEW d \in CacheType, SameData(c, d), SameTrans(c, d, u), d.trans[u] = Gone, Ended(c, d)
    PROVE  Good(d)
<1>1. \A e \in Entries : u \notin Holders(c, e) BY HoldsTop DEF Top
<1>2. KeepsLocks(c, d, u) BY <1>1 DEF KeepsLocks
<1>3. Gone.st = "free" /\ Gone.entry = NoEntry BY DEF Gone
<1>4. NextFrame(c, d, u) BY <1>3 DEF NextFrame, Ended
<1>5. TransOK(d, u) BY <1>3 DEF TransOK
<1> QED BY <1>2, <1>3, <1>4, <1>5, TopGood DEF Top

LEMMA LeaveGood ==
    ASSUME CacheAssumption, NEW c, Good(c), NEW u \in Trans, c.stack # <<>>, Runs(c, Len(c.stack), u),
           Top(c).s # "USE", ~Added(Top(c)), ~Found(Top(c))
    PROVE  Good(Leave(c, u))
<1> DEFINE d == Leave(c, u)
<1>1. c \in CacheType BY DEF Good
<1>2. d \in CacheType /\ SameData(c, d) /\ SameTrans(c, d, u) /\ d.trans[u] = Gone /\ Ended(c, d)
  BY <1>1, LeaveFacts
<1> HIDE DEF d
<1>3. Good(d) BY <1>2, EndGood
<1> QED BY <1>3 DEF d

LEMMA AtFacts ==
    ASSUME Good(cache), NEW t \in Trans, NEW s, At(t, s)
    PROVE  /\ cache \in CacheType /\ cache.stack # <<>> /\ Runs(cache, Len(cache.stack), t)
           /\ Top(cache).k = "run" /\ Top(cache).t = t /\ Top(cache).s = s /\ s \in States
           /\ Top(cache).rv = Rv /\ Rv \in Results /\ FrameOK(cache, Top(cache))
           /\ cache.trans[t].st = "running" /\ cache.trans[t] \in TransType
           /\ SameData(cache, cache) /\ SameTrans(cache, cache, t)
           /\ s = "USE" <=> cache.trans[t].entry # NoEntry
           /\ s # "PASS" => Ready(cache)
<1>1. /\ cache.stack # <<>> /\ Top(cache).k = "run" /\ Top(cache).t = t /\ Top(cache).s = s
      /\ Runs(cache, Len(cache.stack), t)
  BY DEF At, OnTop, Runs, Top
<1>2. cache \in CacheType BY DEF Good
<1>3. Len(cache.stack) \in 1..Len(cache.stack) BY <1>1, <1>2, FieldTypes
<1>4. Top(cache) \in Frame BY <1>2, <1>3, FieldTypes DEF Top
<1>5. Rv \in Results /\ s \in States BY <1>1, <1>4, FrameTypes DEF Rv
<1>6. FrameOK(cache, Top(cache)) BY <1>3 DEF Good, Frames, Top
<1>7. cache.trans[t].st = "running" BY <1>1, <1>3 DEF Good, Framed
<1>8. (s = "USE" <=> cache.trans[t].entry # NoEntry) /\ (s # "PASS" => Ready(cache))
  BY <1>1, <1>6 DEF FrameOK
<1>9. cache.trans[t] \in TransType BY <1>2, TransTypes
<1> QED BY <1>1, <1>2, <1>5, <1>6, <1>7, <1>8, <1>9 DEF Rv, SameData, SameTrans

\* A DoLoop sets its own fields.
Own(c, x, u) == x \in CacheType /\ SameData(c, x) /\ SameTrans(c, x, u) /\ x.stack = c.stack

Addresses == Entries \cup {NoEntry}
ModeNames == {"NONE", "READ", "WRITE", "READ_WRITE", "UPDATE"}
WithMode(c, t, v) == [c EXCEPT !.trans[t].mode = v]
WithEntry(c, t, v) == [c EXCEPT !.trans[t].entry = v]
WithNew(c, t, v) == [c EXCEPT !.trans[t].new_entry = v]

LEMMA WithModeFacts ==
    ASSUME NEW c \in CacheType, NEW t \in Trans, NEW v \in ModeNames
    PROVE  LET x == WithMode(c, t, v)
           IN  /\ Own(c, x, t) /\ x.trans[t].st = c.trans[t].st /\ x.trans[t].mode = v
               /\ x.trans[t].entry = c.trans[t].entry /\ x.trans[t].new_entry = c.trans[t].new_entry
<1> DEFINE y == [c.trans[t] EXCEPT !.mode = v]
           x == [c EXCEPT !.trans[t] = y]
<1>1. /\ y \in TransType /\ y.st = c.trans[t].st /\ y.mode = v
      /\ y.entry = c.trans[t].entry /\ y.new_entry = c.trans[t].new_entry
  BY TransTypes DEF TransType, ModeNames
<1>2. WithMode(c, t, v) = x BY DEF WithMode
<1> HIDE DEF y
<1>3. Own(c, x, t) /\ x.trans[t] = y BY <1>1, SetTrans DEF Own, SameTrans
<1> HIDE DEF x
<1> QED BY <1>1, <1>2, <1>3

LEMMA WithEntryFacts ==
    ASSUME NEW c \in CacheType, NEW t \in Trans, NEW v \in Addresses
    PROVE  LET x == WithEntry(c, t, v)
           IN  /\ Own(c, x, t) /\ x.trans[t].st = c.trans[t].st /\ x.trans[t].entry = v
               /\ x.trans[t].mode = c.trans[t].mode /\ x.trans[t].new_entry = c.trans[t].new_entry
<1> DEFINE y == [c.trans[t] EXCEPT !.entry = v]
           x == [c EXCEPT !.trans[t] = y]
<1>1. /\ y \in TransType /\ y.st = c.trans[t].st /\ y.entry = v
      /\ y.mode = c.trans[t].mode /\ y.new_entry = c.trans[t].new_entry
  BY TransTypes DEF TransType, Addresses
<1>2. WithEntry(c, t, v) = x BY DEF WithEntry
<1> HIDE DEF y
<1>3. Own(c, x, t) /\ x.trans[t] = y BY <1>1, SetTrans DEF Own, SameTrans
<1> HIDE DEF x
<1> QED BY <1>1, <1>2, <1>3

LEMMA WithNewFacts ==
    ASSUME NEW c \in CacheType, NEW t \in Trans, NEW v \in Addresses
    PROVE  LET x == WithNew(c, t, v)
           IN  /\ Own(c, x, t) /\ x.trans[t].st = c.trans[t].st /\ x.trans[t].new_entry = v
               /\ x.trans[t].mode = c.trans[t].mode /\ x.trans[t].entry = c.trans[t].entry
<1> DEFINE y == [c.trans[t] EXCEPT !.new_entry = v]
           x == [c EXCEPT !.trans[t] = y]
<1>1. /\ y \in TransType /\ y.st = c.trans[t].st /\ y.new_entry = v
      /\ y.mode = c.trans[t].mode /\ y.entry = c.trans[t].entry
  BY TransTypes DEF TransType, Addresses
<1>2. WithNew(c, t, v) = x BY DEF WithNew
<1> HIDE DEF y
<1>3. Own(c, x, t) /\ x.trans[t] = y BY <1>1, SetTrans DEF Own, SameTrans
<1> HIDE DEF x
<1> QED BY <1>1, <1>2, <1>3

\* The transaction has no entry any more, and another mode.
WithBoth(c, t, v) == WithEntry(WithMode(c, t, v), t, NoEntry)
WithNone(c, t, v) == WithMode(WithEntry(c, t, NoEntry), t, v)

LEMMA WithBothFacts ==
    ASSUME NEW c \in CacheType, NEW t \in Trans,
           NEW v \in ModeNames, NEW x, x \in {WithBoth(c, t, v), WithNone(c, t, v)}
    PROVE  /\ Own(c, x, t) /\ x.trans[t].st = c.trans[t].st /\ x.trans[t].mode = v
           /\ x.trans[t].entry = NoEntry /\ x.trans[t].new_entry = c.trans[t].new_entry
<1>1. NoEntry \in Addresses BY DEF Addresses
<1>2. CASE x = WithBoth(c, t, v)
  <2> DEFINE y == WithMode(c, t, v)
  <2>1. /\ Own(c, y, t) /\ y.trans[t].st = c.trans[t].st /\ y.trans[t].mode = v
        /\ y.trans[t].new_entry = c.trans[t].new_entry
    BY WithModeFacts
  <2>2. x = WithEntry(y, t, NoEntry) BY <1>2 DEF WithBoth
  <2> HIDE DEF y
  <2>3. /\ Own(y, x, t) /\ x.trans[t].st = y.trans[t].st /\ x.trans[t].mode = y.trans[t].mode
        /\ x.trans[t].new_entry = y.trans[t].new_entry /\ x.trans[t].entry = NoEntry
    BY <1>1, <2>1, <2>2, WithEntryFacts DEF Own
  <2>4. Own(c, x, t) BY <2>1, <2>3 DEF Own, SameData, SameTrans
  <2> QED BY <2>1, <2>3, <2>4
<1>3. CASE x = WithNone(c, t, v)
  <2> DEFINE y == WithEntry(c, t, NoEntry)
  <2>1. /\ Own(c, y, t) /\ y.trans[t].st = c.trans[t].st /\ y.trans[t].entry = NoEntry
        /\ y.trans[t].new_entry = c.trans[t].new_entry
    BY <1>1, WithEntryFacts
  <2>2. x = WithMode(y, t, v) BY <1>3 DEF WithNone
  <2> HIDE DEF y
  <2>3. /\ Own(y, x, t) /\ x.trans[t].st = y.trans[t].st /\ x.trans[t].entry = y.trans[t].entry
        /\ x.trans[t].new_entry = y.trans[t].new_entry /\ x.trans[t].mode = v
    BY <2>1, <2>2, WithModeFacts DEF Own
  <2>4. Own(c, x, t) BY <2>1, <2>3 DEF Own, SameData, SameTrans
  <2> QED BY <2>1, <2>3, <2>4
<1> QED BY <1>2, <1>3

\* A DoLoop goes on without the cache, or starts over.
LEMMA QuietOK ==
    ASSUME NEW x, NEW u \in Trans, NEW s \in Quiet, NEW rv \in Results,
           x.trans[u].entry = NoEntry, s = "PASS" \/ Ready(x)
    PROVE  /\ FrameOK(x, Run(u, s, rv)) /\ s \in States
           /\ ~Found(Run(u, s, rv)) /\ ~Added(Run(u, s, rv)) /\ ~Missed(Run(u, s, rv))
<1>1. s \in States BY DEF Quiet, States
<1> QED BY <1>1, RunTypes DEF FrameOK, Missed, Found, Added, Quiet

LEMMA PassGood ==
    ASSUME CacheAssumption, Good(cache), NEW t \in Trans, NEW s, At(t, s), s # "USE",
           ~Added(Top(cache)), ~Found(Top(cache))
    PROVE  Good(PassThrough(cache, t))
<1> DEFINE x == [cache EXCEPT !.trans[t].mode = "NONE", !.trans[t].entry = NoEntry]
<1>1. /\ cache \in CacheType /\ cache.stack # <<>> /\ Runs(cache, Len(cache.stack), t)
      /\ cache.trans[t].st = "running" /\ Top(cache).s # "USE"
  BY AtFacts
<1>2. Own(cache, x, t) /\ x.trans[t].st = "running" /\ x.trans[t].entry = NoEntry
  <2>1. x = WithBoth(cache, t, "NONE") BY DEF WithBoth, WithEntry, WithMode
  <2> HIDE DEF x
  <2>2. "NONE" \in ModeNames BY DEF ModeNames
  <2> QED BY <1>1, <2>1, <2>2, WithBothFacts
<1>3. PassThrough(cache, t) = Goto(x, t, "PASS", "OK") BY DEF PassThrough
<1> HIDE DEF x
<1>4. FrameOK(x, Run(t, "PASS", "OK")) /\ "PASS" \in States /\ "OK" \in Results
  BY <1>2, QuietOK DEF Quiet, Results
<1> QED BY <1>1, <1>2, <1>3, <1>4, PlainGo DEF Own

LEMMA DoOpenEntryCompleteGood ==
    ASSUME CacheAssumption, Good(cache), NEW t \in Trans, DoOpenEntryComplete(t)
    PROVE  Good(cache')
<1> DEFINE f == Top(cache)
<1>1. At(t, "OPEN_COMPLETE") BY DEF DoOpenEntryComplete
<1>2. /\ cache \in CacheType /\ cache.stack # <<>> /\ Runs(cache, Len(cache.stack), t)
      /\ f.k = "run" /\ f.t = t /\ f.s = "OPEN_COMPLETE" /\ f.rv = Rv /\ FrameOK(cache, f)
      /\ cache.trans[t].st = "running" /\ cache.trans[t].entry = NoEntry /\ Ready(cache)
      /\ SameData(cache, cache) /\ SameTrans(cache, cache, t)
  BY <1>1, AtFacts
<1>3. ~Added(f) /\ (Found(f) <=> Rv = "OK") /\ f.s # "USE" BY <1>2 DEF Added, Found
<1>4. {"ADD_TO_ENTRY", "INIT_ENTRY", "CREATE_ENTRY", "PASS"} \subseteq States /\ "OK" \in Results
  BY DEF States, Results
<1>5. CASE Rv = "OK" /\ cache' = Goto(cache, t, "ADD_TO_ENTRY", "OK")
  <2>1. cache.active # NoEntry /\ cache.trans[t].new_entry = cache.active
    BY <1>2, <1>3, <1>5 DEF FrameOK
  <2>2. FrameOK(cache, Run(t, "ADD_TO_ENTRY", "OK")) /\ Found(Run(t, "ADD_TO_ENTRY", "OK"))
    BY <1>2, <1>4, <2>1, RunTypes DEF FrameOK, Missed, Found, Added
  <2>3. Good(Goto(cache, t, "ADD_TO_ENTRY", "OK")) BY <1>2, <1>3, <1>4, <2>2, PlainGo
  <2> QED BY <1>5, <2>3
<1>6. CASE Rv = "RACE" /\ cache' = Goto(cache, t, "INIT_ENTRY", "OK")
  <2>1. FrameOK(cache, Run(t, "INIT_ENTRY", "OK")) BY <1>2, <1>4, QuietOK DEF Quiet
  <2>2. Good(Goto(cache, t, "INIT_ENTRY", "OK")) BY <1>2, <1>3, <1>4, <1>6, <2>1, PlainGo
  <2> QED BY <1>6, <2>2
<1>7. CASE /\ Rv = "ERR"
           /\ cache' = Goto([cache EXCEPT !.trans[t].mode = "WRITE"], t, "CREATE_ENTRY", "OK")
  <2> DEFINE x == [cache EXCEPT !.trans[t].mode = "WRITE"]
  <2>1. /\ Own(cache, x, t) /\ x.trans[t].st = cache.trans[t].st
        /\ x.trans[t].entry = cache.trans[t].entry
    <3>1. x = WithMode(cache, t, "WRITE") BY DEF WithMode
    <3> HIDE DEF x
    <3>2. "WRITE" \in ModeNames BY DEF ModeNames
    <3> QED BY <1>2, <3>1, <3>2, WithModeFacts
  <2> HIDE DEF x
  <2>2. cache.active = NoEntry BY <1>2, <1>7 DEF FrameOK, Missed
  <2>3. FrameOK(x, Run(t, "CREATE_ENTRY", "OK"))
    BY <1>2, <1>4, <2>1, <2>2, RunTypes
       DEF FrameOK, Missed, Found, Added, Own, SameData, Ready
  <2>4. ~Found(f) BY <1>3, <1>7
  <2>5. Good(Goto(x, t, "CREATE_ENTRY", "OK"))
    BY <1>2, <1>3, <1>4, <2>1, <2>3, <2>4, PlainGo DEF Own
  <2> QED BY <1>7, <2>5 DEF x
<1>8. CASE Rv = "ERR" /\ cache' = PassThrough(cache, t)
  BY <1>1, <1>3, <1>8, PassGood
<1>9. CASE Rv = "ERR" /\ cache' = Leave(cache, t)
  BY <1>2, <1>3, <1>9, LeaveGood
<1> QED BY <1>5, <1>6, <1>7, <1>8, <1>9 DEF DoOpenEntryComplete

LEMMA DoCreateEntryCompleteGood ==
    ASSUME CacheAssumption, Good(cache), NEW t \in Trans, DoCreateEntryComplete(t)
    PROVE  Good(cache')
<1> DEFINE f == Top(cache)
<1>1. At(t, "CREATE_COMPLETE") BY DEF DoCreateEntryComplete
<1>2. /\ cache \in CacheType /\ cache.stack # <<>> /\ Runs(cache, Len(cache.stack), t)
      /\ f.k = "run" /\ f.t = t /\ f.s = "CREATE_COMPLETE" /\ f.rv = Rv /\ FrameOK(cache, f)
      /\ cache.trans[t].st = "running" /\ cache.trans[t].entry = NoEntry /\ Ready(cache)
      /\ SameData(cache, cache) /\ SameTrans(cache, cache, t)
  BY <1>1, AtFacts
<1>3. ~Added(f) /\ (Found(f) <=> Rv = "OK") /\ f.s # "USE" BY <1>2 DEF Added, Found
<1>4. {"ADD_TO_ENTRY", "INIT_ENTRY"} \subseteq States /\ "OK" \in Results BY DEF States, Results
<1>5. CASE Rv = "OK" /\ cache' = Goto(cache, t, "ADD_TO_ENTRY", "OK")
  <2>1. cache.active # NoEntry /\ cache.trans[t].new_entry = cache.active
    BY <1>2, <1>3, <1>5 DEF FrameOK
  <2>2. FrameOK(cache, Run(t, "ADD_TO_ENTRY", "OK")) /\ Found(Run(t, "ADD_TO_ENTRY", "OK"))
    BY <1>2, <1>4, <2>1, RunTypes DEF FrameOK, Missed, Found, Added
  <2>3. Good(Goto(cache, t, "ADD_TO_ENTRY", "OK")) BY <1>2, <1>3, <1>4, <2>2, PlainGo
  <2> QED BY <1>5, <2>3
<1>6. CASE Rv = "RACE" /\ cache' = Goto(cache, t, "INIT_ENTRY", "OK")
  <2>1. FrameOK(cache, Run(t, "INIT_ENTRY", "OK")) BY <1>2, <1>4, QuietOK DEF Quiet
  <2>2. Good(Goto(cache, t, "INIT_ENTRY", "OK")) BY <1>2, <1>3, <1>4, <1>6, <2>1, PlainGo
  <2> QED BY <1>6, <2>2
<1>7. CASE Rv \in {"ERR", "CREATE_FAILURE"} /\ cache' = PassThrough(cache, t)
  BY <1>1, <1>3, <1>7, PassGood
<1> QED BY <1>5, <1>6, <1>7 DEF DoCreateEntryComplete

LEMMA DoDoomEntryCompleteGood ==
    ASSUME CacheAssumption, Good(cache), NEW t \in Trans, DoDoomEntryComplete(t)
    PROVE  Good(cache')
<1> DEFINE f == Top(cache)
           s == IF Rv = "RACE" THEN "INIT_ENTRY" ELSE "CREATE_ENTRY"
<1>1. At(t, "DOOM_COMPLETE") /\ cache' = Goto(cache, t, s, "OK") BY DEF DoDoomEntryComplete
<1>2. /\ cache \in CacheType /\ cache.stack # <<>> /\ Runs(cache, Len(cache.stack), t)
      /\ f.k = "run" /\ f.t = t /\ f.s = "DOOM_COMPLETE" /\ f.rv = Rv /\ FrameOK(cache, f)
      /\ cache.trans[t].st = "running" /\ cache.trans[t].entry = NoEntry /\ Ready(cache)
      /\ SameData(cache, cache) /\ SameTrans(cache, cache, t)
  BY <1>1, AtFacts
<1>3. ~Added(f) /\ ~Found(f) /\ f.s # "USE" BY <1>2 DEF Added, Found
<1>4. s \in States /\ "OK" \in Results BY DEF States, Results
<1>5. s = "CREATE_ENTRY" => cache.active = NoEntry BY <1>2 DEF FrameOK, Missed
<1>6. FrameOK(cache, Run(t, s, "OK"))
  <2>1. s \in {"INIT_ENTRY", "CREATE_ENTRY"} OBVIOUS
  <2> HIDE DEF s
  <2> QED BY <1>2, <1>4, <1>5, <2>1, RunTypes DEF FrameOK, Missed, Found, Added
<1> HIDE DEF s
<1>7. Good(Goto(cache, t, s, "OK")) BY <1>2, <1>3, <1>4, <1>6, PlainGo
<1> QED BY <1>1, <1>7

LEMMA DoAddToEntryCompleteGood ==
    ASSUME CacheAssumption, Good(cache), NEW t \in Trans, DoAddToEntryComplete(t)
    PROVE  Good(cache')
<1> DEFINE f == Top(cache)
           c == [cache EXCEPT !.trans[t].new_entry = NoEntry]
           e == cache.trans[t].new_entry
           x == [c EXCEPT !.trans[t].entry = e]
<1>1. At(t, "ADD_COMPLETE") BY DEF DoAddToEntryComplete
<1>2. /\ cache \in CacheType /\ cache.stack # <<>> /\ Runs(cache, Len(cache.stack), t)
      /\ f.k = "run" /\ f.t = t /\ f.s = "ADD_COMPLETE" /\ f.rv = Rv /\ FrameOK(cache, f)
      /\ cache.trans[t].st = "running" /\ cache.trans[t].entry = NoEntry /\ Ready(cache)
  BY <1>1, AtFacts
<1>3. ~Found(f) /\ (Added(f) <=> Rv = "OK") /\ f.s # "USE" BY <1>2 DEF Added, Found
<1>4. {"USE", "INIT_ENTRY"} \subseteq States /\ "OK" \in Results BY DEF States, Results
<1>5. e \in Addresses BY <1>2, TransTypes DEF Addresses
<1>6. /\ Own(cache, c, t) /\ c.trans[t].st = "running" /\ c.trans[t].entry = NoEntry
      /\ c.trans[t].mode = cache.trans[t].mode
  <2> DEFINE w == WithNew(cache, t, NoEntry)
  <2>1. /\ Own(cache, w, t) /\ w.trans[t].st = cache.trans[t].st
        /\ w.trans[t].entry = cache.trans[t].entry /\ w.trans[t].mode = cache.trans[t].mode
    <3>1. NoEntry \in Addresses BY DEF Addresses
    <3> QED BY <1>2, <3>1, WithNewFacts
  <2>2. c = w BY DEF WithNew
  <2> HIDE DEF c, w
  <2> QED BY <1>2, <2>1, <2>2
<1> HIDE DEF c, e
<1>7. CASE Rv = "RACE" /\ cache' = Goto(c, t, "INIT_ENTRY", "OK")
  <2>1. FrameOK(c, Run(t, "INIT_ENTRY", "OK"))
    BY <1>2, <1>4, <1>6, QuietOK DEF Quiet, Own, SameData, Ready
  <2>2. Good(Goto(c, t, "INIT_ENTRY", "OK")) BY <1>2, <1>3, <1>4, <1>6, <1>7, <2>1, PlainGo DEF Own
  <2> QED BY <1>7, <2>2
<1>8. CASE Rv = "OK" /\ cache' = Goto(x, t, "USE", "OK")
  <2>1. /\ Own(c, x, t) /\ x.trans[t].st = c.trans[t].st /\ x.trans[t].entry = e
        /\ x.trans[t].mode = c.trans[t].mode
    <3>1. x = WithEntry(c, t, e) BY DEF WithEntry
    <3> HIDE DEF x
    <3> QED BY <1>5, <1>6, <3>1, WithEntryFacts DEF Own
  <2> HIDE DEF x
  <2>2. e \in Entries /\ t \in Holders(cache, e) BY <1>2, <1>3, <1>8 DEF FrameOK, e
  <2>3. e # NoEntry BY <2>2 DEF CacheAssumption, NoEntry
  <2>4. Own(cache, x, t) BY <1>6, <2>1 DEF Own, SameData, SameTrans
  <2>5. FrameOK(x, Run(t, "USE", "OK"))
    BY <1>2, <1>4, <2>1, <2>3, <2>4, RunTypes
       DEF FrameOK, Missed, Found, Added, Own, SameData, Ready
  <2>6. ASSUME NEW y \in Entries, t \in Holders(cache, y) PROVE y = e
    <3>1. cache.trans[t].entry = y \/ cache.trans[t].new_entry = y BY <2>6, HoldsWhat
    <3>2. y # NoEntry BY DEF CacheAssumption, NoEntry
    <3> QED BY <1>2, <3>1, <3>2 DEF e
  <2>7. Good(Goto(x, t, "USE", "OK"))
    BY <1>2, <1>3, <1>4, <1>6, <2>1, <2>2, <2>4, <2>5, <2>6, GoGood DEF Own
  <2> QED BY <1>8, <2>7
<1> QED BY <1>7, <1>8 DEF DoAddToEntryComplete, c, e, x

LEMMA SuspendGood ==
    ASSUME CacheAssumption, Good(cache), NEW t \in Trans, Suspend(t)
    PROVE  Good(cache')
<1> DEFINE d == cache'
<1>1. At(t, "USE") BY DEF Suspend
<1>2. /\ cache \in CacheType /\ cache.stack # <<>> /\ Runs(cache, Len(cache.stack), t)
      /\ Top(cache).s = "USE" /\ cache.trans[t].entry # NoEntry /\ cache.trans[t] \in TransType
  BY <1>1, AtFacts
<1>3. /\ d \in CacheType /\ SameData(cache, d) /\ SameTrans(cache, d, t)
      /\ d.trans[t] = WithSt(cache.trans[t], "own") /\ Ended(cache, d)
  <2>1. CASE d = Block(cache, t, "own")
    <3> HIDE DEF d
    <3> QED BY <1>2, <2>1, BlockFacts DEF Ended
  <2>2. CASE d = HandleResult(cache, t, "own")
    <3> HIDE DEF d
    <3> QED BY <1>2, <2>2, HandleResultFacts
  <2> QED BY <2>1, <2>2 DEF Suspend
<1> HIDE DEF d
<1>4. /\ d.trans[t].st = "own" /\ d.trans[t].mode = cache.trans[t].mode
      /\ d.trans[t].entry = cache.trans[t].entry
  BY <1>2, <1>3, WithStFacts
<1>5. NextFrame(cache, d, t) BY <1>3, <1>4 DEF NextFrame, Ended
<1>6. \A e : Holders(d, e) = Holders(cache, e) BY <1>3 DEF SameData, Holders
<1>7. TransOK(d, t) BY <1>2, <1>4, <1>6 DEF TransOK, Good
<1>8. KeepsLocks(cache, d, t) BY <1>2, <1>4, HoldsTop DEF KeepsLocks, Top
<1>9. ~Found(cache.stack[Len(cache.stack)]) BY <1>2 DEF Found, Top
<1>10. Good(d) BY <1>2, <1>3, <1>4, <1>5, <1>7, <1>8, <1>9, TopGood
<1> QED BY <1>10 DEF d

LEMMA OverwriteGood ==
    ASSUME CacheAssumption, Good(cache), NEW t \in Trans, Overwrite(t)
    PROVE  Good(cache')
<1> DEFINE d == WithMode(cache, t, "WRITE")
<1>1. At(t, "USE") /\ cache' = d /\ CanWrite(cache.trans[t].mode)
  BY DEF Overwrite, WithMode, Mode, CanWrite
<1>2. /\ cache \in CacheType /\ cache.stack # <<>> /\ Runs(cache, Len(cache.stack), t)
      /\ Top(cache).s = "USE" /\ cache.trans[t].entry # NoEntry /\ cache.trans[t].st = "running"
      /\ FrameOK(cache, Top(cache)) /\ Top(cache).k = "run" /\ Top(cache).t = t
  BY <1>1, AtFacts
<1>3. "WRITE" \in ModeNames BY DEF ModeNames
<1>4. /\ Own(cache, d, t) /\ d.trans[t].st = cache.trans[t].st /\ d.trans[t].mode = "WRITE"
      /\ d.trans[t].entry = cache.trans[t].entry /\ d.trans[t].new_entry = cache.trans[t].new_entry
  BY <1>2, <1>3, WithModeFacts
<1> HIDE DEF d
<1>5. \A e : Holders(d, e) = Holders(cache, e) BY <1>4 DEF Own, SameData, Holders
<1>6. FrameOK(d, Top(cache))
  BY <1>2, <1>4, <1>5 DEF FrameOK, Own, SameData, Ready
<1>7. NextFrame(cache, d, t)
  BY <1>2, <1>4, <1>6 DEF NextFrame, Own, Top, Runs, SameFrames
<1>8. TransOK(d, t) BY <1>2, <1>4, <1>5 DEF TransOK, Good
<1>9. CanWrite("WRITE") BY DEF CanWrite
<1>10. KeepsLocks(cache, d, t) BY <1>1, <1>2, <1>4, <1>9, HoldsTop DEF KeepsLocks, Top
<1>11. ~Found(cache.stack[Len(cache.stack)]) BY <1>2 DEF Found, Top
<1>12. d.trans[t].st # "pending" BY <1>2, <1>4
<1>13. Good(d) BY <1>2, <1>4, <1>7, <1>8, <1>10, <1>11, <1>12, TopGood DEF Own
<1> QED BY <1>1, <1>13

LEMMA PassOver ==
    ASSUME CacheAssumption, Good(cache), NEW t \in Trans, Pass(t)
    PROVE  Good(cache')
<1>1. At(t, "PASS") BY DEF Pass
<1>2. /\ cache \in CacheType /\ cache.stack # <<>> /\ Runs(cache, Len(cache.stack), t)
      /\ Top(cache).s = "PASS"
  BY <1>1, AtFacts
<1>3. Top(cache).s # "USE" /\ ~Added(Top(cache)) /\ ~Found(Top(cache)) BY <1>2 DEF Added, Found
<1>4. CASE cache' = Leave(cache, t) BY <1>2, <1>3, <1>4, LeaveGood
<1>5. CASE cache' = Pop([cache EXCEPT !.trans[t] = Gone])
  <2> DEFINE x == [cache EXCEPT !.trans[t] = Gone]
             d == Pop(x)
  <2>1. /\ x \in CacheType /\ SameData(cache, x) /\ x.stack = cache.stack
        /\ x.trans[t] = Gone /\ SameTrans(cache, x, t)
    BY <1>2, Shapes, SetTrans DEF SameTrans
  <2>2. cache' = d BY <1>5
  <2> HIDE DEF x
  <2>3. /\ d \in CacheType /\ SameData(x, d) /\ d.trans = x.trans
        /\ Len(d.stack) = Len(x.stack) - 1 /\ SameFrames(x, d, Len(x.stack) - 1)
    BY <1>2, <2>1, PopFacts
  <2> HIDE DEF d
  <2>4. SameData(cache, d) /\ SameTrans(cache, d, t) /\ d.trans[t] = Gone /\ Ended(cache, d)
    BY <2>1, <2>3 DEF SameData, SameTrans, Ended, SameFrames
  <2>5. Good(d) BY <1>2, <1>3, <2>3, <2>4, EndGood
  <2> QED BY <2>2, <2>5
<1> QED BY <1>4, <1>5 DEF Pass

-----------------------------------------------------------------------------
(* Queues.                                                                 *)

LEMMA TailCut ==
    ASSUME NEW S, NEW q \in Seq(S), q # <<>>
    PROVE  /\ Tail(q) \in Seq(S) /\ CutAt(q, 1, Tail(q)) /\ 1 \in 1..Len(q)
           /\ Head(q) = q[1] /\ Head(q) \in S
<1>1. Len(q) \in Nat \ {0} /\ Tail(q) \in Seq(S) /\ Head(q) = q[1] /\ Head(q) \in S OBVIOUS
<1>2. Len(Tail(q)) = Len(q) - 1 /\ \A j \in 1..(Len(q) - 1) : Tail(q)[j] = q[j + 1] BY <1>1
<1> QED BY <1>1, <1>2 DEF CutAt

\* A queue without the transaction at position i.
LEMMA CutQueue ==
    ASSUME NEW S, NEW q \in Seq(S), NEW i \in 1..Len(q), Distinct(q, 0), NEW r \in Seq(S), CutAt(q, i, r)
    PROVE  /\ Distinct(r, 0) /\ InSeq(q[i], q)
           /\ \A t : InSeq(t, r) <=> InSeq(t, q) /\ t # q[i]
<1>1. Distinct(r, 0) /\ Elems(r, 0) = Elems(q, 0) \ {q[i]} BY ElemsCut
<1>2. \A t : InSeq(t, r) <=> t \in Elems(r, 0)
  BY DEF InSeq, Elems, From
<1>3. \A t : InSeq(t, q) <=> t \in Elems(q, 0)
  BY DEF InSeq, Elems, From
<1>4. InSeq(q[i], q) BY DEF InSeq
<1> QED BY <1>1, <1>2, <1>3, <1>4

LEMMA TailQueue ==
    ASSUME NEW S, NEW q \in Seq(S), q # <<>>, Distinct(q, 0)
    PROVE  /\ Tail(q) \in Seq(S) /\ Distinct(Tail(q), 0) /\ Head(q) \in S /\ InSeq(Head(q), q)
           /\ \A t : InSeq(t, Tail(q)) <=> InSeq(t, q) /\ t # Head(q)
<1> DEFINE r == Tail(q)
           h == Head(q)
<1>1. r \in Seq(S) /\ CutAt(q, 1, r) /\ 1 \in 1..Len(q) /\ h = q[1] /\ h \in S BY TailCut
<1> HIDE DEF r, h
<1>2. Distinct(r, 0) /\ InSeq(h, q) /\ \A t : InSeq(t, r) <=> InSeq(t, q) /\ t # h
  BY <1>1, CutQueue
<1> QED BY <1>1, <1>2 DEF r, h

LEMMA AppendQueue ==
    ASSUME NEW S, NEW q \in Seq(S), NEW a \in S, ~InSeq(a, q), Distinct(q, 0)
    PROVE  /\ Append(q, a) \in Seq(S) /\ Distinct(Append(q, a), 0)
           /\ \A t : InSeq(t, Append(q, a)) <=> InSeq(t, q) \/ t = a
<1> DEFINE r == Append(q, a)
<1>1. \A t : InSeq(t, q) <=> t \in Elems(q, 0)
  BY DEF InSeq, Elems, From
<1>2. r \in Seq(S) /\ Distinct(r, 0) /\ Elems(r, 0) = Elems(q, 0) \cup {a} BY <1>1, ElemsAppend
<1> HIDE DEF r
<1>3. \A t : InSeq(t, r) <=> t \in Elems(r, 0)
  BY <1>2 DEF InSeq, Elems, From
<1> QED BY <1>1, <1>2, <1>3 DEF r

\* The same for work items, of which several may have no transaction.
InItems(t, q) == \E j \in 1..Len(q) : q[j].trans = t

LEMMA CutItems ==
    ASSUME CacheAssumption, NEW q \in Seq(ItemType), NEW i \in 1..Len(q), NEW r \in Seq(ItemType),
           CutAt(q, i, r), ItemsOnce(q), ItemsNamed(q)
    PROVE  /\ ItemsOnce(r) /\ ItemsNamed(r)
           /\ \A t \in Trans : InItems(t, r) <=> InItems(t, q) /\ t # q[i].trans
           /\ \A t : InItems(t, r) => InItems(t, q)
<1> DEFINE old(j) == IF j < i THEN j ELSE j + 1
<1>1. Len(q) \in Nat /\ Len(r) = Len(q) - 1 BY DEF CutAt
<1>2. \A j \in 1..Len(r) : old(j) \in 1..Len(q) \ {i} /\ r[j] = q[old(j)] BY <1>1 DEF CutAt
<1>3. \A j, l \in 1..Len(r) : old(j) = old(l) => j = l BY <1>1
<1>4. \A j \in 1..Len(q) \ {i} : \E l \in 1..Len(r) : old(l) = j
  <2> SUFFICES ASSUME NEW j \in 1..Len(q) \ {i} PROVE \E l \in 1..Len(r) : old(l) = j OBVIOUS
  <2>1. CASE j < i
    <3>1. j \in 1..Len(r) /\ old(j) = j BY <2>1, <1>1
    <3> QED BY <3>1
  <2>2. CASE ~(j < i)
    <3>1. j - 1 \in 1..Len(r) /\ old(j - 1) = j BY <2>2, <1>1
    <3> QED BY <3>1
  <2> QED BY <2>1, <2>2
<1> HIDE DEF old
<1>5. ItemsOnce(r) BY <1>2, <1>3 DEF ItemsOnce
<1>6. ItemsNamed(r) BY <1>2 DEF ItemsNamed
<1>7. \A t : InItems(t, r) => InItems(t, q) BY <1>2 DEF InItems
<1>8. ASSUME NEW t \in Trans, InItems(t, r) PROVE t # q[i].trans
  <2>1. t # NoTrans BY DEF CacheAssumption
  <2> QED BY <1>2, <1>8, <2>1 DEF InItems, ItemsOnce
<1>9. ASSUME NEW t \in Trans, InItems(t, q), t # q[i].trans PROVE InItems(t, r)
  <2>1. PICK j \in 1..Len(q) : q[j].trans = t BY <1>9 DEF InItems
  <2>2. PICK l \in 1..Len(r) : old(l) = j BY <1>4, <1>9, <2>1
  <2>3. r[l].trans = t BY <1>2, <2>1, <2>2
  <2> QED BY <2>3 DEF InItems
<1> QED BY <1>5, <1>6, <1>7, <1>8, <1>9

LEMMA AppendItems ==
    ASSUME NEW q \in Seq(ItemType), NEW a \in ItemType, ItemsOnce(q), ItemsNamed(q),
           a.trans = NoTrans => a.op = "DOOM", a.trans # NoTrans => ~InItems(a.trans, q)
    PROVE  /\ Append(q, a) \in Seq(ItemType) /\ ItemsOnce(Append(q, a)) /\ ItemsNamed(Append(q, a))
           /\ \A t : InItems(t, Append(q, a)) <=> InItems(t, q) \/ t = a.trans
<1> DEFINE r == Append(q, a)
<1>1. /\ r \in Seq(ItemType) /\ Len(q) \in Nat /\ Len(r) = Len(q) + 1 /\ r[Len(q) + 1] = a
      /\ \A j \in 1..Len(q) : r[j] = q[j]
  BY PushStack
<1>2. \A j \in 1..Len(r) : j \in 1..Len(q) \/ j = Len(q) + 1 BY <1>1
<1>3. \A j \in 1..Len(q) : j \in 1..Len(r) BY <1>1
<1>4. Len(q) + 1 \in 1..Len(r) BY <1>1
<1> HIDE DEF r
<1>5. ItemsNamed(r) BY <1>1, <1>2 DEF ItemsNamed
<1>6. ASSUME NEW t PROVE InItems(t, r) <=> InItems(t, q) \/ t = a.trans
  BY <1>1, <1>2, <1>3, <1>4 DEF InItems
<1>7. ItemsOnce(r)
  <2> SUFFICES ASSUME NEW i \in 1..Len(r), NEW j \in 1..Len(r), r[i].trans = r[j].trans,
                      r[i].trans # NoTrans
               PROVE  i = j
    BY DEF ItemsOnce
  <2>1. CASE i \in 1..Len(q) /\ j \in 1..Len(q) BY <1>1, <2>1 DEF ItemsOnce
  <2>2. CASE i \in 1..Len(q) /\ j = Len(q) + 1 BY <1>1, <2>2 DEF InItems
  <2>3. CASE i = Len(q) + 1 /\ j \in 1..Len(q) BY <1>1, <2>3 DEF InItems
  <2> QED BY <1>2, <2>1, <2>2, <2>3
<1> QED BY <1>1, <1>5, <1>6, <1>7 DEF r

-----------------------------------------------------------------------------
(* Steps that start a DoLoop.                                              *)

\* The client returns, or the loop that notifies about the backend ends.
LEMMA PopGood ==
    ASSUME CacheAssumption, NEW c, Good(c), c.stack # <<>>, c.stack[Len(c.stack)].k \in {"user", "backend"}
    PROVE  Good(Pop(c))
<1> DEFINE d == Pop(c)
           n == Len(c.stack) - 1
<1>1. c \in CacheType BY DEF Good
<1>2. /\ d \in CacheType /\ SameData(c, d) /\ d.trans = c.trans
      /\ Len(c.stack) \in Nat \ {0} /\ Len(d.stack) = n /\ SameFrames(c, d, n)
  BY <1>1, PopFacts
<1> HIDE DEF d
<1>3. n \in Nat /\ n <= Len(d.stack) /\ \A i \in 1..Len(d.stack) : ~(i > n) BY <1>2
<1>4. NoTrans \notin Trans /\ SameTrans(c, d, NoTrans) BY <1>2 DEF CacheAssumption, SameTrans
<1>5. Kept(c, d, NoTrans, n) BY <1>2, <1>3, <1>4, BaseKept
<1>6. NewFrames(d, NoTrans, n) BY <1>3, <1>4 DEF NewFrames
<1>7. Backed(c, d, n) /\ Disk(d) BY <1>2, DiskSame DEF SameData, Backed, Ready, Good
<1>8. \A i \in 1..Len(c.stack) : i > n => i = Len(c.stack) BY <1>2
<1>9. ASSUME NEW t \in Trans PROVE PlacedOnce(d, t)
  <2>1. \A i \in 1..Len(c.stack) : i > n => ~Listed(c.stack[i], t) BY <1>8 DEF Listed
  <2>2. SamePlaces(c, d, t, n) BY <1>2, <1>3, <2>1, PlacesSame DEF SameData
  <2>3. PlacedOnce(c, t) BY DEF Good
  <2> QED BY <1>1, <1>2, <1>5, <2>2, <2>3, PlacedSame
<1>10. d.entries = c.entries /\ d.active = c.active /\ d.tasks = c.tasks BY <1>2 DEF SameData
<1>11. \A i \in 1..Len(c.stack) : i > n => c.stack[i].k # "run" BY <1>8
<1> HIDE DEF n
<1>12. Good(d) BY <1>2, <1>4, <1>5, <1>6, <1>7, <1>9, <1>10, <1>11, CalmGood
<1> QED BY <1>12 DEF d

\* On top of the frames up to n are perhaps a loop that notifies, and the DoLoop of u.
Woken(c, d, u, n) ==
    /\ SameFrames(c, d, n) /\ Len(d.stack) > n /\ Runs(d, Len(d.stack), u)
    /\ \A i \in 1..Len(d.stack) : i > n =>
          /\ FrameOK(d, d.stack[i])
          /\ i # Len(d.stack) => d.stack[i].k # "run"

LEMMA WokenNew ==
    ASSUME NEW c, NEW d \in CacheType, NEW u, NEW n \in Nat, Woken(c, d, u, n), d.trans[u].st = "running"
    PROVE  NewFrames(d, u, n) /\ n <= Len(d.stack) /\ Len(d.stack) \in 1..Len(d.stack)
<1>1. Len(d.stack) \in Nat BY FieldTypes
<1>2. Len(d.stack) \in 1..Len(d.stack) /\ n <= Len(d.stack) BY <1>1 DEF Woken
<1> QED BY <1>2 DEF NewFrames, Woken, Runs

LEMMA WakeGood ==
    ASSUME CacheAssumption, NEW c, Good(c), NEW u \in Trans, c.trans[u].st # "running",
           c.stack # <<>> => c.stack[Len(c.stack)].k # "run",
           NEW n \in Nat, n \in {Len(c.stack), Len(c.stack) - 1},
           NEW d \in CacheType, d.entries = c.entries, d.active = c.active, d.tasks = c.tasks,
           SameTrans(c, d, u), d.trans[u].st = "running", d.trans[u].entry = c.trans[u].entry,
           c.trans[u].entry # NoEntry => d.trans[u].mode = c.trans[u].mode,
           \A x \in Entries : InSeq(u, QueueOf(c, x)) => d.trans[u].new_entry = c.trans[u].new_entry,
           Woken(c, d, u, n), Backed(c, d, n), Disk(d), \A t \in Trans : PlacedOnce(d, t)
    PROVE  Good(d)
<1>1. c \in CacheType BY DEF Good
<1>2. NewFrames(d, u, n) /\ n <= Len(d.stack) BY WokenNew
<1>3. Kept(c, d, u, n) BY <1>2, BaseKept DEF Woken
<1>4. \A x : Holders(d, x) = Holders(c, x) BY DEF Holders
<1>5. TransOK(d, u) BY <1>4 DEF TransOK, Good
<1>6. KeepsLocks(c, d, u)
  <2>1. \A x \in Entries : x # NoEntry BY DEF CacheAssumption, NoEntry
  <2>2. \A x \in Entries : u \in Holders(c, x) => c.trans[u].entry = x BY HoldsEntry
  <2> QED BY <2>1, <2>2 DEF KeepsLocks
<1>7. \A i \in 1..Len(c.stack) : i > n => c.stack[i].k # "run"
  <2>1. Len(c.stack) \in Nat BY <1>1, FieldTypes
  <2>2. \A i \in 1..Len(c.stack) : i > n => i = Len(c.stack) BY <2>1
  <2>3. \A i \in 1..Len(c.stack) : c.stack # <<>> BY <1>1, FieldTypes
  <2> QED BY <2>2, <2>3
<1> QED BY <1>2, <1>3, <1>5, <1>6, <1>7, CalmGood

\* u, woken or gone, is in no list any more, and the others are where they were.
LEMMA WakePlaces ==
    ASSUME NEW c, Good(c), NEW d \in CacheType, NEW u \in Trans, NEW n, Kept(c, d, u, n),
           d.trans[u].st # "pending",
           \A x \in Entries : ~InSeq(u, QueueOf(d, x)), ~InOp(d.op, u), ~InSeq(u, d.backend_queue),
           \A i \in 1..Len(d.stack) : ~Listed(d.stack[i], u),
           \A t \in Trans \ {u} : SamePlaces(c, d, t, n)
    PROVE  \A t \in Trans : PlacedOnce(d, t)
<1>1. c \in CacheType BY DEF Good
<1>2. PlacedOnce(d, u) BY PlacedNowhere
<1>3. ASSUME NEW t \in Trans, t # u PROVE PlacedOnce(d, t)
  <2>1. d.trans[t] = c.trans[t] BY <1>3 DEF Kept
  <2>2. PlacedOnce(c, t) BY DEF Good
  <2> QED BY <1>1, <1>3, <2>1, <2>2, PlacedSame
<1> QED BY <1>2, <1>3

\* A loop g, if its list l is not empty, and the DoLoop of t on top of it.
Over(p, l, g) == IF l = <<>> THEN p ELSE Push(p, g)

LEMMA NotifyOver ==
    ASSUME CacheAssumption, NEW p \in CacheType, NEW g, NEW l, l # <<>> => g \in Frame,
           NEW t \in Trans, NEW s \in States, NEW rv \in Results
    PROVE  LET d == Notify(Over(p, l, g), t, s, rv)
               n == Len(p.stack)
           IN  /\ d \in CacheType /\ SameData(p, d) /\ SameTrans(p, d, t) /\ n \in Nat
               /\ d.trans[t] = WithSt(p.trans[t], "running") /\ SameFrames(p, d, n)
               /\ \/ l = <<>> /\ Len(d.stack) = n + 1 /\ d.stack[n + 1] = Run(t, s, rv)
                  \/ /\ l # <<>> /\ Len(d.stack) = n + 2
                     /\ d.stack[n + 1] = g /\ d.stack[n + 2] = Run(t, s, rv)
<1> DEFINE q == Over(p, l, g)
           d == Notify(q, t, s, rv)
           n == Len(p.stack)
<1>1. n \in Nat BY FieldTypes
<1>2. CASE l = <<>>
  <2>1. q = p BY <1>2 DEF Over
  <2> HIDE DEF q
  <2>2. /\ d \in CacheType /\ SameData(q, d) /\ SameTrans(q, d, t)
        /\ d.trans[t] = WithSt(q.trans[t], "running") /\ Len(d.stack) = Len(q.stack) + 1
        /\ d.stack[Len(q.stack) + 1] = Run(t, s, rv) /\ SameFrames(q, d, Len(q.stack))
    BY <2>1, NotifyFacts
  <2> QED BY <1>1, <1>2, <2>1, <2>2 DEF q
<1>3. CASE l # <<>>
  <2>1. q = Push(p, g) /\ g \in Frame BY <1>3 DEF Over
  <2> HIDE DEF q
  <2>2. /\ q \in CacheType /\ SameData(p, q) /\ q.trans = p.trans
        /\ Len(q.stack) = n + 1 /\ q.stack[n + 1] = g /\ SameFrames(p, q, n)
    BY <2>1, PushFacts
  <2>3. /\ d \in CacheType /\ SameData(q, d) /\ SameTrans(q, d, t)
        /\ d.trans[t] = WithSt(q.trans[t], "running") /\ Len(d.stack) = Len(q.stack) + 1
        /\ d.stack[Len(q.stack) + 1] = Run(t, s, rv) /\ SameFrames(q, d, Len(q.stack))
    BY <2>2, NotifyFacts
  <2>4. Notify(Over(p, l, g), t, s, rv) = d BY DEF q
  <2> HIDE DEF d
  <2>5. Len(d.stack) = n + 2 /\ d.stack[n + 2] = Run(t, s, rv) BY <1>1, <2>2, <2>3
  <2>6. SameFrames(p, d, n) /\ d.stack[n + 1] = g BY <1>1, <2>2, <2>3 DEF SameFrames
  <2>7. SameData(p, d) /\ SameTrans(p, d, t) BY <2>2, <2>3 DEF SameData, SameTrans
  <2> QED BY <1>1, <1>3, <2>2, <2>3, <2>4, <2>5, <2>6, <2>7
<1> QED BY <1>2, <1>3

LEMMA UserReturnGood ==
    ASSUME CacheAssumption, Good(cache), UserReturn
    PROVE  Good(cache')
BY PopGood DEF UserReturn, OnTop, Top

LEMMA UserTop ==
    ASSUME UserRuns
    PROVE  cache.stack # <<>> => cache.stack[Len(cache.stack)].k # "run"
BY DEF UserRuns, AtLoop, OnTop, Top

\* The client calls into a transaction that is in no list.
LEMMA CallGood ==
    ASSUME CacheAssumption, NEW c, Good(c), NEW u \in Trans, c.trans[u].st \in {"free", "own"},
           c.stack # <<>> => c.stack[Len(c.stack)].k # "run",
           NEW x \in CacheType, SameData(c, x), SameTrans(c, x, u), x.stack = c.stack,
           x.trans[u].entry = c.trans[u].entry,
           c.trans[u].entry # NoEntry => x.trans[u].mode = c.trans[u].mode,
           NEW s \in States, NEW rv \in Results, FrameOK(x, Run(u, s, rv))
    PROVE  Good(Notify(x, u, s, rv))
<1> DEFINE d == Notify(x, u, s, rv)
           f == Run(u, s, rv)
           n == Len(c.stack)
<1>1. c \in CacheType BY DEF Good
<1>2. /\ d \in CacheType /\ SameData(x, d) /\ SameTrans(x, d, u)
      /\ d.trans[u] = WithSt(x.trans[u], "running") /\ n \in Nat /\ Len(d.stack) = n + 1
      /\ d.stack[n + 1] = f /\ SameFrames(x, d, n)
  BY NotifyFacts
<1>3. f.k = "run" /\ f.t = u BY RunTypes
<1> HIDE DEF d, f
<1>4. x.trans[u] \in TransType BY TransTypes
<1>5. /\ d.trans[u].st = "running" /\ d.trans[u].entry = x.trans[u].entry
      /\ d.trans[u].mode = x.trans[u].mode /\ d.trans[u].new_entry = x.trans[u].new_entry
  BY <1>2, <1>4, WithStFacts
<1>6. SameData(c, d) /\ SameTrans(c, d, u) /\ SameFrames(c, d, n)
  BY <1>2 DEF SameData, SameTrans, SameFrames
<1>7. FrameOK(d, f)
  <2>1. FrameOK(x, f) BY DEF f
  <2>2. \A e : Holders(d, e) = Holders(x, e) BY <1>2 DEF SameData, Holders
  <2> QED BY <1>2, <1>3, <1>5, <2>1, <2>2 DEF FrameOK, SameData, Ready
<1>8. \A i \in 1..Len(d.stack) : i > n => i = n + 1 BY <1>2
<1>9. Woken(c, d, u, n) BY <1>2, <1>3, <1>6, <1>7, <1>8 DEF Woken, Runs
<1>10. Kept(c, d, u, n) BY <1>2, <1>6, BaseKept
<1>11. Backed(c, d, n) /\ Disk(d) BY <1>6, DiskSame DEF SameData, Backed, Ready, Good
<1>12. \A t : ~Listed(f, t) BY <1>3 DEF Listed
<1>13. \A i \in 1..Len(c.stack) : ~(i > n) BY <1>2
<1>14. \A t : SamePlaces(c, d, t, n) BY <1>2, <1>6, <1>8, <1>12, <1>13, PlacesSame DEF SameData
<1>15. /\ \A y \in Entries : ~InSeq(u, QueueOf(c, y))
       /\ ~InOp(c.op, u) /\ ~InSeq(u, c.backend_queue) /\ \A i \in 1..Len(c.stack) : ~Listed(c.stack[i], u)
  BY Nowhere
<1>16. \A i \in 1..Len(d.stack) : ~Listed(d.stack[i], u)
  <2>1. \A i \in 1..Len(d.stack) : i = n + 1 \/ i \in 1..n BY <1>2
  <2> QED BY <1>2, <1>6, <1>12, <1>15, <2>1 DEF SameFrames
<1>17. /\ \A y \in Entries : ~InSeq(u, QueueOf(d, y))
       /\ ~InOp(d.op, u) /\ ~InSeq(u, d.backend_queue)
  BY <1>6, <1>15 DEF SameData, QueueOf
<1>18. \A t \in Trans : PlacedOnce(d, t)
  BY <1>2, <1>5, <1>10, <1>14, <1>16, <1>17, WakePlaces
<1>19. Good(d)
  BY <1>2, <1>5, <1>6, <1>9, <1>11, <1>15, <1>18, WakeGood DEF SameData
<1> QED BY <1>19 DEF d

\* A client that calls finds everything as it was, but for what has failed.
LEMMA CalledGood ==
    ASSUME NEW c, Good(c)
    PROVE  LET d == Called(c)
           IN  /\ Good(d) /\ d.trans = c.trans /\ d.stack = c.stack
               /\ \A t : InLocalList(d, t) <=> InLocalList(c, t)
<1> DEFINE d == Called(c)
<1>1. c \in CacheType BY DEF Good
<1>2. /\ d \in CacheType /\ d.active = c.active /\ d.entries = c.entries /\ d.op = c.op
      /\ d.disk = c.disk /\ d.backend = c.backend /\ d.backend_queue = c.backend_queue
      /\ d.tasks = c.tasks /\ d.trans = c.trans /\ d.stack = c.stack
  BY <1>1 DEF Called, CacheType
<1> HIDE DEF d
<1>3. Framed(d) /\ Disk(d) /\ Tasked(d)
  BY <1>2 DEF Good, Framed, Runs, Disk, Tasked, Live, Ready
<1>4. Live(d) = Live(c) BY <1>2 DEF Live
<1>5. \A e : Holders(d, e) = Holders(c, e) BY <1>2 DEF Holders
<1>6. Frames(d) BY <1>2, <1>5 DEF Good, Frames, FrameOK, Ready
<1>7. \A t \in Trans : TransOK(d, t) BY <1>2, <1>5 DEF Good, TransOK
<1>8. \A e, t : (Adding(d, e, t) <=> Adding(c, e, t)) /\ (Finding(d, e) <=> Finding(c, e))
  BY <1>2 DEF Adding, Finding, Runs
<1>9. \A e \in Live(d) : LockOK(d, e) BY <1>2, <1>4, <1>5, <1>8 DEF Good, LockOK
<1>10. \A t, k, x : InPlace(d, t, k, x) <=> InPlace(c, t, k, x) BY <1>2, <1>4 DEF InPlace
<1>11. \A t \in Trans : PlacedOnce(d, t) BY <1>2, <1>10 DEF Good, PlacedOnce
<1>12. \A t : InLocalList(d, t) <=> InLocalList(c, t) BY <1>2 DEF InLocalList
<1>13. Good(d) BY <1>2, <1>3, <1>6, <1>7, <1>9, <1>11 DEF Good
<1> QED BY <1>2, <1>12, <1>13 DEF d

LEMMA ResumeGood ==
    ASSUME CacheAssumption, Good(cache), NEW t \in Trans, Resume(t)
    PROVE  Good(cache')
<1> DEFINE c == Called(cache)
           e == c.trans[t].entry
<1>1. Good(c) /\ c.trans = cache.trans /\ c.stack = cache.stack BY CalledGood
<1>2. cache.trans[t].st = "own" /\ cache' = Notify(c, t, "USE", "OK") BY DEF Resume
<1>3. cache.stack # <<>> => cache.stack[Len(cache.stack)].k # "run" BY UserTop DEF Resume
<1> HIDE DEF c
<1>4. c.trans[t].st = "own" /\ (c.stack # <<>> => c.stack[Len(c.stack)].k # "run")
  BY <1>1, <1>2, <1>3
<1>5. c \in CacheType BY <1>1 DEF Good
<1>6. e # NoEntry /\ t \in Holders(c, e) BY <1>1, <1>4 DEF Good, TransOK
<1>7. e \in Entries BY <1>5, <1>6, TransTypes
<1>8. e \in Live(c) BY <1>1, <1>6, <1>7, HoldsWhat
<1>9. Ready(c) BY <1>1, <1>8 DEF Good, Disk
<1>10. "USE" \in States /\ "OK" \in Results BY DEF States, Results
<1>11. FrameOK(c, Run(t, "USE", "OK"))
  BY <1>6, <1>9, <1>10, RunTypes DEF FrameOK, Missed, Found, Added
<1>12. SameData(c, c) /\ SameTrans(c, c, t) BY DEF SameData, SameTrans
<1>13. Good(Notify(c, t, "USE", "OK")) BY <1>1, <1>4, <1>5, <1>10, <1>11, <1>12, CallGood
<1> QED BY <1>2, <1>13

\* c with another backend and another queue for it.
Backends == {"none", "building", "disk", "memory", "failed"}

LEMMA SetBackend ==
    ASSUME NEW c \in CacheType, NEW b \in Backends
    PROVE  LET d == [c EXCEPT !.backend = b]
           IN  /\ d \in CacheType /\ d.active = c.active /\ d.entries = c.entries /\ d.op = c.op
               /\ d.backend_queue = c.backend_queue /\ d.tasks = c.tasks /\ d.trans = c.trans
               /\ d.stack = c.stack /\ d.backend = b
BY DEF CacheType, Backends

LEMMA SetBackendQueue ==
    ASSUME NEW c \in CacheType, NEW q \in Seq(Trans)
    PROVE  LET d == [c EXCEPT !.backend_queue = q]
           IN  /\ d \in CacheType /\ d.active = c.active /\ d.entries = c.entries /\ d.op = c.op
               /\ d.backend_queue = q /\ d.tasks = c.tasks /\ d.trans = c.trans
               /\ d.stack = c.stack /\ d.backend = c.backend
BY DEF CacheType

LEMMA OnBackendCreatedGood ==
    ASSUME CacheAssumption, Good(cache), NEW result \in {"disk", "memory", "failed"},
           OnBackendCreated(result)
    PROVE  Good(cache')
<1> DEFINE x == [cache EXCEPT !.backend = result]
           f == [k |-> "backend"]
           d == Push(x, f)
<1>1. cache.stack = <<>> /\ cache.backend = "building" /\ cache' = d
  BY DEF OnBackendCreated, AtLoop
<1>2. cache \in CacheType BY DEF Good
<1>3. /\ x \in CacheType /\ x.active = cache.active /\ x.entries = cache.entries
      /\ x.op = cache.op /\ x.backend_queue = cache.backend_queue /\ x.tasks = cache.tasks
      /\ x.trans = cache.trans /\ x.stack = cache.stack
  <2>1. result \in Backends BY DEF Backends
  <2> QED BY <1>2, <2>1, SetBackend
<1>4. f \in Frame /\ f.k = "backend" BY DEF Frame, PlainFrame
<1>5. Len(cache.stack) = 0 BY <1>1
<1> HIDE DEF x, f
<1>6. /\ d \in CacheType /\ SameData(x, d) /\ d.trans = x.trans
      /\ Len(d.stack) = 1 /\ d.stack[1] = f
  <2>1. Len(x.stack) = 0 BY <1>3, <1>5
  <2>2. /\ d \in CacheType /\ SameData(x, d) /\ d.trans = x.trans
        /\ Len(d.stack) = Len(x.stack) + 1 /\ d.stack[Len(x.stack) + 1] = f
    BY <1>3, <1>4, PushFacts
  <2> HIDE DEF d
  <2> QED BY <2>1, <2>2
<1> HIDE DEF d
<1>7. NoTrans \notin Trans BY DEF CacheAssumption
<1>8. SameTrans(cache, d, NoTrans) /\ SameFrames(cache, d, 0)
  BY <1>3, <1>6 DEF SameTrans, SameFrames
<1>9. 0 <= Len(d.stack) /\ \A i \in 1..Len(d.stack) : i = 1 BY <1>6
<1>10. Kept(cache, d, NoTrans, 0) BY <1>1, <1>5, <1>6, <1>7, <1>8, <1>9, BaseKept
<1>11. FrameOK(d, f) /\ \A t : ~Listed(f, t) BY <1>4 DEF FrameOK, Listed
<1>12. NewFrames(d, NoTrans, 0) BY <1>4, <1>6, <1>7, <1>9, <1>11 DEF NewFrames
<1>13. Backed(cache, d, 0) BY <1>1 DEF Backed, Ready
<1>14. Live(cache) = {} /\ cache.op = NoOp BY <1>1 DEF Good, Disk, Ready
<1>15. Disk(d) BY <1>3, <1>6, <1>14 DEF Disk, SameData, Live, Good
<1>16. ASSUME NEW t \in Trans PROVE PlacedOnce(d, t)
  <2>1. \A i \in 1..Len(cache.stack) : ~(i > 0) BY <1>5
  <2>2. \A i \in 1..Len(d.stack) : ~Listed(d.stack[i], t) BY <1>6, <1>9, <1>11
  <2>3. SamePlaces(cache, d, t, 0) BY <1>3, <1>6, <2>1, <2>2, PlacesSame DEF SameData
  <2>4. PlacedOnce(cache, t) /\ d.trans[t] = cache.trans[t] BY <1>3, <1>6 DEF Good
  <2> QED BY <1>2, <1>6, <1>10, <2>3, <2>4, PlacedSame
<1>17. \A i \in 1..Len(cache.stack) : ~(i > 0) BY <1>5
<1>18. d.entries = cache.entries /\ d.active = cache.active /\ d.tasks = cache.tasks
  BY <1>3, <1>6 DEF SameData
<1>19. Good(d) BY <1>6, <1>7, <1>10, <1>12, <1>13, <1>15, <1>16, <1>17, <1>18, CalmGood
<1> QED BY <1>1, <1>19

LEMMA NotifyBackendWaiterGood ==
    ASSUME CacheAssumption, Good(cache), NotifyBackendWaiter
    PROVE  Good(cache')
<1> DEFINE q == cache.backend_queue
           u == Head(q)
           r == Tail(q)
           x == [cache EXCEPT !.backend_queue = r]
           s == AfterBackend(cache)
           f == Run(u, s, "OK")
           d == Notify(x, u, s, "OK")
           n == Len(cache.stack)
<1>1. cache.stack # <<>> /\ cache.stack[n].k = "backend" BY DEF NotifyBackendWaiter, OnTop, Top
<1>2. cache \in CacheType BY DEF Good
<1>3. CASE q = <<>> BY <1>1, <1>3, PopGood DEF NotifyBackendWaiter
<1>4. CASE q # <<>>
  <2>1. cache' = d BY <1>4 DEF NotifyBackendWaiter
  <2>2. q \in Seq(Trans) /\ n \in Nat BY <1>2, FieldTypes
  <2>3. Distinct(q, 0) BY DEF Good, Disk
  <2>4. r \in Seq(Trans) /\ Distinct(r, 0) /\ u \in Trans /\ InSeq(u, q)
    BY <1>4, <2>2, <2>3, TailQueue
  <2>5. \A t : InSeq(t, r) <=> InSeq(t, q) /\ t # u BY <1>4, <2>2, <2>3, TailQueue
  <2> HIDE DEF r
  <2>6. /\ x \in CacheType /\ x.active = cache.active /\ x.entries = cache.entries
        /\ x.op = cache.op /\ x.backend_queue = r /\ x.tasks = cache.tasks
        /\ x.trans = cache.trans /\ x.stack = cache.stack /\ x.backend = cache.backend
    BY <1>2, <2>4, SetBackendQueue
  <2>7. s \in States /\ s \in Quiet /\ (s = "PASS" \/ Ready(cache)) /\ "OK" \in Results
    BY DEF AfterBackend, States, Quiet, Results
  <2> HIDE DEF u, x, s
  <2>8. /\ d \in CacheType /\ SameData(x, d) /\ SameTrans(x, d, u)
        /\ d.trans[u] = WithSt(x.trans[u], "running") /\ Len(d.stack) = Len(x.stack) + 1
        /\ d.stack[Len(x.stack) + 1] = f /\ SameFrames(x, d, Len(x.stack))
    BY <2>4, <2>6, <2>7, NotifyFacts, ZenonT(60)
  <2>9. f.k = "run" /\ f.t = u /\ \A t : ~Listed(f, t) BY <2>4, <2>7, RunTypes DEF Listed
  <2> HIDE DEF d
  <2>10. InPlace(cache, u, "backend", 0) BY <2>4, <2>5 DEF InPlace
  <2>11. /\ cache.trans[u].st = "pending"
         /\ \A y \in Entries : ~InSeq(u, QueueOf(cache, y))
         /\ ~InOp(cache.op, u) /\ \A i \in 1..n : ~Listed(cache.stack[i], u)
    <3> HIDE DEF q
    <3> QED BY <2>4, <2>10, Elsewhere
  <2>12. cache.trans[u].entry = NoEntry BY <2>4, <2>11 DEF Good, TransOK
  <2>13. x.trans[u] \in TransType BY <2>4, <2>6, TransTypes
  <2>14. /\ d.trans[u].st = "running" /\ d.trans[u].entry = NoEntry
         /\ d.trans[u].new_entry = cache.trans[u].new_entry
    BY <2>6, <2>8, <2>12, <2>13, WithStFacts
  <2>15. Ready(cache) => Ready(d) BY <2>6, <2>8 DEF SameData, Ready
  <2>16. FrameOK(d, f) BY <2>4, <2>7, <2>14, <2>15, QuietOK
  <2> HIDE DEF f
  <2>17. SameFrames(cache, d, n) /\ SameTrans(cache, d, u) /\ Len(d.stack) = n + 1 /\ d.stack[n + 1] = f
    BY <2>6, <2>8 DEF SameFrames, SameTrans
  <2>18. \A i \in 1..Len(d.stack) : (i > n => i = n + 1) /\ (i = n + 1 \/ i \in 1..n)
    BY <2>2, <2>17
  <2>19. n <= Len(d.stack) /\ Len(d.stack) > n BY <2>2, <2>17
  <2>20. Woken(cache, d, u, n) BY <2>9, <2>16, <2>17, <2>18, <2>19 DEF Woken, Runs
  <2>21. Kept(cache, d, u, n) BY <1>1, <2>2, <2>8, <2>11, <2>17, <2>19, BaseKept
  <2>22. Backed(cache, d, n) BY <2>6, <2>8 DEF SameData, Backed, Ready
  <2>23. Disk(d) BY <2>4, <2>5, <2>6, <2>8 DEF SameData, Disk, Good, Live, Ready
  <2>24. /\ \A y \in Entries : ~InSeq(u, QueueOf(d, y))
         /\ ~InOp(d.op, u) /\ ~InSeq(u, d.backend_queue)
    <3>1. d.entries = cache.entries /\ d.op = cache.op /\ d.backend_queue = r
      BY <2>6, <2>8 DEF SameData
    <3>2. \A y : QueueOf(d, y) = QueueOf(cache, y) BY <3>1 DEF QueueOf
    <3> QED BY <2>5, <2>11, <3>1, <3>2
  <2>25. \A i \in 1..Len(d.stack) : ~Listed(d.stack[i], u)
    BY <2>9, <2>11, <2>17, <2>18 DEF SameFrames
  <2>26. \A t \in Trans \ {u} : SamePlaces(cache, d, t, n)
    <3>1. \A i \in 1..Len(cache.stack) : ~(i > n) BY <2>2
    <3>2. d.entries = cache.entries /\ d.op = cache.op /\ d.backend_queue = r
      BY <2>6, <2>8 DEF SameData
    <3>3. \A t : \A i \in 1..Len(d.stack) : i > n => ~Listed(d.stack[i], t) BY <2>9, <2>17, <2>18
    <3> QED BY <2>4, <2>5, <3>1, <3>2, <3>3 DEF SamePlaces, QueueOf
  <2>27. \A t \in Trans : PlacedOnce(d, t)
    BY <2>4, <2>8, <2>14, <2>21, <2>24, <2>25, <2>26, WakePlaces
  <2>28. d.entries = cache.entries /\ d.active = cache.active /\ d.tasks = cache.tasks
    BY <2>6, <2>8 DEF SameData
  <2>29. Good(d)
    <3>1. cache.trans[u].st # "running" /\ cache.stack[n].k # "run" BY <1>1, <2>11
    <3> QED BY <2>2, <2>4, <2>8, <2>11, <2>12, <2>14, <2>17, <2>20, <2>22, <2>23, <2>27, <2>28, <3>1,
               WakeGood
  <2> QED BY <2>1, <2>29
<1> QED BY <1>3, <1>4

\* A new transaction waits for the backend or runs.
Started(c, t, mode) ==
    LET d == [c EXCEPT !.trans[t] = [Gone EXCEPT !.st = "pending", !.mode = mode],
                       !.backend = IF @ = "none" THEN "building" ELSE @]
    IN  IF ~Ready(d) /\ building_backend_(d) THEN [d EXCEPT !.backend_queue = Append(@, t)]
        ELSE Notify(d, t, AfterBackend(d), "OK")

LEMMA StartedGood ==
    ASSUME CacheAssumption, NEW v, Good(v), NEW t \in Trans, NEW mode \in Modes,
           v.trans[t] = Gone, v.stack # <<>> => v.stack[Len(v.stack)].k # "run"
    PROVE  Good(Started(v, t, mode))
<1> DEFINE y == [Gone EXCEPT !.st = "pending", !.mode = mode]
           w == [v EXCEPT !.trans[t] = y]
           b == IF v.backend = "none" THEN "building" ELSE v.backend
           c == [w EXCEPT !.backend = b]
           s == AfterBackend(c)
           n == Len(v.stack)
           new == Started(v, t, mode)
<1>1. v.trans[t] = Gone /\ (v.stack # <<>> => v.stack[Len(v.stack)].k # "run") OBVIOUS
<1>2. new = IF ~Ready(c) /\ building_backend_(c)
            THEN [c EXCEPT !.backend_queue = Append(v.backend_queue, t)]
            ELSE Notify(c, t, s, "OK")
  <2>1. c = [v EXCEPT !.trans[t] = y, !.backend = IF @ = "none" THEN "building" ELSE @] OBVIOUS
  <2>2. c.backend_queue = v.backend_queue BY DEF Good, CacheType
  <2> HIDE DEF c
  <2> QED BY <2>1, <2>2 DEF Started
<1> HIDE DEF new
<1>3. v \in CacheType /\ n \in Nat BY FieldTypes DEF Good
<1>4. /\ y \in TransType /\ y.st = "pending" /\ y.entry = NoEntry
  <2>1. mode \in {"READ", "WRITE", "READ_WRITE", "UPDATE"} BY DEF CacheAssumption
  <2> QED BY <2>1 DEF Gone, TransType, NoEntry
<1>5. Gone.st = "free" /\ Gone.entry = NoEntry BY DEF Gone
<1> HIDE DEF y
<1>6. /\ w \in CacheType /\ SameData(v, w) /\ w.stack = v.stack
      /\ w.trans[t] = y /\ SameTrans(v, w, t)
  BY <1>3, <1>4, SetTrans DEF SameTrans
<1>7. b \in Backends BY <1>3, FieldTypes DEF Backends
<1> HIDE DEF w, b
<1>8. /\ c \in CacheType /\ c.active = w.active /\ c.entries = w.entries /\ c.op = w.op
      /\ c.backend_queue = w.backend_queue /\ c.tasks = w.tasks /\ c.trans = w.trans
      /\ c.stack = w.stack /\ c.backend = b
  BY <1>6, <1>7, SetBackend
<1> HIDE DEF c
<1>9. SameTrans(v, c, t) /\ c.trans[t] = y BY <1>6, <1>8 DEF SameTrans
<1>10. /\ \A x \in Entries : ~InSeq(t, QueueOf(v, x))
       /\ ~InOp(v.op, t) /\ ~InSeq(t, v.backend_queue)
       /\ \A i \in 1..n : ~Listed(v.stack[i], t)
  <2>1. v.trans[t].st # "pending" BY <1>1, <1>5
  <2> QED BY <2>1, Nowhere
<1>11. CASE ~(~Ready(c) /\ building_backend_(c))
  <2>1. v.backend # "none" BY <1>8, <1>11 DEF b, Ready, building_backend_
  <2>2. SameData(v, c) BY <1>6, <1>8, <2>1 DEF SameData, b
  <2>3. s \in States /\ s \in Quiet /\ (s = "PASS" \/ Ready(c)) /\ "OK" \in Results
    BY DEF AfterBackend, States, Quiet, Results
  <2> HIDE DEF s
  <2>4. FrameOK(c, Run(t, s, "OK")) BY <1>4, <1>9, <2>3, QuietOK
  <2>5. c.stack = v.stack BY <1>6, <1>8
  <2>6. v.trans[t].st \in {"free", "own"} /\ v.trans[t].entry = NoEntry BY <1>1, <1>5
  <2>7. Good(Notify(c, t, s, "OK"))
    BY <1>1, <1>4, <1>8, <1>9, <2>2, <2>3, <2>4, <2>5, <2>6, CallGood
  <2> QED BY <1>2, <1>11, <2>7 DEF new
<1>12. CASE ~Ready(c) /\ building_backend_(c)
  <2> DEFINE q == Append(v.backend_queue, t)
             d == [c EXCEPT !.backend_queue = q]
  <2>1. new = d BY <1>2, <1>12
  <2>2. v.backend_queue \in Seq(Trans) /\ Distinct(v.backend_queue, 0)
    BY <1>3, FieldTypes DEF Good, Disk
  <2>3. q \in Seq(Trans) /\ Distinct(q, 0) /\ \A r : InSeq(r, q) <=> InSeq(r, v.backend_queue) \/ r = t
    BY <1>10, <2>2, AppendQueue
  <2> HIDE DEF q
  <2>4. /\ d \in CacheType /\ d.active = c.active /\ d.entries = c.entries /\ d.op = c.op
        /\ d.backend_queue = q /\ d.tasks = c.tasks /\ d.trans = c.trans
        /\ d.stack = c.stack /\ d.backend = c.backend
    BY <1>8, <2>3, SetBackendQueue
  <2> HIDE DEF d
  <2>5. /\ d.entries = v.entries /\ d.active = v.active /\ d.tasks = v.tasks
        /\ d.op = v.op /\ d.stack = v.stack /\ d.backend = b
        /\ d.trans[t] = y /\ SameTrans(v, d, t)
    BY <1>6, <1>8, <1>9, <2>4 DEF SameData, SameTrans
  <2>6. SameFrames(v, d, n) /\ n <= Len(d.stack) BY <1>3, <2>5 DEF SameFrames
  <2>7. Kept(v, d, t, n) BY <1>1, <1>3, <1>5, <2>4, <2>5, <2>6, BaseKept
  <2>8. \A i \in 1..Len(d.stack) : ~(i > n) BY <1>3, <2>5
  <2>9. NewFrames(d, t, n) BY <1>4, <2>5, <2>8 DEF NewFrames
  <2>10. v.backend = "none" \/ d.backend = v.backend BY <2>5 DEF b
  <2>11. Backed(v, d, n) BY <2>5, <2>10 DEF Backed, Ready
  <2>12. Disk(d)
    <3>1. CASE v.backend = "none" BY <2>3, <2>4, <2>5, <3>1 DEF Good, Disk, Ready, Live
    <3>2. CASE d.backend = v.backend BY <2>3, <2>4, <2>5, <3>2 DEF Good, Disk, Ready, Live
    <3> QED BY <2>10, <3>1, <3>2
  <2>13. \A x \in Entries : t \notin Holders(v, x)
    <3>1. \A x \in Entries : x # NoEntry BY DEF CacheAssumption, NoEntry
    <3>2. v.trans[t].st # "running" BY <1>1, <1>5
    <3> QED BY <1>1, <1>5, <3>1, <3>2, HoldsEntry
  <2>14. TransOK(d, t) /\ KeepsLocks(v, d, t)
    BY <1>4, <2>5, <2>13 DEF TransOK, KeepsLocks
  <2>15. PlacedOnce(d, t)
    <3>1. InPlace(d, t, "backend", 0) BY <2>3, <2>4 DEF InPlace
    <3>2. \A x \in Entries : ~InSeq(t, QueueOf(d, x)) BY <1>10, <2>5 DEF QueueOf
    <3>3. ~InOp(d.op, t) /\ \A i \in 1..Len(d.stack) : ~Listed(d.stack[i], t) BY <1>10, <2>5
    <3>4. d.trans[t].st = "pending" BY <1>4, <2>5
    <3> QED BY <3>1, <3>2, <3>3, <3>4, PlacedThere
  <2>16. ASSUME NEW r \in Trans, r # t PROVE PlacedOnce(d, r)
    <3>1. SamePlaces(v, d, r, n)
      BY <2>3, <2>4, <2>5, <2>8, <2>16 DEF SamePlaces, QueueOf
    <3>2. PlacedOnce(v, r) /\ d.trans[r] = v.trans[r] BY <2>5, <2>16 DEF Good, SameTrans
    <3> QED BY <1>3, <2>4, <2>7, <3>1, <3>2, PlacedSame
  <2>17. \A i \in 1..Len(v.stack) : ~(i > n) BY <1>3
  <2>18. Good(d)
    BY <1>10, <2>4, <2>5, <2>7, <2>9, <2>11, <2>12, <2>14, <2>15, <2>16, <2>17, CalmGood
  <2> QED BY <2>1, <2>18 DEF new
<1> QED BY <1>11, <1>12

LEMMA StartGood ==
    ASSUME CacheAssumption, Good(cache), NEW t \in Trans, NEW mode \in Modes, Start(t, mode)
    PROVE  Good(cache')
<1> DEFINE c == Called(cache)
<1>1. Good(c) /\ c.trans = cache.trans /\ c.stack = cache.stack BY CalledGood
<1>2. cache.trans[t] = Gone /\ cache' = Started(c, t, mode) BY DEF Start, Started
<1>3. cache.stack # <<>> => cache.stack[Len(cache.stack)].k # "run" BY UserTop DEF Start
<1> HIDE DEF c
<1> QED BY <1>1, <1>2, <1>3, StartedGood

-----------------------------------------------------------------------------
(* The loops that notify.                                                  *)

\* The frame on top is one that the invariant knows.
LEMMA TopFrame ==
    ASSUME NEW c, Good(c), c.stack # <<>>
    PROVE  /\ c.stack[Len(c.stack)] \in Frame
           /\ FrameOK(c, c.stack[Len(c.stack)])
<1>1. c \in CacheType /\ Frames(c) BY DEF Good
<1>2. c.stack \in Seq(Frame) BY <1>1, FieldTypes
<1>3. Len(c.stack) \in 1..Len(c.stack) BY <1>2
<1>4. c.stack[Len(c.stack)] \in Frame BY <1>2, <1>3
<1>5. FrameOK(c, c.stack[Len(c.stack)]) BY <1>1, <1>3 DEF Frames
<1> QED BY <1>4, <1>5

\* The loop f on top notifies u; g is what is left of it, with the list l.
LEMMA NextWaiter ==
    ASSUME CacheAssumption, NEW c, Good(c), c.stack # <<>>, NEW f, f = c.stack[Len(c.stack)],
           f.k # "run", NEW u \in Trans, Listed(f, u),
           NEW x \in CacheType, SameData(c, x), SameTrans(c, x, u), Len(x.stack) = Len(c.stack) - 1,
           SameFrames(c, x, Len(c.stack) - 1), x.trans[u].entry = c.trans[u].entry,
           NEW s \in States, NEW rv \in Results, FrameOK(x, Run(u, s, rv)),
           NEW l, NEW g, l # <<>> => g \in Frame /\ g.k # "run" /\ FrameOK(x, g),
           \A t \in Trans : (l # <<>> /\ Listed(g, t)) <=> Listed(f, t) /\ t # u
    PROVE  Good(Notify(Over(x, l, g), u, s, rv))
<1> DEFINE d == Notify(Over(x, l, g), u, s, rv)
           n == Len(x.stack)
           r == Run(u, s, rv)
<1>1. c \in CacheType BY DEF Good
<1>2. Len(c.stack) \in Nat \ {0} /\ n = Len(c.stack) - 1 BY <1>1, FieldTypes
<1>3. n \in Nat /\ Len(c.stack) = n + 1 BY <1>2
<1>4. /\ d \in CacheType /\ SameData(x, d) /\ SameTrans(x, d, u)
      /\ d.trans[u] = WithSt(x.trans[u], "running") /\ SameFrames(x, d, n)
      /\ \/ l = <<>> /\ Len(d.stack) = n + 1 /\ d.stack[n + 1] = r
         \/ l # <<>> /\ Len(d.stack) = n + 2 /\ d.stack[n + 1] = g /\ d.stack[n + 2] = r
  BY NotifyOver, SMTT(30)
<1>5. r.k = "run" /\ r.t = u /\ FrameOK(x, r) BY RunTypes
<1> HIDE DEF d, r
<1>6. \A t : ~Listed(r, t) BY <1>5 DEF Listed
<1>7. InPlace(c, u, "loop", n + 1) BY <1>3 DEF InPlace
<1>8. /\ c.trans[u].st = "pending"
      /\ \A y \in Entries : ~InSeq(u, QueueOf(c, y))
      /\ ~InOp(c.op, u) /\ ~InSeq(u, c.backend_queue)
      /\ \A i \in 1..Len(c.stack) : Listed(c.stack[i], u) => i = n + 1
  BY <1>7, Elsewhere
<1>9. c.trans[u].entry = NoEntry BY <1>8 DEF Good, TransOK
<1>10. /\ d.trans[u].st = "running" /\ d.trans[u].entry = NoEntry
       /\ d.trans[u].new_entry = x.trans[u].new_entry
  <2>1. x.trans[u] \in TransType BY TransTypes
  <2> QED BY <1>4, <1>9, <2>1, WithStFacts
<1>11. SameData(c, d) /\ SameTrans(c, d, u) /\ SameFrames(c, d, n)
  BY <1>2, <1>4 DEF SameData, SameTrans, SameFrames
<1>12. \A e : Holders(d, e) = Holders(x, e) BY <1>4 DEF SameData, Holders
<1>13. FrameOK(d, r) BY <1>4, <1>5, <1>9, <1>10, <1>12 DEF FrameOK, SameData, Ready
<1>14. l # <<>> => FrameOK(d, g) BY <1>4 DEF FrameOK, SameData, Ready
<1>15. \A i \in 1..Len(d.stack) :
          i \in 1..n \/ (i = Len(d.stack) /\ d.stack[i] = r)
          \/ (i = n + 1 /\ i # Len(d.stack) /\ d.stack[i] = g /\ l # <<>>)
  BY <1>3, <1>4
<1>16. \A i \in 1..n : ~(i > n) BY <1>3
<1>17. Len(d.stack) > n /\ d.stack[Len(d.stack)] = r BY <1>3, <1>4
<1>18. Woken(c, d, u, n) BY <1>5, <1>11, <1>13, <1>14, <1>15, <1>16, <1>17 DEF Woken, Runs
<1>19. Kept(c, d, u, n)
  <2>1. n <= Len(d.stack) BY <1>3, <1>4
  <2> QED BY <1>2, <1>3, <1>4, <1>8, <1>11, <2>1, BaseKept
<1>20. Backed(c, d, n) /\ Disk(d) BY <1>11, DiskSame DEF SameData, Backed, Ready, Good
<1>21. /\ \A y \in Entries : ~InSeq(u, QueueOf(d, y))
       /\ ~InOp(d.op, u) /\ ~InSeq(u, d.backend_queue)
  <2>1. \A y : QueueOf(d, y) = QueueOf(c, y) BY <1>11 DEF SameData, QueueOf
  <2> QED BY <1>8, <1>11, <2>1 DEF SameData
<1>22. \A i \in 1..Len(d.stack) : ~Listed(d.stack[i], u)
  <2>1. \A i \in 1..n : ~Listed(c.stack[i], u) /\ d.stack[i] = c.stack[i]
    BY <1>3, <1>8, <1>11 DEF SameFrames
  <2> QED BY <1>6, <1>15, <2>1
<1>23. ASSUME NEW t \in Trans \ {u} PROVE SamePlaces(c, d, t, n)
  <2>1. ASSUME NEW i \in 1..Len(c.stack), i > n, Listed(c.stack[i], t)
        PROVE  i \in 1..Len(d.stack) /\ Listed(d.stack[i], t)
    <3>1. i = n + 1 /\ c.stack[i] = f BY <1>3, <2>1
    <3>2. l # <<>> /\ Listed(g, t) BY <2>1, <3>1
    <3> QED BY <1>3, <1>4, <3>1, <3>2
  <2>2. ASSUME NEW i \in 1..Len(d.stack), i > n, Listed(d.stack[i], t)
        PROVE  i \in 1..Len(c.stack) /\ Listed(c.stack[i], t)
    <3>1. i = n + 1 /\ l # <<>> /\ Listed(g, t) BY <1>6, <1>15, <1>16, <2>2
    <3> QED BY <1>3, <3>1
  <2>3. \A y : QueueOf(d, y) = QueueOf(c, y) BY <1>11 DEF SameData, QueueOf
  <2> QED BY <1>11, <2>1, <2>2, <2>3 DEF SamePlaces, SameData
<1>24. \A t \in Trans : PlacedOnce(d, t)
  BY <1>4, <1>10, <1>19, <1>21, <1>22, <1>23, WakePlaces
<1>25. c.trans[u].st # "running" /\ n \in {Len(c.stack), Len(c.stack) - 1} BY <1>2, <1>8
<1> HIDE DEF n
<1>26. Good(d)
  BY <1>3, <1>4, <1>8, <1>9, <1>10, <1>11, <1>18, <1>20, <1>24, <1>25, WakeGood DEF SameData
<1> QED BY <1>26 DEF d

\* The loop on top goes on with g, or ends, and nobody is notified.
LEMMA SkipWaiter ==
    ASSUME CacheAssumption, NEW c, Good(c), c.stack # <<>>, NEW f, f = c.stack[Len(c.stack)],
           f.k # "run", NEW x \in CacheType, SameData(c, x), x.trans = c.trans,
           Len(x.stack) = Len(c.stack) - 1, SameFrames(c, x, Len(c.stack) - 1),
           NEW l, NEW g, l # <<>> => g \in Frame /\ g.k # "run" /\ FrameOK(x, g),
           \A t \in Trans : (l # <<>> /\ Listed(g, t)) <=> Listed(f, t)
    PROVE  Good(Over(x, l, g))
<1> DEFINE d == Over(x, l, g)
           n == Len(x.stack)
<1>1. c \in CacheType BY DEF Good
<1>2. Len(c.stack) \in Nat \ {0} /\ n = Len(c.stack) - 1 BY <1>1, FieldTypes
<1>3. n \in Nat /\ Len(c.stack) = n + 1 BY <1>2
<1>4. /\ d \in CacheType /\ SameData(x, d) /\ d.trans = x.trans /\ SameFrames(x, d, n)
      /\ (l = <<>> /\ Len(d.stack) = n) \/ (l # <<>> /\ Len(d.stack) = n + 1 /\ d.stack[n + 1] = g)
  <2>1. CASE l = <<>> BY <2>1 DEF Over, SameData, SameFrames
  <2>2. CASE l # <<>>
    <3>1. d = Push(x, g) /\ g \in Frame BY <2>2 DEF Over
    <3> HIDE DEF d
    <3> QED BY <2>2, <3>1, PushFacts
  <2> QED BY <2>1, <2>2
<1> HIDE DEF d
<1>5. /\ SameData(c, d) /\ SameFrames(c, d, n) /\ SameTrans(c, d, NoTrans) /\ NoTrans \notin Trans
      /\ d.trans = c.trans
  BY <1>2, <1>4 DEF SameData, SameTrans, SameFrames, CacheAssumption
<1>6. \A i \in 1..Len(d.stack) : i > n => i = n + 1 /\ d.stack[i] = g /\ l # <<>> BY <1>3, <1>4
<1>7. l # <<>> => FrameOK(d, g) BY <1>4 DEF FrameOK, SameData, Ready
<1>8. NewFrames(d, NoTrans, n) BY <1>5, <1>6, <1>7 DEF NewFrames
<1>9. Kept(c, d, NoTrans, n)
  <2>1. n <= Len(d.stack) BY <1>3, <1>4
  <2> QED BY <1>2, <1>3, <1>4, <1>5, <2>1, BaseKept
<1>10. Backed(c, d, n) /\ Disk(d) BY <1>5, DiskSame DEF SameData, Backed, Ready, Good
<1>11. ASSUME NEW t \in Trans PROVE PlacedOnce(d, t)
  <2>1. ASSUME NEW i \in 1..Len(c.stack), i > n, Listed(c.stack[i], t)
        PROVE  i \in 1..Len(d.stack) /\ Listed(d.stack[i], t)
    <3>1. i = n + 1 /\ c.stack[i] = f BY <1>3, <2>1
    <3>2. l # <<>> /\ Listed(g, t) BY <2>1, <3>1
    <3> QED BY <1>3, <1>4, <3>1, <3>2
  <2>2. ASSUME NEW i \in 1..Len(d.stack), i > n, Listed(d.stack[i], t)
        PROVE  i \in 1..Len(c.stack) /\ Listed(c.stack[i], t)
    BY <1>3, <1>6, <2>2
  <2>3. \A y : QueueOf(d, y) = QueueOf(c, y) BY <1>5 DEF SameData, QueueOf
  <2>4. SamePlaces(c, d, t, n) BY <1>5, <2>1, <2>2, <2>3 DEF SamePlaces, SameData
  <2>5. PlacedOnce(c, t) BY DEF Good
  <2> QED BY <1>1, <1>4, <1>5, <1>9, <2>4, <2>5, PlacedSame
<1>12. \A i \in 1..Len(c.stack) : i > n => c.stack[i].k # "run" BY <1>3
<1> HIDE DEF n
<1>13. Good(d) BY <1>4, <1>5, <1>8, <1>9, <1>10, <1>11, <1>12, CalmGood DEF SameData
<1> QED BY <1>13 DEF d

LEMMA NotifyRaceGood ==
    ASSUME CacheAssumption, Good(cache), NotifyRace
    PROVE  Good(cache')
<1> DEFINE f == cache.stack[Len(cache.stack)]
           q == f.queue
           u == Head(q)
           r == Tail(q)
           x == Pop(cache)
           g == [k |-> "race", queue |-> r]
<1>1. /\ cache.stack # <<>> /\ f.k = "race"
      /\ cache' = Notify(Over(x, r, g), u, "ADD_COMPLETE", "RACE")
  BY DEF NotifyRace, OnTop, Top, Over
<1>2. cache \in CacheType BY DEF Good
<1>3. Len(cache.stack) \in 1..Len(cache.stack) BY <1>1, <1>2, FieldTypes
<1>4. f \in Frame /\ FrameOK(cache, f) BY <1>1, TopFrame
<1>5. q \in Seq(Trans) /\ q # <<>> /\ Distinct(q, 0) /\ Ready(cache)
  <2> HIDE DEF f
  <2> QED BY <1>1, <1>4, FrameTypes DEF FrameOK
<1> HIDE DEF f, q
<1>6. r \in Seq(Trans) /\ Distinct(r, 0) /\ u \in Trans /\ InSeq(u, q) BY <1>5, TailQueue
<1>7. \A t : InSeq(t, r) <=> InSeq(t, q) /\ t # u BY <1>5, TailQueue
<1> HIDE DEF r, u
<1>8. Listed(f, u) /\ \A t : Listed(f, t) <=> InSeq(t, q) BY <1>1, <1>6 DEF Listed, q
<1>9. /\ x \in CacheType /\ SameData(cache, x) /\ x.trans = cache.trans
      /\ Len(x.stack) = Len(cache.stack) - 1 /\ SameFrames(cache, x, Len(cache.stack) - 1)
  BY <1>1, <1>2, PopFacts
<1>10. g \in Frame /\ g.k = "race" /\ g.queue = r BY <1>6 DEF Frame, RaceFrame
<1> HIDE DEF x, g
<1>11. Ready(x) BY <1>5, <1>9 DEF SameData, Ready
<1>12. r # <<>> => FrameOK(x, g) BY <1>6, <1>10, <1>11 DEF FrameOK
<1>13. \A t : Listed(g, t) <=> InSeq(t, r) BY <1>10 DEF Listed
<1>14. r = <<>> => \A t : ~InSeq(t, r) BY InEmpty
<1>15. \A t \in Trans : (r # <<>> /\ Listed(g, t)) <=> Listed(f, t) /\ t # u
  BY <1>7, <1>8, <1>13, <1>14
<1>16. cache.trans[u].entry = NoEntry
  <2>1. InPlace(cache, u, "loop", Len(cache.stack)) BY <1>3, <1>8 DEF InPlace, f
  <2>2. cache.trans[u].st = "pending" BY <1>6, <2>1, Elsewhere
  <2> QED BY <1>6, <2>2 DEF Good, TransOK
<1>17. "ADD_COMPLETE" \in States /\ "RACE" \in Results BY DEF States, Results
<1>18. FrameOK(x, Run(u, "ADD_COMPLETE", "RACE"))
  BY <1>6, <1>9, <1>11, <1>16, <1>17, RunTypes DEF FrameOK, Missed, Found, Added
<1>19. SameTrans(cache, x, u) BY <1>9 DEF SameTrans
<1>20. f = cache.stack[Len(cache.stack)] /\ f.k # "run" /\ g.k # "run" BY <1>1, <1>10 DEF f
<1>21. Good(Notify(Over(x, r, g), u, "ADD_COMPLETE", "RACE"))
  BY <1>1, <1>6, <1>8, <1>9, <1>10, <1>12, <1>15, <1>17, <1>18, <1>19, <1>20, NextWaiter
<1> QED BY <1>1, <1>21

LEMMA TailItems ==
    ASSUME CacheAssumption, NEW q \in Seq(ItemType), q # <<>>, ItemsOnce(q), ItemsNamed(q)
    PROVE  /\ Tail(q) \in Seq(ItemType) /\ ItemsOnce(Tail(q)) /\ ItemsNamed(Tail(q))
           /\ Head(q) \in ItemType /\ InItems(Head(q).trans, q)
           /\ Head(q).trans = NoTrans => Head(q).op = "DOOM"
           /\ \A t \in Trans : InItems(t, Tail(q)) <=> InItems(t, q) /\ t # Head(q).trans
<1> DEFINE r == Tail(q)
           h == Head(q)
<1>1. r \in Seq(ItemType) /\ CutAt(q, 1, r) /\ 1 \in 1..Len(q) /\ h = q[1] /\ h \in ItemType
  BY TailCut
<1> HIDE DEF r, h
<1>2. /\ ItemsOnce(r) /\ ItemsNamed(r)
      /\ \A t \in Trans : InItems(t, r) <=> InItems(t, q) /\ t # h.trans
  BY <1>1, CutItems
<1>3. InItems(h.trans, q) BY <1>1 DEF InItems
<1>4. h.trans = NoTrans => h.op = "DOOM" BY <1>1 DEF ItemsNamed
<1> QED BY <1>1, <1>2, <1>3, <1>4 DEF r, h

LEMMA CompletedIs ==
    /\ Completed["OPEN"] = "OPEN_COMPLETE" /\ Completed["CREATE"] = "CREATE_COMPLETE"
    /\ Completed["DOOM"] = "DOOM_COMPLETE"
BY DEF Completed

LEMMA AnswerFacts ==
    ASSUME NEW f, f.result \in {"OK", "ERR"}, f.fail \in BOOLEAN, NEW op \in Ops, NEW active
    PROVE  LET a == Answer(f, op, active)
           IN  /\ a.rv \in Results /\ a.fail \in BOOLEAN
               /\ op = "DOOM" => a.rv = "RACE"
               /\ a.rv = "ERR" => f.result = "ERR"
               /\ a.rv = "OK" => active # NoEntry
BY DEF Answer, Results, Ops

LEMMA NotifyItemGood ==
    ASSUME CacheAssumption, Good(cache), NotifyItem
    PROVE  Good(cache')
<1> DEFINE f == cache.stack[Len(cache.stack)]
           q == f.items
           h == Head(q)
           r == Tail(q)
           a == Answer(f, h.op, cache.active)
           p == Pop(cache)
           v == IF a.rv = "OK" THEN cache.active ELSE NoEntry
           x == IF h.op = "DOOM" THEN p ELSE WithNew(p, h.trans, v)
           g == [f EXCEPT !.items = r, !.fail = a.fail]
           s == Completed[h.op]
<1>1. /\ cache.stack # <<>> /\ f.k = "items"
      /\ cache' = Notify(IF g.items = <<>> THEN x ELSE Push(x, g), h.trans, s, a.rv)
  <2>1. cache.stack # <<>> /\ f.k = "items" BY DEF NotifyItem, OnTop, Top
  <2>2. cache' = Notify(IF g.items = <<>> THEN x ELSE Push(x, g), h.trans, s, a.rv)
    BY DEF NotifyItem, OnTop, Top, WithNew, FindActiveEntry
  <2> QED BY <2>1, <2>2
<1>2. cache \in CacheType BY DEF Good
<1>3. Len(cache.stack) \in 1..Len(cache.stack) BY <1>1, <1>2, FieldTypes
<1>4. f \in Frame /\ FrameOK(cache, f) BY <1>1, TopFrame
<1>5. /\ q \in Seq(ItemType) /\ q # <<>> /\ ItemsOnce(q) /\ ItemsNamed(q) /\ cache.backend = "disk"
      /\ f.result = "ERR" => cache.active = NoEntry
      /\ f \in ItemsFrame /\ f.result \in {"OK", "ERR"} /\ f.fail \in BOOLEAN
  <2> HIDE DEF f
  <2> QED BY <1>1, <1>4, FrameTypes DEF FrameOK
<1> HIDE DEF f, q
<1>6. /\ r \in Seq(ItemType) /\ ItemsOnce(r) /\ ItemsNamed(r) /\ h \in ItemType /\ InItems(h.trans, q)
      /\ h.trans = NoTrans => h.op = "DOOM"
      /\ \A t \in Trans : InItems(t, r) <=> InItems(t, q) /\ t # h.trans
  BY <1>5, TailItems
<1> HIDE DEF r, h
<1>7. h.op \in Ops /\ h.trans \in Trans \cup {NoTrans} BY <1>6 DEF ItemType, Ops
<1>8. /\ a.rv \in Results /\ a.fail \in BOOLEAN /\ (h.op = "DOOM" => a.rv = "RACE")
      /\ (a.rv = "ERR" => f.result = "ERR") /\ (a.rv = "OK" => cache.active # NoEntry)
  BY <1>5, <1>7, AnswerFacts
<1> HIDE DEF a
<1>9. g \in Frame /\ g.k = "items" /\ g.items = r /\ g.result = f.result
  BY <1>5, <1>6, <1>8 DEF Frame, ItemsFrame
<1>10. /\ s \in States
       /\ s = "DOOM_COMPLETE" <=> h.op = "DOOM"
       /\ s \in {"OPEN_COMPLETE", "CREATE_COMPLETE", "DOOM_COMPLETE"}
  BY <1>7, CompletedIs DEF Ops, States
<1> HIDE DEF g, s
<1>11. /\ p \in CacheType /\ SameData(cache, p) /\ p.trans = cache.trans
       /\ Len(p.stack) = Len(cache.stack) - 1 /\ SameFrames(cache, p, Len(cache.stack) - 1)
  BY <1>1, <1>2, PopFacts
<1> HIDE DEF p
<1>12. v \in Addresses BY <1>2, FieldTypes DEF Addresses
<1>13. \A t : Listed(f, t) <=> InItems(t, q) BY <1>1 DEF Listed, InItems, q
<1>14. \A t : Listed(g, t) <=> InItems(t, r) BY <1>9 DEF Listed, InItems
<1>15. r = <<>> => \A t : ~InItems(t, r) BY DEF InItems
<1>16. cache' = Notify(Over(x, r, g), h.trans, s, a.rv) BY <1>1, <1>9 DEF Over
<1>17. f = cache.stack[Len(cache.stack)] /\ f.k # "run" /\ g.k # "run" BY <1>1, <1>9 DEF f
<1>18. CASE h.trans = NoTrans
  <2>1. x = p BY <1>6, <1>18
  <2>2. cache' = Over(p, r, g) BY <1>16, <1>18, <2>1 DEF Notify
  <2>3. r # <<>> => FrameOK(p, g) BY <1>5, <1>6, <1>9, <1>11 DEF FrameOK, SameData
  <2>4. \A t \in Trans : (r # <<>> /\ Listed(g, t)) <=> Listed(f, t)
    BY <1>6, <1>13, <1>14, <1>15, <1>18 DEF CacheAssumption
  <2>5. Good(Over(p, r, g)) BY <1>1, <1>9, <1>11, <1>17, <2>3, <2>4, SkipWaiter
  <2> QED BY <2>2, <2>5
<1>19. CASE h.trans \in Trans
  <2> DEFINE u == h.trans
  <2>1. /\ x \in CacheType /\ SameData(cache, x) /\ SameTrans(cache, x, u) /\ x.stack = p.stack
        /\ x.trans[u].entry = cache.trans[u].entry
        /\ h.op # "DOOM" => x.trans[u].new_entry = v
    <3>1. CASE h.op = "DOOM"
      <4>1. x = p BY <3>1
      <4> HIDE DEF x
      <4> QED BY <1>11, <3>1, <4>1 DEF SameTrans
    <3>2. CASE h.op # "DOOM"
      <4>1. x = WithNew(p, u, v) BY <3>2
      <4> HIDE DEF x, v
      <4>2. Own(p, x, u) /\ x.trans[u].entry = p.trans[u].entry /\ x.trans[u].new_entry = v
        BY <1>11, <1>12, <1>19, <4>1, WithNewFacts
      <4> QED BY <1>11, <4>2 DEF Own, SameData, SameTrans
    <3> QED BY <3>1, <3>2
  <2> HIDE DEF x
  <2>2. Listed(f, u) BY <1>6, <1>13
  <2>3. cache.trans[u].entry = NoEntry
    <3>1. InPlace(cache, u, "loop", Len(cache.stack)) BY <1>3, <2>2 DEF InPlace, f
    <3>2. cache.trans[u].st = "pending" BY <1>19, <3>1, Elsewhere
    <3> QED BY <1>19, <3>2 DEF Good, TransOK
  <2>4. x.backend = "disk" /\ x.active = cache.active BY <1>5, <2>1 DEF SameData
  <2>5. r # <<>> => FrameOK(x, g) BY <1>5, <1>6, <1>9, <2>4 DEF FrameOK
  <2>6. FrameOK(x, Run(u, s, a.rv))
    <3>1. a.rv = "ERR" => cache.active = NoEntry BY <1>5, <1>8
    <3>2. h.op # "DOOM" /\ a.rv = "OK" => x.active # NoEntry /\ x.trans[u].new_entry = x.active
      BY <1>8, <2>1, <2>4
    <3> QED BY <1>8, <1>10, <1>19, <2>1, <2>3, <2>4, <3>1, <3>2, RunTypes
            DEF FrameOK, Missed, Found, Added, Ready
  <2>7. \A t \in Trans : (r # <<>> /\ Listed(g, t)) <=> Listed(f, t) /\ t # u
    BY <1>6, <1>13, <1>14, <1>15
  <2>8. Len(x.stack) = Len(cache.stack) - 1 /\ SameFrames(cache, x, Len(cache.stack) - 1)
    BY <1>11, <2>1 DEF SameFrames
  <2>9. u \in Trans BY <1>19
  <2> HIDE DEF u
  <2>10. Good(Notify(Over(x, r, g), u, s, a.rv))
    BY <1>1, <1>8, <1>9, <1>10, <1>17, <2>1, <2>2, <2>5, <2>6, <2>7, <2>8, <2>9, NextWaiter, SMTT(30)
  <2> QED BY <1>16, <2>10 DEF u
<1> QED BY <1>7, <1>18, <1>19

-----------------------------------------------------------------------------
(* Changes of an entry.                                                    *)

\* Nothing but e is new.
OnlyEntry(c, d, e) ==
    /\ d \in CacheType /\ d.active = c.active /\ d.op = c.op /\ d.backend = c.backend
    /\ d.backend_queue = c.backend_queue /\ d.tasks = c.tasks /\ d.trans = c.trans
    /\ d.stack = c.stack /\ \A x \in Entries \ {e} : d.entries[x] = c.entries[x]

LEMMA SetEntry ==
    ASSUME NEW c \in CacheType, NEW e \in Entries, NEW y \in EntryType \cup {Dead}
    PROVE  LET d == [c EXCEPT !.entries[e] = y]
           IN  OnlyEntry(c, d, e) /\ d.entries[e] = y
<1> DEFINE E == [c.entries EXCEPT ![e] = y]
           d == [c EXCEPT !.entries = E]
<1>1. /\ E \in [Entries -> EntryType \cup {Dead}] /\ E[e] = y
      /\ \A x \in Entries \ {e} : E[x] = c.entries[x]
  BY FieldTypes
<1> HIDE DEF E
<1>2. /\ d \in CacheType /\ d.active = c.active /\ d.op = c.op /\ d.backend = c.backend
      /\ d.backend_queue = c.backend_queue /\ d.tasks = c.tasks /\ d.trans = c.trans
      /\ d.stack = c.stack /\ d.entries = E
  BY <1>1 DEF CacheType
<1>3. [c EXCEPT !.entries[e] = y] = d BY DEF d, E
<1> HIDE DEF d
<1> QED BY <1>1, <1>2, <1>3 DEF OnlyEntry

\* x is y but for one field.
ButWriter(x, y) ==
    /\ x.readers = y.readers /\ x.pending_queue = y.pending_queue
    /\ x.will_process = y.will_process /\ x.doomed = y.doomed
ButReaders(x, y) ==
    /\ x.writer = y.writer /\ x.pending_queue = y.pending_queue
    /\ x.will_process = y.will_process /\ x.doomed = y.doomed
ButQueue(x, y) ==
    /\ x.writer = y.writer /\ x.readers = y.readers
    /\ x.will_process = y.will_process /\ x.doomed = y.doomed
ButProcess(x, y) ==
    /\ x.writer = y.writer /\ x.readers = y.readers
    /\ x.pending_queue = y.pending_queue /\ x.doomed = y.doomed
ButDoomed(x, y) ==
    /\ x.writer = y.writer /\ x.readers = y.readers
    /\ x.pending_queue = y.pending_queue /\ x.will_process = y.will_process

Lockers == Trans \cup {NoTrans}
SetWriter(c, e, v) == [c EXCEPT !.entries[e].writer = v]
SetReaders(c, e, v) == [c EXCEPT !.entries[e].readers = v]
SetQueue(c, e, v) == [c EXCEPT !.entries[e].pending_queue = v]
SetProcess(c, e, v) == [c EXCEPT !.entries[e].will_process = v]
SetDoomed(c, e, v) == [c EXCEPT !.entries[e].doomed = v]

LEMMA SetWriterFacts ==
    ASSUME NEW c \in CacheType, NEW e \in Entries, c.entries[e] \in EntryType, NEW v \in Lockers
    PROVE  LET d == SetWriter(c, e, v)
           IN  /\ OnlyEntry(c, d, e) /\ d.entries[e] \in EntryType /\ d.entries[e].writer = v
               /\ ButWriter(d.entries[e], c.entries[e])
<1> DEFINE y == [c.entries[e] EXCEPT !.writer = v]
           d == [c EXCEPT !.entries[e] = y]
<1>1. y \in EntryType /\ y.writer = v /\ ButWriter(y, c.entries[e]) BY DEF EntryType, ButWriter, Lockers
<1>2. SetWriter(c, e, v) = d BY DEF SetWriter
<1> HIDE DEF y
<1>3. OnlyEntry(c, d, e) /\ d.entries[e] = y BY <1>1, SetEntry
<1> HIDE DEF d
<1> QED BY <1>1, <1>2, <1>3

LEMMA SetReadersFacts ==
    ASSUME NEW c \in CacheType, NEW e \in Entries, c.entries[e] \in EntryType, NEW v \in SUBSET Trans
    PROVE  LET d == SetReaders(c, e, v)
           IN  /\ OnlyEntry(c, d, e) /\ d.entries[e] \in EntryType /\ d.entries[e].readers = v
               /\ ButReaders(d.entries[e], c.entries[e])
<1> DEFINE y == [c.entries[e] EXCEPT !.readers = v]
           d == [c EXCEPT !.entries[e] = y]
<1>1. y \in EntryType /\ y.readers = v /\ ButReaders(y, c.entries[e]) BY DEF EntryType, ButReaders
<1>2. SetReaders(c, e, v) = d BY DEF SetReaders
<1> HIDE DEF y
<1>3. OnlyEntry(c, d, e) /\ d.entries[e] = y BY <1>1, SetEntry
<1> HIDE DEF d
<1> QED BY <1>1, <1>2, <1>3

LEMMA SetQueueFacts ==
    ASSUME NEW c \in CacheType, NEW e \in Entries, c.entries[e] \in EntryType, NEW v \in Seq(Trans)
    PROVE  LET d == SetQueue(c, e, v)
           IN  /\ OnlyEntry(c, d, e) /\ d.entries[e] \in EntryType /\ d.entries[e].pending_queue = v
               /\ ButQueue(d.entries[e], c.entries[e])
<1> DEFINE y == [c.entries[e] EXCEPT !.pending_queue = v]
           d == [c EXCEPT !.entries[e] = y]
<1>1. y \in EntryType /\ y.pending_queue = v /\ ButQueue(y, c.entries[e]) BY DEF EntryType, ButQueue
<1>2. SetQueue(c, e, v) = d BY DEF SetQueue
<1> HIDE DEF y
<1>3. OnlyEntry(c, d, e) /\ d.entries[e] = y BY <1>1, SetEntry
<1> HIDE DEF d
<1> QED BY <1>1, <1>2, <1>3

LEMMA SetProcessFacts ==
    ASSUME NEW c \in CacheType, NEW e \in Entries, c.entries[e] \in EntryType, NEW v \in BOOLEAN
    PROVE  LET d == SetProcess(c, e, v)
           IN  /\ OnlyEntry(c, d, e) /\ d.entries[e] \in EntryType /\ d.entries[e].will_process = v
               /\ ButProcess(d.entries[e], c.entries[e])
<1> DEFINE y == [c.entries[e] EXCEPT !.will_process = v]
           d == [c EXCEPT !.entries[e] = y]
<1>1. y \in EntryType /\ y.will_process = v /\ ButProcess(y, c.entries[e]) BY DEF EntryType, ButProcess
<1>2. SetProcess(c, e, v) = d BY DEF SetProcess
<1> HIDE DEF y
<1>3. OnlyEntry(c, d, e) /\ d.entries[e] = y BY <1>1, SetEntry
<1> HIDE DEF d
<1> QED BY <1>1, <1>2, <1>3

LEMMA SetDoomedFacts ==
    ASSUME NEW c \in CacheType, NEW e \in Entries, c.entries[e] \in EntryType, NEW v \in BOOLEAN
    PROVE  LET d == SetDoomed(c, e, v)
           IN  /\ OnlyEntry(c, d, e) /\ d.entries[e] \in EntryType /\ d.entries[e].doomed = v
               /\ ButDoomed(d.entries[e], c.entries[e])
<1> DEFINE y == [c.entries[e] EXCEPT !.doomed = v]
           d == [c EXCEPT !.entries[e] = y]
<1>1. y \in EntryType /\ y.doomed = v /\ ButDoomed(y, c.entries[e]) BY DEF EntryType, ButDoomed
<1>2. SetDoomed(c, e, v) = d BY DEF SetDoomed
<1> HIDE DEF y
<1>3. OnlyEntry(c, d, e) /\ d.entries[e] = y BY <1>1, SetEntry
<1> HIDE DEF d
<1> QED BY <1>1, <1>2, <1>3

\* A DCHECK that may fail is noted, and nothing else changes.
LEMMA FailFacts ==
    ASSUME NEW c \in CacheType, NEW check \in FailingChecks, NEW ok
    PROVE  LET d == Fail(c, check, ok)
           IN  /\ d \in CacheType /\ d.active = c.active /\ d.entries = c.entries /\ d.op = c.op
               /\ d.disk = c.disk /\ d.backend = c.backend /\ d.backend_queue = c.backend_queue
               /\ d.tasks = c.tasks /\ d.trans = c.trans /\ d.stack = c.stack
<1> DEFINE d == Fail(c, check, ok)
           x == [c EXCEPT !.failed = @ \cup {check}]
<1>1. d = c \/ d = x BY DEF Fail
<1>2. CASE d = c BY <1>2
<1>3. CASE d = x
  <2>1. /\ x \in CacheType /\ x.active = c.active /\ x.entries = c.entries /\ x.op = c.op
        /\ x.disk = c.disk /\ x.backend = c.backend /\ x.backend_queue = c.backend_queue
        /\ x.tasks = c.tasks /\ x.trans = c.trans /\ x.stack = c.stack
    BY DEF CacheType
  <2> HIDE DEF x, d
  <2> QED BY <1>3, <2>1 DEF d
<1> QED BY <1>1, <1>2, <1>3

\* The entry in use is doomed, while the DoLoop on top has none or uses another.
LEMMA DoomActiveFacts ==
    ASSUME CacheAssumption, NEW c, Good(c), c.active # NoEntry
    PROVE  LET d == DoomActiveEntry(c)
               e == c.active
           IN  /\ e \in Live(c) /\ d \in CacheType /\ d.active = NoEntry /\ d.op = c.op
               /\ d.backend = c.backend /\ d.backend_queue = c.backend_queue /\ d.tasks = c.tasks
               /\ d.trans = c.trans /\ d.stack = c.stack
               /\ \A x \in Entries \ {e} : d.entries[x] = c.entries[x]
               /\ d.entries[e] \in EntryType /\ d.entries[e].doomed
               /\ ButDoomed(d.entries[e], c.entries[e])
<1> DEFINE e == c.active
           b == Fail(c, "doom_in_use", c.entries[e].writer # NoTrans \/ c.entries[e].readers # {})
           x == [b EXCEPT !.active = NoEntry, !.disk = FALSE]
           d == SetDoomed(x, e, TRUE)
<1>1. c \in CacheType /\ Disk(c) BY DEF Good
<1>2. e \in Entries /\ e \in Live(c) /\ c.entries[e] \in EntryType
  <2>1. e \in Entries BY <1>1, FieldTypes
  <2> QED BY <1>1, <2>1, EntryTypes DEF Disk
<1>3. DoomActiveEntry(c) = d BY DEF DoomActiveEntry, SetDoomed
<1>4. /\ b \in CacheType /\ b.entries = c.entries /\ b.op = c.op /\ b.backend = c.backend
      /\ b.backend_queue = c.backend_queue /\ b.tasks = c.tasks /\ b.trans = c.trans
      /\ b.stack = c.stack
  <2>1. "doom_in_use" \in FailingChecks BY DEF FailingChecks
  <2> QED BY <1>1, <2>1, FailFacts
<1> HIDE DEF b
<1>5. /\ x \in CacheType /\ x.active = NoEntry /\ x.op = c.op /\ x.backend = c.backend
      /\ x.backend_queue = c.backend_queue /\ x.tasks = c.tasks /\ x.trans = c.trans
      /\ x.stack = c.stack /\ x.entries = c.entries
  BY <1>4 DEF CacheType
<1> HIDE DEF x, e
<1>6. TRUE \in BOOLEAN OBVIOUS
<1>7. /\ OnlyEntry(x, d, e) /\ d.entries[e] \in EntryType /\ d.entries[e].doomed = TRUE
      /\ ButDoomed(d.entries[e], x.entries[e])
  BY <1>2, <1>5, <1>6, SetDoomedFacts
<1> HIDE DEF d
<1> QED BY <1>2, <1>3, <1>5, <1>7 DEF OnlyEntry, e

LEMMA DoomActiveGood ==
    ASSUME CacheAssumption, NEW c, Good(c), c.active # NoEntry, NEW u \in Trans, c.stack # <<>>,
           Runs(c, Len(c.stack), u), ~Found(Top(c))
    PROVE  Good(DoomActiveEntry(c))
<1> DEFINE d == DoomActiveEntry(c)
           e == c.active
<1>1. /\ c \in CacheType /\ Framed(c) /\ Frames(c) /\ Disk(c) /\ Tasked(c) /\ \A x \in Live(c) : LockOK(c, x)
  BY DEF Good
<1>2. /\ e \in Live(c) /\ d \in CacheType /\ d.active = NoEntry /\ d.op = c.op
      /\ d.backend = c.backend /\ d.backend_queue = c.backend_queue /\ d.tasks = c.tasks
      /\ d.trans = c.trans /\ d.stack = c.stack
      /\ \A x \in Entries \ {e} : d.entries[x] = c.entries[x]
      /\ d.entries[e] \in EntryType /\ d.entries[e].doomed
      /\ ButDoomed(d.entries[e], c.entries[e])
  BY DoomActiveFacts
<1> HIDE DEF d, e
<1>3. e \in Entries BY <1>2 DEF Live
<1>4. \A x \in Entries : /\ (d.entries[x] = Dead <=> c.entries[x] = Dead)
                         /\ c.entries[x] # Dead => ButDoomed(d.entries[x], c.entries[x])
  <2>1. d.entries[e] # Dead /\ c.entries[e] # Dead BY <1>2, Shapes DEF Live
  <2> QED BY <1>2, <1>3, <2>1 DEF ButDoomed
<1>5. \A x \in Entries : Holders(d, x) = Holders(c, x) /\ QueueOf(d, x) = QueueOf(c, x)
  BY <1>4 DEF Holders, QueueOf, ButDoomed
<1>6. Live(d) = Live(c) BY <1>4 DEF Live
<1>7. Framed(d) BY <1>1, <1>2 DEF Framed, Runs
<1>8. \A i \in 1..Len(c.stack) : c.stack[i].k = "run" => ~Found(c.stack[i])
  BY <1>1 DEF Framed, Found, Quiet, Top
<1>9. ASSUME NEW i \in 1..Len(d.stack) PROVE FrameOK(d, d.stack[i])
  <2> DEFINE f == c.stack[i]
  <2>1. d.stack[i] = f /\ f \in Frame /\ FrameOK(c, f) /\ (f.k = "run" => ~Found(f))
    BY <1>1, <1>2, <1>8, FieldTypes DEF Frames
  <2> HIDE DEF f
  <2>2. Ready(d) <=> Ready(c) BY <1>2 DEF Ready
  <2>3. CASE f.k = "run"
    <3>1. Added(f) => f.t \in Holders(d, c.trans[f.t].new_entry) BY <1>5, <2>1, <2>3 DEF FrameOK
    <3> QED BY <1>2, <2>1, <2>2, <2>3, <3>1 DEF FrameOK
  <2>4. CASE f.k # "run" BY <1>2, <2>1, <2>2, <2>4 DEF FrameOK
  <2> QED BY <2>3, <2>4
<1>10. ASSUME NEW t \in Trans PROVE TransOK(d, t) /\ PlacedOnce(d, t)
  <2>1. TransOK(c, t) /\ PlacedOnce(c, t) BY DEF Good
  <2>2. c.trans[t].entry # NoEntry => c.trans[t].entry \in Entries BY <1>1, TransTypes
  <2>3. TransOK(d, t) BY <1>2, <1>5, <2>1, <2>2 DEF TransOK
  <2>4. \A k, x : InPlace(d, t, k, x) <=> InPlace(c, t, k, x)
    <3>1. \A x : InPlace(d, t, "entry", x) <=> InPlace(c, t, "entry", x) BY <1>5, InQueueOf
    <3>2. \A k, x : k # "entry" => (InPlace(d, t, k, x) <=> InPlace(c, t, k, x)) BY <1>2 DEF InPlace
    <3> QED BY <3>1, <3>2
  <2>5. PlacedOnce(d, t) BY <1>2, <2>1, <2>4 DEF PlacedOnce
  <2> QED BY <2>3, <2>5
<1>11. ASSUME NEW x \in Live(d) PROVE LockOK(d, x)
  <2>1. x \in Entries /\ x \in Live(c) /\ LockOK(c, x) BY <1>1, <1>6 DEF Live
  <2>2. c.entries[x] # Dead BY <2>1 DEF Live
  <2>3. ButDoomed(d.entries[x], c.entries[x]) /\ Holders(d, x) = Holders(c, x)
    BY <1>4, <1>5, <2>1, <2>2
  <2>4. ~d.entries[x].doomed => d.active = x
    <3>1. CASE x = e BY <1>2, <3>1
    <3>2. CASE x # e BY <1>2, <2>1, <3>2 DEF LockOK, e
    <3> QED BY <3>1, <3>2
  <2>5. \A t : Adding(d, x, t) <=> Adding(c, x, t) BY <1>2 DEF Adding, Runs
  <2>6. Finding(d, x) <=> Finding(c, x) BY <1>2 DEF Finding
  <2> QED BY <1>2, <2>1, <2>3, <2>4, <2>5, <2>6 DEF LockOK, ButDoomed
<1>12. Disk(d) BY <1>1, <1>2, <1>6 DEF Disk, Ready
<1>13. Tasked(d)
  <2>1. \A x \in Entries : (d.entries[x] # Dead /\ d.entries[x].will_process) <=>
                           (c.entries[x] # Dead /\ c.entries[x].will_process)
    BY <1>4 DEF ButDoomed
  <2> QED BY <1>1, <1>2, <2>1 DEF Tasked
<1>14. Good(d) BY <1>2, <1>7, <1>9, <1>10, <1>11, <1>12, <1>13 DEF Good, Frames
<1> QED BY <1>14 DEF d

-----------------------------------------------------------------------------
(* Starting an operation of the disk cache.                                *)

\* Nothing changes but the disk and the operation, and everybody stays in it.
LEMMA OpGood ==
    ASSUME CacheAssumption, NEW c, Good(c), NEW d \in CacheType,
           d.entries = c.entries, d.active = c.active, d.tasks = c.tasks, d.trans = c.trans,
           d.stack = c.stack, d.backend = c.backend, d.backend_queue = c.backend_queue, Disk(d),
           \A t \in Trans : InOp(d.op, t) <=> InOp(c.op, t)
    PROVE  Good(d)
<1>1. Framed(d) BY DEF Good, Framed, Runs
<1>2. \A x : Holders(d, x) = Holders(c, x) BY DEF Holders
<1>3. Frames(d) BY <1>2 DEF Good, Frames, FrameOK, Ready
<1>4. ASSUME NEW t \in Trans PROVE TransOK(d, t) /\ PlacedOnce(d, t)
  <2>1. TransOK(c, t) /\ PlacedOnce(c, t) BY DEF Good
  <2>2. \A k, x : InPlace(d, t, k, x) <=> InPlace(c, t, k, x) BY DEF InPlace, Live
  <2> QED BY <1>2, <2>1, <2>2 DEF TransOK, PlacedOnce
<1>5. ASSUME NEW x \in Live(d) PROVE LockOK(d, x)
  <2>1. LockOK(c, x) BY DEF Good, Live
  <2>2. \A t : Adding(d, x, t) <=> Adding(c, x, t) BY DEF Adding, Runs
  <2>3. Finding(d, x) <=> Finding(c, x) BY DEF Finding
  <2> QED BY <1>2, <2>1, <2>2, <2>3 DEF LockOK
<1>6. Tasked(d) BY DEF Good, Tasked
<1> QED BY <1>1, <1>3, <1>4, <1>5, <1>6 DEF Good

SetOp(c, o) == [c EXCEPT !.op = o]
SetDisk(c, b) == [c EXCEPT !.disk = b]

LEMMA SetOpFacts ==
    ASSUME NEW c \in CacheType, NEW o, o \in OpType \/ o = NoOp
    PROVE  LET d == SetOp(c, o)
           IN  /\ d \in CacheType /\ d.active = c.active /\ d.entries = c.entries /\ d.op = o
               /\ d.backend_queue = c.backend_queue /\ d.tasks = c.tasks /\ d.trans = c.trans
               /\ d.stack = c.stack /\ d.backend = c.backend
BY DEF SetOp, CacheType

LEMMA SetDiskFacts ==
    ASSUME NEW c \in CacheType, NEW b \in BOOLEAN
    PROVE  LET d == SetDisk(c, b)
           IN  /\ d \in CacheType /\ SameData(c, d) /\ d.trans = c.trans /\ d.stack = c.stack
BY DEF SetDisk, CacheType, SameData

\* The item is the last of the operation that there is, or the only one of a new one.
Joined(op, item) ==
    IF op = NoOp THEN [writer |-> item, queue |-> <<>>]
    ELSE [op EXCEPT !.queue = Append(op.queue, item)]

LEMMA JoinedFacts ==
    ASSUME CacheAssumption, NEW c, Good(c), NEW item \in ItemType,
           item.trans \in Trans => ~InOp(c.op, item.trans),
           item.trans = NoTrans => item.op = "DOOM"
    PROVE  LET o == Joined(c.op, item)
           IN  /\ o \in OpType /\ o # NoOp /\ ItemsOnce(o.queue) /\ ItemsNamed(o.queue)
               /\ \A i \in 1..Len(o.queue) : o.queue[i].trans = o.writer.trans => o.writer.trans = NoTrans
               /\ \A t \in Trans : InOp(o, t) <=> InOp(c.op, t) \/ t = item.trans
<1> DEFINE o == Joined(c.op, item)
<1>1. c.op \in OpType \cup {NoOp} BY FieldTypes DEF Good
<1>2. item.trans \in Trans \cup {NoTrans} BY DEF ItemType
<1>3. CASE c.op = NoOp
  <2>1. o = [writer |-> item, queue |-> <<>>] BY <1>3 DEF Joined
  <2> HIDE DEF o
  <2>2. o \in OpType /\ o.writer = item /\ o.queue = <<>> BY <2>1 DEF OpType
  <2>3. o # NoOp BY <2>2, Shapes
  <2>4. \A t \in Trans : InOp(o, t) <=> InOp(c.op, t) \/ t = item.trans BY <1>3, <2>2, <2>3 DEF InOp
  <2> QED BY <2>2, <2>3, <2>4 DEF ItemsOnce, ItemsNamed, o
<1>4. CASE c.op # NoOp
  <2> DEFINE p == c.op
             q == Append(p.queue, item)
  <2>1. p \in OpType /\ p.writer \in ItemType /\ p.queue \in Seq(ItemType) BY <1>1, <1>4 DEF OpType
  <2>2. /\ ItemsOnce(p.queue) /\ ItemsNamed(p.queue)
        /\ \A i \in 1..Len(p.queue) : p.queue[i].trans = p.writer.trans => p.writer.trans = NoTrans
    BY <1>4 DEF Good, Disk
  <2>3. \A t : InOp(p, t) <=> p.writer.trans = t \/ InItems(t, p.queue) BY <1>4 DEF InOp, InItems
  <2>4. o = [p EXCEPT !.queue = q] BY <1>4 DEF Joined
  <2>5. item.trans # NoTrans => ~InItems(item.trans, p.queue) BY <1>2, <2>3
  <2> HIDE DEF p
  <2>6. /\ q \in Seq(ItemType) /\ ItemsOnce(q) /\ ItemsNamed(q)
        /\ \A t : InItems(t, q) <=> InItems(t, p.queue) \/ t = item.trans
    BY <2>1, <2>2, <2>5, AppendItems
  <2> HIDE DEF q, o
  <2>7. o \in OpType /\ o.writer = p.writer /\ o.queue = q BY <2>1, <2>4, <2>6 DEF OpType
  <2>8. o # NoOp BY <2>7, Shapes
  <2>9. \A t : InOp(o, t) <=> InOp(p, t) \/ t = item.trans
    BY <2>3, <2>6, <2>7, <2>8 DEF InOp, InItems
  <2>10. ~InItems(o.writer.trans, o.queue) \/ o.writer.trans = NoTrans
    <3>1. p.writer.trans \in Trans \cup {NoTrans} BY <2>1 DEF ItemType
    <3>2. InItems(p.writer.trans, p.queue) => p.writer.trans = NoTrans BY <2>2 DEF InItems
    <3>3. p.writer.trans = item.trans => p.writer.trans = NoTrans BY <1>2, <2>3 DEF p
    <3> QED BY <2>6, <2>7, <3>2, <3>3
  <2>11. \A i \in 1..Len(o.queue) : o.queue[i].trans = o.writer.trans => o.writer.trans = NoTrans
    BY <2>10 DEF InItems
  <2> QED BY <2>6, <2>7, <2>8, <2>9, <2>11 DEF o, p
<1> QED BY <1>3, <1>4

Item(op, t) == [op |-> op, trans |-> t]

\* The caller waits with its item, or has the answer r at once.
Waiting(c, op, t) == SetOp(c, Joined(c.op, Item(op, t)))
AnsweredNow(c, op, t, r) ==
    LET x == CompleteOp(c, Item(op, t), TRUE, r)
    IN  IF t = NoTrans THEN x
        ELSE Goto(IF op = "DOOM" THEN x ELSE WithNew(x, t, x.active), t, Completed[op], r)

LEMMA StartOpCases ==
    ASSUME NEW c, Good(c), c.active = NoEntry, Ready(c), NEW op \in Ops, NEW t,
           NEW d \in StartOp(c, op, t)
    PROVE  \/ /\ c.backend = "disk"
              /\ d = IF t = NoTrans THEN Waiting(c, op, t) ELSE Block(Waiting(c, op, t), t, "pending")
           \/ /\ c.backend = "memory" /\ c.op = NoOp
              /\ \E r \in BackendResults(c, op) : d = AnsweredNow(c, op, t, r)
<1>1. Fail(c, "op_while_active", c.active = NoEntry) = c BY DEF Fail
<1>2. CASE c.op # NoOp
  <2>1. c.backend = "disk" BY <1>2 DEF Good, Disk
  <2> DEFINE x == [c EXCEPT !.op.queue = Append(@, [op |-> op, trans |-> t])]
  <2>2. x = Waiting(c, op, t)
    <3>1. c.op = c.op /\ x = [c EXCEPT !.op = [c.op EXCEPT !.queue = Append(c.op.queue, [op |-> op, trans |-> t])]]
      OBVIOUS
    <3> QED BY <1>2, <3>1 DEF Waiting, SetOp, Joined, Item
  <2>3. d = IF t = NoTrans THEN x ELSE Block(x, t, "pending") BY <1>1, <1>2 DEF StartOp
  <2> HIDE DEF x
  <2> QED BY <2>1, <2>2, <2>3
<1>3. CASE c.op = NoOp /\ c.backend = "memory"
  <2>1. PICK r \in BackendResults(c, op) :
            d = LET x == CompleteOp(c, [op |-> op, trans |-> t], TRUE, r)
                    y == IF op = "DOOM" THEN x ELSE [x EXCEPT !.trans[t].new_entry = x.active]
                IN  IF t = NoTrans THEN x ELSE Goto(y, t, Completed[op], r)
    BY <1>1, <1>3 DEF StartOp
  <2>2. d = AnsweredNow(c, op, t, r) BY <2>1 DEF AnsweredNow, WithNew, Item
  <2> QED BY <1>3, <2>2
<1>4. CASE c.op = NoOp /\ c.backend # "memory"
  <2>1. c.backend = "disk" BY <1>4 DEF Ready
  <2> DEFINE x == [c EXCEPT !.op = [writer |-> [op |-> op, trans |-> t], queue |-> <<>>]]
  <2>2. x = Waiting(c, op, t) BY <1>4 DEF Waiting, SetOp, Joined, Item
  <2>3. d = IF t = NoTrans THEN x ELSE Block(x, t, "pending") BY <1>1, <1>4 DEF StartOp
  <2> HIDE DEF x
  <2> QED BY <2>1, <2>2, <2>3
<1> QED BY <1>2, <1>3, <1>4

LEMMA WaitingFacts ==
    ASSUME CacheAssumption, NEW c, Good(c), c.active = NoEntry, c.backend = "disk", NEW op \in Ops,
           NEW t \in Lockers, t \in Trans => c.trans[t].st # "pending", t = NoTrans => op = "DOOM"
    PROVE  LET d == Waiting(c, op, t)
           IN  /\ d \in CacheType /\ d.active = c.active /\ d.entries = c.entries
               /\ d.backend_queue = c.backend_queue /\ d.tasks = c.tasks /\ d.trans = c.trans
               /\ d.stack = c.stack /\ d.backend = c.backend /\ Disk(d)
               /\ \A r \in Trans : InOp(d.op, r) <=> InOp(c.op, r) \/ r = t
<1> DEFINE item == Item(op, t)
           o == Joined(c.op, item)
           d == SetOp(c, o)
<1>1. item \in ItemType /\ item.trans = t /\ item.op = op BY DEF Item, ItemType, Ops, Lockers
<1>2. t \in Trans => ~InOp(c.op, t) BY Nowhere
<1> HIDE DEF item
<1>3. /\ o \in OpType /\ o # NoOp /\ ItemsOnce(o.queue) /\ ItemsNamed(o.queue)
      /\ \A i \in 1..Len(o.queue) : o.queue[i].trans = o.writer.trans => o.writer.trans = NoTrans
      /\ \A r \in Trans : InOp(o, r) <=> InOp(c.op, r) \/ r = item.trans
  BY <1>1, <1>2, JoinedFacts
<1> HIDE DEF o
<1>4. c \in CacheType BY DEF Good
<1>5. /\ d \in CacheType /\ d.active = c.active /\ d.entries = c.entries /\ d.op = o
      /\ d.backend_queue = c.backend_queue /\ d.tasks = c.tasks /\ d.trans = c.trans
      /\ d.stack = c.stack /\ d.backend = c.backend
  BY <1>3, <1>4, SetOpFacts
<1>6. Waiting(c, op, t) = d BY DEF Waiting, item, o
<1> HIDE DEF d
<1>7. Disk(d) BY <1>3, <1>5 DEF Good, Disk, Live, Ready
<1>8. \A r \in Trans : InOp(d.op, r) <=> InOp(c.op, r) \/ r = t BY <1>1, <1>3, <1>5
<1> QED BY <1>5, <1>6, <1>7, <1>8

\* A DCHECK that fails leaves the cache good.
LEMMA FailGood ==
    ASSUME CacheAssumption, NEW c, Good(c), Ready(c), NEW check \in FailingChecks, NEW ok
    PROVE  LET d == Fail(c, check, ok)
           IN  Good(d) /\ d.trans = c.trans /\ d.stack = c.stack /\ Ready(d)
<1> DEFINE d == Fail(c, check, ok)
<1>1. c \in CacheType /\ Disk(c) BY DEF Good
<1>2. /\ d \in CacheType /\ d.active = c.active /\ d.entries = c.entries /\ d.op = c.op
      /\ d.disk = c.disk /\ d.backend = c.backend /\ d.backend_queue = c.backend_queue
      /\ d.tasks = c.tasks /\ d.trans = c.trans /\ d.stack = c.stack
  BY <1>1, FailFacts
<1> HIDE DEF d
<1>3. Disk(d) BY <1>1, <1>2 DEF Disk, Live, Ready
<1>4. Good(d) BY <1>2, <1>3, OpGood
<1> QED BY <1>2, <1>4 DEF Ready, d

\* An operation for no transaction starts: nothing else changes but the operation and the disk.
LEMMA NobodyGood ==
    ASSUME CacheAssumption, NEW c, Good(c), Ready(c), c.active = NoEntry,
           NEW d \in StartOp(c, "DOOM", NoTrans)
    PROVE  Good(d) /\ d.trans = c.trans /\ d.stack = c.stack /\ Ready(d)
<1>1. "DOOM" \in Ops /\ NoTrans \in Lockers /\ NoTrans \notin Trans
  BY DEF Ops, Lockers, CacheAssumption
<1>2. CASE c.backend = "disk" /\ d = Waiting(c, "DOOM", NoTrans)
  <2>1. /\ d \in CacheType /\ d.active = c.active /\ d.entries = c.entries
        /\ d.backend_queue = c.backend_queue /\ d.tasks = c.tasks /\ d.trans = c.trans
        /\ d.stack = c.stack /\ d.backend = c.backend /\ Disk(d)
        /\ \A r \in Trans : InOp(d.op, r) <=> InOp(c.op, r)
    BY <1>1, <1>2, WaitingFacts
  <2>2. Good(d) BY <2>1, OpGood
  <2> QED BY <2>1, <2>2 DEF Ready
<1>3. ASSUME NEW r \in BackendResults(c, "DOOM"), d = AnsweredNow(c, "DOOM", NoTrans, r)
      PROVE  Good(d) /\ d.trans = c.trans /\ d.stack = c.stack /\ Ready(d)
  <2>1. d = CompleteOp(c, Item("DOOM", NoTrans), TRUE, r) BY <1>3 DEF AnsweredNow
  <2>2. d = c \/ d = SetDisk(c, FALSE) BY <2>1 DEF CompleteOp, Item, SetDisk
  <2>3. CASE d = c BY <2>3
  <2>4. CASE d = SetDisk(c, FALSE)
    <3>1. c \in CacheType /\ FALSE \in BOOLEAN BY DEF Good
    <3>2. d \in CacheType /\ SameData(c, d) /\ d.trans = c.trans /\ d.stack = c.stack
      BY <2>4, <3>1, SetDiskFacts
    <3>3. Disk(d) BY <3>2, DiskSame DEF Good
    <3>4. Good(d) BY <3>2, <3>3, OpGood DEF SameData
    <3> QED BY <3>2, <3>4 DEF SameData, Ready
  <2> QED BY <2>2, <2>3, <2>4
<1> QED BY <1>1, <1>2, <1>3, StartOpCases

\* A transaction that uses an entry has its key doomed: nothing else changes but the entry
\* in use, or the operation.
LEMMA DoomOwnGood ==
    ASSUME CacheAssumption, NEW c, Good(c), Ready(c), NEW u \in Trans, c.stack # <<>>,
           Runs(c, Len(c.stack), u), ~Found(Top(c)), NEW d \in DoomOwnEntry(c)
    PROVE  /\ Good(d) /\ d.trans = c.trans /\ d.stack = c.stack /\ Ready(d)
<1>1. CASE c.active # NoEntry
  <2>1. d = DoomActiveEntry(c) BY <1>1 DEF DoomOwnEntry
  <2>2. d.trans = c.trans /\ d.stack = c.stack /\ d.backend = c.backend BY <1>1, <2>1, DoomActiveFacts
  <2>3. Good(d) BY <1>1, <2>1, DoomActiveGood
  <2> QED BY <2>2, <2>3 DEF Ready
<1>2. CASE c.active = NoEntry
  <2>1. d \in AsyncDoomForNobody(c) BY <1>2 DEF DoomOwnEntry
  <2>2. PICK x \in StartOp(c, "DOOM", NoTrans) :
            d = Fail(Fail(x, "doom_trans", FALSE), "doom_result", c.disk /\ ~x.disk)
    BY <2>1 DEF AsyncDoomForNobody
  <2>3. Good(x) /\ x.trans = c.trans /\ x.stack = c.stack /\ Ready(x) BY <1>2, NobodyGood
  <2>4. "doom_trans" \in FailingChecks /\ "doom_result" \in FailingChecks BY DEF FailingChecks
  <2> DEFINE y == Fail(x, "doom_trans", FALSE)
  <2>5. Good(y) /\ y.trans = x.trans /\ y.stack = x.stack /\ Ready(y) BY <2>3, <2>4, FailGood
  <2>6. d = Fail(y, "doom_result", c.disk /\ ~x.disk) BY <2>2
  <2> HIDE DEF y
  <2>7. Good(d) /\ d.trans = y.trans /\ d.stack = y.stack /\ Ready(d) BY <2>4, <2>5, <2>6, FailGood
  <2> QED BY <2>3, <2>5, <2>7
<1> QED BY <1>1, <1>2

\* A DoLoop waits for the operation.
LEMMA WaitGood ==
    ASSUME CacheAssumption, NEW c, Good(c), c.active = NoEntry, c.backend = "disk", NEW op \in Ops,
           NEW u \in Trans, c.stack # <<>>, Runs(c, Len(c.stack), u),
           Top(c).s # "USE", ~Added(Top(c)), ~Found(Top(c))
    PROVE  Good(Block(Waiting(c, op, u), u, "pending"))
<1> DEFINE x == Waiting(c, op, u)
           d == Block(x, u, "pending")
           n == Len(c.stack) - 1
<1>1. c \in CacheType /\ Framed(c) BY DEF Good
<1>2. Len(c.stack) \in Nat \ {0} BY <1>1, FieldTypes
<1>3. c.trans[u].st = "running" /\ c.trans[u] \in TransType BY <1>1, <1>2, TransTypes DEF Framed
<1>4. u \in Lockers /\ u # NoTrans BY DEF Lockers, CacheAssumption
<1>5. /\ x \in CacheType /\ x.active = c.active /\ x.entries = c.entries
      /\ x.backend_queue = c.backend_queue /\ x.tasks = c.tasks /\ x.trans = c.trans
      /\ x.stack = c.stack /\ x.backend = c.backend /\ Disk(x)
      /\ \A r \in Trans : InOp(x.op, r) <=> InOp(c.op, r) \/ r = u
  BY <1>3, <1>4, WaitingFacts
<1> HIDE DEF x
<1>6. "pending" \in {"free", "pending", "running", "own"} OBVIOUS
<1>7. /\ d \in CacheType /\ SameData(x, d) /\ SameTrans(x, d, u)
      /\ d.trans[u] = WithSt(x.trans[u], "pending")
      /\ Len(d.stack) = Len(x.stack) - 1 /\ SameFrames(x, d, Len(x.stack) - 1)
  BY <1>5, <1>6, BlockFacts
<1> HIDE DEF d
<1>8. d.trans[u].st = "pending" /\ d.trans[u].entry = c.trans[u].entry
  BY <1>3, <1>5, <1>6, <1>7, WithStFacts
<1>9. SameTrans(c, d, u) /\ Len(d.stack) = n /\ SameFrames(c, d, n)
  BY <1>5, <1>7 DEF SameTrans, SameFrames
<1>10. /\ d.active = c.active /\ d.entries = c.entries /\ d.op = x.op /\ d.backend = c.backend
       /\ d.backend_queue = c.backend_queue /\ d.tasks = c.tasks
  BY <1>5, <1>7 DEF SameData
<1>11. n \in Nat /\ n <= Len(d.stack) /\ \A i \in 1..Len(d.stack) : ~(i > n) BY <1>2, <1>9
<1>12. \A i \in 1..Len(c.stack) : i > n => i = Len(c.stack) BY <1>2
<1>13. Kept(c, d, u, n) BY <1>7, <1>9, <1>11, TopKept
<1>14. NewFrames(d, u, n) BY <1>8, <1>11 DEF NewFrames
<1>15. Backed(c, d, n) BY <1>10 DEF Backed, Ready
<1>16. Disk(d) BY <1>5, <1>7, DiskSame
<1>17. \A y \in Entries : u \notin Holders(c, y) BY HoldsTop DEF Top
<1>18. KeepsLocks(c, d, u) BY <1>17 DEF KeepsLocks
<1>19. c.trans[u].entry = NoEntry
  <2>1. FrameOK(c, c.stack[Len(c.stack)]) BY <1>2 DEF Good, Frames
  <2> QED BY <2>1 DEF FrameOK, Runs, Top
<1>20. TransOK(d, u) BY <1>8, <1>19 DEF TransOK
<1>21. \A i \in 1..Len(c.stack) : i > n => ~Listed(c.stack[i], u) /\ ~Found(c.stack[i])
  BY <1>12 DEF Listed, Runs, Top
<1>22. /\ \A y \in Entries : ~InSeq(u, QueueOf(c, y))
       /\ ~InOp(c.op, u) /\ ~InSeq(u, c.backend_queue)
       /\ \A i \in 1..Len(c.stack) : ~Listed(c.stack[i], u)
  BY <1>3, Nowhere
<1>23. \A y : QueueOf(d, y) = QueueOf(c, y) BY <1>10 DEF QueueOf
<1>24. ASSUME NEW t \in Trans PROVE PlacedOnce(d, t)
  <2>1. CASE t = u
    <3>1. InOp(d.op, u) BY <1>5, <1>10
    <3>2. InPlace(d, u, "op", 0) BY <3>1 DEF InPlace
    <3>3. \A i \in 1..Len(d.stack) : ~Listed(d.stack[i], u)
      <4>1. \A i \in 1..Len(d.stack) : i \in 1..n /\ i \in 1..Len(c.stack) BY <1>2, <1>9
      <4> QED BY <1>9, <1>22, <4>1 DEF SameFrames
    <3>4. PlacedOnce(d, u) BY <1>8, <1>10, <1>22, <1>23, <3>2, <3>3, PlacedThere
    <3> QED BY <2>1, <3>4
  <2>2. CASE t # u
    <3>1. InOp(d.op, t) <=> InOp(c.op, t) BY <1>5, <1>10, <2>2
    <3>2. \A i \in 1..Len(c.stack) : i > n => ~Listed(c.stack[i], t) BY <1>12 DEF Listed, Runs
    <3>3. SamePlaces(c, d, t, n) BY <1>10, <1>11, <1>23, <3>1, <3>2 DEF SamePlaces
    <3>4. PlacedOnce(c, t) /\ d.trans[t] = c.trans[t] BY <1>9, <2>2 DEF Good, SameTrans
    <3> QED BY <1>1, <1>7, <1>13, <3>3, <3>4, PlacedSame
  <2> QED BY <2>1, <2>2
<1>25. Good(d)
  <2> HIDE DEF n
  <2> QED BY <1>7, <1>10, <1>13, <1>14, <1>15, <1>16, <1>18, <1>20, <1>21, <1>22, <1>24, CalmGood
<1> QED BY <1>25 DEF d, x

-----------------------------------------------------------------------------
(* Activating an entry.                                                    *)

Fresh == [writer |-> NoTrans, readers |-> {}, pending_queue |-> <<>>,
          will_process |-> FALSE, doomed |-> FALSE]

\* e, which was dead, is the entry in use.
Activated(c, d, e) ==
    /\ e \in Entries /\ e \notin Live(c) /\ d \in CacheType /\ d.active = e /\ d.op = c.op
    /\ d.backend = c.backend /\ d.backend_queue = c.backend_queue /\ d.tasks = c.tasks
    /\ d.entries[e] = Fresh /\ \A x \in Entries \ {e} : d.entries[x] = c.entries[x]

LEMMA FreshFacts ==
    /\ Fresh \in EntryType /\ Fresh # Dead /\ Fresh.writer = NoTrans /\ Fresh.readers = {}
    /\ Fresh.pending_queue = <<>> /\ Fresh.will_process = FALSE /\ Fresh.doomed = FALSE
<1>1. Fresh \in EntryType BY DEF Fresh, EntryType
<1> QED BY <1>1, Shapes DEF Fresh

LEMMA ActivateFacts ==
    ASSUME CacheAssumption, NEW c \in CacheType, c.active = NoEntry, Live(c) # Entries
    PROVE  LET d == [ActivateEntry(c) EXCEPT !.disk = TRUE]
           IN  Activated(c, d, d.active) /\ d.trans = c.trans /\ d.stack = c.stack
<1> DEFINE F == Entries \ Live(c)
           e == CHOOSE x \in F : \A y \in F : x <= y
           w == [c EXCEPT !.active = e, !.disk = TRUE]
           d == [w EXCEPT !.entries[e] = Fresh]
<1>1. F \in SUBSET Nat /\ F # {} BY DEF CacheAssumption, Live
<1>2. \E x \in F : \A y \in F : x <= y
  <2> HIDE DEF F
  <2> QED BY <1>1, LeastNat
<1>3. e \in F
  <2> HIDE DEF F
  <2> QED BY <1>2
<1>4. [ActivateEntry(c) EXCEPT !.disk = TRUE] = d
  <2>1. Fail(c, "activate", c.active = NoEntry) = c BY DEF Fail
  <2>2. ActivateEntry(c) = [c EXCEPT !.active = e, !.entries[e] = Fresh]
    BY <2>1 DEF ActivateEntry, Fresh
  <2> HIDE DEF e, F
  <2>3. [[c EXCEPT !.active = e, !.entries[e] = Fresh] EXCEPT !.disk = TRUE]
            = [[c EXCEPT !.active = e, !.disk = TRUE] EXCEPT !.entries[e] = Fresh]
    BY DEF CacheType
  <2> QED BY <2>2, <2>3
<1> HIDE DEF e
<1>5. e \in Entries /\ e \notin Live(c) BY <1>3
<1>6. /\ w \in CacheType /\ w.active = e /\ w.op = c.op /\ w.backend = c.backend
      /\ w.backend_queue = c.backend_queue /\ w.tasks = c.tasks /\ w.trans = c.trans
      /\ w.stack = c.stack /\ w.entries = c.entries
  BY <1>5 DEF CacheType
<1> HIDE DEF w
<1>7. OnlyEntry(w, d, e) /\ d.entries[e] = Fresh BY <1>5, <1>6, FreshFacts, SetEntry
<1> HIDE DEF d
<1>8. Activated(c, d, e) /\ d.active = e /\ d.trans = c.trans /\ d.stack = c.stack
  BY <1>5, <1>6, <1>7 DEF OnlyEntry, Activated
<1> QED BY <1>4, <1>8

\* A DoLoop that holds nothing is about to use the entry.
LEMMA ActivateGood ==
    ASSUME CacheAssumption, NEW c, Good(c), c.active = NoEntry, NEW d \in CacheType, NEW e \in Entries,
           e \notin Live(c), d.active = e, d.tasks = c.tasks, d.backend = c.backend, Ready(c),
           d.entries[e] = Fresh, \A x \in Entries \ {e} : d.entries[x] = c.entries[x],
           NEW u \in Trans, NEW n, Kept(c, d, u, n), NewFrames(d, u, n),
           \A x \in Entries : u \notin Holders(c, x) /\ ~InSeq(u, QueueOf(c, x)),
           \A i \in 1..Len(c.stack) : i > n /\ c.stack[i].k = "run" => ~Found(c.stack[i]),
           n = 0 \/ c.backend = "memory",
           d.op = NoOp, Distinct(d.backend_queue, 0), TransOK(d, u), Finding(d, e),
           \A t \in Trans : PlacedOnce(d, t)
    PROVE  Good(d)
<1>1. c \in CacheType /\ Tasked(c) /\ Frames(c) BY DEF Good
<1>2. e # NoEntry BY DEF CacheAssumption, NoEntry
<1>3. d.entries[e] # Dead /\ e \in Live(d) BY FreshFacts DEF Live
<1>4. Holders(d, e) = {} BY <1>3, FreshFacts DEF Holders
<1>5. ASSUME NEW t PROVE ~InSeq(t, d.entries[e].pending_queue) BY FreshFacts, InEmpty
<1>6. Distinct(<<>>, 0) BY DEF Distinct, From
<1>7. LockOK(d, e) BY <1>4, <1>5, <1>6, FreshFacts DEF LockOK
<1>8. Holders(c, e) = {} BY DEF Holders, Live
<1>9. Entry(c, d, u, e, n) BY <1>7, <1>8 DEF Entry
<1>10. Others(c, d, u, e)
  <2>1. \A x \in Entries : c.active # x BY DEF CacheAssumption, NoEntry
  <2>2. \A x \in Entries : c.entries[x] # Dead => QueueOf(c, x) = c.entries[x].pending_queue BY DEF QueueOf
  <2> QED BY <2>1, <2>2 DEF Others
<1>11. Backed(c, d, n)
  <2>1. ASSUME NEW i \in 1..n, c.stack[i].k = "items" PROVE FALSE
    <3>1. n \in 0..Len(c.stack) /\ Len(c.stack) \in Nat BY <1>1, FieldTypes DEF Kept
    <3>2. n # 0 /\ i \in 1..Len(c.stack) BY <3>1
    <3>3. c.backend = "memory" BY <3>2
    <3>4. FrameOK(c, c.stack[i]) BY <1>1, <3>2 DEF Frames
    <3> QED BY <2>1, <3>3, <3>4 DEF FrameOK
  <2> QED BY <2>1 DEF Backed, Ready
<1>12. Disk(d) BY <1>3, FreshFacts DEF Disk, Ready
<1>13. Tasked(d)
  <2>1. \A x \in Entries : (d.entries[x] # Dead /\ d.entries[x].will_process) <=>
                           (c.entries[x] # Dead /\ c.entries[x].will_process)
    BY FreshFacts DEF Live
  <2> QED BY <1>1, <2>1 DEF Tasked
<1> QED BY <1>9, <1>10, <1>11, <1>12, <1>13, StepGood

\* The backend in memory answers at once.
LEMMA AnsweredGood ==
    ASSUME CacheAssumption, NEW c, Good(c), c.active = NoEntry, c.backend = "memory", c.op = NoOp,
           NEW op \in Ops, NEW u \in Trans, c.stack # <<>>, Runs(c, Len(c.stack), u),
           Top(c).s # "USE", ~Added(Top(c)), ~Found(Top(c)), NEW r \in BackendResults(c, op)
    PROVE  Good(AnsweredNow(c, op, u, r))
<1> DEFINE x == CompleteOp(c, Item(op, u), TRUE, r)
           s == Completed[op]
<1>1. c \in CacheType /\ Framed(c) /\ Ready(c) BY DEF Good, Ready
<1>2. Len(c.stack) \in Nat \ {0} /\ u # NoTrans BY <1>1, FieldTypes DEF CacheAssumption
<1>3. c.trans[u].st = "running" BY <1>1, <1>2 DEF Framed
<1>4. c.trans[u].entry = NoEntry
  <2>1. FrameOK(c, c.stack[Len(c.stack)]) BY <1>2 DEF Good, Frames
  <2> QED BY <2>1 DEF FrameOK, Runs, Top
<1>5. r \in {"OK", "ERR"} /\ (r = "OK" /\ op # "DOOM" => Live(c) # Entries) BY DEF BackendResults
<1>6. /\ s \in States /\ r \in Results /\ (s = "DOOM_COMPLETE" <=> op = "DOOM")
      /\ s \in {"OPEN_COMPLETE", "CREATE_COMPLETE", "DOOM_COMPLETE"}
  BY <1>5, CompletedIs DEF Ops, States, Results
<1>7. AnsweredNow(c, op, u, r) = Goto(IF op = "DOOM" THEN x ELSE WithNew(x, u, x.active), u, s, r)
  BY <1>2 DEF AnsweredNow
<1>8. CASE op = "DOOM" \/ r = "ERR"
  <2> DEFINE y == IF op = "DOOM" THEN x ELSE WithNew(x, u, x.active)
  <2>1. x \in CacheType /\ SameData(c, x) /\ x.trans = c.trans /\ x.stack = c.stack
    <3>1. x = c \/ x = SetDisk(c, FALSE) BY <1>5, <1>8 DEF CompleteOp, Item, SetDisk
    <3> HIDE DEF x
    <3>2. CASE x = c BY <1>1, <3>2 DEF SameData
    <3>3. CASE x = SetDisk(c, FALSE) BY <1>1, <3>3, SetDiskFacts
    <3> QED BY <3>1, <3>2, <3>3
  <2> HIDE DEF x
  <2>2. /\ y \in CacheType /\ SameData(c, y) /\ SameTrans(c, y, u) /\ y.stack = c.stack
        /\ y.trans[u].st = "running" /\ y.trans[u].entry = NoEntry
    <3>1. CASE op = "DOOM"
      <4>1. y = x BY <3>1
      <4> HIDE DEF y
      <4> QED BY <1>3, <1>4, <2>1, <4>1 DEF SameTrans
    <3>2. CASE op # "DOOM"
      <4>1. y = WithNew(x, u, x.active) BY <3>2
      <4> HIDE DEF y
      <4>2. x.active \in Addresses BY <2>1, FieldTypes DEF Addresses
      <4>3. Own(x, y, u) /\ y.trans[u].st = x.trans[u].st /\ y.trans[u].entry = x.trans[u].entry
        BY <2>1, <4>1, <4>2, WithNewFacts
      <4> QED BY <1>3, <1>4, <2>1, <4>3 DEF Own, SameData, SameTrans
    <3> QED BY <3>1, <3>2
  <2>3. AnsweredNow(c, op, u, r) = Goto(y, u, s, r) BY <1>7
  <2> HIDE DEF y, s
  <2>4. FrameOK(y, Run(u, s, r))
    <3>1. y.active = NoEntry /\ Ready(y) BY <1>1, <2>2 DEF SameData, Ready
    <3>2. ~Found(Run(u, s, r)) /\ ~Added(Run(u, s, r)) BY <1>6, <1>8, RunTypes DEF Found, Added
    <3> QED BY <1>6, <2>2, <3>1, <3>2, RunTypes DEF FrameOK
  <2>5. Good(Goto(y, u, s, r)) BY <1>6, <2>2, <2>4, PlainGo
  <2> QED BY <2>3, <2>5
<1>9. CASE op # "DOOM" /\ r = "OK"
  <2> DEFINE e == x.active
             y == WithNew(x, u, e)
             d == Goto(y, u, s, r)
             n == Len(c.stack) - 1
             f == Run(u, s, r)
  <2>1. Activated(c, x, e) /\ x.trans = c.trans /\ x.stack = c.stack
    <3>1. x = [ActivateEntry(c) EXCEPT !.disk = TRUE] BY <1>9 DEF CompleteOp, Item
    <3> QED BY <1>1, <1>5, <1>9, <3>1, ActivateFacts
  <2>2. AnsweredNow(c, op, u, r) = d BY <1>7, <1>9
  <2>3. e \in Entries /\ e \in Addresses /\ e # NoEntry
    BY <2>1 DEF Activated, Addresses, CacheAssumption, NoEntry
  <2> HIDE DEF x, s
  <2>4. /\ Own(x, y, u) /\ y.trans[u].st = x.trans[u].st /\ y.trans[u].new_entry = e
        /\ y.trans[u].entry = x.trans[u].entry
    BY <2>1, <2>3, WithNewFacts DEF Activated
  <2> HIDE DEF y
  <2>5. y \in CacheType /\ y.stack = c.stack BY <2>1, <2>4 DEF Own
  <2>6. /\ d \in CacheType /\ SameData(y, d) /\ d.trans = y.trans /\ Len(d.stack) = Len(c.stack)
        /\ d.stack[Len(c.stack)] = f /\ SameFrames(y, d, Len(c.stack) - 1)
    BY <1>6, <2>5, GotoFacts
  <2>7. f.k = "run" /\ f.t = u /\ f.s = s /\ f.rv = r /\ Found(f) BY <1>6, <1>9, RunTypes DEF Found
  <2> HIDE DEF d, f
  <2>8. /\ d.active = e /\ d.tasks = c.tasks /\ d.backend = c.backend /\ d.op = c.op
        /\ d.backend_queue = c.backend_queue /\ d.entries[e] = Fresh
        /\ \A z \in Entries \ {e} : d.entries[z] = c.entries[z]
    BY <2>1, <2>4, <2>6 DEF SameData, Own, Activated
  <2>9. SameTrans(c, d, u) /\ SameFrames(c, d, n)
    BY <2>1, <2>4, <2>5, <2>6 DEF SameTrans, SameFrames, Own
  <2>10. /\ d.trans[u].st = "running" /\ d.trans[u].entry = NoEntry /\ d.trans[u].new_entry = e
    BY <1>3, <1>4, <2>1, <2>4, <2>6
  <2>11. FrameOK(d, f)
    BY <1>6, <2>3, <2>7, <2>8, <2>10 DEF FrameOK, Missed, Found, Added, Ready
  <2>12. NextFrame(c, d, u) BY <2>6, <2>7, <2>9, <2>10, <2>11 DEF NextFrame, Runs
  <2>13. /\ NewFrames(d, u, n) /\ n <= Len(d.stack)
         /\ \A t : \A i \in 1..Len(d.stack) : i > n => ~Listed(d.stack[i], t)
    BY <1>2, <2>6, <2>12, NextFrameNew
  <2>14. Kept(c, d, u, n) BY <2>6, <2>9, <2>13, TopKept
  <2>15. \A i \in 1..Len(c.stack) : i > n => i = Len(c.stack) BY <1>2
  <2>16. \A z \in Entries : u \notin Holders(c, z) BY HoldsTop DEF Top
  <2>17. \A z \in Entries : ~InSeq(u, QueueOf(c, z)) BY <1>3, Nowhere
  <2>18. \A z \in Entries : QueueOf(d, z) = QueueOf(c, z)
    <3>1. QueueOf(d, e) = <<>> /\ QueueOf(c, e) = <<>>
      BY <2>1, <2>8, FreshFacts DEF QueueOf, Activated, Live
    <3> QED BY <2>8, <3>1 DEF QueueOf
  <2>19. ASSUME NEW t \in Trans PROVE PlacedOnce(d, t)
    <3>1. \A i \in 1..Len(c.stack) : i > n => ~Listed(c.stack[i], t) BY <2>15 DEF Listed, Runs
    <3>2. SamePlaces(c, d, t, n) BY <2>8, <2>13, <2>18, <3>1 DEF SamePlaces
    <3>3. PlacedOnce(c, t) /\ (d.trans[t].st = "pending" <=> c.trans[t].st = "pending")
      BY <1>3, <2>9, <2>10 DEF Good, SameTrans
    <3> QED BY <1>1, <2>6, <2>14, <3>2, <3>3, PlacedSame
  <2>20. \A i \in 1..Len(c.stack) : i > n /\ c.stack[i].k = "run" => ~Found(c.stack[i])
    BY <2>15 DEF Top
  <2>21. TransOK(d, u) BY <2>10 DEF TransOK
  <2>22. Finding(d, e)
    <3>1. Len(c.stack) \in 1..Len(d.stack) BY <1>2, <2>6
    <3> QED BY <2>6, <2>7, <2>10, <3>1 DEF Finding
  <2>23. e \notin Live(c) /\ Distinct(d.backend_queue, 0) /\ d.op = NoOp
    BY <2>1, <2>8 DEF Activated, Good, Disk
  <2> HIDE DEF n, e
  <2>24. Good(d)
    BY <1>1, <2>3, <2>6, <2>8, <2>13, <2>14, <2>16, <2>17, <2>19, <2>20, <2>21, <2>22, <2>23,
       ActivateGood
  <2> QED BY <2>2, <2>24
<1> QED BY <1>5, <1>8, <1>9

\* GetPendingOp and the call of the disk cache, for a DoLoop.
LEMMA StartOpGood ==
    ASSUME CacheAssumption, Good(cache), NEW t \in Trans, NEW s \in {"INIT_ENTRY", "CREATE_ENTRY"},
           At(t, s), cache.active = NoEntry, NEW op \in Ops, cache' \in StartOp(cache, op, t)
    PROVE  Good(cache')
<1>1. /\ cache.stack # <<>> /\ Runs(cache, Len(cache.stack), t) /\ Top(cache).s = s /\ Ready(cache)
  BY AtFacts
<1>2. Top(cache).s # "USE" /\ ~Added(Top(cache)) /\ ~Found(Top(cache)) BY <1>1 DEF Added, Found
<1>3. t # NoTrans BY DEF CacheAssumption
<1>4. CASE cache.backend = "disk" /\ cache' = Block(Waiting(cache, op, t), t, "pending")
  BY <1>1, <1>2, <1>4, WaitGood
<1>5. ASSUME cache.backend = "memory", cache.op = NoOp, NEW r \in BackendResults(cache, op),
             cache' = AnsweredNow(cache, op, t, r)
      PROVE  Good(cache')
  <2>1. Good(AnsweredNow(cache, op, t, r)) BY <1>1, <1>2, <1>5, AnsweredGood
  <2> QED BY <1>5, <2>1
<1> QED BY <1>1, <1>3, <1>4, <1>5, StartOpCases

LEMMA DoCreateEntryGood ==
    ASSUME CacheAssumption, Good(cache), NEW t \in Trans, DoCreateEntry(t)
    PROVE  Good(cache')
<1>1. At(t, "CREATE_ENTRY") /\ cache' \in StartOp(cache, "CREATE", t) BY DEF DoCreateEntry
<1>2. FrameOK(cache, Top(cache)) /\ Top(cache).k = "run" /\ Top(cache).s = "CREATE_ENTRY"
  BY <1>1, AtFacts
<1>3. cache.active = NoEntry BY <1>2 DEF FrameOK, Missed
<1>4. "CREATE" \in Ops BY DEF Ops
<1> QED BY <1>1, <1>3, <1>4, StartOpGood

LEMMA DoInitEntryGood ==
    ASSUME CacheAssumption, Good(cache), NEW t \in Trans, DoInitEntry(t)
    PROVE  Good(cache')
<1>1. At(t, "INIT_ENTRY") BY DEF DoInitEntry
<1>2. /\ cache \in CacheType /\ cache.stack # <<>> /\ Runs(cache, Len(cache.stack), t)
      /\ Top(cache).s = "INIT_ENTRY" /\ cache.trans[t].st = "running"
      /\ cache.trans[t].entry = NoEntry /\ Ready(cache) /\ SameTrans(cache, cache, t)
  BY <1>1, AtFacts
<1>3. Top(cache).s # "USE" /\ ~Added(Top(cache)) /\ ~Found(Top(cache)) BY <1>2 DEF Added, Found
<1>4. {"DOOM_COMPLETE", "OPEN_COMPLETE"} \subseteq States /\ "OK" \in Results /\ {"DOOM", "OPEN"} \subseteq Ops
  BY DEF States, Results, Ops
<1>5. CASE cache.active # NoEntry /\ cache' = Goto(DoomActiveEntry(cache), t, "DOOM_COMPLETE", "OK")
  <2> DEFINE x == DoomActiveEntry(cache)
  <2>1. /\ x \in CacheType /\ x.active = NoEntry /\ x.backend = cache.backend
        /\ x.trans = cache.trans /\ x.stack = cache.stack
    BY <1>5, DoomActiveFacts
  <2>2. Good(x) BY <1>2, <1>3, <1>5, DoomActiveGood
  <2> HIDE DEF x
  <2>3. FrameOK(x, Run(t, "DOOM_COMPLETE", "OK"))
    BY <1>2, <1>4, <2>1, RunTypes DEF FrameOK, Missed, Found, Added, Ready
  <2>4. /\ Runs(x, Len(x.stack), t) /\ Top(x) = Top(cache) /\ SameData(x, x) /\ SameTrans(x, x, t)
    BY <1>2, <2>1 DEF Runs, Top, SameData, SameTrans
  <2>5. Good(Goto(x, t, "DOOM_COMPLETE", "OK"))
    BY <1>2, <1>3, <1>4, <2>1, <2>2, <2>3, <2>4, PlainGo
  <2> QED BY <1>5, <2>5 DEF x
<1>6. CASE cache.active = NoEntry /\ cache' \in StartOp(cache, "DOOM", t)
  BY <1>1, <1>4, <1>6, StartOpGood
<1>7. CASE /\ cache.active # NoEntry
           /\ cache' = Goto([cache EXCEPT !.trans[t].new_entry = cache.active], t, "OPEN_COMPLETE", "OK")
  <2> DEFINE x == WithNew(cache, t, cache.active)
  <2>1. cache' = Goto(x, t, "OPEN_COMPLETE", "OK") BY <1>7 DEF WithNew
  <2>2. cache.active \in Addresses BY <1>2, FieldTypes DEF Addresses
  <2>3. /\ Own(cache, x, t) /\ x.trans[t].st = "running" /\ x.trans[t].entry = NoEntry
        /\ x.trans[t].new_entry = cache.active
    BY <1>2, <2>2, WithNewFacts
  <2> HIDE DEF x
  <2>4. x.active = cache.active /\ Ready(x) BY <1>2, <2>3 DEF Own, SameData, Ready
  <2>5. FrameOK(x, Run(t, "OPEN_COMPLETE", "OK"))
    BY <1>4, <1>7, <2>3, <2>4, RunTypes DEF FrameOK, Missed, Found, Added
  <2>6. Good(Goto(x, t, "OPEN_COMPLETE", "OK"))
    BY <1>2, <1>3, <1>4, <2>3, <2>5, PlainGo DEF Own
  <2> QED BY <2>1, <2>6
<1>8. CASE cache.active = NoEntry /\ cache' \in StartOp(cache, "OPEN", t)
  BY <1>1, <1>4, <1>8, StartOpGood
<1> QED BY <1>5, <1>6, <1>7, <1>8 DEF DoInitEntry

-----------------------------------------------------------------------------
(* Changes of the lock of an entry.                                        *)

\* Only e and the tasks are new, and e stays alive.
AtEntry(c, d, e) ==
    /\ d \in CacheType /\ d.active = c.active /\ d.op = c.op /\ d.backend = c.backend
    /\ d.backend_queue = c.backend_queue /\ \A x \in Entries \ {e} : d.entries[x] = c.entries[x]
    /\ d.entries[e] \in EntryType /\ (d.entries[e].doomed <=> c.entries[e].doomed)

LEMMA EntryGood ==
    ASSUME CacheAssumption, NEW c, Good(c), NEW d, NEW e \in Live(c), AtEntry(c, d, e),
           NEW u, NEW n, Kept(c, d, u, n), NewFrames(d, u, n), u \in Trans => TransOK(d, u),
           \A x \in Entries \ {e} : u \notin Holders(c, x) /\ ~InSeq(u, QueueOf(c, x)),
           \A i \in 1..Len(c.stack) :
                i > n /\ c.stack[i].k = "run" /\ Found(c.stack[i]) => c.trans[u].new_entry = e,
           \A t \in Trans \ {u} : t \in Holders(c, e) => t \in Holders(d, e),
           LockOK(d, e), Tasked(d), \A t \in Trans : PlacedOnce(d, t)
    PROVE  Good(d)
<1>1. c \in CacheType /\ Disk(c) BY DEF Good
<1>2. e \in Entries /\ c.entries[e] # Dead /\ d.entries[e] # Dead BY Shapes DEF Live, AtEntry
<1>3. Live(d) = Live(c) BY <1>2 DEF Live, AtEntry
<1>4. \A x \in Entries : c.entries[x] # Dead => QueueOf(c, x) = c.entries[x].pending_queue
  BY DEF QueueOf
<1>5. Others(c, d, u, e) BY <1>4 DEF Others, AtEntry
<1>6. Entry(c, d, u, e, n) BY DEF Entry
<1>7. Backed(c, d, n) BY DEF Backed, AtEntry, Ready
<1>8. Disk(d)
  <2>1. c.active # NoEntry => d.entries[c.active] # Dead /\ ~d.entries[c.active].doomed
    <3>1. CASE c.active = e BY <1>1, <1>2, <3>1 DEF Disk, AtEntry
    <3>2. CASE c.active # e BY <1>1, <3>2, FieldTypes DEF Disk, AtEntry
    <3> QED BY <3>1, <3>2
  <2> QED BY <1>1, <1>3, <2>1 DEF Disk, AtEntry, Ready
<1>9. d \in CacheType BY DEF AtEntry
<1> QED BY <1>5, <1>6, <1>7, <1>8, <1>9, StepGood

\* Nobody moves if the queue of e stays and the frames that come and go list nobody.
LEMMA EntryPlaces ==
    ASSUME NEW c, Good(c), NEW d, NEW e \in Live(c), AtEntry(c, d, e), NEW u, NEW n, Kept(c, d, u, n),
           d.entries[e].pending_queue = c.entries[e].pending_queue,
           \A t \in Trans : \A i \in 1..Len(c.stack) : i > n => ~Listed(c.stack[i], t),
           \A t \in Trans : \A i \in 1..Len(d.stack) : i > n => ~Listed(d.stack[i], t),
           u \in Trans => c.trans[u].st # "pending" /\ d.trans[u].st # "pending"
    PROVE  \A t \in Trans : PlacedOnce(d, t)
<1>1. c \in CacheType /\ d \in CacheType BY DEF Good, AtEntry
<1>2. e \in Entries /\ c.entries[e] # Dead /\ d.entries[e] # Dead BY Shapes DEF Live, AtEntry
<1>3. \A x \in Entries : QueueOf(d, x) = QueueOf(c, x) BY <1>2 DEF QueueOf, AtEntry
<1> SUFFICES ASSUME NEW t \in Trans PROVE PlacedOnce(d, t) OBVIOUS
<1>4. SamePlaces(c, d, t, n) BY <1>3 DEF SamePlaces, AtEntry
<1>5. PlacedOnce(c, t) BY DEF Good
<1>6. d.trans[t].st = "pending" <=> c.trans[t].st = "pending" BY DEF Kept
<1> QED BY <1>1, <1>4, <1>5, <1>6, PlacedSame

\* The others that hold e use it.
LEMMA OthersUse ==
    ASSUME CacheAssumption, NEW c, Good(c), NEW d, NEW e \in Live(c), NEW u, NEW n, Kept(c, d, u, n),
           NEW t \in Trans, t # u, t \in Holders(c, e)
    PROVE  /\ c.trans[t].entry = e /\ d.trans[t] = c.trans[t]
           /\ CanWrite(c.trans[t].mode) <=> c.entries[e].writer = t
<1>1. c \in CacheType /\ LockOK(c, e) /\ e \in Entries BY DEF Good, Live
<1>2. d.trans[t] = c.trans[t] BY DEF Kept
<1>3. c.trans[t].entry = e
  <2> SUFFICES ASSUME Adding(c, e, t) PROVE FALSE BY <1>1 DEF LockOK
  <2>1. PICK i \in 1..Len(c.stack) : Runs(c, i, t) /\ Added(c.stack[i]) BY DEF Adding
  <2>2. i \in 1..n BY <1>1, <2>1, FieldTypes DEF Kept, Runs
  <2> QED BY <2>1, <2>2 DEF Kept, Runs, Added, Quiet
<1>4. c.entries[e] # Dead BY DEF Live
<1>5. CanWrite(c.trans[t].mode) <=> c.entries[e].writer = t
  BY <1>1, <1>4 DEF LockOK, Holders, CacheAssumption
<1> QED BY <1>2, <1>3, <1>5

\* The tasks, when the flag of the entry stays, and when a task is posted.
LEMMA TaskedSame ==
    ASSUME NEW c \in CacheType, Tasked(c), NEW e \in Entries, c.entries[e] # Dead, NEW d,
           d.tasks = c.tasks, \A x \in Entries \ {e} : d.entries[x] = c.entries[x],
           d.entries[e] # Dead, d.entries[e].will_process <=> c.entries[e].will_process
    PROVE  Tasked(d)
<1>1. \A x \in Entries : (d.entries[x] # Dead /\ d.entries[x].will_process) <=>
                         (c.entries[x] # Dead /\ c.entries[x].will_process)
  OBVIOUS
<1> QED BY <1>1 DEF Tasked

SetTasks(c, q) == [c EXCEPT !.tasks = q]

LEMMA ProcessFacts ==
    ASSUME NEW c \in CacheType, Tasked(c), NEW e \in Entries, c.entries[e] \in EntryType
    PROVE  LET d == ProcessPendingQueue(c, e)
           IN  /\ AtEntry(c, d, e) /\ d.trans = c.trans /\ d.stack = c.stack /\ Tasked(d)
               /\ d.entries[e].will_process /\ ButProcess(d.entries[e], c.entries[e])
<1>1. CASE c.entries[e].will_process
  <2>1. ProcessPendingQueue(c, e) = c BY <1>1 DEF ProcessPendingQueue
  <2> QED BY <1>1, <2>1 DEF AtEntry, ButProcess
<1>2. CASE ~c.entries[e].will_process
  <2> DEFINE x == SetProcess(c, e, TRUE)
             q == Append(c.tasks, e)
             d == [x EXCEPT !.tasks = q]
  <2>1. TRUE \in BOOLEAN OBVIOUS
  <2>2. /\ OnlyEntry(c, x, e) /\ x.entries[e] \in EntryType /\ x.entries[e].will_process = TRUE
        /\ ButProcess(x.entries[e], c.entries[e])
    BY <2>1, SetProcessFacts
  <2>3. ProcessPendingQueue(c, e) = d
    <3>1. ProcessPendingQueue(c, e) = [c EXCEPT !.entries[e].will_process = TRUE, !.tasks = Append(@, e)]
      BY <1>2 DEF ProcessPendingQueue
    <3>2. x.tasks = c.tasks BY <2>2 DEF OnlyEntry
    <3> QED BY <3>1, <3>2 DEF SetProcess
  <2>4. /\ q \in Seq(Entries) /\ Distinct(q, 0) /\ \A t : InSeq(t, q) <=> InSeq(t, c.tasks) \/ t = e
    <3>1. c.tasks \in Seq(Entries) /\ ~InSeq(e, c.tasks) /\ Distinct(c.tasks, 0)
      BY <1>2, FieldTypes DEF Tasked
    <3> QED BY <3>1, AppendQueue
  <2> HIDE DEF x, q
  <2>5. /\ d \in CacheType /\ d.active = x.active /\ d.entries = x.entries /\ d.op = x.op
        /\ d.backend = x.backend /\ d.backend_queue = x.backend_queue /\ d.tasks = q
        /\ d.trans = x.trans /\ d.stack = x.stack
    BY <2>2, <2>4 DEF OnlyEntry, CacheType
  <2> HIDE DEF d
  <2>6. AtEntry(c, d, e) /\ d.trans = c.trans /\ d.stack = c.stack
    BY <2>2, <2>5 DEF OnlyEntry, AtEntry, ButProcess
  <2>7. d.entries[e].will_process /\ ButProcess(d.entries[e], c.entries[e]) BY <2>2, <2>5
  <2>8. \A y \in Entries : (d.entries[y] # Dead /\ d.entries[y].will_process) <=>
                           (c.entries[y] # Dead /\ c.entries[y].will_process) \/ y = e
    <3>1. d.entries[e] # Dead BY <2>6, Shapes DEF AtEntry
    <3> QED BY <2>6, <2>7, <3>1 DEF AtEntry
  <2>9. Tasked(d) BY <2>4, <2>5, <2>8 DEF Tasked
  <2> QED BY <2>3, <2>6, <2>7, <2>9
<1> QED BY <1>1, <1>2

\* u gives back its lock of e, and the queue will be processed.
LEMMA ReleaseGood ==
    ASSUME CacheAssumption, NEW c, Good(c), NEW u \in Trans, NEW e \in Live(c), c.trans[u].entry = e,
           NEW d, AtEntry(c, d, e), d.entries[e].pending_queue = c.entries[e].pending_queue,
           d.entries[e].writer = NoTrans, d.entries[e].readers = c.entries[e].readers \ {u},
           d.entries[e].will_process, Tasked(d),
           NEW n, Kept(c, d, u, n), NewFrames(d, u, n), TransOK(d, u), d.trans[u].entry = NoEntry,
           c.trans[u].st # "pending", d.trans[u].st # "pending", c.entries[e].writer \in {u, NoTrans},
           \A t \in Trans : \A i \in 1..Len(c.stack) : i > n => ~Listed(c.stack[i], t),
           \A t \in Trans : \A i \in 1..Len(d.stack) : i > n => ~Listed(d.stack[i], t),
           \A i \in 1..Len(c.stack) : i > n /\ c.stack[i].k = "run" => ~Found(c.stack[i])
    PROVE  Good(d)
<1>1. c \in CacheType /\ d \in CacheType /\ LockOK(c, e) /\ e \in Entries BY DEF Good, Live, AtEntry
<1>2. c.entries[e] # Dead /\ d.entries[e] # Dead BY Shapes DEF Live, AtEntry
<1>3. c.entries[e].readers \subseteq Trans BY <1>1, EntryTypes
<1>4. /\ Holders(d, e) = c.entries[e].readers \ {u}
      /\ \A t : t \in Holders(c, e) => t = u \/ t \in c.entries[e].readers
      /\ \A t \in c.entries[e].readers : t \in Holders(c, e)
  BY <1>2 DEF Holders
<1>5. \A t \in Holders(d, e) : /\ t \in Trans /\ d.trans[t].entry = e /\ d.trans[t] = c.trans[t]
                               /\ ~CanWrite(d.trans[t].mode)
  <2> SUFFICES ASSUME NEW t \in Holders(d, e)
               PROVE  /\ t \in Trans /\ d.trans[t].entry = e /\ d.trans[t] = c.trans[t]
                      /\ ~CanWrite(d.trans[t].mode)
    OBVIOUS
  <2>1. t \in Trans /\ t # u /\ t \in Holders(c, e) /\ t \in c.entries[e].readers BY <1>3, <1>4
  <2>2. c.trans[t].entry = e /\ d.trans[t] = c.trans[t] BY <2>1, OthersUse
  <2>3. ~CanWrite(c.trans[t].mode) BY <1>1, <2>1 DEF LockOK
  <2> QED BY <2>1, <2>2, <2>3
<1>6. ASSUME NEW t \in Trans, InSeq(t, d.entries[e].pending_queue) PROVE d.trans[t].new_entry = e
  <2>1. InSeq(t, QueueOf(c, e)) BY <1>2, <1>6 DEF QueueOf
  <2>2. t # u BY <1>1, <2>1, Nowhere
  <2> QED BY <1>1, <1>6, <2>2 DEF LockOK, Kept
<1>7. LockOK(d, e)
  <2>1. ~d.entries[e].doomed => d.active = e BY <1>1 DEF LockOK, AtEntry
  <2>2. Distinct(d.entries[e].pending_queue, 0) BY <1>1 DEF LockOK
  <2>3. \A t \in d.entries[e].readers : ~CanWrite(d.trans[t].mode) BY <1>4, <1>5
  <2> QED BY <1>5, <1>6, <2>1, <2>2, <2>3 DEF LockOK
<1>8. \A t \in Trans : PlacedOnce(d, t) BY EntryPlaces
<1>9. \A x \in Entries \ {e} : u \notin Holders(c, x) /\ ~InSeq(u, QueueOf(c, x))
  <2>1. \A x \in Entries : ~InSeq(u, QueueOf(c, x)) BY Nowhere
  <2>2. e # NoEntry BY <1>1 DEF CacheAssumption, NoEntry
  <2> QED BY <2>1, <2>2, HoldsWhat
<1>10. \A t \in Trans \ {u} : t \in Holders(c, e) => t \in Holders(d, e) BY <1>4
<1> QED BY <1>7, <1>8, <1>9, <1>10, EntryGood

\* Who uses an entry to write is its writer, and who reads is one of its readers.
LEMMA UsesEntry ==
    ASSUME CacheAssumption, NEW c, Good(c), NEW u \in Trans, c.trans[u].entry # NoEntry
    PROVE  LET e == c.trans[u].entry IN
           /\ e \in Live(c) /\ e \in Entries /\ c.entries[e] \in EntryType /\ LockOK(c, e)
           /\ \A x \in Entries \ {e} : u \notin Holders(c, x)
           /\ CanWrite(c.trans[u].mode) => /\ c.entries[e].writer = u /\ c.entries[e].readers = {}
                                           /\ ~c.entries[e].will_process
           /\ ~CanWrite(c.trans[u].mode) => u \in c.entries[e].readers /\ c.entries[e].writer = NoTrans
<1> DEFINE e == c.trans[u].entry
<1>1. c \in CacheType BY DEF Good
<1>2. e \in Entries BY <1>1, TransTypes
<1>3. u \in Holders(c, e) BY DEF Good, TransOK
<1>4. c.entries[e] # Dead /\ c.entries[e] \in EntryType BY <1>1, <1>2, <1>3, EntryTypes DEF Holders
<1>5. e \in Live(c) BY <1>2, <1>4 DEF Live
<1>6. LockOK(c, e) BY <1>5 DEF Good
<1>7. u \in c.entries[e].readers \/ c.entries[e].writer = u BY <1>3, <1>4 DEF Holders
<1>8. u # NoTrans BY DEF CacheAssumption
<1>9. \A x \in Entries \ {e} : u \notin Holders(c, x) BY HoldsWhat
<1> HIDE DEF e
<1>10. CanWrite(c.trans[u].mode) => /\ c.entries[e].writer = u /\ c.entries[e].readers = {}
                                    /\ ~c.entries[e].will_process
  BY <1>6, <1>7, <1>8 DEF LockOK
<1>11. ~CanWrite(c.trans[u].mode) => u \in c.entries[e].readers /\ c.entries[e].writer = NoTrans
  BY <1>6, <1>7, <1>8 DEF LockOK
<1> QED BY <1>2, <1>4, <1>5, <1>6, <1>9, <1>10, <1>11 DEF e

LEMMA DoneWritingFacts ==
    ASSUME NEW c \in CacheType, Tasked(c), NEW e \in Entries, c.entries[e] \in EntryType,
           c.entries[e].readers = {}
    PROVE  LET d == DoneWritingToEntry(c, e, TRUE)
           IN  /\ AtEntry(c, d, e) /\ d.trans = c.trans /\ d.stack = c.stack /\ Tasked(d)
               /\ d.entries[e].writer = NoTrans /\ d.entries[e].readers = {}
               /\ d.entries[e].pending_queue = c.entries[e].pending_queue /\ d.entries[e].will_process
<1> DEFINE x == SetWriter(c, e, NoTrans)
           d == ProcessPendingQueue(x, e)
<1>1. NoTrans \in Lockers BY DEF Lockers
<1>2. /\ OnlyEntry(c, x, e) /\ x.entries[e] \in EntryType /\ x.entries[e].writer = NoTrans
      /\ ButWriter(x.entries[e], c.entries[e])
  BY <1>1, SetWriterFacts
<1>3. DoneWritingToEntry(c, e, TRUE) = d
  <2>1. Fail(c, "done_writing", c.entries[e].readers = {}) = c BY DEF Fail
  <2> QED BY <2>1 DEF DoneWritingToEntry, SetWriter
<1> HIDE DEF x
<1>4. Tasked(x)
  <2>1. c.entries[e] # Dead /\ x.entries[e] # Dead BY <1>2, Shapes
  <2> QED BY <1>2, <2>1, TaskedSame DEF OnlyEntry, ButWriter
<1>5. /\ AtEntry(x, d, e) /\ d.trans = x.trans /\ d.stack = x.stack /\ Tasked(d)
      /\ d.entries[e].will_process /\ ButProcess(d.entries[e], x.entries[e])
  BY <1>2, <1>4, ProcessFacts DEF OnlyEntry
<1> HIDE DEF d
<1>6. AtEntry(c, d, e) BY <1>2, <1>5 DEF AtEntry, OnlyEntry, ButWriter
<1> QED BY <1>2, <1>3, <1>5, <1>6 DEF OnlyEntry, ButWriter, ButProcess

LEMMA DoneReadingFacts ==
    ASSUME NEW c \in CacheType, Tasked(c), NEW e \in Entries, c.entries[e] \in EntryType,
           NEW t \in Trans, c.entries[e].writer = NoTrans, t \in c.entries[e].readers
    PROVE  LET d == DoneReadingFromEntry(c, e, t)
           IN  /\ AtEntry(c, d, e) /\ d.trans = c.trans /\ d.stack = c.stack /\ Tasked(d)
               /\ d.entries[e].writer = NoTrans /\ d.entries[e].readers = c.entries[e].readers \ {t}
               /\ d.entries[e].pending_queue = c.entries[e].pending_queue /\ d.entries[e].will_process
<1> DEFINE R == c.entries[e].readers \ {t}
           x == SetReaders(c, e, R)
           d == ProcessPendingQueue(x, e)
<1>1. R \in SUBSET Trans BY DEF EntryType
<1> HIDE DEF R
<1>2. /\ OnlyEntry(c, x, e) /\ x.entries[e] \in EntryType /\ x.entries[e].readers = R
      /\ ButReaders(x.entries[e], c.entries[e])
  BY <1>1, SetReadersFacts
<1>3. DoneReadingFromEntry(c, e, t) = d
  <2>1. Fail(c, "done_reading", c.entries[e].writer = NoTrans /\ t \in c.entries[e].readers) = c
    BY DEF Fail
  <2> QED BY <2>1 DEF DoneReadingFromEntry, SetReaders, R
<1> HIDE DEF x
<1>4. Tasked(x)
  <2>1. c.entries[e] # Dead /\ x.entries[e] # Dead BY <1>2, Shapes
  <2> QED BY <1>2, <2>1, TaskedSame DEF OnlyEntry, ButReaders
<1>5. /\ AtEntry(x, d, e) /\ d.trans = x.trans /\ d.stack = x.stack /\ Tasked(d)
      /\ d.entries[e].will_process /\ ButProcess(d.entries[e], x.entries[e])
  BY <1>2, <1>4, ProcessFacts DEF OnlyEntry
<1> HIDE DEF d
<1>6. AtEntry(c, d, e) BY <1>2, <1>5 DEF AtEntry, OnlyEntry, ButReaders
<1> QED BY <1>2, <1>3, <1>5, <1>6 DEF OnlyEntry, ButReaders, ButProcess, R

\* A DoLoop gives up its entry, and goes on without the cache or starts over.
Quits(c, x, t) ==
    /\ x \in CacheType /\ SameData(c, x) /\ SameTrans(c, x, t)
    /\ x.trans[t].st = c.trans[t].st /\ x.trans[t].entry = NoEntry
    /\ Len(x.stack) = Len(c.stack) /\ SameFrames(c, x, Len(c.stack) - 1)
    /\ \E s \in Quiet : x.stack[Len(c.stack)] = Run(t, s, "OK")

LEMMA QuitsFacts ==
    ASSUME NEW c \in CacheType, c.stack # <<>>, NEW t \in Trans, NEW x,
           \/ x = PassThrough(c, t)
           \/ x = Goto([c EXCEPT !.trans[t].entry = NoEntry, !.trans[t].mode = "WRITE"],
                       t, "INIT_ENTRY", "OK")
    PROVE  Quits(c, x, t)
<1>1. {"PASS", "INIT_ENTRY"} \subseteq Quiet /\ Quiet \subseteq States /\ "OK" \in Results
  BY DEF Quiet, States, Results
<1>2. {"NONE", "WRITE"} \subseteq ModeNames BY DEF ModeNames
<1>3. ASSUME NEW y, NEW s \in Quiet, NEW m \in ModeNames, y \in {WithBoth(c, t, m), WithNone(c, t, m)},
             x = Goto(y, t, s, "OK")
      PROVE  Quits(c, x, t)
  <2>1. Own(c, y, t) /\ y.trans[t].st = c.trans[t].st /\ y.trans[t].entry = NoEntry
    BY <1>3, WithBothFacts
  <2>2. y \in CacheType /\ y.stack = c.stack BY <2>1 DEF Own
  <2>3. /\ x \in CacheType /\ SameData(y, x) /\ x.trans = y.trans
        /\ Len(x.stack) = Len(y.stack) /\ x.stack[Len(y.stack)] = Run(t, s, "OK")
        /\ SameFrames(y, x, Len(y.stack) - 1)
    BY <1>1, <1>3, <2>2, GotoFacts
  <2>4. SameData(c, x) /\ SameTrans(c, x, t) BY <2>1, <2>3 DEF SameData, SameTrans, Own
  <2>5. SameFrames(c, x, Len(c.stack) - 1) BY <2>2, <2>3 DEF SameFrames
  <2> QED BY <2>1, <2>2, <2>3, <2>4, <2>5 DEF Quits
<1>4. CASE x = PassThrough(c, t)
  <2> DEFINE y == WithBoth(c, t, "NONE")
  <2>1. x = Goto(y, t, "PASS", "OK") BY <1>4 DEF PassThrough, WithBoth, WithEntry, WithMode
  <2> HIDE DEF y
  <2> QED BY <1>1, <1>2, <1>3, <2>1 DEF y
<1>5. CASE x = Goto([c EXCEPT !.trans[t].entry = NoEntry, !.trans[t].mode = "WRITE"],
                    t, "INIT_ENTRY", "OK")
  <2> DEFINE y == WithNone(c, t, "WRITE")
  <2>1. x = Goto(y, t, "INIT_ENTRY", "OK") BY <1>5 DEF WithNone, WithEntry, WithMode
  <2> HIDE DEF y
  <2> QED BY <1>1, <1>2, <1>3, <2>1 DEF y
<1> QED BY <1>4, <1>5

\* The writer of an entry is done with it.
LEMMA DoneWritingGood ==
    ASSUME CacheAssumption, NEW c, Good(c), Ready(c), NEW u \in Trans, c.stack # <<>>,
           Runs(c, Len(c.stack), u), Top(c).s = "USE", CanWrite(c.trans[u].mode),
           NEW x, Quits(c, x, u)
    PROVE  Good(DoneWritingToEntry(x, c.trans[u].entry, TRUE))
<1> DEFINE e == c.trans[u].entry
           d == DoneWritingToEntry(x, e, TRUE)
           n == Len(c.stack) - 1
<1>1. c \in CacheType /\ Framed(c) /\ Tasked(c) BY DEF Good
<1>2. Len(c.stack) \in Nat \ {0} BY <1>1, FieldTypes
<1>3. c.trans[u].st = "running" BY <1>1, <1>2 DEF Framed
<1>4. e # NoEntry
  <2>1. FrameOK(c, c.stack[Len(c.stack)]) BY <1>2 DEF Good, Frames
  <2> QED BY <2>1 DEF FrameOK, Runs, Top
<1>5. /\ e \in Live(c) /\ e \in Entries /\ c.entries[e] \in EntryType
      /\ c.entries[e].writer = u /\ c.entries[e].readers = {}
  BY <1>4, UsesEntry
<1> HIDE DEF e
<1>6. x \in CacheType /\ SameData(c, x) BY DEF Quits
<1>7. Tasked(x) BY <1>1, <1>6 DEF SameData, Tasked
<1>8. x.entries[e] = c.entries[e] BY <1>6 DEF SameData
<1>9. /\ AtEntry(x, d, e) /\ d.trans = x.trans /\ d.stack = x.stack /\ Tasked(d)
      /\ d.entries[e].writer = NoTrans /\ d.entries[e].readers = {}
      /\ d.entries[e].pending_queue = x.entries[e].pending_queue /\ d.entries[e].will_process
  BY <1>5, <1>6, <1>7, <1>8, DoneWritingFacts
<1> HIDE DEF d
<1>10. AtEntry(c, d, e) BY <1>6, <1>9 DEF AtEntry, SameData
<1>11. d \in CacheType BY <1>10 DEF AtEntry
<1>12. /\ SameTrans(c, d, u) /\ d.trans[u].st = "running" /\ d.trans[u].entry = NoEntry
       /\ Len(d.stack) = Len(c.stack) /\ SameFrames(c, d, n)
  BY <1>3, <1>9 DEF Quits, SameTrans, SameFrames
<1>13. PICK s \in Quiet : d.stack[Len(c.stack)] = Run(u, s, "OK") BY <1>9 DEF Quits
<1>14. Ready(d) BY <1>10 DEF AtEntry, Ready
<1>15. "OK" \in Results /\ s \in States BY DEF Results, Quiet, States
<1>16. FrameOK(d, Run(u, s, "OK")) BY <1>12, <1>14, <1>15, QuietOK
<1>17. NextFrame(c, d, u) BY <1>12, <1>13, <1>15, <1>16, RunTypes DEF NextFrame, Runs
<1>18. /\ NewFrames(d, u, n) /\ n <= Len(d.stack)
       /\ \A t : \A i \in 1..Len(d.stack) : i > n => ~Listed(d.stack[i], t)
  BY <1>2, <1>11, <1>17, NextFrameNew
<1>19. Kept(c, d, u, n) BY <1>11, <1>12, <1>18, TopKept
<1>20. \A i \in 1..Len(c.stack) : i > n => i = Len(c.stack) BY <1>2
<1>21. /\ \A t \in Trans : \A i \in 1..Len(c.stack) : i > n => ~Listed(c.stack[i], t)
       /\ \A i \in 1..Len(c.stack) : i > n /\ c.stack[i].k = "run" => ~Found(c.stack[i])
  BY <1>20 DEF Listed, Runs, Found, Top
<1>22. TransOK(d, u) BY <1>12 DEF TransOK
<1>23. d.entries[e].readers = c.entries[e].readers \ {u} BY <1>5, <1>9
<1>24. d.entries[e].pending_queue = c.entries[e].pending_queue /\ c.trans[u].entry = e BY <1>8, <1>9 DEF e
<1> HIDE DEF n
<1>25. Good(d)
  BY <1>3, <1>5, <1>9, <1>10, <1>12, <1>18, <1>19, <1>21, <1>22, <1>23, <1>24, ReleaseGood
<1> QED BY <1>25 DEF d, e

\* A reader of an entry is done with it, and with the cache.
LEMMA DoneReadingGood ==
    ASSUME CacheAssumption, Good(cache), NEW u \in Trans, DoneReading(u)
    PROVE  Good(cache')
<1> DEFINE c == cache
           e == c.trans[u].entry
           x == DoneReadingFromEntry(c, e, u)
           d == Leave(x, u)
           n == Len(c.stack) - 1
<1>1. At(u, "USE") /\ c.trans[u].mode = "READ" /\ cache' = d BY DEF DoneReading, Mode
<1>2. /\ c \in CacheType /\ c.stack # <<>> /\ Runs(c, Len(c.stack), u) /\ Top(c).s = "USE"
      /\ c.trans[u].st = "running" /\ e # NoEntry
  BY <1>1, AtFacts
<1>3. Len(c.stack) \in Nat \ {0} /\ Tasked(c) BY <1>2, FieldTypes DEF Good
<1>4. ~CanWrite(c.trans[u].mode) BY <1>1 DEF CanWrite
<1>5. /\ e \in Live(c) /\ e \in Entries /\ c.entries[e] \in EntryType
      /\ u \in c.entries[e].readers /\ c.entries[e].writer = NoTrans
  BY <1>2, <1>4, UsesEntry
<1> HIDE DEF e, c
<1>6. /\ AtEntry(c, x, e) /\ x.trans = c.trans /\ x.stack = c.stack /\ Tasked(x)
      /\ x.entries[e].writer = NoTrans /\ x.entries[e].readers = c.entries[e].readers \ {u}
      /\ x.entries[e].pending_queue = c.entries[e].pending_queue /\ x.entries[e].will_process
  BY <1>2, <1>3, <1>5, DoneReadingFacts
<1> HIDE DEF x
<1>7. x \in CacheType /\ x.stack # <<>> BY <1>2, <1>6 DEF AtEntry
<1>8. /\ d \in CacheType /\ SameData(x, d) /\ SameTrans(x, d, u) /\ d.trans[u] = Gone /\ Ended(x, d)
  BY <1>7, LeaveFacts
<1> HIDE DEF d
<1>9. AtEntry(c, d, e) BY <1>6, <1>8 DEF AtEntry, SameData
<1>10. /\ d.entries[e].writer = NoTrans /\ d.entries[e].readers = c.entries[e].readers \ {u}
       /\ d.entries[e].pending_queue = c.entries[e].pending_queue /\ d.entries[e].will_process
  BY <1>6, <1>8 DEF SameData
<1>11. Tasked(d) BY <1>6, <1>8 DEF SameData, Tasked
<1>12. SameTrans(c, d, u) /\ Ended(c, d) BY <1>6, <1>8 DEF SameTrans, Ended, SameFrames
<1>13. Gone.st = "free" /\ Gone.entry = NoEntry BY DEF Gone
<1>14. NextFrame(c, d, u) BY <1>8, <1>12, <1>13 DEF NextFrame, Ended
<1>15. /\ NewFrames(d, u, n) /\ n <= Len(d.stack)
       /\ \A t : \A i \in 1..Len(d.stack) : i > n => ~Listed(d.stack[i], t)
  BY <1>3, <1>8, <1>14, NextFrameNew
<1>16. Kept(c, d, u, n)
  <2>1. Good(c) BY DEF c
  <2> QED BY <1>2, <1>8, <1>12, <1>15, <2>1, TopKept DEF Ended
<1>17. \A i \in 1..Len(c.stack) : i > n => i = Len(c.stack) BY <1>3
<1>18. /\ \A t \in Trans : \A i \in 1..Len(c.stack) : i > n => ~Listed(c.stack[i], t)
       /\ \A i \in 1..Len(c.stack) : i > n /\ c.stack[i].k = "run" => ~Found(c.stack[i])
  BY <1>2, <1>17 DEF Listed, Runs, Found, Top
<1>19. TransOK(d, u) /\ d.trans[u].entry = NoEntry /\ d.trans[u].st # "pending" BY <1>8, <1>13 DEF TransOK
<1>20. c.trans[u].entry = e /\ c.trans[u].st # "pending" /\ Good(c) BY <1>2 DEF e, c
<1> HIDE DEF n
<1>21. Good(d)
  BY <1>5, <1>9, <1>10, <1>11, <1>15, <1>16, <1>18, <1>19, <1>20, ReleaseGood
<1> QED BY <1>1, <1>21

-----------------------------------------------------------------------------
(* Destroying an entry.                                                    *)

Destroyed(c, d, e) ==
    /\ d \in CacheType /\ d.entries[e] = Dead /\ d.op = c.op /\ d.backend = c.backend
    /\ d.backend_queue = c.backend_queue /\ \A x \in Entries \ {e} : d.entries[x] = c.entries[x]
    /\ d.active = IF c.entries[e].doomed THEN c.active ELSE NoEntry

LEMMA DestroyFacts ==
    ASSUME NEW c \in CacheType, NEW e \in Entries, c.entries[e] \in EntryType,
           c.entries[e].writer = NoTrans, c.entries[e].readers = {},
           c.entries[e].pending_queue = <<>>, ~c.entries[e].will_process
    PROVE  LET d == DestroyEntry(c, e)
           IN  /\ Destroyed(c, d, e) /\ d.tasks = c.tasks /\ d.trans = c.trans /\ d.stack = c.stack
<1> DEFINE a == IF c.entries[e].doomed THEN c.active ELSE NoEntry
           x == [c EXCEPT !.entries[e] = Dead]
           d == [x EXCEPT !.active = a]
<1>1. Dead \in EntryType \cup {Dead} OBVIOUS
<1>2. OnlyEntry(c, x, e) /\ x.entries[e] = Dead BY <1>1, SetEntry
<1>3. DestroyEntry(c, e) = d
  <2>1. Fail(c, "destroy", /\ c.entries[e].writer = NoTrans /\ c.entries[e].readers = {}
                           /\ c.entries[e].pending_queue = <<>> /\ ~c.entries[e].will_process) = c
    BY DEF Fail
  <2>2. c.active = x.active BY <1>2 DEF OnlyEntry
  <2> QED BY <2>1, <2>2 DEF DestroyEntry
<1>4. a \in Entries \cup {NoEntry} BY FieldTypes
<1> HIDE DEF x, a
<1>5. /\ d \in CacheType /\ d.active = a /\ d.entries = x.entries /\ d.op = x.op
      /\ d.backend = x.backend /\ d.backend_queue = x.backend_queue /\ d.tasks = x.tasks
      /\ d.trans = x.trans /\ d.stack = x.stack
  BY <1>2, <1>4 DEF OnlyEntry, CacheType
<1> HIDE DEF d
<1> QED BY <1>2, <1>3, <1>5 DEF OnlyEntry, Destroyed, a

LEMMA DestroyGood ==
    ASSUME CacheAssumption, NEW c, Good(c), NEW d, NEW e \in Live(c), Destroyed(c, d, e), Tasked(d),
           NEW u, NEW n, Kept(c, d, u, n), NewFrames(d, u, n), u \in Trans => TransOK(d, u),
           \A x \in Entries \ {e} : u \notin Holders(c, x) /\ ~InSeq(u, QueueOf(c, x)),
           \A i \in 1..Len(c.stack) : i > n /\ c.stack[i].k = "run" => ~Found(c.stack[i]),
           \A t \in Trans \ {u} : t \notin Holders(c, e), \A t \in Trans : PlacedOnce(d, t)
    PROVE  Good(d)
<1>1. c \in CacheType /\ Disk(c) /\ d \in CacheType BY DEF Good, Destroyed
<1>2. e \in Entries /\ c.entries[e] # Dead /\ LockOK(c, e) BY DEF Live, Good
<1>3. \A x \in Entries : c.entries[x] # Dead => QueueOf(c, x) = c.entries[x].pending_queue
  BY DEF QueueOf
<1>4. \A x \in Entries \ {e} : c.active = x => d.active = x BY <1>2 DEF LockOK, Destroyed
<1>5. Others(c, d, u, e) BY <1>3, <1>4 DEF Others, Destroyed
<1>6. e \notin Live(d) BY DEF Live, Destroyed
<1>7. Entry(c, d, u, e, n) BY <1>6 DEF Entry
<1>8. Backed(c, d, n) BY DEF Backed, Destroyed, Ready
<1>9. Disk(d)
  <2>1. ASSUME d.active # NoEntry PROVE d.entries[d.active] # Dead /\ ~d.entries[d.active].doomed
    <3>1. d.active = c.active /\ c.entries[e].doomed BY <2>1 DEF Destroyed
    <3>2. c.active # e BY <1>1, <2>1, <3>1 DEF Disk
    <3>3. c.active \in Entries BY <1>1, <2>1, <3>1, FieldTypes
    <3> QED BY <1>1, <2>1, <3>1, <3>2, <3>3 DEF Disk, Destroyed
  <2>2. Live(d) # {} => Ready(d)
    <3>1. Live(d) \subseteq Live(c) BY <1>6 DEF Live, Destroyed
    <3> QED BY <1>1, <3>1 DEF Disk, Ready, Destroyed
  <2>3. d.op # NoOp => d.active = NoEntry BY <1>1 DEF Disk, Destroyed
  <2> QED BY <1>1, <2>1, <2>2, <2>3 DEF Disk, Destroyed
<1> QED BY <1>1, <1>5, <1>7, <1>8, <1>9, StepGood

\* The writer failed: the entry is gone, and who waited for it is in a local list.
RaceOf(q) == [k |-> "race", queue |-> q]

LEMMA FailedFacts ==
    ASSUME NEW c \in CacheType, NEW e \in Entries, c.entries[e] \in EntryType,
           c.entries[e].readers = {}, ~c.entries[e].will_process
    PROVE  LET q == c.entries[e].pending_queue
           IN  \E y : /\ DoneWritingToEntry(c, e, FALSE) = Over(y, q, RaceOf(q))
                      /\ Destroyed(c, y, e) /\ y.tasks = c.tasks /\ y.trans = c.trans /\ y.stack = c.stack
<1> DEFINE q == c.entries[e].pending_queue
           v == SetWriter(c, e, NoTrans)
           b == v.disk /\ c.entries[e].doomed
           w == SetDisk(v, b)
           x == SetQueue(w, e, <<>>)
           y == DestroyEntry(x, e)
<1>1. NoTrans \in Lockers /\ <<>> \in Seq(Trans) BY DEF Lockers
<1>2. /\ OnlyEntry(c, v, e) /\ v.entries[e] \in EntryType /\ v.entries[e].writer = NoTrans
      /\ ButWriter(v.entries[e], c.entries[e])
  BY <1>1, SetWriterFacts
<1>3. DoneWritingToEntry(c, e, FALSE) = Over(y, q, RaceOf(q))
  <2>1. Fail(c, "done_writing", c.entries[e].readers = {}) = c BY DEF Fail
  <2> DEFINE Gutted(z) == DestroyEntry([z EXCEPT !.disk = @ /\ c.entries[e].doomed,
                                                 !.entries[e].pending_queue = <<>>], e)
             z == [Fail(c, "done_writing", c.entries[e].readers = {}) EXCEPT
                      !.entries[e].writer = NoTrans]
  <2>2. DoneWritingToEntry(c, e, FALSE) = IF q = <<>> THEN Gutted(z) ELSE Push(Gutted(z), RaceOf(q))
    BY DEF DoneWritingToEntry, RaceOf
  <2>3. z = v BY <2>1 DEF SetWriter
  <2>4. x = [v EXCEPT !.disk = @ /\ c.entries[e].doomed, !.entries[e].pending_queue = <<>>]
    BY DEF SetQueue, SetDisk
  <2>5. y = Gutted(v) BY <2>4
  <2> HIDE DEF y, x, z, v, Gutted
  <2> QED BY <2>2, <2>3, <2>5 DEF Over
<1> HIDE DEF v
<1>4. b \in BOOLEAN
  <2>1. v.disk \in BOOLEAN /\ c.entries[e].doomed \in BOOLEAN
    BY <1>2, FieldTypes DEF OnlyEntry, EntryType
  <2> QED BY <2>1, Zenon
<1> HIDE DEF b
<1>5. w \in CacheType /\ SameData(v, w) /\ w.trans = v.trans /\ w.stack = v.stack
  BY <1>2, <1>4, SetDiskFacts DEF OnlyEntry
<1> HIDE DEF w
<1>6. w.entries[e] \in EntryType BY <1>2, <1>5 DEF SameData
<1>7. /\ OnlyEntry(w, x, e) /\ x.entries[e] \in EntryType /\ x.entries[e].pending_queue = <<>>
      /\ ButQueue(x.entries[e], w.entries[e])
  BY <1>1, <1>5, <1>6, SetQueueFacts
<1> HIDE DEF x
<1>8. /\ x.entries[e].writer = NoTrans /\ x.entries[e].readers = {} /\ ~x.entries[e].will_process
      /\ (x.entries[e].doomed <=> c.entries[e].doomed)
  BY <1>2, <1>5, <1>7 DEF SameData, ButWriter, ButQueue
<1>9. x \in CacheType BY <1>7 DEF OnlyEntry
<1>10. Destroyed(x, y, e) /\ y.tasks = x.tasks /\ y.trans = x.trans /\ y.stack = x.stack
  BY <1>7, <1>8, <1>9, DestroyFacts
<1> HIDE DEF y
<1>11. Destroyed(c, y, e) BY <1>2, <1>5, <1>7, <1>8, <1>10 DEF Destroyed, OnlyEntry, SameData
<1>12. y.tasks = c.tasks /\ y.trans = c.trans /\ y.stack = c.stack
  BY <1>2, <1>5, <1>7, <1>10 DEF OnlyEntry, SameData
<1> QED BY <1>3, <1>11, <1>12

\* x is c after the writer u of e gave e up, with its DoLoop, if it runs, above n.
LEMMA FailureGood ==
    ASSUME CacheAssumption, NEW c, Good(c), Ready(c), NEW u \in Trans, c.trans[u].entry # NoEntry,
           CanWrite(c.trans[u].mode), NEW x \in CacheType, SameData(c, x), SameTrans(c, x, u),
           x.trans[u].entry = NoEntry, x.trans[u] = Gone \/ x.trans[u].st = "running",
           NEW n, Kept(c, x, u, n), x.trans[u].st = "running" <=> Len(x.stack) > n,
           \A i \in 1..Len(x.stack) : i > n => /\ i = Len(x.stack)
                                               /\ \E s \in Quiet : x.stack[i] = Run(u, s, "OK"),
           \A i \in 1..Len(c.stack) : i > n => Runs(c, i, u) /\ ~Found(c.stack[i])
    PROVE  Good(DoneWritingToEntry(x, c.trans[u].entry, FALSE))
<1> DEFINE e == c.trans[u].entry
           d == DoneWritingToEntry(x, e, FALSE)
           q == x.entries[e].pending_queue
           g == RaceOf(q)
           m == Len(x.stack)
<1>1. c \in CacheType BY DEF Good
<1>2. /\ e \in Live(c) /\ e \in Entries /\ c.entries[e] \in EntryType /\ LockOK(c, e)
      /\ \A z \in Entries \ {e} : u \notin Holders(c, z)
      /\ c.entries[e].writer = u /\ c.entries[e].readers = {} /\ ~c.entries[e].will_process
  BY UsesEntry
<1> HIDE DEF e
<1>3. x.entries[e] = c.entries[e] /\ x.entries = c.entries BY DEF SameData
<1>4. PICK y : /\ d = Over(y, q, g)
               /\ Destroyed(x, y, e) /\ y.tasks = x.tasks /\ y.trans = x.trans /\ y.stack = x.stack
  BY <1>2, <1>3, FailedFacts
<1>5. q \in Seq(Trans) /\ Distinct(q, 0) /\ g \in Frame /\ g.k = "race" /\ g.queue = q
  BY <1>2, <1>3 DEF LockOK, EntryType, RaceOf, Frame, RaceFrame
<1>6. \A t : Listed(g, t) <=> InSeq(t, q) BY <1>5 DEF Listed
<1> HIDE DEF d, g, q
<1>7. y \in CacheType BY <1>4 DEF Destroyed
<1>8. m \in Nat /\ n \in Nat /\ n <= m BY FieldTypes DEF Kept
<1>9. /\ d \in CacheType /\ SameData(y, d) /\ d.trans = x.trans /\ SameFrames(x, d, m)
      /\ \/ q = <<>> /\ Len(d.stack) = m
         \/ q # <<>> /\ Len(d.stack) = m + 1 /\ d.stack[m + 1] = g
  <2>1. CASE q = <<>>
    <3>1. d = y BY <1>4, <2>1 DEF Over
    <3> QED BY <1>4, <1>7, <2>1, <3>1 DEF SameData, SameFrames
  <2>2. CASE q # <<>>
    <3>1. d = Push(y, g) BY <1>4, <2>2 DEF Over
    <3>2. /\ d \in CacheType /\ SameData(y, d) /\ d.trans = y.trans /\ Len(d.stack) = Len(y.stack) + 1
          /\ d.stack[Len(y.stack) + 1] = g /\ SameFrames(y, d, Len(y.stack))
      BY <1>5, <1>7, <3>1, PushFacts
    <3> QED BY <1>4, <2>2, <3>2 DEF SameFrames
  <2> QED BY <2>1, <2>2
<1>10. Destroyed(c, d, e) /\ d.tasks = c.tasks BY <1>4, <1>9 DEF Destroyed, SameData
<1>11. \A i \in 1..Len(d.stack) : i \in 1..m \/ (i = m + 1 /\ q # <<>>) BY <1>8, <1>9
<1>12. \A i \in 1..m : i \in 1..Len(d.stack) /\ d.stack[i] = x.stack[i] BY <1>8, <1>9 DEF SameFrames
<1>13. Kept(c, d, u, n)
  <2>1. n <= Len(d.stack) BY <1>8, <1>9
  <2>2. \A i \in 1..n : i \in 1..m BY <1>8
  <2> QED BY <1>9, <1>12, <2>1, <2>2 DEF Kept
<1>14. Ready(d) /\ Ready(x) BY <1>10 DEF Destroyed, Ready, SameData
<1>15. "OK" \in Results BY DEF Results
<1>16. ASSUME NEW i \in 1..Len(d.stack), i > n
       PROVE  /\ FrameOK(d, d.stack[i])
              /\ d.stack[i].k = "run" => d.stack[i].t = u /\ d.stack[i].s \in Quiet
              /\ d.stack[i].k = "run" <=> i = m /\ x.trans[u].st = "running"
              /\ \A t : Listed(d.stack[i], t) <=> InSeq(t, q) /\ i = m + 1
  <2>1. CASE i \in 1..m
    <3>1. d.stack[i] = x.stack[i] /\ i = m BY <1>12, <1>16, <2>1
    <3>2. PICK s \in Quiet : d.stack[i] = Run(u, s, "OK") BY <1>16, <2>1, <3>1
    <3>3. s \in States BY DEF Quiet, States
    <3>4. FrameOK(d, Run(u, s, "OK")) BY <1>9, <1>14, <1>15, QuietOK
    <3>5. x.trans[u].st = "running" BY <1>8, <1>16, <3>1
    <3>6. \A t : ~Listed(d.stack[i], t) BY <1>15, <3>2, <3>3, RunTypes DEF Listed
    <3>7. i # m + 1 BY <1>8, <3>1
    <3> QED BY <1>15, <3>1, <3>2, <3>3, <3>4, <3>5, <3>6, <3>7, RunTypes
  <2>2. CASE i = m + 1 /\ q # <<>>
    <3>1. d.stack[i] = g BY <1>9, <2>2
    <3>2. FrameOK(d, g) BY <1>5, <1>14, <2>2 DEF FrameOK
    <3>3. i # m BY <1>8, <2>2
    <3> QED BY <1>5, <1>6, <2>2, <3>1, <3>2, <3>3
  <2> QED BY <1>11, <2>1, <2>2
<1>17. NewFrames(d, u, n)
  <2>1. d.trans[u].st = "running" <=> \E i \in 1..Len(d.stack) : i > n /\ d.stack[i].k = "run"
    <3>1. x.trans[u].st = "running" => m \in 1..Len(d.stack) /\ m > n BY <1>8, <1>9
    <3> QED BY <1>9, <1>16, <3>1
  <2> QED BY <1>16, <2>1 DEF NewFrames
<1>18. TransOK(d, u) BY <1>9 DEF TransOK, Gone
<1>19. c.trans[u].st # "pending" BY DEF Good, TransOK
<1>20. /\ \A z \in Entries : ~InSeq(u, QueueOf(c, z)) BY <1>19, Nowhere
<1>21. Tasked(d)
  <2>1. \A z \in Entries : (d.entries[z] # Dead /\ d.entries[z].will_process) <=>
                           (c.entries[z] # Dead /\ c.entries[z].will_process)
    BY <1>2, <1>10 DEF Destroyed
  <2> QED BY <1>10, <2>1 DEF Tasked, Good
<1>22. \A t \in Trans \ {u} : t \notin Holders(c, e) BY <1>2 DEF Holders
<1>23. QueueOf(c, e) = q /\ QueueOf(d, e) = <<>> /\ \A z \in Entries \ {e} : QueueOf(d, z) = QueueOf(c, z)
  BY <1>2, <1>3, <1>10 DEF QueueOf, Destroyed, Live, q
<1>24. d.op = c.op /\ d.backend_queue = c.backend_queue BY <1>10 DEF Destroyed
<1>25. \A t : \A i \in 1..Len(c.stack) : i > n => ~Listed(c.stack[i], t) BY DEF Runs, Listed
<1>26. d.trans[u].st # "pending" BY <1>9 DEF Gone
<1>27. ASSUME NEW t \in Trans PROVE PlacedOnce(d, t)
  <2>1. CASE InSeq(t, q)
    <3>1. InSeq(t, QueueOf(c, e)) /\ q # <<>> BY <1>23, <2>1, InEmpty
    <3>2. InPlace(c, t, "entry", e) BY <1>2, <3>1, InQueueOf
    <3>3. /\ c.trans[t].st = "pending" /\ ~InOp(c.op, t) /\ ~InSeq(t, c.backend_queue)
          /\ \A z \in Entries : InSeq(t, QueueOf(c, z)) => z = e
          /\ \A i \in 1..Len(c.stack) : ~Listed(c.stack[i], t)
      BY <3>2, Elsewhere
    <3>4. t # u BY <1>19, <3>3
    <3>5. d.trans[t].st = "pending" BY <1>13, <3>3, <3>4 DEF Kept
    <3>6. m + 1 \in 1..Len(d.stack) /\ m + 1 > n BY <1>8, <1>9, <3>1
    <3>7. InPlace(d, t, "loop", m + 1) BY <1>16, <2>1, <3>6 DEF InPlace
    <3>8. \A i \in 1..Len(d.stack) : Listed(d.stack[i], t) => m + 1 = i
      <4>1. ASSUME NEW i \in 1..Len(d.stack), ~(i > n) PROVE ~Listed(d.stack[i], t)
        <5>1. i \in 1..n /\ i \in 1..Len(c.stack) BY <1>1, <1>8, <4>1, FieldTypes DEF Kept
        <5> QED BY <1>13, <3>3, <5>1 DEF Kept
      <4> QED BY <1>16, <4>1
    <3>9. \A z \in Entries : ~InSeq(t, QueueOf(d, z)) BY <1>23, <3>3, InEmpty
    <3> QED BY <1>24, <3>3, <3>5, <3>7, <3>8, <3>9, PlacedThere
  <2>2. CASE ~InSeq(t, q)
    <3>1. \A z \in Entries : InSeq(t, QueueOf(d, z)) <=> InSeq(t, QueueOf(c, z))
      BY <1>2, <1>23, <2>2, InEmpty
    <3>2. SamePlaces(c, d, t, n) BY <1>16, <1>24, <1>25, <2>2, <3>1 DEF SamePlaces
    <3>3. d.trans[t].st = "pending" <=> c.trans[t].st = "pending" BY <1>13, <1>19, <1>26 DEF Kept
    <3>4. PlacedOnce(c, t) BY DEF Good
    <3> QED BY <1>1, <1>9, <1>13, <3>2, <3>3, <3>4, PlacedSame
  <2> QED BY <2>1, <2>2
<1>28. Good(d)
  BY <1>2, <1>10, <1>13, <1>17, <1>18, <1>20, <1>21, <1>22, <1>27, DestroyGood
<1> QED BY <1>28 DEF d, e

\* The same, for a DoLoop.
LEMMA DoneFailingGood ==
    ASSUME CacheAssumption, NEW c, Good(c), Ready(c), NEW u \in Trans, c.stack # <<>>,
           Runs(c, Len(c.stack), u), Top(c).s = "USE", CanWrite(c.trans[u].mode),
           NEW x, Quits(c, x, u)
    PROVE  Good(DoneWritingToEntry(x, c.trans[u].entry, FALSE))
<1> DEFINE n == Len(c.stack) - 1
<1>1. c \in CacheType /\ Framed(c) BY DEF Good
<1>2. Len(c.stack) \in Nat \ {0} BY <1>1, FieldTypes
<1>3. c.trans[u].st = "running" BY <1>1, <1>2 DEF Framed
<1>4. c.trans[u].entry # NoEntry
  <2>1. FrameOK(c, c.stack[Len(c.stack)]) BY <1>2 DEF Good, Frames
  <2> QED BY <2>1 DEF FrameOK, Runs, Top
<1>5. x \in CacheType /\ Len(x.stack) = Len(c.stack) /\ n <= Len(x.stack) BY <1>2 DEF Quits
<1>6. Kept(c, x, u, n) BY <1>5, TopKept DEF Quits
<1>7. \A i \in 1..Len(c.stack) : i > n => i = Len(c.stack) BY <1>2
<1>8. \A i \in 1..Len(x.stack) : i > n => /\ i = Len(x.stack)
                                          /\ \E s \in Quiet : x.stack[i] = Run(u, s, "OK")
  BY <1>5, <1>7 DEF Quits
<1>9. \A i \in 1..Len(c.stack) : i > n => Runs(c, i, u) /\ ~Found(c.stack[i]) BY <1>7 DEF Found, Top
<1>10. x.trans[u].st = "running" /\ Len(x.stack) > n BY <1>2, <1>3, <1>5 DEF Quits
<1> HIDE DEF n
<1> QED BY <1>4, <1>5, <1>6, <1>8, <1>9, <1>10, FailureGood DEF Quits

LEMMA DoneWritingStep ==
    ASSUME CacheAssumption, Good(cache), NEW t \in Trans, NEW success \in BOOLEAN, DoneWriting(t, success)
    PROVE  Good(cache')
<1> DEFINE x == PassThrough(cache, t)
           e == cache.trans[t].entry
<1>1. At(t, "USE") /\ CanWrite(cache.trans[t].mode) /\ cache' = DoneWritingToEntry(x, e, success)
  BY DEF DoneWriting, Mode
<1>2. /\ cache \in CacheType /\ cache.stack # <<>> /\ Runs(cache, Len(cache.stack), t)
      /\ Top(cache).s = "USE" /\ Ready(cache)
  BY <1>1, AtFacts
<1>3. Quits(cache, x, t) BY <1>2, QuitsFacts
<1> HIDE DEF x
<1>4. Good(DoneWritingToEntry(x, e, TRUE)) BY <1>1, <1>2, <1>3, DoneWritingGood
<1>5. Good(DoneWritingToEntry(x, e, FALSE)) BY <1>1, <1>2, <1>3, DoneFailingGood
<1>6. cache' = DoneWritingToEntry(x, e, TRUE) \/ cache' = DoneWritingToEntry(x, e, FALSE)
  BY <1>1, Zenon
<1> QED BY <1>4, <1>5, <1>6

\* The writer of an entry is done with it and has failed.
LEMMA DoneWithWriter ==
    ASSUME NEW x, NEW e, NEW t, t # NoTrans, x.entries[e].writer = t, ~x.entries[e].will_process,
           NEW success
    PROVE  DoneWithEntry(x, e, t, success) = DoneWritingToEntry(x, e, success)
<1>1. Fail(x, "done_with", x.entries[e].writer = t) = x BY DEF Fail
<1> QED BY <1>1 DEF DoneWithEntry

LEMMA DoomPartialEntryGood ==
    ASSUME CacheAssumption, Good(cache), NEW t \in Trans, DoomPartialEntry(t)
    PROVE  Good(cache')
<1>1. At(t, "USE") /\ CanWrite(cache.trans[t].mode) BY DEF DoomPartialEntry, Mode, CanWrite
<1>2. /\ cache \in CacheType /\ cache.stack # <<>> /\ Runs(cache, Len(cache.stack), t)
      /\ Top(cache).s = "USE" /\ Ready(cache) /\ cache.trans[t].entry # NoEntry
  BY <1>1, AtFacts
<1>3. ~Found(Top(cache)) /\ t # NoTrans BY <1>2 DEF Found, CacheAssumption
<1>4. PICK c \in DoomOwnEntry(cache) : \E x :
          /\ \/ x = PassThrough(c, t)
             \/ x = Goto([c EXCEPT !.trans[t].entry = NoEntry, !.trans[t].mode = "WRITE"],
                         t, "INIT_ENTRY", "OK")
          /\ cache' = DoneWithEntry(x, c.trans[t].entry, t, FALSE)
  BY DEF DoomPartialEntry
<1>5. PICK x : /\ \/ x = PassThrough(c, t)
                  \/ x = Goto([c EXCEPT !.trans[t].entry = NoEntry, !.trans[t].mode = "WRITE"],
                              t, "INIT_ENTRY", "OK")
               /\ cache' = DoneWithEntry(x, c.trans[t].entry, t, FALSE)
  BY <1>4
<1>6. Good(c) /\ c.trans = cache.trans /\ c.stack = cache.stack /\ Ready(c) BY <1>2, <1>3, DoomOwnGood
<1>7. c \in CacheType /\ c.stack # <<>> /\ Runs(c, Len(c.stack), t) /\ Top(c).s = "USE"
  BY <1>2, <1>6 DEF Good, Runs, Top
<1>8. Quits(c, x, t) BY <1>5, <1>7, QuitsFacts
<1>9. CanWrite(c.trans[t].mode) /\ c.trans[t].entry # NoEntry BY <1>1, <1>2, <1>6
<1> DEFINE e == c.trans[t].entry
<1>10. c.entries[e].writer = t /\ ~c.entries[e].will_process BY <1>6, <1>9, UsesEntry
<1>11. x.entries = c.entries BY <1>8 DEF Quits, SameData
<1> HIDE DEF e
<1>12. DoneWithEntry(x, e, t, FALSE) = DoneWritingToEntry(x, e, FALSE)
  BY <1>3, <1>10, <1>11, DoneWithWriter
<1>13. Good(DoneWritingToEntry(x, e, FALSE)) BY <1>6, <1>7, <1>8, <1>9, DoneFailingGood DEF e
<1> QED BY <1>5, <1>12, <1>13 DEF e

-----------------------------------------------------------------------------
(* The writer goes on as a reader.                                         *)

LEMMA ConvertFacts ==
    ASSUME NEW c \in CacheType, Tasked(c), NEW e \in Entries, c.entries[e] \in EntryType,
           NEW t \in Trans, c.entries[e].writer = t, c.entries[e].readers = {}
    PROVE  LET d == ConvertWriterToReader(c, e, t)
           IN  /\ AtEntry(c, d, e) /\ SameTrans(c, d, t) /\ d.stack = c.stack /\ Tasked(d)
               /\ d.trans[t].st = c.trans[t].st /\ d.trans[t].mode = "READ"
               /\ d.trans[t].entry = c.trans[t].entry /\ d.trans[t].new_entry = c.trans[t].new_entry
               /\ d.entries[e].writer = NoTrans /\ d.entries[e].readers = {t}
               /\ d.entries[e].pending_queue = c.entries[e].pending_queue /\ d.entries[e].will_process
<1> DEFINE v == SetWriter(c, e, NoTrans)
           w == SetReaders(v, e, {t})
           x == WithMode(w, t, "READ")
           d == ProcessPendingQueue(x, e)
<1>1. NoTrans \in Lockers /\ {t} \in SUBSET Trans /\ "READ" \in ModeNames BY DEF Lockers, ModeNames
<1>2. /\ OnlyEntry(c, v, e) /\ v.entries[e] \in EntryType /\ v.entries[e].writer = NoTrans
      /\ ButWriter(v.entries[e], c.entries[e])
  BY <1>1, SetWriterFacts
<1>3. ConvertWriterToReader(c, e, t) = d
  <2>1. Fail(c, "convert", c.entries[e].writer = t /\ c.entries[e].readers = {}) = c BY DEF Fail
  <2>2. v.entries[e].readers \cup {t} = {t} BY <1>2 DEF ButWriter
  <2>3. ConvertWriterToReader(c, e, t)
          = ProcessPendingQueue([v EXCEPT !.entries[e].readers = @ \cup {t}, !.trans[t].mode = "READ"], e)
    BY <2>1, ZenonT(60) DEF ConvertWriterToReader, SetWriter
  <2> HIDE DEF v
  <2>4. [v EXCEPT !.entries[e].readers = @ \cup {t}, !.trans[t].mode = "READ"] = x
    BY <2>2 DEF SetReaders, WithMode
  <2> HIDE DEF x
  <2> QED BY <2>3, <2>4
<1> HIDE DEF v
<1>4. v \in CacheType BY <1>2 DEF OnlyEntry
<1>5. /\ OnlyEntry(v, w, e) /\ w.entries[e] \in EntryType /\ w.entries[e].readers = {t}
      /\ ButReaders(w.entries[e], v.entries[e])
  BY <1>1, <1>2, <1>4, SetReadersFacts
<1> HIDE DEF w
<1>6. w \in CacheType BY <1>5 DEF OnlyEntry
<1>7. /\ Own(w, x, t) /\ x.trans[t].st = w.trans[t].st /\ x.trans[t].mode = "READ"
      /\ x.trans[t].entry = w.trans[t].entry /\ x.trans[t].new_entry = w.trans[t].new_entry
  BY <1>1, <1>6, WithModeFacts
<1> HIDE DEF x
<1>8. Tasked(x)
  <2>1. c.entries[e] # Dead /\ x.entries[e] # Dead BY <1>5, <1>7, Shapes DEF Own, SameData
  <2>2. /\ x.tasks = c.tasks /\ \A z \in Entries \ {e} : x.entries[z] = c.entries[z]
        /\ x.entries[e].will_process = c.entries[e].will_process
    BY <1>2, <1>5, <1>7 DEF OnlyEntry, Own, SameData, ButWriter, ButReaders
  <2> QED BY <2>1, <2>2, TaskedSame
<1>9. x \in CacheType /\ x.entries[e] \in EntryType BY <1>5, <1>7 DEF Own, SameData
<1>10. /\ AtEntry(x, d, e) /\ d.trans = x.trans /\ d.stack = x.stack /\ Tasked(d)
       /\ d.entries[e].will_process /\ ButProcess(d.entries[e], x.entries[e])
  BY <1>8, <1>9, ProcessFacts
<1> HIDE DEF d
<1>11. AtEntry(c, d, e)
  BY <1>2, <1>5, <1>7, <1>10 DEF AtEntry, OnlyEntry, Own, SameData, ButWriter, ButReaders
<1>12. /\ d.entries[e].writer = NoTrans /\ d.entries[e].readers = {t}
       /\ d.entries[e].pending_queue = c.entries[e].pending_queue
  BY <1>2, <1>5, <1>7, <1>10 DEF Own, SameData, ButWriter, ButReaders, ButProcess
<1>13. /\ SameTrans(c, d, t) /\ d.stack = c.stack
       /\ d.trans[t].st = c.trans[t].st /\ d.trans[t].mode = "READ"
       /\ d.trans[t].entry = c.trans[t].entry /\ d.trans[t].new_entry = c.trans[t].new_entry
  BY <1>2, <1>5, <1>7, <1>10 DEF OnlyEntry, Own, SameTrans
<1> QED BY <1>3, <1>10, <1>11, <1>12, <1>13

LEMMA ConvertGood ==
    ASSUME CacheAssumption, NEW c, Good(c), Ready(c), NEW u \in Trans, c.stack # <<>>,
           Runs(c, Len(c.stack), u), Top(c).s = "USE", CanWrite(c.trans[u].mode)
    PROVE  Good(ConvertWriterToReader(c, c.trans[u].entry, u))
<1> DEFINE e == c.trans[u].entry
           d == ConvertWriterToReader(c, e, u)
           n == Len(c.stack) - 1
           f == Top(c)
<1>1. c \in CacheType /\ Framed(c) /\ Tasked(c) BY DEF Good
<1>2. Len(c.stack) \in Nat \ {0} BY <1>1, FieldTypes
<1>3. c.trans[u].st = "running" /\ FrameOK(c, f) BY <1>1, <1>2 DEF Framed, Good, Frames, Top
<1>4. e # NoEntry BY <1>3 DEF FrameOK, Runs, Top
<1>5. /\ e \in Live(c) /\ e \in Entries /\ c.entries[e] \in EntryType /\ LockOK(c, e)
      /\ \A x \in Entries \ {e} : u \notin Holders(c, x)
      /\ c.entries[e].writer = u /\ c.entries[e].readers = {}
  BY <1>4, UsesEntry
<1> HIDE DEF e
<1>6. /\ AtEntry(c, d, e) /\ SameTrans(c, d, u) /\ d.stack = c.stack /\ Tasked(d)
      /\ d.trans[u].st = c.trans[u].st /\ d.trans[u].mode = "READ"
      /\ d.trans[u].entry = c.trans[u].entry /\ d.trans[u].new_entry = c.trans[u].new_entry
      /\ d.entries[e].writer = NoTrans /\ d.entries[e].readers = {u}
      /\ d.entries[e].pending_queue = c.entries[e].pending_queue /\ d.entries[e].will_process
  <2>1. /\ c \in CacheType /\ Tasked(c) /\ e \in Entries /\ c.entries[e] \in EntryType
        /\ c.entries[e].writer = u /\ c.entries[e].readers = {}
    BY <1>1, <1>5
  <2>2. AtEntry(c, d, e) /\ SameTrans(c, d, u) BY <2>1, ConvertFacts
  <2>3. d.stack = c.stack /\ Tasked(d) BY <2>1, ConvertFacts
  <2>4. /\ d.trans[u].st = c.trans[u].st /\ d.trans[u].mode = "READ"
        /\ d.trans[u].entry = c.trans[u].entry /\ d.trans[u].new_entry = c.trans[u].new_entry
    BY <2>1, ConvertFacts
  <2>5. d.entries[e].writer = NoTrans BY <2>1, ConvertFacts
  <2>6. d.entries[e].readers = {u}
    <3>1. \A r : r \in d.entries[e].readers <=> r = u BY <2>1, ConvertFacts
    <3> QED BY <3>1
  <2>7. d.entries[e].pending_queue = c.entries[e].pending_queue BY <2>1, ConvertFacts
  <2>8. d.entries[e].will_process BY <2>1, ConvertFacts
  <2> QED BY <2>2, <2>3, <2>4, <2>5, <2>6, <2>7, <2>8
<1> HIDE DEF d
<1>7. d \in CacheType /\ d.active = c.active /\ d.backend = c.backend BY <1>6 DEF AtEntry
<1>8. f.k = "run" /\ f.t = u /\ f.s = "USE" /\ f = d.stack[Len(c.stack)] BY <1>6 DEF Runs, Top
<1>9. FrameOK(d, f) BY <1>3, <1>6, <1>7, <1>8 DEF FrameOK, Missed, Found, Added, Ready
<1>10. NextFrame(c, d, u) BY <1>3, <1>6, <1>8, <1>9 DEF NextFrame, SameFrames, Runs
<1>11. /\ NewFrames(d, u, n) /\ n <= Len(d.stack)
       /\ \A t : \A i \in 1..Len(d.stack) : i > n => ~Listed(d.stack[i], t)
  BY <1>2, <1>7, <1>10, NextFrameNew
<1>12. Kept(c, d, u, n) BY <1>6, <1>7, <1>11, TopKept DEF SameFrames
<1>13. \A i \in 1..Len(c.stack) : i > n => i = Len(c.stack) BY <1>2
<1>14. /\ \A t : \A i \in 1..Len(c.stack) : i > n => ~Listed(c.stack[i], t)
       /\ \A i \in 1..Len(c.stack) : i > n /\ c.stack[i].k = "run" => ~Found(c.stack[i])
  BY <1>13 DEF Listed, Runs, Found, Top
<1>15. c.entries[e] # Dead /\ d.entries[e] # Dead BY <1>5, <1>6, Shapes DEF AtEntry
<1>16. Holders(d, e) = {u} /\ Holders(c, e) = {u}
  <2>1. u # NoTrans BY DEF CacheAssumption
  <2>2. Holders(d, e) = {u} \cup ({NoTrans} \ {NoTrans}) BY <1>6, <1>15 DEF Holders
  <2>3. Holders(c, e) = {} \cup ({u} \ {NoTrans}) BY <1>5, <1>15 DEF Holders
  <2> QED BY <2>1, <2>2, <2>3
<1>17. TransOK(d, u) BY <1>3, <1>6, <1>16 DEF TransOK, e
<1>18. \A x \in Entries : ~InSeq(u, QueueOf(c, x)) BY <1>3, Nowhere
<1>19. ASSUME NEW t \in Trans, InSeq(t, d.entries[e].pending_queue) PROVE d.trans[t].new_entry = e
  <2>1. InSeq(t, QueueOf(c, e)) BY <1>6, <1>15, <1>19 DEF QueueOf
  <2>2. t # u BY <1>5, <1>18, <2>1
  <2> QED BY <1>5, <1>6, <1>19, <2>2 DEF LockOK, SameTrans
<1>20. LockOK(d, e)
  <2>1. ~CanWrite("READ") BY DEF CanWrite
  <2>2. ~d.entries[e].doomed => d.active = e BY <1>5, <1>6 DEF LockOK, AtEntry
  <2>3. Distinct(d.entries[e].pending_queue, 0) BY <1>5, <1>6 DEF LockOK
  <2>4. d.trans[u].entry = e BY <1>6 DEF e
  <2> QED BY <1>6, <1>16, <1>19, <2>1, <2>2, <2>3, <2>4 DEF LockOK
<1> HIDE DEF n
<1>21. \A t \in Trans : PlacedOnce(d, t) BY <1>3, <1>5, <1>6, <1>11, <1>12, <1>14, EntryPlaces
<1>22. Good(d)
  BY <1>5, <1>6, <1>11, <1>12, <1>14, <1>16, <1>17, <1>18, <1>20, <1>21, EntryGood
<1> QED BY <1>22 DEF d, e

LEMMA ValidatedGood ==
    ASSUME CacheAssumption, Good(cache), NEW t \in Trans, Validated(t)
    PROVE  Good(cache')
<1>1. /\ At(t, "USE") /\ CanWrite(cache.trans[t].mode)
      /\ cache' = ConvertWriterToReader(cache, cache.trans[t].entry, t)
  BY DEF Validated, Mode, CanWrite
<1>2. /\ cache.stack # <<>> /\ Runs(cache, Len(cache.stack), t) /\ Top(cache).s = "USE" /\ Ready(cache)
  BY <1>1, AtFacts
<1> QED BY <1>1, <1>2, ConvertGood

LEMMA NoStoreGood ==
    ASSUME CacheAssumption, Good(cache), NEW t \in Trans, NoStore(t)
    PROVE  Good(cache')
<1>1. At(t, "USE") /\ CanWrite(cache.trans[t].mode) BY DEF NoStore, Mode, CanWrite
<1>2. /\ cache \in CacheType /\ cache.stack # <<>> /\ Runs(cache, Len(cache.stack), t)
      /\ Top(cache).s = "USE" /\ Ready(cache)
  BY <1>1, AtFacts
<1>3. ~Found(Top(cache)) BY <1>2 DEF Found
<1>4. PICK c \in DoomOwnEntry(cache) :
          \/ cache' = ConvertWriterToReader(c, c.trans[t].entry, t)
          \/ cache' = c
          \/ cache' = DoneWritingToEntry(PassThrough(c, t), c.trans[t].entry, TRUE)
  BY DEF NoStore
<1>5. Good(c) /\ c.trans = cache.trans /\ c.stack = cache.stack /\ Ready(c) BY <1>2, <1>3, DoomOwnGood
<1>6. c \in CacheType /\ c.stack # <<>> /\ Runs(c, Len(c.stack), t) /\ Top(c).s = "USE"
  BY <1>2, <1>5 DEF Good, Runs, Top
<1>7. CanWrite(c.trans[t].mode) BY <1>1, <1>5
<1>8. Good(ConvertWriterToReader(c, c.trans[t].entry, t)) BY <1>5, <1>6, <1>7, ConvertGood
<1>9. Good(DoneWritingToEntry(PassThrough(c, t), c.trans[t].entry, TRUE))
  <2> DEFINE x == PassThrough(c, t)
  <2>1. Quits(c, x, t) BY <1>6, QuitsFacts
  <2> HIDE DEF x
  <2>2. Good(DoneWritingToEntry(x, c.trans[t].entry, TRUE)) BY <1>5, <1>6, <1>7, <2>1, DoneWritingGood
  <2> QED BY <2>2 DEF x
<1> QED BY <1>4, <1>5, <1>8, <1>9

-----------------------------------------------------------------------------
(* The client deletes a transaction.                                       *)

Deleted(c, t) == [c EXCEPT !.trans[t] = Gone]

\* A transaction that is deleted has no DoLoop, and the stack stays.
LEMMA DeletedFacts ==
    ASSUME NEW c, Good(c), c.stack # <<>> => c.stack[Len(c.stack)].k # "run",
           NEW u \in Trans, c.trans[u].st # "running"
    PROVE  LET x == Deleted(c, u) IN
           /\ x \in CacheType /\ SameData(c, x) /\ SameTrans(c, x, u) /\ x.stack = c.stack
           /\ x.trans[u] = Gone /\ Gone.st = "free" /\ Gone.entry = NoEntry
           /\ Len(c.stack) \in Nat
           /\ \A d \in CacheType : d.stack = c.stack /\ d.trans = x.trans =>
                 Kept(c, d, u, Len(c.stack)) /\ NewFrames(d, u, Len(c.stack)) /\ TransOK(d, u)
<1> DEFINE x == Deleted(c, u)
           n == Len(c.stack)
<1>1. c \in CacheType /\ n \in Nat BY FieldTypes DEF Good
<1>2. /\ x \in CacheType /\ SameData(c, x) /\ x.stack = c.stack
      /\ x.trans[u] = Gone /\ SameTrans(c, x, u)
  BY <1>1, SetTrans, Shapes DEF SameTrans, Deleted
<1> HIDE DEF x
<1>3. Gone.st = "free" /\ Gone.entry = NoEntry BY DEF Gone
<1>4. ASSUME NEW d \in CacheType, d.stack = c.stack, d.trans = x.trans
      PROVE  Kept(c, d, u, n) /\ NewFrames(d, u, n) /\ TransOK(d, u)
  <2>1. SameFrames(c, d, n) /\ SameTrans(c, d, u) /\ n <= Len(d.stack)
    BY <1>1, <1>2, <1>4 DEF SameFrames, SameTrans
  <2>2. Kept(c, d, u, n) BY <1>1, <2>1, BaseKept
  <2>3. \A i \in 1..Len(d.stack) : ~(i > n) BY <1>1, <1>4
  <2>4. NewFrames(d, u, n) BY <1>2, <1>3, <1>4, <2>3 DEF NewFrames
  <2>5. TransOK(d, u) BY <1>2, <1>3, <1>4 DEF TransOK
  <2> QED BY <2>2, <2>4, <2>5
<1> QED BY <1>1, <1>2, <1>3, <1>4 DEF x

\* One that uses an entry gives it back.
LEMMA DeleteOwnGood ==
    ASSUME CacheAssumption, NEW c, Good(c), c.stack # <<>> => c.stack[Len(c.stack)].k # "run",
           NEW u \in Trans, c.trans[u].st = "own", NEW success \in BOOLEAN
    PROVE  Good(DoneWithEntry(Deleted(c, u), c.trans[u].entry, u, success))
<1> DEFINE e == c.trans[u].entry
           x == Deleted(c, u)
           n == Len(c.stack)
<1>1. c \in CacheType /\ Tasked(c) /\ Disk(c) /\ TransOK(c, u) BY DEF Good
<1>2. e # NoEntry BY <1>1 DEF TransOK
<1>3. /\ e \in Live(c) /\ e \in Entries /\ c.entries[e] \in EntryType
      /\ CanWrite(c.trans[u].mode) => /\ c.entries[e].writer = u /\ c.entries[e].readers = {}
                                      /\ ~c.entries[e].will_process
      /\ ~CanWrite(c.trans[u].mode) => u \in c.entries[e].readers /\ c.entries[e].writer = NoTrans
  BY <1>2, UsesEntry
<1>4. Ready(c) BY <1>1, <1>3 DEF Disk
<1>5. /\ x \in CacheType /\ SameData(c, x) /\ SameTrans(c, x, u) /\ x.stack = c.stack
      /\ x.trans[u] = Gone /\ Gone.st = "free" /\ Gone.entry = NoEntry /\ n \in Nat
      /\ \A d \in CacheType : d.stack = c.stack /\ d.trans = x.trans =>
            Kept(c, d, u, n) /\ NewFrames(d, u, n) /\ TransOK(d, u)
  BY DeletedFacts
<1>6. Tasked(x) /\ x.entries[e] = c.entries[e] BY <1>1, <1>5 DEF SameData, Tasked
<1>7. u # NoTrans BY DEF CacheAssumption
<1>8. c.trans[u].entry = e OBVIOUS
<1> HIDE DEF e, x
<1>9. ASSUME NEW d, AtEntry(x, d, e), d.trans = x.trans, d.stack = x.stack, Tasked(d),
             d.entries[e].writer = NoTrans, d.entries[e].readers = c.entries[e].readers \ {u},
             d.entries[e].pending_queue = x.entries[e].pending_queue, d.entries[e].will_process,
             c.entries[e].writer \in {u, NoTrans}
      PROVE  Good(d)
  <2>1. AtEntry(c, d, e) BY <1>5, <1>9 DEF AtEntry, SameData
  <2>2. Kept(c, d, u, n) /\ NewFrames(d, u, n) /\ TransOK(d, u) BY <1>5, <1>9, <2>1 DEF AtEntry
  <2>3. d.trans[u].entry = NoEntry /\ d.trans[u].st # "pending" BY <1>5, <1>9
  <2>4. \A i \in 1..Len(c.stack) : ~(i > n) BY <1>5
  <2>5. \A i \in 1..Len(d.stack) : ~(i > n) BY <1>5, <1>9, <2>4
  <2>6. d.entries[e].pending_queue = c.entries[e].pending_queue BY <1>6, <1>9
  <2> HIDE DEF n
  <2> QED BY <1>3, <1>8, <1>9, <2>1, <2>2, <2>3, <2>4, <2>5, <2>6, ReleaseGood
<1>10. CASE CanWrite(c.trans[u].mode)
  <2>1. /\ x.entries[e].writer = u /\ x.entries[e].readers = {} /\ ~x.entries[e].will_process
        /\ c.entries[e].writer = u /\ c.entries[e].readers = {}
    BY <1>3, <1>6, <1>10
  <2>2. DoneWithEntry(x, e, u, success) = DoneWritingToEntry(x, e, success)
    BY <1>7, <2>1, DoneWithWriter
  <2>3. Good(DoneWritingToEntry(x, e, TRUE))
    <3> DEFINE d == DoneWritingToEntry(x, e, TRUE)
    <3>1. /\ AtEntry(x, d, e) /\ d.trans = x.trans /\ d.stack = x.stack /\ Tasked(d)
          /\ d.entries[e].writer = NoTrans /\ d.entries[e].readers = {}
          /\ d.entries[e].pending_queue = x.entries[e].pending_queue /\ d.entries[e].will_process
      BY <1>3, <1>5, <1>6, <2>1, DoneWritingFacts
    <3> HIDE DEF d
    <3>2. d.entries[e].readers = c.entries[e].readers \ {u} BY <2>1, <3>1
    <3>3. Good(d) BY <1>9, <2>1, <3>1, <3>2
    <3> QED BY <3>3 DEF d
  <2>4. Good(DoneWritingToEntry(x, e, FALSE))
    <3>1. Kept(c, x, u, n) BY <1>5
    <3>2. /\ \A i \in 1..Len(c.stack) : ~(i > n)
          /\ \A i \in 1..Len(x.stack) : ~(i > n)
          /\ ~(Len(x.stack) > n)
      BY <1>5
    <3>3. x.trans[u].entry = NoEntry /\ x.trans[u].st # "running" /\ c.trans[u].entry # NoEntry
      BY <1>2, <1>5, <1>8
    <3> HIDE DEF n
    <3>4. Good(DoneWritingToEntry(x, c.trans[u].entry, FALSE))
      BY <1>4, <1>5, <1>10, <3>1, <3>2, <3>3, FailureGood
    <3> QED BY <1>8, <3>4
  <2>5. success = TRUE \/ success = FALSE OBVIOUS
  <2> QED BY <2>2, <2>3, <2>4, <2>5, Zenon DEF e, x
<1>11. CASE ~CanWrite(c.trans[u].mode)
  <2>1. /\ x.entries[e].writer = NoTrans /\ u \in x.entries[e].readers
        /\ c.entries[e].writer = NoTrans /\ x.entries[e].readers # {}
    BY <1>3, <1>6, <1>11
  <2>2. DoneWithEntry(x, e, u, success) = DoneReadingFromEntry(x, e, u) BY <2>1 DEF DoneWithEntry
  <2> DEFINE d == DoneReadingFromEntry(x, e, u)
  <2>3. /\ AtEntry(x, d, e) /\ d.trans = x.trans /\ d.stack = x.stack /\ Tasked(d)
        /\ d.entries[e].writer = NoTrans /\ d.entries[e].readers = x.entries[e].readers \ {u}
        /\ d.entries[e].pending_queue = x.entries[e].pending_queue /\ d.entries[e].will_process
    BY <1>3, <1>5, <1>6, <2>1, DoneReadingFacts
  <2> HIDE DEF d
  <2>4. Good(d) BY <1>6, <1>9, <2>1, <2>3
  <2> QED BY <2>2, <2>4 DEF d, e, x
<1> QED BY <1>10, <1>11

\* The first of the positions P is cut out.
LEMMA EraseFacts ==
    ASSUME NEW S, NEW q \in Seq(S), NEW P \in SUBSET (1..Len(q)), P # {}
    PROVE  \E i \in P : Erase(q, P) \in Seq(S) /\ CutAt(q, i, Erase(q, P))
<1> DEFINE First(i) == \A j \in P : i <= j
           i == CHOOSE k \in P : First(k)
<1>1. P \in SUBSET Nat OBVIOUS
<1>2. \E k \in P : First(k) BY <1>1, LeastNat
<1>3. i \in P BY <1>2
<1>4. Erase(q, P) = RemoveAt(q, i) BY DEF Erase
<1> HIDE DEF i
<1>5. RemoveAt(q, i) \in Seq(S) /\ CutAt(q, i, RemoveAt(q, i)) BY <1>3, CutSeq DEF RemoveAt
<1> QED BY <1>3, <1>4, <1>5

LEMMA EraseQueue ==
    ASSUME NEW q \in Seq(Trans), NEW u \in Trans, InSeq(u, q), Distinct(q, 0)
    PROVE  LET r == EraseTrans(q, u) IN
           r \in Seq(Trans) /\ Distinct(r, 0) /\ \A t : InSeq(t, r) <=> InSeq(t, q) /\ t # u
<1> DEFINE P == {i \in 1..Len(q) : q[i] = u}
           r == EraseTrans(q, u)
<1>1. P \in SUBSET (1..Len(q)) /\ P # {} /\ r = Erase(q, P) BY DEF EraseTrans, InSeq
<1>2. \A i \in P : i \in 1..Len(q) /\ q[i] = u OBVIOUS
<1> HIDE DEF P, r
<1>3. PICK i \in P : r \in Seq(Trans) /\ CutAt(q, i, r) BY <1>1, EraseFacts
<1>4. i \in 1..Len(q) /\ q[i] = u BY <1>2
<1>5. Distinct(r, 0) /\ \A t : InSeq(t, r) <=> InSeq(t, q) /\ t # q[i] BY <1>3, <1>4, CutQueue
<1> QED BY <1>3, <1>4, <1>5 DEF r

LEMMA EraseItems ==
    ASSUME CacheAssumption, NEW q \in Seq(ItemType), NEW u \in Trans, InItems(u, q),
           ItemsOnce(q), ItemsNamed(q)
    PROVE  LET r == EraseItem(q, u) IN
           /\ r \in Seq(ItemType) /\ ItemsOnce(r) /\ ItemsNamed(r)
           /\ \A t \in Trans : InItems(t, r) <=> InItems(t, q) /\ t # u
           /\ \A t : InItems(t, r) => InItems(t, q)
<1> DEFINE P == {i \in 1..Len(q) : q[i].trans = u}
           r == EraseItem(q, u)
<1>1. P \in SUBSET (1..Len(q)) /\ P # {} /\ r = Erase(q, P) BY DEF EraseItem, InItems
<1>2. \A i \in P : i \in 1..Len(q) /\ q[i].trans = u OBVIOUS
<1> HIDE DEF P, r
<1>3. PICK i \in P : r \in Seq(ItemType) /\ CutAt(q, i, r) BY <1>1, EraseFacts
<1>4. i \in 1..Len(q) /\ q[i].trans = u BY <1>2
<1>5. /\ ItemsOnce(r) /\ ItemsNamed(r)
      /\ \A t \in Trans : InItems(t, r) <=> InItems(t, q) /\ t # q[i].trans
      /\ \A t : InItems(t, r) => InItems(t, q)
  BY <1>3, <1>4, CutItems
<1> QED BY <1>3, <1>4, <1>5 DEF r

\* One that waits for the backend or an operation is taken out of the list it is in.
LEMMA UnlistGood ==
    ASSUME CacheAssumption, NEW c, Good(c), c.stack # <<>> => c.stack[Len(c.stack)].k # "run",
           NEW u \in Trans, c.trans[u].st = "pending",
           NEW d \in CacheType, d.entries = c.entries, d.active = c.active, d.tasks = c.tasks,
           d.backend = c.backend, d.stack = c.stack, d.trans = Deleted(c, u).trans, Disk(d),
           ~InOp(d.op, u), ~InSeq(u, d.backend_queue),
           \A x \in Entries : ~InSeq(u, QueueOf(c, x)),
           \A i \in 1..Len(c.stack) : ~Listed(c.stack[i], u),
           \A t \in Trans \ {u} : /\ InOp(d.op, t) <=> InOp(c.op, t)
                                  /\ InSeq(t, d.backend_queue) <=> InSeq(t, c.backend_queue)
    PROVE  Good(d)
<1> DEFINE n == Len(c.stack)
           z == Deleted(c, u)
<1>1. /\ z.trans[u] = Gone /\ Gone.st = "free" /\ Gone.entry = NoEntry /\ n \in Nat
      /\ \A y \in CacheType : y.stack = c.stack /\ y.trans = z.trans =>
            Kept(c, y, u, n) /\ NewFrames(y, u, n) /\ TransOK(y, u)
  BY DeletedFacts
<1> HIDE DEF z
<1>2. d.trans = z.trans BY DEF z
<1>3. Kept(c, d, u, n) /\ NewFrames(d, u, n) /\ TransOK(d, u) BY <1>1, <1>2
<1>4. \A i \in 1..Len(c.stack) : ~(i > n) BY <1>1
<1>5. \A x \in Entries : QueueOf(d, x) = QueueOf(c, x) BY DEF QueueOf
<1>6. \A t \in Trans \ {u} : SamePlaces(c, d, t, n) BY <1>4, <1>5 DEF SamePlaces
<1>7. d.trans[u].st # "pending" BY <1>1, <1>2
<1> HIDE DEF n
<1>8. \A t \in Trans : PlacedOnce(d, t) BY <1>3, <1>5, <1>6, <1>7, WakePlaces
<1>9. KeepsLocks(c, d, u)
  <2>1. c.trans[u].entry = NoEntry BY DEF Good, TransOK
  <2>2. NoEntry \notin Entries BY DEF CacheAssumption, NoEntry
  <2>3. \A x \in Entries : u \notin Holders(c, x) BY <2>1, <2>2, HoldsEntry
  <2> QED BY <2>3 DEF KeepsLocks
<1>10. Backed(c, d, n) BY DEF Backed, Ready
<1> QED BY <1>3, <1>4, <1>8, <1>9, <1>10, CalmGood

\* One that waits for an entry is taken out of its queue.
LEMMA DequeueGood ==
    ASSUME CacheAssumption, NEW c, Good(c), c.stack # <<>> => c.stack[Len(c.stack)].k # "run",
           NEW u \in Trans, NEW e \in Live(c), InSeq(u, c.entries[e].pending_queue),
           NEW d \in CacheType, OnlyEntry(Deleted(c, u), d, e), d.entries[e] \in EntryType,
           ButQueue(d.entries[e], c.entries[e]),
           d.entries[e].pending_queue = EraseTrans(c.entries[e].pending_queue, u)
    PROVE  Good(d)
<1> DEFINE n == Len(c.stack)
           z == Deleted(c, u)
<1>1. c \in CacheType /\ LockOK(c, e) /\ e \in Entries /\ Tasked(c) BY DEF Good, Live
<1>2. c.entries[e] # Dead /\ d.entries[e] # Dead /\ c.entries[e].pending_queue \in Seq(Trans)
  BY <1>1, EntryTypes, Shapes
<1>3. InPlace(c, u, "entry", e) BY DEF InPlace
<1>4. /\ c.trans[u].st = "pending" /\ ~InOp(c.op, u) /\ ~InSeq(u, c.backend_queue)
      /\ \A y \in Entries : InSeq(u, QueueOf(c, y)) => e = y
      /\ \A i \in 1..Len(c.stack) : ~Listed(c.stack[i], u)
  BY <1>3, Elsewhere
<1>5. /\ SameData(c, z) /\ SameTrans(c, z, u) /\ z.stack = c.stack
      /\ z.trans[u] = Gone /\ Gone.st = "free" /\ Gone.entry = NoEntry /\ n \in Nat
      /\ \A y \in CacheType : y.stack = c.stack /\ y.trans = z.trans =>
            Kept(c, y, u, n) /\ NewFrames(y, u, n) /\ TransOK(y, u)
  BY <1>4, DeletedFacts
<1>6. OnlyEntry(z, d, e) OBVIOUS
<1> HIDE DEF z
<1>7. AtEntry(c, d, e) BY <1>5, <1>6 DEF AtEntry, OnlyEntry, SameData, ButQueue
<1>8. /\ d.trans[u] = Gone /\ SameTrans(c, d, u) /\ d.stack = c.stack
      /\ Kept(c, d, u, n) /\ NewFrames(d, u, n) /\ TransOK(d, u)
  BY <1>5, <1>6 DEF OnlyEntry, SameTrans
<1>9. \A i \in 1..Len(c.stack) : ~(i > n) BY <1>5
<1>10. \A x \in Entries : u \notin Holders(c, x)
  <2>1. c.trans[u].entry = NoEntry BY <1>4 DEF Good, TransOK
  <2>2. NoEntry \notin Entries BY DEF CacheAssumption, NoEntry
  <2> QED BY <1>4, <2>1, <2>2, HoldsEntry
<1>11. Holders(d, e) = Holders(c, e) BY <1>2 DEF Holders, ButQueue
<1> DEFINE q == c.entries[e].pending_queue
           r == EraseTrans(q, u)
<1>12. r \in Seq(Trans) /\ Distinct(r, 0) /\ \A t : InSeq(t, r) <=> InSeq(t, q) /\ t # u
  BY <1>1, <1>2, EraseQueue DEF LockOK
<1>13. d.entries[e].pending_queue = r OBVIOUS
<1> HIDE DEF r
<1>14. LockOK(d, e)
  <2>1. ASSUME NEW t \in Holders(c, e) PROVE d.trans[t] = c.trans[t] /\ c.trans[t].entry = e
    <3>1. t \in Trans /\ t # u
      BY <1>1, <1>2, <1>10, <2>1, EntryTypes DEF Holders
    <3>2. d.trans[t] = c.trans[t] BY <1>8, <3>1 DEF SameTrans
    <3>3. c.stack # <<>> => ~Runs(c, Len(c.stack), t) BY DEF Runs
    <3>4. c.trans[t].entry = e BY <1>1, <2>1, <3>1, <3>3, HoldsWhat
    <3> QED BY <3>2, <3>4
  <2>2. ~Finding(c, e) BY <1>5 DEF Finding
  <2>3. \A t \in Trans : InSeq(t, r) => d.trans[t].new_entry = e
    BY <1>1, <1>8, <1>12 DEF LockOK, SameTrans
  <2>4. \A t \in d.entries[e].readers : t \in Holders(c, e) BY <1>2 DEF Holders, ButQueue
  <2>5. d.entries[e].writer # NoTrans => d.entries[e].writer \in Holders(c, e)
    BY <1>2 DEF Holders, ButQueue
  <2>6. /\ d.entries[e].writer # NoTrans => /\ d.entries[e].readers = {} /\ ~d.entries[e].will_process
                                            /\ CanWrite(d.trans[d.entries[e].writer].mode)
        /\ \A t \in d.entries[e].readers : ~CanWrite(d.trans[t].mode)
    BY <1>1, <2>1, <2>4, <2>5 DEF LockOK, ButQueue
  <2>7. ~d.entries[e].doomed => d.active = e BY <1>1, <1>7 DEF LockOK, AtEntry
  <2>8. Holders(d, e) # {} \/ d.entries[e].will_process BY <1>1, <1>11, <2>2 DEF LockOK, ButQueue
  <2> QED BY <1>11, <1>12, <1>13, <2>1, <2>3, <2>6, <2>7, <2>8 DEF LockOK
<1>15. Tasked(d)
  <2>1. d.tasks = c.tasks BY <1>5, <1>6 DEF OnlyEntry, SameData
  <2> QED BY <1>1, <1>2, <1>7, <2>1, TaskedSame DEF AtEntry, ButQueue
<1>16. \A t \in Trans : PlacedOnce(d, t)
  <2>1. QueueOf(d, e) = r /\ QueueOf(c, e) = q BY <1>2, <1>13 DEF QueueOf
  <2>2. \A x \in Entries \ {e} : QueueOf(d, x) = QueueOf(c, x) BY <1>7 DEF QueueOf, AtEntry
  <2> HIDE DEF q
  <2>3. \A t \in Trans \ {u} : \A x \in Entries : InSeq(t, QueueOf(d, x)) <=> InSeq(t, QueueOf(c, x))
    BY <1>12, <2>1, <2>2
  <2>4. \A t \in Trans \ {u} : SamePlaces(c, d, t, n) BY <1>7, <1>8, <1>9, <2>3 DEF SamePlaces, AtEntry
  <2>5. \A x \in Entries : ~InSeq(u, QueueOf(d, x)) BY <1>4, <1>12, <2>1, <2>2
  <2>6. ~InOp(d.op, u) /\ ~InSeq(u, d.backend_queue) BY <1>4, <1>7 DEF AtEntry
  <2>7. d.trans[u].st # "pending" /\ \A i \in 1..Len(d.stack) : ~Listed(d.stack[i], u)
    BY <1>4, <1>5, <1>8
  <2> HIDE DEF n
  <2> QED BY <1>8, <2>4, <2>5, <2>6, <2>7, WakePlaces
<1> HIDE DEF n
<1> QED BY <1>4, <1>7, <1>8, <1>9, <1>10, <1>11, <1>14, <1>15, <1>16, EntryGood

SetOpWriter(c, t) == [c EXCEPT !.op.writer.trans = t]
SetOpQueue(c, q) == [c EXCEPT !.op.queue = q]

LEMMA OpParts ==
    ASSUME NEW c \in CacheType, c.op # NoOp
    PROVE  /\ c.op \in OpType /\ c.op.writer \in ItemType /\ c.op.queue \in Seq(ItemType)
           /\ \A t : InOp(c.op, t) <=> c.op.writer.trans = t \/ InItems(t, c.op.queue)
BY FieldTypes DEF OpType, InOp, InItems

LEMMA SetOpWriterFacts ==
    ASSUME NEW c \in CacheType, c.op # NoOp
    PROVE  LET d == SetOpWriter(c, NoTrans) IN
           /\ d \in CacheType /\ d.active = c.active /\ d.entries = c.entries
           /\ d.backend_queue = c.backend_queue /\ d.tasks = c.tasks /\ d.trans = c.trans
           /\ d.stack = c.stack /\ d.backend = c.backend /\ d.op # NoOp
           /\ d.op.writer.trans = NoTrans /\ d.op.queue = c.op.queue
<1> DEFINE w == [c.op.writer EXCEPT !.trans = NoTrans]
           o == [c.op EXCEPT !.writer = w]
           d == SetOp(c, o)
<1>1. c.op \in OpType /\ c.op.writer \in ItemType BY OpParts
<1>2. w \in ItemType /\ w.trans = NoTrans BY <1>1 DEF ItemType
<1> HIDE DEF w
<1>3. o \in OpType /\ o.writer = w /\ o.queue = c.op.queue BY <1>1, <1>2 DEF OpType
<1> HIDE DEF o
<1>4. o # NoOp BY <1>3, Shapes
<1>5. /\ d \in CacheType /\ d.active = c.active /\ d.entries = c.entries /\ d.op = o
      /\ d.backend_queue = c.backend_queue /\ d.tasks = c.tasks /\ d.trans = c.trans
      /\ d.stack = c.stack /\ d.backend = c.backend
  BY <1>3, SetOpFacts
<1>6. SetOpWriter(c, NoTrans) = d BY DEF SetOpWriter, SetOp, o, w
<1> HIDE DEF d
<1> QED BY <1>2, <1>3, <1>4, <1>5, <1>6

LEMMA SetOpQueueFacts ==
    ASSUME NEW c \in CacheType, c.op # NoOp, NEW q \in Seq(ItemType)
    PROVE  LET d == SetOpQueue(c, q) IN
           /\ d \in CacheType /\ d.active = c.active /\ d.entries = c.entries
           /\ d.backend_queue = c.backend_queue /\ d.tasks = c.tasks /\ d.trans = c.trans
           /\ d.stack = c.stack /\ d.backend = c.backend /\ d.op # NoOp
           /\ d.op.writer = c.op.writer /\ d.op.queue = q
<1> DEFINE o == [c.op EXCEPT !.queue = q]
           d == SetOp(c, o)
<1>1. c.op \in OpType BY OpParts
<1>2. o \in OpType /\ o.writer = c.op.writer /\ o.queue = q BY <1>1 DEF OpType
<1> HIDE DEF o
<1>3. o # NoOp BY <1>2, Shapes
<1>4. /\ d \in CacheType /\ d.active = c.active /\ d.entries = c.entries /\ d.op = o
      /\ d.backend_queue = c.backend_queue /\ d.tasks = c.tasks /\ d.trans = c.trans
      /\ d.stack = c.stack /\ d.backend = c.backend
  BY <1>2, SetOpFacts
<1>5. SetOpQueue(c, q) = d BY DEF SetOpQueue, SetOp, o
<1> HIDE DEF d
<1> QED BY <1>2, <1>3, <1>4, <1>5

\* The writer of the operation, or one of the items behind it, is gone.
LEMMA UnlistOpGood ==
    ASSUME CacheAssumption, NEW c, Good(c), c.stack # <<>> => c.stack[Len(c.stack)].k # "run",
           NEW u \in Trans, InOp(c.op, u),
           NEW d \in CacheType, d.entries = c.entries, d.active = c.active, d.tasks = c.tasks,
           d.backend = c.backend, d.stack = c.stack, d.trans = Deleted(c, u).trans,
           d.backend_queue = c.backend_queue, d.op # NoOp,
           ItemsOnce(d.op.queue), ItemsNamed(d.op.queue), \A t : InItems(t, d.op.queue) => InItems(t, c.op.queue),
           d.op.writer.trans \in {c.op.writer.trans, NoTrans},
           \A t \in Trans : InOp(d.op, t) <=> InOp(c.op, t) /\ t # u
    PROVE  Good(d)
<1>1. c \in CacheType /\ Disk(c) BY DEF Good
<1>2. c.op # NoOp BY DEF InOp
<1>3. InPlace(c, u, "op", 0) BY DEF InPlace
<1>4. /\ c.trans[u].st = "pending" /\ ~InSeq(u, c.backend_queue)
      /\ \A x \in Entries : ~InSeq(u, QueueOf(c, x))
      /\ \A i \in 1..Len(c.stack) : ~Listed(c.stack[i], u)
  BY <1>3, Elsewhere
<1>5. ASSUME NEW i \in 1..Len(d.op.queue), d.op.queue[i].trans = d.op.writer.trans
      PROVE  d.op.writer.trans = NoTrans
  <2> SUFFICES ASSUME d.op.writer.trans # NoTrans PROVE FALSE OBVIOUS
  <2>1. d.op.writer.trans = c.op.writer.trans OBVIOUS
  <2>2. InItems(c.op.writer.trans, c.op.queue) BY <1>5, <2>1 DEF InItems
  <2> QED BY <1>1, <1>2, <2>1, <2>2 DEF Disk, InItems
<1>6. Disk(d)
  <2>1. Live(d) = Live(c) BY DEF Live
  <2>2. c.active = NoEntry /\ c.backend = "disk" BY <1>1, <1>2 DEF Disk
  <2> QED BY <1>1, <1>5, <2>1, <2>2 DEF Disk, Ready
<1> QED BY <1>4, <1>6, UnlistGood

\* One that waits is found where it waits.
LEMMA DeletePendingGood ==
    ASSUME CacheAssumption, NEW c, Good(c), c.stack # <<>> => c.stack[Len(c.stack)].k # "run",
           NEW u \in Trans, c.trans[u].st = "pending", ~InLocalList(c, u)
    PROVE  Good(RemovePendingTransaction(Deleted(c, u), u))
<1> DEFINE z == Deleted(c, u)
           a == z.active
           Queued(e) == InSeq(u, z.entries[e].pending_queue)
           doomed == {e \in Live(z) : z.entries[e].doomed /\ Queued(e)}
           Out(e) == SetQueue(z, e, EraseTrans(z.entries[e].pending_queue, u))
           isActive == a # NoEntry /\ Queued(a)
           isBackend == InSeq(u, z.backend_queue)
           isWriter == z.op # NoOp /\ z.op.writer.trans = u
           isItem == z.op # NoOp /\ InItems(u, z.op.queue)
           outBackend == [z EXCEPT !.backend_queue = EraseTrans(z.backend_queue, u)]
           outWriter == SetOpWriter(z, NoTrans)
           outItem == SetOpQueue(z, EraseItem(z.op.queue, u))
           one == CHOOSE e \in doomed : TRUE
<1>1. RemovePendingTransaction(z, u) =
          IF isActive THEN Out(a) ELSE IF isBackend THEN outBackend
          ELSE IF isWriter THEN outWriter ELSE IF isItem THEN outItem
          ELSE IF doomed # {} THEN Out(one) ELSE Fail(z, "found", FALSE)
  BY DEF RemovePendingTransaction, SetQueue, SetOpWriter, SetOpQueue, InItems
<1>2. c \in CacheType /\ Disk(c) /\ PlacedOnce(c, u) BY DEF Good
<1>3. /\ z \in CacheType /\ SameData(c, z) /\ z.stack = c.stack BY DeletedFacts
<1> HIDE DEF z
<1>4. /\ z.active = c.active /\ z.entries = c.entries /\ z.op = c.op /\ z.backend = c.backend
      /\ z.backend_queue = c.backend_queue /\ z.tasks = c.tasks /\ Live(z) = Live(c)
  BY <1>3 DEF SameData, Live
<1>5. ASSUME NEW e \in Live(c), InSeq(u, c.entries[e].pending_queue) PROVE Good(Out(e))
  <2> DEFINE q == EraseTrans(z.entries[e].pending_queue, u)
             d == SetQueue(z, e, q)
  <2>1. /\ e \in Entries /\ c.entries[e] \in EntryType /\ c.entries[e].pending_queue \in Seq(Trans)
        /\ z.entries[e] = c.entries[e] /\ Distinct(c.entries[e].pending_queue, 0)
    BY <1>2, <1>4, EntryTypes DEF Good, LockOK, Live
  <2>2. q \in Seq(Trans) BY <1>5, <2>1, EraseQueue
  <2>3. q = EraseTrans(c.entries[e].pending_queue, u) BY <2>1
  <2> HIDE DEF q
  <2>4. /\ OnlyEntry(z, d, e) /\ d.entries[e] \in EntryType /\ d.entries[e].pending_queue = q
        /\ ButQueue(d.entries[e], c.entries[e])
    BY <1>3, <2>1, <2>2, SetQueueFacts
  <2> HIDE DEF d
  <2>5. d \in CacheType /\ OnlyEntry(Deleted(c, u), d, e) BY <2>4 DEF OnlyEntry, z
  <2>6. Good(d) BY <1>5, <2>3, <2>4, <2>5, DequeueGood
  <2> QED BY <2>6 DEF d, q
<1>6. CASE isActive
  <2>1. a \in Live(c) BY <1>2, <1>4, <1>6, FieldTypes DEF Disk, Live
  <2>2. InSeq(u, c.entries[a].pending_queue) BY <1>4, <1>6
  <2>3. Good(Out(a)) BY <1>5, <2>1, <2>2
  <2> QED BY <1>1, <1>6, <2>3 DEF z
<1>7. CASE ~isActive /\ isBackend
  <2> DEFINE q == EraseTrans(z.backend_queue, u)
             d == [z EXCEPT !.backend_queue = q]
  <2>1. c.backend_queue \in Seq(Trans) /\ Distinct(c.backend_queue, 0) /\ InSeq(u, c.backend_queue)
    BY <1>2, <1>4, <1>7, FieldTypes DEF Disk
  <2>2. q \in Seq(Trans) /\ Distinct(q, 0) /\ \A t : InSeq(t, q) <=> InSeq(t, c.backend_queue) /\ t # u
    BY <1>4, <2>1, EraseQueue
  <2>3. d = outBackend OBVIOUS
  <2> HIDE DEF q
  <2>4. /\ d \in CacheType /\ d.active = z.active /\ d.entries = z.entries /\ d.op = z.op
        /\ d.backend_queue = q /\ d.tasks = z.tasks /\ d.trans = z.trans
        /\ d.stack = z.stack /\ d.backend = z.backend
    BY <1>3, <2>2, SetBackendQueue
  <2> HIDE DEF d
  <2>5. InPlace(c, u, "backend", 0) BY <2>1 DEF InPlace
  <2>6. /\ ~InOp(c.op, u) /\ \A x \in Entries : ~InSeq(u, QueueOf(c, x))
        /\ \A i \in 1..Len(c.stack) : ~Listed(c.stack[i], u)
    BY <2>5, Elsewhere
  <2>7. Disk(d)
    <3>1. Live(d) = Live(c) BY <1>4, <2>4 DEF Live
    <3> QED BY <1>2, <1>4, <2>2, <2>4, <3>1 DEF Disk, Ready
  <2>8. d.trans = Deleted(c, u).trans BY <2>4 DEF z
  <2>9. Good(d) BY <1>3, <1>4, <2>2, <2>4, <2>6, <2>7, <2>8, UnlistGood
  <2> QED BY <1>1, <1>7, <2>3, <2>9 DEF z
<1>8. CASE ~isActive /\ ~isBackend /\ isWriter
  <2> DEFINE d == outWriter
  <2>1. c.op # NoOp /\ c.op.writer.trans = u BY <1>4, <1>8
  <2>2. /\ ItemsOnce(c.op.queue) /\ ItemsNamed(c.op.queue) /\ u # NoTrans
        /\ \A t : InOp(c.op, t) <=> c.op.writer.trans = t \/ InItems(t, c.op.queue)
        /\ ~InItems(u, c.op.queue)
    <3>1. u # NoTrans BY DEF CacheAssumption
    <3> QED BY <1>2, <2>1, <3>1, OpParts DEF Disk, InItems
  <2>3. /\ d \in CacheType /\ d.active = z.active /\ d.entries = z.entries
        /\ d.backend_queue = z.backend_queue /\ d.tasks = z.tasks /\ d.trans = z.trans
        /\ d.stack = z.stack /\ d.backend = z.backend /\ d.op # NoOp
        /\ d.op.writer.trans = NoTrans /\ d.op.queue = z.op.queue
    BY <1>3, <1>4, <2>1, SetOpWriterFacts
  <2> HIDE DEF d
  <2>4. \A t : InOp(d.op, t) <=> d.op.writer.trans = t \/ InItems(t, d.op.queue) BY <2>3, OpParts
  <2>5. \A t \in Trans : InOp(d.op, t) <=> InOp(c.op, t) /\ t # u
    <3>1. NoTrans \notin Trans BY DEF CacheAssumption
    <3> QED BY <1>4, <2>1, <2>2, <2>3, <2>4, <3>1
  <2>6. d.trans = Deleted(c, u).trans BY <2>3 DEF z
  <2>7. InOp(c.op, u) BY <2>1, <2>2
  <2>8. Good(d) BY <1>3, <1>4, <2>2, <2>3, <2>5, <2>6, <2>7, UnlistOpGood
  <2> QED BY <1>1, <1>8, <2>8 DEF z, d
<1>9. CASE ~isActive /\ ~isBackend /\ ~isWriter /\ isItem
  <2> DEFINE d == outItem
             q == EraseItem(z.op.queue, u)
  <2>1. c.op # NoOp /\ c.op.writer.trans # u /\ InItems(u, c.op.queue) BY <1>4, <1>9
  <2>2. /\ ItemsOnce(c.op.queue) /\ ItemsNamed(c.op.queue) /\ c.op.queue \in Seq(ItemType)
        /\ \A t : InOp(c.op, t) <=> c.op.writer.trans = t \/ InItems(t, c.op.queue)
    BY <1>2, <2>1, OpParts DEF Disk
  <2>3. /\ q \in Seq(ItemType) /\ ItemsOnce(q) /\ ItemsNamed(q)
        /\ \A t \in Trans : InItems(t, q) <=> InItems(t, c.op.queue) /\ t # u
        /\ \A t : InItems(t, q) => InItems(t, c.op.queue)
    BY <1>4, <2>1, <2>2, EraseItems
  <2>4. d = SetOpQueue(z, q) OBVIOUS
  <2> HIDE DEF q
  <2>5. /\ d \in CacheType /\ d.active = z.active /\ d.entries = z.entries
        /\ d.backend_queue = z.backend_queue /\ d.tasks = z.tasks /\ d.trans = z.trans
        /\ d.stack = z.stack /\ d.backend = z.backend /\ d.op # NoOp
        /\ d.op.writer = z.op.writer /\ d.op.queue = q
    BY <1>3, <1>4, <2>1, <2>3, <2>4, SetOpQueueFacts
  <2> HIDE DEF d
  <2>6. \A t : InOp(d.op, t) <=> d.op.writer.trans = t \/ InItems(t, d.op.queue) BY <2>5, OpParts
  <2>7. \A t \in Trans : InOp(d.op, t) <=> InOp(c.op, t) /\ t # u
    BY <1>4, <2>1, <2>2, <2>3, <2>5, <2>6
  <2>8. d.trans = Deleted(c, u).trans BY <2>5 DEF z
  <2>9. InOp(c.op, u) BY <2>1, <2>2
  <2>10. Good(d) BY <1>3, <1>4, <2>3, <2>5, <2>7, <2>8, <2>9, UnlistOpGood
  <2> QED BY <1>1, <1>9, <2>10 DEF z, d
<1>10. CASE ~isActive /\ ~isBackend /\ ~isWriter /\ ~isItem
  <2>1. ~InOp(c.op, u) BY <1>4, <1>10 DEF InOp, InItems
  <2>2. ~InSeq(u, c.backend_queue) BY <1>4, <1>10
  <2>3. \A i \in 1..Len(c.stack) : ~Listed(c.stack[i], u) BY DEF InLocalList, Listed
  <2>4. PICK k, x : InPlace(c, u, k, x) BY <1>2 DEF PlacedOnce
  <2>5. x \in Live(c) /\ InSeq(u, c.entries[x].pending_queue) BY <2>1, <2>2, <2>3, <2>4 DEF InPlace
  <2>6. c.entries[x].doomed
    <3> SUFFICES ASSUME ~c.entries[x].doomed PROVE FALSE OBVIOUS
    <3>1. c.active = x BY <2>5 DEF Good, LockOK
    <3>2. x # NoEntry BY <2>5 DEF Live, CacheAssumption, NoEntry
    <3> QED BY <1>4, <1>10, <2>5, <3>1, <3>2
  <2>7. x \in doomed BY <1>4, <2>5, <2>6
  <2>8. doomed # {} /\ one \in doomed BY <2>7
  <2>9. one \in Live(c) /\ InSeq(u, c.entries[one].pending_queue) BY <1>4, <2>8
  <2>10. RemovePendingTransaction(z, u) = Out(one) BY <1>1, <1>10, <2>8
  <2> HIDE DEF one
  <2>11. Good(Out(one)) BY <1>5, <2>9
  <2> QED BY <2>10, <2>11 DEF z
<1> QED BY <1>6, <1>7, <1>8, <1>9, <1>10

LEMMA DeleteGood ==
    ASSUME CacheAssumption, Good(cache), NEW t \in Trans, Delete(t)
    PROVE  Good(cache')
<1> DEFINE c == Called(cache)
<1>1. /\ Good(c) /\ c.trans = cache.trans /\ c.stack = cache.stack
      /\ InLocalList(c, t) <=> InLocalList(cache, t)
  BY CalledGood
<1>2. cache.stack # <<>> => cache.stack[Len(cache.stack)].k # "run" BY UserTop DEF Delete
<1>3. \/ /\ cache.trans[t].st = "own"
         /\ \E success \in BOOLEAN :
              cache' = DoneWithEntry(Deleted(c, t), cache.trans[t].entry, t, success)
      \/ /\ cache.trans[t].st = "pending" /\ ~InLocalList(cache, t)
         /\ cache' = RemovePendingTransaction(Deleted(c, t), t)
  BY DEF Delete, Deleted
<1> HIDE DEF c
<1>4. c.stack # <<>> => c.stack[Len(c.stack)].k # "run" BY <1>1, <1>2
<1>5. CASE c.trans[t].st = "own"
          /\ \E success \in BOOLEAN :
               cache' = DoneWithEntry(Deleted(c, t), c.trans[t].entry, t, success)
  BY <1>1, <1>4, <1>5, DeleteOwnGood
<1>6. CASE /\ c.trans[t].st = "pending" /\ ~InLocalList(c, t)
           /\ cache' = RemovePendingTransaction(Deleted(c, t), t)
  BY <1>1, <1>4, <1>6, DeletePendingGood
<1> QED BY <1>1, <1>3, <1>5, <1>6

-----------------------------------------------------------------------------
(* Letting a transaction in.                                               *)

\* t has become the writer of e, or one of its readers.
Admitted(c, d, e, t) ==
    \/ /\ CanWrite(c.trans[t].mode) /\ c.entries[e].readers = {}
       /\ d.entries[e].writer = t /\ d.entries[e].readers = {} /\ ~d.entries[e].will_process
    \/ /\ ~CanWrite(c.trans[t].mode) /\ d.entries[e].writer = NoTrans
       /\ d.entries[e].readers = c.entries[e].readers \cup {t}

LEMMA AddFacts ==
    ASSUME NEW c \in CacheType, Tasked(c), NEW e \in Entries, c.entries[e] \in EntryType, NEW t \in Trans,
           c.entries[e].writer = NoTrans, ~c.entries[e].will_process,
           CanWrite(c.trans[t].mode) => c.entries[e].readers = {}
    PROVE  LET a == AddTransactionToEntry(c, e, t)
               d == a.cache
           IN  /\ a.rv = "OK" /\ AtEntry(c, d, e) /\ d.trans = c.trans /\ d.stack = c.stack /\ Tasked(d)
               /\ d.entries[e].pending_queue = c.entries[e].pending_queue /\ Admitted(c, d, e, t)
<1>1. CASE CanWrite(c.trans[t].mode)
  <2> DEFINE d == SetWriter(c, e, t)
  <2>1. AddTransactionToEntry(c, e, t) = [rv |-> "OK", cache |-> d]
    BY <1>1 DEF AddTransactionToEntry, SetWriter
  <2>2. t \in Lockers BY DEF Lockers
  <2>3. /\ OnlyEntry(c, d, e) /\ d.entries[e] \in EntryType /\ d.entries[e].writer = t
        /\ ButWriter(d.entries[e], c.entries[e])
    BY <2>2, SetWriterFacts
  <2> HIDE DEF d
  <2>4. AtEntry(c, d, e) /\ d.trans = c.trans /\ d.stack = c.stack BY <2>3 DEF AtEntry, OnlyEntry, ButWriter
  <2>5. Tasked(d)
    <3>1. c.entries[e] # Dead /\ d.entries[e] # Dead BY <2>3, Shapes
    <3> QED BY <2>3, <3>1, TaskedSame DEF OnlyEntry, ButWriter
  <2>6. d.entries[e].pending_queue = c.entries[e].pending_queue /\ Admitted(c, d, e, t)
    BY <1>1, <2>3 DEF ButWriter, Admitted
  <2> QED BY <2>1, <2>4, <2>5, <2>6
<1>2. CASE ~CanWrite(c.trans[t].mode)
  <2> DEFINE r == c.entries[e].readers \cup {t}
             x == SetReaders(c, e, r)
             y == ProcessPendingQueue(x, e)
             d == IF c.entries[e].pending_queue = <<>> THEN x ELSE y
  <2>1. AddTransactionToEntry(c, e, t) = [rv |-> "OK", cache |-> d]
    BY <1>2 DEF AddTransactionToEntry, SetReaders
  <2>2. r \in SUBSET Trans BY DEF EntryType
  <2> HIDE DEF r
  <2>3. /\ OnlyEntry(c, x, e) /\ x.entries[e] \in EntryType /\ x.entries[e].readers = r
        /\ ButReaders(x.entries[e], c.entries[e])
    BY <2>2, SetReadersFacts
  <2> HIDE DEF x
  <2>4. AtEntry(c, x, e) /\ x \in CacheType /\ x.trans = c.trans /\ x.stack = c.stack
    BY <2>3 DEF AtEntry, OnlyEntry, ButReaders
  <2>5. Tasked(x)
    <3>1. c.entries[e] # Dead /\ x.entries[e] # Dead BY <2>3, Shapes
    <3> QED BY <2>3, <3>1, TaskedSame DEF OnlyEntry, ButReaders
  <2>6. /\ AtEntry(x, y, e) /\ y.trans = x.trans /\ y.stack = x.stack /\ Tasked(y)
        /\ ButProcess(y.entries[e], x.entries[e])
    BY <2>3, <2>4, <2>5, ProcessFacts
  <2> HIDE DEF y
  <2>7. AtEntry(c, y, e) BY <2>4, <2>6 DEF AtEntry
  <2>8. /\ x.entries[e].writer = NoTrans /\ x.entries[e].readers = c.entries[e].readers \cup {t}
        /\ x.entries[e].pending_queue = c.entries[e].pending_queue
    BY <2>3 DEF ButReaders, r
  <2>9. /\ y.entries[e].writer = NoTrans /\ y.entries[e].readers = c.entries[e].readers \cup {t}
        /\ y.entries[e].pending_queue = c.entries[e].pending_queue
    BY <2>6, <2>8 DEF ButProcess
  <2>10. d = x \/ d = y OBVIOUS
  <2> HIDE DEF d
  <2>11. AtEntry(c, d, e) /\ d.trans = c.trans /\ d.stack = c.stack /\ Tasked(d)
    BY <2>4, <2>5, <2>6, <2>7, <2>10
  <2>12. d.entries[e].pending_queue = c.entries[e].pending_queue BY <2>8, <2>9, <2>10
  <2>13. Admitted(c, d, e, t) BY <1>2, <2>8, <2>9, <2>10 DEF Admitted
  <2> QED BY <2>1, <2>11, <2>12, <2>13
<1> QED BY <1>1, <1>2

\* The lock after u was let in, with the frame that notes it.
LEMMA AdmittedLock ==
    ASSUME CacheAssumption, NEW c, Good(c), NEW e \in Live(c), NEW d, AtEntry(c, d, e),
           NEW u \in Trans, NEW n, Kept(c, d, u, n), Adding(d, e, u), d.trans[u].mode = c.trans[u].mode,
           c.entries[e].writer = NoTrans, Admitted(c, d, e, u), Distinct(d.entries[e].pending_queue, 0),
           \A t \in Trans : InSeq(t, d.entries[e].pending_queue) =>
                                InSeq(t, c.entries[e].pending_queue) /\ t # u
    PROVE  /\ LockOK(d, e) /\ u \in Holders(d, e)
           /\ \A t \in Trans : t \in Holders(c, e) => t \in Holders(d, e)
<1>1. c \in CacheType /\ LockOK(c, e) /\ e \in Entries BY DEF Good, Live
<1>2. /\ c.entries[e] # Dead /\ d.entries[e] # Dead /\ u # NoTrans
      /\ c.entries[e].readers \subseteq Trans
  BY <1>1, EntryTypes, Shapes DEF AtEntry, CacheAssumption
<1>3. Holders(c, e) = c.entries[e].readers BY <1>2 DEF Holders
<1>4. Holders(d, e) = Holders(c, e) \cup {u}
  <2>1. Holders(d, e) = d.entries[e].readers \cup ({d.entries[e].writer} \ {NoTrans}) BY <1>2 DEF Holders
  <2>2. CASE CanWrite(c.trans[u].mode) BY <1>2, <1>3, <2>1, <2>2 DEF Admitted
  <2>3. CASE ~CanWrite(c.trans[u].mode) BY <1>2, <1>3, <2>1, <2>3 DEF Admitted
  <2> QED BY <2>2, <2>3
<1>5. \A t \in Trans \ {u} : d.trans[t] = c.trans[t] BY DEF Kept
<1>6. ASSUME NEW t \in c.entries[e].readers, t # u PROVE d.trans[t].entry = e /\ ~CanWrite(d.trans[t].mode)
  <2>1. t \in Trans /\ t \in Holders(c, e) BY <1>2, <1>3, <1>6
  <2>2. c.trans[t].entry = e BY <1>6, <2>1, OthersUse
  <2> QED BY <1>1, <1>5, <1>6, <2>1, <2>2 DEF LockOK
<1>7. \A t \in Holders(d, e) : d.trans[t].entry = e \/ Adding(d, e, t)
  BY <1>3, <1>4, <1>6
<1>8. d.entries[e].writer # NoTrans => /\ d.entries[e].readers = {} /\ ~d.entries[e].will_process
                                       /\ CanWrite(d.trans[d.entries[e].writer].mode)
  BY DEF Admitted
<1>9. \A t \in d.entries[e].readers : ~CanWrite(d.trans[t].mode)
  BY <1>6 DEF Admitted
<1>10. ~d.entries[e].doomed => d.active = e BY <1>1 DEF LockOK, AtEntry
<1>11. \A t \in Trans : InSeq(t, d.entries[e].pending_queue) => d.trans[t].new_entry = e
  BY <1>1, <1>5 DEF LockOK
<1>12. LockOK(d, e) BY <1>4, <1>7, <1>8, <1>9, <1>10, <1>11 DEF LockOK
<1> QED BY <1>4, <1>12

\* The DoLoop on top has found the entry in use, and holds nothing.
LEMMA FoundFacts ==
    ASSUME CacheAssumption, NEW c, Good(c), NEW u \in Trans, c.stack # <<>>, Runs(c, Len(c.stack), u),
           Top(c).s = "ADD_TO_ENTRY"
    PROVE  LET e == c.trans[u].new_entry IN
           /\ e = c.active /\ e \in Live(c) /\ e \in Entries /\ c.entries[e] \in EntryType /\ LockOK(c, e)
           /\ Ready(c) /\ c.trans[u].st = "running" /\ c.trans[u].entry = NoEntry
           /\ \A x \in Entries : u \notin Holders(c, x) /\ ~InSeq(u, QueueOf(c, x))
           /\ ~InOp(c.op, u) /\ ~InSeq(u, c.backend_queue)
           /\ \A i \in 1..Len(c.stack) : ~Listed(c.stack[i], u)
           /\ \A t : \A i \in 1..Len(c.stack) : i > Len(c.stack) - 1 => ~Listed(c.stack[i], t)
<1> DEFINE e == c.trans[u].new_entry
<1>1. c \in CacheType /\ Disk(c) /\ Len(c.stack) \in Nat \ {0} BY FieldTypes DEF Good
<1>2. Len(c.stack) \in 1..Len(c.stack) BY <1>1
<1>3. c.trans[u].st = "running" /\ FrameOK(c, Top(c)) BY <1>2 DEF Good, Framed, Frames, Top
<1>4. Top(c).k = "run" /\ Top(c).t = u /\ Found(Top(c)) /\ ~Added(Top(c))
  BY DEF Runs, Top, Found, Added
<1>5. e = c.active /\ e # NoEntry /\ Ready(c) /\ c.trans[u].entry = NoEntry
  BY <1>3, <1>4 DEF FrameOK
<1>6. e \in Entries /\ e \in Live(c) /\ c.entries[e] \in EntryType /\ LockOK(c, e)
  BY <1>1, <1>5, FieldTypes, EntryTypes DEF Disk, Live, Good
<1>7. \A x \in Entries : u \notin Holders(c, x) BY <1>4, HoldsTop DEF Top
<1>8. /\ \A x \in Entries : ~InSeq(u, QueueOf(c, x))
      /\ ~InOp(c.op, u) /\ ~InSeq(u, c.backend_queue)
      /\ \A i \in 1..Len(c.stack) : ~Listed(c.stack[i], u)
  BY <1>3, Nowhere
<1>9. \A i \in 1..Len(c.stack) : i > Len(c.stack) - 1 => i = Len(c.stack) BY <1>1
<1>10. \A t : \A i \in 1..Len(c.stack) : i > Len(c.stack) - 1 => ~Listed(c.stack[i], t)
  BY <1>9 DEF Listed, Runs
<1> QED BY <1>3, <1>5, <1>6, <1>7, <1>8, <1>10

\* It is let in, and will note it.
LEMMA AddNowGood ==
    ASSUME CacheAssumption, NEW c, Good(c), NEW u \in Trans, c.stack # <<>>, Runs(c, Len(c.stack), u),
           Top(c).s = "ADD_TO_ENTRY", NEW e, e = c.trans[u].new_entry, c.entries[e].writer = NoTrans,
           ~c.entries[e].will_process, CanWrite(c.trans[u].mode) => c.entries[e].readers = {}
    PROVE  LET a == AddTransactionToEntry(c, e, u)
           IN  a.rv = "OK" /\ Good(Goto(a.cache, u, "ADD_COMPLETE", a.rv))
<1> DEFINE a == AddTransactionToEntry(c, e, u)
           y == a.cache
           d == Goto(y, u, "ADD_COMPLETE", "OK")
           n == Len(c.stack) - 1
<1>1. c \in CacheType /\ Tasked(c) /\ Len(c.stack) \in Nat \ {0} BY FieldTypes DEF Good
<1>2. /\ e \in Live(c) /\ e \in Entries /\ c.entries[e] \in EntryType /\ LockOK(c, e)
      /\ Ready(c) /\ c.trans[u].st = "running" /\ c.trans[u].entry = NoEntry
      /\ \A x \in Entries : u \notin Holders(c, x) /\ ~InSeq(u, QueueOf(c, x))
      /\ \A t : \A i \in 1..Len(c.stack) : i > n => ~Listed(c.stack[i], t)
  BY FoundFacts
<1>3. /\ a.rv = "OK" /\ AtEntry(c, y, e) /\ y.trans = c.trans /\ y.stack = c.stack /\ Tasked(y)
      /\ y.entries[e].pending_queue = c.entries[e].pending_queue /\ Admitted(c, y, e, u)
  BY <1>1, <1>2, AddFacts
<1> HIDE DEF y
<1>4. y \in CacheType /\ y.stack # <<>> BY <1>3 DEF AtEntry
<1>5. "OK" \in Results /\ "ADD_COMPLETE" \in States BY DEF Results, States
<1>6. /\ d \in CacheType /\ SameData(y, d) /\ d.trans = c.trans /\ Len(d.stack) = Len(c.stack)
      /\ d.stack[Len(c.stack)] = Run(u, "ADD_COMPLETE", "OK") /\ SameFrames(c, d, n)
  BY <1>3, <1>4, <1>5, GotoFacts DEF SameFrames
<1> HIDE DEF d
<1>7. AtEntry(c, d, e) /\ Tasked(d) /\ Admitted(c, d, e, u) /\ Ready(d)
  BY <1>2, <1>3, <1>6, ZenonT(60) DEF AtEntry, SameData, Tasked, Admitted, Ready
<1>8. d.entries[e].pending_queue = c.entries[e].pending_queue BY <1>3, <1>6 DEF SameData
<1> DEFINE f == Run(u, "ADD_COMPLETE", "OK")
<1>9. /\ f.k = "run" /\ f.t = u /\ f.s = "ADD_COMPLETE" /\ f.rv = "OK"
      /\ Added(f) /\ ~Missed(f) /\ ~Found(f) /\ f = d.stack[Len(c.stack)]
  BY <1>5, <1>6, RunTypes DEF Added, Missed, Found
<1> HIDE DEF f
<1>10. Adding(d, e, u)
  <2>1. Len(c.stack) \in 1..Len(d.stack) BY <1>1, <1>6
  <2> QED BY <1>6, <1>9, <2>1 DEF Adding, Runs
<1>11. SameTrans(c, d, u) /\ n <= Len(d.stack) BY <1>1, <1>6 DEF SameTrans
<1>12. Kept(c, d, u, n) BY <1>6, <1>11, TopKept
<1>13. /\ LockOK(d, e) /\ u \in Holders(d, e)
       /\ \A t \in Trans : t \in Holders(c, e) => t \in Holders(d, e)
  <2>1. QueueOf(c, e) = c.entries[e].pending_queue BY <1>2, Shapes DEF QueueOf
  <2>2. /\ Distinct(d.entries[e].pending_queue, 0)
        /\ \A t \in Trans : InSeq(t, d.entries[e].pending_queue) =>
                                InSeq(t, c.entries[e].pending_queue) /\ t # u
    BY <1>2, <1>8, <2>1, ZenonT(60) DEF LockOK
  <2> HIDE DEF n
  <2> QED BY <1>2, <1>6, <1>7, <1>10, <1>12, <2>2, AdmittedLock, SMTT(30)
<1>14. FrameOK(d, f) BY <1>2, <1>6, <1>7, <1>9, <1>13 DEF FrameOK
<1>15. NextFrame(c, d, u) BY <1>2, <1>6, <1>9, <1>14 DEF NextFrame, Runs
<1>16. /\ NewFrames(d, u, n) /\ \A t : \A i \in 1..Len(d.stack) : i > n => ~Listed(d.stack[i], t)
  BY <1>1, <1>6, <1>15, NextFrameNew
<1>17. TransOK(d, u) BY <1>2, <1>6 DEF TransOK
<1> HIDE DEF n
<1>18. \A t \in Trans : PlacedOnce(d, t)
  BY <1>2, <1>6, <1>7, <1>8, <1>12, <1>16, EntryPlaces
<1>19. Good(d)
  BY <1>2, <1>7, <1>12, <1>13, <1>16, <1>17, <1>18, EntryGood
<1> QED BY <1>3, <1>19 DEF d, y

\* It has to wait for the entry.
LEMMA AddLaterGood ==
    ASSUME CacheAssumption, NEW c, Good(c), NEW u \in Trans, c.stack # <<>>, Runs(c, Len(c.stack), u),
           Top(c).s = "ADD_TO_ENTRY", NEW e, e = c.trans[u].new_entry,
           \/ c.entries[e].writer # NoTrans \/ c.entries[e].will_process \/ c.entries[e].readers # {}
    PROVE  Good(Block(SetQueue(c, e, Append(c.entries[e].pending_queue, u)), u, "pending"))
<1> DEFINE p == c.entries[e].pending_queue
           q == Append(p, u)
           y == SetQueue(c, e, q)
           d == Block(y, u, "pending")
           n == Len(c.stack) - 1
<1>1. c \in CacheType /\ Tasked(c) /\ Len(c.stack) \in Nat \ {0} BY FieldTypes DEF Good
<1>2. /\ e \in Live(c) /\ e \in Entries /\ c.entries[e] \in EntryType /\ LockOK(c, e)
      /\ c.trans[u].st = "running" /\ c.trans[u].entry = NoEntry
      /\ \A x \in Entries : u \notin Holders(c, x) /\ ~InSeq(u, QueueOf(c, x))
      /\ ~InOp(c.op, u) /\ ~InSeq(u, c.backend_queue)
      /\ \A i \in 1..Len(c.stack) : ~Listed(c.stack[i], u)
      /\ \A t : \A i \in 1..Len(c.stack) : i > n => ~Listed(c.stack[i], t)
  BY FoundFacts
<1>3. c.entries[e] # Dead /\ p \in Seq(Trans) /\ Distinct(p, 0) /\ ~InSeq(u, p) /\ QueueOf(c, e) = p
  <2>1. c.entries[e] # Dead BY <1>2, Shapes
  <2>2. QueueOf(c, e) = p BY <2>1 DEF QueueOf
  <2> QED BY <1>1, <1>2, <2>1, <2>2, EntryTypes DEF LockOK
<1> HIDE DEF p
<1>4. q \in Seq(Trans) /\ Distinct(q, 0) /\ \A t : InSeq(t, q) <=> InSeq(t, p) \/ t = u
  BY <1>3, AppendQueue
<1> HIDE DEF q
<1>5. /\ OnlyEntry(c, y, e) /\ y.entries[e] \in EntryType /\ y.entries[e].pending_queue = q
      /\ ButQueue(y.entries[e], c.entries[e])
  BY <1>1, <1>2, <1>4, SetQueueFacts
<1> HIDE DEF y
<1>6. y \in CacheType /\ y.stack = c.stack /\ y.trans = c.trans BY <1>5 DEF OnlyEntry
<1> DEFINE Sts == {"free", "pending", "running", "own"}
<1>7. "pending" \in Sts OBVIOUS
<1>8. /\ d \in CacheType /\ SameData(y, d) /\ SameTrans(y, d, u)
      /\ d.trans[u] = WithSt(y.trans[u], "pending")
      /\ Len(d.stack) = n /\ SameFrames(y, d, n)
  <2>1. y.stack # <<>> BY <1>6
  <2> QED BY <1>6, <1>7, <2>1, BlockFacts
<1> HIDE DEF d
<1>9. /\ d.trans[u].st = "pending" /\ d.trans[u].entry = NoEntry /\ d.trans[u].new_entry = e
  <2>1. c.trans[u] \in TransType BY <1>1, TransTypes
  <2> QED BY <1>2, <1>6, <1>7, <1>8, <2>1, WithStFacts
<1>10. AtEntry(c, d, e) BY <1>5, <1>8 DEF AtEntry, OnlyEntry, SameData, ButQueue
<1>11. d.entries[e].pending_queue = q /\ ButQueue(d.entries[e], c.entries[e]) /\ d.tasks = c.tasks
  BY <1>5, <1>8 DEF SameData, OnlyEntry
<1>12. SameTrans(c, d, u) /\ SameFrames(c, d, n) BY <1>6, <1>8 DEF SameTrans, SameFrames
<1>13. n <= Len(d.stack) BY <1>1, <1>8
<1>14. Kept(c, d, u, n) BY <1>8, <1>12, <1>13, TopKept
<1>15. NextFrame(c, d, u) BY <1>8, <1>9, <1>12 DEF NextFrame
<1>16. /\ NewFrames(d, u, n) /\ \A t : \A i \in 1..Len(d.stack) : i > n => ~Listed(d.stack[i], t)
  BY <1>1, <1>8, <1>15, NextFrameNew
<1>17. TransOK(d, u) BY <1>9 DEF TransOK
<1>18. d.entries[e] # Dead BY <1>10, Shapes DEF AtEntry
<1>19. Holders(d, e) = Holders(c, e) BY <1>3, <1>11, <1>18 DEF Holders, ButQueue
<1>20. Tasked(d) BY <1>1, <1>2, <1>3, <1>10, <1>11, <1>18, TaskedSame, SMTT(30) DEF AtEntry, ButQueue
<1>21. \A i \in 1..Len(d.stack) : i \in 1..Len(c.stack) /\ d.stack[i] = c.stack[i]
  BY <1>1, <1>8, <1>12 DEF SameFrames
<1>22. e = c.trans[u].new_entry OBVIOUS
<1> HIDE DEF n
<1>23. \A t \in Trans : PlacedOnce(d, t)
  <2>1. QueueOf(d, e) = q BY <1>11, <1>18 DEF QueueOf
  <2>2. \A x \in Entries \ {e} : QueueOf(d, x) = QueueOf(c, x) BY <1>10 DEF QueueOf, AtEntry
  <2>3. ASSUME NEW t \in Trans, t # u PROVE PlacedOnce(d, t)
    <3>1. \A x \in Entries : InSeq(t, QueueOf(d, x)) <=> InSeq(t, QueueOf(c, x))
      BY <1>3, <1>4, <2>1, <2>2, <2>3
    <3>2. SamePlaces(c, d, t, n) BY <1>2, <1>10, <1>16, <3>1 DEF SamePlaces, AtEntry
    <3>3. d.trans[t] = c.trans[t] /\ PlacedOnce(c, t) BY <1>12, <2>3 DEF SameTrans, Good
    <3> QED BY <1>1, <1>8, <1>14, <3>2, <3>3, PlacedSame
  <2>4. PlacedOnce(d, u)
    <3>1. InPlace(d, u, "entry", e) BY <1>2, <1>4, <2>1, InQueueOf
    <3>2. \A x \in Entries : InSeq(u, QueueOf(d, x)) => x = e BY <1>2, <2>2
    <3>3. ~InOp(d.op, u) /\ ~InSeq(u, d.backend_queue) BY <1>2, <1>10 DEF AtEntry
    <3>4. \A i \in 1..Len(d.stack) : ~Listed(d.stack[i], u) BY <1>2, <1>21
    <3> QED BY <1>9, <3>1, <3>2, <3>3, <3>4, PlacedThere
  <2> QED BY <2>3, <2>4
<1>24. LockOK(d, e)
  <2>1. ASSUME NEW t \in Holders(c, e) PROVE d.trans[t] = c.trans[t] /\ c.trans[t].entry = e
    <3>1. t \in Trans /\ t # u BY <1>1, <1>2, <1>3, <2>1, EntryTypes DEF Holders
    <3>2. d.trans[t] = c.trans[t] BY <1>12, <3>1 DEF SameTrans
    <3>3. ~Runs(c, Len(c.stack), t) BY <3>1 DEF Runs
    <3>4. c.trans[t].entry = e BY <1>2, <2>1, <3>1, <3>3, HoldsWhat
    <3> QED BY <3>2, <3>4
  <2>2. \A t \in Trans : InSeq(t, q) => d.trans[t].new_entry = e
    <3>1. \A t \in Trans : InSeq(t, p) => c.trans[t].new_entry = e BY <1>2 DEF LockOK, p
    <3>2. \A t \in Trans : InSeq(t, q) => InSeq(t, p) \/ t = u BY <1>4
    <3>3. \A t \in Trans : t # u => d.trans[t] = c.trans[t] BY <1>12 DEF SameTrans
    <3>4. ~InSeq(u, p) BY <1>3
    <3> QED BY <1>9, <3>1, <3>2, <3>3, <3>4
  <2>3. \A t \in d.entries[e].readers : t \in Holders(c, e) BY <1>3, <1>11 DEF Holders, ButQueue
  <2>4. d.entries[e].writer # NoTrans => d.entries[e].writer \in Holders(c, e)
    BY <1>3, <1>11 DEF Holders, ButQueue
  <2>5. /\ d.entries[e].writer # NoTrans => /\ d.entries[e].readers = {} /\ ~d.entries[e].will_process
                                            /\ CanWrite(d.trans[d.entries[e].writer].mode)
        /\ \A t \in d.entries[e].readers : ~CanWrite(d.trans[t].mode)
    BY <1>2, <1>11, <2>1, <2>3, <2>4 DEF LockOK, ButQueue
  <2>6. ~d.entries[e].doomed => d.active = e BY <1>2, <1>10 DEF LockOK, AtEntry
  <2>7. Holders(d, e) # {} \/ d.entries[e].will_process
    BY <1>3, <1>11, <1>19 DEF Holders, ButQueue
  <2> QED BY <1>4, <1>11, <1>19, <2>1, <2>2, <2>5, <2>6, <2>7 DEF LockOK
<1>25. Good(d)
  BY <1>2, <1>10, <1>14, <1>16, <1>17, <1>19, <1>20, <1>22, <1>23, <1>24, EntryGood
<1> QED BY <1>25 DEF d, y, q, p

LEMMA DoAddToEntryGood ==
    ASSUME CacheAssumption, Good(cache), NEW t \in Trans, DoAddToEntry(t)
    PROVE  Good(cache')
<1> DEFINE c == cache
           e == c.trans[t].new_entry
           a == AddTransactionToEntry(c, e, t)
           y == c.entries[e]
<1>1. /\ At(t, "ADD_TO_ENTRY")
      /\ cache' = IF a.rv = "PENDING" THEN Block(a.cache, t, "pending")
                  ELSE Goto(a.cache, t, "ADD_COMPLETE", a.rv)
  BY DEF DoAddToEntry
<1>2. c.stack # <<>> /\ Runs(c, Len(c.stack), t) /\ Top(c).s = "ADD_TO_ENTRY" BY <1>1, AtFacts
<1>3. CASE y.writer # NoTrans \/ y.will_process \/ (CanWrite(c.trans[t].mode) /\ y.readers # {})
  <2>1. a = [rv |-> "PENDING", cache |-> SetQueue(c, e, Append(c.entries[e].pending_queue, t))]
    BY <1>3 DEF AddTransactionToEntry, SetQueue
  <2>2. cache' = Block(SetQueue(c, e, Append(c.entries[e].pending_queue, t)), t, "pending")
    BY <1>1, <2>1
  <2> QED BY <1>2, <1>3, <2>2, AddLaterGood
<1>4. CASE /\ y.writer = NoTrans /\ ~y.will_process /\ (CanWrite(c.trans[t].mode) => y.readers = {})
  <2>1. a.rv = "OK" /\ Good(Goto(a.cache, t, "ADD_COMPLETE", a.rv)) BY <1>2, <1>4, AddNowGood
  <2> QED BY <1>1, <2>1
<1> QED BY <1>3, <1>4

-----------------------------------------------------------------------------
(* The task that processes the queue of an entry.                          *)

LEMMA SetTasksFacts ==
    ASSUME NEW c \in CacheType, NEW q \in Seq(Entries)
    PROVE  LET d == SetTasks(c, q)
           IN  /\ d \in CacheType /\ d.active = c.active /\ d.entries = c.entries /\ d.op = c.op
               /\ d.backend_queue = c.backend_queue /\ d.tasks = q /\ d.trans = c.trans
               /\ d.stack = c.stack /\ d.backend = c.backend
BY DEF CacheType, SetTasks

\* The task is run and the promise to run it is kept.
Processed(c) == SetTasks(SetProcess(c, Head(c.tasks), FALSE), Tail(c.tasks))

LEMMA ProcessedFacts ==
    ASSUME CacheAssumption, NEW c, Good(c), c.tasks # <<>>
    PROVE  LET e == Head(c.tasks)
               y == Processed(c)
           IN  /\ e \in Live(c) /\ e \in Entries /\ c.entries[e] \in EntryType /\ LockOK(c, e)
               /\ c.entries[e].writer = NoTrans
               /\ AtEntry(c, y, e) /\ y.trans = c.trans /\ y.stack = c.stack /\ Tasked(y)
               /\ ~y.entries[e].will_process /\ ButProcess(y.entries[e], c.entries[e])
<1> DEFINE e == Head(c.tasks)
           q == Tail(c.tasks)
           x == SetProcess(c, e, FALSE)
           y == SetTasks(x, q)
<1>1. c \in CacheType /\ Tasked(c) /\ c.tasks \in Seq(Entries) BY FieldTypes DEF Good
<1>2. /\ q \in Seq(Entries) /\ Distinct(q, 0) /\ e \in Entries /\ InSeq(e, c.tasks)
      /\ \A t : InSeq(t, q) <=> InSeq(t, c.tasks) /\ t # e
  BY <1>1, TailQueue DEF Tasked
<1>3. Processed(c) = y BY DEF Processed
<1> HIDE DEF e, q
<1>4. c.entries[e] # Dead /\ c.entries[e].will_process BY <1>1, <1>2 DEF Tasked
<1>5. e \in Live(c) /\ c.entries[e] \in EntryType /\ LockOK(c, e)
  BY <1>1, <1>2, <1>4, EntryTypes DEF Good
<1>6. c.entries[e].writer = NoTrans BY <1>4, <1>5 DEF LockOK
<1>7. FALSE \in BOOLEAN OBVIOUS
<1>8. /\ OnlyEntry(c, x, e) /\ x.entries[e] \in EntryType /\ x.entries[e].will_process = FALSE
      /\ ButProcess(x.entries[e], c.entries[e])
  BY <1>1, <1>2, <1>5, <1>7, SetProcessFacts
<1> HIDE DEF x
<1>9. x \in CacheType BY <1>8 DEF OnlyEntry
<1>10. /\ y \in CacheType /\ y.active = x.active /\ y.entries = x.entries /\ y.op = x.op
       /\ y.backend_queue = x.backend_queue /\ y.tasks = q /\ y.trans = x.trans
       /\ y.stack = x.stack /\ y.backend = x.backend
  BY <1>2, <1>9, SetTasksFacts
<1> HIDE DEF y
<1>11. AtEntry(c, y, e) /\ y.trans = c.trans /\ y.stack = c.stack
  BY <1>8, <1>10 DEF AtEntry, OnlyEntry, ButProcess
<1>12. ~y.entries[e].will_process /\ ButProcess(y.entries[e], c.entries[e]) BY <1>8, <1>10
<1>13. \A z \in Entries : (y.entries[z] # Dead /\ y.entries[z].will_process) <=>
                          (c.entries[z] # Dead /\ c.entries[z].will_process) /\ z # e
  BY <1>11, <1>12 DEF AtEntry
<1>14. Tasked(y) BY <1>1, <1>2, <1>10, <1>13 DEF Tasked
<1> QED BY <1>2, <1>3, <1>5, <1>6, <1>11, <1>12, <1>14 DEF e

\* Nobody is no transaction: it holds nothing, waits nowhere and has no frame.
LEMMA Nobody ==
    ASSUME CacheAssumption, NEW c, Good(c), c.stack = <<>>, NEW d \in CacheType, d.stack = <<>>,
           d.trans = c.trans
    PROVE  /\ Kept(c, d, NoTrans, 0) /\ NewFrames(d, NoTrans, 0) /\ NoTrans \notin Trans
           /\ \A x \in Entries : NoTrans \notin Holders(c, x) /\ ~InSeq(NoTrans, QueueOf(c, x))
<1>1. NoTrans \notin Trans BY DEF CacheAssumption
<1>2. c \in CacheType BY DEF Good
<1>3. Len(c.stack) = 0 /\ Len(d.stack) = 0 OBVIOUS
<1>4. Kept(c, d, NoTrans, 0) BY <1>3 DEF Kept
<1>5. NewFrames(d, NoTrans, 0) BY <1>1, <1>3 DEF NewFrames
<1>6. ASSUME NEW x \in Entries PROVE NoTrans \notin Holders(c, x) /\ ~InSeq(NoTrans, QueueOf(c, x))
  <2>1. CASE c.entries[x] = Dead BY <2>1, InEmpty DEF Holders, QueueOf
  <2>2. CASE c.entries[x] # Dead
    <3>1. c.entries[x].readers \subseteq Trans /\ c.entries[x].pending_queue \in Seq(Trans)
      BY <1>2, <2>2, EntryTypes
    <3>2. NoTrans \notin Holders(c, x) BY <1>1, <2>2, <3>1 DEF Holders
    <3>3. \A i \in 1..Len(c.entries[x].pending_queue) : c.entries[x].pending_queue[i] \in Trans BY <3>1
    <3>4. ~InSeq(NoTrans, QueueOf(c, x)) BY <1>1, <2>2, <3>3 DEF QueueOf, InSeq
    <3> QED BY <3>2, <3>4
  <2> QED BY <2>1, <2>2
<1> QED BY <1>1, <1>4, <1>5, <1>6

\* The readers go on, and nobody is let in.
LEMMA ProcessNothingGood ==
    ASSUME CacheAssumption, NEW c, Good(c), c.stack = <<>>, c.tasks # <<>>,
           c.entries[Head(c.tasks)].readers # {}
    PROVE  Good(Processed(c))
<1> DEFINE e == Head(c.tasks)
           d == Processed(c)
<1>1. /\ e \in Live(c) /\ c.entries[e] \in EntryType /\ LockOK(c, e) /\ c.entries[e].writer = NoTrans
      /\ AtEntry(c, d, e) /\ d.trans = c.trans /\ d.stack = c.stack /\ Tasked(d)
      /\ ~d.entries[e].will_process /\ ButProcess(d.entries[e], c.entries[e])
  BY ProcessedFacts
<1>2. c.entries[e].readers # {} OBVIOUS
<1> HIDE DEF e, d
<1>3. d \in CacheType BY <1>1 DEF AtEntry
<1>4. /\ Kept(c, d, NoTrans, 0) /\ NewFrames(d, NoTrans, 0) /\ NoTrans \notin Trans
      /\ \A x \in Entries : NoTrans \notin Holders(c, x) /\ ~InSeq(NoTrans, QueueOf(c, x))
  BY <1>1, <1>3, Nobody
<1>5. c.entries[e] # Dead /\ d.entries[e] # Dead BY <1>1, Shapes DEF AtEntry
<1>6. Holders(d, e) = Holders(c, e) /\ Holders(c, e) # {} BY <1>1, <1>2, <1>5 DEF Holders, ButProcess
<1>7. \A t : Adding(c, e, t) => Adding(d, e, t) BY <1>1 DEF Adding, Runs
<1>8. LockOK(d, e)
  <2>1. ~d.entries[e].doomed => d.active = e BY <1>1 DEF LockOK, AtEntry
  <2> QED BY <1>1, <1>6, <1>7, <2>1 DEF LockOK, ButProcess
<1>9. /\ \A t \in Trans : \A i \in 1..Len(c.stack) : i > 0 => ~Listed(c.stack[i], t)
      /\ \A t \in Trans : \A i \in 1..Len(d.stack) : i > 0 => ~Listed(d.stack[i], t)
      /\ \A i \in 1..Len(c.stack) : i > 0 /\ c.stack[i].k = "run" => ~Found(c.stack[i])
  BY <1>1
<1>10. d.entries[e].pending_queue = c.entries[e].pending_queue BY <1>1 DEF ButProcess
<1>11. \A t \in Trans : PlacedOnce(d, t) BY <1>1, <1>4, <1>9, <1>10, EntryPlaces
<1>12. Good(d) BY <1>1, <1>4, <1>6, <1>8, <1>9, <1>11, EntryGood
<1> QED BY <1>12 DEF d

\* Nobody uses the entry or wants to: it is destroyed.
LEMMA ProcessLastGood ==
    ASSUME CacheAssumption, NEW c, Good(c), c.stack = <<>>, c.tasks # <<>>,
           c.entries[Head(c.tasks)].readers = {}, c.entries[Head(c.tasks)].pending_queue = <<>>
    PROVE  Good(DestroyEntry(Processed(c), Head(c.tasks)))
<1> DEFINE e == Head(c.tasks)
           y == Processed(c)
           d == DestroyEntry(y, e)
<1>1. /\ e \in Live(c) /\ e \in Entries /\ c.entries[e] \in EntryType /\ c.entries[e].writer = NoTrans
      /\ AtEntry(c, y, e) /\ y.trans = c.trans /\ y.stack = c.stack /\ Tasked(y)
      /\ ~y.entries[e].will_process /\ ButProcess(y.entries[e], c.entries[e])
  BY ProcessedFacts
<1>2. c.entries[e].readers = {} /\ c.entries[e].pending_queue = <<>> OBVIOUS
<1> HIDE DEF e, y
<1>3. /\ y \in CacheType /\ y.entries[e] \in EntryType /\ y.entries[e].writer = NoTrans
      /\ y.entries[e].readers = {} /\ y.entries[e].pending_queue = <<>>
  BY <1>1, <1>2 DEF AtEntry, ButProcess
<1>4. Destroyed(y, d, e) /\ d.tasks = y.tasks /\ d.trans = y.trans /\ d.stack = y.stack
  BY <1>1, <1>3, DestroyFacts
<1> HIDE DEF d
<1>5. Destroyed(c, d, e)
  <2>1. y.entries[e].doomed = c.entries[e].doomed BY <1>1 DEF ButProcess
  <2> QED BY <1>1, <1>4, <2>1 DEF Destroyed, AtEntry
<1>6. d \in CacheType /\ d.stack = <<>> /\ d.trans = c.trans BY <1>1, <1>4 DEF Destroyed
<1>7. /\ Kept(c, d, NoTrans, 0) /\ NewFrames(d, NoTrans, 0) /\ NoTrans \notin Trans
      /\ \A x \in Entries : NoTrans \notin Holders(c, x) /\ ~InSeq(NoTrans, QueueOf(c, x))
  BY <1>6, Nobody
<1>8. Tasked(d)
  <2>1. \A z \in Entries : (d.entries[z] # Dead /\ d.entries[z].will_process) <=>
                           (y.entries[z] # Dead /\ y.entries[z].will_process)
    BY <1>1, <1>4 DEF Destroyed
  <2> QED BY <1>1, <1>4, <2>1 DEF Tasked
<1>9. \A t : t \notin Holders(c, e)
  <2>1. c.entries[e] # Dead BY <1>1, Shapes
  <2> QED BY <1>1, <1>2, <2>1 DEF Holders
<1>10. c \in CacheType /\ Len(c.stack) = 0 /\ Len(d.stack) = 0 BY <1>6 DEF Good
<1>11. \A x \in Entries : QueueOf(d, x) = QueueOf(c, x)
  BY <1>2, <1>5 DEF QueueOf, Destroyed
<1>12. ASSUME NEW t \in Trans PROVE PlacedOnce(d, t)
  <2>1. SamePlaces(c, d, t, 0) BY <1>5, <1>10, <1>11 DEF SamePlaces, Destroyed
  <2>2. PlacedOnce(c, t) BY DEF Good
  <2> QED BY <1>6, <1>7, <1>10, <2>1, <2>2, PlacedSame
<1>13. \A i \in 1..Len(c.stack) : i > 0 /\ c.stack[i].k = "run" => ~Found(c.stack[i]) BY <1>10
<1>14. Good(d) BY <1>1, <1>5, <1>7, <1>8, <1>9, <1>12, <1>13, DestroyGood
<1> QED BY <1>14 DEF d, y, e

\* u, which waited for e, is let in; w is c without the task and without u in the queue.
LEMMA AdmitGood ==
    ASSUME CacheAssumption, NEW c, Good(c), c.stack = <<>>, NEW e \in Live(c), c.entries[e].writer = NoTrans,
           NEW u \in Trans, InSeq(u, c.entries[e].pending_queue),
           NEW w \in CacheType, AtEntry(c, w, e), w.trans = c.trans, w.stack = c.stack, Tasked(w),
           w.entries[e].writer = NoTrans, ~w.entries[e].will_process,
           w.entries[e].readers = c.entries[e].readers, Distinct(w.entries[e].pending_queue, 0),
           \A t : InSeq(t, w.entries[e].pending_queue) <=>
                      InSeq(t, c.entries[e].pending_queue) /\ t # u,
           CanWrite(c.trans[u].mode) => c.entries[e].readers = {}
    PROVE  LET a == AddTransactionToEntry(w, e, u)
           IN  a.rv = "OK" /\ Good(Notify(a.cache, u, "ADD_COMPLETE", a.rv))
<1> DEFINE a == AddTransactionToEntry(w, e, u)
           v == a.cache
           d == Notify(v, u, "ADD_COMPLETE", "OK")
<1>1. c \in CacheType /\ e \in Entries /\ LockOK(c, e) /\ c.entries[e] \in EntryType
  BY EntryTypes DEF Good, Live
<1>2. /\ a.rv = "OK" /\ AtEntry(w, v, e) /\ v.trans = w.trans /\ v.stack = w.stack /\ Tasked(v)
      /\ v.entries[e].pending_queue = w.entries[e].pending_queue /\ Admitted(w, v, e, u)
  <2>1. CanWrite(w.trans[u].mode) => w.entries[e].readers = {} OBVIOUS
  <2>2. w.entries[e] \in EntryType BY DEF AtEntry
  <2> QED BY <1>1, <2>1, <2>2, AddFacts
<1>3. a.rv = "OK" BY <1>2
<1> HIDE DEF v
<1>4. v \in CacheType BY <1>2 DEF AtEntry
<1> DEFINE f == Run(u, "ADD_COMPLETE", "OK")
<1>5. "OK" \in Results /\ "ADD_COMPLETE" \in States BY DEF Results, States
<1>6. /\ d \in CacheType /\ SameData(v, d) /\ SameTrans(v, d, u)
      /\ d.trans[u] = WithSt(v.trans[u], "running")
      /\ Len(d.stack) = Len(v.stack) + 1 /\ d.stack[Len(v.stack) + 1] = f
  BY <1>4, <1>5, NotifyFacts
<1>7. Len(v.stack) = 0 /\ Len(c.stack) = 0 BY <1>2
<1> HIDE DEF d
<1>8. Len(d.stack) = 1 /\ d.stack[1] = f BY <1>6, <1>7
<1>9. /\ f.k = "run" /\ f.t = u /\ f.s = "ADD_COMPLETE" /\ f.rv = "OK"
      /\ Added(f) /\ ~Missed(f) /\ ~Found(f)
  BY <1>5, RunTypes DEF Added, Missed, Found
<1> HIDE DEF f
<1>10. AtEntry(c, d, e) /\ Tasked(d) /\ d.entries[e].pending_queue = w.entries[e].pending_queue
  BY <1>2, <1>6 DEF AtEntry, SameData, Tasked
<1>11. Admitted(c, d, e, u) BY <1>2, <1>6 DEF SameData, Admitted
<1>12. SameTrans(c, d, u) BY <1>2, <1>6 DEF SameTrans
<1> DEFINE p == c.entries[e].pending_queue
           q == w.entries[e].pending_queue
<1>13. QueueOf(c, e) = p /\ QueueOf(d, e) = q
  <2>1. c.entries[e] # Dead /\ d.entries[e] # Dead BY <1>1, <1>10, Shapes DEF AtEntry
  <2> QED BY <1>10, <2>1 DEF QueueOf
<1>14. InSeq(u, p) /\ Distinct(q, 0) /\ \A t : InSeq(t, q) <=> InSeq(t, p) /\ t # u OBVIOUS
<1>15. \A t \in Trans : InSeq(t, p) => c.trans[t].new_entry = e BY <1>1 DEF LockOK
<1> HIDE DEF p, q
<1>16. /\ c.trans[u].st = "pending" /\ ~InOp(c.op, u) /\ ~InSeq(u, c.backend_queue)
       /\ \A x \in Entries : InSeq(u, QueueOf(c, x)) => x = e
       /\ c.trans[u].new_entry = e /\ c.trans[u].entry = NoEntry
  <2>1. InPlace(c, u, "entry", e) BY <1>1, <1>13, <1>14, InQueueOf
  <2>2. c.trans[u].st = "pending" BY <2>1, Elsewhere
  <2>3. c.trans[u].entry = NoEntry BY <2>2 DEF Good, TransOK
  <2>4. ~InOp(c.op, u) /\ ~InSeq(u, c.backend_queue) BY <2>1, Elsewhere
  <2>5. \A x \in Entries : InSeq(u, QueueOf(c, x)) => x = e BY <2>1, Elsewhere
  <2> QED BY <1>14, <1>15, <2>2, <2>3, <2>4, <2>5
<1>17. /\ d.trans[u].st = "running" /\ d.trans[u].entry = NoEntry /\ d.trans[u].new_entry = e
       /\ d.trans[u].mode = c.trans[u].mode
  <2> DEFINE Sts == {"free", "pending", "running", "own"}
  <2>1. c.trans[u] \in TransType /\ "running" \in Sts BY <1>1, TransTypes
  <2>2. v.trans[u] = c.trans[u] BY <1>2
  <2> QED BY <1>6, <1>16, <2>1, <2>2, WithStFacts
<1>18. Kept(c, d, u, 0)
  <2>1. SameFrames(c, d, 0) BY DEF SameFrames
  <2>2. 0 \in Nat /\ 0 = Len(c.stack) /\ 0 <= Len(d.stack) BY <1>7, <1>8
  <2>3. c.trans[u].st # "running" BY <1>16
  <2> QED BY <1>6, <1>12, <2>1, <2>2, <2>3, BaseKept
<1>19. Adding(d, e, u) BY <1>8, <1>9, <1>17 DEF Adding, Runs
<1>20. /\ LockOK(d, e) /\ u \in Holders(d, e)
       /\ \A t \in Trans : t \in Holders(c, e) => t \in Holders(d, e)
  <2>1. /\ Distinct(d.entries[e].pending_queue, 0)
        /\ \A t \in Trans : InSeq(t, d.entries[e].pending_queue) =>
                                InSeq(t, c.entries[e].pending_queue) /\ t # u
    BY <1>10
  <2> QED BY <1>10, <1>11, <1>17, <1>18, <1>19, <2>1, AdmittedLock
<1>21. FrameOK(d, f)
  <2>1. Ready(d)
    <3>1. Ready(c) BY DEF Good, Disk
    <3> QED BY <1>10, <3>1 DEF AtEntry, Ready
  <2> QED BY <1>1, <1>9, <1>17, <1>20, <2>1 DEF FrameOK
<1>22. Woken(c, d, u, 0) BY <1>8, <1>9, <1>21 DEF Woken, SameFrames, Runs
<1>23. NewFrames(d, u, 0) BY <1>6, <1>17, <1>22, WokenNew
<1>24. TransOK(d, u) BY <1>17 DEF TransOK
<1>25. \A t \in Trans : PlacedOnce(d, t)
  <2>1. \A x \in Entries \ {e} : QueueOf(d, x) = QueueOf(c, x) BY <1>10 DEF QueueOf, AtEntry
  <2>2. \A t \in Trans : t # u =>
            \A x \in Entries : InSeq(t, QueueOf(d, x)) <=> InSeq(t, QueueOf(c, x))
    BY <1>13, <1>14, <2>1
  <2>3. \A t : \A i \in 1..Len(d.stack) : ~Listed(d.stack[i], t) BY <1>8, <1>9 DEF Listed
  <2>4. ASSUME NEW t \in Trans \ {u} PROVE SamePlaces(c, d, t, 0)
    <3>1. d.op = c.op /\ d.backend_queue = c.backend_queue BY <1>10 DEF AtEntry
    <3>2. \A i \in 1..Len(c.stack) : FALSE BY <1>7
    <3>3. \A x \in Entries : InSeq(t, QueueOf(d, x)) <=> InSeq(t, QueueOf(c, x)) BY <2>2
    <3> QED BY <2>3, <3>1, <3>2, <3>3 DEF SamePlaces
  <2>5. \A x \in Entries : ~InSeq(u, QueueOf(d, x)) BY <1>13, <1>14, <1>16, <2>1
  <2>6. ~InOp(d.op, u) /\ ~InSeq(u, d.backend_queue) BY <1>10, <1>16 DEF AtEntry
  <2>7. d.trans[u].st # "pending" BY <1>17
  <2> QED BY <1>6, <1>18, <2>3, <2>4, <2>5, <2>6, <2>7, WakePlaces
<1>26. \A x \in Entries \ {e} : u \notin Holders(c, x) /\ ~InSeq(u, QueueOf(c, x))
  <2>1. NoEntry \notin Entries BY DEF CacheAssumption, NoEntry
  <2>2. c.trans[u].st # "running" BY <1>16
  <2>3. \A x \in Entries : u \notin Holders(c, x) BY <1>16, <2>1, <2>2, HoldsEntry
  <2> QED BY <1>16, <2>3
<1>27. \A i \in 1..Len(c.stack) : i > 0 /\ c.stack[i].k = "run" /\ Found(c.stack[i]) => c.trans[u].new_entry = e
  BY <1>7
<1>28. Good(d)
  BY <1>10, <1>18, <1>20, <1>23, <1>24, <1>25, <1>26, <1>27, EntryGood
<1> QED BY <1>3, <1>28 DEF d, v

\* The first of the queue is let in.
LEMMA ProcessNextGood ==
    ASSUME CacheAssumption, NEW c, Good(c), c.stack = <<>>, c.tasks # <<>>,
           LET x == c.entries[Head(c.tasks)]
           IN  /\ x.pending_queue # <<>>
               /\ CanWrite(c.trans[Head(x.pending_queue)].mode) => x.readers = {}
    PROVE  LET e == Head(c.tasks)
               p == c.entries[e].pending_queue
               a == AddTransactionToEntry(SetQueue(Processed(c), e, Tail(p)), e, Head(p))
           IN  a.rv = "OK" /\ Good(Notify(a.cache, Head(p), "ADD_COMPLETE", a.rv))
<1> DEFINE e == Head(c.tasks)
           p == c.entries[e].pending_queue
           u == Head(p)
           q == Tail(p)
           y == Processed(c)
           w == SetQueue(y, e, q)
<1>1. /\ e \in Live(c) /\ e \in Entries /\ c.entries[e] \in EntryType /\ LockOK(c, e)
      /\ c.entries[e].writer = NoTrans
      /\ AtEntry(c, y, e) /\ y.trans = c.trans /\ y.stack = c.stack /\ Tasked(y)
      /\ ~y.entries[e].will_process /\ ButProcess(y.entries[e], c.entries[e])
  BY ProcessedFacts
<1> HIDE DEF y
<1>2. c \in CacheType /\ p \in Seq(Trans) /\ Distinct(p, 0) /\ p # <<>> BY <1>1, EntryTypes DEF Good, LockOK
<1>3. CanWrite(c.trans[u].mode) => c.entries[e].readers = {} OBVIOUS
<1>4. p = c.entries[e].pending_queue OBVIOUS
<1> HIDE DEF p, e
<1>5. /\ q \in Seq(Trans) /\ Distinct(q, 0) /\ u \in Trans /\ InSeq(u, p)
      /\ \A t : InSeq(t, q) <=> InSeq(t, p) /\ t # u
  BY <1>2, TailQueue
<1> HIDE DEF q, u
<1>6. y \in CacheType /\ y.entries[e] \in EntryType BY <1>1 DEF AtEntry
<1>7. /\ OnlyEntry(y, w, e) /\ w.entries[e] \in EntryType /\ w.entries[e].pending_queue = q
      /\ ButQueue(w.entries[e], y.entries[e])
  BY <1>1, <1>5, <1>6, SetQueueFacts
<1> HIDE DEF w
<1>8. w \in CacheType /\ w.trans = c.trans /\ w.stack = c.stack /\ AtEntry(c, w, e)
  BY <1>1, <1>7 DEF OnlyEntry, AtEntry, ButQueue
<1>9. Tasked(w)
  <2>1. y.entries[e] # Dead /\ w.entries[e] # Dead BY <1>6, <1>7, Shapes
  <2> QED BY <1>1, <1>6, <1>7, <2>1, TaskedSame DEF OnlyEntry, ButQueue
<1>10. /\ w.entries[e].writer = NoTrans /\ ~w.entries[e].will_process
       /\ w.entries[e].readers = c.entries[e].readers
  BY <1>1, <1>7 DEF ButQueue, ButProcess
<1>11. InSeq(u, c.entries[e].pending_queue) BY <1>4, <1>5
<1>12. /\ Distinct(w.entries[e].pending_queue, 0)
       /\ \A t : InSeq(t, w.entries[e].pending_queue) <=> InSeq(t, c.entries[e].pending_queue) /\ t # u
  BY <1>4, <1>5, <1>7
<1>13. LET a == AddTransactionToEntry(w, e, u)
       IN  a.rv = "OK" /\ Good(Notify(a.cache, u, "ADD_COMPLETE", a.rv))
  BY <1>1, <1>3, <1>5, <1>8, <1>9, <1>10, <1>11, <1>12, AdmitGood
<1> QED BY <1>13 DEF w, y, q, u, p, e

LEMMA OnProcessPendingQueueGood ==
    ASSUME CacheAssumption, Good(cache), OnProcessPendingQueue
    PROVE  Good(cache')
<1> DEFINE e == Head(cache.tasks)
           y == Processed(cache)
           old == cache.entries[e]
           x == y.entries[e]
           p == x.pending_queue
           u == Head(p)
           w == SetQueue(y, e, Tail(p))
           a == AddTransactionToEntry(w, e, u)
<1>1. cache.stack = <<>> /\ cache.tasks # <<>> BY DEF OnProcessPendingQueue, AtLoop
<1>2. /\ old.writer = NoTrans /\ e \in Entries
      /\ y.trans = cache.trans /\ ButProcess(y.entries[e], cache.entries[e])
  BY <1>1, ProcessedFacts
<1>3. [Fail(cache, "process", cache.entries[e].writer = NoTrans) EXCEPT
          !.tasks = Tail(@), !.entries[e].will_process = FALSE] = y
  <2>1. Fail(cache, "process", cache.entries[e].writer = NoTrans) = cache BY <1>2 DEF Fail
  <2>2. SetProcess(cache, e, FALSE).tasks = cache.tasks BY DEF SetProcess
  <2> QED BY <2>1, <2>2 DEF Processed, SetTasks, SetProcess
<1>4. \/ p = <<>> /\ cache' = IF x.readers = {} THEN DestroyEntry(y, e) ELSE y
      \/ p # <<>> /\ CanWrite(y.trans[u].mode) /\ x.readers # {} /\ cache' = y
      \/ /\ p # <<>> /\ ~(CanWrite(y.trans[u].mode) /\ x.readers # {})
         /\ cache' = IF a.rv = "PENDING" THEN a.cache ELSE Notify(a.cache, u, "ADD_COMPLETE", a.rv)
  BY <1>3 DEF OnProcessPendingQueue, SetQueue
<1>5. x.readers = old.readers /\ p = old.pending_queue BY <1>2 DEF ButProcess
<1> HIDE DEF y
<1>6. CASE p = <<>> /\ x.readers = {}
  <2>1. Good(DestroyEntry(Processed(cache), Head(cache.tasks))) BY <1>1, <1>5, <1>6, ProcessLastGood
  <2> QED BY <1>4, <1>6, <2>1 DEF y
<1>7. CASE cache' = y /\ x.readers # {}
  <2>1. Good(Processed(cache)) BY <1>1, <1>5, <1>7, ProcessNothingGood
  <2> QED BY <1>7, <2>1 DEF y
<1>8. CASE /\ p # <<>> /\ ~(CanWrite(y.trans[u].mode) /\ x.readers # {})
           /\ cache' = IF a.rv = "PENDING" THEN a.cache ELSE Notify(a.cache, u, "ADD_COMPLETE", a.rv)
  <2> DEFINE b == AddTransactionToEntry(SetQueue(Processed(cache), e, Tail(old.pending_queue)), e,
                                        Head(old.pending_queue))
  <2>1. CanWrite(cache.trans[Head(old.pending_queue)].mode) => old.readers = {} BY <1>2, <1>5, <1>8
  <2>2. b.rv = "OK" /\ Good(Notify(b.cache, Head(old.pending_queue), "ADD_COMPLETE", b.rv))
    BY <1>1, <1>5, <1>8, <2>1, ProcessNextGood
  <2>3. a = b /\ u = Head(old.pending_queue) BY <1>5 DEF y
  <2> HIDE DEF a, b, u
  <2> QED BY <1>8, <2>2, <2>3
<1> QED BY <1>4, <1>6, <1>7, <1>8

-----------------------------------------------------------------------------
(* The disk cache answers.                                                 *)

\* The loop that will tell the items behind the one that made the call.
Behind(c, r) ==
    LET item == c.op.writer
    IN  [k |-> "items", items |-> c.op.queue, result |-> r, op |-> item.op,
         fail |-> r = "OK" /\ (item.op = "DOOM" \/ ~(item.trans # NoTrans))]

LEMMA BehindFacts ==
    ASSUME NEW c, Good(c), c.op # NoOp, NEW r \in {"OK", "ERR"}
    PROVE  /\ Behind(c, r) \in Frame /\ Behind(c, r).k = "items" /\ Behind(c, r).k # "run"
           /\ \A t : Listed(Behind(c, r), t) <=> InItems(t, c.op.queue)
           /\ \A d : /\ c.op.queue # <<>> /\ d.backend = c.backend
                     /\ r = "ERR" => d.active = NoEntry
                     => FrameOK(d, Behind(c, r))
<1> DEFINE item == c.op.writer
           q == c.op.queue
           b == r = "OK" /\ (item.op = "DOOM" \/ ~(item.trans # NoTrans))
           f == [k |-> "items", items |-> q, result |-> r, op |-> item.op, fail |-> b]
<1>1. c \in CacheType /\ Disk(c) BY DEF Good
<1>2. item.op \in Ops /\ q \in Seq(ItemType) BY <1>1, OpParts DEF ItemType, Ops
<1>3. b \in BOOLEAN OBVIOUS
<1>4. c.backend = "disk" /\ ItemsOnce(q) /\ ItemsNamed(q) BY <1>1 DEF Disk
<1>5. q = c.op.queue /\ Behind(c, r) = f BY DEF Behind
<1> HIDE DEF b, q, item
<1>6. f \in ItemsFrame BY <1>2, <1>3 DEF ItemsFrame
<1>7. f.k = "items" /\ f.items = q /\ f.result = r OBVIOUS
<1>8. f \in Frame BY <1>6 DEF Frame
<1> HIDE DEF f
<1>9. \A t : Listed(f, t) <=> InItems(t, q) BY <1>7 DEF Listed, InItems
<1>10. ASSUME NEW d, q # <<>>, d.backend = c.backend, r = "ERR" => d.active = NoEntry
       PROVE  FrameOK(d, f)
  BY <1>4, <1>7, <1>10 DEF FrameOK
<1> QED BY <1>5, <1>7, <1>8, <1>9, <1>10

\* The operation is over, and the items behind it are in the list of the first frame.
Moved(c, d) ==
    /\ d.op = NoOp /\ d.backend_queue = c.backend_queue /\ d.backend = c.backend
    /\ \A x \in Entries : QueueOf(d, x) = QueueOf(c, x)
    /\ \A t : \A i \in 1..Len(d.stack) : Listed(d.stack[i], t) <=> i = 1 /\ InItems(t, c.op.queue)
    /\ c.op.queue # <<>> => 1 \in 1..Len(d.stack)

LEMMA IOPlaces ==
    ASSUME CacheAssumption, NEW c, Good(c), c.stack = <<>>, c.op # NoOp, NEW d \in CacheType, Moved(c, d),
           Kept(c, d, c.op.writer.trans, 0),
           c.op.writer.trans \in Trans => d.trans[c.op.writer.trans].st # "pending"
    PROVE  \A t \in Trans : PlacedOnce(d, t)
<1> DEFINE u == c.op.writer.trans
           q == c.op.queue
<1>1. c \in CacheType /\ Disk(c) BY DEF Good
<1>2. \A t : InOp(c.op, t) <=> u = t \/ InItems(t, q) BY <1>1, OpParts
<1>3. \A i \in 1..Len(q) : q[i].trans = u => u = NoTrans BY <1>1 DEF Disk
<1>4. \A t \in Trans : InItems(t, q) => t # u BY <1>3 DEF InItems, CacheAssumption
<1>5. \A t \in Trans : t # u => d.trans[t] = c.trans[t] BY DEF Kept
<1>6. u \in Trans => d.trans[u].st # "pending" OBVIOUS
<1>7. \A t : \A i \in 1..Len(d.stack) : Listed(d.stack[i], t) <=> i = 1 /\ InItems(t, q) BY DEF Moved
<1>8. q # <<>> => 1 \in 1..Len(d.stack) BY DEF Moved
<1>9. \A t : ~InOp(d.op, t) BY DEF Moved, InOp
<1>10. Kept(c, d, u, 0) OBVIOUS
<1> HIDE DEF u, q
<1> TAKE t \in Trans
<1>11. CASE InItems(t, q)
  <2>1. InPlace(c, t, "op", 0) BY <1>2, <1>11 DEF InPlace
  <2>2. /\ c.trans[t].st = "pending" /\ ~InSeq(t, c.backend_queue)
        /\ \A y \in Entries : ~InSeq(t, QueueOf(c, y))
    BY <2>1, Elsewhere
  <2>3. d.trans[t].st = "pending" BY <1>4, <1>5, <1>11, <2>2
  <2>4. q # <<>> BY <1>11 DEF InItems
  <2>5. InPlace(d, t, "loop", 1) BY <1>7, <1>8, <1>11, <2>4 DEF InPlace
  <2>6. ~InSeq(t, d.backend_queue) /\ \A y \in Entries : ~InSeq(t, QueueOf(d, y)) BY <2>2 DEF Moved
  <2>7. \A i \in 1..Len(d.stack) : Listed(d.stack[i], t) => i = 1 BY <1>7
  <2> QED BY <1>9, <2>3, <2>5, <2>6, <2>7, PlacedThere
<1>12. CASE ~InItems(t, q) /\ t = u
  <2>1. InPlace(c, t, "op", 0) BY <1>2, <1>12 DEF InPlace
  <2>2. ~InSeq(t, c.backend_queue) /\ \A y \in Entries : ~InSeq(t, QueueOf(c, y)) BY <2>1, Elsewhere
  <2>3. ~InSeq(t, d.backend_queue) /\ \A y \in Entries : ~InSeq(t, QueueOf(d, y)) BY <2>2 DEF Moved
  <2>4. d.trans[t].st # "pending" BY <1>6, <1>12
  <2>5. \A i \in 1..Len(d.stack) : ~Listed(d.stack[i], t) BY <1>7, <1>12
  <2> QED BY <1>9, <2>3, <2>4, <2>5, PlacedNowhere
<1>13. CASE ~InItems(t, q) /\ t # u
  <2>1. ~InOp(c.op, t) BY <1>2, <1>13
  <2>2. \A i \in 1..Len(c.stack) : FALSE OBVIOUS
  <2>3. \A i \in 1..Len(d.stack) : ~Listed(d.stack[i], t) BY <1>7, <1>13
  <2>4. SamePlaces(c, d, t, 0) BY <1>9, <2>1, <2>2, <2>3 DEF SamePlaces, Moved
  <2>5. PlacedOnce(c, t) /\ d.trans[t] = c.trans[t] BY <1>5, <1>13 DEF Good
  <2> QED BY <1>1, <1>10, <2>4, <2>5, PlacedSame
<1> QED BY <1>11, <1>12, <1>13

\* The transaction that made the call waits for nothing else, and has no entry.
LEMMA OpWriter ==
    ASSUME CacheAssumption, NEW c, Good(c), c.op # NoOp, c.op.writer.trans \in Trans
    PROVE  LET u == c.op.writer.trans
           IN  /\ c.trans[u].st = "pending" /\ c.trans[u].entry = NoEntry
               /\ \A x \in Entries : u \notin Holders(c, x) /\ ~InSeq(u, QueueOf(c, x))
<1> DEFINE u == c.op.writer.trans
<1>1. c \in CacheType /\ u \in Trans BY DEF Good
<1>2. InOp(c.op, u) BY <1>1, OpParts
<1> HIDE DEF u
<1>3. InPlace(c, u, "op", 0) BY <1>2 DEF InPlace
<1>4. c.trans[u].st = "pending" /\ \A x \in Entries : ~InSeq(u, QueueOf(c, x))
  BY <1>1, <1>3, Elsewhere
<1>5. c.trans[u].entry = NoEntry BY <1>1, <1>4 DEF Good, TransOK
<1>6. NoEntry \notin Entries BY DEF CacheAssumption, NoEntry
<1>7. c.trans[u].st # "running" BY <1>4
<1>8. \A x \in Entries : u \notin Holders(c, x) BY <1>1, <1>5, <1>6, <1>7, HoldsEntry
<1> QED BY <1>4, <1>5, <1>8 DEF u

\* c without the operation, which changed nothing but the disk.
Answered(c, x) ==
    /\ x \in CacheType /\ x.active = c.active /\ x.entries = c.entries /\ x.op = NoOp
    /\ x.backend = c.backend /\ x.backend_queue = c.backend_queue /\ x.tasks = c.tasks
    /\ x.stack = c.stack

LEMMA AnsweredDisk ==
    ASSUME NEW c, Good(c), NEW d, d.op = NoOp, d.active = c.active, d.entries = c.entries,
           d.backend = c.backend, d.backend_queue = c.backend_queue
    PROVE  Disk(d) /\ Backed(c, d, 0) /\ \A x \in Entries : QueueOf(d, x) = QueueOf(c, x)
BY DEF Disk, Backed, Ready, Live, Good, QueueOf

\* Nobody waits for the answer any more.
LEMMA NobodyAnswered ==
    ASSUME CacheAssumption, NEW c, Good(c), c.stack = <<>>, c.op # NoOp, c.op.writer.trans = NoTrans,
           NEW r \in {"OK", "ERR"}, NEW x, Answered(c, x), x.trans = c.trans
    PROVE  Good(Over(x, c.op.queue, Behind(c, r)))
<1> DEFINE q == c.op.queue
           g == Behind(c, r)
           d == Over(x, q, g)
<1>1. c \in CacheType /\ x \in CacheType /\ Disk(c) /\ c.active = NoEntry BY DEF Good, Answered, Disk
<1>2. /\ g \in Frame /\ g.k = "items" /\ \A t : Listed(g, t) <=> InItems(t, q)
      /\ \A z : q # <<>> /\ z.backend = c.backend /\ (r = "ERR" => z.active = NoEntry) => FrameOK(z, g)
  BY BehindFacts
<1>3. Len(c.stack) = 0 /\ Len(x.stack) = 0 BY DEF Answered
<1>4. q = c.op.queue OBVIOUS
<1> HIDE DEF g, q
<1>5. /\ d \in CacheType /\ SameData(x, d) /\ d.trans = x.trans
      /\ \/ q = <<>> /\ Len(d.stack) = 0
         \/ q # <<>> /\ Len(d.stack) = 1 /\ d.stack[1] = g
  <2>1. CASE q = <<>>
    <3>1. d = x BY <2>1 DEF Over
    <3> QED BY <1>1, <1>3, <2>1, <3>1 DEF SameData
  <2>2. CASE q # <<>>
    <3>1. d = Push(x, g) BY <2>2 DEF Over
    <3> HIDE DEF d
    <3>2. /\ d \in CacheType /\ SameData(x, d) /\ d.trans = x.trans
          /\ Len(d.stack) = Len(x.stack) + 1 /\ d.stack[Len(x.stack) + 1] = g
      BY <1>1, <1>2, <3>1, PushFacts
    <3> QED BY <1>3, <2>2, <3>2
  <2> QED BY <2>1, <2>2
<1> HIDE DEF d
<1>6. /\ d.active = c.active /\ d.entries = c.entries /\ d.op = NoOp /\ d.tasks = c.tasks
      /\ d.backend = c.backend /\ d.backend_queue = c.backend_queue /\ d.trans = c.trans
  BY <1>5 DEF SameData, Answered
<1>7. Disk(d) /\ Backed(c, d, 0) /\ \A z \in Entries : QueueOf(d, z) = QueueOf(c, z)
  BY <1>6, AnsweredDisk
<1>8. NoTrans \notin Trans BY DEF CacheAssumption
<1>9. Kept(c, d, NoTrans, 0) BY <1>3, <1>5, <1>6 DEF Kept
<1>10. \A i \in 1..Len(d.stack) : i = 1 /\ q # <<>> /\ d.stack[i] = g BY <1>5
<1>11. q # <<>> => FrameOK(d, g) BY <1>1, <1>2, <1>6
<1>12. NewFrames(d, NoTrans, 0) BY <1>2, <1>8, <1>10, <1>11 DEF NewFrames
<1>13. q # <<>> => 1 \in 1..Len(d.stack) BY <1>5
<1>14. Moved(c, d) BY <1>2, <1>4, <1>6, <1>7, <1>10, <1>13 DEF Moved
<1>15. \A t \in Trans : PlacedOnce(d, t) BY <1>5, <1>8, <1>9, <1>14, IOPlaces
<1>16. \A i \in 1..Len(c.stack) : FALSE BY <1>3
<1>17. Good(d) BY <1>5, <1>6, <1>7, <1>8, <1>9, <1>12, <1>15, <1>16, CalmGood
<1> QED BY <1>17 DEF d, q, g

LEMMA NotifyFirst ==
    ASSUME CacheAssumption, NEW p \in CacheType, NEW g, NEW l, l # <<>> => g \in Frame,
           NEW t \in Trans, NEW s \in States, NEW rv \in Results
    PROVE  LET d == Notify(Over(p, l, g), t, s, rv)
           IN  /\ d \in CacheType /\ SameData(p, d) /\ SameTrans(p, d, t)
               /\ d.trans[t] = WithSt(p.trans[t], "running")
               /\ Len(p.stack) = 0 =>
                     \/ l = <<>> /\ Len(d.stack) = 1 /\ d.stack[1] = Run(t, s, rv)
                     \/ /\ l # <<>> /\ Len(d.stack) = 2
                        /\ d.stack[1] = g /\ d.stack[2] = Run(t, s, rv)
<1> DEFINE d == Notify(Over(p, l, g), t, s, rv)
           f == Run(t, s, rv)
           n == Len(p.stack)
<1>1. /\ d \in CacheType /\ SameData(p, d) /\ SameTrans(p, d, t)
      /\ d.trans[t] = WithSt(p.trans[t], "running")
      /\ \/ l = <<>> /\ Len(d.stack) = n + 1 /\ d.stack[n + 1] = f
         \/ l # <<>> /\ Len(d.stack) = n + 2 /\ d.stack[n + 1] = g /\ d.stack[n + 2] = f
  BY NotifyOver
<1> HIDE DEF d, f
<1>2. n = 0 => \/ l = <<>> /\ Len(d.stack) = 1 /\ d.stack[1] = f
               \/ l # <<>> /\ Len(d.stack) = 2 /\ d.stack[1] = g /\ d.stack[2] = f
  BY <1>1
<1> QED BY <1>1, <1>2 DEF d, f

Replies == {"OK", "ERR"}

\* The transaction that made the call goes on; the loop waits under its DoLoop.
LEMMA TellWriter ==
    ASSUME CacheAssumption, NEW c, Good(c), c.stack = <<>>, c.op # NoOp, c.op.writer.trans \in Trans,
           NEW r \in Replies, NEW s \in States, NEW p \in CacheType, Len(p.stack) = 0, p.op = NoOp,
           p.backend = c.backend, p.backend_queue = c.backend_queue,
           \A x \in Entries : QueueOf(p, x) = QueueOf(c, x), SameTrans(c, p, c.op.writer.trans),
           r = "ERR" => p.active = NoEntry, FrameOK(p, Run(c.op.writer.trans, s, r))
    PROVE  LET u == c.op.writer.trans
               d == Notify(Over(p, c.op.queue, Behind(c, r)), u, s, r)
           IN  /\ d \in CacheType /\ SameData(p, d) /\ SameTrans(c, d, u)
               /\ d.trans[u].st = "running" /\ d.trans[u].entry = p.trans[u].entry
               /\ d.trans[u].mode = p.trans[u].mode /\ d.trans[u].new_entry = p.trans[u].new_entry
               /\ Woken(c, d, u, 0) /\ Kept(c, d, u, 0) /\ \A t \in Trans : PlacedOnce(d, t)
               /\ d.stack[Len(d.stack)] = Run(u, s, r)
<1> DEFINE u == c.op.writer.trans
           q == c.op.queue
           g == Behind(c, r)
           f == Run(u, s, r)
           d == Notify(Over(p, q, g), u, s, r)
<1>1. u \in Trans /\ r \in Results /\ q = c.op.queue BY DEF Results, Replies
<1>2. /\ g \in Frame /\ g.k = "items" /\ \A t : Listed(g, t) <=> InItems(t, q)
      /\ \A z : q # <<>> /\ z.backend = c.backend /\ (r = "ERR" => z.active = NoEntry) => FrameOK(z, g)
  BY BehindFacts DEF Replies
<1>3. FrameOK(p, f) /\ SameTrans(c, p, u) OBVIOUS
<1>4. c.op.writer.trans = u OBVIOUS
<1> HIDE DEF u, q, g
<1>5. f.k = "run" /\ f.t = u /\ \A t : ~Listed(f, t) BY <1>1, RunTypes DEF Listed
<1>6. /\ d \in CacheType /\ SameData(p, d) /\ SameTrans(p, d, u)
      /\ d.trans[u] = WithSt(p.trans[u], "running")
      /\ \/ q = <<>> /\ Len(d.stack) = 1 /\ d.stack[1] = f
         \/ q # <<>> /\ Len(d.stack) = 2 /\ d.stack[1] = g /\ d.stack[2] = f
  <2>1. Len(p.stack) = 0 /\ g \in Frame BY <1>2
  <2> QED BY <1>1, <2>1, NotifyFirst
<1>7. Len(c.stack) = 0 OBVIOUS
<1> HIDE DEF d, f
<1>8. \/ q = <<>> /\ Len(d.stack) = 1 /\ d.stack[1] = f
      \/ q # <<>> /\ Len(d.stack) = 2 /\ d.stack[1] = g /\ d.stack[2] = f
  BY <1>6
<1>9. /\ d.trans[u].st = "running" /\ d.trans[u].entry = p.trans[u].entry
      /\ d.trans[u].mode = p.trans[u].mode /\ d.trans[u].new_entry = p.trans[u].new_entry
  <2> DEFINE Sts == {"free", "pending", "running", "own"}
  <2>1. p.trans[u] \in TransType /\ "running" \in Sts BY <1>1, TransTypes
  <2> QED BY <1>6, <2>1, WithStFacts
<1>10. SameTrans(c, d, u) BY <1>3, <1>6 DEF SameTrans
<1>11. FrameOK(d, f)
  <2>1. \A e : Holders(d, e) = Holders(p, e) BY <1>6 DEF SameData, Holders
  <2> QED BY <1>3, <1>5, <1>6, <1>9, <2>1 DEF FrameOK, SameData, Ready
<1>12. q # <<>> => FrameOK(d, g) BY <1>2, <1>6 DEF SameData
<1>13. d.stack[Len(d.stack)] = f /\ Len(d.stack) > 0 BY <1>8
<1>14. \A i \in 1..Len(d.stack) : d.stack[i] = f \/ (i = 1 /\ i # Len(d.stack) /\ q # <<>> /\ d.stack[i] = g)
  BY <1>8
<1>15. Woken(c, d, u, 0)
  <2>1. \A i \in 1..Len(d.stack) : FrameOK(d, d.stack[i]) BY <1>11, <1>12, <1>14
  <2>2. \A i \in 1..Len(d.stack) : i # Len(d.stack) => d.stack[i] = g
    <3>1. CASE Len(d.stack) = 1 BY <3>1
    <3>2. CASE Len(d.stack) = 2
      <4>1. \A i \in 1..2 : i # 2 => i = 1 OBVIOUS
      <4> QED BY <1>8, <3>2, <4>1
    <3> QED BY <1>8, <3>1, <3>2
  <2> QED BY <1>2, <1>5, <1>13, <2>1, <2>2 DEF Woken, SameFrames, Runs
<1>16. Kept(c, d, u, 0)
  <2>1. Len(d.stack) \in Nat BY <1>8
  <2> QED BY <1>7, <1>10, <2>1 DEF Kept, SameTrans
<1>17. Moved(c, d)
  <2>1. q # <<>> => 1 \in 1..Len(d.stack) BY <1>8
  <2>2. ASSUME NEW t, NEW i \in 1..Len(d.stack) PROVE Listed(d.stack[i], t) <=> i = 1 /\ InItems(t, q)
    <3>1. CASE q = <<>>
      <4>1. ~InItems(t, q) BY <3>1 DEF InItems
      <4> QED BY <1>5, <1>14, <3>1, <4>1
    <3>2. CASE q # <<>>
      <4>1. i \in 1..2 BY <1>8, <3>2
      <4>2. i = 1 \/ i = 2 BY <4>1
      <4>3. (i = 1 /\ d.stack[i] = g) \/ (i = 2 /\ d.stack[i] = f) BY <1>8, <3>2, <4>2
      <4> QED BY <1>2, <1>5, <4>3
    <3> QED BY <3>1, <3>2
  <2>3. \A x \in Entries : QueueOf(d, x) = QueueOf(c, x) BY <1>6 DEF SameData, QueueOf
  <2> QED BY <1>1, <1>6, <2>1, <2>2, <2>3 DEF Moved, SameData
<1>18. \A t \in Trans : PlacedOnce(d, t)
  <2>1. c.op.writer.trans \in Trans => d.trans[c.op.writer.trans].st # "pending" BY <1>4, <1>9
  <2> QED BY <1>4, <1>6, <1>16, <1>17, <2>1, IOPlaces
<1> QED BY <1>6, <1>9, <1>10, <1>13, <1>15, <1>16, <1>18 DEF d, f, u, q, g

\* It did not get an entry, or wanted none.
LEMMA WriterAnswered ==
    ASSUME CacheAssumption, NEW c, Good(c), c.stack = <<>>, c.op # NoOp, c.op.writer.trans \in Trans,
           NEW r \in Replies, r = "ERR" \/ c.op.writer.op = "DOOM",
           NEW p, Answered(c, p), SameTrans(c, p, c.op.writer.trans),
           p.trans[c.op.writer.trans].entry = NoEntry
    PROVE  Good(Notify(Over(p, c.op.queue, Behind(c, r)), c.op.writer.trans,
                       Completed[c.op.writer.op], r))
<1> DEFINE u == c.op.writer.trans
           op == c.op.writer.op
           s == Completed[op]
           d == Notify(Over(p, c.op.queue, Behind(c, r)), u, s, r)
<1>1. /\ c \in CacheType /\ p \in CacheType /\ c.active = NoEntry /\ c.backend = "disk" /\ u \in Trans
  BY DEF Good, Answered, Disk
<1>2. op \in Ops BY <1>1, OpParts DEF ItemType, Ops
<1>3. /\ s \in States /\ r \in Results /\ (s = "DOOM_COMPLETE" <=> op = "DOOM")
      /\ s \in {"OPEN_COMPLETE", "CREATE_COMPLETE", "DOOM_COMPLETE"}
  BY <1>2, CompletedIs DEF Ops, States, Results, Replies
<1>4. r = "ERR" \/ op = "DOOM" OBVIOUS
<1>5. /\ c.trans[u].st = "pending" /\ c.trans[u].entry = NoEntry
      /\ \A x \in Entries : u \notin Holders(c, x) /\ ~InSeq(u, QueueOf(c, x))
  BY OpWriter
<1>6. p.trans[u].entry = NoEntry /\ SameTrans(c, p, u) OBVIOUS
<1> HIDE DEF s, op
<1>7. FrameOK(p, Run(u, s, r))
  <2>1. p.active = NoEntry /\ Ready(p) BY <1>1 DEF Answered, Ready
  <2>2. ~Found(Run(u, s, r)) /\ ~Added(Run(u, s, r)) BY <1>1, <1>3, <1>4, RunTypes DEF Found, Added
  <2> QED BY <1>1, <1>3, <1>6, <2>1, <2>2, RunTypes DEF FrameOK
<1>8. /\ Len(p.stack) = 0 /\ p.op = NoOp /\ p.backend = c.backend /\ p.backend_queue = c.backend_queue
      /\ \A x \in Entries : QueueOf(p, x) = QueueOf(c, x)
      /\ p.active = NoEntry
  BY <1>1 DEF Answered, QueueOf
<1>9. /\ d \in CacheType /\ SameData(p, d) /\ SameTrans(c, d, u)
      /\ d.trans[u].st = "running" /\ d.trans[u].entry = p.trans[u].entry
      /\ Woken(c, d, u, 0) /\ \A t \in Trans : PlacedOnce(d, t)
  BY <1>1, <1>3, <1>6, <1>7, <1>8, TellWriter, SMTT(30)
<1> HIDE DEF d
<1>10. /\ d.active = c.active /\ d.entries = c.entries /\ d.op = NoOp /\ d.tasks = c.tasks
       /\ d.backend = c.backend /\ d.backend_queue = c.backend_queue
  BY <1>9 DEF SameData, Answered
<1>11. Disk(d) /\ Backed(c, d, 0) BY <1>10, AnsweredDisk
<1>12. 0 \in Nat /\ 0 = Len(c.stack) OBVIOUS
<1>13. c.trans[u].st # "running" BY <1>5
<1> HIDE DEF u
<1>14. Good(d)
  BY <1>1, <1>5, <1>6, <1>9, <1>10, <1>11, <1>12, <1>13, WakeGood
<1> QED BY <1>14 DEF d, s, op, u

\* It gets a new entry.
LEMMA WriterActivates ==
    ASSUME CacheAssumption, NEW c, Good(c), c.stack = <<>>, c.op # NoOp, c.op.writer.trans \in Trans,
           c.op.writer.op # "DOOM", Live(c) # Entries
    PROVE  LET u == c.op.writer.trans
               x == [ActivateEntry(SetOp(c, NoOp)) EXCEPT !.disk = TRUE]
           IN  Good(Notify(Over(WithNew(x, u, x.active), c.op.queue, Behind(c, "OK")), u,
                           Completed[c.op.writer.op], "OK"))
<1> DEFINE u == c.op.writer.trans
           op == c.op.writer.op
           s == Completed[op]
           y == SetOp(c, NoOp)
           x == [ActivateEntry(y) EXCEPT !.disk = TRUE]
           e == x.active
           p == WithNew(x, u, e)
           d == Notify(Over(p, c.op.queue, Behind(c, "OK")), u, s, "OK")
           f == Run(u, s, "OK")
<1>1. c \in CacheType /\ c.active = NoEntry /\ c.backend = "disk" /\ u \in Trans BY DEF Good, Disk
<1>2. op \in Ops /\ op # "DOOM" BY <1>1, OpParts DEF ItemType, Ops
<1>3. s \in States /\ "OK" \in Results /\ "OK" \in Replies /\ s \in {"OPEN_COMPLETE", "CREATE_COMPLETE"}
  BY <1>2, CompletedIs DEF Ops, States, Results, Replies
<1>4. /\ c.trans[u].st = "pending" /\ c.trans[u].entry = NoEntry
      /\ \A z \in Entries : u \notin Holders(c, z) /\ ~InSeq(u, QueueOf(c, z))
  BY OpWriter
<1>5. /\ y \in CacheType /\ y.active = c.active /\ y.entries = c.entries /\ y.op = NoOp
      /\ y.backend_queue = c.backend_queue /\ y.tasks = c.tasks /\ y.trans = c.trans
      /\ y.stack = c.stack /\ y.backend = c.backend
  BY <1>1, SetOpFacts
<1> HIDE DEF s, op, y
<1>6. Activated(y, x, e) /\ x.trans = y.trans /\ x.stack = y.stack
  <2>1. Live(y) # Entries BY <1>5 DEF Live
  <2> QED BY <1>1, <1>5, <2>1, ActivateFacts
<1>7. x \in CacheType /\ e \in Entries /\ e \in Addresses /\ e # NoEntry /\ e \notin Live(c)
  BY <1>5, <1>6 DEF Activated, Addresses, CacheAssumption, NoEntry, Live
<1> HIDE DEF x
<1>8. /\ Own(x, p, u) /\ p.trans[u].st = x.trans[u].st /\ p.trans[u].new_entry = e
      /\ p.trans[u].entry = x.trans[u].entry
  BY <1>1, <1>7, WithNewFacts
<1> HIDE DEF p
<1>9. /\ p \in CacheType /\ Len(p.stack) = 0 /\ p.op = NoOp /\ p.backend = c.backend /\ p.active = e
      /\ p.backend_queue = c.backend_queue /\ p.tasks = c.tasks /\ p.entries[e] = Fresh
      /\ \A z \in Entries \ {e} : p.entries[z] = c.entries[z]
  BY <1>5, <1>6, <1>8 DEF Own, SameData, Activated
<1>10. SameTrans(c, p, u) /\ p.trans[u].entry = NoEntry
  BY <1>4, <1>5, <1>6, <1>8 DEF SameTrans, Own
<1>11. \A z \in Entries : QueueOf(p, z) = QueueOf(c, z)
  <2>1. QueueOf(p, e) = <<>> /\ QueueOf(c, e) = <<>>
    BY <1>7, <1>9, FreshFacts DEF QueueOf, Live
  <2> QED BY <1>9, <2>1 DEF QueueOf
<1>12. f.k = "run" /\ f.t = u /\ f.s = s /\ f.rv = "OK" /\ Found(f) BY <1>1, <1>3, RunTypes DEF Found
<1> HIDE DEF f
<1>13. FrameOK(p, f)
  BY <1>1, <1>3, <1>7, <1>8, <1>9, <1>10, <1>12 DEF FrameOK, Missed, Added, Ready
<1>14. /\ d \in CacheType /\ SameData(p, d) /\ SameTrans(c, d, u)
       /\ d.trans[u].st = "running" /\ d.trans[u].entry = p.trans[u].entry
       /\ d.trans[u].new_entry = p.trans[u].new_entry
       /\ Woken(c, d, u, 0) /\ Kept(c, d, u, 0) /\ \A t \in Trans : PlacedOnce(d, t)
       /\ d.stack[Len(d.stack)] = f
  <2>1. FrameOK(p, Run(u, s, "OK")) BY <1>13 DEF f
  <2> QED BY <1>1, <1>3, <1>9, <1>10, <1>11, <2>1, TellWriter, SMTT(30) DEF f
<1> HIDE DEF d
<1>15. 0 \in Nat OBVIOUS
<1>16. NewFrames(d, u, 0) /\ Len(d.stack) \in 1..Len(d.stack) BY <1>14, <1>15, WokenNew
<1>17. Finding(d, e) BY <1>8, <1>12, <1>14, <1>16 DEF Finding
<1>18. TransOK(d, u) BY <1>10, <1>14 DEF TransOK
<1>19. /\ d.active = e /\ d.tasks = c.tasks /\ d.backend = c.backend /\ d.op = NoOp
       /\ d.entries[e] = Fresh /\ \A z \in Entries \ {e} : d.entries[z] = c.entries[z]
  BY <1>9, <1>14 DEF SameData
<1>20. Distinct(d.backend_queue, 0) /\ Ready(c)
  BY <1>1, <1>9, <1>14 DEF SameData, Good, Disk, Ready
<1>21. \A i \in 1..Len(c.stack) : FALSE OBVIOUS
<1> HIDE DEF u, e
<1>22. Good(d)
  BY <1>1, <1>4, <1>7, <1>14, <1>16, <1>17, <1>18, <1>19, <1>20, <1>21, ActivateGood
<1> QED BY <1>22 DEF d, p, e, x, y, s, op, u

LEMMA OnIOCompleteGood ==
    ASSUME CacheAssumption, Good(cache), NEW result \in {"OK", "ERR"}, OnIOComplete(result)
    PROVE  Good(cache')
<1> DEFINE item == cache.op.writer
           u == item.trans
           op == item.op
           q == cache.op.queue
           g == Behind(cache, result)
           y == SetOp(cache, NoOp)
           z == CompleteOp(y, item, u # NoTrans, result)
           new == IF result = "OK" THEN z.active ELSE NoEntry
           x == IF u # NoTrans /\ op # "DOOM" THEN WithNew(z, u, new) ELSE z
           s == Completed[op]
<1>1. cache.stack = <<>> /\ cache.op # NoOp /\ result \in BackendResults(cache, op)
  BY DEF OnIOComplete, AtLoop
<1>2. cache' = Notify(IF g.items = <<>> THEN x ELSE Push(x, g), u, s, result)
  BY DEF OnIOComplete, Behind, SetOp, WithNew
<1>3. cache' = Notify(Over(x, q, g), u, s, result)
  <2>1. g.items = q BY DEF Behind
  <2> HIDE DEF g, q, x, s, u
  <2> QED BY <1>2, <2>1 DEF Over
<1>4. cache \in CacheType /\ cache.active = NoEntry /\ cache.backend = "disk" BY <1>1 DEF Good, Disk
<1>5. u \in Trans \cup {NoTrans} /\ op \in Ops /\ NoTrans \notin Trans
  BY <1>1, <1>4, OpParts DEF ItemType, Ops, CacheAssumption
<1>6. result = "OK" /\ op # "DOOM" => Live(cache) # Entries BY <1>1 DEF BackendResults
<1>7. result \in Replies BY DEF Replies
<1>8. /\ y \in CacheType /\ y.active = cache.active /\ y.entries = cache.entries /\ y.op = NoOp
      /\ y.backend_queue = cache.backend_queue /\ y.tasks = cache.tasks /\ y.trans = cache.trans
      /\ y.stack = cache.stack /\ y.backend = cache.backend
  BY <1>4, SetOpFacts
<1>9. /\ result = "OK" /\ op = "DOOM" => z = SetDisk(y, FALSE)
      /\ result = "OK" /\ op # "DOOM" /\ u # NoTrans => z = [ActivateEntry(y) EXCEPT !.disk = TRUE]
      /\ result # "OK" \/ (op # "DOOM" /\ u = NoTrans) => z = y
  BY DEF CompleteOp, SetDisk
<1>10. ASSUME result = "ERR" \/ op = "DOOM" \/ u = NoTrans
       PROVE  Answered(cache, z) /\ z.trans = cache.trans
  <2>1. z = y \/ z = SetDisk(y, FALSE) BY <1>9, <1>10
  <2> HIDE DEF y, z
  <2>2. CASE z = y BY <1>8, <2>2 DEF Answered
  <2>3. CASE z = SetDisk(y, FALSE)
    <3>1. z \in CacheType /\ SameData(y, z) /\ z.trans = y.trans /\ z.stack = y.stack
      BY <1>8, <2>3, SetDiskFacts
    <3> QED BY <1>8, <3>1 DEF Answered, SameData
  <2> QED BY <2>1, <2>2, <2>3
<1>11. CASE u = NoTrans
  <2>1. x = z BY <1>11
  <2>2. cache' = Over(z, q, g)
    <3> HIDE DEF u, z, q, g, x, s
    <3> QED BY <1>3, <1>11, <2>1 DEF Notify
  <2>3. Answered(cache, z) /\ z.trans = cache.trans BY <1>10, <1>11
  <2> HIDE DEF z
  <2>4. Good(Over(z, q, g)) BY <1>1, <1>11, <2>3, NobodyAnswered
  <2> HIDE DEF q, g
  <2> QED BY <2>2, <2>4
<1>12. CASE u \in Trans /\ (result = "ERR" \/ op = "DOOM")
  <2>1. Answered(cache, z) /\ z.trans = cache.trans BY <1>10, <1>12
  <2>2. u # NoTrans /\ (op # "DOOM" => new = NoEntry) BY <1>5, <1>12
  <2>3. cache.trans[u].entry = NoEntry BY <1>1, <1>12, OpWriter
  <2>4. x = IF op # "DOOM" THEN WithNew(z, u, NoEntry) ELSE z BY <2>2
  <2> HIDE DEF z, x
  <2>5. Answered(cache, x) /\ SameTrans(cache, x, u) /\ x.trans[u].entry = NoEntry
    <3>1. CASE op = "DOOM"
      <4>1. x = z BY <2>4, <3>1
      <4> QED BY <2>1, <2>3, <4>1 DEF SameTrans
    <3>2. CASE op # "DOOM"
      <4>1. x = WithNew(z, u, NoEntry) BY <2>4, <3>2
      <4>2. NoEntry \in Addresses /\ z \in CacheType BY <2>1 DEF Addresses, Answered
      <4>3. Own(z, x, u) /\ x.trans[u].entry = z.trans[u].entry
        BY <1>12, <4>1, <4>2, WithNewFacts
      <4> QED BY <2>1, <2>3, <4>3 DEF Own, SameData, SameTrans, Answered
    <3> QED BY <3>1, <3>2
  <2>6. Good(Notify(Over(x, q, g), u, s, result))
    BY <1>1, <1>7, <1>12, <2>5, WriterAnswered
  <2> HIDE DEF q, g, u, s
  <2> QED BY <1>3, <2>6
<1>13. CASE u \in Trans /\ result = "OK" /\ op # "DOOM"
  <2> DEFINE w == [ActivateEntry(SetOp(cache, NoOp)) EXCEPT !.disk = TRUE]
  <2>1. u # NoTrans /\ new = z.active BY <1>5, <1>13
  <2>2. z = w BY <1>9, <1>13, <2>1
  <2>3. x = WithNew(w, u, w.active)
    <3>1. x = WithNew(z, u, z.active) BY <1>13, <2>1
    <3> HIDE DEF x, z, w
    <3> QED BY <2>2, <3>1
  <2> HIDE DEF x, z
  <2>4. Live(cache) # Entries BY <1>6, <1>13
  <2>5. Good(Notify(Over(WithNew(w, u, w.active), q, Behind(cache, "OK")), u, s, "OK"))
    BY <1>1, <1>13, <2>4, WriterActivates
  <2> HIDE DEF w
  <2>6. cache' = Notify(Over(WithNew(w, u, w.active), q, Behind(cache, "OK")), u, s, "OK")
    BY <1>3, <1>13, <2>3
  <2> QED BY <2>5, <2>6
<1> QED BY <1>5, <1>11, <1>12, <1>13

-----------------------------------------------------------------------------
(* The invariant.                                                          *)

LEMMA InitGood ==
    ASSUME CacheAssumption, Init
    PROVE  Good(cache)
<1>1. /\ cache.active = NoEntry /\ cache.entries = [e \in Entries |-> Dead] /\ cache.op = NoOp
      /\ cache.disk = FALSE /\ cache.backend = "none" /\ cache.backend_queue = <<>>
      /\ cache.tasks = <<>> /\ cache.trans = [t \in Trans |-> Gone] /\ cache.stack = <<>>
      /\ cache.failed = {}
  BY DEF Init
<1>2. cache \in CacheType
  <2>1. [t \in Trans |-> Gone] \in [Trans -> TransType] BY Shapes
  <2>2. [e \in Entries |-> Dead] \in [Entries -> EntryType \cup {Dead}] OBVIOUS
  <2>3. FALSE \in BOOLEAN OBVIOUS
  <2> QED BY <2>1, <2>2, <2>3 DEF Init, CacheType
<1>3. \A t \in Trans : cache.trans[t] = Gone BY <1>1
<1>4. Gone.st = "free" /\ Gone.entry = NoEntry BY DEF Gone
<1>5. \A e \in Entries : cache.entries[e] = Dead BY <1>1
<1>6. Len(cache.stack) = 0 /\ \A i \in 1..Len(cache.stack) : FALSE BY <1>1
<1>7. Framed(cache) /\ Frames(cache) BY <1>3, <1>4, <1>6 DEF Framed, Frames
<1>8. Live(cache) = {} BY <1>5 DEF Live
<1>9. Distinct(<<>>, 0) BY DEF Distinct, From
<1>10. Disk(cache) BY <1>1, <1>8, <1>9 DEF Disk
<1>11. Tasked(cache) BY <1>1, <1>5, <1>9, InEmpty DEF Tasked
<1>12. ASSUME NEW t \in Trans PROVE TransOK(cache, t) /\ PlacedOnce(cache, t)
  <2>1. TransOK(cache, t) BY <1>3, <1>4 DEF TransOK
  <2>2. cache.trans[t].st # "pending" BY <1>3, <1>4
  <2>3. \A x \in Entries : ~InSeq(t, QueueOf(cache, x)) BY <1>5, InEmpty DEF QueueOf
  <2>4. ~InOp(cache.op, t) /\ ~InSeq(t, cache.backend_queue) BY <1>1, InEmpty DEF InOp
  <2>5. PlacedOnce(cache, t) BY <1>6, <2>2, <2>3, <2>4, PlacedNowhere
  <2> QED BY <2>1, <2>5
<1> QED BY <1>2, <1>7, <1>8, <1>10, <1>11, <1>12 DEF Good

LEMMA DoLoopGood ==
    ASSUME CacheAssumption, Good(cache), NEW t \in Trans, DoLoop(t)
    PROVE  Good(cache')
<1>1. CASE DoInitEntry(t) BY <1>1, DoInitEntryGood
<1>2. CASE DoOpenEntryComplete(t) BY <1>2, DoOpenEntryCompleteGood
<1>3. CASE DoCreateEntry(t) BY <1>3, DoCreateEntryGood
<1>4. CASE DoCreateEntryComplete(t) BY <1>4, DoCreateEntryCompleteGood
<1>5. CASE DoDoomEntryComplete(t) BY <1>5, DoDoomEntryCompleteGood
<1>6. CASE DoAddToEntry(t) BY <1>6, DoAddToEntryGood
<1>7. CASE DoAddToEntryComplete(t) BY <1>7, DoAddToEntryCompleteGood
<1>8. CASE Suspend(t) BY <1>8, SuspendGood
<1>9. CASE Overwrite(t) BY <1>9, OverwriteGood
<1>10. CASE Validated(t) BY <1>10, ValidatedGood
<1>11. CASE NoStore(t) BY <1>11, NoStoreGood
<1>12. CASE \E success \in BOOLEAN : DoneWriting(t, success) BY <1>12, DoneWritingStep
<1>13. CASE DoneReading(t) BY <1>13, DoneReadingGood
<1>14. CASE DoomPartialEntry(t) BY <1>14, DoomPartialEntryGood
<1>15. CASE Pass(t) BY <1>15, PassOver
<1> QED BY <1>1, <1>2, <1>3, <1>4, <1>5, <1>6, <1>7, <1>8, <1>9, <1>10, <1>11, <1>12, <1>13,
           <1>14, <1>15 DEF DoLoop

LEMMA NextGood ==
    ASSUME CacheAssumption, Good(cache), Next
    PROVE  Good(cache')
<1>1. CASE \E t \in Trans : DoLoop(t) BY <1>1, DoLoopGood
<1>2. CASE NotifyItem BY <1>2, NotifyItemGood
<1>3. CASE NotifyRace BY <1>3, NotifyRaceGood
<1>4. CASE NotifyBackendWaiter BY <1>4, NotifyBackendWaiterGood
<1>5. CASE UserReturn BY <1>5, UserReturnGood
<1>6. CASE \E result \in {"OK", "ERR"} : OnIOComplete(result) BY <1>6, OnIOCompleteGood
<1>7. CASE \E result \in {"disk", "memory", "failed"} : OnBackendCreated(result)
  BY <1>7, OnBackendCreatedGood
<1>8. CASE OnProcessPendingQueue BY <1>8, OnProcessPendingQueueGood
<1>9. ASSUME NEW t \in Trans, (\E mode \in Modes : Start(t, mode)) \/ Delete(t) \/ Resume(t)
      PROVE  Good(cache')
  <2>1. CASE \E mode \in Modes : Start(t, mode) BY <2>1, StartGood
  <2>2. CASE Delete(t) BY <2>2, DeleteGood
  <2>3. CASE Resume(t) BY <2>3, ResumeGood
  <2> QED BY <1>9, <2>1, <2>2, <2>3
<1> QED BY <1>1, <1>2, <1>3, <1>4, <1>5, <1>6, <1>7, <1>8, <1>9
        DEF Next, StackStep, LoopStep, UserStep

\* The invariant holds in every state: whatever the clients start, delete and read, in
\* and out of callbacks, and whatever the disk cache answers.
THEOREM CacheInvariant == Spec => []Good(cache)
<1>1. Init => Good(cache) BY InitGood, CacheAssumption
<1>2. Good(cache) /\ [Next]_vars => Good(cache)'
  <2>1. CASE Next BY <2>1, NextGood, CacheAssumption
  <2>2. CASE UNCHANGED vars
    <3>1. cache' = cache BY <2>2 DEF vars
    <3> QED BY <3>1
  <2> QED BY <2>1, <2>2
<1> QED BY <1>1, <1>2, PTL DEF Spec

\* The maps, entries, work items and transactions keep the shape http_cache.h declares.
THEOREM CacheTypes == Spec => []TypeOK
<1>1. Good(cache) => TypeOK
  <2> SUFFICES ASSUME Good(cache) PROVE TypeOK OBVIOUS
  <2>1. cache \in CacheType BY DEF Good
  <2> QED BY <2>1, FieldTypes DEF TypeOK, OpType
<1> QED BY <1>1, CacheInvariant, PTL

\* ActiveEntry is a reader/writer lock: a writer is alone, readers only read, and who uses
\* an entry, or was let in to it, is who the entry names, through every restart,
\* conversion, failed write and doomed entry.
THEOREM LocksAreExact == Spec => []LockExact
<1>1. Good(cache) => LockExact
  <2> SUFFICES ASSUME Good(cache), NEW e \in Live(cache)
               PROVE  LET x == cache.entries[e]
                      IN  /\ x.writer # NoTrans => x.readers = {} /\ CanWrite(Mode(x.writer))
                          /\ \A t \in x.readers : ~CanWrite(Mode(t))
                          /\ \A t \in Trans : cache.trans[t].entry = e => t \in Holders(cache, e)
                          /\ \A t \in Holders(cache, e) :
                                e \in {cache.trans[t].entry, cache.trans[t].new_entry}
    BY DEF LockExact
  <2>1. LockOK(cache, e) /\ e \in Entries BY DEF Good, Live
  <2>2. e # NoEntry BY <2>1, CacheAssumption DEF CacheAssumption, NoEntry
  <2>3. \A t \in Trans : cache.trans[t].entry = e => t \in Holders(cache, e)
    BY <2>2 DEF Good, TransOK
  <2>4. \A t \in Holders(cache, e) : e \in {cache.trans[t].entry, cache.trans[t].new_entry}
    BY <2>1 DEF LockOK, Adding
  <2> QED BY <2>1, <2>3, <2>4 DEF LockOK, Mode
<1> QED BY <1>1, CacheInvariant, PTL

\* OnProcessPendingQueue finds its entry alive: there is one task for each entry that
\* will_process_pending_queue promises one, and none for an entry that is gone.
THEOREM TasksAreExact == Spec => []TasksExact
<1>1. Good(cache) => TasksExact
  <2> SUFFICES ASSUME Good(cache) PROVE TasksExact OBVIOUS
  <2>1. cache.tasks \in Seq(Entries) /\ Tasked(cache) BY FieldTypes DEF Good
  <2>2. \A i, j \in 1..Len(cache.tasks) : cache.tasks[i] = cache.tasks[j] => i = j
    BY <2>1 DEF Tasked, Distinct, From
  <2> QED BY <2>1, <2>2 DEF Tasked, TasksExact
<1> QED BY <1>1, CacheInvariant, PTL

\* When the message loop runs, every entry is used by somebody or has a task: no
\* transaction that was deleted, failed or started over has left one behind.
THEOREM NoEntryIsAbandoned == Spec => []NoAbandonedEntry
<1>1. Good(cache) => NoAbandonedEntry
  <2> SUFFICES ASSUME Good(cache), cache.stack = <<>>, NEW e \in Live(cache)
               PROVE  Holders(cache, e) # {} \/ cache.entries[e].will_process
    BY DEF NoAbandonedEntry, AtLoop
  <2>1. LockOK(cache, e) BY DEF Good
  <2>2. ~Finding(cache, e) BY DEF Finding
  <2> QED BY <2>1, <2>2 DEF LockOK
<1> QED BY <1>1, CacheInvariant, PTL

\* Dooming an entry that nobody uses, or a key for nobody, breaks the three DCHECKs that
\* FailingChecks names; no other DCHECK of the cache about entries, operations and locks
\* fails, before or after one of those has.
THEOREM ChecksHold == Spec => []EntryChecks
<1>1. Good(cache) => EntryChecks BY FieldTypes DEF Good, EntryChecks
<1> QED BY <1>1, CacheInvariant, PTL

LEMMA OnePlace ==
    ASSUME CacheAssumption, NEW c, Good(c), NEW t \in Trans
    PROVE  /\ c.trans[t].st # "pending" => Places(c, t) = {}
           /\ c.trans[t].st = "pending" => \E p : Places(c, t) = {p}
<1> DEFINE A == {<<"entry", e>> : e \in {x \in Live(c) : InSeq(t, c.entries[x].pending_queue)}}
           B == IF c.op # NoOp /\ c.op.writer.trans = t THEN {<<"op", 0>>} ELSE {}
           C == IF c.op = NoOp THEN {} ELSE
                  {<<"op", i>> : i \in {j \in 1..Len(c.op.queue) : c.op.queue[j].trans = t}}
           D == IF InSeq(t, c.backend_queue) THEN {<<"backend", 0>>} ELSE {}
           F == IF InLocalList(c, t) THEN {<<"loop", 0>>} ELSE {}
<1>1. Places(c, t) = A \cup B \cup C \cup D \cup F BY DEF Places
<1>2. c \in CacheType /\ Disk(c) /\ t # NoTrans BY DEF Good, CacheAssumption
<1>3. InLocalList(c, t) <=> \E i \in 1..Len(c.stack) : Listed(c.stack[i], t)
  BY DEF InLocalList, Listed
<1>4. \A x \in Entries : InSeq(t, QueueOf(c, x)) <=>
                         x \in Live(c) /\ InSeq(t, c.entries[x].pending_queue)
  BY InEmpty DEF QueueOf, Live
<1>5. (\A x \in Entries : ~InSeq(t, QueueOf(c, x))) => A = {} BY <1>4 DEF Live
<1>6. ~InOp(c.op, t) => B = {} /\ C = {} BY DEF InOp
<1>7. ~InSeq(t, c.backend_queue) => D = {} OBVIOUS
<1>8. (\A i \in 1..Len(c.stack) : ~Listed(c.stack[i], t)) => F = {} BY <1>3
<1>9. ASSUME NEW x \in Entries, InSeq(t, QueueOf(c, x)),
             \A y \in Entries : InSeq(t, QueueOf(c, y)) => x = y
      PROVE  A = {<<"entry", x>>}
  <2>1. {y \in Live(c) : InSeq(t, c.entries[y].pending_queue)} = {x} BY <1>4, <1>9 DEF Live
  <2> QED BY <2>1
<1>10. ASSUME InOp(c.op, t) PROVE \E p : B \cup C = {p}
  <2>1. c.op # NoOp BY <1>10 DEF InOp
  <2>2. /\ ItemsOnce(c.op.queue)
        /\ \A i \in 1..Len(c.op.queue) :
              c.op.queue[i].trans = c.op.writer.trans => c.op.writer.trans = NoTrans
    BY <1>2, <2>1 DEF Disk
  <2>3. CASE c.op.writer.trans = t
    <3>1. B = {<<"op", 0>>} BY <2>1, <2>3
    <3>2. {j \in 1..Len(c.op.queue) : c.op.queue[j].trans = t} = {} BY <1>2, <2>2, <2>3
    <3>3. C = {} BY <3>2
    <3> HIDE DEF B, C
    <3> QED BY <3>1, <3>3
  <2>4. CASE c.op.writer.trans # t
    <3>1. B = {} BY <2>4
    <3>2. PICK i \in 1..Len(c.op.queue) : c.op.queue[i].trans = t BY <1>10, <2>4 DEF InOp
    <3>3. {j \in 1..Len(c.op.queue) : c.op.queue[j].trans = t} = {i}
      BY <1>2, <2>2, <3>2 DEF ItemsOnce
    <3>4. C = {<<"op", i>>} BY <2>1, <3>3
    <3> HIDE DEF B, C
    <3> QED BY <3>1, <3>4
  <2> QED BY <2>3, <2>4
<1>11. InSeq(t, c.backend_queue) => D = {<<"backend", 0>>} OBVIOUS
<1>12. (\E i \in 1..Len(c.stack) : Listed(c.stack[i], t)) => F = {<<"loop", 0>>} BY <1>3
<1> HIDE DEF A, B, C, D, F
<1>13. CASE c.trans[t].st # "pending"
  <2>1. /\ \A x \in Entries : ~InSeq(t, QueueOf(c, x))
        /\ ~InOp(c.op, t) /\ ~InSeq(t, c.backend_queue)
        /\ \A i \in 1..Len(c.stack) : ~Listed(c.stack[i], t)
    BY <1>13, Nowhere
  <2> QED BY <1>1, <1>5, <1>6, <1>7, <1>8, <1>13, <2>1
<1>14. CASE c.trans[t].st = "pending"
  <2>1. PICK k, x : InPlace(c, t, k, x) BY <1>14 DEF Good, PlacedOnce
  <2>2. /\ \A y \in Entries : InSeq(t, QueueOf(c, y)) => k = "entry" /\ x = y
        /\ InOp(c.op, t) => k = "op"
        /\ InSeq(t, c.backend_queue) => k = "backend"
        /\ \A i \in 1..Len(c.stack) : Listed(c.stack[i], t) => k = "loop"
    BY <2>1, Elsewhere
  <2>3. k \in {"entry", "op", "backend", "loop"} BY <2>1 DEF InPlace
  <2>4. CASE k = "entry"
    <3>1. x \in Entries /\ InSeq(t, QueueOf(c, x)) BY <2>1, <2>4, InQueueOf
    <3>2. A = {<<"entry", x>>} BY <1>9, <2>2, <3>1
    <3>3. B = {} /\ C = {} /\ D = {} /\ F = {} BY <1>6, <1>7, <1>8, <2>2, <2>4
    <3>4. Places(c, t) = {<<"entry", x>>} BY <1>1, <3>2, <3>3
    <3> QED BY <1>14, <3>4
  <2>5. CASE k = "op"
    <3>1. InOp(c.op, t) BY <2>1, <2>5 DEF InPlace
    <3>2. A = {} /\ D = {} /\ F = {} BY <1>5, <1>7, <1>8, <2>2, <2>5
    <3>3. Places(c, t) = B \cup C BY <1>1, <3>2
    <3> QED BY <1>10, <1>14, <3>1, <3>3
  <2>6. CASE k = "backend"
    <3>1. InSeq(t, c.backend_queue) BY <2>1, <2>6 DEF InPlace
    <3>2. A = {} /\ B = {} /\ C = {} /\ F = {} BY <1>5, <1>6, <1>8, <2>2, <2>6
    <3>3. Places(c, t) = D BY <1>1, <3>2
    <3> QED BY <1>11, <1>14, <3>1, <3>3
  <2>7. CASE k = "loop"
    <3>1. \E i \in 1..Len(c.stack) : Listed(c.stack[i], t) BY <2>1, <2>7 DEF InPlace
    <3>2. A = {} /\ B = {} /\ C = {} /\ D = {} BY <1>5, <1>6, <1>7, <2>2, <2>7
    <3>3. Places(c, t) = F BY <1>1, <3>2
    <3> QED BY <1>12, <1>14, <3>1, <3>3
  <2> QED BY <2>3, <2>4, <2>5, <2>6, <2>7
<1> QED BY <1>13, <1>14

\* A transaction that waits is in one list and one that does not is in none: it is called
\* back once, RemovePendingTransaction finds it, and no list holds one that was deleted.
THEOREM WaitsAreInOnePlace == Spec => []WaitsInOnePlace
<1>1. Good(cache) => WaitsInOnePlace
  <2> SUFFICES ASSUME Good(cache), NEW t \in Trans
               PROVE  Cardinality(Places(cache, t)) = IF cache.trans[t].st = "pending" THEN 1 ELSE 0
    BY DEF WaitsInOnePlace
  <2>1. CASE cache.trans[t].st = "pending"
    <3>1. PICK p : Places(cache, t) = {p} BY <2>1, OnePlace, CacheAssumption
    <3>2. Cardinality({p}) = 1 BY FS_Singleton
    <3> QED BY <2>1, <3>1, <3>2
  <2>2. CASE cache.trans[t].st # "pending"
    <3>1. Places(cache, t) = {} BY <2>2, OnePlace, CacheAssumption
    <3>2. Cardinality({}) = 0 BY FS_EmptySet
    <3> QED BY <2>2, <3>1, <3>2
  <2> QED BY <2>1, <2>2
<1> QED BY <1>1, CacheInvariant, PTL
===============================================================================
