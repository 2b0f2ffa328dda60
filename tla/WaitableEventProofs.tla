------------------------- MODULE WaitableEventProofs --------------------------
(***************************************************************************)
(* The invariants of WaitableEvent, and that it implements EventSpec, for  *)
(* every number of threads and events and all arrays given to WaitMany.    *)
(***************************************************************************)
EXTENDS WaitableEvent, ListLemmas

\* The arrays that WaitMany may be given, and TimedWait makes of its event.
Arrays == {raw \in Seq(Events) : raw # <<>> /\ Distinct(raw, 0)}

\* The call c is one that a thread can be in.
CallOK(c) ==
    /\ c \in CallType /\ KInRange(c)
    /\ c.at \in {"check", "wait", "lock", "leave", "unwind", "unlock"} => c.raw \in Arrays
    /\ c.at \in {"check", "wait"} /\ ~c.many => Len(c.raw) = 1
    /\ c.at = "all" => c.event \in Manual
    /\ c.at \in {"one", "pop"} => c.event \notin Manual
    /\ c.at = "unlock" => ~c.finite

Types == TypeOK /\ \A t \in Threads : CallOK(call[t])

\* The thread in the call c holds the lock of e, and nobody else does.
Holds(c, e) ==
    \/ c.at \in {"all", "one", "pop"} /\ c.event = e
    \/ c.at = "lock" /\ \E j \in 1..(c.k - 1) : Sorted(c.raw)[j] = e
    \/ c.at \in {"unwind", "unlock"} /\ \E j \in 1..c.k : Sorted(c.raw)[j] = e

LockOK == \A t \in Threads, e \in Events : lock_[e] = t <=> Holds(call[t], e)

\* A locked event is not signaled: who locks it has looked.
LockedQuiet == \A e \in Events : lock_[e] # Nobody => ~signaled_[e]

\* The signaler in the call c drops the waiters of e before position Pos(c).
Drops(c, e) == c.at \in {"all", "pop"} /\ c.event = e
Pos(c) == IF c.at = "all" THEN c.i ELSE 2

\* The waiters of e that a signal may still look at.
LiveOf(s, calls, e) ==
    {w \in Threads : \E i \in 1..Len(s) :
       /\ s[i] = w
       /\ \A t \in Threads : Drops(calls[t], e) => i >= Pos(calls[t])}
Live(e) == LiveOf(waiters_[e], call, e)

Once == \A e \in Events : Distinct(waiters_[e], 0)

\* A live waiter is one of a wait that has not left the list, was not fired by this
\* event, and does not sleep while the event is signaled.
LiveAt(w, e) ==
    /\ InWait(w, e) /\ signaling_event_[w] # e
    /\ signaled_[e] => fired_[w]

LiveOK == \A e \in Events : \A w \in Live(e) : LiveAt(w, e)

\* A thread that was not fired will be found by a signal of each of its events.
Sleeps(t, e) ==
    /\ call[t].at \in {"unlock", "check", "wait"} /\ ~fired_[t]
    /\ e \in ToSet(call[t].raw)

Listed == \A t \in Threads, e \in Events : Sleeps(t, e) => t \in Live(e)

FiredAt(t) ==
    /\ call[t].at \in {"dequeue", "leave"} => fired_[t]
    /\ call[t].at \in {"unlock", "check", "wait", "leave"} /\ fired_[t]
         => signaling_event_[t] \in ToSet(call[t].raw)

FiredOK == \A t \in Threads : FiredAt(t)

\* What SignalOne has fired is still there to be dropped.
PopOK == \A t \in Threads : call[t].at = "pop" => waiters_[call[t].event] # <<>>

IInv == Types /\ LockOK /\ LockedQuiet /\ Once /\ LiveOK /\ Listed /\ FiredOK /\ PopOK

-----------------------------------------------------------------------------
(* Calls.                                                                  *)

\* The members of a call at each place.
LEMMA CallShape ==
    ASSUME NEW c, CallOK(c)
    PROVE  /\ c.at \in {"idle", "all", "one", "pop", "check", "wait", "dequeue", "lock",
                        "leave", "unwind", "unlock", "return"}
           /\ c.at = "idle" => c = Idle
           /\ c.at \in {"all", "one"} =>
                /\ c.event \in Events /\ c.i \in Nat \ {0}
                /\ c = [at |-> c.at, event |-> c.event, i |-> c.i]
           /\ c.at = "pop" => c.event \in Events /\ c.woken \in BOOLEAN
           /\ c.at \in {"check", "wait"} =>
                /\ c.many \in BOOLEAN /\ c.finite \in BOOLEAN
                /\ c = [at |-> c.at, raw |-> c.raw, many |-> c.many, finite |-> c.finite]
           /\ c.at = "dequeue" => c.event \in Events /\ c.fired \in BOOLEAN
           /\ c.at \in {"lock", "leave"} =>
                /\ c.k \in Nat /\ c = [at |-> c.at, raw |-> c.raw, k |-> c.k]
           /\ c.at = "unwind" =>
                /\ c.k \in Nat /\ c.event \in Events
                /\ c = [at |-> "unwind", raw |-> c.raw, k |-> c.k, event |-> c.event]
           /\ c.at = "unlock" =>
                /\ c.k \in Nat /\ c.finite \in BOOLEAN /\ ~c.finite
                /\ c = [at |-> "unlock", raw |-> c.raw, k |-> c.k, finite |-> c.finite]
           /\ c.at = "return" => c.event \in Events \cup {None}
<1>1. c \in CallType BY DEF CallOK
<1>2. CASE c = Idle BY <1>2 DEF Idle
<1>3. CASE c \in [at : {"all", "one"}, event : Events, i : Nat \ {0}] BY <1>3
<1>4. CASE c \in [at : {"pop"}, event : Events, woken : BOOLEAN] BY <1>4
<1>5. CASE c \in [at : {"check", "wait"}, raw : Seq(Events), many : BOOLEAN,
                  finite : BOOLEAN]
  BY <1>5
<1>6. CASE c \in [at : {"dequeue"}, event : Events, fired : BOOLEAN] BY <1>6
<1>7. CASE c \in [at : {"lock", "leave"}, raw : Seq(Events), k : Nat] BY <1>7
<1>8. CASE c \in [at : {"unwind"}, raw : Seq(Events), k : Nat, event : Events] BY <1>8
<1>9. CASE c \in [at : {"unlock"}, raw : Seq(Events), k : Nat, finite : BOOLEAN]
  BY <1>9 DEF CallOK
<1>10. CASE c \in [at : {"return"}, event : Events \cup {None}] BY <1>10
<1> QED BY <1>1, <1>2, <1>3, <1>4, <1>5, <1>6, <1>7, <1>8, <1>9, <1>10 DEF CallType

\* What WaitMany may rely on in its array.
LEMMA ArrayFacts ==
    ASSUME NEW raw \in Arrays
    PROVE  /\ raw \in Seq(Events) /\ Len(raw) \in Nat /\ Len(raw) >= 1
           /\ \A i \in 1..Len(raw) : raw[i] \in Events
           /\ \A i, j \in 1..Len(raw) : raw[i] = raw[j] => i = j
           /\ ToSet(raw) \subseteq Events
           /\ \A e : e \in ToSet(raw) <=> \E i \in 1..Len(raw) : raw[i] = e
<1>1. raw \in Seq(Events) /\ raw # <<>> /\ Distinct(raw, 0) BY DEF Arrays
<1>2. Len(raw) \in Nat /\ Len(raw) >= 1 /\ \A i \in 1..Len(raw) : raw[i] \in Events BY <1>1
<1>3. From(raw, 0) = 1..Len(raw) BY <1>2 DEF From
<1>4. \A i, j \in 1..Len(raw) : raw[i] = raw[j] => i = j BY <1>1, <1>3 DEF Distinct
<1> QED BY <1>1, <1>2, <1>4, ToSetElems

\* The sorted array has the events of the array, each once.
LEMMA SortedFacts ==
    ASSUME NEW raw \in Arrays
    PROVE  /\ Sorted(raw) \in [1..Len(raw) -> Events] /\ Len(Sorted(raw)) = Len(raw)
           /\ ToSet(Sorted(raw)) = ToSet(raw)
           /\ \A e \in ToSet(raw) : \E j \in 1..Len(raw) : Sorted(raw)[j] = e
           /\ \A j \in 1..Len(raw) : Sorted(raw)[j] \in ToSet(raw)
           /\ \A i, j \in 1..Len(raw) : Sorted(raw)[i] = Sorted(raw)[j] => i = j
<1> DEFINE s == Sorted(raw)
           n == Len(raw)
<1>1. raw \in Seq(Nat) /\ Distinct(raw, 0) /\ n \in Nat
  <2>1. raw \in Seq(Events) /\ Events \subseteq Nat
    BY EventAssumption, ArrayFacts DEF EventAssumption
  <2>2. raw \in Seq(Nat) BY <2>1, SeqMonotonic
  <2> QED BY <2>2, ArrayFacts DEF Arrays
<1>2. \E u : SortOf(u, raw) BY <1>1, SortExists
<1>3. SortOf(s, raw) BY <1>2 DEF SortOf, Sorted
<1> HIDE DEF s
<1>4. /\ s \in [1..n -> ToSet(raw)] /\ ToSet(s) = ToSet(raw) /\ ToSet(raw) \subseteq Events
      /\ \A i, j \in 1..n : i < j => s[i] < s[j]
  BY <1>3, ArrayFacts DEF SortOf
<1>5. \A e \in ToSet(raw) : \E j \in 1..n : s[j] = e BY <1>4 DEF ToSet
<1>6. \A j \in 1..n : s[j] \in Nat BY <1>4, EventAssumption DEF EventAssumption
<1>7. \A i, j \in 1..n : s[i] = s[j] => i = j BY <1>4, <1>6
<1>8. Len(s) = n
  <2>1. s \in Seq(ToSet(raw)) /\ Len(s) \in Nat /\ DOMAIN s = 1..Len(s) /\ DOMAIN s = 1..n
    BY <1>1, <1>4
  <2> QED BY <1>1, <2>1
<1> QED BY <1>4, <1>5, <1>7, <1>8 DEF s

\* The calls that the actions make.
LEMMA MakeCall ==
    /\ CallOK(Idle)
    /\ \A e \in Events, i \in Nat \ {0} :
         CallOK([at |-> IF e \in Manual THEN "all" ELSE "one", event |-> e, i |-> i])
    /\ \A e \in Events \ Manual, b \in BOOLEAN :
         CallOK([at |-> "pop", event |-> e, woken |-> b])
    /\ \A raw \in Arrays, at \in {"check", "wait"}, many, finite \in BOOLEAN :
         many \/ Len(raw) = 1 =>
           CallOK([at |-> at, raw |-> raw, many |-> many, finite |-> finite])
    /\ \A e \in Events, b \in BOOLEAN : CallOK([at |-> "dequeue", event |-> e, fired |-> b])
    /\ \A raw \in Arrays : \A k \in 1..Len(raw) : CallOK([at |-> "lock", raw |-> raw, k |-> k])
    /\ \A raw \in Arrays : \A k \in 1..Len(raw) + 1 :
         CallOK([at |-> "leave", raw |-> raw, k |-> k])
    /\ \A raw \in Arrays : \A k \in 0..Len(raw) : \A e \in Events :
         CallOK([at |-> "unwind", raw |-> raw, k |-> k, event |-> e])
    /\ \A raw \in Arrays : \A k \in 0..Len(raw) : \A b \in BOOLEAN :
         ~b => CallOK([at |-> "unlock", raw |-> raw, k |-> k, finite |-> b])
    /\ \A e \in Events \cup {None} : CallOK([at |-> "return", event |-> e])
<1> USE DEF CallOK, CallType, KInRange
<1>1. CallOK(Idle) BY DEF Idle
<1>2. ASSUME NEW e \in Events, NEW i \in Nat \ {0}
      PROVE CallOK([at |-> IF e \in Manual THEN "all" ELSE "one", event |-> e, i |-> i])
  OBVIOUS
<1>3. ASSUME NEW e \in Events \ Manual, NEW b \in BOOLEAN
      PROVE CallOK([at |-> "pop", event |-> e, woken |-> b])
  OBVIOUS
<1>4. ASSUME NEW raw \in Arrays, NEW at \in {"check", "wait"}, NEW many \in BOOLEAN,
             NEW finite \in BOOLEAN, many \/ Len(raw) = 1
      PROVE CallOK([at |-> at, raw |-> raw, many |-> many, finite |-> finite])
  BY <1>4, ArrayFacts
<1>5. ASSUME NEW e \in Events, NEW b \in BOOLEAN
      PROVE CallOK([at |-> "dequeue", event |-> e, fired |-> b])
  OBVIOUS
<1>6. ASSUME NEW raw \in Arrays, NEW k \in 1..Len(raw)
      PROVE CallOK([at |-> "lock", raw |-> raw, k |-> k])
  BY ArrayFacts
<1>7. ASSUME NEW raw \in Arrays, NEW k \in 1..Len(raw) + 1
      PROVE CallOK([at |-> "leave", raw |-> raw, k |-> k])
  BY ArrayFacts
<1>8. ASSUME NEW raw \in Arrays, NEW k \in 0..Len(raw), NEW e \in Events
      PROVE CallOK([at |-> "unwind", raw |-> raw, k |-> k, event |-> e])
  BY ArrayFacts
<1>9. ASSUME NEW raw \in Arrays, NEW k \in 0..Len(raw), NEW b \in BOOLEAN, ~b
      PROVE CallOK([at |-> "unlock", raw |-> raw, k |-> k, finite |-> b])
  BY <1>9, ArrayFacts
<1>10. ASSUME NEW e \in Events \cup {None} PROVE CallOK([at |-> "return", event |-> e])
  OBVIOUS
<1> HIDE DEF CallOK, CallType, KInRange
<1> QED BY <1>1, <1>2, <1>3, <1>4, <1>5, <1>6, <1>7, <1>8, <1>9, <1>10

-----------------------------------------------------------------------------
(* What a step of a thread does to calls, locks and live waiters.          *)

\* A step of t changes the call of t alone.
LEMMA CallStep ==
    ASSUME Types, NEW t \in Threads, NEW c, At(t, c)
    PROVE  call'[t] = c /\ \A u \in Threads \ {t} : call'[u] = call[u]
BY DEF Types, TypeOK, At

\* A step keeps the types if its new call and the new values have theirs.
LEMMA TypesStep ==
    ASSUME Types, NEW t \in Threads, NEW c, CallOK(c), At(t, c),
           signaled_' \in [Events -> BOOLEAN], lock_' \in [Events -> Threads \cup {Nobody}],
           waiters_' \in [Events -> Seq(Threads)], fired_' \in [Threads -> BOOLEAN],
           signaling_event_' \in [Threads -> Events \cup {None}]
    PROVE  Types'
<1>1. call' \in [Threads -> CallType] BY DEF Types, TypeOK, At, CallOK
<1>2. \A u \in Threads : CallOK(call[u])' /\ KInRange(call'[u])
  <2>1. \A u \in Threads : CallOK(call'[u]) BY CallStep DEF Types
  <2> QED BY <2>1 DEF CallOK
<1> QED BY <1>1, <1>2 DEF Types, TypeOK

\* A step that leaves the locks alone, and holds what it held.
LEMMA LockKeep ==
    ASSUME IInv, NEW t \in Threads, NEW c, At(t, c), lock_' = lock_,
           \A e \in Events : Holds(c, e) <=> Holds(call[t], e)
    PROVE  LockOK'
<1>1. call'[t] = c /\ \A u \in Threads \ {t} : call'[u] = call[u] BY CallStep DEF IInv
<1> SUFFICES ASSUME NEW u \in Threads, NEW e \in Events
             PROVE  lock_[e] = u <=> Holds(call'[u], e)
  BY DEF LockOK
<1>2. lock_[e] = u <=> Holds(call[u], e) BY DEF IInv, LockOK
<1> QED BY <1>1, <1>2

\* The call c holds the locks that b holds and that of d, or those but that of d.
Gains(c, b, d) == \A e \in Events : Holds(c, e) <=> Holds(b, e) \/ e = d
Loses(c, b, d) == \A e \in Events : Holds(c, e) <=> Holds(b, e) /\ e # d

\* A step that takes a free lock.
LEMMA LockTake ==
    ASSUME IInv, NEW t \in Threads, NEW c, At(t, c), NEW d \in Events, lock_[d] = Nobody,
           lock_' = [lock_ EXCEPT ![d] = t], Gains(c, call[t], d)
    PROVE  LockOK' /\ lock_' \in [Events -> Threads \cup {Nobody}]
<1>1. call'[t] = c /\ \A u \in Threads \ {t} : call'[u] = call[u] BY CallStep DEF IInv
<1>2. lock_ \in [Events -> Threads \cup {Nobody}] /\ Nobody \notin Threads
  BY EventAssumption DEF IInv, Types, TypeOK, EventAssumption
<1>3. lock_' \in [Events -> Threads \cup {Nobody}] BY <1>2
<1>4. ASSUME NEW u \in Threads, NEW e \in Events PROVE lock_'[e] = u <=> Holds(call'[u], e)
  <2>1. lock_[e] = u <=> Holds(call[u], e) BY DEF IInv, LockOK
  <2>2. lock_'[e] = IF e = d THEN t ELSE lock_[e] BY <1>2
  <2>3. CASE u = t BY <1>1, <2>1, <2>2, <2>3 DEF Gains
  <2>4. CASE u # t BY <1>1, <1>2, <2>1, <2>2, <2>4
  <2> QED BY <2>3, <2>4
<1>5. LockOK' BY <1>4 DEF LockOK
<1> QED BY <1>3, <1>5

\* A step that releases a lock it holds.
LEMMA LockFree ==
    ASSUME IInv, NEW t \in Threads, NEW c, At(t, c), NEW d \in Events, Holds(call[t], d),
           lock_' = [lock_ EXCEPT ![d] = Nobody], Loses(c, call[t], d)
    PROVE  LockOK' /\ lock_' \in [Events -> Threads \cup {Nobody}]
<1>1. call'[t] = c /\ \A u \in Threads \ {t} : call'[u] = call[u] BY CallStep DEF IInv
<1>2. lock_ \in [Events -> Threads \cup {Nobody}] /\ Nobody \notin Threads
  BY EventAssumption DEF IInv, Types, TypeOK, EventAssumption
<1>3. lock_' \in [Events -> Threads \cup {Nobody}] BY <1>2
<1>4. ASSUME NEW u \in Threads, NEW e \in Events PROVE lock_'[e] = u <=> Holds(call'[u], e)
  <2>1. lock_[e] = u <=> Holds(call[u], e) BY DEF IInv, LockOK
  <2>2. lock_'[e] = IF e = d THEN Nobody ELSE lock_[e] BY <1>2
  <2>3. CASE u = t BY <1>1, <1>2, <2>1, <2>2, <2>3 DEF Loses
  <2>4. CASE u # t
    <3>1. lock_[d] = t BY DEF IInv, LockOK
    <3> QED BY <1>1, <1>2, <2>1, <2>2, <2>4, <3>1
  <2> QED BY <2>3, <2>4
<1>5. LockOK' BY <1>4 DEF LockOK
<1> QED BY <1>3, <1>5

\* Who holds a lock is one thread.
LEMMA OneHolder ==
    ASSUME IInv, NEW t \in Threads, NEW e \in Events
    PROVE  /\ Holds(call[t], e) <=> lock_[e] = t
           /\ \A u \in Threads : Holds(call[u], e) /\ lock_[e] \in {t, Nobody} => u = t
           /\ lock_[e] = Nobody => ~Holds(call[t], e)
           /\ lock_[e] \in Threads \cup {Nobody}
BY EventAssumption DEF IInv, LockOK, EventAssumption, Types, TypeOK

\* A list nobody has begun to drop is live as a whole.
LEMMA LiveAll ==
    ASSUME NEW s \in Seq(Threads), NEW calls, NEW e,
           \A t \in Threads : Drops(calls[t], e) => Pos(calls[t]) = 1
    PROVE  LiveOf(s, calls, e) = Elems(s, 0)
BY DEF LiveOf, Elems, From

\* The live part of a list begins where its one signaler is.
LEMMA LiveFrom ==
    ASSUME NEW s \in Seq(Threads), NEW calls, NEW e, NEW t \in Threads, Drops(calls[t], e),
           \A u \in Threads : Drops(calls[u], e) => u = t
    PROVE  LiveOf(s, calls, e) = Elems(s, Pos(calls[t]))
BY DEF LiveOf, Elems, From

\* A thread that is in no wait is in no list that a signal will look at.
LEMMA NotLive ==
    ASSUME IInv, NEW t \in Threads, NEW e \in Events,
           call[t].at \in {"idle", "all", "one", "pop", "lock", "unwind", "return"}
    PROVE  t \notin Live(e)
BY DEF IInv, LiveOK, LiveAt, InWait

\* Nobody drops waiters of an event that is not locked, or locked by a thread that
\* does something else.
LEMMA LiveElems ==
    ASSUME IInv, NEW e \in Events, NEW t \in Threads, lock_[e] \in {Nobody, t},
           call[t].at \notin {"all", "pop"}
    PROVE  /\ waiters_[e] \in Seq(Threads) /\ Live(e) = Elems(waiters_[e], 0)
           /\ \A u \in Threads : ~Drops(call[u], e)
<1>1. waiters_[e] \in Seq(Threads) BY DEF IInv, Types, TypeOK
<1>2. ASSUME NEW u \in Threads, Drops(call[u], e) PROVE FALSE
  <2>1. Holds(call[u], e) BY <1>2 DEF Drops, Holds
  <2>2. u = t BY <2>1, OneHolder
  <2> QED BY <1>2, <2>2 DEF Drops
<1> QED BY <1>1, <1>2, LiveAll DEF Live

\* The lists stay, and t neither was nor becomes one who has fired a waiter.
LEMMA LiveSame ==
    ASSUME IInv, NEW t \in Threads, NEW c, At(t, c), NEW e \in Events,
           waiters_'[e] = waiters_[e],
           ~Drops(call[t], e), Drops(c, e) => Pos(c) = 1
    PROVE  Live(e)' = Live(e)
<1>1. call'[t] = c /\ \A u \in Threads \ {t} : call'[u] = call[u] BY CallStep DEF IInv
<1>2. \A i \in 1..Len(waiters_[e]) :
        (\A u \in Threads : Drops(call'[u], e) => i >= Pos(call'[u]))
          <=> (\A u \in Threads : Drops(call[u], e) => i >= Pos(call[u]))
  <2> SUFFICES ASSUME NEW i \in 1..Len(waiters_[e])
               PROVE  (\A u \in Threads : Drops(call'[u], e) => i >= Pos(call'[u]))
                        <=> (\A u \in Threads : Drops(call[u], e) => i >= Pos(call[u]))
    OBVIOUS
  <2>1. Len(waiters_[e]) \in Nat BY DEF IInv, Types, TypeOK
  <2>2. i >= 1 BY <2>1
  <2> QED BY <1>1, <2>2
<1> QED BY <1>2 DEF Live, LiveOf

\* The parts of the invariant about waits, when only the threads in X are touched.
LEMMA Frame ==
    ASSUME IInv, NEW X \in SUBSET Threads, Types', LockOK', LockedQuiet', Once', PopOK',
           \A u \in Threads \ X : /\ call'[u] = call[u] /\ fired_'[u] = fired_[u]
                                  /\ signaling_event_'[u] = signaling_event_[u],
           \A e \in Events : \A u \in Live(e)' \ X : u \in Live(e),
           \A e \in Events : \A u \in Live(e)' \ X : signaled_'[e] => signaled_[e],
           \A e \in Events : \A u \in Live(e) \ X : u \in Live(e)',
           \A u \in X : FiredAt(u)',
           \A u \in X, e \in Events : u \in Live(e)' => LiveAt(u, e)',
           \A u \in X, e \in Events : Sleeps(u, e)' => u \in Live(e)'
    PROVE  IInv'
<1>1. \A e \in Events : Live(e)' \subseteq Threads BY DEF Live, LiveOf
<1>2. LiveOK'
  <2> SUFFICES ASSUME NEW e \in Events, NEW u \in Live(e)', u \notin X PROVE LiveAt(u, e)'
    BY <1>1 DEF LiveOK
  <2>1. u \in Threads \ X /\ u \in Live(e) BY <1>1
  <2>2. LiveAt(u, e) BY <2>1 DEF IInv, LiveOK
  <2> QED BY <2>1, <2>2 DEF LiveAt, InWait
<1>3. Listed'
  <2> SUFFICES ASSUME NEW e \in Events, NEW u \in Threads \ X, Sleeps(u, e)'
               PROVE  u \in Live(e)'
    BY DEF Listed
  <2>1. Sleeps(u, e) BY DEF Sleeps
  <2> QED BY <2>1 DEF IInv, Listed
<1>4. FiredOK' BY DEF IInv, FiredOK, FiredAt
<1> QED BY <1>2, <1>3, <1>4 DEF IInv

\* Lists change only under their locks, so what was fired is still there.
LEMMA PopStep ==
    ASSUME IInv, NEW t \in Threads, NEW c, At(t, c),
           \A e \in Events : waiters_'[e] # waiters_[e] => lock_[e] \in {Nobody, t},
           c.at = "pop" => waiters_'[c.event] # <<>>
    PROVE  PopOK'
<1>1. call'[t] = c /\ \A u \in Threads \ {t} : call'[u] = call[u] BY CallStep DEF IInv
<1>2. ASSUME NEW u \in Threads \ {t}, call[u].at = "pop"
      PROVE  waiters_'[call[u].event] # <<>>
  <2>1. call[u].event \in Events BY <1>2, CallShape DEF IInv, Types
  <2>2. lock_[call[u].event] = u /\ u # Nobody
    BY <1>2, <2>1, EventAssumption DEF IInv, LockOK, Holds, EventAssumption
  <2> QED BY <1>2, <2>1, <2>2 DEF IInv, PopOK
<1> QED BY <1>1, <1>2 DEF PopOK

\* A step of t that leaves the lists alone and releases or consumes signals at most.
LEMMA QuietStep ==
    ASSUME IInv, NEW t \in Threads, NEW c, At(t, c), CallOK(c), LockOK', LockedQuiet',
           lock_' \in [Events -> Threads \cup {Nobody}],
           signaled_' \in [Events -> BOOLEAN],
           fired_' \in [Threads -> BOOLEAN],
           signaling_event_' \in [Threads -> Events \cup {None}],
           waiters_' = waiters_,
           \A e \in Events : signaled_'[e] => signaled_[e],
           call[t].at \notin {"all", "pop"}, c.at # "pop", c.at = "all" => c.i = 1,
           \A u \in Threads \ {t} : /\ fired_'[u] = fired_[u]
                                    /\ signaling_event_'[u] = signaling_event_[u],
           FiredAt(t)',
           \A e \in Events : t \in Live(e) => LiveAt(t, e)',
           \A e \in Events : Sleeps(t, e)' => t \in Live(e)
    PROVE  IInv'
<1>1. \A u \in Threads \ {t} : call'[u] = call[u] BY CallStep DEF IInv
<1>2. \A e \in Events : Live(e)' = Live(e)
  BY LiveSame DEF Drops, Pos
<1>3. Types' BY TypesStep DEF IInv, Types, TypeOK
<1>4. Once' BY DEF IInv, Once
<1>5. PopOK' BY PopStep
<1> DEFINE X == {t}
<1>6. /\ X \in SUBSET Threads
      /\ \A u \in Threads \ X : /\ call'[u] = call[u] /\ fired_'[u] = fired_[u]
                                /\ signaling_event_'[u] = signaling_event_[u]
  BY <1>1
<1>7. /\ \A e \in Events : \A u \in Live(e)' \ X : u \in Live(e)
      /\ \A e \in Events : \A u \in Live(e)' \ X : signaled_'[e] => signaled_[e]
      /\ \A e \in Events : \A u \in Live(e) \ X : u \in Live(e)'
  BY <1>2
<1>8. /\ \A u \in X : FiredAt(u)'
      /\ \A u \in X, e \in Events : u \in Live(e)' => LiveAt(u, e)'
      /\ \A u \in X, e \in Events : Sleeps(u, e)' => u \in Live(e)'
  BY <1>2
<1> HIDE DEF X
<1> QED BY <1>3, <1>4, <1>5, <1>6, <1>7, <1>8, Frame

\* The same, of a thread that neither was nor comes into a wait.
LEMMA NoWaitStep ==
    ASSUME IInv, NEW t \in Threads, NEW c, At(t, c), CallOK(c), LockOK', LockedQuiet',
           lock_' \in [Events -> Threads \cup {Nobody}],
           signaled_' \in [Events -> BOOLEAN],
           fired_' \in [Threads -> BOOLEAN],
           signaling_event_' \in [Threads -> Events \cup {None}],
           waiters_' = waiters_,
           \A e \in Events : signaled_'[e] => signaled_[e],
           call[t].at \in {"idle", "lock", "unwind", "return"},
           c.at \in {"idle", "all", "one", "lock", "unwind", "return"}, c.at = "all" => c.i = 1,
           \A u \in Threads \ {t} : /\ fired_'[u] = fired_[u]
                                    /\ signaling_event_'[u] = signaling_event_[u]
    PROVE  IInv'
<1>1. call'[t] = c BY CallStep DEF IInv
<1>2. \A e \in Events : t \notin Live(e) BY NotLive
<1>3. FiredAt(t)' /\ \A e \in Events : ~Sleeps(t, e)' BY <1>1 DEF FiredAt, Sleeps
<1> QED BY <1>2, <1>3, QuietStep

\* The variables of the lists and waiters that most steps leave alone have their
\* types.
LEMMA TypeFacts ==
    ASSUME IInv
    PROVE  /\ signaled_ \in [Events -> BOOLEAN]
           /\ lock_ \in [Events -> Threads \cup {Nobody}]
           /\ waiters_ \in [Events -> Seq(Threads)]
           /\ fired_ \in [Threads -> BOOLEAN]
           /\ signaling_event_ \in [Threads -> Events \cup {None}]
           /\ \A t \in Threads : CallOK(call[t])
BY DEF IInv, Types, TypeOK

\* Reset, and a wait that takes a signal, put no signal in its place.
LEMMA ConsumeFacts ==
    ASSUME IInv, NEW e \in Events, lock_[e] = Nobody,
           \/ signaled_' = [signaled_ EXCEPT ![e] = FALSE]
           \/ signaled_[e] /\ Consume(e)
    PROVE  /\ signaled_' \in [Events -> BOOLEAN]
           /\ \A d \in Events : signaled_'[d] => signaled_[d]
           /\ \A d \in Events : lock_[d] # Nobody => ~signaled_'[d]
<1>1. signaled_ \in [Events -> BOOLEAN] /\ \A d \in Events : lock_[d] # Nobody => ~signaled_[d]
  BY TypeFacts DEF IInv, LockedQuiet
<1>2. CASE signaled_' = [signaled_ EXCEPT ![e] = FALSE] BY <1>1, <1>2
<1>3. CASE signaled_[e] /\ Consume(e)
  <2>1. signaled_' = [signaled_ EXCEPT ![e] = (e \in Manual)] BY <1>3 DEF Consume
  <2>2. (e \in Manual) \in BOOLEAN OBVIOUS
  <2>3. signaled_' \in [Events -> BOOLEAN] BY <1>1, <2>1, <2>2
  <2>4. \A d \in Events : d # e => signaled_'[d] = signaled_[d] BY <1>1, <2>1
  <2>5. \A d \in Events : signaled_'[d] => signaled_[d] BY <1>3, <2>4
  <2> QED BY <1>1, <2>3, <2>4, <2>5
<1> QED BY <1>2, <1>3

\* Each method that begins without blocking in a list keeps the invariant.
LEMMA SignalStep ==
    ASSUME IInv, NEW t \in Threads, NEW e \in Events, Signal(t, e)
    PROVE  IInv'
<1> DEFINE c == [at |-> IF e \in Manual THEN "all" ELSE "one", event |-> e, i |-> 1]
<1>1. /\ call[t] = Idle /\ lock_[e] = Nobody /\ ~signaled_[e] /\ At(t, c)
      /\ lock_' = [lock_ EXCEPT ![e] = t]
      /\ UNCHANGED <<signaled_, waiters_, fired_, signaling_event_>>
  BY DEF Signal
<1>2. CallOK(c) BY MakeCall
<1>3. c.at \in {"all", "one"} /\ c.event = e /\ c.i = 1 OBVIOUS
<1>4. Gains(c, call[t], e) BY <1>1 DEF Gains, Holds, Idle
<1> HIDE DEF c
<1>5. LockOK' /\ lock_' \in [Events -> Threads \cup {Nobody}] BY <1>1, <1>4, LockTake
<1>6. LockedQuiet' BY <1>1, TypeFacts DEF IInv, LockedQuiet
<1>7. call[t].at = "idle" BY <1>1 DEF Idle
<1> QED BY <1>1, <1>2, <1>3, <1>5, <1>6, <1>7, TypeFacts, NoWaitStep

LEMMA ResetStep ==
    ASSUME IInv, NEW t \in Threads, NEW e \in Events, Reset(t, e) \/ IsSignaled(t, e)
    PROVE  IInv'
<1>1. /\ call[t] = Idle /\ lock_[e] = Nobody
      /\ UNCHANGED <<lock_, waiters_, fired_, signaling_event_, call>>
  BY DEF Reset, IsSignaled
<1>2. At(t, Idle) BY <1>1 DEF At, IInv, Types, TypeOK
<1>3. CallOK(Idle) /\ Idle.at = "idle" BY MakeCall DEF Idle
<1>4. /\ signaled_' \in [Events -> BOOLEAN] /\ \A d \in Events : signaled_'[d] => signaled_[d]
      /\ \A d \in Events : lock_[d] # Nobody => ~signaled_'[d]
  BY <1>1, ConsumeFacts DEF Reset, IsSignaled
<1>5. LockOK' /\ LockedQuiet' BY <1>1, <1>2, <1>4, LockKeep DEF LockedQuiet
<1> QED BY <1>1, <1>2, <1>3, <1>4, <1>5, TypeFacts, NoWaitStep

LEMMA TimedWaitPassStep ==
    ASSUME IInv, NEW t \in Threads, NEW e \in Events, call[t] = Idle, lock_[e] = Nobody,
           signaled_[e], Consume(e), Done(t, e),
           UNCHANGED <<lock_, waiters_, fired_, signaling_event_>>
    PROVE  IInv'
<1> DEFINE c == [at |-> "return", event |-> e]
<1>1. At(t, c) /\ CallOK(c) /\ c.at = "return" BY MakeCall DEF Done
<1>2. /\ signaled_' \in [Events -> BOOLEAN] /\ \A d \in Events : signaled_'[d] => signaled_[d]
      /\ \A d \in Events : lock_[d] # Nobody => ~signaled_'[d]
  BY ConsumeFacts
<1>3. \A d \in Events : Holds(c, d) <=> Holds(call[t], d) BY DEF Holds, Idle
<1> HIDE DEF c
<1>4. LockOK' /\ LockedQuiet' BY <1>1, <1>2, <1>3, LockKeep DEF LockedQuiet
<1>5. call[t].at = "idle" BY DEF Idle
<1> QED BY <1>1, <1>2, <1>4, <1>5, TypeFacts, NoWaitStep

LEMMA WaitManyStep ==
    ASSUME IInv, NEW t \in Threads, NEW raw \in WaitLists, WaitMany(t, raw)
    PROVE  IInv'
<1> DEFINE c == [at |-> "lock", raw |-> raw, k |-> 1]
<1>1. /\ call[t] = Idle /\ At(t, c)
      /\ UNCHANGED <<signaled_, lock_, waiters_, fired_, signaling_event_>>
  BY DEF WaitMany
<1>2. raw \in Arrays
  <2>1. /\ raw \in Seq(Events) /\ raw # <<>>
        /\ \A i, j \in 1..Len(raw) : raw[i] = raw[j] => i = j
    BY EventAssumption DEF EventAssumption
  <2>2. From(raw, 0) \subseteq 1..Len(raw) BY DEF From
  <2> QED BY <2>1, <2>2 DEF Arrays, Distinct
<1>3. CallOK(c) /\ c.at = "lock" /\ c.k = 1
  <2>1. 1 \in 1..Len(raw) BY <1>2, ArrayFacts
  <2> QED BY <1>2, <2>1, MakeCall
<1>4. \A d \in Events : Holds(c, d) <=> Holds(call[t], d) BY <1>1 DEF Holds, Idle
<1> HIDE DEF c
<1>5. LockOK' BY <1>1, <1>4, LockKeep
<1>6. LockedQuiet' BY <1>1 DEF IInv, LockedQuiet
<1>7. call[t].at = "idle" BY <1>1 DEF Idle
<1> QED BY <1>1, <1>3, <1>5, <1>6, <1>7, TypeFacts, NoWaitStep

\* EnqueueMany finds a signaled event: the locks taken before are still held.
LEMMA EnqueueManyPassStep ==
    ASSUME IInv, NEW t \in Threads, call[t].at = "lock",
           NEW raw, NEW k, raw = call[t].raw, k = call[t].k, NEW e, e = Sorted(raw)[k],
           lock_[e] = Nobody, signaled_[e], Consume(e),
           At(t, [at |-> "unwind", raw |-> raw, k |-> k - 1, event |-> e]),
           UNCHANGED <<lock_, waiters_, fired_, signaling_event_>>
    PROVE  IInv'
<1> DEFINE c == [at |-> "unwind", raw |-> raw, k |-> k - 1, event |-> e]
<1>1. raw \in Arrays /\ k \in 1..Len(raw) /\ Len(raw) \in Nat
  BY TypeFacts, ArrayFacts DEF CallOK, KInRange
<1>2. e \in Events BY <1>1, SortedFacts
<1>3. CallOK(c) /\ c.at = "unwind" /\ c.k = k - 1 /\ c.raw = raw
  <2>1. k - 1 \in 0..Len(raw) BY <1>1
  <2> QED BY <1>1, <1>2, <2>1, MakeCall
<1>4. /\ signaled_' \in [Events -> BOOLEAN] /\ \A d \in Events : signaled_'[d] => signaled_[d]
      /\ \A d \in Events : lock_[d] # Nobody => ~signaled_'[d]
  BY <1>2, ConsumeFacts
<1> HIDE DEF c
<1>5. \A d \in Events : Holds(c, d) <=> Holds(call[t], d) BY <1>3 DEF Holds
<1>6. LockOK' /\ LockedQuiet' BY <1>4, <1>5, LockKeep DEF LockedQuiet, c
<1> QED BY <1>3, <1>4, <1>6, TypeFacts, NoWaitStep DEF c

\* EnqueueMany locks an event that is not the last.
LEMMA EnqueueManyLockStep ==
    ASSUME IInv, NEW t \in Threads, call[t].at = "lock",
           NEW raw, NEW k, raw = call[t].raw, k = call[t].k, NEW e, e = Sorted(raw)[k],
           lock_[e] = Nobody, ~signaled_[e], k < Len(Sorted(raw)),
           lock_' = [lock_ EXCEPT ![e] = t], At(t, [call[t] EXCEPT !.k = k + 1]),
           UNCHANGED <<signaled_, waiters_, fired_, signaling_event_>>
    PROVE  IInv'
<1> DEFINE c == [at |-> "lock", raw |-> raw, k |-> k + 1]
<1>1. raw \in Arrays /\ k \in 1..Len(raw) /\ Len(raw) \in Nat
  BY TypeFacts, ArrayFacts DEF CallOK, KInRange
<1>2. e \in Events /\ Len(Sorted(raw)) = Len(raw) BY <1>1, SortedFacts
<1>3. CallOK(c) /\ c.at = "lock" /\ c.k = k + 1 /\ c.raw = raw
  <2>1. k + 1 \in 1..Len(raw) BY <1>1, <1>2
  <2> QED BY <1>1, <2>1, MakeCall
<1>4. At(t, c)
  <2>1. call[t] = [at |-> "lock", raw |-> raw, k |-> k] BY TypeFacts, CallShape
  <2>2. [call[t] EXCEPT !.k = k + 1] = c BY <2>1
  <2> QED BY <2>2
<1> HIDE DEF c
<1>5. Gains(c, call[t], e)
  <2>1. 1..((k + 1) - 1) = 1..(k - 1) \cup {k} BY <1>1
  <2> QED BY <1>3, <2>1 DEF Gains, Holds
<1>6. LockOK' /\ lock_' \in [Events -> Threads \cup {Nobody}]
  BY <1>2, <1>4, <1>5, LockTake
<1>7. LockedQuiet' BY <1>2, TypeFacts DEF IInv, LockedQuiet
<1> QED BY <1>3, <1>4, <1>6, <1>7, TypeFacts, NoWaitStep

LEMMA ReturnStep ==
    ASSUME IInv, NEW t \in Threads, Return(t)
    PROVE  IInv'
<1>1. /\ call[t].at = "return" /\ At(t, Idle) /\ UNCHANGED <<signaled_, lock_, waiters_>>
      /\ fired_' = [fired_ EXCEPT ![t] = FALSE]
      /\ signaling_event_' = [signaling_event_ EXCEPT ![t] = None]
  BY DEF Return, NewWaiter
<1>2. CallOK(Idle) /\ Idle.at = "idle" BY MakeCall DEF Idle
<1>3. \A d \in Events : Holds(Idle, d) <=> Holds(call[t], d) BY <1>1 DEF Holds, Idle
<1>4. LockOK' /\ LockedQuiet' BY <1>1, <1>3, LockKeep DEF IInv, LockedQuiet
<1>5. /\ fired_' \in [Threads -> BOOLEAN]
      /\ signaling_event_' \in [Threads -> Events \cup {None}]
      /\ \A u \in Threads \ {t} : /\ fired_'[u] = fired_[u]
                                  /\ signaling_event_'[u] = signaling_event_[u]
  BY <1>1, TypeFacts
<1> QED BY <1>1, <1>2, <1>4, <1>5, TypeFacts, NoWaitStep

-----------------------------------------------------------------------------
(* A thread goes on in a wait, with the lists as they are.                 *)

\* A step in a wait, or out of one, that touches only the call of its thread.
LEMMA InWaitStep ==
    ASSUME IInv, NEW t \in Threads, NEW c, At(t, c), CallOK(c), LockOK',
           lock_' \in [Events -> Threads \cup {Nobody}],
           \A e \in Events : lock_'[e] # Nobody => lock_[e] # Nobody,
           UNCHANGED <<signaled_, waiters_, fired_, signaling_event_>>,
           call[t].at \notin {"all", "pop"}, c.at \notin {"pop", "all"},
           c.at \in {"dequeue", "leave"} => fired_[t],
           c.at \in {"unlock", "check", "wait", "leave"} /\ fired_[t]
             => signaling_event_[t] \in ToSet(c.raw),
           \A e \in Events : t \in Live(e) => InWait(t, e)',
           \A e \in Events : Sleeps(t, e)' => Sleeps(t, e)
    PROVE  IInv'
<1>1. call'[t] = c BY CallStep DEF IInv
<1>2. LockedQuiet' BY DEF IInv, LockedQuiet
<1>3. FiredAt(t)' BY <1>1 DEF FiredAt
<1>4. ASSUME NEW e \in Events, t \in Live(e) PROVE LiveAt(t, e)'
  <2>1. LiveAt(t, e) BY <1>4 DEF IInv, LiveOK
  <2>2. InWait(t, e)' BY <1>4
  <2>3. signaling_event_[t] # e /\ (signaled_[e] => fired_[t]) BY <2>1 DEF LiveAt
  <2> QED BY <2>2, <2>3 DEF LiveAt
<1>5. \A e \in Events : Sleeps(t, e)' => t \in Live(e) BY DEF IInv, Listed
<1> QED BY <1>2, <1>3, <1>4, <1>5, TypeFacts, QuietStep

\* A live waiter is in a wait.
LEMMA LiveInWait ==
    ASSUME IInv, NEW t \in Threads, NEW e \in Events, t \in Live(e)
    PROVE  InWait(t, e) /\ signaling_event_[t] # e
BY DEF IInv, LiveOK, LiveAt

\* The locks of WaitMany are released one by one, then it sleeps or returns.
LEMMA UnlockStep ==
    ASSUME IInv, NEW t \in Threads, Unlock(t)
    PROVE  IInv'
<1> DEFINE k == call[t].k
           raw == call[t].raw
<1>1. /\ call[t].at \in {"unwind", "unlock"}
      /\ UNCHANGED <<signaled_, waiters_, fired_, signaling_event_>>
  BY DEF Unlock
<1>2. /\ CallOK(call[t]) /\ raw \in Arrays /\ k \in 0..Len(raw) /\ Len(raw) \in Nat
  BY <1>1, TypeFacts, ArrayFacts DEF CallOK, KInRange
<1>3. call[t].at = "unwind" => /\ call[t].event \in Events
        /\ call[t] = [at |-> "unwind", raw |-> raw, k |-> k, event |-> call[t].event]
  BY <1>2, CallShape
<1>4. call[t].at = "unlock" => /\ call[t].finite \in BOOLEAN /\ ~call[t].finite
        /\ call[t] = [at |-> "unlock", raw |-> raw, k |-> k, finite |-> call[t].finite]
  BY <1>2, CallShape
<1>5. call[t].at = "unlock" /\ fired_[t] => signaling_event_[t] \in ToSet(raw)
  BY DEF IInv, FiredOK, FiredAt
<1>6. CASE /\ k > 0 /\ lock_' = [lock_ EXCEPT ![Sorted(raw)[k]] = Nobody]
           /\ At(t, [call[t] EXCEPT !.k = k - 1])
  <2> DEFINE c == [call[t] EXCEPT !.k = k - 1]
             d == Sorted(raw)[k]
  <2>1. c.at = call[t].at /\ c.raw = raw /\ c.k = k - 1 BY <1>1, <1>3, <1>4
  <2>2. CallOK(c)
    <3>1. k - 1 \in 0..Len(raw) BY <1>2, <1>6
    <3>2. CASE call[t].at = "unwind"
      <4>1. c = [at |-> "unwind", raw |-> raw, k |-> k - 1, event |-> call[t].event]
        BY <1>3, <3>2
      <4> QED BY <1>2, <1>3, <3>1, <3>2, <4>1, MakeCall
    <3>3. CASE call[t].at = "unlock"
      <4>1. c = [at |-> "unlock", raw |-> raw, k |-> k - 1, finite |-> call[t].finite]
        BY <1>4, <3>3
      <4> QED BY <1>2, <1>4, <3>1, <3>3, <4>1, MakeCall
    <3> QED BY <1>1, <3>2, <3>3
  <2>3. At(t, c) /\ lock_' = [lock_ EXCEPT ![d] = Nobody] BY <1>6
  <2>4. k \in 1..Len(raw) BY <1>2, <1>6
  <2>5. d \in Events BY <1>2, <2>4, SortedFacts
  <2>6. Loses(c, call[t], d)
    <3>1. \A j \in 1..Len(raw) : Sorted(raw)[j] = d => j = k BY <1>2, <2>4, SortedFacts
    <3>2. \A j \in 1..(k - 1) : j \in 1..Len(raw) /\ j \in 1..k /\ j # k BY <1>2, <2>4
    <3>3. \A j \in 1..k : j = k \/ j \in 1..(k - 1) BY <1>2, <2>4
    <3> HIDE DEF c
    <3> QED BY <1>1, <2>1, <3>1, <3>2, <3>3 DEF Loses, Holds
  <2>7. Holds(call[t], d) BY <1>1, <2>4 DEF Holds
  <2> HIDE DEF c, d
  <2>8. LockOK' /\ lock_' \in [Events -> Threads \cup {Nobody}]
    BY <2>3, <2>5, <2>6, <2>7, LockFree
  <2>9. \A e \in Events : lock_'[e] # Nobody => lock_[e] # Nobody BY <2>3, TypeFacts
  <2>10. call'[t] = c BY <2>3, CallStep DEF IInv
  <2>11. \A e \in Events : t \in Live(e) => InWait(t, e)'
    BY <1>1, <2>1, <2>10, LiveInWait DEF InWait
  <2>12. \A e \in Events : Sleeps(t, e)' => Sleeps(t, e) BY <1>1, <2>1, <2>10 DEF Sleeps
  <2> QED BY <1>1, <1>5, <2>1, <2>2, <2>3, <2>8, <2>9, <2>11, <2>12, InWaitStep
<1>7. ASSUME k = 0, NEW c, At(t, c), CallOK(c), UNCHANGED lock_,
             \/ call[t].at = "unwind" /\ c.at = "return"
             \/ call[t].at = "unlock" /\ c.at = "check" /\ c.raw = raw
      PROVE  IInv'
  <2>1. \A e \in Events : Holds(c, e) <=> Holds(call[t], e) BY <1>7 DEF Holds
  <2>2. LockOK' BY <1>7, <2>1, LockKeep
  <2>3. call'[t] = c BY <1>7, CallStep DEF IInv
  <2>4. \A e \in Events : t \in Live(e) => InWait(t, e)'
    BY <1>1, <1>7, <2>3, LiveInWait DEF InWait
  <2>5. \A e \in Events : Sleeps(t, e)' => Sleeps(t, e) BY <1>1, <1>7, <2>3 DEF Sleeps
  <2> QED BY <1>1, <1>5, <1>7, <2>2, <2>4, <2>5, TypeFacts, InWaitStep
<1>8. CASE k = 0 /\ call[t].at = "unwind" /\ Done(t, call[t].event) /\ UNCHANGED lock_
  <2> DEFINE c == [at |-> "return", event |-> call[t].event]
  <2>1. At(t, c) /\ c.at = "return" BY <1>8 DEF Done
  <2>2. CallOK(c) BY <1>3, <1>8, MakeCall
  <2> HIDE DEF c
  <2> QED BY <1>7, <1>8, <2>1, <2>2
<1>9. CASE /\ k = 0 /\ call[t].at = "unlock" /\ UNCHANGED lock_
           /\ At(t, [at |-> "check", raw |-> raw, many |-> TRUE, finite |-> FALSE])
  <2> DEFINE c == [at |-> "check", raw |-> raw, many |-> TRUE, finite |-> FALSE]
  <2>1. At(t, c) /\ c.at = "check" /\ c.raw = raw BY <1>9
  <2>2. CallOK(c) BY <1>2, MakeCall
  <2> HIDE DEF c
  <2> QED BY <1>7, <1>9, <2>1, <2>2
<1> QED BY <1>6, <1>8, <1>9 DEF Unlock

\* The thread comes back from the condition variable, or returns to it.
LEMMA WakeStep ==
    ASSUME IInv, NEW t \in Threads, NEW at \in {"check", "wait"},
           call[t].at \in {"check", "wait"}, At(t, [call[t] EXCEPT !.at = at]),
           UNCHANGED <<signaled_, lock_, waiters_, fired_, signaling_event_>>
    PROVE  IInv'
<1> DEFINE raw == call[t].raw
           c == [call[t] EXCEPT !.at = at]
<1>1. /\ CallOK(call[t]) /\ raw \in Arrays /\ (~call[t].many => Len(raw) = 1)
      /\ call[t].many \in BOOLEAN /\ call[t].finite \in BOOLEAN
      /\ call[t] = [at |-> call[t].at, raw |-> raw, many |-> call[t].many,
                    finite |-> call[t].finite]
  <2>1. CallOK(call[t]) BY TypeFacts
  <2> QED BY <2>1, CallShape DEF CallOK
<1>2. c = [at |-> at, raw |-> raw, many |-> call[t].many, finite |-> call[t].finite] BY <1>1
<1>3. CallOK(c) BY <1>1, <1>2, MakeCall
<1>4. c.at = at /\ c.raw = raw BY <1>1
<1> HIDE DEF c
<1>5. At(t, c) BY DEF c
<1>6. \A e \in Events : Holds(c, e) <=> Holds(call[t], e) BY <1>4 DEF Holds
<1>7. LockOK' BY <1>5, <1>6, LockKeep
<1>8. call'[t] = c BY <1>5, CallStep DEF IInv
<1>9. \A e \in Events : t \in Live(e) => InWait(t, e)' BY <1>4, <1>8, LiveInWait DEF InWait
<1>10. \A e \in Events : Sleeps(t, e)' => Sleeps(t, e) BY <1>4, <1>8 DEF Sleeps
<1>11. fired_[t] => signaling_event_[t] \in ToSet(raw) BY DEF IInv, FiredOK, FiredAt
<1> QED BY <1>3, <1>4, <1>5, <1>7, <1>9, <1>10, <1>11, TypeFacts, InWaitStep

\* WaitMany goes back to sleep, or begins to leave the lists of the others.
LEMMA CheckWaitManyStep ==
    ASSUME IInv, NEW t \in Threads, CheckWaitMany(t)
    PROVE  IInv'
<1> DEFINE raw == call[t].raw
<1>1. /\ call[t].at = "check"
      /\ UNCHANGED <<signaled_, lock_, waiters_, fired_, signaling_event_>>
  BY DEF CheckWaitMany
<1>2. CASE ~fired_[t]
  <2>1. At(t, [call[t] EXCEPT !.at = "wait"]) BY <1>2 DEF CheckWaitMany
  <2> QED BY <1>1, <2>1, WakeStep
<1>3. CASE fired_[t]
  <2> DEFINE c == [at |-> "leave", raw |-> raw, k |-> 1]
  <2>1. At(t, c) /\ c.at = "leave" /\ c.raw = raw /\ c.k = 1 BY <1>3 DEF CheckWaitMany
  <2>2. raw \in Arrays /\ Len(raw) \in Nat BY <1>1, TypeFacts, ArrayFacts DEF CallOK
  <2>3. CallOK(c)
    <3>1. 1 \in 1..Len(raw) + 1 BY <2>2
    <3> QED BY <2>2, <3>1, MakeCall
  <2> HIDE DEF c
  <2>4. \A e \in Events : Holds(c, e) <=> Holds(call[t], e) BY <1>1, <2>1 DEF Holds
  <2>5. LockOK' BY <1>1, <2>1, <2>4, LockKeep
  <2>6. call'[t] = c BY <2>1, CallStep DEF IInv
  <2>7. ASSUME NEW e \in Events, t \in Live(e) PROVE InWait(t, e)'
    <3>1. e \in ToSet(raw) BY <1>1, <2>7, LiveInWait DEF InWait
    <3>2. PICK j \in 1..Len(raw) : raw[j] = e BY <2>2, <3>1, ArrayFacts
    <3> QED BY <2>1, <2>6, <3>2 DEF InWait
  <2>8. \A e \in Events : Sleeps(t, e)' => Sleeps(t, e) BY <2>1, <2>6 DEF Sleeps
  <2>9. signaling_event_[t] \in ToSet(raw) BY <1>1, <1>3 DEF IInv, FiredOK, FiredAt
  <2> QED BY <1>1, <1>3, <2>1, <2>3, <2>5, <2>7, <2>8, <2>9, TypeFacts, InWaitStep
<1> QED BY <1>2, <1>3

\* The waiter of a wait that is over, or has timed out, rejects later signals.
LEMMA DisableStep ==
    ASSUME IInv, NEW t \in Threads, call[t].at = "check", ~call[t].many, Disable(t),
           At(t, [at |-> "dequeue", event |-> call[t].raw[1], fired |-> fired_[t]]),
           UNCHANGED <<signaled_, lock_, waiters_, signaling_event_>>
    PROVE  IInv'
<1> DEFINE raw == call[t].raw
           c == [at |-> "dequeue", event |-> raw[1], fired |-> fired_[t]]
<1>1. raw \in Arrays /\ Len(raw) = 1 BY TypeFacts DEF CallOK
<1>2. raw[1] \in Events /\ fired_[t] \in BOOLEAN BY <1>1, ArrayFacts, TypeFacts
<1>3. At(t, c) /\ CallOK(c) /\ c.at = "dequeue" /\ c.event = raw[1] BY <1>2, MakeCall
<1> HIDE DEF c
<1>4. \A e \in Events : Holds(c, e) <=> Holds(call[t], e) BY <1>3 DEF Holds
<1>5. LockOK' /\ LockedQuiet' BY <1>3, <1>4, LockKeep DEF IInv, LockedQuiet
<1>6. call'[t] = c BY <1>3, CallStep DEF IInv
<1>7. /\ fired_' \in [Threads -> BOOLEAN] /\ fired_'[t] = TRUE
      /\ \A u \in Threads \ {t} : fired_'[u] = fired_[u]
  BY TypeFacts DEF Disable
<1>8. FiredAt(t)' /\ \A e \in Events : ~Sleeps(t, e)' BY <1>3, <1>6, <1>7 DEF FiredAt, Sleeps
<1>9. ASSUME NEW e \in Events, t \in Live(e) PROVE LiveAt(t, e)'
  <2>1. e \in ToSet(raw) /\ signaling_event_[t] # e BY <1>9, LiveInWait DEF InWait
  <2>2. e = raw[1] BY <1>1, <2>1, ArrayFacts
  <2> QED BY <1>3, <1>6, <1>7, <2>1, <2>2 DEF LiveAt, InWait
<1> QED BY <1>3, <1>5, <1>7, <1>8, <1>9, TypeFacts, QuietStep

LEMMA CheckTimedWaitStep ==
    ASSUME IInv, NEW t \in Threads, CheckTimedWait(t)
    PROVE  IInv'
<1>1. CASE /\ Disable(t)
           /\ At(t, [at |-> "dequeue", event |-> call[t].raw[1], fired |-> fired_[t]])
  BY <1>1, DisableStep DEF CheckTimedWait
<1>2. CASE At(t, [call[t] EXCEPT !.at = "wait"]) /\ UNCHANGED fired_
  BY <1>2, WakeStep DEF CheckTimedWait
<1> QED BY <1>1, <1>2 DEF CheckTimedWait

-----------------------------------------------------------------------------
(* A wait joins and leaves lists.                                          *)

\* A list with a new entry for t.
LEMMA JoinFacts ==
    ASSUME NEW s \in Seq(Threads), NEW t \in Threads, t \notin Elems(s, 0), Distinct(s, 0)
    PROVE  /\ Append(s, t) \in Seq(Threads) /\ Distinct(Append(s, t), 0)
           /\ Elems(Append(s, t), 0) = Elems(s, 0) \cup {t}
BY ElemsAppend

\* The waiter of t joins the lists of the events of a wait that begins.
LEMMA JoinStep ==
    ASSUME IInv, NEW t \in Threads, NEW c, At(t, c), CallOK(c), c.at \in {"check", "unlock"},
           call[t].at \in {"idle", "lock"},
           \A e \in ToSet(c.raw) : lock_[e] \in {Nobody, t} /\ ~signaled_[e],
           waiters_' = [x \in Events |-> IF x \in ToSet(c.raw) THEN Append(waiters_[x], t)
                                         ELSE waiters_[x]],
           NewWaiter(t), LockOK', LockedQuiet', lock_' \in [Events -> Threads \cup {Nobody}],
           UNCHANGED signaled_
    PROVE  IInv'
<1> DEFINE E == ToSet(c.raw)
           X == {t}
<1>1. call'[t] = c /\ \A u \in Threads \ {t} : call'[u] = call[u] BY CallStep DEF IInv
<1>2. E \subseteq Events BY ArrayFacts DEF CallOK
<1>3. \A e \in Events : t \notin Live(e) BY NotLive
<1>4. /\ fired_' \in [Threads -> BOOLEAN] /\ fired_'[t] = FALSE
      /\ signaling_event_' \in [Threads -> Events \cup {None}] /\ signaling_event_'[t] = None
      /\ \A u \in Threads \ X : /\ fired_'[u] = fired_[u]
                                /\ signaling_event_'[u] = signaling_event_[u]
  BY TypeFacts DEF NewWaiter
<1>5. ASSUME NEW e \in E
      PROVE  waiters_'[e] \in Seq(Threads) /\ Distinct(waiters_'[e], 0) /\ Live(e)' = Live(e) \cup {t}
  <2>1. /\ waiters_[e] \in Seq(Threads) /\ Live(e) = Elems(waiters_[e], 0)
        /\ \A u \in Threads : ~Drops(call[u], e)
    BY <1>2, LiveElems
  <2>2. waiters_'[e] = Append(waiters_[e], t) BY <1>2
  <2>3. Distinct(waiters_[e], 0) BY <1>2 DEF IInv, Once
  <2>4. t \notin Elems(waiters_[e], 0) BY <1>2, <1>3, <2>1
  <2>5. /\ waiters_'[e] \in Seq(Threads) /\ Distinct(waiters_'[e], 0)
        /\ Elems(waiters_'[e], 0) = Elems(waiters_[e], 0) \cup {t}
    <3>1. /\ Append(waiters_[e], t) \in Seq(Threads) /\ Distinct(Append(waiters_[e], t), 0)
          /\ Elems(Append(waiters_[e], t), 0) = Elems(waiters_[e], 0) \cup {t}
      BY <2>1, <2>3, <2>4, JoinFacts, Zenon
    <3> QED BY <2>2, <3>1
  <2>6. \A u \in Threads : ~Drops(call'[u], e) BY <1>1, <2>1 DEF Drops
  <2>7. LiveOf(waiters_'[e], call', e) = Elems(waiters_'[e], 0) BY <2>5, <2>6, LiveAll
  <2> QED BY <2>1, <2>5, <2>7 DEF Live
<1>6. ASSUME NEW e \in Events, e \notin E
      PROVE  waiters_'[e] = waiters_[e] /\ Live(e)' = Live(e)
  <2>1. waiters_'[e] = waiters_[e] BY <1>6
  <2>2. ~Drops(call[t], e) /\ ~Drops(c, e) BY DEF Drops
  <2> QED BY <2>1, <2>2, LiveSame
<1>7. waiters_' \in [Events -> Seq(Threads)] /\ Once'
  <2>1. \A e \in Events : waiters_'[e] \in Seq(Threads) /\ Distinct(waiters_'[e], 0)
    BY <1>5, <1>6, TypeFacts DEF IInv, Once
  <2>2. waiters_' = [e \in Events |-> waiters_'[e]] OBVIOUS
  <2> HIDE DEF E
  <2>3. waiters_' \in [Events -> Seq(Threads)] BY <2>1, <2>2
  <2> QED BY <2>1, <2>3 DEF Once
<1>8. Types' BY <1>4, <1>7, TypesStep, TypeFacts DEF IInv
<1>9. PopOK'
  <2>1. \A e \in Events : waiters_'[e] # waiters_[e] => lock_[e] \in {Nobody, t} BY <1>6
  <2> QED BY <2>1, PopStep
<1>10. FiredAt(t)' BY <1>1, <1>4 DEF FiredAt
<1>11. ASSUME NEW e \in Events, t \in Live(e)' PROVE LiveAt(t, e)'
  <2>1. e \in E BY <1>3, <1>6, <1>11
  <2>2. InWait(t, e)' BY <1>1, <2>1 DEF InWait
  <2>3. None # e BY EventAssumption DEF EventAssumption, None
  <2>4. ~signaled_'[e] BY <2>1
  <2> QED BY <1>4, <2>2, <2>3, <2>4 DEF LiveAt
<1>12. ASSUME NEW e \in Events, Sleeps(t, e)' PROVE t \in Live(e)'
  <2>1. e \in E BY <1>1, <1>12 DEF Sleeps
  <2> QED BY <1>5, <2>1
<1>13. /\ \A e \in Events : \A u \in Live(e)' \ X : u \in Live(e)
       /\ \A e \in Events : \A u \in Live(e)' \ X : signaled_'[e] => signaled_[e]
       /\ \A e \in Events : \A u \in Live(e) \ X : u \in Live(e)'
  <2> HIDE DEF E
  <2> QED BY <1>5, <1>6
<1>14. /\ X \in SUBSET Threads
       /\ \A u \in Threads \ X : /\ call'[u] = call[u] /\ fired_'[u] = fired_[u]
                                 /\ signaling_event_'[u] = signaling_event_[u]
  BY <1>1, <1>4
<1>15. /\ \A u \in X : FiredAt(u)'
       /\ \A u \in X, e \in Events : u \in Live(e)' => LiveAt(u, e)'
       /\ \A u \in X, e \in Events : Sleeps(u, e)' => u \in Live(e)'
  BY <1>10, <1>11, <1>12
<1> HIDE DEF X
<1> QED BY <1>7, <1>8, <1>9, <1>13, <1>14, <1>15, Frame

\* TimedWait on an event that is not signaled.
LEMMA TimedWaitBlockStep ==
    ASSUME IInv, NEW t \in Threads, NEW e \in Events, NEW finite \in BOOLEAN,
           call[t] = Idle, lock_[e] = Nobody, ~signaled_[e], NewWaiter(t),
           waiters_' = [waiters_ EXCEPT ![e] = Append(@, t)],
           At(t, [at |-> "check", raw |-> <<e>>, many |-> FALSE, finite |-> finite]),
           UNCHANGED <<signaled_, lock_>>
    PROVE  IInv'
<1> DEFINE c == [at |-> "check", raw |-> <<e>>, many |-> FALSE, finite |-> finite]
<1>1. <<e>> \in Arrays /\ Len(<<e>>) = 1 BY DEF Arrays, Distinct, From
<1>2. ToSet(<<e>>) = {e}
  <2>1. \A x : x \in ToSet(<<e>>) <=> \E i \in 1..Len(<<e>>) : <<e>>[i] = x BY <1>1, ArrayFacts
  <2> QED BY <1>1, <2>1
<1>3. CallOK(c) BY <1>1, MakeCall
<1>4. At(t, c) /\ c.at = "check" /\ ToSet(c.raw) = {e} BY <1>2
<1> HIDE DEF c
<1>5. call[t].at = "idle" BY DEF Idle
<1>6. \A d \in Events : Holds(c, d) <=> Holds(call[t], d) BY <1>4, <1>5 DEF Holds
<1>7. LockOK' /\ LockedQuiet' BY <1>4, <1>6, LockKeep DEF IInv, LockedQuiet
<1>8. waiters_' = [x \in Events |-> IF x \in ToSet(c.raw) THEN Append(waiters_[x], t)
                                    ELSE waiters_[x]]
  BY <1>4, TypeFacts
<1>9. \A d \in ToSet(c.raw) : lock_[d] \in {Nobody, t} /\ ~signaled_[d] BY <1>4
<1> QED BY <1>3, <1>4, <1>5, <1>7, <1>8, <1>9, TypeFacts, JoinStep

\* EnqueueMany locks the last event: it now holds the locks of all.
LEMMA LastLock ==
    ASSUME IInv, NEW t \in Threads, call[t].at = "lock",
           NEW raw, NEW k, raw = call[t].raw, k = call[t].k, NEW e \in Events,
           e = Sorted(raw)[k], k \in 1..Len(raw), Len(raw) \in Nat,
           lock_[e] = Nobody, ~signaled_[e], lock_' = [lock_ EXCEPT ![e] = t],
           NEW c, At(t, c), c.at = "unlock", c.raw = raw, c.k = k, UNCHANGED signaled_
    PROVE  LockOK' /\ LockedQuiet' /\ lock_' \in [Events -> Threads \cup {Nobody}]
<1>1. Gains(c, call[t], e)
  <2>1. 1..k = 1..(k - 1) \cup {k} OBVIOUS
  <2> QED BY <2>1 DEF Gains, Holds
<1>2. LockOK' /\ lock_' \in [Events -> Threads \cup {Nobody}] BY <1>1, LockTake
<1>3. LockedQuiet' BY TypeFacts DEF IInv, LockedQuiet
<1> QED BY <1>2, <1>3

\* EnqueueMany locks the last event and joins all lists.
LEMMA EnqueueManyLastStep ==
    ASSUME IInv, NEW t \in Threads, call[t].at = "lock",
           NEW raw, NEW k, raw = call[t].raw, k = call[t].k, NEW e, e = Sorted(raw)[k],
           lock_[e] = Nobody, ~signaled_[e], k = Len(Sorted(raw)),
           lock_' = [lock_ EXCEPT ![e] = t],
           waiters_' = [x \in Events |-> IF x \in ToSet(Sorted(raw)) THEN Append(waiters_[x], t)
                                         ELSE waiters_[x]],
           NewWaiter(t), At(t, [at |-> "unlock", raw |-> raw, k |-> k, finite |-> FALSE]),
           UNCHANGED signaled_
    PROVE  IInv'
<1> DEFINE c == [at |-> "unlock", raw |-> raw, k |-> k, finite |-> FALSE]
<1>1. raw \in Arrays /\ k \in 1..Len(raw) /\ Len(raw) \in Nat
  BY TypeFacts, ArrayFacts DEF CallOK, KInRange
<1>2. e \in Events /\ Len(Sorted(raw)) = Len(raw) /\ ToSet(Sorted(raw)) = ToSet(raw)
  BY <1>1, SortedFacts
<1>3. At(t, c) /\ c.at = "unlock" /\ c.raw = raw /\ c.k = k OBVIOUS
<1>4. CallOK(c)
  <2>1. k \in 0..Len(raw) BY <1>1
  <2> QED BY <1>1, <2>1, MakeCall
<1> HIDE DEF c
<1>5. LockOK' /\ LockedQuiet' /\ lock_' \in [Events -> Threads \cup {Nobody}]
  BY <1>1, <1>2, <1>3, LastLock
<1>6. ASSUME NEW d \in ToSet(c.raw) PROVE lock_[d] \in {Nobody, t} /\ ~signaled_[d]
  <2>1. PICK j \in 1..Len(raw) : Sorted(raw)[j] = d BY <1>1, <1>3, SortedFacts
  <2>2. d \in Events BY <1>1, <2>1, SortedFacts
  <2>3. CASE j = k BY <2>1, <2>3
  <2>4. CASE j # k
    <3>1. j \in 1..(k - 1) BY <1>1, <1>2, <2>4
    <3>2. Holds(call[t], d) BY <2>1, <3>1 DEF Holds
    <3>3. lock_[d] = t /\ t # Nobody
      BY <2>2, <3>2, OneHolder, EventAssumption DEF EventAssumption
    <3> QED BY <2>2, <3>3 DEF IInv, LockedQuiet
  <2> QED BY <2>3, <2>4
<1> QED BY <1>2, <1>3, <1>4, <1>5, <1>6, JoinStep

\* A list without its entry for t, if it has one.
LEMMA DequeueFacts ==
    ASSUME NEW s \in Seq(Threads), NEW t, Distinct(s, 0)
    PROVE  /\ RemoveFirst(s, t) \in Seq(Threads) /\ Distinct(RemoveFirst(s, t), 0)
           /\ Elems(RemoveFirst(s, t), 0) = Elems(s, 0) \ {t}
<1> DEFINE r == RemoveFirst(s, t)
<1>1. CASE (\A i \in 1..Len(s) : s[i] # t) /\ r = s BY <1>1 DEF Elems, From
<1>2. CASE \E i \in 1..Len(s) : s[i] = t /\ r \in Seq(Threads) /\ CutAt(s, i, r)
  <2> HIDE DEF r
  <2>1. PICK i \in 1..Len(s) : s[i] = t /\ r \in Seq(Threads) /\ CutAt(s, i, r) BY <1>2
  <2>2. Distinct(r, 0) /\ Elems(r, 0) = Elems(s, 0) \ {s[i]} BY <2>1, ElemsCut
  <2> QED BY <2>1, <2>2 DEF r
<1> QED BY <1>1, <1>2, RemoveFirstSeq

\* The waiter of t leaves the list of an event that nobody signals.
LEMMA LeaveStep ==
    ASSUME IInv, NEW t \in Threads, NEW c, At(t, c), CallOK(c), NEW d \in Events,
           lock_[d] = Nobody, Dequeue(t, d),
           call[t].at \in {"dequeue", "leave"}, c.at \in {"leave", "return"},
           c.at = "leave" => signaling_event_[t] \in ToSet(c.raw),
           \A e \in Events : InWait(t, e) => e = d \/ InWait(t, e)',
           UNCHANGED <<signaled_, lock_, fired_, signaling_event_>>
    PROVE  IInv'
<1> DEFINE X == {t}
<1>1. call'[t] = c /\ \A u \in Threads \ {t} : call'[u] = call[u] BY CallStep DEF IInv
<1>2. /\ waiters_'[d] \in Seq(Threads) /\ Distinct(waiters_'[d], 0)
      /\ Live(d)' = Live(d) \ {t}
  <2>1. /\ waiters_[d] \in Seq(Threads) /\ Live(d) = Elems(waiters_[d], 0)
        /\ \A u \in Threads : ~Drops(call[u], d)
    BY LiveElems
  <2>2. waiters_'[d] = RemoveFirst(waiters_[d], t) BY TypeFacts DEF Dequeue
  <2>3. Distinct(waiters_[d], 0) BY DEF IInv, Once
  <2>4. /\ waiters_'[d] \in Seq(Threads) /\ Distinct(waiters_'[d], 0)
        /\ Elems(waiters_'[d], 0) = Elems(waiters_[d], 0) \ {t}
    BY <2>1, <2>2, <2>3, DequeueFacts
  <2>5. \A u \in Threads : ~Drops(call'[u], d) BY <1>1, <2>1 DEF Drops
  <2>6. LiveOf(waiters_'[d], call', d) = Elems(waiters_'[d], 0) BY <2>4, <2>5, LiveAll
  <2> QED BY <2>1, <2>4, <2>6 DEF Live
<1>3. ASSUME NEW e \in Events, e # d
      PROVE  waiters_'[e] = waiters_[e] /\ Live(e)' = Live(e)
  <2>1. waiters_'[e] = waiters_[e] BY <1>3, TypeFacts DEF Dequeue
  <2>2. ~Drops(call[t], e) /\ ~Drops(c, e) BY DEF Drops
  <2> QED BY <2>1, <2>2, LiveSame
<1>4. waiters_' \in [Events -> Seq(Threads)] /\ Once'
  <2>1. \A e \in Events : waiters_'[e] \in Seq(Threads) /\ Distinct(waiters_'[e], 0)
    BY <1>2, <1>3, TypeFacts DEF IInv, Once
  <2>2. waiters_' = [e \in Events |-> waiters_'[e]] BY TypeFacts DEF Dequeue
  <2>3. waiters_' \in [Events -> Seq(Threads)] BY <2>1, <2>2
  <2> QED BY <2>1, <2>3 DEF Once
<1>5. Types' BY <1>4, TypesStep, TypeFacts DEF IInv
<1>6. PopOK'
  <2>1. \A e \in Events : waiters_'[e] # waiters_[e] => lock_[e] \in {Nobody, t} BY <1>3
  <2> QED BY <2>1, PopStep
<1>7. LockOK' /\ LockedQuiet'
  <2>1. \A e \in Events : Holds(c, e) <=> Holds(call[t], e) BY DEF Holds
  <2> QED BY <2>1, LockKeep DEF IInv, LockedQuiet
<1>8. fired_[t] BY DEF IInv, FiredOK, FiredAt
<1>9. FiredAt(t)' BY <1>1, <1>8 DEF FiredAt
<1>10. ASSUME NEW e \in Events, t \in Live(e)' PROVE LiveAt(t, e)'
  <2>1. e # d /\ t \in Live(e) BY <1>2, <1>3, <1>10
  <2>2. InWait(t, e) /\ signaling_event_[t] # e BY <2>1, LiveInWait
  <2>3. InWait(t, e)' BY <2>1, <2>2
  <2> QED BY <1>8, <2>2, <2>3 DEF LiveAt
<1>11. \A e \in Events : ~Sleeps(t, e)' BY <1>1, <1>8 DEF Sleeps
<1>12. /\ \A e \in Events : \A u \in Live(e)' \ X : u \in Live(e)
       /\ \A e \in Events : \A u \in Live(e)' \ X : signaled_'[e] => signaled_[e]
       /\ \A e \in Events : \A u \in Live(e) \ X : u \in Live(e)'
  BY <1>2, <1>3
<1>13. /\ X \in SUBSET Threads
       /\ \A u \in Threads \ X : /\ call'[u] = call[u] /\ fired_'[u] = fired_[u]
                                 /\ signaling_event_'[u] = signaling_event_[u]
  BY <1>1
<1>14. /\ \A u \in X : FiredAt(u)'
       /\ \A u \in X, e \in Events : u \in Live(e)' => LiveAt(u, e)'
       /\ \A u \in X, e \in Events : Sleeps(u, e)' => u \in Live(e)'
  BY <1>9, <1>10, <1>11
<1> HIDE DEF X
<1> QED BY <1>4, <1>5, <1>6, <1>7, <1>12, <1>13, <1>14, Frame

\* TimedWait leaves the list of its event, released or not.
LEMMA DequeueAfterWaitStep ==
    ASSUME IInv, NEW t \in Threads, DequeueAfterWait(t)
    PROVE  IInv'
<1> DEFINE d == call[t].event
           e == IF call[t].fired THEN d ELSE None
           c == [at |-> "return", event |-> e]
<1>1. /\ call[t].at = "dequeue" /\ lock_[d] = Nobody /\ Dequeue(t, d) /\ At(t, c)
      /\ UNCHANGED <<signaled_, lock_, fired_, signaling_event_>>
  BY DEF DequeueAfterWait, Done
<1>2. d \in Events BY <1>1, TypeFacts, CallShape
<1>3. e \in Events \cup {None} BY <1>2
<1>4. CallOK(c) /\ c.at = "return" BY <1>3, MakeCall
<1>5. \A x \in Events : InWait(t, x) => x = d BY <1>1 DEF InWait
<1> HIDE DEF c, e
<1> QED BY <1>1, <1>2, <1>4, <1>5, LeaveStep

\* WaitMany leaves the lists in turn, except that of the event which fired it.
LEMMA LeaveManyStep ==
    ASSUME IInv, NEW t \in Threads, LeaveMany(t)
    PROVE  IInv'
<1> DEFINE k == call[t].k
           raw == call[t].raw
           by == signaling_event_[t]
           n == [at |-> "leave", raw |-> raw, k |-> k + 1]
<1>1. /\ call[t].at = "leave" /\ UNCHANGED <<signaled_, lock_, fired_, signaling_event_>>
  BY DEF LeaveMany
<1>2. /\ raw \in Arrays /\ Len(raw) \in Nat /\ k \in 1..Len(raw) + 1
      /\ call[t] = [at |-> "leave", raw |-> raw, k |-> k]
  <2>1. CallOK(call[t]) BY TypeFacts
  <2>2. raw \in Arrays /\ k \in 1..Len(raw) + 1 BY <1>1, <2>1 DEF CallOK, KInRange
  <2> QED BY <1>1, <2>1, <2>2, CallShape, ArrayFacts
<1>3. fired_[t] /\ by \in ToSet(raw) /\ by \in Events \cup {None}
  BY <1>1, TypeFacts DEF IInv, FiredOK, FiredAt
<1>4. [call[t] EXCEPT !.k = k + 1] = n /\ n.at = "leave" /\ n.raw = raw /\ n.k = k + 1
  BY <1>2
<1>5. k <= Len(raw) => CallOK(n)
  <2>1. k <= Len(raw) => k + 1 \in 1..Len(raw) + 1 BY <1>2
  <2> QED BY <1>2, <2>1, MakeCall
<1> HIDE DEF n
<1>6. ASSUME k <= Len(raw), At(t, n)
      PROVE  \A e \in Events : InWait(t, e) => e = raw[k] \/ InWait(t, e)'
  <2>1. call'[t] = n BY <1>6, CallStep DEF IInv
  <2> SUFFICES ASSUME NEW e \in Events, InWait(t, e), e # raw[k] PROVE InWait(t, e)'
    OBVIOUS
  <2>2. PICK j \in k..Len(raw) : raw[j] = e BY <1>1 DEF InWait
  <2>3. j \in (k + 1)..Len(raw) BY <1>2, <2>2
  <2> QED BY <1>4, <2>1, <2>2, <2>3 DEF InWait
<1>7. CASE /\ k <= Len(raw) /\ lock_[raw[k]] = Nobody
           /\ Dequeue(t, raw[k]) /\ At(t, [call[t] EXCEPT !.k = k + 1])
  <2>1. raw[k] \in Events BY <1>2, <1>7, ArrayFacts
  <2>2. At(t, n) BY <1>4, <1>7
  <2> QED BY <1>1, <1>3, <1>4, <1>5, <1>6, <1>7, <2>1, <2>2, LeaveStep
<1>8. CASE /\ k <= Len(raw) /\ raw[k] = by
           /\ At(t, [call[t] EXCEPT !.k = k + 1]) /\ UNCHANGED waiters_
  <2>1. At(t, n) /\ CallOK(n) BY <1>4, <1>5, <1>8
  <2>2. \A e \in Events : Holds(n, e) <=> Holds(call[t], e) BY <1>1, <1>4 DEF Holds
  <2>3. LockOK' BY <1>1, <2>1, <2>2, LockKeep
  <2>4. \A e \in Events : t \in Live(e) => InWait(t, e)' BY <1>6, <1>8, <2>1, LiveInWait
  <2>5. call'[t] = n BY <2>1, CallStep DEF IInv
  <2>6. \A e \in Events : ~Sleeps(t, e)' BY <1>4, <2>5 DEF Sleeps
  <2> QED BY <1>1, <1>3, <1>4, <1>8, <2>1, <2>3, <2>4, <2>6, TypeFacts, InWaitStep
<1>9. CASE k > Len(raw) /\ Done(t, by) /\ UNCHANGED waiters_
  <2> DEFINE c == [at |-> "return", event |-> by]
  <2>1. At(t, c) /\ CallOK(c) /\ c.at = "return" BY <1>3, <1>9, MakeCall DEF Done
  <2> HIDE DEF c
  <2>2. \A e \in Events : Holds(c, e) <=> Holds(call[t], e) BY <1>1, <2>1 DEF Holds
  <2>3. LockOK' BY <1>1, <2>1, <2>2, LockKeep
  <2>4. \A e \in Events : t \notin Live(e)
    <3>1. k..Len(raw) = {} BY <1>2, <1>9
    <3>2. \A e \in Events : ~InWait(t, e) BY <1>1, <3>1 DEF InWait
    <3> QED BY <3>2, LiveInWait
  <2>5. call'[t] = c BY <2>1, CallStep DEF IInv
  <2>6. \A e \in Events : ~Sleeps(t, e)' BY <2>1, <2>5 DEF Sleeps
  <2> QED BY <1>1, <1>9, <2>1, <2>3, <2>4, <2>6, TypeFacts, InWaitStep
<1> QED BY <1>7, <1>8, <1>9 DEF LeaveMany

-----------------------------------------------------------------------------
(* A signal finds its waiters.                                             *)

\* A signaler of e fires w, whom it will not look at again.
LEMMA FireStep ==
    ASSUME IInv, NEW t \in Threads, NEW c, At(t, c), CallOK(c), NEW e \in Events, NEW w,
           call[t].at \in {"all", "one"}, call[t].event = e,
           c.at \in {"all", "pop"}, c.event = e,
           w \in Live(e), Fire(w, e), LiveOf(waiters_'[e], call', e) = Live(e) \ {w},
           waiters_[e] # <<>>,
           UNCHANGED <<signaled_, lock_, waiters_>>
    PROVE  IInv'
<1> DEFINE X == {t, w}
<1>1. call'[t] = c /\ \A u \in Threads \ {t} : call'[u] = call[u] BY CallStep DEF IInv
<1>2. w \in Threads BY DEF Live, LiveOf
<1>3. InWait(w, e) /\ call[w].at \in {"wait", "dequeue", "leave"}
  BY <1>2, LiveInWait DEF InWait, Fire, HoldsWaiter
<1>4. \A d \in Events : t \notin Live(d) BY NotLive
<1>5. w # t /\ call'[w] = call[w] BY <1>1, <1>2, <1>4
<1>6. /\ fired_' \in [Threads -> BOOLEAN] /\ fired_'[w] = TRUE
      /\ signaling_event_' \in [Threads -> Events \cup {None}]
      /\ signaling_event_'[w] = (IF fired_[w] THEN signaling_event_[w] ELSE e)
      /\ \A u \in Threads \ X : /\ fired_'[u] = fired_[u]
                                /\ signaling_event_'[u] = signaling_event_[u]
  BY <1>2, TypeFacts DEF Fire
<1>7. Types' BY <1>6, TypesStep, TypeFacts DEF IInv
<1>8. LockOK' /\ LockedQuiet' /\ Once'
  <2>1. \A d \in Events : Holds(c, d) <=> Holds(call[t], d) BY DEF Holds
  <2> QED BY <2>1, LockKeep DEF IInv, LockedQuiet, Once
<1>9. PopOK'
  <2>1. \A d \in Events : waiters_'[d] # waiters_[d] => lock_[d] \in {Nobody, t} OBVIOUS
  <2>2. waiters_'[c.event] # <<>> OBVIOUS
  <2> QED BY <2>1, <2>2, PopStep
<1>10. ASSUME NEW d \in Events, d # e PROVE Live(d)' = Live(d)
  <2>1. ~Drops(call[t], d) /\ ~Drops(c, d) /\ waiters_'[d] = waiters_[d] BY <1>10 DEF Drops
  <2> QED BY <2>1, LiveSame
<1>11. /\ Live(e)' = Live(e) \ {w}
       /\ \A d \in Events : /\ \A u \in Live(d)' : u \in Live(d)
                            /\ \A u \in Live(d) \ X : u \in Live(d)'
  <2>1. Live(e)' = Live(e) \ {w} BY DEF Live
  <2> QED BY <1>10, <2>1
<1>12. FiredAt(w)'
  <2>1. call[w].at = "wait" => e \in ToSet(call[w].raw) BY <1>3 DEF InWait
  <2>2. FiredAt(w) BY <1>2 DEF IInv, FiredOK
  <2> QED BY <1>3, <1>5, <1>6, <2>1, <2>2 DEF FiredAt
<1>13. FiredAt(t)' BY <1>1 DEF FiredAt
<1>14. ASSUME NEW d \in Events, w \in Live(d)' PROVE LiveAt(w, d)'
  <2>1. d # e BY <1>11, <1>14
  <2>2. InWait(w, d) /\ signaling_event_[w] # d BY <1>2, <1>11, <1>14, LiveInWait
  <2>3. InWait(w, d)' BY <1>5, <2>2 DEF InWait
  <2> QED BY <1>6, <2>1, <2>2, <2>3 DEF LiveAt
<1>15. \A d \in Events : ~Sleeps(t, d)' /\ ~Sleeps(w, d)' BY <1>1, <1>6 DEF Sleeps
<1>16. /\ X \in SUBSET Threads
       /\ \A u \in Threads \ X : /\ call'[u] = call[u] /\ fired_'[u] = fired_[u]
                                 /\ signaling_event_'[u] = signaling_event_[u]
  BY <1>1, <1>2, <1>6
<1>17. /\ \A u \in X : FiredAt(u)'
       /\ \A u \in X, d \in Events : u \in Live(d)' => LiveAt(u, d)'
       /\ \A u \in X, d \in Events : Sleeps(u, d)' => u \in Live(d)'
  BY <1>4, <1>11, <1>12, <1>13, <1>14, <1>15
<1>18. /\ \A d \in Events : \A u \in Live(d)' \ X : u \in Live(d)
       /\ \A d \in Events : \A u \in Live(d)' \ X : signaled_'[d] => signaled_[d]
       /\ \A d \in Events : \A u \in Live(d) \ X : u \in Live(d)'
  BY <1>11
<1> HIDE DEF X
<1> QED BY <1>7, <1>8, <1>9, <1>16, <1>17, <1>18, Frame

\* A signaler of e drops what it has fired and goes on, or leaves the event signaled
\* when nobody is left to be fired.
LEMMA DropStep ==
    ASSUME IInv, NEW t \in Threads, NEW c, At(t, c), CallOK(c), NEW e \in Events,
           call[t].at \in {"all", "one", "pop"}, call[t].event = e, c.at \in {"idle", "one"},
           waiters_' \in [Events -> Seq(Threads)], Distinct(waiters_'[e], 0),
           \A d \in Events : d # e => waiters_'[d] = waiters_[d],
           LiveOf(waiters_'[e], call', e) = Live(e),
           signaled_' \in [Events -> BOOLEAN],
           \A d \in Events : signaled_'[d] => signaled_[d] \/ (d = e /\ Live(e) = {}),
           lock_' \in [Events -> Threads \cup {Nobody}], LockOK', LockedQuiet',
           UNCHANGED <<fired_, signaling_event_>>
    PROVE  IInv'
<1> DEFINE X == {t}
<1>1. call'[t] = c /\ \A u \in Threads \ {t} : call'[u] = call[u] BY CallStep DEF IInv
<1>2. \A d \in Events : t \notin Live(d) BY NotLive
<1>3. Types' BY TypesStep, TypeFacts DEF IInv
<1>4. Once' BY DEF IInv, Once
<1>5. PopOK'
  <2>1. lock_[e] = t BY OneHolder DEF Holds
  <2>2. \A d \in Events : waiters_'[d] # waiters_[d] => lock_[d] \in {Nobody, t} BY <2>1
  <2> QED BY <2>2, PopStep
<1>6. \A d \in Events : Live(d)' = Live(d)
  <2>1. ASSUME NEW d \in Events, d # e PROVE Live(d)' = Live(d)
    <3>1. ~Drops(call[t], d) /\ ~Drops(c, d) /\ waiters_'[d] = waiters_[d] BY <2>1 DEF Drops
    <3> QED BY <3>1, LiveSame
  <2>2. Live(e)' = Live(e) BY DEF Live
  <2> QED BY <2>1, <2>2
<1>7. /\ X \in SUBSET Threads
      /\ \A u \in Threads \ X : /\ call'[u] = call[u] /\ fired_'[u] = fired_[u]
                                /\ signaling_event_'[u] = signaling_event_[u]
  BY <1>1
<1>8. /\ \A d \in Events : \A u \in Live(d)' \ X : u \in Live(d)
      /\ \A d \in Events : \A u \in Live(d)' \ X : signaled_'[d] => signaled_[d]
      /\ \A d \in Events : \A u \in Live(d) \ X : u \in Live(d)'
  BY <1>6
<1>9. FiredAt(t)' /\ \A d \in Events : ~Sleeps(t, d)' BY <1>1 DEF FiredAt, Sleeps
<1>10. /\ \A u \in X : FiredAt(u)'
       /\ \A u \in X, d \in Events : u \in Live(d)' => LiveAt(u, d)'
       /\ \A u \in X, d \in Events : Sleeps(u, d)' => u \in Live(d)'
  BY <1>2, <1>6, <1>9
<1> HIDE DEF X
<1> QED BY <1>3, <1>4, <1>5, <1>7, <1>8, <1>10, Frame

\* What a signaler of e looks at, before and after a step.
LEMMA SignalerFacts ==
    ASSUME IInv, NEW t \in Threads, NEW e \in Events, call[t].at \in {"all", "one", "pop"},
           call[t].event = e
    PROVE  /\ lock_[e] = t /\ waiters_[e] \in Seq(Threads) /\ Distinct(waiters_[e], 0)
           /\ \A u \in Threads : Drops(call[u], e) => u = t
           /\ call[t].at = "all" => Live(e) = Elems(waiters_[e], call[t].i)
           /\ call[t].at = "pop" => Live(e) = Elems(waiters_[e], 2)
           /\ call[t].at = "one" => Live(e) = Elems(waiters_[e], 0)
<1>1. lock_[e] = t BY OneHolder DEF Holds
<1>2. waiters_[e] \in Seq(Threads) /\ Distinct(waiters_[e], 0) BY TypeFacts DEF IInv, Once
<1>3. ASSUME NEW u \in Threads, Drops(call[u], e) PROVE u = t
  <2>1. Holds(call[u], e) BY <1>3 DEF Drops, Holds
  <2> QED BY <1>1, <2>1, OneHolder
<1>4. CASE call[t].at \in {"all", "pop"}
  <2>1. Drops(call[t], e) BY <1>4 DEF Drops
  <2>2. LiveOf(waiters_[e], call, e) = Elems(waiters_[e], Pos(call[t]))
    BY <1>2, <1>3, <2>1, LiveFrom
  <2> QED BY <1>1, <1>2, <1>3, <1>4, <2>2 DEF Live, Pos
<1>5. CASE call[t].at = "one"
  <2>1. Live(e) = Elems(waiters_[e], 0) BY <1>1, <1>5, LiveElems
  <2> QED BY <1>1, <1>2, <1>3, <1>5, <2>1
<1> QED BY <1>4, <1>5

\* The signaler lets go of its event, or holds on to it.
LEMMA SignalerLock ==
    ASSUME IInv, NEW t \in Threads, NEW e \in Events, call[t].at \in {"all", "one", "pop"},
           call[t].event = e, NEW c, At(t, c),
           \/ c.at = "idle" /\ lock_' = [lock_ EXCEPT ![e] = Nobody]
           \/ c.at = "one" /\ c.event = e /\ lock_' = lock_,
           \A d \in Events : d # e => signaled_'[d] = signaled_[d],
           c.at = "one" => signaled_' = signaled_
    PROVE  LockOK' /\ LockedQuiet' /\ lock_' \in [Events -> Threads \cup {Nobody}]
<1>1. CASE c.at = "one" /\ c.event = e /\ lock_' = lock_
  <2>1. \A d \in Events : Holds(c, d) <=> Holds(call[t], d) BY <1>1 DEF Holds
  <2>2. LockOK' BY <1>1, <2>1, LockKeep
  <2> QED BY <1>1, <2>2, TypeFacts DEF IInv, LockedQuiet
<1>2. CASE c.at = "idle" /\ lock_' = [lock_ EXCEPT ![e] = Nobody]
  <2>1. Loses(c, call[t], e) BY <1>2 DEF Loses, Holds
  <2>2. Holds(call[t], e) BY DEF Holds
  <2>3. LockOK' /\ lock_' \in [Events -> Threads \cup {Nobody}]
    BY <1>2, <2>1, <2>2, LockFree
  <2>4. \A d \in Events : lock_'[d] = IF d = e THEN Nobody ELSE lock_[d] BY <1>2, TypeFacts
  <2>5. LockedQuiet' BY <2>4 DEF IInv, LockedQuiet
  <2> QED BY <2>3, <2>5
<1> QED BY <1>1, <1>2

\* SignalAll fires every waiter, and drops them all at the end.
LEMMA SignalAllStep ==
    ASSUME IInv, NEW t \in Threads, SignalAll(t)
    PROVE  IInv'
<1> DEFINE e == call[t].event
           i == call[t].i
           s == waiters_[e]
<1>1. call[t].at = "all" BY DEF SignalAll
<1>2. /\ e \in Events /\ i \in Nat \ {0} /\ e \in Manual
      /\ call[t] = [at |-> "all", event |-> e, i |-> i]
  <2>1. CallOK(call[t]) BY TypeFacts
  <2> QED BY <1>1, <2>1, CallShape DEF CallOK
<1>3. /\ s \in Seq(Threads) /\ Distinct(s, 0) /\ Live(e) = Elems(s, i) /\ Len(s) \in Nat
      /\ \A u \in Threads : Drops(call[u], e) => u = t
  BY <1>1, <1>2, SignalerFacts
<1>4. CASE /\ i <= Len(s) /\ Fire(s[i], e) /\ At(t, [call[t] EXCEPT !.i = i + 1])
           /\ UNCHANGED <<signaled_, lock_, waiters_>>
  <2> DEFINE c == [at |-> "all", event |-> e, i |-> i + 1]
  <2>1. [call[t] EXCEPT !.i = i + 1] = c BY <1>2
  <2>2. At(t, c) /\ c.at = "all" /\ c.event = e /\ c.i = i + 1 BY <1>4, <2>1
  <2>3. CallOK(c)
    <3>1. i + 1 \in Nat \ {0} BY <1>2
    <3>2. CallOK([at |-> IF e \in Manual THEN "all" ELSE "one", event |-> e, i |-> i + 1])
      BY <1>2, <3>1, MakeCall
    <3> QED BY <1>2, <3>2
  <2> HIDE DEF c
  <2>4. i \in 1..Len(s) BY <1>2, <1>3, <1>4
  <2>5. Distinct(s, i) BY <1>3 DEF Distinct, From
  <2>6. s[i] \in Elems(s, i) /\ Elems(s, i + 1) = Elems(s, i) \ {s[i]}
    BY <1>3, <2>4, <2>5, ElemsStep
  <2>7. call'[t] = c /\ \A u \in Threads \ {t} : call'[u] = call[u]
    BY <2>2, CallStep DEF IInv
  <2>8. /\ Drops(call'[t], e) /\ Pos(call'[t]) = i + 1
        /\ \A u \in Threads : Drops(call'[u], e) => u = t
    BY <1>3, <2>2, <2>7 DEF Drops, Pos
  <2>9. LiveOf(s, call', e) = Elems(s, i + 1) BY <1>3, <2>8, LiveFrom
  <2>10. waiters_'[e] = s BY <1>4
  <2>11. LiveOf(waiters_'[e], call', e) = Live(e) \ {s[i]} /\ s[i] \in Live(e)
    BY <1>3, <2>6, <2>9, <2>10
  <2>12. s # <<>> BY <2>4
  <2> QED BY <1>1, <1>2, <1>4, <2>2, <2>3, <2>11, <2>12, FireStep
<1>5. CASE /\ i > Len(s) /\ waiters_' = [waiters_ EXCEPT ![e] = <<>>]
           /\ signaled_' = [signaled_ EXCEPT ![e] = TRUE]
           /\ lock_' = [lock_ EXCEPT ![e] = Nobody] /\ At(t, Idle)
           /\ UNCHANGED <<fired_, signaling_event_>>
  <2>1. CallOK(Idle) /\ Idle.at = "idle" BY MakeCall DEF Idle
  <2>2. Live(e) = {} BY <1>2, <1>3, <1>5, ElemsNone
  <2>3. waiters_'[e] = <<>> BY <1>2, <1>5, TypeFacts
  <2>4. LiveOf(waiters_'[e], call', e) = {} BY <2>3 DEF LiveOf
  <2>5. waiters_' \in [Events -> Seq(Threads)] BY <1>2, <1>5, TypeFacts
  <2>6. Distinct(waiters_'[e], 0) BY <2>3 DEF Distinct, From
  <2>7. \A d \in Events : d # e => waiters_'[d] = waiters_[d] /\ signaled_'[d] = signaled_[d]
    BY <1>2, <1>5, TypeFacts
  <2>8. signaled_' \in [Events -> BOOLEAN] BY <1>2, <1>5, TypeFacts
  <2>9. LockOK' /\ LockedQuiet' /\ lock_' \in [Events -> Threads \cup {Nobody}]
    BY <1>1, <1>2, <1>5, <2>1, <2>7, SignalerLock
  <2>10. \A d \in Events : signaled_'[d] => signaled_[d] \/ (d = e /\ Live(e) = {})
    BY <2>2, <2>7
  <2>11. LiveOf(waiters_'[e], call', e) = Live(e) BY <2>2, <2>4
  <2>12. \A d \in Events : d # e => waiters_'[d] = waiters_[d] BY <2>7
  <2> QED BY <1>1, <1>2, <1>5, <2>1, <2>5, <2>6, <2>8, <2>9, <2>10, <2>11, <2>12, DropStep
<1> QED BY <1>4, <1>5 DEF SignalAll

\* SignalOne fires the head of the list, or finds the list empty.
LEMMA SignalOneStep ==
    ASSUME IInv, NEW t \in Threads, SignalOne(t)
    PROVE  IInv'
<1> DEFINE e == call[t].event
           s == waiters_[e]
           w == Head(s)
<1>1. call[t].at = "one" BY DEF SignalOne
<1>2. e \in Events \ Manual
  <2>1. CallOK(call[t]) BY TypeFacts
  <2> QED BY <1>1, <2>1, CallShape DEF CallOK
<1>3. /\ s \in Seq(Threads) /\ Distinct(s, 0) /\ Live(e) = Elems(s, 0)
      /\ \A u \in Threads : Drops(call[u], e) => u = t
  BY <1>1, <1>2, SignalerFacts
<1>4. CASE /\ s # <<>> /\ Fire(w, e)
           /\ At(t, [at |-> "pop", event |-> e, woken |-> ~fired_[w]])
           /\ UNCHANGED <<signaled_, lock_, waiters_>>
  <2> DEFINE c == [at |-> "pop", event |-> e, woken |-> ~fired_[w]]
  <2>1. At(t, c) /\ c.at = "pop" /\ c.event = e BY <1>4
  <2>2. CallOK(c)
    <3>1. (~fired_[w]) \in BOOLEAN OBVIOUS
    <3> QED BY <1>2, <3>1, MakeCall
  <2> HIDE DEF c
  <2>3. 1 \in 1..Len(s) /\ w = s[1] BY <1>3, <1>4
  <2>4. Elems(s, 1) = Elems(s, 0) /\ Distinct(s, 1) BY <1>3, ElemsStart
  <2>5. w \in Elems(s, 1) /\ Elems(s, 1 + 1) = Elems(s, 1) \ {w}
    BY <1>3, <2>3, <2>4, ElemsStep
  <2>6. call'[t] = c /\ \A u \in Threads \ {t} : call'[u] = call[u]
    BY <2>1, CallStep DEF IInv
  <2>7. /\ Drops(call'[t], e) /\ Pos(call'[t]) = 1 + 1
        /\ \A u \in Threads : Drops(call'[u], e) => u = t
    BY <1>3, <2>1, <2>6 DEF Drops, Pos
  <2>8. LiveOf(s, call', e) = Elems(s, 1 + 1) BY <1>3, <2>7, LiveFrom
  <2>9. waiters_'[e] = s BY <1>4
  <2>10. LiveOf(waiters_'[e], call', e) = Live(e) \ {w} /\ w \in Live(e)
    BY <1>3, <2>4, <2>5, <2>8, <2>9
  <2> QED BY <1>1, <1>2, <1>4, <2>1, <2>2, <2>10, FireStep
<1>5. CASE /\ s = <<>> /\ signaled_' = [signaled_ EXCEPT ![e] = TRUE]
           /\ lock_' = [lock_ EXCEPT ![e] = Nobody] /\ At(t, Idle)
           /\ UNCHANGED <<waiters_, fired_, signaling_event_>>
  <2>1. CallOK(Idle) /\ Idle.at = "idle" BY MakeCall DEF Idle
  <2>2. Live(e) = {} BY <1>5 DEF Live, LiveOf
  <2>3. waiters_'[e] = <<>> BY <1>5
  <2>4. LiveOf(waiters_'[e], call', e) = {} BY <2>3 DEF LiveOf
  <2>6. Distinct(waiters_'[e], 0) BY <2>3 DEF Distinct, From
  <2>7. \A d \in Events : d # e => waiters_'[d] = waiters_[d] /\ signaled_'[d] = signaled_[d]
    BY <1>2, <1>5, TypeFacts
  <2>8. signaled_' \in [Events -> BOOLEAN] BY <1>2, <1>5, TypeFacts
  <2>9. LockOK' /\ LockedQuiet' /\ lock_' \in [Events -> Threads \cup {Nobody}]
    BY <1>1, <1>2, <1>5, <2>1, <2>7, SignalerLock
  <2>10. \A d \in Events : signaled_'[d] => signaled_[d] \/ (d = e /\ Live(e) = {})
    BY <2>2, <2>7
  <2>11. LiveOf(waiters_'[e], call', e) = Live(e) BY <2>2, <2>4
  <2>12. waiters_' \in [Events -> Seq(Threads)] /\ \A d \in Events : d # e => waiters_'[d] = waiters_[d]
    BY <1>5, TypeFacts
  <2> QED BY <1>1, <1>2, <1>5, <2>1, <2>6, <2>8, <2>9, <2>10, <2>11, <2>12, DropStep
<1> QED BY <1>4, <1>5 DEF SignalOne

\* SignalOne drops the waiter it has fired, and goes on if it was rejected.
LEMMA SignalOnePopStep ==
    ASSUME IInv, NEW t \in Threads, SignalOnePop(t)
    PROVE  IInv'
<1> DEFINE e == call[t].event
           s == waiters_[e]
           c == IF call[t].woken THEN Idle ELSE [at |-> "one", event |-> e, i |-> 1]
<1>1. /\ call[t].at = "pop" /\ waiters_' = [waiters_ EXCEPT ![e] = Tail(@)]
      /\ UNCHANGED <<signaled_, fired_, signaling_event_>>
  BY DEF SignalOnePop
<1>2. e \in Events \ Manual
  <2>1. CallOK(call[t]) BY <1>1, TypeFacts
  <2> QED BY <1>1, <2>1, CallShape DEF CallOK
<1>3. /\ s \in Seq(Threads) /\ Distinct(s, 0) /\ Live(e) = Elems(s, 2)
      /\ \A u \in Threads : Drops(call[u], e) => u = t
  BY <1>1, <1>2, SignalerFacts
<1>4. s # <<>> BY <1>1 DEF IInv, PopOK
<1>5. /\ At(t, c)
      /\ \/ c.at = "idle" /\ lock_' = [lock_ EXCEPT ![e] = Nobody]
         \/ c.at = "one" /\ c.event = e /\ lock_' = lock_
  BY DEF SignalOnePop, Idle
<1>6. CallOK(c)
  <2>1. CallOK([at |-> IF e \in Manual THEN "all" ELSE "one", event |-> e, i |-> 1])
    BY <1>2, MakeCall
  <2> QED BY <1>2, <2>1, MakeCall
<1> HIDE DEF c
<1>7. waiters_'[e] = Tail(s) /\ \A d \in Events : d # e => waiters_'[d] = waiters_[d]
  BY <1>1, <1>2, TypeFacts
<1>8. Tail(s) \in Seq(Threads) /\ Distinct(Tail(s), 0) /\ Elems(Tail(s), 0) = Elems(s, 2)
  BY <1>3, <1>4, ElemsTail
<1>9. waiters_' \in [Events -> Seq(Threads)]
  <2>1. \A d \in Events : waiters_'[d] \in Seq(Threads) BY <1>7, <1>8, TypeFacts
  <2>2. waiters_' = [d \in Events |-> waiters_'[d]] BY <1>1, TypeFacts
  <2> QED BY <2>1, <2>2
<1>10. LiveOf(waiters_'[e], call', e) = Live(e)
  <2>1. call'[t] = c /\ \A u \in Threads \ {t} : call'[u] = call[u]
    BY <1>5, CallStep DEF IInv
  <2>2. \A u \in Threads : ~Drops(call'[u], e) BY <1>3, <1>5, <2>1 DEF Drops
  <2>3. LiveOf(Tail(s), call', e) = Elems(Tail(s), 0) BY <1>8, <2>2, LiveAll
  <2> QED BY <1>3, <1>7, <1>8, <2>3
<1>11. LockOK' /\ LockedQuiet' /\ lock_' \in [Events -> Threads \cup {Nobody}]
  BY <1>1, <1>2, <1>5, SignalerLock
<1>12. /\ signaled_' \in [Events -> BOOLEAN]
       /\ \A d \in Events : signaled_'[d] => signaled_[d] \/ (d = e /\ Live(e) = {})
  <2>1. signaled_' = signaled_ BY <1>1
  <2>2. signaled_' \in [Events -> BOOLEAN] BY <2>1, TypeFacts
  <2>3. \A d \in Events : signaled_'[d] => signaled_[d] BY <2>1
  <2> QED BY <2>2, <2>3
<1>13. Distinct(waiters_'[e], 0) /\ c.at \in {"idle", "one"} BY <1>5, <1>7, <1>8
<1> QED BY <1>1, <1>2, <1>5, <1>6, <1>7, <1>9, <1>10, <1>11, <1>12, <1>13, DropStep

-----------------------------------------------------------------------------
(* The invariant.                                                          *)

\* No event is locked and no list has a waiter before the first call.
LEMMA InitIInv == Init => IInv
<1> SUFFICES ASSUME Init PROVE IInv OBVIOUS
<1>1. CallOK(Idle) /\ Idle \in CallType /\ KInRange(Idle) /\ Idle.at = "idle"
  BY MakeCall DEF CallOK, Idle
<1>2. /\ \A t \in Threads : call[t] = Idle /\ ~fired_[t]
      /\ \A e \in Events : lock_[e] = Nobody /\ waiters_[e] = <<>>
  BY DEF Init
<1>3. Types
  <2>1. waiters_ \in [Events -> Seq(Threads)] BY EmptySeq DEF Init
  <2>2. lock_ \in [Events -> Threads \cup {Nobody}] /\ fired_ \in [Threads -> BOOLEAN]
        /\ signaling_event_ \in [Threads -> Events \cup {None}]
        /\ signaled_ \in [Events -> BOOLEAN] /\ call \in [Threads -> CallType]
    BY <1>1 DEF Init
  <2> QED BY <1>1, <1>2, <2>1, <2>2 DEF Types, TypeOK
<1>4. LockOK /\ LockedQuiet
  <2>1. \A e \in Events : ~Holds(Idle, e) BY <1>1 DEF Holds
  <2> QED BY <1>2, <2>1, EventAssumption DEF LockOK, LockedQuiet, EventAssumption
<1>5. Once BY <1>2 DEF Once, Distinct, From
<1>6. \A e \in Events : Live(e) = {} BY <1>2 DEF Live, LiveOf
<1>7. LiveOK BY <1>6 DEF LiveOK
<1>8. Listed /\ FiredOK /\ PopOK BY <1>1, <1>2 DEF Listed, Sleeps, FiredOK, FiredAt, PopOK
<1> QED BY <1>3, <1>4, <1>5, <1>7, <1>8 DEF IInv

LEMMA TimedWaitStep ==
    ASSUME IInv, NEW t \in Threads, NEW e \in Events, NEW finite \in BOOLEAN,
           TimedWait(t, e, finite)
    PROVE  IInv'
<1>1. CASE signaled_[e] BY <1>1, TimedWaitPassStep DEF TimedWait
<1>2. CASE ~signaled_[e] BY <1>2, TimedWaitBlockStep DEF TimedWait
<1> QED BY <1>1, <1>2

LEMMA EnqueueManyStep ==
    ASSUME IInv, NEW t \in Threads, EnqueueMany(t)
    PROVE  IInv'
<1> DEFINE raw == call[t].raw
           k == call[t].k
           e == Sorted(raw)[k]
<1>1. call[t].at = "lock" /\ lock_[e] = Nobody BY DEF EnqueueMany
<1>5. k \in Nat /\ Len(Sorted(raw)) \in Nat
  <2>1. CallOK(call[t]) BY TypeFacts
  <2>2. raw \in Arrays /\ k \in 1..Len(raw) BY <1>1, <2>1 DEF CallOK, KInRange
  <2>3. Len(raw) \in Nat BY <2>2, ArrayFacts
  <2>4. Len(Sorted(raw)) = Len(raw) BY <2>2, SortedFacts
  <2> QED BY <2>2, <2>3, <2>4
<1>2. CASE signaled_[e] BY <1>1, <1>2, EnqueueManyPassStep DEF EnqueueMany
<1>3. CASE ~signaled_[e] /\ k < Len(Sorted(raw))
  <2>1. k # Len(Sorted(raw)) BY <1>5, <1>3
  <2> QED BY <1>1, <1>3, <2>1, EnqueueManyLockStep DEF EnqueueMany
<1>4. CASE ~signaled_[e] /\ k = Len(Sorted(raw))
  <2>1. ~(k < Len(Sorted(raw))) BY <1>5, <1>4
  <2> QED BY <1>1, <1>4, <2>1, EnqueueManyLastStep DEF EnqueueMany
<1> QED BY <1>2, <1>3, <1>4 DEF EnqueueMany

\* Every step of every thread keeps the invariant.
LEMMA NextIInv == IInv /\ [Next]_vars => IInv'
<1> SUFFICES ASSUME IInv, [Next]_vars PROVE IInv' OBVIOUS
<1>1. CASE UNCHANGED vars
  <2>1. \A e \in Events : Live(e)' = Live(e) BY <1>1 DEF vars, Live
  <2>2. Types' /\ LockOK' /\ LockedQuiet' /\ Once' /\ PopOK'
    BY <1>1 DEF IInv, vars, Types, TypeOK, LockOK, LockedQuiet, Once, PopOK
  <2>3. LiveOK' BY <1>1, <2>1 DEF IInv, vars, LiveOK, LiveAt, InWait
  <2>4. Listed' /\ FiredOK' BY <1>1, <2>1 DEF IInv, vars, Listed, Sleeps, FiredOK, FiredAt
  <2> QED BY <2>2, <2>3, <2>4 DEF IInv
<1>2. ASSUME NEW t \in Threads, Begin(t) PROVE IInv'
  BY <1>2, SignalStep, ResetStep, TimedWaitStep, WaitManyStep DEF Begin
<1>3. ASSUME NEW t \in Threads, Continue(t) PROVE IInv'
  <2>1. CASE SignalAll(t) BY <2>1, SignalAllStep
  <2>2. CASE SignalOne(t) BY <2>2, SignalOneStep
  <2>3. CASE SignalOnePop(t) BY <2>3, SignalOnePopStep
  <2>4. CASE CheckTimedWait(t) BY <2>4, CheckTimedWaitStep
  <2>5. CASE DequeueAfterWait(t) BY <2>5, DequeueAfterWaitStep
  <2>6. CASE Wake(t) BY <2>6, WakeStep DEF Wake
  <2>7. CASE EnqueueMany(t) BY <2>7, EnqueueManyStep
  <2>8. CASE Unlock(t) BY <2>8, UnlockStep
  <2>9. CASE CheckWaitMany(t) BY <2>9, CheckWaitManyStep
  <2>10. CASE LeaveMany(t) BY <2>10, LeaveManyStep
  <2>11. CASE Return(t) BY <2>11, ReturnStep
  <2> QED BY <1>3, <2>1, <2>2, <2>3, <2>4, <2>5, <2>6, <2>7, <2>8, <2>9, <2>10, <2>11
          DEF Continue
<1> QED BY <1>1, <1>2, <1>3 DEF Next

\* The invariant holds in every reachable state.
LEMMA AlwaysIInv == Spec => []IInv
BY InitIInv, NextIInv, PTL DEF Spec

\* Every event, waiter and call keeps its shape, and WaitMany does not run out of
\* its array, whatever the threads do.
THEOREM EventTypes == Spec => []TypeOK
<1>1. IInv => TypeOK BY DEF IInv, Types
<1> QED BY <1>1, AlwaysIInv, PTL

\* No event ever keeps a pointer to the SyncWaiter of a wait that has returned.
THEOREM WaitersOutliveTheirEntries == Spec => []NoDanglingWaiter
<1>1. ASSUME IInv PROVE NoDanglingWaiter
  <2> SUFFICES ASSUME NEW e \in Events, NEW i \in 1..Len(waiters_[e])
               PROVE  /\ InWait(waiters_[e][i], e) \/ BeingDropped(e, i)
                      /\ \A j \in 1..Len(waiters_[e]) :
                           waiters_[e][i] = waiters_[e][j] => i = j
    BY DEF NoDanglingWaiter
  <2>1. waiters_[e] \in Seq(Threads) /\ waiters_[e][i] \in Threads BY <1>1, TypeFacts
  <2>2. \A j \in 1..Len(waiters_[e]) : waiters_[e][i] = waiters_[e][j] => i = j
    <3>1. Distinct(waiters_[e], 0) BY <1>1 DEF IInv, Once
    <3> QED BY <2>1, <3>1 DEF Distinct, From
  <2>3. CASE \A t \in Threads : Drops(call[t], e) => i >= Pos(call[t])
    <3>1. waiters_[e][i] \in Live(e) BY <2>1, <2>3 DEF Live, LiveOf
    <3> QED BY <1>1, <2>1, <2>2, <3>1, LiveInWait
  <2>4. ASSUME NEW t \in Threads, Drops(call[t], e), ~(i >= Pos(call[t]))
        PROVE  BeingDropped(e, i)
    <3>1. lock_[e] = t BY <1>1, <2>4, OneHolder DEF Drops, Holds
    <3>2. Pos(call[t]) \in Nat
      <4>1. CallOK(call[t]) BY <1>1, TypeFacts
      <4>2. call[t].at \in {"all", "one"} => call[t].i \in Nat \ {0} BY <4>1, CallShape
      <4> QED BY <4>2 DEF Pos
    <3>3. Len(waiters_[e]) \in Nat BY <2>1
    <3>4. i < Pos(call[t]) BY <2>4, <3>2, <3>3
    <3> QED BY <2>4, <3>1, <3>4 DEF BeingDropped, Drops, Pos
  <2> QED BY <2>2, <2>3, <2>4
<1> QED BY <1>1, AlwaysIInv, PTL

\* A wait that begins and a signal that comes never miss each other: while an event
\* is signaled, every waiter in its list has been fired.
THEOREM SignalsAreNotMissed == Spec => []NoMissedSignal
<1>1. ASSUME IInv PROVE NoMissedSignal
  <2> SUFFICES ASSUME NEW e \in Events, signaled_[e], NEW i \in 1..Len(waiters_[e])
               PROVE  fired_[waiters_[e][i]]
    BY DEF NoMissedSignal
  <2>1. lock_[e] = Nobody BY <1>1 DEF IInv, LockedQuiet
  <2>2. waiters_[e] \in Seq(Threads) /\ waiters_[e][i] \in Threads BY <1>1, TypeFacts
  <2>3. \A t \in Threads : ~Drops(call[t], e)
    BY <1>1, <2>1, OneHolder DEF Drops, Holds
  <2>4. waiters_[e][i] \in Live(e) BY <2>2, <2>3 DEF Live, LiveOf
  <2> QED BY <1>1, <2>4 DEF IInv, LiveOK, LiveAt
<1> QED BY <1>1, AlwaysIInv, PTL

-----------------------------------------------------------------------------
(* The refinement of EventSpec, step by step.                              *)

\* What a call looks like to its caller, place by place.
LEMMA AppearsAt ==
    ASSUME NEW c, NEW fired, NEW by
    PROVE  /\ c.at \in {"idle", "lock", "all"} => Appears(c, fired, by) = Promise!Idle
           /\ c.at = "one" => Appears(c, fired, by) = Promise!Signaling(c.event)
           /\ c.at = "pop" => Appears(c, fired, by) =
                IF c.woken THEN Promise!Idle ELSE Promise!Signaling(c.event)
           /\ c.at \in {"unlock", "check", "wait"} => Appears(c, fired, by) =
                IF fired THEN Outcome(by) ELSE Promise!Waiting(ToSet(c.raw), c.finite)
           /\ c.at = "dequeue" => Appears(c, fired, by) =
                Outcome(IF c.fired THEN c.event ELSE None)
           /\ c.at = "leave" => Appears(c, fired, by) = Outcome(by)
           /\ c.at \in {"unwind", "return"} => Appears(c, fired, by) = Outcome(c.event)
BY DEF Appears, Promise!Idle, Promise!Signaling, Promise!Waiting

\* A wait that is over was released or has timed out.
LEMMA OutcomeSt == \A e : Outcome(e).st = IF e = None THEN "timed out" ELSE "released"
BY DEF Outcome

\* Who looks like waiting sleeps, and has not been fired.
LEMMA WaitingMeans ==
    ASSUME NEW c, CallOK(c), NEW fired \in BOOLEAN, NEW by,
           Appears(c, fired, by).st = "waiting"
    PROVE  c.at \in {"unlock", "check", "wait"} /\ ~fired
<1>1. \A e : Outcome(e).st # "waiting" BY OutcomeSt
<1>2. Promise!Idle.st # "waiting" /\ \A e : Promise!Signaling(e).st # "waiting"
  BY DEF Promise!Idle, Promise!Signaling
<1>3. c.at \in {"idle", "all", "one", "pop", "check", "wait", "dequeue", "lock", "leave",
                "unwind", "unlock", "return"}
  BY CallShape
<1>4. c.at = "pop" => c.woken \in BOOLEAN BY CallShape
<1>5. CASE c.at \in {"idle", "lock", "all", "one"} BY <1>2, <1>5, AppearsAt
<1>6. CASE c.at = "pop" BY <1>2, <1>4, <1>6, AppearsAt
<1>7. CASE c.at \in {"dequeue", "leave", "unwind", "return"} BY <1>1, <1>7, AppearsAt
<1>8. CASE c.at \in {"unlock", "check", "wait"} BY <1>1, <1>8, AppearsAt
<1> QED BY <1>3, <1>5, <1>6, <1>7, <1>8

\* A call is that of SignalAll on e.
All(c, e) == c.at = "all" /\ c.event = e

\* A step of t alone changes what t does for its caller, and nothing else.
LEMMA OneThread ==
    ASSUME IInv, NEW t \in Threads, NEW c, At(t, c),
           \A u \in Threads \ {t} : /\ fired_'[u] = fired_[u]
                                    /\ signaling_event_'[u] = signaling_event_[u]
    PROVE  /\ threadBar' = [threadBar EXCEPT ![t] = Appears(c, fired_'[t], signaling_event_'[t])]
           /\ threadBar[t] = Appears(call[t], fired_[t], signaling_event_[t])
<1>1. call'[t] = c /\ \A u \in Threads \ {t} : call'[u] = call[u] BY CallStep DEF IInv
<1>2. threadBar' = [u \in Threads |-> Appears(call'[u], fired_'[u], signaling_event_'[u])]
  BY DEF threadBar
<1>3. threadBar = [u \in Threads |-> Appears(call[u], fired_[u], signaling_event_[u])]
  BY DEF threadBar
<1> QED BY <1>1, <1>2, <1>3

\* The flag that callers see does not change when no signal is set or taken and
\* SignalAll neither begins nor ends.
LEMMA SignaledSame ==
    ASSUME IInv, NEW t \in Threads, NEW c, At(t, c), signaled_' = signaled_,
           \A e \in Events : All(c, e) <=> All(call[t], e)
    PROVE  signaledBar' = signaledBar
<1>1. call'[t] = c /\ \A u \in Threads \ {t} : call'[u] = call[u] BY CallStep DEF IInv
<1>2. ASSUME NEW e \in Events
      PROVE  (\E u \in Threads : All(call'[u], e)) <=> (\E u \in Threads : All(call[u], e))
  BY <1>1
<1> QED BY <1>2 DEF signaledBar, All

\* Nobody runs SignalAll on an event that is not locked by another thread.
LEMMA NoAll ==
    ASSUME IInv, NEW e \in Events, NEW t \in Threads, lock_[e] \in {Nobody, t},
           call[t].at # "all"
    PROVE  /\ \A u \in Threads : ~All(call[u], e)
           /\ e \in signaledBar <=> signaled_[e]
<1>1. ASSUME NEW u \in Threads, All(call[u], e) PROVE FALSE
  <2>1. Holds(call[u], e) BY <1>1 DEF All, Holds
  <2>2. u = t BY <2>1, OneHolder
  <2> QED BY <1>1, <2>2 DEF All
<1> QED BY <1>1 DEF signaledBar, All

\* A step of a thread that its caller does not notice.
LEMMA Unnoticed ==
    ASSUME IInv, NEW t \in Threads, NEW c, At(t, c), signaled_' = signaled_,
           \A u \in Threads \ {t} : /\ fired_'[u] = fired_[u]
                                    /\ signaling_event_'[u] = signaling_event_[u],
           Appears(c, fired_'[t], signaling_event_'[t])
             = Appears(call[t], fired_[t], signaling_event_[t]),
           \A e \in Events : All(c, e) <=> All(call[t], e)
    PROVE  UNCHANGED Promise!avars
<1>1. signaledBar' = signaledBar BY SignaledSame
<1>2. threadBar' = [threadBar EXCEPT ![t] = threadBar[t]] BY OneThread
<1>3. threadBar' = threadBar BY <1>2 DEF threadBar
<1> QED BY <1>1, <1>3 DEF Promise!avars

\* Signal begins as that of the promise does.
LEMMA SignalMaps ==
    ASSUME IInv, NEW t \in Threads, NEW e \in Events, Signal(t, e)
    PROVE  Promise!SignalManual(t, e) \/ Promise!SignalAuto(t, e)
<1> DEFINE c == [at |-> IF e \in Manual THEN "all" ELSE "one", event |-> e, i |-> 1]
<1>1. /\ call[t] = Idle /\ lock_[e] = Nobody /\ ~signaled_[e] /\ At(t, c)
      /\ UNCHANGED <<signaled_, waiters_, fired_, signaling_event_>>
  BY DEF Signal
<1>2. call[t].at = "idle" BY <1>1 DEF Idle
<1>3. (e \in Manual => c.at = "all") /\ (e \notin Manual => c.at = "one") /\ c.event = e
  OBVIOUS
<1> HIDE DEF c
<1>4. /\ threadBar' = [threadBar EXCEPT ![t] = Appears(c, fired_'[t], signaling_event_'[t])]
      /\ threadBar[t] = Appears(call[t], fired_[t], signaling_event_[t])
  BY <1>1, OneThread
<1>5. threadBar[t] = Promise!Idle BY <1>2, <1>4, AppearsAt
<1>6. call'[t] = c /\ \A u \in Threads \ {t} : call'[u] = call[u] BY <1>1, CallStep DEF IInv
<1>7. CASE e \in Manual
  <2>1. Appears(c, fired_'[t], signaling_event_'[t]) = Promise!Idle
    BY <1>3, <1>7, AppearsAt
  <2>2. threadBar' = threadBar
    <3>1. threadBar' = [threadBar EXCEPT ![t] = threadBar[t]] BY <1>4, <1>5, <2>1
    <3> QED BY <3>1 DEF threadBar
  <2>3. ASSUME NEW d \in Events
        PROVE  (\E u \in Threads : All(call'[u], d))
                 <=> (\E u \in Threads : All(call[u], d)) \/ d = e
    <3>1. ~All(call[t], d) /\ (All(c, d) <=> d = e) BY <1>2, <1>3, <1>7 DEF All
    <3> QED BY <1>6, <3>1
  <2>4. signaledBar' = signaledBar \cup {e} BY <1>1, <2>3 DEF signaledBar, All
  <2> QED BY <1>5, <1>7, <2>2, <2>4 DEF Promise!SignalManual
<1>8. CASE e \notin Manual
  <2>1. threadBar' = [threadBar EXCEPT ![t] = Promise!Signaling(e)]
    BY <1>3, <1>4, <1>8, AppearsAt
  <2>2. e \notin signaledBar BY <1>1, <1>2, NoAll
  <2>3. signaledBar' = signaledBar BY <1>1, <1>2, <1>3, <1>8, SignaledSame DEF All
  <2> QED BY <1>5, <1>8, <2>1, <2>2, <2>3 DEF Promise!SignalAuto
<1> QED BY <1>7, <1>8

\* What Reset, and a wait that takes a signal, do to the flag that callers see.
LEMMA FlagTaken ==
    ASSUME IInv, NEW e \in Events, NEW t \in Threads, NEW b \in BOOLEAN, lock_[e] = Nobody,
           call[t].at # "all", NEW c, At(t, c), c.at # "all",
           signaled_' = [signaled_ EXCEPT ![e] = b], signaled_[e] \/ ~b
    PROVE  signaledBar' = IF b THEN signaledBar ELSE signaledBar \ {e}
<1>1. call'[t] = c /\ \A u \in Threads \ {t} : call'[u] = call[u] BY CallStep DEF IInv
<1>2. \A d \in Events : signaled_'[d] = IF d = e THEN b ELSE signaled_[d] BY TypeFacts
<1>3. \A u \in Threads : ~All(call[u], e) BY NoAll
<1>4. \A d \in Events : (\E u \in Threads : All(call'[u], d))
                          <=> (\E u \in Threads : All(call[u], d))
  BY <1>1 DEF All
<1>5. /\ signaledBar = {d \in Events : signaled_[d] \/ \E u \in Threads : All(call[u], d)}
      /\ signaledBar' = {d \in Events : signaled_'[d] \/ \E u \in Threads : All(call'[u], d)}
  BY DEF signaledBar, All
<1>6. CASE b
  <2>1. \A d \in Events : signaled_'[d] <=> signaled_[d] BY <1>2, <1>6
  <2> QED BY <1>4, <1>5, <1>6, <2>1
<1>7. CASE ~b
  <2>1. \A d \in Events : signaled_'[d] <=> signaled_[d] /\ d # e BY <1>2, <1>7
  <2> QED BY <1>3, <1>4, <1>5, <1>7, <2>1
<1> QED BY <1>6, <1>7

\* Reset is that of the promise; IsSignaled is one on an automatic event.
LEMMA ResetMaps ==
    ASSUME IInv, NEW t \in Threads, NEW e \in Events, Reset(t, e) \/ IsSignaled(t, e)
    PROVE  Promise!Reset(e) \/ UNCHANGED Promise!avars
<1>1. /\ call[t] = Idle /\ lock_[e] = Nobody
      /\ UNCHANGED <<lock_, waiters_, fired_, signaling_event_, call>>
  BY DEF Reset, IsSignaled
<1>2. call[t].at = "idle" /\ Idle.at = "idle" BY <1>1 DEF Idle
<1>3. At(t, Idle) BY <1>1 DEF At, IInv, Types, TypeOK
<1>4. threadBar' = threadBar BY <1>1 DEF threadBar
<1>5. PICK b \in BOOLEAN : signaled_' = [signaled_ EXCEPT ![e] = b] /\ (signaled_[e] \/ ~b)
  <2>1. CASE Reset(t, e) BY <2>1 DEF Reset
  <2>2. CASE IsSignaled(t, e)
    <3>1. signaled_' = [signaled_ EXCEPT ![e] = (e \in Manual)] /\ signaled_[e]
      BY <2>2 DEF IsSignaled, Consume
    <3>2. (e \in Manual) \in BOOLEAN OBVIOUS
    <3> QED BY <3>1, <3>2
  <2> QED BY <2>1, <2>2
<1>6. signaledBar' = IF b THEN signaledBar ELSE signaledBar \ {e}
  BY <1>1, <1>2, <1>3, <1>5, FlagTaken
<1> QED BY <1>4, <1>6 DEF Promise!Reset, Promise!avars

\* A wait that finds a signal takes it and need not block.
LEMMA PassMaps ==
    ASSUME IInv, NEW t \in Threads, NEW c, At(t, c), NEW e \in Events, lock_[e] = Nobody,
           signaled_[e], Consume(e), call[t].at \in {"idle", "lock"},
           c.at \in {"return", "unwind"}, c.event = e, UNCHANGED <<fired_, signaling_event_>>
    PROVE  Promise!Pass(t, e)
<1>1. /\ threadBar' = [threadBar EXCEPT ![t] = Appears(c, fired_'[t], signaling_event_'[t])]
      /\ threadBar[t] = Appears(call[t], fired_[t], signaling_event_[t])
  BY OneThread
<1>2. threadBar[t] = Promise!Idle BY <1>1, AppearsAt
<1>3. None # e BY EventAssumption DEF EventAssumption, None
<1>4. Outcome(e) = Promise!Released(e) BY <1>3 DEF Outcome, Promise!Released
<1>5. threadBar' = [threadBar EXCEPT ![t] = Promise!Released(e)] BY <1>1, <1>4, AppearsAt
<1>6. e \in signaledBar BY NoAll
<1> DEFINE b == e \in Manual
<1>7. b \in BOOLEAN /\ signaled_' = [signaled_ EXCEPT ![e] = b] BY DEF Consume
<1>8. b <=> e \in Manual OBVIOUS
<1> HIDE DEF b
<1>9. signaledBar' = IF b THEN signaledBar ELSE signaledBar \ {e} BY <1>7, FlagTaken
<1>10. Promise!Take(e) BY <1>8, <1>9 DEF Promise!Take
<1> QED BY <1>2, <1>5, <1>6, <1>10 DEF Promise!Pass

\* A wait that finds no signal blocks.
LEMMA BlockMaps ==
    ASSUME IInv, NEW t \in Threads, NEW c, At(t, c), c.at \in {"check", "unlock"},
           call[t].at \in {"idle", "lock"}, ToSet(c.raw) \subseteq Events,
           \A e \in ToSet(c.raw) : lock_[e] \in {Nobody, t} /\ ~signaled_[e],
           NewWaiter(t), UNCHANGED signaled_
    PROVE  Promise!Block(t, ToSet(c.raw), c.finite)
<1>1. /\ fired_'[t] = FALSE
      /\ \A u \in Threads \ {t} : /\ fired_'[u] = fired_[u]
                                  /\ signaling_event_'[u] = signaling_event_[u]
  BY TypeFacts DEF NewWaiter
<1>2. /\ threadBar' = [threadBar EXCEPT ![t] = Appears(c, fired_'[t], signaling_event_'[t])]
      /\ threadBar[t] = Appears(call[t], fired_[t], signaling_event_[t])
  BY <1>1, OneThread
<1>3. threadBar[t] = Promise!Idle BY <1>2, AppearsAt
<1>4. threadBar' = [threadBar EXCEPT ![t] = Promise!Waiting(ToSet(c.raw), c.finite)]
  BY <1>1, <1>2, AppearsAt
<1>5. ToSet(c.raw) \cap signaledBar = {} BY NoAll
<1>6. signaledBar' = signaledBar BY SignaledSame DEF All
<1> QED BY <1>3, <1>4, <1>5, <1>6 DEF Promise!Block

\* The loops of the waits: the condition variable, the time limit, the lists.
LEMMA CheckMaps ==
    ASSUME IInv, NEW t \in Threads, CheckTimedWait(t)
    PROVE  Promise!TimeOut(t) \/ UNCHANGED Promise!avars
<1> DEFINE raw == call[t].raw
<1>1. /\ call[t].at = "check" /\ ~call[t].many
      /\ UNCHANGED <<signaled_, lock_, waiters_, signaling_event_>>
  BY DEF CheckTimedWait
<1>2. /\ raw \in Arrays /\ Len(raw) = 1 /\ call[t].finite \in BOOLEAN
      /\ call[t] = [at |-> "check", raw |-> raw, many |-> call[t].many,
                    finite |-> call[t].finite]
  <2>1. CallOK(call[t]) BY TypeFacts
  <2> QED BY <1>1, <2>1, CallShape DEF CallOK
<1>3. CASE ~fired_[t] /\ At(t, [call[t] EXCEPT !.at = "wait"]) /\ UNCHANGED fired_
  <2> DEFINE c == [call[t] EXCEPT !.at = "wait"]
  <2>1. c.at = "wait" /\ c.raw = raw /\ c.finite = call[t].finite BY <1>2
  <2> HIDE DEF c
  <2>2. Appears(c, fired_[t], signaling_event_[t])
          = Appears(call[t], fired_[t], signaling_event_[t])
    BY <1>1, <2>1, AppearsAt
  <2>3. At(t, c) BY <1>3 DEF c
  <2> QED BY <1>1, <1>3, <2>1, <2>2, <2>3, Unnoticed DEF All
<1>4. CASE /\ fired_[t] \/ call[t].finite
           /\ Disable(t)
           /\ At(t, [at |-> "dequeue", event |-> raw[1], fired |-> fired_[t]])
  <2> DEFINE c == [at |-> "dequeue", event |-> raw[1], fired |-> fired_[t]]
  <2>1. At(t, c) /\ c.at = "dequeue" /\ c.event = raw[1] /\ c.fired = fired_[t] BY <1>4
  <2> HIDE DEF c
  <2>2. \A u \in Threads \ {t} : /\ fired_'[u] = fired_[u]
                                 /\ signaling_event_'[u] = signaling_event_[u]
    BY <1>1, <1>4, TypeFacts DEF Disable
  <2>3. Appears(c, fired_'[t], signaling_event_'[t])
          = Outcome(IF fired_[t] THEN raw[1] ELSE None)
    BY <2>1, AppearsAt
  <2>4. CASE fired_[t]
    <3>1. signaling_event_[t] = raw[1]
      <4>1. signaling_event_[t] \in ToSet(raw) BY <1>1, <2>4 DEF IInv, FiredOK, FiredAt
      <4> QED BY <1>2, <4>1, ArrayFacts
    <3>2. Appears(call[t], fired_[t], signaling_event_[t]) = Outcome(raw[1])
      BY <1>1, <2>4, <3>1, AppearsAt
    <3> QED BY <1>1, <2>1, <2>2, <2>3, <2>4, <3>2, Unnoticed DEF All
  <2>5. CASE ~fired_[t]
    <3>1. call[t].finite BY <1>4, <2>5
    <3>2. /\ threadBar' = [threadBar EXCEPT ![t] = Appears(c, fired_'[t], signaling_event_'[t])]
          /\ threadBar[t] = Appears(call[t], fired_[t], signaling_event_[t])
      BY <2>1, <2>2, OneThread
    <3>3. threadBar[t] = Promise!Waiting(ToSet(raw), call[t].finite)
      BY <1>1, <2>5, <3>2, AppearsAt
    <3>4. threadBar[t].st = "waiting" /\ threadBar[t].finite
      BY <3>1, <3>3 DEF Promise!Waiting
    <3>5. Outcome(None) = Promise!TimedOut BY DEF Outcome, Promise!TimedOut
    <3>6. threadBar' = [threadBar EXCEPT ![t] = Promise!TimedOut]
      BY <2>3, <2>5, <3>2, <3>5
    <3>7. signaledBar' = signaledBar BY <1>1, <2>1, SignaledSame DEF All
    <3> QED BY <3>4, <3>6, <3>7 DEF Promise!TimeOut
  <2> QED BY <2>4, <2>5
<1> QED BY <1>3, <1>4 DEF CheckTimedWait

\* Steps that only change the place of a thread in its method.
LEMMA PlaceMaps ==
    ASSUME IInv, NEW t \in Threads, NEW c, At(t, c),
           Appears(c, fired_[t], signaling_event_[t])
             = Appears(call[t], fired_[t], signaling_event_[t]),
           c.at # "all", call[t].at # "all",
           UNCHANGED <<signaled_, fired_, signaling_event_>>
    PROVE  UNCHANGED Promise!avars
BY Unnoticed DEF All

\* The caller of WaitMany sees nothing before it has looked at the events.
LEMMA WaitManyMaps ==
    ASSUME IInv, NEW t \in Threads, NEW raw, WaitMany(t, raw)
    PROVE  UNCHANGED Promise!avars
<1> DEFINE c == [at |-> "lock", raw |-> raw, k |-> 1]
<1>1. c.at = "lock" /\ call[t].at = "idle" BY DEF WaitMany, Idle
<1>2. At(t, c) BY DEF WaitMany
<1> HIDE DEF c
<1> QED BY <1>1, <1>2, AppearsAt, PlaceMaps DEF WaitMany

LEMMA WakeMaps ==
    ASSUME IInv, NEW t \in Threads, NEW at \in {"check", "wait"},
           call[t].at \in {"check", "wait"}, At(t, [call[t] EXCEPT !.at = at]),
           UNCHANGED <<signaled_, lock_, waiters_, fired_, signaling_event_>>
    PROVE  UNCHANGED Promise!avars
<1> DEFINE c == [call[t] EXCEPT !.at = at]
<1>1. call[t] = [at |-> call[t].at, raw |-> call[t].raw, many |-> call[t].many,
                 finite |-> call[t].finite]
  BY TypeFacts, CallShape
<1>2. c.at = at /\ c.raw = call[t].raw /\ c.finite = call[t].finite BY <1>1
<1>3. At(t, c) OBVIOUS
<1> HIDE DEF c
<1>4. Appears(c, fired_[t], signaling_event_[t])
        = Appears(call[t], fired_[t], signaling_event_[t])
  BY <1>2, AppearsAt
<1> QED BY <1>2, <1>3, <1>4, PlaceMaps

LEMMA DequeueMaps ==
    ASSUME IInv, NEW t \in Threads, DequeueAfterWait(t)
    PROVE  UNCHANGED Promise!avars
<1> DEFINE e == IF call[t].fired THEN call[t].event ELSE None
           c == [at |-> "return", event |-> e]
<1>1. c.at = "return" /\ c.event = e OBVIOUS
<1>2. At(t, c) /\ call[t].at = "dequeue" BY DEF DequeueAfterWait, Done
<1> HIDE DEF c
<1>3. Appears(c, fired_[t], signaling_event_[t])
        = Appears(call[t], fired_[t], signaling_event_[t])
  BY <1>1, <1>2, AppearsAt
<1> QED BY <1>1, <1>2, <1>3, PlaceMaps DEF DequeueAfterWait

\* The caller does not see the locks being released.
LEMMA UnlockMaps ==
    ASSUME IInv, NEW t \in Threads, Unlock(t)
    PROVE  UNCHANGED Promise!avars
<1>1. /\ call[t].at \in {"unwind", "unlock"} /\ CallOK(call[t])
      /\ UNCHANGED <<signaled_, fired_, signaling_event_>>
  BY TypeFacts DEF Unlock
<1>2. call[t].at = "unlock" => call[t].finite \in BOOLEAN /\ ~call[t].finite
  BY <1>1, CallShape
<1>3. ASSUME NEW c, At(t, c),
             \/ /\ call[t].at = "unwind" /\ c.at \in {"unwind", "return"}
                /\ c.event = call[t].event
             \/ /\ call[t].at = "unlock" /\ c.at \in {"unlock", "check"}
                /\ c.raw = call[t].raw /\ c.finite = call[t].finite
      PROVE  UNCHANGED Promise!avars
  <2>1. Appears(c, fired_[t], signaling_event_[t])
          = Appears(call[t], fired_[t], signaling_event_[t])
    BY <1>3, AppearsAt
  <2> QED BY <1>1, <1>3, <2>1, PlaceMaps
<1>4. CASE At(t, [call[t] EXCEPT !.k = call[t].k - 1])
  <2> DEFINE c == [call[t] EXCEPT !.k = call[t].k - 1]
  <2>1. CASE call[t].at = "unwind"
    <3>1. call[t] = [at |-> "unwind", raw |-> call[t].raw, k |-> call[t].k,
                     event |-> call[t].event]
      BY <1>1, <2>1, CallShape
    <3>2. c.at = "unwind" /\ c.event = call[t].event BY <3>1
    <3> QED BY <1>3, <1>4, <2>1, <3>2
  <2>2. CASE call[t].at = "unlock"
    <3>1. call[t] = [at |-> "unlock", raw |-> call[t].raw, k |-> call[t].k,
                     finite |-> call[t].finite]
      BY <1>1, <2>2, CallShape
    <3>2. c.at = "unlock" /\ c.raw = call[t].raw /\ c.finite = call[t].finite BY <3>1
    <3> QED BY <1>3, <1>4, <2>2, <3>2
  <2> QED BY <1>1, <2>1, <2>2
<1>5. CASE call[t].at = "unwind" /\ Done(t, call[t].event)
  <2> DEFINE c == [at |-> "return", event |-> call[t].event]
  <2>1. At(t, c) /\ c.at = "return" /\ c.event = call[t].event BY <1>5 DEF Done
  <2> QED BY <1>3, <1>5, <2>1
<1>6. CASE /\ call[t].at = "unlock"
           /\ At(t, [at |-> "check", raw |-> call[t].raw, many |-> TRUE, finite |-> FALSE])
  <2> DEFINE c == [at |-> "check", raw |-> call[t].raw, many |-> TRUE, finite |-> FALSE]
  <2>1. At(t, c) /\ c.at = "check" /\ c.raw = call[t].raw /\ c.finite = FALSE BY <1>6
  <2>2. call[t].finite = FALSE BY <1>2, <1>6
  <2> HIDE DEF c
  <2> QED BY <1>3, <1>6, <2>1, <2>2
<1> QED BY <1>4, <1>5, <1>6 DEF Unlock

LEMMA CheckManyMaps ==
    ASSUME IInv, NEW t \in Threads, CheckWaitMany(t)
    PROVE  UNCHANGED Promise!avars
<1>1. CASE ~fired_[t]
  BY <1>1, WakeMaps DEF CheckWaitMany
<1>2. CASE fired_[t]
  <2> DEFINE c == [at |-> "leave", raw |-> call[t].raw, k |-> 1]
  <2>1. At(t, c) /\ c.at = "leave" /\ call[t].at = "check" BY <1>2 DEF CheckWaitMany
  <2> HIDE DEF c
  <2>2. Appears(c, fired_[t], signaling_event_[t])
          = Appears(call[t], fired_[t], signaling_event_[t])
    BY <1>2, <2>1, AppearsAt
  <2> QED BY <2>1, <2>2, PlaceMaps DEF CheckWaitMany
<1> QED BY <1>1, <1>2

\* The caller does not see the lists being left.
LEMMA LeaveManyMaps ==
    ASSUME IInv, NEW t \in Threads, LeaveMany(t)
    PROVE  UNCHANGED Promise!avars
<1>1. /\ call[t].at = "leave" /\ CallOK(call[t])
      /\ UNCHANGED <<signaled_, fired_, signaling_event_>>
  BY TypeFacts DEF LeaveMany
<1>2. CASE At(t, [call[t] EXCEPT !.k = call[t].k + 1])
  <2> DEFINE c == [call[t] EXCEPT !.k = call[t].k + 1]
  <2>1. call[t] = [at |-> "leave", raw |-> call[t].raw, k |-> call[t].k]
    BY <1>1, CallShape
  <2>2. At(t, c) /\ c.at = "leave" BY <1>2, <2>1
  <2> HIDE DEF c
  <2> QED BY <1>1, <2>2, AppearsAt, PlaceMaps
<1>3. CASE Done(t, signaling_event_[t])
  <2> DEFINE c == [at |-> "return", event |-> signaling_event_[t]]
  <2>1. At(t, c) /\ c.at = "return" /\ c.event = signaling_event_[t] BY <1>3 DEF Done
  <2> HIDE DEF c
  <2> QED BY <1>1, <2>1, AppearsAt, PlaceMaps
<1> QED BY <1>2, <1>3 DEF LeaveMany

\* The result that the promise gave is the one that is returned.
LEMMA ReturnMaps ==
    ASSUME IInv, NEW t \in Threads, Return(t)
    PROVE  Promise!Return(t)
<1>1. call[t].at = "return" /\ At(t, Idle) /\ UNCHANGED signaled_ BY DEF Return
<1>2. \A u \in Threads \ {t} : /\ fired_'[u] = fired_[u]
                               /\ signaling_event_'[u] = signaling_event_[u]
  BY TypeFacts DEF Return, NewWaiter
<1>3. /\ threadBar' = [threadBar EXCEPT ![t] = Appears(Idle, fired_'[t], signaling_event_'[t])]
      /\ threadBar[t] = Appears(call[t], fired_[t], signaling_event_[t])
  BY <1>1, <1>2, OneThread
<1>4. Idle.at = "idle" BY DEF Idle
<1>5. threadBar' = [threadBar EXCEPT ![t] = Promise!Idle]
  <2>1. Appears(Idle, fired_'[t], signaling_event_'[t]) = Promise!Idle BY <1>4, AppearsAt
  <2> QED BY <1>3, <2>1
<1>6. threadBar[t] = Outcome(call[t].event) BY <1>1, <1>3, AppearsAt
<1>7. threadBar[t].st \in {"released", "timed out"} BY <1>6, OutcomeSt
<1>8. signaledBar' = signaledBar BY <1>1, <1>4, SignaledSame DEF All
<1> QED BY <1>5, <1>7, <1>8 DEF Promise!Return

\* A signaler of e fires w: a wait that has not been fired is released, and nothing
\* happens to one that is over.
LEMMA FireMaps ==
    ASSUME IInv, NEW t \in Threads, NEW c, At(t, c), NEW e \in Events, NEW w,
           call[t].at \in {"all", "one"}, w \in Live(e), Fire(w, e)
    PROVE  /\ w \in Threads /\ w # t
           /\ fired_[w] => threadBar' =
                [threadBar EXCEPT ![t] = Appears(c, fired_[t], signaling_event_[t])]
           /\ ~fired_[w] => threadBar' =
                [threadBar EXCEPT ![w] = Promise!Released(e),
                                  ![t] = Appears(c, fired_[t], signaling_event_[t])]
           /\ ~fired_[w] => threadBar[w].st = "waiting" /\ e \in threadBar[w].events
<1>1. call'[t] = c /\ \A u \in Threads \ {t} : call'[u] = call[u] BY CallStep DEF IInv
<1>2. w \in Threads BY DEF Live, LiveOf
<1>3. InWait(w, e) /\ call[w].at \in {"wait", "dequeue", "leave"}
  BY <1>2, LiveInWait DEF InWait, Fire, HoldsWaiter
<1>4. w # t BY <1>3
<1>5. /\ fired_'[w] = TRUE
      /\ signaling_event_'[w] = (IF fired_[w] THEN signaling_event_[w] ELSE e)
      /\ \A u \in Threads \ {w} : /\ fired_'[u] = fired_[u]
                                  /\ signaling_event_'[u] = signaling_event_[u]
  BY <1>2, TypeFacts DEF Fire
<1> DEFINE old(u) == Appears(call[u], fired_[u], signaling_event_[u])
           new(u) == Appears(call'[u], fired_'[u], signaling_event_'[u])
<1>6. threadBar' = [u \in Threads |-> new(u)] /\ threadBar = [u \in Threads |-> old(u)]
  BY DEF threadBar
<1>7. /\ \A u \in Threads \ {t, w} : new(u) = old(u)
      /\ new(t) = Appears(c, fired_[t], signaling_event_[t])
  BY <1>1, <1>4, <1>5
<1>8. fired_[w] => new(w) = old(w)
  <2> SUFFICES ASSUME fired_[w] PROVE new(w) = old(w) OBVIOUS
  <2>1. call'[w] = call[w] /\ signaling_event_'[w] = signaling_event_[w]
    BY <1>1, <1>2, <1>4, <1>5
  <2>2. CASE call[w].at = "wait" BY <1>5, <2>1, <2>2, AppearsAt
  <2>3. CASE call[w].at = "dequeue" BY <1>5, <2>1, <2>3, AppearsAt
  <2>4. CASE call[w].at = "leave" BY <1>5, <2>1, <2>4, AppearsAt
  <2> QED BY <1>3, <2>2, <2>3, <2>4
<1>9. ASSUME ~fired_[w]
      PROVE  /\ new(w) = Promise!Released(e)
             /\ threadBar[w].st = "waiting" /\ e \in threadBar[w].events
  <2>1. call[w].at = "wait" BY <1>2, <1>3, <1>9 DEF IInv, FiredOK, FiredAt
  <2>2. e \in ToSet(call[w].raw) BY <1>3, <2>1 DEF InWait
  <2>3. threadBar[w] = Promise!Waiting(ToSet(call[w].raw), call[w].finite)
    <3>1. threadBar[w] = old(w) BY <1>2, <1>6
    <3>2. old(w) = Promise!Waiting(ToSet(call[w].raw), call[w].finite)
      BY <1>9, <2>1, AppearsAt
    <3> QED BY <3>1, <3>2
  <2>4. new(w) = Outcome(e)
    <3>1. call'[w] = call[w] /\ signaling_event_'[w] = e BY <1>1, <1>2, <1>4, <1>5, <1>9
    <3> QED BY <1>5, <2>1, <3>1, AppearsAt
  <2>5. None # e BY EventAssumption DEF EventAssumption, None
  <2>6. Outcome(e) = Promise!Released(e) BY <2>5 DEF Outcome, Promise!Released
  <2>7. threadBar[w].st = "waiting" /\ e \in threadBar[w].events
    BY <2>2, <2>3 DEF Promise!Waiting
  <2> QED BY <2>4, <2>6, <2>7
<1> HIDE DEF old, new
<1> QED BY <1>2, <1>4, <1>6, <1>7, <1>8, <1>9

\* The waiter that a signaler of e is about to fire is a live one.
LEMMA NextIsLive ==
    ASSUME IInv, NEW t \in Threads, NEW e \in Events, call[t].event = e
    PROVE  /\ call[t].at = "all" /\ call[t].i <= Len(waiters_[e])
                => waiters_[e][call[t].i] \in Live(e)
           /\ call[t].at = "one" /\ waiters_[e] # <<>> => Head(waiters_[e]) \in Live(e)
           /\ call[t].at = "one" /\ waiters_[e] = <<>> => Live(e) = {}
<1>1. CASE call[t].at = "all" /\ call[t].i <= Len(waiters_[e])
  <2>1. waiters_[e] \in Seq(Threads) /\ Live(e) = Elems(waiters_[e], call[t].i)
    BY <1>1, SignalerFacts
  <2>2. call[t].i \in Nat \ {0}
    <3>1. CallOK(call[t]) BY TypeFacts
    <3> QED BY <1>1, <3>1, CallShape
  <2>3. Len(waiters_[e]) \in Nat BY <2>1
  <2>4. call[t].i \in From(waiters_[e], call[t].i) BY <1>1, <2>2, <2>3 DEF From
  <2> QED BY <1>1, <2>1, <2>4 DEF Elems
<1>2. CASE call[t].at = "one"
  <2>1. waiters_[e] \in Seq(Threads) /\ Live(e) = Elems(waiters_[e], 0)
    BY <1>2, SignalerFacts
  <2>2. CASE waiters_[e] # <<>>
    <3>1. 1 \in 1..Len(waiters_[e]) /\ Head(waiters_[e]) = waiters_[e][1] BY <2>1, <2>2
    <3>2. 1 \in From(waiters_[e], 0) BY <3>1 DEF From
    <3> QED BY <1>2, <2>1, <2>2, <3>1, <3>2 DEF Elems
  <2>3. CASE waiters_[e] = <<>>
    <3>1. Live(e) = {} BY <2>1, <2>3 DEF Elems, From
    <3> QED BY <1>2, <2>3, <3>1
  <2> QED BY <2>2, <2>3
<1> QED BY <1>1, <1>2

\* SignalAll releases waits one by one, while the flag looks set already.
LEMMA SignalAllMaps ==
    ASSUME IInv, NEW t \in Threads, SignalAll(t)
    PROVE  (\E w \in Threads, e \in Events : Promise!Release(w, e)) \/ UNCHANGED Promise!avars
<1> DEFINE i == call[t].i
<1>1. PICK e \in Events : e = call[t].event /\ e \in Manual /\ call[t].at = "all"
  <2>1. CallOK(call[t]) /\ call[t].at = "all" BY TypeFacts DEF SignalAll
  <2> QED BY <2>1, CallShape DEF CallOK
<1>2. call[t] = [at |-> "all", event |-> e, i |-> i] BY <1>1, TypeFacts, CallShape
<1>3. All(call[t], e) /\ \A d \in Events : All(call[t], d) => d = e BY <1>1 DEF All
<1>4. e \in signaledBar BY <1>3 DEF signaledBar, All
<1>5. /\ threadBar[t] = Promise!Idle
      /\ threadBar \in [Threads -> {threadBar[u] : u \in Threads}]
  <2>1. threadBar[t] = Appears(call[t], fired_[t], signaling_event_[t]) BY DEF threadBar
  <2> QED BY <1>1, <2>1, AppearsAt DEF threadBar
<1>6. CASE /\ i <= Len(waiters_[e]) /\ Fire(waiters_[e][i], e)
           /\ At(t, [call[t] EXCEPT !.i = i + 1]) /\ UNCHANGED <<signaled_, lock_, waiters_>>
  <2> DEFINE c == [call[t] EXCEPT !.i = i + 1]
             w == waiters_[e][i]
  <2>1. At(t, c) /\ c.at = "all" /\ c.event = e BY <1>2, <1>6
  <2> HIDE DEF c
  <2>2. w \in Live(e) BY <1>1, <1>6, NextIsLive
  <2> HIDE DEF w
  <2>3. Fire(w, e) BY <1>6 DEF w
  <2>4. Appears(c, fired_[t], signaling_event_[t]) = Promise!Idle BY <2>1, AppearsAt
  <2>5. signaledBar' = signaledBar BY <1>1, <1>6, <2>1, SignaledSame DEF All
  <2>6. CASE fired_[w]
    <3>1. threadBar' = [threadBar EXCEPT ![t] = Promise!Idle]
      BY <1>1, <2>1, <2>2, <2>3, <2>4, <2>6, FireMaps
    <3>2. threadBar' = threadBar BY <1>5, <3>1
    <3> QED BY <2>5, <3>2 DEF Promise!avars
  <2>7. CASE ~fired_[w]
    <3>1. /\ w \in Threads /\ w # t
          /\ threadBar' = [threadBar EXCEPT ![w] = Promise!Released(e), ![t] = Promise!Idle]
          /\ threadBar[w].st = "waiting" /\ e \in threadBar[w].events
      BY <1>1, <2>1, <2>2, <2>3, <2>4, <2>7, FireMaps
    <3>2. threadBar' = [threadBar EXCEPT ![w] = Promise!Released(e)] BY <1>5, <3>1
    <3>3. Promise!Release(w, e) BY <1>1, <1>4, <2>5, <3>1, <3>2 DEF Promise!Release
    <3> QED BY <3>1, <3>3
  <2> QED BY <2>6, <2>7
<1>7. CASE /\ signaled_' = [signaled_ EXCEPT ![e] = TRUE] /\ At(t, Idle)
           /\ UNCHANGED <<fired_, signaling_event_>>
  <2>1. Idle.at = "idle" BY DEF Idle
  <2>2. call'[t] = Idle /\ \A u \in Threads \ {t} : call'[u] = call[u]
    BY <1>7, CallStep DEF IInv
  <2>3. threadBar' = threadBar
    <3>1. threadBar' = [threadBar EXCEPT ![t] = Appears(Idle, fired_'[t], signaling_event_'[t])]
      BY <1>7, OneThread
    <3>2. Appears(Idle, fired_'[t], signaling_event_'[t]) = Promise!Idle
      BY <2>1, AppearsAt
    <3> QED BY <1>5, <3>1, <3>2
  <2>4. signaledBar' = signaledBar
    <3>1. /\ signaledBar = {d \in Events : signaled_[d] \/ \E u \in Threads : All(call[u], d)}
          /\ signaledBar' = {d \in Events : signaled_'[d] \/ \E u \in Threads : All(call'[u], d)}
      BY DEF signaledBar, All
    <3>2. signaled_'[e] /\ \A d \in Events : d # e => signaled_'[d] = signaled_[d]
      BY <1>7, TypeFacts
    <3>3. ~\E d \in Events : All(call'[t], d) BY <2>1, <2>2 DEF All
    <3>4. \A d \in Events : d # e => ((\E u \in Threads : All(call'[u], d))
                                       <=> (\E u \in Threads : All(call[u], d)))
      BY <1>3, <2>2, <3>3
    <3> QED BY <1>3, <3>1, <3>2, <3>4
  <2> QED BY <2>3, <2>4 DEF Promise!avars
<1> QED BY <1>1, <1>6, <1>7 DEF SignalAll

\* SignalOne gives the signal to a wait, passes over one that is finished, or keeps it
\* because no wait wants it.
LEMMA SignalOneMaps ==
    ASSUME IInv, NEW t \in Threads, SignalOne(t)
    PROVE  \/ \E w \in Threads : Promise!Give(t, w)
           \/ Promise!Keep(t) \/ UNCHANGED Promise!avars
<1>1. PICK e \in Events : e = call[t].event /\ call[t].at = "one"
  <2>1. CallOK(call[t]) /\ call[t].at = "one" BY TypeFacts DEF SignalOne
  <2> QED BY <2>1, CallShape
<1>2. /\ threadBar[t] = Promise!Signaling(e)
      /\ threadBar \in [Threads -> {threadBar[u] : u \in Threads}]
  <2>1. threadBar[t] = Appears(call[t], fired_[t], signaling_event_[t]) BY DEF threadBar
  <2> QED BY <1>1, <2>1, AppearsAt DEF threadBar
<1>3. threadBar[t].st = "signaling" /\ threadBar[t].event = e BY <1>2 DEF Promise!Signaling
<1>4. ASSUME NEW w, w = Head(waiters_[e]), waiters_[e] # <<>>, Fire(w, e),
             At(t, [at |-> "pop", event |-> e, woken |-> ~fired_[w]]),
             UNCHANGED <<signaled_, lock_, waiters_>>
      PROVE  (\E u \in Threads : Promise!Give(t, u)) \/ UNCHANGED Promise!avars
  <2> DEFINE c == [at |-> "pop", event |-> e, woken |-> ~fired_[w]]
  <2>1. At(t, c) /\ c.at = "pop" /\ c.event = e /\ c.woken = ~fired_[w] BY <1>4
  <2> HIDE DEF c
  <2>2. w \in Live(e) BY <1>1, <1>4, NextIsLive
  <2>3. signaledBar' = signaledBar BY <1>1, <1>4, <2>1, SignaledSame DEF All
  <2>4. CASE fired_[w]
    <3>1. ~c.woken BY <2>1, <2>4
    <3>2. Appears(c, fired_[t], signaling_event_[t]) = Promise!Signaling(e)
      BY <2>1, <3>1, AppearsAt
    <3>3. threadBar' = [threadBar EXCEPT ![t] = Promise!Signaling(e)]
      BY <1>1, <1>4, <2>1, <2>2, <2>4, <3>2, FireMaps
    <3>4. threadBar' = threadBar BY <1>2, <3>3
    <3> QED BY <2>3, <3>4 DEF Promise!avars
  <2>5. CASE ~fired_[w]
    <3>1. c.woken BY <2>1, <2>5
    <3>2. Appears(c, fired_[t], signaling_event_[t]) = Promise!Idle
      BY <2>1, <3>1, AppearsAt
    <3>3. /\ w \in Threads /\ w # t
          /\ threadBar' = [threadBar EXCEPT ![w] = Promise!Released(e), ![t] = Promise!Idle]
          /\ threadBar[w].st = "waiting" /\ e \in threadBar[w].events
      BY <1>1, <1>4, <2>1, <2>2, <2>5, <3>2, FireMaps
    <3>4. Promise!Give(t, w) BY <1>3, <2>3, <3>3 DEF Promise!Give
    <3> QED BY <3>3, <3>4
  <2> QED BY <2>4, <2>5
<1>5. CASE /\ waiters_[e] = <<>> /\ signaled_' = [signaled_ EXCEPT ![e] = TRUE]
           /\ At(t, Idle) /\ UNCHANGED <<waiters_, fired_, signaling_event_>>
  <2>1. Idle.at = "idle" BY DEF Idle
  <2>2. call'[t] = Idle /\ \A u \in Threads \ {t} : call'[u] = call[u]
    BY <1>5, CallStep DEF IInv
  <2>3. threadBar' = [threadBar EXCEPT ![t] = Promise!Idle]
    <3>1. threadBar' = [threadBar EXCEPT ![t] = Appears(Idle, fired_'[t], signaling_event_'[t])]
      BY <1>5, OneThread
    <3>2. Appears(Idle, fired_'[t], signaling_event_'[t]) = Promise!Idle
      BY <2>1, AppearsAt
    <3> QED BY <3>1, <3>2
  <2>4. signaledBar' = signaledBar \cup {e}
    <3>1. /\ signaledBar = {d \in Events : signaled_[d] \/ \E u \in Threads : All(call[u], d)}
          /\ signaledBar' = {d \in Events : signaled_'[d] \/ \E u \in Threads : All(call'[u], d)}
      BY DEF signaledBar, All
    <3>2. signaled_'[e] /\ \A d \in Events : d # e => signaled_'[d] = signaled_[d]
      BY <1>5, TypeFacts
    <3>3. \A d \in Events : ~All(call'[t], d) /\ ~All(call[t], d) BY <1>1, <2>1, <2>2 DEF All
    <3>4. \A d \in Events : (\E u \in Threads : All(call'[u], d))
                              <=> (\E u \in Threads : All(call[u], d))
      BY <2>2, <3>3
    <3> QED BY <3>1, <3>2, <3>4
  <2>5. ASSUME NEW w \in Threads, threadBar[w].st = "waiting" PROVE e \notin threadBar[w].events
    <3>1. threadBar[w] = Appears(call[w], fired_[w], signaling_event_[w]) BY DEF threadBar
    <3>2. call[w].at \in {"unlock", "check", "wait"} /\ ~fired_[w]
      BY <2>5, <3>1, TypeFacts, WaitingMeans
    <3>3. threadBar[w].events = ToSet(call[w].raw)
      <4>1. threadBar[w] = Promise!Waiting(ToSet(call[w].raw), call[w].finite)
        BY <3>1, <3>2, AppearsAt
      <4> QED BY <4>1 DEF Promise!Waiting
    <3>4. Live(e) = {} BY <1>1, <1>5, NextIsLive
    <3> QED BY <3>2, <3>3, <3>4 DEF IInv, Listed, Sleeps
  <2>6. Promise!Keep(t) BY <1>3, <2>3, <2>4, <2>5 DEF Promise!Keep
  <2> QED BY <2>6
<1> QED BY <1>1, <1>4, <1>5 DEF SignalOne

\* What is dropped was given or rejected before.
LEMMA SignalOnePopMaps ==
    ASSUME IInv, NEW t \in Threads, SignalOnePop(t)
    PROVE  UNCHANGED Promise!avars
<1>1. /\ call[t].at = "pop" /\ UNCHANGED <<signaled_, fired_, signaling_event_>>
  BY DEF SignalOnePop
<1>2. CASE call[t].woken
  <2>1. At(t, Idle) /\ Idle.at = "idle" BY <1>2 DEF SignalOnePop, Idle
  <2>2. Appears(Idle, fired_[t], signaling_event_[t])
          = Appears(call[t], fired_[t], signaling_event_[t])
    BY <1>1, <1>2, <2>1, AppearsAt
  <2> QED BY <1>1, <2>1, <2>2, PlaceMaps
<1>3. CASE ~call[t].woken
  <2> DEFINE c == [at |-> "one", event |-> call[t].event, i |-> 1]
  <2>1. At(t, c) /\ c.at = "one" /\ c.event = call[t].event BY <1>3 DEF SignalOnePop
  <2> HIDE DEF c
  <2>2. Appears(c, fired_[t], signaling_event_[t])
          = Appears(call[t], fired_[t], signaling_event_[t])
    BY <1>1, <1>3, <2>1, AppearsAt
  <2> QED BY <1>1, <2>1, <2>2, PlaceMaps
<1> QED BY <1>2, <1>3

\* TimedWait takes the signal or blocks.
LEMMA TimedWaitMaps ==
    ASSUME IInv, NEW t \in Threads, NEW e \in Events, NEW finite \in BOOLEAN,
           TimedWait(t, e, finite)
    PROVE  Promise!Pass(t, e) \/ Promise!Block(t, {e}, finite)
<1>1. call[t].at = "idle" /\ lock_[e] = Nobody BY DEF TimedWait, Idle
<1>2. CASE signaled_[e]
  <2> DEFINE c == [at |-> "return", event |-> e]
  <2>1. At(t, c) /\ c.at = "return" /\ c.event = e BY <1>2 DEF TimedWait, Done
  <2> HIDE DEF c
  <2> QED BY <1>1, <1>2, <2>1, PassMaps DEF TimedWait
<1>3. CASE ~signaled_[e]
  <2> DEFINE c == [at |-> "check", raw |-> <<e>>, many |-> FALSE, finite |-> finite]
  <2>1. At(t, c) /\ c.at = "check" /\ c.raw = <<e>> /\ c.finite = finite
    BY <1>3 DEF TimedWait
  <2> HIDE DEF c
  <2>2. ToSet(c.raw) = {e}
    <3>1. <<e>> \in Seq(Events) /\ Len(<<e>>) = 1 /\ <<e>>[1] = e OBVIOUS
    <3>2. \A x : x \in ToSet(<<e>>) <=> \E i \in 1..Len(<<e>>) : <<e>>[i] = x
      BY <3>1, ToSetElems
    <3> QED BY <2>1, <3>1, <3>2
  <2>3. NewWaiter(t) /\ UNCHANGED signaled_ BY <1>3 DEF TimedWait
  <2>4. \A d \in ToSet(c.raw) : lock_[d] \in {Nobody, t} /\ ~signaled_[d]
    BY <1>1, <1>3, <2>2
  <2>5. ToSet(c.raw) \subseteq Events BY <2>2
  <2>6. Promise!Block(t, ToSet(c.raw), c.finite)
    BY <1>1, <2>1, <2>3, <2>4, <2>5, BlockMaps
  <2> QED BY <2>1, <2>2, <2>6
<1> QED BY <1>2, <1>3

\* WaitMany takes the first signal it finds, or blocks for all its events at once,
\* under all their locks.
LEMMA EnqueueManyMaps ==
    ASSUME IInv, NEW t \in Threads, EnqueueMany(t)
    PROVE  \/ \E e \in Events : Promise!Pass(t, e)
           \/ \E S \in SUBSET Events, finite \in BOOLEAN : Promise!Block(t, S, finite)
           \/ UNCHANGED Promise!avars
<1> DEFINE raw == call[t].raw
           k == call[t].k
<1>1. /\ call[t].at = "lock" /\ raw \in Arrays /\ k \in 1..Len(raw) /\ Len(raw) \in Nat
      /\ call[t] = [at |-> "lock", raw |-> raw, k |-> k]
  <2>1. CallOK(call[t]) /\ call[t].at = "lock" BY TypeFacts DEF EnqueueMany
  <2>2. raw \in Arrays /\ k \in 1..Len(raw) BY <2>1 DEF CallOK, KInRange
  <2> QED BY <2>1, <2>2, CallShape, ArrayFacts
<1>2. PICK e \in Events : e = Sorted(raw)[k] BY <1>1, SortedFacts
<1>3. lock_[e] = Nobody BY <1>2 DEF EnqueueMany
<1>4. CASE /\ signaled_[e] /\ Consume(e)
           /\ At(t, [at |-> "unwind", raw |-> raw, k |-> k - 1, event |-> e])
           /\ UNCHANGED <<lock_, waiters_, fired_, signaling_event_>>
  <2> DEFINE c == [at |-> "unwind", raw |-> raw, k |-> k - 1, event |-> e]
  <2>1. At(t, c) /\ c.at = "unwind" /\ c.event = e BY <1>4
  <2> HIDE DEF c
  <2>2. Promise!Pass(t, e) BY <1>1, <1>3, <1>4, <2>1, PassMaps
  <2> QED BY <2>2
<1>5. CASE /\ At(t, [call[t] EXCEPT !.k = k + 1])
           /\ UNCHANGED <<signaled_, waiters_, fired_, signaling_event_>>
  <2> DEFINE c == [call[t] EXCEPT !.k = k + 1]
  <2>1. At(t, c) /\ c.at = "lock" BY <1>1, <1>5
  <2> HIDE DEF c
  <2>2. Appears(c, fired_[t], signaling_event_[t])
          = Appears(call[t], fired_[t], signaling_event_[t])
    BY <1>1, <2>1, AppearsAt
  <2> QED BY <1>1, <1>5, <2>1, <2>2, PlaceMaps
<1>6. CASE /\ ~signaled_[e] /\ k = Len(Sorted(raw)) /\ NewWaiter(t) /\ UNCHANGED signaled_
           /\ At(t, [at |-> "unlock", raw |-> raw, k |-> k, finite |-> FALSE])
  <2> DEFINE c == [at |-> "unlock", raw |-> raw, k |-> k, finite |-> FALSE]
  <2>1. At(t, c) /\ c.at = "unlock" /\ c.raw = raw /\ c.finite \in BOOLEAN BY <1>6
  <2> HIDE DEF c
  <2>2. ToSet(c.raw) \subseteq Events BY <1>1, <2>1, ArrayFacts
  <2>3. ASSUME NEW d \in ToSet(c.raw) PROVE lock_[d] \in {Nobody, t} /\ ~signaled_[d]
    <3>1. PICK j \in 1..Len(raw) : Sorted(raw)[j] = d BY <1>1, <2>1, SortedFacts
    <3>2. d \in Events /\ k = Len(raw) BY <1>1, <1>6, <2>2, SortedFacts
    <3>3. CASE j = k BY <1>2, <1>3, <1>6, <3>1, <3>3
    <3>4. CASE j # k
      <4>1. j \in 1..(k - 1) BY <1>1, <3>2, <3>4
      <4>2. Holds(call[t], d) BY <1>1, <3>1, <4>1 DEF Holds
      <4>3. lock_[d] = t /\ t # Nobody
        BY <3>2, <4>2, OneHolder, EventAssumption DEF EventAssumption
      <4> QED BY <3>2, <4>3 DEF IInv, LockedQuiet
    <3> QED BY <3>3, <3>4
  <2>4. Promise!Block(t, ToSet(c.raw), c.finite) BY <1>1, <1>6, <2>1, <2>2, <2>3, BlockMaps
  <2> QED BY <2>1, <2>2, <2>4
<1> QED BY <1>2, <1>4, <1>5, <1>6 DEF EnqueueMany

\* The events before any method is called are those of the promise.
LEMMA InitMaps == Init => Promise!AInit
<1> SUFFICES ASSUME Init PROVE Promise!AInit OBVIOUS
<1>1. signaledBar \in SUBSET Events BY DEF signaledBar
<1>2. Idle.at = "idle" BY DEF Idle
<1>3. \A t \in Threads : Appears(call[t], fired_[t], signaling_event_[t]) = Promise!Idle
  <2>1. \A t \in Threads : call[t] = Idle BY DEF Init
  <2> QED BY <1>2, <2>1, AppearsAt
<1>4. threadBar = [t \in Threads |-> Promise!Idle] BY <1>3 DEF threadBar
<1> QED BY <1>1, <1>4 DEF Promise!AInit

\* Every step is a step of the promise, or nothing that a caller sees.
LEMMA NextMaps == IInv /\ [Next]_vars => [Promise!ANext]_(Promise!avars)
<1> SUFFICES ASSUME IInv, [Next]_vars PROVE Promise!ANext \/ UNCHANGED Promise!avars
  OBVIOUS
<1>1. CASE UNCHANGED vars
  BY <1>1 DEF vars, Promise!avars, signaledBar, threadBar
<1>2. ASSUME NEW t \in Threads, Begin(t) PROVE Promise!ANext \/ UNCHANGED Promise!avars
  <2>1. ASSUME NEW e \in Events, Signal(t, e) PROVE Promise!ANext
    BY <2>1, SignalMaps DEF Promise!ANext
  <2>2. ASSUME NEW e \in Events, Reset(t, e) \/ IsSignaled(t, e)
        PROVE  Promise!ANext \/ UNCHANGED Promise!avars
    BY <2>2, ResetMaps DEF Promise!ANext
  <2>3. ASSUME NEW e \in Events, NEW finite \in BOOLEAN, TimedWait(t, e, finite)
        PROVE  Promise!ANext
    <3>1. {e} \in SUBSET Events OBVIOUS
    <3> QED BY <2>3, <3>1, TimedWaitMaps DEF Promise!ANext
  <2>4. ASSUME NEW raw \in WaitLists, WaitMany(t, raw) PROVE UNCHANGED Promise!avars
    BY <2>4, WaitManyMaps
  <2> QED BY <1>2, <2>1, <2>2, <2>3, <2>4 DEF Begin
<1>3. ASSUME NEW t \in Threads, Continue(t) PROVE Promise!ANext \/ UNCHANGED Promise!avars
  <2>1. CASE SignalAll(t) BY <2>1, SignalAllMaps DEF Promise!ANext
  <2>2. CASE SignalOne(t) BY <2>2, SignalOneMaps DEF Promise!ANext
  <2>3. CASE SignalOnePop(t) BY <2>3, SignalOnePopMaps
  <2>4. CASE CheckTimedWait(t) BY <2>4, CheckMaps DEF Promise!ANext
  <2>5. CASE DequeueAfterWait(t) BY <2>5, DequeueMaps
  <2>6. CASE Wake(t) BY <2>6, WakeMaps DEF Wake
  <2>7. CASE EnqueueMany(t)
    <3>1. CASE \E e \in Events : Promise!Pass(t, e) BY <3>1 DEF Promise!ANext
    <3>2. CASE \E S \in SUBSET Events, finite \in BOOLEAN : Promise!Block(t, S, finite)
      BY <3>2 DEF Promise!ANext
    <3> QED BY <2>7, <3>1, <3>2, EnqueueManyMaps
  <2>8. CASE Unlock(t) BY <2>8, UnlockMaps
  <2>9. CASE CheckWaitMany(t) BY <2>9, CheckManyMaps
  <2>10. CASE LeaveMany(t) BY <2>10, LeaveManyMaps
  <2>11. CASE Return(t) BY <2>11, ReturnMaps DEF Promise!ANext
  <2> QED BY <1>3, <2>1, <2>2, <2>3, <2>4, <2>5, <2>6, <2>7, <2>8, <2>9, <2>10, <2>11
          DEF Continue
<1> QED BY <1>1, <1>2, <1>3 DEF Next

\* The locks, lists and waiters of waitable_event_posix.cc implement the events that
\* waitable_event.h promises: a signal of an automatic event is given to exactly one
\* wait or kept, one of a manual event releases all, and a wait that timed out took
\* none.
THEOREM EventsKeepTheirPromise == Spec => ImplementsEventSpec
<1>1. Spec => Promise!AInit /\ [][Promise!ANext]_(Promise!avars)
  BY InitMaps, NextMaps, AlwaysIInv, PTL DEF Spec
<1> QED BY <1>1 DEF ImplementsEventSpec, Promise!ASpec

=============================================================================
