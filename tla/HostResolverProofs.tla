-------------------------- MODULE HostResolverProofs --------------------------
(***************************************************************************)
(* Proofs about the host resolver, for any requests, keys, priorities and  *)
(* limits.                                                                 *)
(***************************************************************************)
EXTENDS HostResolver, ListLemmas, FiniteSetTheorems

-----------------------------------------------------------------------------
(* The inductive invariant.                                                *)

Types ==
    /\ TypeOK /\ CallbackOnce
    /\ tasks_ \in Seq(Requests) /\ running \subseteq Requests /\ loop \in Seq(Requests)
    /\ it \in Nat
    /\ shutdown_ \in BOOLEAN /\ deleted \in BOOLEAN /\ failed \in BOOLEAN

Outstanding == OutstandingJobs(jobs_)
List(j) == ToSet(job[j].requests_)

\* The jobs that the worker pool or the origin loop still has to deal with.
OnTheWay == ToSet(tasks_) \cup running \cup ToSet(loop)

\* A job is on its way once, and exists as long as it is, or is being completed.
Ways ==
    /\ Distinct(tasks_, 0) /\ Distinct(loop, 0)
    /\ \A j \in Requests : /\ j \in ToSet(tasks_) => j \notin running /\ j \notin ToSet(loop)
                           /\ j \in running => j \notin ToSet(loop)
    /\ \A j \in OnTheWay : job[j].requests_ # <<>> /\ j # cur_completing_job_
    /\ cur_completing_job_ # None => job[cur_completing_job_].requests_ # <<>>

\* The map of jobs holds those that were not cancelled, under their keys; all of them
\* are on their way, and they are counted.
Mapped ==
    /\ \A j \in Requests : job[j].resolver_ /\ j # cur_completing_job_ <=> j \in Outstanding
    /\ \A k \in Keys : jobs_[k] # None => job[jobs_[k]].key_ = k
    /\ Outstanding \subseteq OnTheWay

Counted ==
    /\ IsFiniteSet(Outstanding)
    /\ ~shutdown_ /\ ~deleted => num_outstanding_jobs_ = Cardinality(Outstanding)
    /\ shutdown_ \/ deleted => Outstanding = {}
    /\ deleted => pending_requests_ = <<>>
    /\ cur_completing_job_ # None => job[cur_completing_job_].resolver_ = ~deleted

\* A request is in one list, that of its pool or that of a job, and there once; it is
\* in the list of the job that is named after it.
Listed ==
    /\ Distinct(pending_requests_, 0) /\ \A j \in Requests : Distinct(job[j].requests_, 0)
    /\ \A j \in Requests : job[j].requests_ # <<>> => j \in List(j)
    /\ \A j, k \in Requests : \A r \in List(j) : r \in List(k) => j = k
    /\ \A j \in Requests : \A r \in List(j) : r \notin ToSet(pending_requests_)
                                             /\ client[r] # "unused"

\* What the client expects of the requests that have a callback, and where those
\* are that it expects something of.
ToCome(j, i) == j = cur_completing_job_ => i > it

Expected(r) ==
    LET j == request[r].job_ IN
    /\ request[r].callback_
    /\ j = None => r \in ToSet(pending_requests_)
    /\ j # None => /\ j \in Outstanding \/ j = cur_completing_job_
                   /\ \E i \in 1..Len(job[j].requests_) : job[j].requests_[i] = r /\ ToCome(j, i)

Answerable ==
    /\ \A r \in Requests : client[r] = "unused" => request[r].job_ = None
    /\ \A r \in ToSet(pending_requests_) :
          /\ request[r].job_ = None /\ client[r] \in {"waiting", "ignored"}
          /\ ~shutdown_ => client[r] = "waiting"
    /\ \A j \in Requests : job[j].resolver_ => \A i \in 1..Len(job[j].requests_) :
          ToCome(j, i) /\ request[job[j].requests_[i]].callback_ =>
             client[job[j].requests_[i]] \in {"waiting", "ignored"}
    /\ ~shutdown_ /\ ~deleted => \A r \in Requests : client[r] = "waiting" => Expected(r)

Sound == Ways /\ Mapped /\ Counted /\ Listed /\ Answerable

IInv == Types /\ NoIdleSlot /\ (~failed => Sound)

-----------------------------------------------------------------------------
(* Lists of requests.                                                      *)

\* The loop that builds Among, up to position n.
Kept(s, S, n, f) ==
    f = [i \in 0..n |-> IF i = 0 THEN <<>>
                        ELSE IF s[i] \in S THEN Append(f[i - 1], s[i])
                        ELSE f[i - 1]]

LEMMA KeptExists ==
    ASSUME NEW s, NEW S, NEW n \in Nat
    PROVE  \E f : Kept(s, S, n, f)
<1> DEFINE Bad == {m \in Nat : ~\E f : Kept(s, S, m, f)}
<1> SUFFICES ASSUME Bad # {} PROVE FALSE OBVIOUS
<1>1. PICK m \in Bad : \A l \in Bad : m <= l BY LeastNat
<1>2. CASE m = 0
  <2> DEFINE f == [i \in 0..0 |-> <<>>]
  <2>1. Kept(s, S, 0, f) BY DEF Kept
  <2> QED BY <1>1, <1>2, <2>1
<1>3. CASE m # 0
  <2>1. m - 1 \in Nat /\ m - 1 \notin Bad BY <1>1, <1>3
  <2>2. PICK f : Kept(s, S, m - 1, f) BY <2>1
  <2> DEFINE g == [i \in 0..m |-> IF i = m THEN IF s[i] \in S THEN Append(f[i - 1], s[i])
                                                ELSE f[i - 1]
                                  ELSE f[i]]
  <2>3. \A i \in 0..(m - 1) : g[i] = f[i] BY <2>1
  <2>4. \A i \in 0..(m - 1) : f[i] = IF i = 0 THEN <<>>
                        ELSE IF s[i] \in S THEN Append(f[i - 1], s[i])
                        ELSE f[i - 1]
    BY <2>2 DEF Kept
  <2>5. \A i \in 0..m : g[i] = IF i = 0 THEN <<>>
                        ELSE IF s[i] \in S THEN Append(g[i - 1], s[i])
                        ELSE g[i - 1]
    <3> TAKE i \in 0..m
    <3>1. CASE i = 0 BY <3>1, <1>3, <2>1, <2>3, <2>4
    <3>2. CASE i # 0 /\ i # m
      <4>1. i \in 0..(m - 1) /\ i - 1 \in 0..(m - 1) BY <3>2, <2>1
      <4>2. g[i] = f[i] /\ g[i - 1] = f[i - 1] BY <4>1, <2>3
      <4>3. f[i] = IF s[i] \in S THEN Append(f[i - 1], s[i]) ELSE f[i - 1]
        BY <4>1, <3>2, <2>4
      <4> QED BY <4>2, <4>3, <3>2
    <3>3. CASE i = m
      <4>1. g[i - 1] = f[i - 1] BY <3>3, <2>1, <2>3
      <4> QED BY <3>3, <4>1, <1>3
    <3> QED BY <3>1, <3>2, <3>3
  <2>6. Kept(s, S, m, g) BY <2>5 DEF Kept
  <2> QED BY <1>1, <2>6
<1> QED BY <1>2, <1>3

\* Among is the value of the loop at the end.
LEMMA AmongKept ==
    ASSUME NEW s, NEW S, Len(s) \in Nat
    PROVE  \E f : Kept(s, S, Len(s), f) /\ Among(s, S) = f[Len(s)]
<1>1. \E f : Kept(s, S, Len(s), f) BY KeptExists
<1> DEFINE h == CHOOSE f : Kept(s, S, Len(s), f)
<1>2. Kept(s, S, Len(s), h) BY <1>1
<1>3. Among(s, S) = h[Len(s)] BY DEF Among, Kept
<1> QED BY <1>2, <1>3

\* A list with an element more, in terms of its set.
LEMMA AppendSet ==
    ASSUME NEW R, NEW s \in Seq(R), NEW a \in R
    PROVE  /\ Append(s, a) \in Seq(R) /\ ToSet(Append(s, a)) = ToSet(s) \cup {a}
           /\ a \notin ToSet(s) /\ Distinct(s, 0) => Distinct(Append(s, a), 0)
           /\ Len(Append(s, a)) = Len(s) + 1 /\ Append(s, a)[Len(s) + 1] = a
           /\ \A i \in 1..Len(s) : Append(s, a)[i] = s[i]
<1> DEFINE t == Append(s, a)
<1>1. /\ Len(s) \in Nat /\ t \in Seq(R) /\ Len(t) = Len(s) + 1 /\ t[Len(s) + 1] = a
      /\ \A i \in 1..Len(s) : t[i] = s[i]
  OBVIOUS
<1>2. ToSet(t) = ToSet(s) \cup {a}
  <2> HIDE DEF t
  <2>1. \A i \in 1..Len(t) : i \in 1..Len(s) \/ i = Len(s) + 1 BY <1>1
  <2>2. \A i \in 1..Len(s) : i \in 1..Len(t) BY <1>1
  <2>3. Len(s) + 1 \in 1..Len(t) BY <1>1
  <2>4. \A e : e \in ToSet(t) <=> \E i \in 1..Len(t) : t[i] = e BY <1>1, ToSetElems
  <2>5. \A e : e \in ToSet(s) <=> \E i \in 1..Len(s) : s[i] = e BY <1>1, ToSetElems
  <2> QED BY <1>1, <2>1, <2>2, <2>3, <2>4, <2>5
<1>3. ASSUME a \notin ToSet(s), Distinct(s, 0) PROVE Distinct(t, 0)
  BY <1>3, ElemsAppend, ToSetElems
<1> QED BY <1>1, <1>2, <1>3

\* The head of a list leaves it.
LEMMA TailSet ==
    ASSUME NEW R, NEW s \in Seq(R), s # <<>>
    PROVE  /\ Head(s) \in ToSet(s) /\ Head(s) \in R /\ Tail(s) \in Seq(R)
           /\ Distinct(s, 0) => Distinct(Tail(s), 0) /\ ToSet(Tail(s)) = ToSet(s) \ {Head(s)}
<1>1. Len(s) \in Nat \ {0} /\ Head(s) = s[1] /\ Tail(s) \in Seq(R) BY EmptySeq
<1>2. Head(s) \in ToSet(s) /\ Head(s) \in R BY <1>1, ToSetElems
<1>3. ASSUME Distinct(s, 0)
      PROVE  Distinct(Tail(s), 0) /\ ToSet(Tail(s)) = ToSet(s) \ {Head(s)}
  <2>1. Distinct(Tail(s), 0) /\ Elems(Tail(s), 0) = Elems(s, 2) BY <1>3, ElemsTail
  <2>2. 1 \in 1..Len(s) /\ Distinct(s, 1) /\ Elems(s, 1) = Elems(s, 0)
    BY <1>1, <1>3, ElemsStart
  <2>3. Elems(s, 2) = Elems(s, 1) \ {s[1]}
    <3>1. 1 + 1 = 2 OBVIOUS
    <3> QED BY <2>2, <3>1, ElemsStep
  <2> QED BY <1>1, <2>1, <2>2, <2>3, ToSetElems
<1> QED BY <1>1, <1>2, <1>3

\* The list that holds nothing.
LEMMA NoneSet ==
    ASSUME NEW R
    PROVE  <<>> \in Seq(R) /\ ToSet(<<>>) = {} /\ Distinct(<<>>, 0)
<1>1. <<>> \in Seq(R) /\ Len(<<>>) = 0 OBVIOUS
<1>2. ToSet(<<>>) = {} BY DEF ToSet
<1>3. Distinct(<<>>, 0) BY <1>1 DEF Distinct, From
<1> QED BY <1>1, <1>2, <1>3

\* What Among keeps: the requests of the list that are in the set, each as often as
\* before.
LEMMA AmongSet ==
    ASSUME NEW R, NEW s \in Seq(R), NEW S
    PROVE  /\ Among(s, S) \in Seq(R) /\ ToSet(Among(s, S)) = ToSet(s) \cap S
           /\ Distinct(s, 0) => Distinct(Among(s, S), 0)
<1>0. Len(s) \in Nat OBVIOUS
<1>1. PICK f : Kept(s, S, Len(s), f) /\ Among(s, S) = f[Len(s)] BY <1>0, AmongKept
<1> DEFINE Fine(n) == /\ f[n] \in Seq(R)
                      /\ \A e : e \in ToSet(f[n]) <=> e \in S /\ \E i \in 1..n : s[i] = e
                      /\ Distinct(s, 0) => Distinct(f[n], 0)
           Bad == {n \in 0..Len(s) : ~Fine(n)}
<1>2. \A i \in 0..Len(s) : f[i] = IF i = 0 THEN <<>>
                                  ELSE IF s[i] \in S THEN Append(f[i - 1], s[i])
                                  ELSE f[i - 1]
  BY <1>1 DEF Kept
<1>3. Bad = {}
  <2> SUFFICES ASSUME Bad # {} PROVE FALSE OBVIOUS
  <2>1. PICK n \in Bad : \A m \in Bad : n <= m
    <3>1. Bad \in SUBSET Nat BY <1>0
    <3> QED BY <3>1, LeastNat
  <2>2. n \in 0..Len(s) /\ ~Fine(n) BY <2>1
  <2>3. CASE n = 0
    <3>1. f[0] = <<>> BY <1>0, <1>2
    <3>2. <<>> \in Seq(R) /\ ToSet(<<>>) = {} /\ Distinct(<<>>, 0) BY NoneSet
    <3>3. 1..0 = {} OBVIOUS
    <3> QED BY <2>2, <2>3, <3>1, <3>2, <3>3
  <2>4. CASE n # 0
    <3>1. n - 1 \in 0..Len(s) /\ n \in 1..Len(s) /\ n - 1 < n BY <1>0, <2>2, <2>4
    <3>2. Fine(n - 1)
      <4> HIDE DEF Fine
      <4>1. \A m \in 0..Len(s) : ~Fine(m) => n <= m BY <2>1
      <4>2. ~(n <= n - 1) BY <1>0, <2>2
      <4> QED BY <3>1, <4>1, <4>2
    <3>3. f[n] = IF s[n] \in S THEN Append(f[n - 1], s[n]) ELSE f[n - 1] BY <1>2, <2>2, <2>4
    <3>4. \A i : i \in 1..n <=> i \in 1..(n - 1) \/ i = n BY <3>1
    <3>5. s[n] \in R BY <3>1
    <3> HIDE DEF Bad
    <3>6. CASE s[n] \notin S BY <2>2, <3>2, <3>3, <3>4, <3>6
    <3>7. CASE s[n] \in S
      <4>1. f[n] = Append(f[n - 1], s[n]) BY <3>3, <3>7
      <4>2. f[n] \in Seq(R) /\ ToSet(f[n]) = ToSet(f[n - 1]) \cup {s[n]}
        BY <3>2, <3>5, <4>1, AppendSet
      <4>3. \A e : e \in ToSet(f[n]) <=> e \in S /\ \E i \in 1..n : s[i] = e
        BY <3>2, <3>4, <3>7, <4>2
      <4>4. ASSUME Distinct(s, 0) PROVE Distinct(f[n], 0)
        <5>1. s[n] \notin ToSet(f[n - 1])
          <6> SUFFICES ASSUME s[n] \in ToSet(f[n - 1]) PROVE FALSE OBVIOUS
          <6>1. PICK i \in 1..(n - 1) : s[i] = s[n] BY <3>2
          <6>2. i \in From(s, 0) /\ n \in From(s, 0) /\ i # n BY <1>0, <3>1 DEF From
          <6> QED BY <4>4, <6>1, <6>2 DEF Distinct
        <5> QED BY <3>2, <3>5, <4>1, <4>4, <5>1, AppendSet
      <4> QED BY <2>2, <4>2, <4>3, <4>4
    <3> QED BY <3>6, <3>7
  <2> QED BY <2>3, <2>4
<1>4. Fine(Len(s))
  <2> HIDE DEF Fine
  <2> QED BY <1>0, <1>3
<1>5. \A e : e \in ToSet(s) <=> \E i \in 1..Len(s) : s[i] = e BY ToSetElems
<1> QED BY <1>1, <1>4, <1>5

\* Two lists, one after the other.
LEMMA ConcatSet ==
    ASSUME NEW R, NEW s \in Seq(R), NEW t \in Seq(R)
    PROVE  /\ s \o t \in Seq(R) /\ ToSet(s \o t) = ToSet(s) \cup ToSet(t)
           /\ Distinct(s, 0) /\ Distinct(t, 0) /\ ToSet(s) \cap ToSet(t) = {}
                => Distinct(s \o t, 0)
<1> DEFINE u == s \o t
           m == Len(s)
           n == Len(t)
<1>1. m \in Nat /\ n \in Nat OBVIOUS
<1>2. /\ u \in Seq(R) /\ Len(u) = m + n
      /\ \A i \in 1..(m + n) : u[i] = IF i <= m THEN s[i] ELSE t[i - m]
  OBVIOUS
<1>3. /\ \A e : e \in ToSet(u) <=> \E i \in 1..Len(u) : u[i] = e
      /\ \A e : e \in ToSet(s) <=> \E i \in 1..m : s[i] = e
      /\ \A e : e \in ToSet(t) <=> \E i \in 1..n : t[i] = e
  BY <1>2, ToSetElems
<1> HIDE DEF u, m, n
<1>4. /\ \A i \in 1..m : i \in 1..(m + n) /\ u[i] = s[i]
      /\ \A i \in 1..n : i + m \in 1..(m + n) /\ u[i + m] = t[i]
  <2>1. \A i \in 1..m : i \in 1..(m + n) /\ i <= m BY <1>1
  <2>2. \A i \in 1..n : i + m \in 1..(m + n) /\ ~(i + m <= m) /\ i + m - m = i BY <1>1
  <2>3. ASSUME NEW i \in 1..n PROVE u[i + m] = t[i]
    <3> DEFINE k == i + m
    <3>1. k \in 1..(m + n) /\ ~(k <= m) /\ k - m = i BY <1>1
    <3> HIDE DEF k
    <3>2. u[k] = t[k - m] BY <1>2, <3>1
    <3>3. u[k] = t[i] BY <3>1, <3>2
    <3> QED BY <3>3 DEF k
  <2> QED BY <1>2, <2>1, <2>2, <2>3
<1>5. \A i \in 1..(m + n) : \/ i \in 1..m /\ u[i] = s[i]
                            \/ i - m \in 1..n /\ u[i] = t[i - m] /\ i = (i - m) + m
  BY <1>1, <1>2
<1>6. ToSet(u) = ToSet(s) \cup ToSet(t) BY <1>2, <1>3, <1>4, <1>5
<1>7. ASSUME Distinct(s, 0), Distinct(t, 0), ToSet(s) \cap ToSet(t) = {}
      PROVE  Distinct(u, 0)
  <2>1. /\ \A i, j \in 1..m : s[i] = s[j] => i = j
        /\ \A i, j \in 1..n : t[i] = t[j] => i = j
    BY <1>1, <1>7 DEF Distinct, From, m, n
  <2>2. ASSUME NEW i \in 1..(m + n), NEW j \in 1..(m + n), u[i] = u[j] PROVE i = j
    <3>1. CASE i \in 1..m /\ u[i] = s[i] /\ j \in 1..m /\ u[j] = s[j] BY <2>1, <2>2, <3>1
    <3>2. CASE i - m \in 1..n /\ u[i] = t[i - m] /\ j - m \in 1..n /\ u[j] = t[j - m]
      <4>1. i - m = j - m BY <2>1, <2>2, <3>2
      <4> QED BY <1>1, <4>1
    <3>3. CASE i \in 1..m /\ u[i] = s[i] /\ j - m \in 1..n /\ u[j] = t[j - m]
      BY <1>3, <1>7, <2>2, <3>3
    <3>4. CASE j \in 1..m /\ u[j] = s[j] /\ i - m \in 1..n /\ u[i] = t[i - m]
      BY <1>3, <1>7, <2>2, <3>4
    <3> QED BY <1>5, <3>1, <3>2, <3>3, <3>4
  <2> QED BY <1>2, <2>2 DEF Distinct, From
<1> QED BY <1>2, <1>6, <1>7 DEF u

\* The loop that builds FlattenSeq, up to position n.
Joined(q, n, f) == f = [i \in 1..n |-> IF i = 1 THEN q[i] ELSE f[i - 1] \o q[i]]

LEMMA JoinedExists ==
    ASSUME NEW q, NEW n \in Nat
    PROVE  \E f : Joined(q, n, f)
<1> DEFINE Bad == {m \in Nat : ~\E f : Joined(q, m, f)}
<1> SUFFICES ASSUME Bad # {} PROVE FALSE OBVIOUS
<1>1. PICK m \in Bad : \A l \in Bad : m <= l BY LeastNat
<1>2. CASE m = 0
  <2> DEFINE f == [i \in 1..0 |-> <<>>]
  <2>1. 1..0 = {} OBVIOUS
  <2>2. Joined(q, 0, f) BY <2>1 DEF Joined
  <2> QED BY <1>1, <1>2, <2>2
<1>3. CASE m # 0
  <2>1. m - 1 \in Nat /\ m - 1 \notin Bad BY <1>1, <1>3
  <2>2. PICK f : Joined(q, m - 1, f) BY <2>1
  <2> DEFINE g == [i \in 1..m |-> IF i = m THEN IF i = 1 THEN q[i] ELSE f[i - 1] \o q[i]
                                  ELSE f[i]]
  <2>3. \A i \in 1..(m - 1) : g[i] = f[i] BY <2>1
  <2>4. \A i \in 1..(m - 1) : f[i] = IF i = 1 THEN q[i] ELSE f[i - 1] \o q[i]
    BY <2>2 DEF Joined
  <2>5. \A i \in 1..m : g[i] = IF i = 1 THEN q[i] ELSE g[i - 1] \o q[i]
    <3> TAKE i \in 1..m
    <3>1. CASE i = 1 /\ i # m BY <3>1, <2>1, <2>3, <2>4
    <3>2. CASE i # 1 /\ i # m
      <4>1. i \in 1..(m - 1) /\ i - 1 \in 1..(m - 1) BY <3>2, <2>1
      <4>2. g[i] = f[i] /\ g[i - 1] = f[i - 1] BY <4>1, <2>3
      <4>3. f[i] = f[i - 1] \o q[i] BY <4>1, <3>2, <2>4
      <4> QED BY <4>2, <4>3, <3>2
    <3>3. CASE i = m /\ i # 1
      <4>1. g[i - 1] = f[i - 1] BY <3>3, <2>1, <2>3
      <4> QED BY <3>3, <4>1
    <3>4. CASE i = m /\ i = 1 BY <3>4
    <3> QED BY <3>1, <3>2, <3>3, <3>4
  <2>6. Joined(q, m, g) BY <2>5 DEF Joined
  <2> QED BY <1>1, <2>6
<1> QED BY <1>2, <1>3

\* What FlattenSeq holds: the elements of all lists; none twice, if none is in two of
\* them or twice in one.
LEMMA FlattenElems ==
    ASSUME NEW R, NEW q \in Seq(Seq(R))
    PROVE  /\ FlattenSeq(q) \in Seq(R)
           /\ \A e : e \in ToSet(FlattenSeq(q)) <=> \E i \in 1..Len(q) : e \in ToSet(q[i])
           /\ /\ \A i \in 1..Len(q) : Distinct(q[i], 0)
              /\ \A i, j \in 1..Len(q) : i # j => ToSet(q[i]) \cap ToSet(q[j]) = {}
              => Distinct(FlattenSeq(q), 0)
<1>0. Len(q) \in Nat OBVIOUS
<1>1. CASE Len(q) = 0
  <2>1. q = <<>> /\ FlattenSeq(q) = q
    <3>1. q = <<>> BY <1>1, EmptySeq
    <3>2. FlattenSeq(q) = q BY <1>1 DEF FlattenSeq
    <3> QED BY <3>1, <3>2
  <2>2. 1..Len(q) = {} BY <1>1
  <2> QED BY <2>1, <2>2, NoneSet
<1>2. CASE Len(q) # 0
  <2> DEFINE Apart == /\ \A i \in 1..Len(q) : Distinct(q[i], 0)
                      /\ \A i, j \in 1..Len(q) : i # j => ToSet(q[i]) \cap ToSet(q[j]) = {}
             f == CHOOSE g : Joined(q, Len(q), g)
             Fine(n) == /\ f[n] \in Seq(R)
                        /\ \A e : e \in ToSet(f[n]) <=> \E i \in 1..n : e \in ToSet(q[i])
                        /\ Apart => Distinct(f[n], 0)
             Bad == {n \in 1..Len(q) : ~Fine(n)}
  <2>1. Joined(q, Len(q), f)
    <3>1. \E g : Joined(q, Len(q), g) BY <1>0, JoinedExists
    <3> QED BY <3>1
  <2>2. FlattenSeq(q) = f[Len(q)] BY <1>2 DEF FlattenSeq, Joined
  <2> HIDE DEF f
  <2>3. \A i \in 1..Len(q) : f[i] = IF i = 1 THEN q[i] ELSE f[i - 1] \o q[i]
    BY <2>1 DEF Joined
  <2>4. Bad = {}
    <3> SUFFICES ASSUME Bad # {} PROVE FALSE OBVIOUS
    <3>1. PICK n \in Bad : \A m \in Bad : n <= m
      <4>1. Bad \in SUBSET Nat BY <1>0
      <4> HIDE DEF Bad
      <4> QED BY <4>1, LeastNat
    <3>2. n \in 1..Len(q) /\ ~Fine(n) /\ q[n] \in Seq(R)
      <4> HIDE DEF Fine
      <4>1. n \in 1..Len(q) /\ ~Fine(n) BY <3>1
      <4> QED BY <4>1
    <3>3. CASE n = 1
      <4>1. f[1] = q[1] BY <2>3, <3>2, <3>3
      <4>2. \A i : i \in 1..1 <=> i = 1 OBVIOUS
      <4>3. Apart => Distinct(q[1], 0) BY <3>2, <3>3
      <4> HIDE DEF Apart
      <4> QED BY <3>2, <3>3, <4>1, <4>2, <4>3
    <3>4. CASE n # 1
      <4>1. n - 1 \in 1..Len(q) /\ ~(n <= n - 1) BY <1>0, <3>2, <3>4
      <4>2. Fine(n - 1)
        <5> HIDE DEF Fine
        <5>1. \A m \in 1..Len(q) : ~Fine(m) => n <= m BY <3>1
        <5> QED BY <4>1, <5>1
      <4>3. f[n] = f[n - 1] \o q[n] BY <2>3, <3>2, <3>4
      <4>4. \A i : i \in 1..n <=> i \in 1..(n - 1) \/ i = n BY <1>0, <3>2, <4>1
      <4>5. f[n] \in Seq(R) /\ ToSet(f[n]) = ToSet(f[n - 1]) \cup ToSet(q[n])
        BY <3>2, <4>2, <4>3, ConcatSet
      <4>6. \A e : e \in ToSet(f[n]) <=> \E i \in 1..n : e \in ToSet(q[i])
        BY <4>2, <4>4, <4>5
      <4>7. ASSUME Apart PROVE Distinct(f[n], 0)
        <5>1. Distinct(q[n], 0) /\ Distinct(f[n - 1], 0) BY <3>2, <4>2, <4>7
        <5>2. ToSet(f[n - 1]) \cap ToSet(q[n]) = {}
          <6>1. ASSUME NEW e \in ToSet(f[n - 1]) PROVE e \notin ToSet(q[n])
            <7>1. PICK i \in 1..(n - 1) : e \in ToSet(q[i]) BY <4>2
            <7>2. i \in 1..Len(q) /\ i # n BY <1>0, <3>2
            <7>3. ToSet(q[i]) \cap ToSet(q[n]) = {} BY <3>2, <4>7, <7>2
            <7> QED BY <7>1, <7>3
          <6> QED BY <6>1
        <5> QED BY <3>2, <4>2, <4>3, <5>1, <5>2, ConcatSet
      <4> HIDE DEF Apart
      <4> QED BY <3>2, <4>5, <4>6, <4>7
    <3> QED BY <3>3, <3>4
  <2>5. Fine(Len(q))
    <3> HIDE DEF Fine
    <3> QED BY <1>0, <1>2, <2>4
  <2> QED BY <2>2, <2>5
<1> QED BY <1>1, <1>2

\* A job takes along exactly the requests it is to service, each once.
LEMMA MoveSet ==
    ASSUME pending_requests_ \in Seq(Requests), Distinct(pending_requests_, 0),
           NEW moved \in SUBSET ToSet(pending_requests_)
    PROVE  /\ MoveRequestsToJob(moved) \in Seq(Requests)
           /\ ToSet(MoveRequestsToJob(moved)) = moved
           /\ Distinct(MoveRequestsToJob(moved), 0)
<1> DEFINE N == NUM_PRIORITIES
           Part(i) == {x \in moved : Info[x].priority = i - 1}
           q == [i \in 1..N |-> Among(pending_requests_, Part(i))]
<1>1. N \in Nat /\ \A x \in Requests : Info[x].priority \in 0..(N - 1)
  BY ResolverAssumption
<1>2. moved \subseteq Requests BY ToSetElems
<1>3. \A i \in 1..N : /\ q[i] \in Seq(Requests) /\ Distinct(q[i], 0)
                      /\ ToSet(q[i]) = ToSet(pending_requests_) \cap Part(i)
  <2> TAKE i \in 1..N
  <2>1. q[i] = Among(pending_requests_, Part(i)) OBVIOUS
  <2> HIDE DEF q, Part
  <2> QED BY <2>1, AmongSet
<1>4. q \in Seq(Seq(Requests)) /\ Len(q) = N
  <2>1. \A i \in 1..N : q[i] \in Seq(Requests) BY <1>3
  <2>2. q = [i \in 1..N |-> q[i]] OBVIOUS
  <2> HIDE DEF q
  <2>3. q \in [1..N -> Seq(Requests)] BY <2>1, <2>2
  <2> QED BY <1>1, <2>3, LenProperties DEF Seq
<1>5. MoveRequestsToJob(moved) = FlattenSeq(q) BY DEF MoveRequestsToJob
<1> HIDE DEF q, N
<1>6. \A e : e \in ToSet(FlattenSeq(q)) <=> \E i \in 1..N : e \in ToSet(q[i])
  BY <1>4, FlattenElems
<1>7. ToSet(FlattenSeq(q)) = moved
  <2>1. \A e \in ToSet(FlattenSeq(q)) : e \in moved BY <1>3, <1>6
  <2>2. ASSUME NEW e \in moved PROVE e \in ToSet(FlattenSeq(q))
    <3>1. Info[e].priority \in 0..(N - 1) BY <1>1, <1>2
    <3>2. PICK i \in 1..N : Info[e].priority = i - 1
      <4>1. Info[e].priority + 1 \in 1..N /\ Info[e].priority = (Info[e].priority + 1) - 1
        BY <1>1, <3>1
      <4> QED BY <4>1
    <3>3. e \in ToSet(q[i]) BY <1>3, <3>2
    <3> QED BY <1>6, <3>3
  <2> QED BY <2>1, <2>2
<1>8. \A i, j \in 1..N : i # j => ToSet(q[i]) \cap ToSet(q[j]) = {}
  <2> TAKE i, j \in 1..N
  <2>1. ASSUME NEW e \in ToSet(q[i]), e \in ToSet(q[j]) PROVE i = j
    <3>1. i - 1 = j - 1 BY <1>3, <2>1
    <3> QED BY <1>1, <3>1
  <2> QED BY <2>1
<1>9. FlattenSeq(q) \in Seq(Requests) /\ Distinct(FlattenSeq(q), 0)
  BY <1>3, <1>4, <1>8, FlattenElems
<1> QED BY <1>5, <1>7, <1>9

\* The list of a new job: its own request and those it takes along.
LEMMA JobList ==
    ASSUME pending_requests_ \in Seq(Requests), Distinct(pending_requests_, 0),
           NEW moved \in SUBSET ToSet(pending_requests_), NEW r \in Requests, r \notin moved
    PROVE  LET s == <<r>> \o MoveRequestsToJob(moved)
           IN  /\ s \in Seq(Requests) /\ ToSet(s) = {r} \cup moved /\ Distinct(s, 0)
               /\ s # <<>>
<1> DEFINE m == MoveRequestsToJob(moved)
           a == <<r>>
           s == a \o m
<1>1. m \in Seq(Requests) /\ ToSet(m) = moved /\ Distinct(m, 0) BY MoveSet
<1>2. a \in Seq(Requests) /\ Len(a) = 1 /\ a[1] = r OBVIOUS
<1>3. ToSet(a) = {r} BY <1>2 DEF ToSet
<1>4. Distinct(a, 0) BY <1>2 DEF Distinct, From
<1> HIDE DEF m, a
<1>5. s \in Seq(Requests) /\ ToSet(s) = {r} \cup moved /\ Distinct(s, 0)
  <2>1. ToSet(a) \cap ToSet(m) = {} BY <1>1, <1>3
  <2> QED BY <1>1, <1>2, <1>3, <1>4, <2>1, ConcatSet
<1>6. s # <<>>
  <2> HIDE DEF s
  <2> QED BY <1>5, NoneSet
<1> QED BY <1>5, <1>6 DEF m, a

-----------------------------------------------------------------------------
(* The map of jobs.                                                        *)

\* A job enters the map under a key that has none.
LEMMA AddJob ==
    ASSUME NEW jobs \in [Keys -> Requests \cup {None}], NEW k \in Keys, jobs[k] = None,
           NEW r \in Requests, r \notin OutstandingJobs(jobs), IsFiniteSet(OutstandingJobs(jobs)),
           NEW new, new[k] = r, \A l \in Keys \ {k} : new[l] = jobs[l]
    PROVE  /\ OutstandingJobs(new) = OutstandingJobs(jobs) \cup {r}
           /\ IsFiniteSet(OutstandingJobs(new))
           /\ Cardinality(OutstandingJobs(new)) = Cardinality(OutstandingJobs(jobs)) + 1
<1>1. OutstandingJobs(new) = OutstandingJobs(jobs) \cup {r}
  <2>1. r # None BY ResolverAssumption
  <2> QED BY <2>1 DEF OutstandingJobs
<1>2. /\ IsFiniteSet(OutstandingJobs(jobs) \cup {r})
      /\ Cardinality(OutstandingJobs(jobs) \cup {r}) = Cardinality(OutstandingJobs(jobs)) + 1
  BY FS_AddElement
<1> QED BY <1>1, <1>2

\* A job that is in the map once leaves it.
LEMMA RemoveJob ==
    ASSUME NEW jobs \in [Keys -> Requests \cup {None}], NEW k \in Keys, jobs[k] # None,
           \A l \in Keys : jobs[l] = jobs[k] => l = k, IsFiniteSet(OutstandingJobs(jobs))
    PROVE  LET new == [jobs EXCEPT ![k] = None]
           IN  /\ new \in [Keys -> Requests \cup {None}]
               /\ OutstandingJobs(new) = OutstandingJobs(jobs) \ {jobs[k]}
               /\ IsFiniteSet(OutstandingJobs(new))
               /\ Cardinality(OutstandingJobs(new)) = Cardinality(OutstandingJobs(jobs)) - 1
               /\ Cardinality(OutstandingJobs(jobs)) \in Nat \ {0}
<1> DEFINE new == [jobs EXCEPT ![k] = None]
<1>1. new \in [Keys -> Requests \cup {None}] OBVIOUS
<1>2. OutstandingJobs(new) = OutstandingJobs(jobs) \ {jobs[k]}
  <2>1. new[k] = None /\ \A l \in Keys \ {k} : new[l] = jobs[l] OBVIOUS
  <2> HIDE DEF new
  <2> QED BY <2>1 DEF OutstandingJobs
<1>3. jobs[k] \in OutstandingJobs(jobs) BY DEF OutstandingJobs
<1>4. /\ IsFiniteSet(OutstandingJobs(jobs) \ {jobs[k]})
      /\ Cardinality(OutstandingJobs(jobs) \ {jobs[k]}) = Cardinality(OutstandingJobs(jobs)) - 1
  BY <1>3, FS_RemoveElement
<1>5. Cardinality(OutstandingJobs(jobs)) \in Nat \ {0}
  BY <1>3, FS_CardinalityType, FS_EmptySet
<1> QED BY <1>1, <1>2, <1>4, <1>5

\* No job is outstanding in an empty map.
LEMMA NoJobs ==
    ASSUME NEW jobs, jobs = [k \in Keys |-> None]
    PROVE  OutstandingJobs(jobs) = {} /\ IsFiniteSet(OutstandingJobs(jobs))
           /\ Cardinality(OutstandingJobs(jobs)) = 0
<1>1. OutstandingJobs(jobs) = {} BY DEF OutstandingJobs
<1> QED BY <1>1, FS_EmptySet

-----------------------------------------------------------------------------
(* What the types say.                                                     *)

JobType == [key_ : Keys \cup {None}, requests_ : Seq(Requests), resolver_ : BOOLEAN]
RequestType == [job_ : Requests \cup {None}, callback_ : BOOLEAN]

LEMMA TypeFacts ==
    ASSUME Types
    PROVE  /\ \A j \in Requests :
                /\ job[j] \in JobType
                /\ job[j].requests_ \in Seq(Requests) /\ Len(job[j].requests_) \in Nat
                /\ job[j].key_ \in Keys \cup {None} /\ job[j].resolver_ \in BOOLEAN
                /\ List(j) \subseteq Requests
                /\ \A r : r \in List(j) <=>
                     \E i \in 1..Len(job[j].requests_) : job[j].requests_[i] = r
           /\ \A r \in Requests :
                /\ request[r] \in RequestType
                /\ request[r].job_ \in Requests \cup {None} /\ request[r].callback_ \in BOOLEAN
                /\ client[r] \in {"unused", "waiting", "done", "ignored"}
                /\ GetEffectiveKeyForRequest(r) \in Keys
           /\ pending_requests_ \in Seq(Requests) /\ ToSet(pending_requests_) \subseteq Requests
           /\ jobs_ \in [Keys -> Requests \cup {None}]
           /\ Outstanding \subseteq Requests /\ OnTheWay \subseteq Requests
           /\ None \notin Requests /\ NoJob \in JobType /\ NoRequest \in RequestType
<1>1. \A j \in Requests : job[j] \in JobType BY DEF Types, TypeOK, JobType
<1>2. \A j \in Requests :
        /\ job[j].requests_ \in Seq(Requests) /\ Len(job[j].requests_) \in Nat
        /\ job[j].key_ \in Keys \cup {None} /\ job[j].resolver_ \in BOOLEAN
  BY <1>1 DEF JobType
<1>3. \A j \in Requests :
        /\ List(j) \subseteq Requests
        /\ \A r : r \in List(j) <=>
             \E i \in 1..Len(job[j].requests_) : job[j].requests_[i] = r
  <2> TAKE j \in Requests
  <2>1. job[j].requests_ \in Seq(Requests) BY <1>2
  <2> QED BY <2>1, ToSetElems DEF List
<1>4. \A r \in Requests :
        /\ request[r] \in RequestType
        /\ request[r].job_ \in Requests \cup {None} /\ request[r].callback_ \in BOOLEAN
  BY DEF Types, TypeOK, RequestType
<1>5. \A r \in Requests : client[r] \in {"unused", "waiting", "done", "ignored"}
  BY DEF Types, TypeOK, CallbackOnce
<1>6. \A r \in Requests : GetEffectiveKeyForRequest(r) \in Keys
  <2> TAKE r \in Requests
  <2>1. Info[r].hostname \in Hosts /\ Info[r].address_family \in Families
    BY ResolverAssumption
  <2>2. default_address_family_ \in Families BY DEF Types, TypeOK
  <2> QED BY <2>1, <2>2 DEF GetEffectiveKeyForRequest, Keys
<1>7. pending_requests_ \in Seq(Requests) /\ ToSet(pending_requests_) \subseteq Requests
  <2>1. pending_requests_ \in Seq(Requests) BY DEF Types, TypeOK
  <2> QED BY <2>1, ToSetElems
<1>8. jobs_ \in [Keys -> Requests \cup {None}] /\ Outstanding \subseteq Requests
  <2>1. jobs_ \in [Keys -> Requests \cup {None}] BY DEF Types, TypeOK
  <2> QED BY <2>1 DEF Outstanding, OutstandingJobs
<1>9. OnTheWay \subseteq Requests
  <2>1. tasks_ \in Seq(Requests) /\ loop \in Seq(Requests) /\ running \subseteq Requests
    BY DEF Types
  <2>2. ToSet(tasks_) \subseteq Requests /\ ToSet(loop) \subseteq Requests BY <2>1, ToSetElems
  <2> QED BY <2>1, <2>2 DEF OnTheWay
<1>10. None \notin Requests /\ NoJob \in JobType /\ NoRequest \in RequestType
  BY ResolverAssumption, NoneSet DEF NoJob, NoRequest, JobType, RequestType
<1> QED BY <1>1, <1>2, <1>3, <1>4, <1>5, <1>6, <1>7, <1>8, <1>9, <1>10

-----------------------------------------------------------------------------
(* Steps that leave jobs and queues alone.                                 *)

core == <<jobVars, frameVars, shutdown_, deleted, loop, tasks_, running>>

\* What may happen to requests that are neither queued nor in the list of a job: the
\* client is answered at once, or ignored after a shutdown.
LEMMA CoreSame ==
    ASSUME Types, Sound, UNCHANGED core,
           \A r \in Requests : \/ client'[r] = client[r]
                               \/ client[r] = "unused" /\ client'[r] = "done"
                               \/ shutdown_ /\ client[r] = "waiting" /\ client'[r] = "ignored"
    PROVE  Sound'
<1> USE DEF core, jobVars, frameVars
<1>1. Ways' BY DEF Sound, Ways, OnTheWay
<1>2. Mapped' BY DEF Sound, Mapped, OnTheWay, Outstanding
<1>3. Counted' BY DEF Sound, Counted, Outstanding
<1>4. Listed'
  <2>1. \A j \in Requests : List(j)' = List(j) /\ List(j) \subseteq Requests
    BY TypeFacts DEF List
  <2>2. \A r \in Requests : client'[r] = "unused" => client[r] = "unused" BY TypeFacts
  <2>3. Listed BY DEF Sound
  <2> QED BY <2>1, <2>2, <2>3 DEF Listed
<1>5. Answerable'
  <2>1. \A r \in Requests : client'[r] = "unused" => client[r] = "unused" BY TypeFacts
  <2>2. \A r \in Requests : client'[r] = "waiting" => client[r] = "waiting" BY TypeFacts
  <2>3. \A r \in Requests : client[r] \in {"waiting", "ignored"} =>
                                client'[r] \in {"waiting", "ignored"}
    OBVIOUS
  <2>4. \A r \in Requests : ~shutdown_ /\ client[r] = "waiting" => client'[r] = "waiting"
    OBVIOUS
  <2>5. \A j \in Requests : \A i \in 1..Len(job[j].requests_) : job[j].requests_[i] \in Requests
    BY TypeFacts
  <2>6. \A r \in Requests : Expected(r)' <=> Expected(r) BY DEF Expected, Outstanding, ToCome
  <2>7. \A j, i : ToCome(j, i)' <=> ToCome(j, i) BY DEF ToCome
  <2>8. Answerable BY DEF Sound
  <2> QED BY <2>1, <2>2, <2>3, <2>4, <2>5, <2>6, <2>7, <2>8, TypeFacts DEF Answerable
<1> QED BY <1>1, <1>2, <1>3, <1>4, <1>5 DEF Sound

\* While there is no job there is a free slot, and so nothing is queued.
LEMMA NothingQueued ==
    ASSUME Types, Sound, NoIdleSlot, ~shutdown_, ~deleted, OutstandingJobs(jobs_) = {}
    PROVE  pending_requests_ = <<>>
<1>1. Cardinality(OutstandingJobs(jobs_)) = 0 BY FS_EmptySet
<1>2. num_outstanding_jobs_ = 0 BY <1>1 DEF Sound, Counted, Outstanding
<1>3. max_jobs_ \in Nat \ {0} BY ResolverAssumption
<1>4. max_outstanding_jobs_ \in Nat \ {0} BY DEF Types, TypeOK
<1>5. CanCreateJobForPool(jobs_, num_outstanding_jobs_)
  BY <1>1, <1>2, <1>3, <1>4 DEF CanCreateJobForPool
<1> QED BY <1>5 DEF NoIdleSlot

\* HostCache::Set holds only keys.
LEMMA EntriesType ==
    ASSUME entries_ \subseteq Keys, NEW key \in Keys, NEW e \in SetEntry(key)
    PROVE  e \subseteq Keys
BY DEF SetEntry, Compact

\* The calls and tasks that touch neither jobs nor queues.
LEMMA QuietStep ==
    ASSUME IInv, ~failed,
           \/ \E r \in Requests : ResolveNow(r) \/ CancelRequestIgnored(r)
           \/ \E family \in Families : SetDefaultAddressFamily(family) \/ OnProbeComplete(family)
           \/ \E c \in Constraints : SetPoolConstraints(c[1], c[2])
           \/ ProbeIPv6Support \/ OnIPAddressChanged \/ ExitProgram
    PROVE  IInv'
<1> USE DEF jobVars, limitVars, frameVars, familyVars, poolVars, threadVars
<1>0. Types /\ Sound /\ NoIdleSlot /\ TypeOK BY DEF IInv, Types
<1>1. ASSUME NEW r \in Requests, ResolveNow(r) PROVE IInv'
  <2>1. /\ UNCHANGED <<core, limitVars, familyVars, failed>>
        /\ client' = [client EXCEPT ![r] = "done"] /\ client[r] = "unused"
    BY <1>1 DEF ResolveNow, core
  <2>2. entries_' \subseteq Keys
    BY <1>0, <1>1, TypeFacts, EntriesType DEF ResolveNow, TypeOK
  <2>3. TypeOK' /\ CallbackOnce'
    BY <1>0, <2>1, <2>2 DEF TypeOK, Types, CallbackOnce, core
  <2>4. Types' BY <1>0, <2>1, <2>3 DEF Types, core
  <2>5. Sound' BY <1>0, <2>1, CoreSame DEF Types, TypeOK
  <2>6. NoIdleSlot' BY <1>0, <2>1 DEF NoIdleSlot, CanCreateJobForPool, core
  <2> QED BY <2>4, <2>5, <2>6 DEF IInv
<1>2. ASSUME NEW r \in Requests, CancelRequestIgnored(r) PROVE IInv'
  <2>1. /\ UNCHANGED <<core, limitVars, familyVars, failed, entries_>>
        /\ client' = [client EXCEPT ![r] = "ignored"] /\ client[r] = "waiting" /\ shutdown_
    BY <1>2 DEF CancelRequestIgnored, core
  <2>3. TypeOK' /\ CallbackOnce'
    BY <1>0, <2>1 DEF TypeOK, Types, CallbackOnce, core
  <2>4. Types' BY <1>0, <2>1, <2>3 DEF Types, core
  <2>5. Sound' BY <1>0, <2>1, CoreSame DEF Types, TypeOK
  <2>6. NoIdleSlot' BY <1>0, <2>1 DEF NoIdleSlot, CanCreateJobForPool, core
  <2> QED BY <2>4, <2>5, <2>6 DEF IInv
<1>3. ASSUME NEW c \in Constraints, SetPoolConstraints(c[1], c[2]) PROVE IInv'
  <2>1. /\ UNCHANGED <<core, familyVars, failed, entries_, client>>
        /\ max_outstanding_jobs_' = c[1] /\ max_pending_requests_' = c[2]
        /\ OutstandingJobs(jobs_) = {} /\ ~deleted
    BY <1>3 DEF SetPoolConstraints, core, Alive
  <2>2. c[1] \in Nat \ {0} /\ c[2] \in Nat BY ResolverAssumption
  <2>3. TypeOK' /\ CallbackOnce'
    BY <1>0, <2>1, <2>2 DEF TypeOK, Types, CallbackOnce, core
  <2>4. Types' BY <1>0, <2>1, <2>3 DEF Types, core
  <2>5. Sound' BY <1>0, <2>1, CoreSame
  <2>6. NoIdleSlot' BY <1>0, <2>1, NothingQueued DEF NoIdleSlot, core
  <2> QED BY <2>4, <2>5, <2>6 DEF IInv
<1>4. ASSUME UNCHANGED <<core, limitVars, failed, client>>,
             entries_' \subseteq Keys, default_address_family_' \in Families,
             ipv6_probe_job_' \in BOOLEAN, ipv6_probe_monitoring_' \in BOOLEAN
      PROVE  IInv'
  <2>3. TypeOK' /\ CallbackOnce'
    BY <1>0, <1>4 DEF TypeOK, Types, CallbackOnce, core
  <2>4. Types' BY <1>0, <1>4, <2>3 DEF Types, core
  <2>5. Sound' BY <1>0, <1>4, CoreSame
  <2>6. NoIdleSlot' BY <1>0, <1>4 DEF NoIdleSlot, CanCreateJobForPool, core
  <2> QED BY <2>4, <2>5, <2>6 DEF IInv
<1>5. ASSUME NEW family \in Families, SetDefaultAddressFamily(family) PROVE IInv'
  BY <1>0, <1>4, <1>5 DEF SetDefaultAddressFamily, core, TypeOK
<1>6. ASSUME NEW family \in Families, OnProbeComplete(family) PROVE IInv'
  BY <1>0, <1>4, <1>6 DEF OnProbeComplete, core, TypeOK
<1>7. CASE ProbeIPv6Support
  BY <1>0, <1>4, <1>7 DEF ProbeIPv6Support, core, TypeOK, ClearEntries
<1>8. CASE OnIPAddressChanged
  <2>1. ipv6_probe_job_' \in BOOLEAN BY <1>8 DEF OnIPAddressChanged
  <2> QED BY <1>0, <1>4, <1>8, <2>1 DEF OnIPAddressChanged, core, TypeOK, ClearEntries
<1>9. CASE ExitProgram
  BY <1>0, <1>4, <1>9 DEF ExitProgram, Terminate, core, TypeOK
<1> QED BY <1>1, <1>2, <1>3, <1>5, <1>6, <1>7, <1>8, <1>9

\* The threads of the pool take tasks out of its queue and into their hands.
LEMMA PoolThreadsStep ==
    ASSUME IInv, ~failed, PoolThreads
    PROVE  IInv'
<1> USE DEF jobVars, limitVars, frameVars, familyVars
<1>0. Types /\ Sound /\ NoIdleSlot /\ TypeOK BY DEF IInv, Types
<1>1. UNCHANGED <<jobVars, limitVars, frameVars, entries_, familyVars, shutdown_, deleted, loop,
                  client, failed>>
  BY DEF PoolThreads
<1>2. \/ UNCHANGED <<tasks_, running>>
      \/ tasks_ # <<>> /\ Pop
  BY DEF PoolThreads, EnterWaitForTask, LeaveTimedWait, FinishWaitForTask
<1>3. NoIdleSlot' BY <1>0, <1>1 DEF NoIdleSlot, CanCreateJobForPool
<1>4. TypeOK' /\ CallbackOnce' BY <1>0, <1>1 DEF TypeOK, Types, CallbackOnce
<1>5. CASE UNCHANGED <<tasks_, running>>
  <2>1. Types' BY <1>0, <1>1, <1>4, <1>5 DEF Types
  <2>2. UNCHANGED core BY <1>1, <1>5 DEF core
  <2>3. Sound' BY <1>0, <1>1, <2>2, CoreSame
  <2> QED BY <1>3, <2>1, <2>3 DEF IInv
<1>6. CASE tasks_ # <<>> /\ Pop
  <2>1. /\ tasks_' = Tail(tasks_) /\ running' = running \cup {Head(tasks_)}
        /\ tasks_ \in Seq(Requests) /\ running \subseteq Requests /\ Distinct(tasks_, 0)
    BY <1>0, <1>6 DEF Pop, Types, Sound, Ways
  <2>2. /\ Head(tasks_) \in ToSet(tasks_) /\ Head(tasks_) \in Requests
        /\ tasks_' \in Seq(Requests) /\ Distinct(tasks_', 0)
        /\ ToSet(tasks_') = ToSet(tasks_) \ {Head(tasks_)}
    BY <1>6, <2>1, TailSet
  <2>3. Types' BY <1>0, <1>1, <1>4, <2>1, <2>2 DEF Types
  <2>4. OnTheWay' = OnTheWay BY <1>1, <2>1, <2>2 DEF OnTheWay
  <2>5. Ways' BY <1>0, <1>1, <2>1, <2>2, <2>4 DEF Sound, Ways
  <2>6. Mapped' BY <1>0, <1>1, <2>4 DEF Sound, Mapped, Outstanding
  <2>7. Counted' BY <1>0, <1>1 DEF Sound, Counted, Outstanding
  <2>8. Listed' BY <1>0, <1>1 DEF Sound, Listed, List
  <2>9. Answerable' BY <1>0, <1>1 DEF Sound, Answerable, Expected, Outstanding, ToCome
  <2> QED BY <1>3, <2>3, <2>5, <2>6, <2>7, <2>8, <2>9 DEF IInv, Sound
<1> QED BY <1>2, <1>5, <1>6

-----------------------------------------------------------------------------
(* The calls of the client.                                                *)

\* A request that was not made yet is in no list, and no job has its name.
LEMMA Unused ==
    ASSUME Types, Sound, NEW r \in Requests, client[r] = "unused"
    PROVE  /\ r \notin ToSet(pending_requests_) /\ \A j \in Requests : r \notin List(j)
           /\ job[r].requests_ = <<>> /\ r \notin OnTheWay /\ r # cur_completing_job_
           /\ r \notin Outstanding /\ request[r].job_ = None
<1>1. \A j \in Requests : r \notin List(j) BY DEF Sound, Listed
<1>2. job[r].requests_ = <<>> BY <1>1 DEF Sound, Listed
<1>3. r \notin OnTheWay /\ r # cur_completing_job_
  BY <1>2, ResolverAssumption DEF Sound, Ways
<1>4. r \notin Outstanding BY <1>3 DEF Sound, Mapped
<1>5. r \notin ToSet(pending_requests_) /\ request[r].job_ = None BY DEF Sound, Answerable
<1> QED BY <1>1, <1>2, <1>3, <1>4, <1>5

LEMMA JoinJobStep ==
    ASSUME IInv, ~failed, NEW r \in Requests, JoinJob(r)
    PROVE  IInv'
<1> USE DEF jobVars, limitVars, frameVars, familyVars, poolVars, threadVars
<1> PICK j : j = jobs_[GetEffectiveKeyForRequest(r)] OBVIOUS
<1> PICK s : s = job[j].requests_ OBVIOUS
<1>0. Types /\ Sound /\ NoIdleSlot /\ TypeOK BY DEF IInv, Types
<1>1. /\ client[r] = "unused" /\ ~shutdown_ /\ j # None
      /\ job' = [job EXCEPT ![j].requests_ = Append(@, r)]
      /\ request' = [request EXCEPT ![r] = [job_ |-> j, callback_ |-> TRUE]]
      /\ client' = [client EXCEPT ![r] = "waiting"]
      /\ UNCHANGED <<limitVars, frameVars, entries_, familyVars, shutdown_, deleted, loop, failed,
                     jobs_, pending_requests_, num_outstanding_jobs_, poolVars>>
  BY DEF JoinJob, Pending, WaitForAnswer
<1>2. GetEffectiveKeyForRequest(r) \in Keys BY <1>0, TypeFacts
<1>3. j \in Requests /\ j \in Outstanding /\ jobs_ \in [Keys -> Requests \cup {None}]
  BY <1>0, <1>1, <1>2, TypeFacts DEF Outstanding, OutstandingJobs
<1>4. j # cur_completing_job_ /\ job[j].resolver_ BY <1>0, <1>3 DEF Sound, Mapped
<1>5. /\ r \notin ToSet(pending_requests_) /\ \A k \in Requests : r \notin List(k)
      /\ request[r].job_ = None
  BY <1>0, <1>1, Unused
<1>6. s \in Seq(Requests) /\ Len(s) \in Nat /\ List(j) = ToSet(s) BY <1>0, <1>3, TypeFacts DEF List
<1>7. /\ Append(s, r) \in Seq(Requests) /\ ToSet(Append(s, r)) = List(j) \cup {r}
      /\ Distinct(s, 0) => Distinct(Append(s, r), 0)
      /\ Len(Append(s, r)) = Len(s) + 1 /\ Append(s, r)[Len(s) + 1] = r
      /\ \A i \in 1..Len(s) : Append(s, r)[i] = s[i]
  BY <1>3, <1>5, <1>6, AppendSet
<1>8. /\ \A k \in Requests \ {j} : job'[k] = job[k]
      /\ job'[j].requests_ = Append(s, r) /\ job'[j].resolver_ = job[j].resolver_
      /\ job'[j].key_ = job[j].key_
      /\ job' \in [Requests -> JobType]
  <2>1. job \in [Requests -> JobType] /\ job[j] \in JobType BY <1>0, <1>3, TypeFacts DEF TypeOK, JobType
  <2>2. job' = [job EXCEPT ![j] = [job[j] EXCEPT !.requests_ = Append(s, r)]] BY <1>1
  <2>3. [job[j] EXCEPT !.requests_ = Append(s, r)] \in JobType BY <1>7, <2>1 DEF JobType
  <2>4. /\ [job[j] EXCEPT !.requests_ = Append(s, r)].requests_ = Append(s, r)
        /\ [job[j] EXCEPT !.requests_ = Append(s, r)].resolver_ = job[j].resolver_
        /\ [job[j] EXCEPT !.requests_ = Append(s, r)].key_ = job[j].key_
    BY <2>1 DEF JobType
  <2> QED BY <1>3, <2>1, <2>2, <2>3, <2>4
<1>9. /\ \A x \in Requests \ {r} : request'[x] = request[x] /\ client'[x] = client[x]
      /\ request'[r].job_ = j /\ request'[r].callback_ /\ client'[r] = "waiting"
      /\ request' \in [Requests -> RequestType]
  BY <1>0, <1>1, <1>3 DEF TypeOK, RequestType
<1>10. Types'
  <2>1. cur_completing_job_' # None => it' \in 1..Len(job'[cur_completing_job_'].requests_)
    BY <1>0, <1>1, <1>4, <1>8 DEF TypeOK
  <2>2. client' \in [Requests -> {"unused", "waiting", "done", "ignored", "surprised"}]
    BY <1>0, <1>1 DEF TypeOK
  <2>3. TypeOK' BY <1>0, <1>1, <1>8, <1>9, <2>1, <2>2 DEF TypeOK, JobType, RequestType
  <2>4. CallbackOnce' BY <1>0, <1>9 DEF Types, CallbackOnce
  <2> QED BY <1>0, <1>1, <2>3, <2>4 DEF Types
<1>11. NoIdleSlot' BY <1>0, <1>1 DEF NoIdleSlot, CanCreateJobForPool
<1>12. List(j)' = List(j) \cup {r} /\ \A k \in Requests \ {j} : List(k)' = List(k)
  BY <1>7, <1>8 DEF List
<1>13. Ways'
  <2>1. Append(s, r) # <<>> BY <1>7, NoneSet
  <2>2. \A k \in Requests : job[k].requests_ # <<>> => job'[k].requests_ # <<>>
    BY <1>8, <2>1
  <2>3. OnTheWay' = OnTheWay /\ OnTheWay \subseteq Requests
    BY <1>0, <1>1, TypeFacts DEF OnTheWay
  <2>4. cur_completing_job_ \in Requests \cup {None} BY <1>0 DEF TypeOK
  <2> QED BY <1>0, <1>1, <2>2, <2>3, <2>4 DEF Sound, Ways
<1>14. Mapped'
  <2>1. \A k \in Requests : job'[k].resolver_ = job[k].resolver_ /\ job'[k].key_ = job[k].key_
    BY <1>8
  <2> QED BY <1>0, <1>1, <2>1, TypeFacts DEF Sound, Mapped, Outstanding, OnTheWay
<1>15. Counted'
  <2>1. \A k \in Requests : job'[k].resolver_ = job[k].resolver_ BY <1>8
  <2>2. cur_completing_job_ \in Requests \cup {None} BY <1>0 DEF TypeOK
  <2> QED BY <1>0, <1>1, <2>1, <2>2 DEF Sound, Counted, Outstanding
<1>16. Listed'
  <2>1. Listed BY <1>0 DEF Sound
  <2>2. \A k \in Requests : Distinct(job'[k].requests_, 0) BY <1>7, <1>8, <2>1 DEF Listed
  <2>3. \A k \in Requests : job'[k].requests_ # <<>> => k \in List(k)'
    <3>1. j \in List(j)
      <4>1. job[j].requests_ # <<>> BY <1>0, <1>3 DEF Sound, Mapped, Ways
      <4> QED BY <1>3, <2>1, <4>1 DEF Listed
    <3> QED BY <1>8, <1>12, <2>1, <3>1 DEF Listed
  <2>4. \A k, l \in Requests : \A x \in List(k)' : x \in List(l)' => k = l
    BY <1>5, <1>12, <2>1 DEF Listed
  <2>5. \A k \in Requests : \A x \in List(k)' : x \notin ToSet(pending_requests_)
                                               /\ client'[x] # "unused"
    BY <1>0, <1>5, <1>9, <1>12, <2>1, TypeFacts DEF Listed
  <2> QED BY <1>1, <2>1, <2>2, <2>3, <2>4, <2>5 DEF Listed
<1>17. Answerable'
  <2>1. Answerable BY <1>0 DEF Sound
  <2>2. \A x \in Requests : client'[x] = "unused" => request'[x].job_ = None
    BY <1>9, <2>1 DEF Answerable
  <2>3. \A x \in ToSet(pending_requests_) :
          /\ request'[x].job_ = None /\ client'[x] \in {"waiting", "ignored"}
          /\ ~shutdown_ => client'[x] = "waiting"
    BY <1>0, <1>5, <1>9, <2>1, TypeFacts DEF Answerable
  <2>4. ASSUME NEW k \in Requests, job'[k].resolver_, NEW i \in 1..Len(job'[k].requests_),
               ToCome(k, i), request'[job'[k].requests_[i]].callback_
        PROVE  client'[job'[k].requests_[i]] \in {"waiting", "ignored"}
    <3>1. CASE k = j /\ i = Len(s) + 1 BY <1>7, <1>8, <1>9, <3>1
    <3>2. CASE ~(k = j /\ i = Len(s) + 1)
      <4>1. i \in 1..Len(job[k].requests_) /\ job'[k].requests_[i] = job[k].requests_[i]
        <5>1. CASE k = j
          <6>1. i \in 1..(Len(s) + 1) /\ i # Len(s) + 1 BY <1>7, <1>8, <2>4, <3>2, <5>1
          <6>2. i \in 1..Len(s) BY <1>6, <6>1
          <6> QED BY <1>7, <1>8, <5>1, <6>2
        <5>2. CASE k # j BY <1>8, <2>4, <5>2
        <5> QED BY <5>1, <5>2
      <4>2. job[k].requests_[i] \in List(k) /\ List(k) \subseteq Requests
        BY <1>0, <4>1, TypeFacts
      <4>3. job[k].requests_[i] \in Requests \ {r} BY <1>5, <4>2
      <4>4. job[k].resolver_ BY <1>8, <2>4
      <4>5. request[job[k].requests_[i]].callback_ BY <1>9, <2>4, <4>1, <4>3
      <4>6. client[job[k].requests_[i]] \in {"waiting", "ignored"}
        BY <2>1, <2>4, <4>1, <4>4, <4>5 DEF Answerable
      <4> QED BY <1>9, <4>1, <4>3, <4>6
    <3> QED BY <3>1, <3>2
  <2>5. ASSUME ~shutdown_, ~deleted, NEW x \in Requests, client'[x] = "waiting"
        PROVE  Expected(x)'
    <3>1. CASE x = r
      <4>1. Len(s) + 1 \in 1..Len(job'[j].requests_) BY <1>6, <1>7, <1>8
      <4>2. job'[j].requests_[Len(s) + 1] = r BY <1>7, <1>8
      <4>3. ToCome(j, Len(s) + 1)' BY <1>1, <1>4 DEF ToCome
      <4>4. j \in Outstanding' BY <1>1, <1>3 DEF Outstanding
      <4> QED BY <1>1, <1>3, <1>9, <3>1, <4>1, <4>2, <4>3, <4>4, ResolverAssumption DEF Expected
    <3>2. CASE x # r
      <4>1. request'[x] = request[x] /\ client[x] = "waiting" BY <1>9, <2>5, <3>2
      <4>2. Expected(x) BY <2>1, <2>5, <4>1 DEF Answerable
      <4>3. request[x].job_ \in Requests \cup {None} BY <1>0, TypeFacts
      <4>4. ASSUME NEW k \in Requests, NEW i \in 1..Len(job[k].requests_)
            PROVE  i \in 1..Len(job'[k].requests_)
                   /\ job'[k].requests_[i] = job[k].requests_[i]
        <5>1. CASE k = j
          <6>1. i \in 1..Len(s) /\ i \in 1..(Len(s) + 1) BY <1>6, <4>4, <5>1
          <6> QED BY <1>7, <1>8, <5>1, <6>1
        <5>2. CASE k # j BY <1>8, <4>4, <5>2
        <5> QED BY <5>1, <5>2
      <4>5. \A k, i : ToCome(k, i)' <=> ToCome(k, i) BY <1>1 DEF ToCome
      <4> QED BY <1>1, <4>1, <4>2, <4>3, <4>4, <4>5 DEF Expected, Outstanding
    <3> QED BY <3>1, <3>2
  <2>6. \A k, i : ToCome(k, i)' <=> ToCome(k, i) BY <1>1 DEF ToCome
  <2> QED BY <1>1, <2>2, <2>3, <2>4, <2>5, <2>6 DEF Answerable
<1> QED BY <1>10, <1>11, <1>13, <1>14, <1>15, <1>16, <1>17 DEF IInv, Sound

\* Requests join the queue (those in A) or get their answer (those in G); the jobs stay
\* as they are.
LEMMA QueueChange ==
    ASSUME Types, Sound, ~deleted, NEW A \in SUBSET Requests, NEW G \in SUBSET Requests,
           UNCHANGED <<jobs_, num_outstanding_jobs_, job, frameVars, shutdown_, deleted, loop,
                       tasks_, running>>,
           \A x \in A : client[x] = "unused",
           pending_requests_' \in Seq(Requests), Distinct(pending_requests_', 0),
           ToSet(pending_requests_') = (ToSet(pending_requests_) \cup A) \ G,
           \A x \in A \ G : /\ request'[x].job_ = None /\ request'[x].callback_
                            /\ client'[x] = "waiting",
           \A x \in G : ~request'[x].callback_ /\ client'[x] = "done",
           \A x \in Requests \ (A \cup G) : request'[x] = request[x] /\ client'[x] = client[x]
    PROVE  Sound'
<1> USE DEF frameVars
<1>1. Ways' BY DEF Sound, Ways, OnTheWay
<1>2. Mapped' BY DEF Sound, Mapped, OnTheWay, Outstanding
<1>3. Counted' BY DEF Sound, Counted, Outstanding
<1>4. \A x \in A : x \notin ToSet(pending_requests_) /\ \A k \in Requests : x \notin List(k)
  BY Unused
<1>5. Listed'
  <2>1. \A k \in Requests : List(k)' = List(k) /\ List(k) \subseteq Requests
    BY TypeFacts DEF List
  <2>2. \A x \in Requests \ A : client[x] # "unused" => client'[x] # "unused" OBVIOUS
  <2>3. Listed BY DEF Sound
  <2> QED BY <1>4, <2>1, <2>2, <2>3 DEF Listed
<1>6. Answerable'
  <2>1. Answerable BY DEF Sound
  <2>2. \A x \in Requests : client'[x] = "unused" => request'[x].job_ = None
    BY <2>1 DEF Answerable
  <2>3. \A x \in ToSet(pending_requests_)' :
          /\ request'[x].job_ = None /\ client'[x] \in {"waiting", "ignored"}
          /\ ~shutdown_ => client'[x] = "waiting"
    BY <2>1, TypeFacts DEF Answerable
  <2>4. ASSUME NEW k \in Requests, job[k].resolver_, NEW i \in 1..Len(job[k].requests_),
               ToCome(k, i), request'[job[k].requests_[i]].callback_
        PROVE  client'[job[k].requests_[i]] \in {"waiting", "ignored"}
    <3>1. job[k].requests_[i] \in List(k) /\ List(k) \subseteq Requests BY TypeFacts
    <3>2. job[k].requests_[i] \in Requests \ (A \cup G) BY <1>4, <2>4, <3>1
    <3>3. request[job[k].requests_[i]].callback_ BY <2>4, <3>2
    <3>4. client[job[k].requests_[i]] \in {"waiting", "ignored"}
      BY <2>1, <2>4, <3>3 DEF Answerable
    <3> QED BY <3>2, <3>4
  <2>5. ASSUME ~shutdown_, NEW x \in Requests, client'[x] = "waiting"
        PROVE  Expected(x)'
    <3>1. CASE x \in A BY <2>5, <3>1 DEF Expected
    <3>2. CASE x \notin A
      <4>1. x \in Requests \ (A \cup G) /\ client[x] = "waiting" BY <2>5, <3>2
      <4>2. Expected(x) BY <2>1, <2>5, <4>1 DEF Answerable
      <4> QED BY <4>1, <4>2 DEF Expected, Outstanding, ToCome
    <3> QED BY <3>1, <3>2
  <2>6. \A k, i : ToCome(k, i)' <=> ToCome(k, i) BY DEF ToCome
  <2> QED BY <2>2, <2>3, <2>4, <2>5, <2>6 DEF Answerable
<1> QED BY <1>1, <1>2, <1>3, <1>5, <1>6 DEF Sound

LEMMA CancelRequestStep ==
    ASSUME IInv, ~failed, NEW r \in Requests, CancelRequest(r)
    PROVE  IInv'
<1> USE DEF limitVars, frameVars, familyVars, poolVars, threadVars
<1>0. Types /\ Sound /\ NoIdleSlot /\ TypeOK BY DEF IInv, Types
<1>1. /\ client[r] = "waiting" /\ ~shutdown_ /\ ~deleted
      /\ client' = [client EXCEPT ![r] = "done"] /\ request' = [request EXCEPT ![r] = NoRequest]
      /\ \/ request[r].job_ # None /\ UNCHANGED pending_requests_
         \/ request[r].job_ = None /\ pending_requests_' = Without(pending_requests_, {r})
      /\ UNCHANGED <<jobs_, num_outstanding_jobs_, job, limitVars, frameVars, entries_,
                     familyVars, shutdown_, deleted, loop, failed, poolVars>>
  BY DEF CancelRequest, Alive
<1>2. /\ pending_requests_ \in Seq(Requests) /\ Distinct(pending_requests_, 0)
      /\ ToSet(pending_requests_) \subseteq Requests
  BY <1>0, TypeFacts DEF Sound, Listed
<1>3. /\ pending_requests_' \in Seq(Requests) /\ Distinct(pending_requests_', 0)
      /\ ToSet(pending_requests_') = ToSet(pending_requests_) \ {r}
  <2>1. CASE request[r].job_ # None /\ UNCHANGED pending_requests_
    <3>1. r \notin ToSet(pending_requests_) BY <1>0, <2>1 DEF Sound, Answerable
    <3> QED BY <1>2, <2>1, <3>1
  <2>2. CASE pending_requests_' = Without(pending_requests_, {r})
    <3>1. pending_requests_' = Among(pending_requests_, Requests \ {r}) BY <2>2 DEF Without
    <3>2. /\ pending_requests_' \in Seq(Requests) /\ Distinct(pending_requests_', 0)
          /\ ToSet(pending_requests_') = ToSet(pending_requests_) \cap (Requests \ {r})
      BY <1>2, <3>1, AmongSet
    <3> QED BY <1>2, <3>2
  <2> QED BY <1>1, <2>1, <2>2
<1>4. /\ \A x \in Requests \ {r} : request'[x] = request[x] /\ client'[x] = client[x]
      /\ ~request'[r].callback_ /\ client'[r] = "done"
      /\ request' \in [Requests -> RequestType]
  BY <1>0, <1>1, TypeFacts DEF TypeOK, RequestType, NoRequest
<1>5. Types'
  <2>1. client' \in [Requests -> {"unused", "waiting", "done", "ignored", "surprised"}]
    BY <1>0, <1>1 DEF TypeOK
  <2>2. TypeOK' BY <1>0, <1>1, <1>3, <1>4, <2>1 DEF TypeOK, RequestType
  <2>3. CallbackOnce' BY <1>0, <1>4 DEF Types, CallbackOnce
  <2> QED BY <1>0, <1>1, <2>2, <2>3 DEF Types
<1>6. NoIdleSlot'
  <2>1. pending_requests_' # <<>> => pending_requests_ # <<>>
    BY <1>3, TailSet, NoneSet
  <2> QED BY <1>0, <1>1, <2>1 DEF NoIdleSlot, CanCreateJobForPool
<1>7. Sound'
  <2>1. {} \in SUBSET Requests /\ {r} \in SUBSET Requests OBVIOUS
  <2>2. ToSet(pending_requests_') = (ToSet(pending_requests_) \cup {}) \ {r} BY <1>3
  <2> QED BY <1>0, <1>1, <1>3, <1>4, <2>1, <2>2, QueueChange
<1> QED BY <1>5, <1>6, <1>7 DEF IInv

LEMMA EnqueueRequestStep ==
    ASSUME IInv, ~failed, NEW r \in Requests, EnqueueRequest(r)
    PROVE  IInv'
<1> USE DEF limitVars, frameVars, familyVars, poolVars, threadVars
<1> DEFINE queue == Append(pending_requests_, r)
<1>0. Types /\ Sound /\ NoIdleSlot /\ TypeOK BY DEF IInv, Types
<1>1. /\ client[r] = "unused" /\ ~shutdown_ /\ ~deleted
      /\ ~CanCreateJobForPool(jobs_, num_outstanding_jobs_)
      /\ UNCHANGED <<jobs_, num_outstanding_jobs_, job, limitVars, frameVars, entries_,
                     familyVars, shutdown_, deleted, loop, failed, poolVars>>
  BY DEF EnqueueRequest, Pending, Alive
<1>2. /\ pending_requests_ \in Seq(Requests) /\ Distinct(pending_requests_, 0)
      /\ ToSet(pending_requests_) \subseteq Requests
  BY <1>0, TypeFacts DEF Sound, Listed
<1>3. r \notin ToSet(pending_requests_) /\ request[r].job_ = None BY <1>0, <1>1, Unused
<1>4. /\ queue \in Seq(Requests) /\ Distinct(queue, 0)
      /\ ToSet(queue) = ToSet(pending_requests_) \cup {r}
  BY <1>2, <1>3, AppendSet
<1>5. NoIdleSlot' BY <1>1 DEF NoIdleSlot, CanCreateJobForPool
<1>6. /\ request \in [Requests -> RequestType]
      /\ client \in [Requests -> {"unused", "waiting", "done", "ignored", "surprised"}]
  BY <1>0 DEF TypeOK, RequestType
<1>7. ASSUME NEW G \in SUBSET Requests,
             pending_requests_' \in Seq(Requests), Distinct(pending_requests_', 0),
             ToSet(pending_requests_') = (ToSet(pending_requests_) \cup {r}) \ G,
             request' \in [Requests -> RequestType],
             client' \in [Requests -> {"unused", "waiting", "done", "ignored", "surprised"}],
             \A x \in {r} \ G : /\ request'[x].job_ = None /\ request'[x].callback_
                                /\ client'[x] = "waiting",
             \A x \in G : ~request'[x].callback_ /\ client'[x] = "done",
             \A x \in Requests \ ({r} \cup G) : request'[x] = request[x] /\ client'[x] = client[x]
      PROVE  IInv'
  <2>1. TypeOK' BY <1>0, <1>1, <1>7 DEF TypeOK, RequestType
  <2>2. CallbackOnce' BY <1>0, <1>7 DEF Types, CallbackOnce
  <2>3. Types' BY <1>0, <1>1, <2>1, <2>2 DEF Types
  <2>4. {r} \in SUBSET Requests /\ \A x \in {r} : client[x] = "unused" BY <1>1
  <2>5. Sound' BY <1>0, <1>1, <1>7, <2>4, QueueChange
  <2> QED BY <1>5, <2>3, <2>5 DEF IInv
<1>8. CASE /\ pending_requests_' = queue
           /\ request' = [request EXCEPT ![r].callback_ = TRUE]
           /\ WaitForAnswer(r)
  <2>1. /\ request' \in [Requests -> RequestType]
        /\ request'[r].job_ = None /\ request'[r].callback_
        /\ \A x \in Requests \ {r} : request'[x] = request[x]
    BY <1>3, <1>6, <1>8 DEF RequestType
  <2>2. /\ client' \in [Requests -> {"unused", "waiting", "done", "ignored", "surprised"}]
        /\ client'[r] = "waiting" /\ \A x \in Requests \ {r} : client'[x] = client[x]
    BY <1>6, <1>8 DEF WaitForAnswer
  <2>3. {} \in SUBSET Requests /\ ToSet(queue) = (ToSet(pending_requests_) \cup {r}) \ {}
    BY <1>4
  <2> HIDE DEF queue
  <2> QED BY <1>4, <1>7, <1>8, <2>1, <2>2, <2>3
<1>9. ASSUME NEW i \in 1..Len(queue),
             pending_requests_' = Without(queue, {queue[i]}),
             request' = [request EXCEPT ![r].callback_ = TRUE, ![queue[i]].callback_ = FALSE],
             client' = [client EXCEPT ![r] = "waiting", ![queue[i]] = Told(@)]
      PROVE  IInv'
  <2> PICK e : e = queue[i] OBVIOUS
  <2> HIDE DEF queue
  <2>1. e \in ToSet(queue) /\ e \in Requests BY <1>4, <1>9, ToSetElems
  <2>2. /\ pending_requests_' \in Seq(Requests) /\ Distinct(pending_requests_', 0)
        /\ ToSet(pending_requests_') = (ToSet(pending_requests_) \cup {r}) \ {e}
    <3>1. pending_requests_' = Among(queue, Requests \ {e}) BY <1>9 DEF Without
    <3>2. /\ pending_requests_' \in Seq(Requests) /\ Distinct(pending_requests_', 0)
          /\ ToSet(pending_requests_') = ToSet(queue) \cap (Requests \ {e})
      BY <1>4, <3>1, AmongSet
    <3> QED BY <1>2, <1>4, <3>2
  <2>3. /\ request' \in [Requests -> RequestType]
        /\ ~request'[e].callback_
        /\ r # e => request'[r].job_ = None /\ request'[r].callback_
        /\ \A x \in Requests \ {r, e} : request'[x] = request[x]
    <3> DEFINE mid == [request EXCEPT ![r].callback_ = TRUE]
    <3>1. /\ mid \in [Requests -> RequestType] /\ mid[r].job_ = None /\ mid[r].callback_
          /\ \A x \in Requests \ {r} : mid[x] = request[x]
      BY <1>3, <1>6 DEF RequestType
    <3>2. request' = [mid EXCEPT ![e].callback_ = FALSE] BY <1>9
    <3> HIDE DEF mid
    <3> QED BY <2>1, <3>1, <3>2 DEF RequestType
  <2>4. e = r \/ client[e] = "waiting" BY <1>0, <1>1, <1>4, <2>1 DEF Sound, Answerable
  <2>5. /\ client' \in [Requests -> {"unused", "waiting", "done", "ignored", "surprised"}]
        /\ client'[e] = "done" /\ (r # e => client'[r] = "waiting")
        /\ \A x \in Requests \ {r, e} : client'[x] = client[x]
    <3>1. client[r] = "unused" /\ (e # r => client[e] = "waiting") BY <1>1, <2>4
    <3>2. /\ DOMAIN client' = Requests /\ client'[e] = "done"
          /\ r # e => client'[r] = "waiting"
          /\ \A x \in Requests \ {r, e} : client'[x] = client[x]
      BY <1>6, <1>9, <2>1, <3>1 DEF Told
    <3>3. client' = [x \in Requests |-> client'[x]] BY <1>6, <1>9, <2>1
    <3> QED BY <1>6, <3>2, <3>3
  <2>6. {e} \in SUBSET Requests BY <2>1
  <2> QED BY <1>7, <2>2, <2>3, <2>5, <2>6
<1> QED BY <1>8, <1>9 DEF EnqueueRequest

-----------------------------------------------------------------------------
(* Jobs are created, complete and go.                                      *)

\* A job is created for the requests of T (New), and one that was completed or cancelled
\* (Old) is deleted with its requests (Freed) or goes on to its next callback.
Change(Old, Freed, New, T) ==
    /\ UNCHANGED <<shutdown_, deleted>>
    /\ shutdown_ \/ deleted => New = {}
    /\ New = {} => T = {}
    /\ New \subseteq T /\ New \cap Old = {} /\ \A k, l \in New : k = l
    /\ \A x \in T : /\ \A k \in Requests : x \notin List(k)
                    /\ request'[x].job_ \in New /\ request'[x].callback_
                    /\ client'[x] = "waiting"
    /\ \A k \in New : /\ job'[k].resolver_ /\ k # cur_completing_job_'
                      /\ Distinct(job'[k].requests_, 0) /\ ToSet(job'[k].requests_) = T
    /\ \A k \in Freed : job'[k] = NoJob /\ k # cur_completing_job_'
    /\ \A k \in Old \ Freed : /\ job'[k] = job[k] /\ k = cur_completing_job_'
                              /\ job[k].requests_ # <<>> /\ job[k].resolver_ /\ ~deleted
    /\ \A k \in Old \ Freed : \A i \in 1..Len(job[k].requests_) :
          i > it' => ToCome(k, i) /\ client'[job[k].requests_[i]] = client[job[k].requests_[i]]
    /\ \A k \in Old : ~deleted /\ (k \in Outstanding \/ k = cur_completing_job_) =>
          \A i \in 1..Len(job[k].requests_) :
             ToCome(k, i) /\ request[job[k].requests_[i]].callback_ =>
                \/ client'[job[k].requests_[i]] # "waiting"
                \/ k \notin Freed /\ i > it'
    /\ \A k \in Requests \ (Old \cup New) :
          /\ job'[k] = job[k] /\ (k = cur_completing_job_' <=> k = cur_completing_job_)
          /\ k = cur_completing_job_' => it' = it
    /\ \A x \in Requests \ T :
          /\ \/ request'[x] = request[x]
             \/ request'[x] = NoRequest /\ \E k \in Freed : x \in List(k)
          /\ \/ client'[x] = client[x]
             \/ client'[x] = "done" /\ \E k \in Old : x \in List(k)
    /\ Distinct(pending_requests_', 0)
    /\ ToSet(pending_requests_') = ToSet(pending_requests_) \ T
    /\ Outstanding' = (Outstanding \ Old) \cup New /\ IsFiniteSet(Outstanding')
    /\ ~shutdown_ /\ ~deleted => num_outstanding_jobs_' = Cardinality(Outstanding')
    /\ \A k \in Keys : jobs_'[k] # None => job'[jobs_'[k]].key_ = k
    /\ Distinct(tasks_', 0) /\ Distinct(loop', 0)
    /\ \A k \in Requests : /\ k \in ToSet(tasks_)' => k \notin running' /\ k \notin ToSet(loop)'
                           /\ k \in running' => k \notin ToSet(loop)'
    /\ OnTheWay' = (OnTheWay \ Old) \cup New

LEMMA JobsChange ==
    ASSUME Types, Sound, Types',
           NEW Old \in SUBSET Requests, NEW Freed \in SUBSET Old,
           NEW New \in SUBSET Requests, NEW T \in SUBSET Requests, Change(Old, Freed, New, T)
    PROVE  Sound'
<1> USE DEF Change
<1>1. \A k \in New : /\ job[k].requests_ = <<>> /\ k \notin Outstanding
                     /\ k # cur_completing_job_ /\ k \notin OnTheWay
  <2> TAKE k \in New
  <2>1. job[k].requests_ = <<>> BY DEF Sound, Listed
  <2>2. k \notin OnTheWay /\ k # cur_completing_job_ BY <2>1, ResolverAssumption DEF Sound, Ways
  <2> QED BY <2>1, <2>2 DEF Sound, Mapped
<1>2. /\ \A k \in New : List(k)' = T /\ job'[k].requests_ # <<>>
      /\ \A k \in Freed : List(k)' = {} /\ job'[k].requests_ = <<>> /\ ~job'[k].resolver_
      /\ \A k \in Requests \ (Freed \cup New) : job'[k] = job[k] /\ List(k)' = List(k)
  <2>1. \A k \in Requests \ (Freed \cup New) : job'[k] = job[k] OBVIOUS
  <2>2. \A k \in Freed : job'[k].requests_ = <<>> /\ ~job'[k].resolver_ BY DEF NoJob
  <2>3. \A k \in New : ToSet(job'[k].requests_) = T /\ T # {} OBVIOUS
  <2> QED BY <2>1, <2>2, <2>3, NoneSet DEF List
<1>3. Ways'
  <2>1. Ways BY DEF Sound
  <2>2. OnTheWay \subseteq Requests /\ None \notin Requests BY TypeFacts
  <2>3. \A k \in OnTheWay' : job'[k].requests_ # <<>> /\ k # cur_completing_job_'
    <3> TAKE k \in OnTheWay'
    <3>1. CASE k \in New BY <1>2, <3>1
    <3>2. CASE k \notin New
      <4>1. k \in OnTheWay /\ k \in Requests \ (Old \cup New) BY <2>2, <3>2
      <4> QED BY <2>1, <4>1 DEF Ways
    <3> QED BY <3>1, <3>2
  <2>4. ASSUME cur_completing_job_' # None PROVE job'[cur_completing_job_'].requests_ # <<>>
    <3>1. cur_completing_job_' \in Requests BY <2>4 DEF Types, TypeOK
    <3>2. CASE cur_completing_job_' \in Old BY <3>1, <3>2
    <3>3. CASE cur_completing_job_' \in New BY <3>3
    <3>4. CASE cur_completing_job_' \in Requests \ (Old \cup New)
      BY <2>1, <2>2, <3>4 DEF Ways
    <3> QED BY <3>1, <3>2, <3>3, <3>4
  <2> QED BY <2>3, <2>4 DEF Ways
<1>4. Mapped'
  <2>1. Mapped BY DEF Sound
  <2>2. ASSUME NEW k \in Requests
        PROVE  job'[k].resolver_ /\ k # cur_completing_job_' <=> k \in Outstanding'
    <3>1. CASE k \in New BY <3>1
    <3>2. CASE k \in Old BY <1>2, <3>2
    <3>3. CASE k \notin Old \cup New BY <2>1, <3>3 DEF Mapped
    <3> QED BY <3>1, <3>2, <3>3
  <2>3. Outstanding' \subseteq OnTheWay' BY <2>1 DEF Mapped
  <2> QED BY <2>2, <2>3 DEF Mapped
<1>5. Counted'
  <2>1. Counted BY DEF Sound
  <2>2. shutdown_ \/ deleted => Outstanding' = {} BY <2>1 DEF Counted
  <2>3. ASSUME deleted PROVE pending_requests_' = <<>>
    <3>1. ToSet(pending_requests_') = {} BY <2>1, <2>3, NoneSet DEF Counted
    <3>2. pending_requests_' \in Seq(Requests) BY DEF Types, TypeOK
    <3> QED BY <3>1, <3>2, TailSet
  <2>4. ASSUME cur_completing_job_' # None
        PROVE  job'[cur_completing_job_'].resolver_ = ~deleted
    <3>1. cur_completing_job_' \in Requests /\ None \notin Requests
      BY <2>4, TypeFacts DEF Types, TypeOK
    <3>2. CASE cur_completing_job_' \in Old
      <4>1. cur_completing_job_' \in Old \ Freed BY <3>2
      <4>2. job[cur_completing_job_'].resolver_ = TRUE /\ job'[cur_completing_job_'] = job[cur_completing_job_']
        BY <3>1, <4>1, TypeFacts
      <4> QED BY <4>1, <4>2
    <3>3. CASE cur_completing_job_' \in New BY <3>3
    <3>4. CASE cur_completing_job_' \in Requests \ (Old \cup New)
      BY <2>1, <3>1, <3>4 DEF Counted
    <3> QED BY <3>1, <3>2, <3>3, <3>4
  <2> QED BY <2>2, <2>3, <2>4 DEF Counted
<1>6. Listed'
  <2>1. Listed BY DEF Sound
  <2>2. \A k \in Requests : Distinct(job'[k].requests_, 0) BY <1>2, <2>1, NoneSet DEF Listed
  <2>3. \A k \in Requests : job'[k].requests_ # <<>> => k \in List(k)' BY <1>2, <2>1 DEF Listed
  <2>4. ASSUME NEW k \in Requests, NEW l \in Requests, NEW x \in List(k)', x \in List(l)'
        PROVE  k = l
    <3>1. CASE k \in New /\ l \in New BY <3>1
    <3>2. CASE k \in New /\ l \notin New BY <1>2, <2>4, <3>2
    <3>3. CASE l \in New /\ k \notin New BY <1>2, <2>4, <3>3
    <3>4. CASE k \notin New /\ l \notin New
      <4>1. x \in List(k) /\ x \in List(l) BY <1>2, <2>4, <3>4
      <4> QED BY <2>1, <4>1 DEF Listed
    <3> QED BY <3>1, <3>2, <3>3, <3>4
  <2>5. ASSUME NEW k \in Requests, NEW x \in List(k)'
        PROVE  x \notin ToSet(pending_requests_)' /\ client'[x] # "unused"
    <3>1. CASE k \in New BY <1>2, <2>5, <3>1
    <3>2. CASE k \notin New
      <4>1. x \in List(k) BY <1>2, <2>5, <3>2
      <4>2. x \in Requests \ T BY <4>1, TypeFacts
      <4>3. x \notin ToSet(pending_requests_) /\ client[x] # "unused" BY <2>1, <4>1 DEF Listed
      <4> QED BY <4>2, <4>3
    <3> QED BY <3>1, <3>2
  <2> QED BY <2>2, <2>3, <2>4, <2>5 DEF Listed
<1>7. Answerable'
  <2>1. Answerable /\ Listed BY DEF Sound
  <2>2. \A x \in Requests : client'[x] = "unused" => request'[x].job_ = None
    BY <2>1 DEF Answerable, NoRequest
  <2>3. \A x \in ToSet(pending_requests_)' :
          /\ request'[x].job_ = None /\ client'[x] \in {"waiting", "ignored"}
          /\ ~shutdown_ => client'[x] = "waiting"
    <3> TAKE x \in ToSet(pending_requests_)'
    <3>1. x \in ToSet(pending_requests_) /\ x \in Requests \ T BY TypeFacts
    <3>2. \A k \in Requests : x \notin List(k) BY <2>1, <3>1 DEF Listed
    <3>3. request'[x] = request[x] /\ client'[x] = client[x] BY <3>1, <3>2
    <3> QED BY <2>1, <3>1, <3>3 DEF Answerable
  <2>4. ASSUME NEW k \in Requests, job'[k].resolver_, NEW i \in 1..Len(job'[k].requests_),
               ToCome(k, i)', request'[job'[k].requests_[i]].callback_
        PROVE  client'[job'[k].requests_[i]] \in {"waiting", "ignored"}
    <3>1. CASE k \in New
      <4>1. job'[k].requests_[i] \in ToSet(job'[k].requests_)
        <5>1. job'[k].requests_ \in Seq(Requests) BY DEF Types, TypeOK
        <5> QED BY <5>1, ToSetElems
      <4> QED BY <3>1, <4>1
    <3>2. CASE k \notin New
      <4>1. k \notin Freed /\ job'[k] = job[k] BY <1>2, <2>4, <3>2
      <4> PICK x : x = job[k].requests_[i] OBVIOUS
      <4>2. i \in 1..Len(job[k].requests_) /\ job[k].resolver_ /\ x \in List(k)
        BY <2>4, <4>1, TypeFacts
      <4>3. x \in Requests \ T BY <4>2, TypeFacts
      <4>4. request[x].callback_ BY <2>4, <4>1, <4>3 DEF NoRequest
      <4>5. ToCome(k, i) /\ client'[x] = client[x]
        <5>1. CASE k \in Old
          <6>1. i > it' BY <2>4, <4>1, <5>1 DEF ToCome
          <6> QED BY <4>1, <4>2, <5>1, <6>1
        <5>2. CASE k \notin Old
          <6>1. ToCome(k, i) BY <2>4, <3>2, <5>2 DEF ToCome
          <6>2. \A l \in Old : x \notin List(l) BY <2>1, <4>2, <5>2 DEF Listed
          <6> QED BY <4>3, <6>1, <6>2
        <5> QED BY <5>1, <5>2
      <4> QED BY <2>1, <4>1, <4>2, <4>4, <4>5 DEF Answerable
    <3> QED BY <3>1, <3>2
  <2>5. ASSUME ~shutdown_, ~deleted, NEW x \in Requests, client'[x] = "waiting"
        PROVE  Expected(x)'
    <3>1. CASE x \in T
      <4> PICK k : k = request'[x].job_ OBVIOUS
      <4>1. k \in New /\ request'[x].callback_ BY <3>1
      <4>2. job'[k].requests_ \in Seq(Requests) /\ k # None
        <5>1. k \in Requests /\ job'[k] \in JobType
          BY <4>1 DEF Types, TypeOK, JobType
        <5> QED BY <5>1, ResolverAssumption DEF JobType
      <4>3. \E i \in 1..Len(job'[k].requests_) : job'[k].requests_[i] = x
        BY <3>1, <4>1, <4>2, ToSetElems
      <4>4. k # cur_completing_job_' /\ k \in Outstanding' BY <4>1
      <4> QED BY <4>1, <4>2, <4>3, <4>4 DEF Expected, ToCome
    <3>2. CASE x \notin T
      <4>1. client[x] = "waiting" BY <2>5, <3>2
      <4>2. Expected(x) BY <2>1, <2>5, <4>1 DEF Answerable
      <4> PICK k : k = request[x].job_ OBVIOUS
      <4>3. CASE k = None
        <5>1. x \in ToSet(pending_requests_) BY <4>2, <4>3 DEF Expected
        <5>2. \A l \in Requests : x \notin List(l) BY <2>1, <5>1 DEF Listed
        <5>3. request'[x] = request[x] BY <3>2, <5>2
        <5> QED BY <3>2, <4>2, <4>3, <5>1, <5>3 DEF Expected
      <4>4. CASE k # None
        <5>1. PICK i \in 1..Len(job[k].requests_) : job[k].requests_[i] = x /\ ToCome(k, i)
          BY <4>2, <4>4 DEF Expected
        <5>2. k \in Requests /\ (k \in Outstanding \/ k = cur_completing_job_)
              /\ request[x].callback_
          BY <4>2, <4>4, TypeFacts DEF Expected
        <5>3. x \in List(k) BY <5>1, <5>2, TypeFacts
        <5>4. \A l \in Requests : x \in List(l) => l = k BY <2>1, <5>2, <5>3 DEF Listed
        <5>5. k \notin New BY <1>1, <5>3, NoneSet DEF List
        <5>6. CASE k \in Old
          <6>1. k \notin Freed /\ i > it' BY <2>5, <5>1, <5>2, <5>6
          <6>2. request'[x] = request[x] BY <3>2, <5>4, <6>1
          <6>3. job'[k] = job[k] /\ k = cur_completing_job_' BY <5>6, <6>1
          <6> QED BY <4>4, <5>1, <5>2, <6>1, <6>2, <6>3 DEF Expected, ToCome
        <5>7. CASE k \notin Old
          <6>1. request'[x] = request[x] BY <3>2, <5>4, <5>7
          <6>2. /\ job'[k] = job[k] /\ (k = cur_completing_job_' <=> k = cur_completing_job_)
                /\ k = cur_completing_job_' => it' = it
            BY <5>2, <5>5, <5>7
          <6>3. k \in Outstanding' \/ k = cur_completing_job_' BY <5>2, <5>7, <6>2
          <6>4. ToCome(k, i)' BY <5>1, <6>2 DEF ToCome
          <6> QED BY <4>4, <5>1, <5>2, <6>1, <6>2, <6>3, <6>4 DEF Expected
        <5> QED BY <5>6, <5>7
      <4> QED BY <4>3, <4>4
    <3> QED BY <3>1, <3>2
  <2> QED BY <2>2, <2>3, <2>4, <2>5 DEF Answerable
<1> QED BY <1>3, <1>4, <1>5, <1>6, <1>7 DEF Sound

\* What Free leaves.
LEMMA FreeFacts ==
    ASSUME Types, NEW freed \in SUBSET Requests
    PROVE  /\ JobsWithout(freed) \in [Requests -> JobType]
           /\ RequestsWithout(freed) \in [Requests -> RequestType]
           /\ \A k \in freed : JobsWithout(freed)[k] = NoJob
           /\ \A k \in Requests \ freed : JobsWithout(freed)[k] = job[k]
           /\ \A x \in Requests :
                 \/ RequestsWithout(freed)[x] = request[x]
                 \/ RequestsWithout(freed)[x] = NoRequest /\ \E k \in freed : x \in List(k)
<1>1. NoJob \in JobType /\ NoRequest \in RequestType BY TypeFacts
<1>2. /\ JobsWithout(freed) \in [Requests -> JobType]
      /\ \A k \in freed : JobsWithout(freed)[k] = NoJob
      /\ \A k \in Requests \ freed : JobsWithout(freed)[k] = job[k]
  BY <1>1, TypeFacts DEF JobsWithout
<1>3. \A x \in Requests : RequestsWithout(freed)[x] =
         IF \E k \in freed : x \in List(k) THEN NoRequest ELSE request[x]
  BY DEF RequestsWithout, List
<1>4. RequestsWithout(freed) \in [Requests -> RequestType]
  <2>1. RequestsWithout(freed) = [x \in Requests |-> RequestsWithout(freed)[x]]
    BY DEF RequestsWithout
  <2>2. \A x \in Requests : RequestsWithout(freed)[x] \in RequestType BY <1>1, <1>3, TypeFacts
  <2> QED BY <2>1, <2>2
<1> QED BY <1>2, <1>3, <1>4

\* What CreateAndStartJob does to jobs and requests.
Created(jobs, outstanding, freed, r, moved) ==
    /\ jobs_' = [jobs EXCEPT ![GetEffectiveKeyForRequest(r)] = r]
    /\ num_outstanding_jobs_' = outstanding + 1
    /\ job' \in [Requests -> JobType] /\ request' \in [Requests -> RequestType]
    /\ job'[r].key_ = GetEffectiveKeyForRequest(r) /\ job'[r].resolver_
    /\ job'[r].requests_ # <<>> /\ Distinct(job'[r].requests_, 0)
    /\ ToSet(job'[r].requests_) = {r} \cup moved
    /\ \A k \in freed : job'[k] = NoJob
    /\ \A k \in Requests \ (freed \cup {r}) : job'[k] = job[k]
    /\ \A x \in {r} \cup moved : request'[x].job_ = r /\ request'[x].callback_
    /\ \A x \in Requests \ ({r} \cup moved) :
          \/ request'[x] = request[x]
          \/ request'[x] = NoRequest /\ \E k \in freed : x \in List(k)
    /\ tasks_' = Append(tasks_, r) /\ UNCHANGED running

LEMMA CreateFacts ==
    ASSUME Types, Sound, NEW jobs, NEW outstanding, NEW freed \in SUBSET Requests,
           NEW r \in Requests \ freed, NEW moved \in SUBSET ToSet(pending_requests_), r \notin moved,
           CreateAndStartJob(jobs, outstanding, freed, r, moved)
    PROVE  Created(jobs, outstanding, freed, r, moved)
<1> PICK key : key = GetEffectiveKeyForRequest(r) OBVIOUS
<1> PICK s : s = <<r>> \o MoveRequestsToJob(moved) OBVIOUS
<1> DEFINE new == [key_ |-> key, requests_ |-> s, resolver_ |-> TRUE]
<1> DEFINE mine == [job_ |-> r, callback_ |-> TRUE]
<1>1. pending_requests_ \in Seq(Requests) /\ Distinct(pending_requests_, 0) /\ key \in Keys
      /\ ToSet(pending_requests_) \subseteq Requests
  BY TypeFacts DEF Sound, Listed
<1>2. s \in Seq(Requests) /\ ToSet(s) = {r} \cup moved /\ Distinct(s, 0) /\ s # <<>>
  BY <1>1, JobList
<1>3. new \in JobType BY <1>1, <1>2 DEF JobType
<1>4. /\ jobs_' = [jobs EXCEPT ![key] = r] /\ num_outstanding_jobs_' = outstanding + 1
      /\ job' = [JobsWithout(freed) EXCEPT ![r] = new]
      /\ request' = [x \in Requests |-> IF x \in {r} \cup moved THEN mine
                                        ELSE RequestsWithout(freed)[x]]
      /\ tasks_' = Append(tasks_, r) /\ UNCHANGED running
  BY DEF CreateAndStartJob, PostTask
<1>5. new.key_ = key /\ new.resolver_ /\ new.requests_ = s /\ mine.job_ = r /\ mine.callback_
  OBVIOUS
<1>6. mine \in RequestType BY DEF RequestType
<1> HIDE DEF new, mine
<1>7. /\ job' \in [Requests -> JobType] /\ job'[r] = new
      /\ \A k \in freed : job'[k] = NoJob
      /\ \A k \in Requests \ (freed \cup {r}) : job'[k] = job[k]
  BY <1>3, <1>4, FreeFacts
<1>8. /\ \A x \in {r} \cup moved : request'[x] = mine
      /\ \A x \in Requests \ ({r} \cup moved) : request'[x] = RequestsWithout(freed)[x]
  BY <1>1, <1>4
<1>9. request' \in [Requests -> RequestType]
  <2>1. request' = [x \in Requests |-> request'[x]] BY <1>4
  <2>2. \A x \in Requests : request'[x] \in RequestType BY <1>8, <1>6, FreeFacts
  <2> QED BY <2>1, <2>2
<1>10. \A x \in Requests \ ({r} \cup moved) :
         \/ request'[x] = request[x]
         \/ request'[x] = NoRequest /\ \E k \in freed : x \in List(k)
  BY <1>8, FreeFacts
<1>11. /\ job'[r].key_ = key /\ job'[r].resolver_ /\ job'[r].requests_ = s
       /\ \A x \in {r} \cup moved : request'[x].job_ = r /\ request'[x].callback_
  BY <1>5, <1>7, <1>8
<1> QED BY <1>2, <1>4, <1>7, <1>9, <1>10, <1>11 DEF Created

LEMMA StartJobStep ==
    ASSUME IInv, ~failed, NEW r \in Requests, StartJob(r)
    PROVE  IInv'
<1> USE DEF limitVars, frameVars, familyVars
<1> PICK key : key = GetEffectiveKeyForRequest(r) OBVIOUS
<1>0. Types /\ Sound /\ NoIdleSlot /\ TypeOK BY DEF IInv, Types
<1>1. /\ client[r] = "unused" /\ ~shutdown_ /\ ~deleted /\ jobs_[key] = None
      /\ CanCreateJobForPool(jobs_, num_outstanding_jobs_)
      /\ CreateAndStartJob(jobs_, num_outstanding_jobs_, {}, r, {})
      /\ client' = [client EXCEPT ![r] = "waiting"]
      /\ UNCHANGED <<limitVars, frameVars, entries_, familyVars, shutdown_, deleted, loop, failed,
                     pending_requests_>>
  BY DEF StartJob, Pending, Alive, WaitForAnswer
<1>2. /\ r \notin ToSet(pending_requests_) /\ \A j \in Requests : r \notin List(j)
      /\ r \notin OnTheWay /\ r # cur_completing_job_ /\ r \notin Outstanding
  BY <1>0, <1>1, Unused
<1>3. /\ jobs_' = [jobs_ EXCEPT ![key] = r] /\ num_outstanding_jobs_' = num_outstanding_jobs_ + 1
      /\ job' \in [Requests -> JobType] /\ request' \in [Requests -> RequestType]
      /\ job'[r].key_ = key /\ job'[r].resolver_ /\ job'[r].requests_ # <<>>
      /\ Distinct(job'[r].requests_, 0) /\ ToSet(job'[r].requests_) = {r}
      /\ \A k \in Requests \ {r} : job'[k] = job[k]
      /\ request'[r].job_ = r /\ request'[r].callback_
      /\ \A x \in Requests \ {r} : request'[x] = request[x]
      /\ tasks_' = Append(tasks_, r) /\ UNCHANGED running
  <2>1. Created(jobs_, num_outstanding_jobs_, {}, r, {}) BY <1>0, <1>1, CreateFacts
  <2> QED BY <2>1 DEF Created
<1>4. /\ client'[r] = "waiting" /\ \A x \in Requests \ {r} : client'[x] = client[x]
      /\ client' \in [Requests -> {"unused", "waiting", "done", "ignored", "surprised"}]
  BY <1>0, <1>1 DEF TypeOK
<1>5. key \in Keys /\ jobs_ \in [Keys -> Requests \cup {None}] /\ IsFiniteSet(Outstanding)
      /\ num_outstanding_jobs_ = Cardinality(Outstanding)
  BY <1>0, <1>1, TypeFacts DEF Sound, Counted
<1>6. /\ jobs_' \in [Keys -> Requests \cup {None}]
      /\ Outstanding' = Outstanding \cup {r} /\ IsFiniteSet(Outstanding')
      /\ Cardinality(Outstanding') = Cardinality(Outstanding) + 1
  <2>1. r \notin OutstandingJobs(jobs_) /\ IsFiniteSet(OutstandingJobs(jobs_))
    BY <1>2, <1>5 DEF Outstanding
  <2>2. /\ jobs_' \in [Keys -> Requests \cup {None}]
        /\ jobs_'[key] = r /\ \A l \in Keys \ {key} : jobs_'[l] = jobs_[l]
    BY <1>3, <1>5
  <2> QED BY <1>1, <1>5, <2>1, <2>2, AddJob DEF Outstanding
<1>7. /\ tasks_ \in Seq(Requests) /\ tasks_' \in Seq(Requests) /\ ToSet(tasks_') = ToSet(tasks_) \cup {r}
      /\ Distinct(tasks_', 0)
  <2>1. tasks_ \in Seq(Requests) /\ Distinct(tasks_, 0) /\ r \notin ToSet(tasks_)
    BY <1>0, <1>2 DEF Types, Sound, Ways, OnTheWay
  <2> QED BY <1>3, <2>1, AppendSet
<1>8. Types'
  <2>1. cur_completing_job_' # None => it' \in 1..Len(job'[cur_completing_job_'].requests_)
    BY <1>0, <1>1, <1>2, <1>3 DEF TypeOK
  <2>2. TypeOK' BY <1>0, <1>1, <1>3, <1>4, <1>6, <2>1 DEF TypeOK, JobType, RequestType
  <2>3. CallbackOnce' BY <1>0, <1>4 DEF Types, CallbackOnce
  <2> QED BY <1>0, <1>1, <1>3, <1>7, <2>2, <2>3 DEF Types
<1>9. NoIdleSlot' BY <1>0, <1>1 DEF NoIdleSlot
<1>10. Sound'
  <2>1. OnTheWay' = (OnTheWay \ {}) \cup {r} BY <1>1, <1>3, <1>7 DEF OnTheWay
  <2>2. /\ Distinct(loop', 0)
        /\ \A k \in Requests : /\ k \in ToSet(tasks_)' => k \notin running' /\ k \notin ToSet(loop)'
                               /\ k \in running' => k \notin ToSet(loop)'
    BY <1>0, <1>1, <1>2, <1>3, <1>7 DEF Sound, Ways, OnTheWay
  <2>3. \A k \in Keys : jobs_'[k] # None => job'[jobs_'[k]].key_ = k
    <3> TAKE k \in Keys
    <3>1. CASE k = key BY <1>3, <1>5, <3>1
    <3>2. CASE k # key
      <4>1. jobs_'[k] = jobs_[k] BY <1>3, <1>5, <3>2
      <4>2. jobs_[k] # None => jobs_[k] \in Requests \ {r}
        BY <1>2, <1>5 DEF Outstanding, OutstandingJobs
      <4> QED BY <1>0, <1>3, <4>1, <4>2 DEF Sound, Mapped
    <3> QED BY <3>1, <3>2
  <2>4. ToSet(pending_requests_') = ToSet(pending_requests_) \ {r} /\ Distinct(pending_requests_', 0)
    BY <1>0, <1>1, <1>2 DEF Sound, Listed
  <2>5. num_outstanding_jobs_' = Cardinality(Outstanding') BY <1>3, <1>5, <1>6
  <2>6. Change({}, {}, {r}, {r})
    BY <1>1, <1>2, <1>3, <1>4, <1>6, <1>7, <2>1, <2>2, <2>3, <2>4, <2>5 DEF Change
  <2> QED BY <1>0, <1>8, <2>6, JobsChange
<1> QED BY <1>8, <1>9, <1>10 DEF IInv

\* The loop of OnJobComplete finds the next request that has a callback.
LEMMA NextRequestFacts ==
    ASSUME Types, NEW j \in Requests, NEW n \in Nat, NEW next, next = NextRequest(j, n)
    PROVE  /\ next = 0 => \A m \in 1..Len(job[j].requests_) :
                             m > n => ~request[job[j].requests_[m]].callback_
           /\ next # 0 => /\ next \in 1..Len(job[j].requests_) /\ next > n
                          /\ request[job[j].requests_[next]].callback_
                          /\ \A m \in 1..Len(job[j].requests_) :
                                m > n /\ request[job[j].requests_[m]].callback_ => m >= next
<1> PICK s : s = job[j].requests_ OBVIOUS
<1> DEFINE rest == {m \in n + 1..Len(s) : request[s[m]].callback_}
<1>1. Len(s) \in Nat BY TypeFacts
<1>2. next = IF rest = {} THEN 0 ELSE CHOOSE m \in rest : \A l \in rest : m <= l
  BY DEF NextRequest
<1>3. \A m : m \in n + 1..Len(s) <=> m \in 1..Len(s) /\ m > n BY <1>1
<1>4. CASE rest = {}
  <2>1. next = 0 BY <1>2, <1>4
  <2> QED BY <1>3, <1>4, <2>1
<1>5. CASE rest # {}
  <2>1. rest \in SUBSET Nat BY <1>1
  <2>2. \E m \in rest : \A l \in rest : m <= l
    <3> HIDE DEF rest
    <3> QED BY <1>5, <2>1, LeastNat
  <2>3. next \in rest /\ \A l \in rest : next <= l
    <3> HIDE DEF rest
    <3> QED BY <1>2, <1>5, <2>2
  <2>4. next \in 1..Len(s) /\ next > n /\ request[s[next]].callback_ BY <1>3, <2>3
  <2>5. \A m \in 1..Len(s) : m > n /\ request[s[m]].callback_ => m >= next
    <3> TAKE m \in 1..Len(s)
    <3>1. m > n /\ request[s[m]].callback_ => m \in rest BY <1>3
    <3> QED BY <1>1, <2>3, <2>4, <3>1
  <2> QED BY <1>1, <2>4, <2>5
<1> QED BY <1>4, <1>5

\* Whoever waits for a job or is ignored may be told.
LEMMA ToldFacts ==
    ASSUME Types, NEW r \in Requests, client[r] \in {"waiting", "ignored"},
           client' = [client EXCEPT ![r] = Told(@)]
    PROVE  /\ client' \in [Requests -> {"unused", "waiting", "done", "ignored", "surprised"}]
           /\ client'[r] # "waiting" /\ client'[r] # "surprised"
           /\ client'[r] = client[r] \/ client'[r] = "done"
           /\ \A x \in Requests \ {r} : client'[x] = client[x]
<1>1. client \in [Requests -> {"unused", "waiting", "done", "ignored", "surprised"}]
  BY DEF Types, TypeOK
<1>2. Told(client[r]) \in {"done", "ignored"} /\ (client[r] = "ignored" => Told(client[r]) = "ignored")
      /\ (client[r] = "waiting" => Told(client[r]) = "done")
  BY DEF Told
<1>3. client' = [client EXCEPT ![r] = Told(client[r])] OBVIOUS
<1>4. client'[r] = Told(client[r]) /\ \A x \in Requests \ {r} : client'[x] = client[x]
  BY <1>1, <1>3
<1>5. client' \in [Requests -> {"unused", "waiting", "done", "ignored", "surprised"}]
  BY <1>1, <1>2, <1>3
<1> QED BY <1>2, <1>4, <1>5

LEMMA CallbackReturnsStep ==
    ASSUME IInv, ~failed, CallbackReturns
    PROVE  IInv'
<1> USE DEF limitVars, frameVars, familyVars, poolVars, threadVars
<1> PICK j : j = cur_completing_job_ OBVIOUS
<1> PICK next : next = IF job[j].resolver_ THEN NextRequest(j, it) ELSE 0 OBVIOUS
<1> PICK freed : freed = IF next = 0 THEN {j} ELSE {} OBVIOUS
<1> PICK s : s = job[j].requests_ OBVIOUS
<1>0. Types /\ Sound /\ NoIdleSlot /\ TypeOK BY DEF IInv, Types
<1>1. /\ j # None /\ GoOn(j, next) /\ Free(freed)
      /\ UNCHANGED <<jobs_, pending_requests_, num_outstanding_jobs_, limitVars, entries_,
                     familyVars, shutdown_, deleted, loop, failed, poolVars>>
  BY DEF CallbackReturns
<1>2. j \in Requests /\ it \in Nat /\ freed \in SUBSET {j} /\ freed \in SUBSET Requests
  BY <1>0, <1>1 DEF TypeOK, Types
<1>3. /\ j \notin OnTheWay /\ j \notin Outstanding /\ s # <<>> /\ job[j].resolver_ = ~deleted
      /\ Distinct(s, 0) /\ s \in Seq(Requests) /\ Len(s) \in Nat
  BY <1>0, <1>1, <1>2, TypeFacts DEF Sound, Ways, Mapped, Counted, Listed
<1>4. /\ job' \in [Requests -> JobType] /\ request' \in [Requests -> RequestType]
      /\ \A k \in freed : job'[k] = NoJob
      /\ \A k \in Requests \ freed : job'[k] = job[k]
      /\ \A x \in Requests : \/ request'[x] = request[x]
                             \/ request'[x] = NoRequest /\ \E k \in freed : x \in List(k)
  BY <1>0, <1>1, <1>2, FreeFacts DEF Free
<1>5. NoIdleSlot' BY <1>0, <1>1 DEF NoIdleSlot, CanCreateJobForPool
<1>6. /\ UNCHANGED <<shutdown_, deleted, Outstanding, OnTheWay>>
      /\ IsFiniteSet(Outstanding')
      /\ Outstanding' = (Outstanding \ {j}) \cup {} /\ OnTheWay' = (OnTheWay \ {j}) \cup {}
      /\ ~shutdown_ /\ ~deleted => num_outstanding_jobs_' = Cardinality(Outstanding')
      /\ Distinct(pending_requests_', 0)
      /\ ToSet(pending_requests_') = ToSet(pending_requests_) \ {}
      /\ Distinct(tasks_', 0) /\ Distinct(loop', 0)
      /\ \A k \in Requests : /\ k \in ToSet(tasks_)' => k \notin running' /\ k \notin ToSet(loop)'
                             /\ k \in running' => k \notin ToSet(loop)'
  BY <1>0, <1>1, <1>3 DEF Sound, Ways, Counted, Listed, Outstanding, OnTheWay
<1>7. \A k \in Keys : jobs_'[k] # None => job'[jobs_'[k]].key_ = k
  <2> TAKE k \in Keys
  <2>1. jobs_[k] # None => jobs_[k] \in Requests \ {j}
    BY <1>0, <1>3, TypeFacts DEF Outstanding, OutstandingJobs
  <2> QED BY <1>0, <1>1, <1>2, <1>4, <2>1 DEF Sound, Mapped
<1>8. CASE next = 0
  <2>1. cur_completing_job_' = None /\ it' = 0 /\ UNCHANGED client /\ freed = {j}
    BY <1>1, <1>8 DEF GoOn
  <2>2. TypeOK' BY <1>0, <1>1, <1>4, <2>1 DEF TypeOK, JobType, RequestType
  <2>3. Types' BY <1>0, <1>1, <2>1, <2>2 DEF Types, CallbackOnce
  <2>4. ~deleted => \A i \in 1..Len(s) : ToCome(j, i) => ~request[s[i]].callback_
    <3>1. ~deleted => next = NextRequest(j, it) BY <1>3
    <3> QED BY <1>0, <1>2, <1>8, <3>1, NextRequestFacts DEF ToCome
  <2>5. Change({j}, {j}, {}, {})
    BY <1>1, <1>2, <1>3, <1>4, <1>6, <1>7, <2>1, <2>4, ResolverAssumption DEF Change
  <2>6. Sound' BY <1>0, <1>2, <2>3, <2>5, JobsChange
  <2> QED BY <1>5, <2>3, <2>6 DEF IInv
<1>9. CASE next # 0
  <2> PICK r : r = s[next] OBVIOUS
  <2>1. /\ cur_completing_job_' = j /\ it' = next /\ freed = {}
        /\ client' = [client EXCEPT ![r] = Told(@)]
    BY <1>1, <1>9 DEF GoOn
  <2>2. job[j].resolver_ /\ next = NextRequest(j, it) /\ ~deleted BY <1>3, <1>9
  <2>3. /\ next \in 1..Len(s) /\ next > it /\ request[r].callback_
        /\ \A m \in 1..Len(s) : m > it /\ request[s[m]].callback_ => m >= next
    BY <1>0, <1>2, <1>9, <2>2, NextRequestFacts
  <2>4. r \in List(j) /\ r \in Requests BY <1>0, <1>2, <2>3, TypeFacts
  <2>5. client[r] \in {"waiting", "ignored"}
    <3>1. ToCome(j, next) BY <2>3 DEF ToCome
    <3> QED BY <1>0, <1>2, <2>2, <2>3, <3>1 DEF Sound, Answerable
  <2>6. /\ client' \in [Requests -> {"unused", "waiting", "done", "ignored", "surprised"}]
        /\ client'[r] # "waiting" /\ client'[r] # "surprised"
        /\ client'[r] = client[r] \/ client'[r] = "done"
        /\ \A x \in Requests \ {r} : client'[x] = client[x]
    BY <1>0, <2>1, <2>4, <2>5, ToldFacts
  <2>7. TypeOK'
    <3>1. it' \in 1..Len(job'[j].requests_) BY <1>2, <1>4, <2>1, <2>3
    <3> QED BY <1>0, <1>1, <1>2, <1>4, <2>1, <2>6, <3>1 DEF TypeOK, JobType, RequestType
  <2>8. Types'
    <3>1. CallbackOnce' BY <1>0, <2>6 DEF Types, CallbackOnce
    <3>2. it' \in Nat BY <1>3, <2>1, <2>3
    <3> QED BY <1>0, <1>1, <2>1, <2>7, <3>1, <3>2 DEF Types
  <2>9. \A i \in 1..Len(s) : i # next => s[i] \in Requests \ {r}
    <3>1. \A i \in 1..Len(s) : s[i] = s[next] => i = next
      BY <1>3, <2>3 DEF Distinct, From
    <3> QED BY <1>3, <3>1
  <2>10. \A i \in 1..Len(s) : i > next => ToCome(j, i) /\ client'[s[i]] = client[s[i]]
    <3> TAKE i \in 1..Len(s)
    <3>1. i > next => i > it /\ i # next BY <1>2, <1>3, <2>3
    <3> QED BY <2>6, <2>9, <3>1 DEF ToCome
  <2>11. \A i \in 1..Len(s) : ToCome(j, i) /\ request[s[i]].callback_ =>
            client'[s[i]] # "waiting" \/ i > next
    <3> TAKE i \in 1..Len(s)
    <3>1. ToCome(j, i) /\ request[s[i]].callback_ => i >= next BY <2>3 DEF ToCome
    <3>2. i >= next => i = next \/ i > next BY <1>3, <2>3
    <3> QED BY <2>6, <3>1, <3>2
  <2>12. Change({j}, {}, {}, {})
    <3>1. \A k \in Requests : /\ job'[k] = job[k] /\ request'[k] = request[k]
                              /\ \/ client'[k] = client[k]
                                 \/ client'[k] = "done" /\ \E l \in {j} : k \in List(l)
      BY <1>4, <2>1, <2>4, <2>6
    <3>2. \A k \in {j} : /\ job'[k] = job[k] /\ k = cur_completing_job_'
                         /\ job[k].requests_ # <<>> /\ job[k].resolver_ /\ ~deleted
      BY <1>2, <1>3, <2>1, <2>2, <3>1
    <3>3. \A k \in Requests \ {j} : k # cur_completing_job_' /\ k # cur_completing_job_
      BY <2>1
    <3> QED BY <1>6, <1>7, <2>1, <2>10, <2>11, <3>1, <3>2, <3>3 DEF Change
  <2>13. Sound' BY <1>0, <1>2, <2>8, <2>12, JobsChange
  <2> QED BY <1>5, <2>8, <2>13 DEF IInv
<1> QED BY <1>8, <1>9

\* The last reference to a job that was cancelled goes with its task.
LEMMA CancelledGoes ==
    ASSUME Types, Sound, Types', NEW j \in OnTheWay, ~job[j].resolver_, Free({j}),
           UNCHANGED <<jobs_, pending_requests_, num_outstanding_jobs_, cur_completing_job_, it,
                       shutdown_, deleted, client>>,
           Distinct(tasks_', 0), Distinct(loop', 0),
           \A k \in Requests : /\ k \in ToSet(tasks_)' => k \notin running' /\ k \notin ToSet(loop)'
                               /\ k \in running' => k \notin ToSet(loop)',
           OnTheWay' = OnTheWay \ {j}
    PROVE  Sound'
<1>1. j \in Requests /\ j # cur_completing_job_ /\ j \notin Outstanding
  BY TypeFacts DEF Sound, Ways, Mapped
<1>2. /\ job'[j] = NoJob /\ \A k \in Requests \ {j} : job'[k] = job[k]
      /\ \A x \in Requests : \/ request'[x] = request[x]
                             \/ request'[x] = NoRequest /\ \E k \in {j} : x \in List(k)
  <2>1. {j} \in SUBSET Requests BY <1>1
  <2> QED BY <2>1, FreeFacts DEF Free
<1>3. \A k \in Keys : jobs_'[k] # None => job'[jobs_'[k]].key_ = k
  <2> TAKE k \in Keys
  <2>1. jobs_[k] # None => jobs_[k] \in Requests \ {j}
    BY <1>1, TypeFacts DEF Outstanding, OutstandingJobs
  <2> QED BY <1>2, <2>1 DEF Sound, Mapped
<1>4. /\ Outstanding' = (Outstanding \ {j}) \cup {} /\ IsFiniteSet(Outstanding')
      /\ ~shutdown_ /\ ~deleted => num_outstanding_jobs_' = Cardinality(Outstanding')
  BY <1>1 DEF Sound, Counted, Outstanding
<1>5. Distinct(pending_requests_', 0) BY DEF Sound, Listed
<1>6. Change({j}, {j}, {}, {}) BY <1>1, <1>2, <1>3, <1>4, <1>5 DEF Change
<1> QED BY <1>1, <1>6, JobsChange

LEMMA DoLookupStep ==
    ASSUME IInv, ~failed, NEW j \in Requests, DoLookup(j)
    PROVE  IInv'
<1> USE DEF limitVars, frameVars, familyVars
<1>0. Types /\ Sound /\ NoIdleSlot /\ TypeOK BY DEF IInv, Types
<1>1. /\ j \in running /\ running' = running \ {j} /\ UNCHANGED tasks_
      /\ \/ /\ job[j].resolver_ /\ loop' = Append(loop, j) /\ UNCHANGED <<job, request>>
         \/ ~job[j].resolver_ /\ Free({j}) /\ UNCHANGED loop
      /\ UNCHANGED <<jobs_, pending_requests_, num_outstanding_jobs_, limitVars, frameVars,
                     entries_, familyVars, shutdown_, deleted, client, failed>>
  BY DEF DoLookup, LookupDone, TaskDone
<1>2. /\ j \notin ToSet(tasks_) /\ j \notin ToSet(loop) /\ j \in OnTheWay
      /\ j # cur_completing_job_ /\ loop \in Seq(Requests)
      /\ Distinct(loop, 0) /\ Distinct(tasks_, 0)
  BY <1>0, <1>1 DEF Sound, Ways, OnTheWay, Types
<1>3. NoIdleSlot' BY <1>0, <1>1 DEF NoIdleSlot, CanCreateJobForPool
<1>4. CASE job[j].resolver_ /\ loop' = Append(loop, j) /\ UNCHANGED <<job, request>>
  <2>1. loop' \in Seq(Requests) /\ ToSet(loop') = ToSet(loop) \cup {j} /\ Distinct(loop', 0)
    BY <1>2, <1>4, AppendSet
  <2>2. OnTheWay' = OnTheWay BY <1>1, <2>1 DEF OnTheWay
  <2>3. TypeOK' /\ CallbackOnce' BY <1>0, <1>1, <1>4 DEF TypeOK, Types, CallbackOnce
  <2>4. Types' BY <1>0, <1>1, <2>1, <2>3 DEF Types
  <2>5. Ways' BY <1>0, <1>1, <1>2, <1>4, <2>1, <2>2 DEF Sound, Ways
  <2>6. Mapped' BY <1>0, <1>1, <1>4, <2>2 DEF Sound, Mapped, Outstanding
  <2>7. Counted' BY <1>0, <1>1, <1>4 DEF Sound, Counted, Outstanding
  <2>8. Listed' BY <1>0, <1>1, <1>4 DEF Sound, Listed, List
  <2>9. Answerable' BY <1>0, <1>1, <1>4 DEF Sound, Answerable, Expected, Outstanding, ToCome
  <2> QED BY <1>3, <2>4, <2>5, <2>6, <2>7, <2>8, <2>9 DEF IInv, Sound
<1>5. CASE ~job[j].resolver_ /\ Free({j}) /\ UNCHANGED loop
  <2>1. /\ job' \in [Requests -> JobType] /\ request' \in [Requests -> RequestType]
        /\ \A k \in Requests \ {j} : job'[k] = job[k]
    <3>1. {j} \in SUBSET Requests OBVIOUS
    <3> QED BY <1>0, <1>5, <3>1, FreeFacts DEF Free
  <2>2. TypeOK' BY <1>0, <1>1, <1>2, <2>1 DEF TypeOK, JobType, RequestType
  <2>3. Types' BY <1>0, <1>1, <1>5, <2>2 DEF Types, CallbackOnce
  <2>4. OnTheWay' = OnTheWay \ {j} BY <1>1, <1>2, <1>5 DEF OnTheWay
  <2>5. \A k \in Requests : /\ k \in ToSet(tasks_)' => k \notin running' /\ k \notin ToSet(loop)'
                            /\ k \in running' => k \notin ToSet(loop)'
    BY <1>0, <1>1, <1>5 DEF Sound, Ways
  <2>6. Distinct(tasks_', 0) /\ Distinct(loop', 0) BY <1>1, <1>2, <1>5
  <2>7. Sound' BY <1>0, <1>1, <1>2, <1>5, <2>3, <2>4, <2>5, <2>6, CancelledGoes
  <2> QED BY <1>3, <2>3, <2>7 DEF IInv
<1> QED BY <1>1, <1>4, <1>5

-----------------------------------------------------------------------------
(* Shutdown and the destructor.                                            *)

LEMMA CancelFacts ==
    ASSUME Types, NEW cancelled, NEW marked, Cancel(cancelled, marked)
    PROVE  /\ job' \in [Requests -> JobType] /\ request' \in [Requests -> RequestType]
           /\ \A k \in Requests :
                 /\ job'[k].requests_ = job[k].requests_ /\ job'[k].key_ = job[k].key_
                 /\ k \in cancelled => ~job'[k].resolver_
                 /\ k \notin cancelled => job'[k].resolver_ = job[k].resolver_
           /\ \A x \in Requests : IF x \in marked THEN request'[x] = NoRequest
                                  ELSE request'[x] = request[x]
<1>1. \A k \in Requests : LET c == [job[k] EXCEPT !.resolver_ = FALSE]
        IN  /\ c \in JobType /\ c.requests_ = job[k].requests_ /\ c.key_ = job[k].key_
            /\ ~c.resolver_
  <2> TAKE k \in Requests
  <2>1. job[k] \in JobType BY TypeFacts
  <2> QED BY <2>1 DEF JobType
<1>2. \A k \in Requests : job'[k] = IF k \in cancelled THEN [job[k] EXCEPT !.resolver_ = FALSE]
                                    ELSE job[k]
  BY DEF Cancel
<1>3. \A k \in Requests : job'[k] \in JobType
  <2> TAKE k \in Requests
  <2>1. job[k] \in JobType BY TypeFacts
  <2> QED BY <1>1, <1>2, <2>1
<1>4. job' = [k \in Requests |-> job'[k]] /\ request' = [x \in Requests |-> request'[x]]
  BY DEF Cancel
<1>5. \A x \in Requests : request'[x] = IF x \in marked THEN NoRequest ELSE request[x]
  BY DEF Cancel
<1>6. \A x \in Requests : request'[x] \in RequestType BY <1>5, TypeFacts
<1>7. job' \in [Requests -> JobType] /\ request' \in [Requests -> RequestType]
  BY <1>3, <1>4, <1>6
<1>8. \A k \in Requests :
         /\ job'[k].requests_ = job[k].requests_ /\ job'[k].key_ = job[k].key_
         /\ k \in cancelled => ~job'[k].resolver_
         /\ k \notin cancelled => job'[k].resolver_ = job[k].resolver_
  BY <1>1, <1>2
<1> QED BY <1>5, <1>7, <1>8

\* Jobs lose their resolver and the map is cleared; whoever waits either no longer
\* does, or waits for a resolver that was shut down.
AllCancel ==
    /\ UNCHANGED <<frameVars, loop, tasks_, running>>
    /\ \A k \in Requests : /\ job'[k].requests_ = job[k].requests_ /\ job'[k].key_ = job[k].key_
                           /\ job'[k].resolver_ => job[k].resolver_ /\ k = cur_completing_job_
    /\ cur_completing_job_ # None => job'[cur_completing_job_].resolver_ = ~deleted'
    /\ jobs_' = [k \in Keys |-> None] /\ (shutdown_' \/ deleted')
    /\ \/ UNCHANGED pending_requests_ /\ ~deleted'
       \/ pending_requests_' = <<>>
    /\ \A x \in Requests : /\ client'[x] = "unused" <=> client[x] = "unused"
                           /\ ~deleted' => client'[x] = client[x]
                           /\ \/ request'[x] = request[x]
                              \/ deleted' /\ request'[x] = NoRequest

LEMMA AllCancelled ==
    ASSUME Types, Sound, AllCancel
    PROVE  Sound'
<1> USE DEF AllCancel
<1> USE DEF frameVars
<1>1. \A k \in Requests : List(k)' = List(k) /\ List(k) \subseteq Requests BY TypeFacts DEF List
<1>2. Outstanding' = {} /\ IsFiniteSet(Outstanding') BY NoJobs DEF Outstanding
<1>3. cur_completing_job_ \in Requests \cup {None} /\ OnTheWay \subseteq Requests
  BY TypeFacts DEF Types, TypeOK
<1>4. Ways'
  <2>1. OnTheWay' = OnTheWay BY DEF OnTheWay
  <2> QED BY <1>3, <2>1 DEF Sound, Ways
<1>5. Mapped' BY <1>2 DEF Mapped
<1>6. Counted' BY <1>2 DEF Counted
<1>7. Listed'
  <2>1. Distinct(pending_requests_', 0) /\ ToSet(pending_requests_') \subseteq ToSet(pending_requests_)
    BY NoneSet DEF Sound, Listed
  <2> QED BY <1>1, <2>1 DEF Sound, Listed
<1>8. Answerable'
  <2>1. Answerable BY DEF Sound
  <2>2. \A x \in Requests : client'[x] = "unused" => request'[x].job_ = None
    BY <2>1 DEF Answerable, NoRequest
  <2>3. \A x \in ToSet(pending_requests_)' :
          /\ request'[x].job_ = None /\ client'[x] \in {"waiting", "ignored"}
          /\ ~shutdown_' => client'[x] = "waiting"
    BY <2>1, NoneSet, TypeFacts DEF Answerable
  <2>4. ASSUME NEW k \in Requests, job'[k].resolver_, NEW i \in 1..Len(job'[k].requests_),
               ToCome(k, i)', request'[job'[k].requests_[i]].callback_
        PROVE  client'[job'[k].requests_[i]] \in {"waiting", "ignored"}
    <3> PICK x : x = job[k].requests_[i] OBVIOUS
    <3>1. job'[k].requests_ = job[k].requests_ /\ job[k].resolver_ /\ k = cur_completing_job_
          /\ ToCome(k, i)
      BY <2>4 DEF ToCome
    <3>2. ~deleted' BY <1>3, <2>4, <3>1, ResolverAssumption
    <3>3. x \in Requests BY <2>4, <3>1, TypeFacts
    <3>4. request'[x] = request[x] /\ client'[x] = client[x] BY <3>2, <3>3
    <3> QED BY <2>1, <2>4, <3>1, <3>4 DEF Answerable
  <2> QED BY <2>2, <2>3, <2>4 DEF Answerable
<1> QED BY <1>4, <1>5, <1>6, <1>7, <1>8 DEF Sound

LEMMA ShutdownStep ==
    ASSUME IInv, ~failed, Shutdown
    PROVE  IInv'
<1> USE DEF limitVars, frameVars, familyVars, poolVars, threadVars
<1>0. Types /\ Sound /\ NoIdleSlot /\ TypeOK BY DEF IInv, Types
<1>1. /\ ~shutdown_ /\ ~deleted /\ shutdown_' = TRUE /\ Cancel(Outstanding, {})
      /\ jobs_' = [k \in Keys |-> None] /\ ipv6_probe_job_' = FALSE
      /\ UNCHANGED <<pending_requests_, num_outstanding_jobs_, limitVars, frameVars, entries_,
                     default_address_family_, ipv6_probe_monitoring_, deleted, loop,
                     client, failed, poolVars>>
  BY DEF Shutdown, Alive, Outstanding
<1>2. /\ job' \in [Requests -> JobType] /\ request' \in [Requests -> RequestType]
      /\ \A k \in Requests :
            /\ job'[k].requests_ = job[k].requests_ /\ job'[k].key_ = job[k].key_
            /\ k \in Outstanding => ~job'[k].resolver_
            /\ k \notin Outstanding => job'[k].resolver_ = job[k].resolver_
            /\ request'[k] = request[k]
  BY <1>0, <1>1, CancelFacts
<1>3. cur_completing_job_ \in Requests \cup {None} BY <1>0 DEF TypeOK
<1>4. Types'
  <2>1. cur_completing_job_' # None => it' \in 1..Len(job'[cur_completing_job_'].requests_)
    BY <1>0, <1>1, <1>2, <1>3 DEF TypeOK
  <2>2. TypeOK' BY <1>0, <1>1, <1>2, <2>1 DEF TypeOK, JobType, RequestType
  <2> QED BY <1>0, <1>1, <2>2 DEF Types, CallbackOnce
<1>5. NoIdleSlot' BY <1>1 DEF NoIdleSlot
<1>6. \A k \in Requests : job'[k].resolver_ => job[k].resolver_ /\ k = cur_completing_job_
  BY <1>0, <1>2 DEF Sound, Mapped
<1>7. cur_completing_job_ # None => job'[cur_completing_job_].resolver_ = ~deleted'
  BY <1>0, <1>1, <1>2, <1>3 DEF Sound, Mapped, Counted
<1>8. AllCancel BY <1>1, <1>2, <1>6, <1>7 DEF AllCancel
<1>9. Sound' BY <1>0, <1>8, AllCancelled
<1> QED BY <1>4, <1>5, <1>9 DEF IInv

LEMMA DestroyStep ==
    ASSUME IInv, ~failed, Destroy
    PROVE  IInv'
<1> USE DEF limitVars, frameVars, familyVars, poolVars, threadVars
<1> PICK cancelled : cancelled = Outstanding \cup ({cur_completing_job_} \ {None}) OBVIOUS
<1>0. Types /\ Sound /\ NoIdleSlot /\ TypeOK BY DEF IInv, Types
<1>1. /\ Gone /\ Cancel(cancelled, MarkedWith(cancelled))
      /\ UNCHANGED <<limitVars, frameVars, loop, failed, poolVars>>
  BY DEF Destroy, Outstanding
<1>2. /\ deleted' = TRUE /\ jobs_' = [k \in Keys |-> None] /\ pending_requests_' = <<>>
      /\ num_outstanding_jobs_' = 0 /\ entries_' = {}
      /\ default_address_family_' = UNSPECIFIED
      /\ ipv6_probe_monitoring_' = FALSE /\ ipv6_probe_job_' = FALSE /\ shutdown_' = FALSE
      /\ client' = [r \in Requests |-> IF client[r] = "waiting" THEN "done" ELSE client[r]]
  BY <1>1 DEF Gone, ClearEntries
<1>3. /\ job' \in [Requests -> JobType] /\ request' \in [Requests -> RequestType]
      /\ \A k \in Requests :
            /\ job'[k].requests_ = job[k].requests_ /\ job'[k].key_ = job[k].key_
            /\ k \in cancelled => ~job'[k].resolver_
            /\ k \notin cancelled => job'[k].resolver_ = job[k].resolver_
            /\ request'[k] = request[k] \/ request'[k] = NoRequest
  BY <1>0, <1>1, CancelFacts
<1>4. cur_completing_job_ \in Requests \cup {None} BY <1>0 DEF TypeOK
<1>5. \A x \in Requests : /\ client'[x] = IF client[x] = "waiting" THEN "done" ELSE client[x]
                          /\ client[x] \in {"unused", "waiting", "done", "ignored"}
  BY <1>0, <1>2, TypeFacts
<1>6. client' \in [Requests -> {"unused", "waiting", "done", "ignored", "surprised"}]
  BY <1>2, <1>5
<1>7. Types'
  <2>1. cur_completing_job_' # None => it' \in 1..Len(job'[cur_completing_job_'].requests_)
    BY <1>0, <1>1, <1>3, <1>4 DEF TypeOK
  <2>2. <<>> \in Seq(Requests) /\ UNSPECIFIED \in Families BY DEF Families
  <2>3. jobs_' \in [Keys -> Requests \cup {None}] BY <1>2
  <2>4. TypeOK' BY <1>0, <1>1, <1>2, <1>3, <1>6, <2>1, <2>2, <2>3 DEF TypeOK, JobType, RequestType
  <2>5. CallbackOnce' BY <1>5 DEF CallbackOnce
  <2> QED BY <1>0, <1>1, <1>2, <2>4, <2>5 DEF Types
<1>8. NoIdleSlot' BY <1>2 DEF NoIdleSlot
<1>9. \A k \in Requests : ~job'[k].resolver_
  BY <1>0, <1>3, ResolverAssumption DEF Sound, Mapped
<1>10. cur_completing_job_ # None => job'[cur_completing_job_].resolver_ = ~deleted'
  <2>1. \A k \in Requests : job'[k].resolver_ \in BOOLEAN BY <1>3 DEF JobType
  <2> QED BY <1>2, <1>4, <1>9, <2>1
<1>11. AllCancel BY <1>1, <1>2, <1>3, <1>5, <1>9, <1>10 DEF AllCancel
<1>12. Sound' BY <1>0, <1>11, AllCancelled
<1> QED BY <1>7, <1>8, <1>12 DEF IInv

-----------------------------------------------------------------------------
(* A look-up completes.                                                    *)

\* OnJobComplete has called the first callback of j, or freed it since it has none.
GoesOn(j, freed) ==
    /\ cur_completing_job_' \in {j, None} /\ it' \in Nat
    /\ cur_completing_job_' = j => it' \in 1..Len(job[j].requests_)
    /\ client' \in [Requests -> {"unused", "waiting", "done", "ignored", "surprised"}]
    /\ \A x \in Requests : /\ client'[x] # "surprised"
                           /\ \/ client'[x] = client[x]
                              \/ client'[x] = "done" /\ x \in List(j)
    /\ freed \in {{}, {j}} /\ (j \in freed <=> cur_completing_job_' # j)
    /\ \A i \in 1..Len(job[j].requests_) :
          j \notin freed /\ i > it' =>
             client'[job[j].requests_[i]] = client[job[j].requests_[i]]
    /\ \A i \in 1..Len(job[j].requests_) : request[job[j].requests_[i]].callback_ =>
          client'[job[j].requests_[i]] # "waiting" \/ (j \notin freed /\ i > it')

LEMMA FirstCallback ==
    ASSUME Types, Sound, NEW j \in Requests, cur_completing_job_ = None, job[j].resolver_,
           NEW first, first = NextRequest(j, 0), GoOn(j, first),
           NEW freed, freed = IF first = 0 THEN {j} ELSE {}
    PROVE  GoesOn(j, freed)
<1> PICK s : s = job[j].requests_ OBVIOUS
<1>1. /\ s \in Seq(Requests) /\ Len(s) \in Nat /\ Distinct(s, 0) /\ j # None
      /\ \A i \in 1..Len(s) : s[i] \in List(j) /\ s[i] \in Requests
  BY TypeFacts DEF Sound, Listed
<1>2. /\ client \in [Requests -> {"unused", "waiting", "done", "ignored", "surprised"}]
      /\ \A x \in Requests : client[x] # "surprised"
  BY DEF Types, TypeOK, CallbackOnce
<1>3. \A i \in 1..Len(s) : i > 0 /\ ToCome(j, i) BY <1>1 DEF ToCome
<1>4. CASE first = 0
  <2>1. cur_completing_job_' = None /\ it' = 0 /\ client' = client /\ freed = {j}
    BY <1>4 DEF GoOn
  <2>2. \A i \in 1..Len(s) : ~request[s[i]].callback_
    BY <1>3, <1>4, NextRequestFacts
  <2> QED BY <1>1, <1>2, <2>1, <2>2 DEF GoesOn
<1>5. CASE first # 0
  <2> PICK r : r = s[first] OBVIOUS
  <2>1. /\ cur_completing_job_' = j /\ it' = first /\ freed = {}
        /\ client' = [client EXCEPT ![r] = Told(@)]
    BY <1>5 DEF GoOn
  <2>2. /\ first \in 1..Len(s) /\ request[r].callback_
        /\ \A m \in 1..Len(s) : m > 0 /\ request[s[m]].callback_ => m >= first
    BY <1>5, NextRequestFacts
  <2>3. client[r] \in {"waiting", "ignored"} /\ r \in List(j) /\ r \in Requests
    BY <1>1, <1>3, <2>2 DEF Sound, Answerable
  <2>4. /\ client' \in [Requests -> {"unused", "waiting", "done", "ignored", "surprised"}]
        /\ client'[r] # "waiting" /\ client'[r] # "surprised"
        /\ client'[r] = client[r] \/ client'[r] = "done"
        /\ \A x \in Requests \ {r} : client'[x] = client[x]
    BY <2>1, <2>3, ToldFacts
  <2>5. \A i \in 1..Len(s) : i # first => s[i] \in Requests \ {r}
    <3>1. \A i \in 1..Len(s) : s[i] = s[first] => i = first
      BY <1>1, <2>2 DEF Distinct, From
    <3> QED BY <1>1, <3>1
  <2>6. \A i \in 1..Len(s) : i > first => client'[s[i]] = client[s[i]]
    <3> TAKE i \in 1..Len(s)
    <3>1. i > first => i # first BY <1>1, <2>2
    <3> QED BY <2>4, <2>5, <3>1
  <2>7. \A i \in 1..Len(s) : request[s[i]].callback_ => client'[s[i]] # "waiting" \/ i > first
    <3> TAKE i \in 1..Len(s)
    <3>1. request[s[i]].callback_ => i >= first BY <1>3, <2>2
    <3>2. i >= first => i = first \/ i > first BY <1>1, <2>2
    <3> QED BY <2>4, <3>1, <3>2
  <2>8. first \in Nat BY <1>1, <2>2
  <2>9. \A x \in Requests : /\ client'[x] # "surprised"
                            /\ client'[x] = client[x] \/ (client'[x] = "done" /\ x \in List(j))
    BY <1>2, <2>3, <2>4
  <2>10. \A i \in 1..Len(s) : /\ i > it' => client'[s[i]] = client[s[i]]
                              /\ request[s[i]].callback_ => client'[s[i]] # "waiting" \/ i > it'
    BY <2>1, <2>6, <2>7
  <2>11. j \notin freed /\ freed \in {{}, {j}} /\ it' \in 1..Len(s) /\ it' \in Nat
    BY <2>1, <2>2, <2>8
  <2> QED BY <1>1, <2>1, <2>4, <2>9, <2>10, <2>11 DEF GoesOn
<1> QED BY <1>4, <1>5

\* The job that completes leaves the map, where it was once.
LEMMA LeavesMap ==
    ASSUME Types, Sound, NEW j \in Requests, cur_completing_job_ = None, job[j].resolver_
    PROVE  LET jobs == [jobs_ EXCEPT ![job[j].key_] = None]
           IN  /\ j \in Outstanding /\ ~shutdown_ /\ ~deleted /\ job[j].key_ \in Keys
               /\ jobs \in [Keys -> Requests \cup {None}]
               /\ \A k \in Keys : jobs[k] = None \/ jobs[k] = jobs_[k]
               /\ OutstandingJobs(jobs) = Outstanding \ {j} /\ IsFiniteSet(OutstandingJobs(jobs))
               /\ Cardinality(OutstandingJobs(jobs)) = Cardinality(Outstanding) - 1
               /\ Cardinality(Outstanding) \in Nat \ {0}
               /\ num_outstanding_jobs_ = Cardinality(Outstanding)
<1> PICK key : key = job[j].key_ OBVIOUS
<1>1. j \in Outstanding BY ResolverAssumption DEF Sound, Mapped
<1>2. ~shutdown_ /\ ~deleted /\ IsFiniteSet(Outstanding)
      /\ num_outstanding_jobs_ = Cardinality(Outstanding)
  BY <1>1 DEF Sound, Counted
<1>3. jobs_ \in [Keys -> Requests \cup {None}] BY TypeFacts
<1>4. \A k \in Keys : jobs_[k] = j => k = key
  BY ResolverAssumption DEF Sound, Mapped
<1>5. key \in Keys /\ jobs_[key] = j /\ j # None
  BY <1>1, <1>4 DEF Outstanding, OutstandingJobs
<1>6. IsFiniteSet(OutstandingJobs(jobs_)) BY <1>2 DEF Outstanding
<1> PICK jobs : jobs = [jobs_ EXCEPT ![key] = None] OBVIOUS
<1>7. /\ jobs \in [Keys -> Requests \cup {None}]
      /\ OutstandingJobs(jobs) = OutstandingJobs(jobs_) \ {j}
      /\ IsFiniteSet(OutstandingJobs(jobs))
      /\ Cardinality(OutstandingJobs(jobs)) = Cardinality(OutstandingJobs(jobs_)) - 1
      /\ Cardinality(OutstandingJobs(jobs_)) \in Nat \ {0}
  <2>1. jobs_[key] # None /\ \A l \in Keys : jobs_[l] = jobs_[key] => l = key
    BY <1>4, <1>5
  <2>2. /\ jobs \in [Keys -> Requests \cup {None}]
        /\ OutstandingJobs(jobs) = OutstandingJobs(jobs_) \ {jobs_[key]}
        /\ IsFiniteSet(OutstandingJobs(jobs))
        /\ Cardinality(OutstandingJobs(jobs)) = Cardinality(OutstandingJobs(jobs_)) - 1
        /\ Cardinality(OutstandingJobs(jobs_)) \in Nat \ {0}
    BY <1>3, <1>5, <1>6, <2>1, RemoveJob
  <2> QED BY <1>5, <2>2
<1>8. \A k \in Keys : jobs[k] = None \/ jobs[k] = jobs_[k] BY <1>3
<1> QED BY <1>1, <1>2, <1>5, <1>7, <1>8 DEF Outstanding

\* A look-up has completed: j leaves the map and a job for the queued requests of T may
\* have been created (New).
Started(j, freed, New, T) ==
    /\ New \in SUBSET ToSet(pending_requests_) /\ T \in SUBSET ToSet(pending_requests_)
    /\ New = {} => T = {}
    /\ New \subseteq T /\ \A k, l \in New : k = l
    /\ jobs_' \in [Keys -> Requests \cup {None}]
    /\ Outstanding' = (Outstanding \ {j}) \cup New /\ IsFiniteSet(Outstanding')
    /\ num_outstanding_jobs_' = Cardinality(Outstanding') /\ num_outstanding_jobs_' \in Nat
    /\ job' \in [Requests -> JobType] /\ request' \in [Requests -> RequestType]
    /\ pending_requests_' \in Seq(Requests) /\ Distinct(pending_requests_', 0)
    /\ ToSet(pending_requests_') = ToSet(pending_requests_) \ T
    /\ \A k \in New : /\ job'[k].resolver_ /\ Distinct(job'[k].requests_, 0)
                      /\ ToSet(job'[k].requests_) = T
    /\ \A x \in T : request'[x].job_ \in New /\ request'[x].callback_
    /\ \A k \in freed : job'[k] = NoJob
    /\ \A k \in Requests \ (freed \cup New) : job'[k] = job[k]
    /\ \A x \in Requests \ T :
          \/ request'[x] = request[x]
          \/ request'[x] = NoRequest /\ \E k \in freed : x \in List(k)
    /\ \A k \in Keys : jobs_'[k] # None => job'[jobs_'[k]].key_ = k
    /\ tasks_' \in Seq(Requests) /\ Distinct(tasks_', 0)
    /\ ToSet(tasks_') = ToSet(tasks_) \cup New /\ UNCHANGED running

LEMMA OnLookupCompleteStep ==
    ASSUME IInv, ~failed, OnLookupComplete
    PROVE  IInv'
<1> USE DEF limitVars, frameVars, familyVars
<1> PICK j : j = Head(loop) OBVIOUS
<1>jobs. PICK jobs : jobs = [jobs_ EXCEPT ![job[j].key_] = None] OBVIOUS
<1> PICK outstanding : outstanding = num_outstanding_jobs_ - 1 OBVIOUS
<1> PICK first : first = NextRequest(j, 0) OBVIOUS
<1> PICK freed : freed = IF first = 0 THEN {j} ELSE {} OBVIOUS
<1>0. Types /\ Sound /\ NoIdleSlot /\ TypeOK BY DEF IInv, Types
<1>1. /\ cur_completing_job_ = None /\ loop # <<>> /\ loop' = Tail(loop)
      /\ \/ /\ ~job[j].resolver_ /\ Free({j})
            /\ UNCHANGED <<jobs_, pending_requests_, num_outstanding_jobs_, frameVars, entries_,
                           client, failed, poolVars>>
         \/ /\ job[j].resolver_ /\ failed' = TRUE
            /\ UNCHANGED <<jobVars, frameVars, entries_, client, poolVars>>
         \/ /\ job[j].resolver_ /\ ~FindsJob(jobs, outstanding) /\ UNCHANGED failed
            /\ entries_' \in SetEntry(job[j].key_)
            /\ ProcessQueuedRequests(jobs, outstanding, freed)
            /\ GoOn(j, first)
      /\ UNCHANGED <<limitVars, familyVars, shutdown_, deleted>>
  BY <1>jobs DEF OnLookupComplete
<1>2. /\ j \in ToSet(loop) /\ j \in Requests /\ loop' \in Seq(Requests)
      /\ Distinct(loop', 0) /\ ToSet(loop') = ToSet(loop) \ {j}
      /\ loop \in Seq(Requests) /\ tasks_ \in Seq(Requests) /\ Distinct(tasks_, 0)
  <2>1. /\ loop \in Seq(Requests) /\ Distinct(loop, 0) /\ tasks_ \in Seq(Requests)
        /\ Distinct(tasks_, 0)
    BY <1>0 DEF Types, Sound, Ways
  <2> QED BY <1>1, <2>1, TailSet
<1>3. /\ j \in OnTheWay /\ j \notin ToSet(tasks_) /\ j \notin running
      /\ \A k \in Requests : /\ k \in ToSet(tasks_) => k \notin running /\ k \notin ToSet(loop)
                             /\ k \in running => k \notin ToSet(loop)
  BY <1>0, <1>2 DEF Sound, Ways, OnTheWay
<1>4. CASE /\ ~job[j].resolver_ /\ Free({j})
           /\ UNCHANGED <<jobs_, pending_requests_, num_outstanding_jobs_, frameVars, entries_,
                          client, failed, poolVars>>
  <2> USE DEF poolVars, threadVars
  <2>1. job' \in [Requests -> JobType] /\ request' \in [Requests -> RequestType]
    <3>1. {j} \in SUBSET Requests BY <1>2
    <3> QED BY <1>0, <1>4, <3>1, FreeFacts DEF Free
  <2>2. TypeOK' BY <1>0, <1>1, <1>4, <2>1 DEF TypeOK, JobType, RequestType
  <2>3. Types' BY <1>0, <1>1, <1>2, <1>4, <2>2 DEF Types, CallbackOnce
  <2>4. OnTheWay' = OnTheWay \ {j} BY <1>2, <1>3, <1>4 DEF OnTheWay
  <2>5. \A k \in Requests : /\ k \in ToSet(tasks_)' => k \notin running' /\ k \notin ToSet(loop)'
                            /\ k \in running' => k \notin ToSet(loop)'
    BY <1>2, <1>3, <1>4
  <2>6. Sound' BY <1>0, <1>1, <1>2, <1>3, <1>4, <2>3, <2>4, <2>5, CancelledGoes
  <2>7. NoIdleSlot' BY <1>0, <1>1, <1>4 DEF NoIdleSlot, CanCreateJobForPool
  <2> QED BY <2>3, <2>6, <2>7 DEF IInv
<1>5. CASE failed' = TRUE /\ UNCHANGED <<jobVars, frameVars, entries_, client, poolVars>>
  <2> USE DEF jobVars, poolVars, threadVars
  <2>1. TypeOK' BY <1>0, <1>1, <1>5 DEF TypeOK
  <2>2. Types' BY <1>0, <1>1, <1>2, <1>5, <2>1 DEF Types, CallbackOnce
  <2>3. NoIdleSlot' BY <1>0, <1>1, <1>5 DEF NoIdleSlot, CanCreateJobForPool
  <2> QED BY <1>5, <2>2, <2>3 DEF IInv
<1>6. CASE /\ job[j].resolver_ /\ ~FindsJob(jobs, outstanding) /\ UNCHANGED failed
           /\ entries_' \in SetEntry(job[j].key_)
           /\ ProcessQueuedRequests(jobs, outstanding, freed)
           /\ GoOn(j, first)
  <2> PICK s : s = job[j].requests_ OBVIOUS
  <2>1. /\ j \in Outstanding /\ ~shutdown_ /\ ~deleted /\ job[j].key_ \in Keys
        /\ jobs \in [Keys -> Requests \cup {None}]
        /\ \A k \in Keys : jobs[k] = None \/ jobs[k] = jobs_[k]
        /\ OutstandingJobs(jobs) = Outstanding \ {j} /\ IsFiniteSet(OutstandingJobs(jobs))
        /\ Cardinality(OutstandingJobs(jobs)) = Cardinality(Outstanding) - 1
        /\ Cardinality(Outstanding) \in Nat \ {0}
        /\ num_outstanding_jobs_ = Cardinality(Outstanding)
    BY <1>jobs, <1>0, <1>1, <1>2, <1>6, LeavesMap
  <2>2. GoesOn(j, freed) BY <1>0, <1>1, <1>2, <1>6, FirstCallback
  <2>3. entries_' \subseteq Keys BY <1>0, <1>6, <2>1, EntriesType DEF TypeOK
  <2>4. /\ s # <<>> /\ freed \in SUBSET {j} /\ freed \in SUBSET Requests /\ j # None
        /\ cur_completing_job_' \in Requests \cup {None}
    BY <1>0, <1>2, <1>3, <2>2, ResolverAssumption DEF Sound, Ways, GoesOn
  <2>5. /\ pending_requests_ \in Seq(Requests) /\ Distinct(pending_requests_, 0)
        /\ \A x \in ToSet(pending_requests_) :
              /\ x \in Requests /\ client[x] = "waiting" /\ client'[x] = "waiting"
              /\ \A k \in Requests : x \notin List(k)
    <3>1. \A x \in ToSet(pending_requests_) :
             x \in Requests /\ client[x] = "waiting" /\ \A k \in Requests : x \notin List(k)
      BY <1>0, <2>1, TypeFacts DEF Sound, Listed, Answerable
    <3>2. \A x \in ToSet(pending_requests_) : client'[x] = client[x]
      BY <1>2, <2>2, <3>1 DEF GoesOn
    <3> QED BY <1>0, <3>1, <3>2, TypeFacts DEF Sound, Listed
  \* What both ways to go on have to show.
  <2>6. ASSUME NEW New, NEW T, Started(j, freed, New, T) PROVE Types' /\ Sound'
    <3> USE DEF Started
    <3>1. /\ j \notin New /\ \A k \in New : /\ k \in Requests /\ k \notin OnTheWay
                                            /\ k # cur_completing_job_'
      <4> SUFFICES ASSUME NEW k \in New
                   PROVE  j \notin New /\ k \in Requests /\ k \notin OnTheWay
                          /\ k # cur_completing_job_'
        OBVIOUS
      <4>1. j \in List(j) BY <1>0, <1>2, <2>4 DEF Sound, Listed
      <4>2. j \notin New BY <1>2, <2>5, <2>6, <4>1
      <4>3. k \in Requests /\ k \notin List(k) BY <2>5, <2>6
      <4>4. job[k].requests_ = <<>> BY <1>0, <4>3 DEF Sound, Listed
      <4>5. k \notin OnTheWay BY <1>0, <4>4 DEF Sound, Ways
      <4>6. k # cur_completing_job_' BY <2>2, <4>2, <4>3, ResolverAssumption DEF GoesOn
      <4> QED BY <4>2, <4>3, <4>5, <4>6
    <3>2. Types'
      <4>1. cur_completing_job_' # None =>
               it' \in 1..Len(job'[cur_completing_job_'].requests_)
        <5>1. cur_completing_job_' # None => cur_completing_job_' = j /\ j \notin freed
          BY <2>2 DEF GoesOn
        <5>2. j \notin freed => job'[j] = job[j] BY <1>2, <2>6, <3>1
        <5> QED BY <2>2, <5>1, <5>2 DEF GoesOn
      <4>2. TypeOK'
        BY <1>0, <1>1, <2>2, <2>3, <2>4, <2>6, <4>1 DEF TypeOK, JobType, RequestType, GoesOn
      <4>3. CallbackOnce' BY <2>2 DEF CallbackOnce, GoesOn
      <4>4. running' \subseteq Requests /\ shutdown_' \in BOOLEAN /\ deleted' \in BOOLEAN
            /\ failed' \in BOOLEAN
        BY <1>0, <1>1, <1>6, <2>6 DEF Types
      <4> QED BY <1>2, <2>2, <2>6, <4>2, <4>3, <4>4 DEF Types, GoesOn
    <3>3. Change({j}, freed, New, T)
      <4>1. OnTheWay' = (OnTheWay \ {j}) \cup New BY <1>2, <1>3, <2>6, <3>1 DEF OnTheWay
      <4>2. \A k \in Requests :
               /\ k \in ToSet(tasks_)' => k \notin running' /\ k \notin ToSet(loop)'
               /\ k \in running' => k \notin ToSet(loop)'
        BY <1>2, <1>3, <2>6, <3>1 DEF OnTheWay
      <4>3. \A k \in freed : k # cur_completing_job_' BY <2>2 DEF GoesOn
      <4>4. \A k \in {j} \ freed : /\ job'[k] = job[k] /\ k = cur_completing_job_'
                                   /\ job[k].requests_ # <<>> /\ job[k].resolver_ /\ ~deleted
        BY <1>2, <1>6, <2>1, <2>2, <2>4, <2>6, <3>1 DEF GoesOn
      <4>5. \A i : ToCome(j, i) BY <1>1, <2>4 DEF ToCome
      <4>6. \A k \in {j} \ freed : \A i \in 1..Len(job[k].requests_) :
              i > it' => ToCome(k, i)
                         /\ client'[job[k].requests_[i]] = client[job[k].requests_[i]]
        BY <2>2, <4>5 DEF GoesOn
      <4>7. \A k \in {j} : \A i \in 1..Len(job[k].requests_) :
              request[job[k].requests_[i]].callback_ =>
                 client'[job[k].requests_[i]] # "waiting" \/ (k \notin freed /\ i > it')
        BY <2>2 DEF GoesOn
      <4>8. \A k \in Requests \ ({j} \cup New) :
               job'[k] = job[k] /\ k # cur_completing_job_' /\ k # cur_completing_job_
        BY <1>1, <2>2, <2>4, <2>6, ResolverAssumption DEF GoesOn
      <4>9. \A x \in Requests : \/ client'[x] = client[x]
                                \/ client'[x] = "done" /\ \E k \in {j} : x \in List(k)
        BY <2>2 DEF GoesOn
      <4>10. \A x \in T : client'[x] = "waiting" /\ \A k \in Requests : x \notin List(k)
        BY <2>5, <2>6
      <4> QED BY <1>1, <1>2, <2>1, <2>6, <3>1, <4>1, <4>2, <4>3, <4>4, <4>6, <4>7, <4>8, <4>9,
                 <4>10 DEF Change
    <3>4. New \in SUBSET Requests /\ T \in SUBSET Requests BY <2>5, <2>6
    <3>5. Sound' BY <1>0, <1>2, <2>4, <3>2, <3>3, <3>4, JobsChange
    <3> QED BY <3>2, <3>5
  <2>7. CASE /\ NothingStarted(jobs, outstanding, freed)
             /\ ~(pending_requests_ # <<>> /\ CanCreateJobForPool(jobs, outstanding))
    <3>1. /\ jobs_' = jobs /\ num_outstanding_jobs_' = outstanding /\ Free(freed)
          /\ UNCHANGED <<pending_requests_, tasks_, running>>
      BY <2>7 DEF NothingStarted, poolVars, threadVars
    <3>2. /\ job' \in [Requests -> JobType] /\ request' \in [Requests -> RequestType]
          /\ \A k \in freed : job'[k] = NoJob
          /\ \A k \in Requests \ freed : job'[k] = job[k]
          /\ \A x \in Requests : \/ request'[x] = request[x]
                                 \/ request'[x] = NoRequest /\ \E k \in freed : x \in List(k)
      BY <1>0, <2>4, <3>1, FreeFacts DEF Free
    <3>3. Outstanding' = Outstanding \ {j} /\ IsFiniteSet(Outstanding')
          /\ num_outstanding_jobs_' = Cardinality(Outstanding') /\ num_outstanding_jobs_' \in Nat
      <4>1. Outstanding' = OutstandingJobs(jobs) BY <3>1 DEF Outstanding
      <4>2. outstanding = Cardinality(Outstanding) - 1 /\ outstanding \in Nat BY <2>1
      <4>3. Cardinality(OutstandingJobs(jobs)) = outstanding BY <2>1, <4>2
      <4>4. IsFiniteSet(OutstandingJobs(jobs)) /\ OutstandingJobs(jobs) = Outstanding \ {j} BY <2>1
      <4> QED BY <3>1, <4>1, <4>2, <4>3, <4>4
    <3>4. \A k \in Keys : jobs_'[k] # None => job'[jobs_'[k]].key_ = k
      <4> TAKE k \in Keys
      <4>1. jobs[k] # None => jobs[k] = jobs_[k] /\ jobs_[k] \in Requests \ {j}
        BY <2>1 DEF OutstandingJobs
      <4> QED BY <1>0, <2>4, <3>1, <3>2, <4>1 DEF Sound, Mapped
    <3>5. Types' /\ Sound'
      <4>1. Started(j, freed, {}, {})
        BY <1>2, <2>1, <2>5, <3>1, <3>2, <3>3, <3>4 DEF Started
      <4> QED BY <2>6, <4>1
    <3>6. NoIdleSlot' BY <1>1, <2>7, <3>1 DEF NoIdleSlot, CanCreateJobForPool
    <3> QED BY <3>5, <3>6 DEF IInv
  <2>8. ASSUME NEW i \in 1..Len(pending_requests_), NEW r, r = pending_requests_[i],
               CanCreateJobForPool(jobs, outstanding), TopPendingRequest(pending_requests_, i),
               CreateAndStartJob(jobs, outstanding, freed, r, CanService(r)),
               pending_requests_' = Without(pending_requests_, {r} \cup CanService(r)),
               pending_requests_ # <<>>
        PROVE  IInv'
    <3> PICK moved : moved = CanService(r) OBVIOUS
    <3> PICK key : key = GetEffectiveKeyForRequest(r) OBVIOUS
    <3>1. r \in ToSet(pending_requests_) /\ r \in Requests BY <2>5, <2>8, ToSetElems
    <3>2. moved \in SUBSET ToSet(pending_requests_) /\ r \notin moved BY DEF CanService
    <3>3. r \in Requests \ freed
      <4>1. j \in List(j) BY <1>0, <1>2, <2>4 DEF Sound, Listed
      <4> QED BY <1>2, <2>4, <2>5, <3>1, <4>1
    <3>4. Created(jobs, outstanding, freed, r, moved)
      BY <1>0, <2>4, <2>8, <3>2, <3>3, CreateFacts
    <3>5. jobs[key] = None /\ key \in Keys
      BY <1>0, <1>6, <2>8, <3>1, TypeFacts DEF FindsJob
    <3>6. r \notin Outstanding
      <4>1. job[r].requests_ = <<>> BY <1>0, <2>5, <3>1 DEF Sound, Listed
      <4> QED BY <1>0, <4>1 DEF Sound, Ways, Mapped
    <3>7. jobs_' = [jobs EXCEPT ![key] = r] /\ num_outstanding_jobs_' = outstanding + 1
      BY <3>4 DEF Created
    <3>8. /\ jobs_' \in [Keys -> Requests \cup {None}]
          /\ Outstanding' = (Outstanding \ {j}) \cup {r} /\ IsFiniteSet(Outstanding')
          /\ Cardinality(Outstanding') = Cardinality(OutstandingJobs(jobs)) + 1
      <4>1. r \notin OutstandingJobs(jobs) BY <2>1, <3>6
      <4>2. /\ jobs_' \in [Keys -> Requests \cup {None}]
            /\ OutstandingJobs(jobs_') = OutstandingJobs(jobs) \cup {r}
            /\ IsFiniteSet(OutstandingJobs(jobs_'))
            /\ Cardinality(OutstandingJobs(jobs_')) = Cardinality(OutstandingJobs(jobs)) + 1
        <5>1. IsFiniteSet(OutstandingJobs(jobs)) /\ jobs \in [Keys -> Requests \cup {None}]
          BY <2>1
        <5>2. /\ jobs_' \in [Keys -> Requests \cup {None}]
              /\ jobs_'[key] = r /\ \A l \in Keys \ {key} : jobs_'[l] = jobs[l]
          BY <3>1, <3>5, <3>7, <5>1
        <5> QED BY <3>1, <3>5, <4>1, <5>1, <5>2, AddJob
      <4> QED BY <2>1, <4>2 DEF Outstanding
    <3>9. /\ num_outstanding_jobs_' = num_outstanding_jobs_ /\ num_outstanding_jobs_' \in Nat
          /\ Cardinality(Outstanding') = Cardinality(Outstanding)
          /\ num_outstanding_jobs_' = Cardinality(Outstanding')
      BY <2>1, <3>7, <3>8
    <3>10. \A k \in Keys : jobs_'[k] # None => job'[jobs_'[k]].key_ = k
      <4> TAKE k \in Keys
      <4>1. CASE k = key BY <2>1, <3>4, <3>5, <3>7, <4>1 DEF Created
      <4>2. CASE k # key
        <5>1. jobs_'[k] = jobs[k] BY <2>1, <3>5, <3>7, <4>2
        <5>2. jobs[k] # None => jobs[k] = jobs_[k] /\ jobs_[k] \in Requests \ {j, r}
          BY <2>1, <3>6 DEF OutstandingJobs
        <5>3. jobs[k] # None => job'[jobs[k]] = job[jobs[k]]
          BY <2>4, <3>4, <5>2 DEF Created
        <5> QED BY <1>0, <5>1, <5>2, <5>3 DEF Sound, Mapped
      <4> QED BY <4>1, <4>2
    <3>11. /\ pending_requests_' \in Seq(Requests) /\ Distinct(pending_requests_', 0)
           /\ ToSet(pending_requests_') = ToSet(pending_requests_) \ ({r} \cup moved)
      <4>1. pending_requests_' = Among(pending_requests_, Requests \ ({r} \cup moved))
        BY <2>8 DEF Without
      <4> QED BY <2>5, <4>1, AmongSet
    <3>12. /\ tasks_' \in Seq(Requests) /\ Distinct(tasks_', 0)
           /\ ToSet(tasks_') = ToSet(tasks_) \cup {r} /\ UNCHANGED running
      <4>1. r \notin ToSet(tasks_)
        <5>1. job[r].requests_ = <<>> BY <1>0, <2>5, <3>1 DEF Sound, Listed
        <5> QED BY <1>0, <5>1 DEF Sound, Ways, OnTheWay
      <4>2. tasks_' = Append(tasks_, r) /\ UNCHANGED running BY <3>4 DEF Created
      <4> QED BY <1>2, <3>1, <4>1, <4>2, AppendSet
    <3>13. Types' /\ Sound'
      <4> PICK New : New = {r} OBVIOUS
      <4> PICK T : T = {r} \cup moved OBVIOUS
      <4>1. New \in SUBSET ToSet(pending_requests_) /\ T \in SUBSET ToSet(pending_requests_)
            /\ New # {} /\ New \subseteq T /\ \A k, l \in New : k = l
        BY <3>1, <3>2
      <4>2. /\ job' \in [Requests -> JobType] /\ request' \in [Requests -> RequestType]
            /\ \A k \in New : /\ job'[k].resolver_ /\ Distinct(job'[k].requests_, 0)
                              /\ ToSet(job'[k].requests_) = T
            /\ \A x \in T : request'[x].job_ \in New /\ request'[x].callback_
            /\ \A k \in freed : job'[k] = NoJob
            /\ \A k \in Requests \ (freed \cup New) : job'[k] = job[k]
            /\ \A x \in Requests \ T :
                  \/ request'[x] = request[x]
                  \/ request'[x] = NoRequest /\ \E k \in freed : x \in List(k)
        BY <3>4 DEF Created
      <4>3. /\ ToSet(pending_requests_') = ToSet(pending_requests_) \ T
            /\ ToSet(tasks_') = ToSet(tasks_) \cup New
            /\ Outstanding' = (Outstanding \ {j}) \cup New
        BY <3>8, <3>11, <3>12
      <4>4. Started(j, freed, New, T)
        BY <3>8, <3>9, <3>10, <3>11, <3>12, <4>1, <4>2, <4>3 DEF Started
      <4> QED BY <2>6, <4>4
    <3>14. NoIdleSlot'
      <4>1. ~CanCreateJobForPool(jobs_, num_outstanding_jobs_)
        BY <1>0, <2>1, <2>8 DEF NoIdleSlot
      <4> QED BY <1>1, <3>9, <4>1 DEF NoIdleSlot, CanCreateJobForPool, Outstanding
    <3> QED BY <3>13, <3>14 DEF IInv
  <2> QED BY <1>6, <2>7, <2>8 DEF ProcessQueuedRequests
<1> QED BY <1>1, <1>4, <1>5, <1>6

-----------------------------------------------------------------------------
(* The theorems.                                                           *)

LEMMA InitIInv ==
    ASSUME Init
    PROVE  IInv
<1> USE DEF Init, PoolInit
<1>1. \A r \in Requests : job[r] = NoJob /\ request[r] = NoRequest /\ client[r] = "unused"
  OBVIOUS
<1>2. NoJob \in JobType /\ NoRequest \in RequestType /\ None \notin Requests
  BY ResolverAssumption, NoneSet DEF NoJob, NoRequest, JobType, RequestType
<1>3. TypeOK
  <2>1. max_jobs_ \in Nat \ {0} /\ 100 * max_jobs_ \in Nat BY ResolverAssumption
  <2>2. job \in [Requests -> JobType] /\ request \in [Requests -> RequestType] BY <1>2
  <2>3. jobs_ \in [Keys -> Requests \cup {None}] OBVIOUS
  <2>4. UNSPECIFIED \in Families BY DEF Families
  <2>5. client \in [Requests -> {"unused", "waiting", "done", "ignored", "surprised"}] OBVIOUS
  <2> QED BY <2>1, <2>2, <2>3, <2>4, <2>5, NoneSet DEF TypeOK, JobType, RequestType
<1>4. Types BY <1>1, <1>3, NoneSet DEF Types, CallbackOnce
<1>5. NoIdleSlot BY DEF NoIdleSlot
<1>6. Outstanding = {} /\ IsFiniteSet(Outstanding) /\ Cardinality(Outstanding) = 0
  BY NoJobs DEF Outstanding
<1>7. \A r \in Requests : job[r].requests_ = <<>> /\ ~job[r].resolver_ /\ List(r) = {}
  BY <1>1, NoneSet DEF NoJob, List
<1>8. Ways BY NoneSet DEF Ways, OnTheWay
<1>9. Mapped BY <1>6, <1>7 DEF Mapped
<1>10. Counted BY <1>6 DEF Counted
<1>11. Listed BY <1>7, NoneSet DEF Listed
<1>12. Answerable
  <2>1. \A r \in Requests : client[r] # "waiting" /\ request[r].job_ = None
    BY <1>1 DEF NoRequest
  <2> QED BY <1>7, <2>1, NoneSet DEF Answerable
<1> QED BY <1>4, <1>5, <1>8, <1>9, <1>10, <1>11, <1>12 DEF IInv, Sound

\* A program that a DCHECK stopped does nothing but end.
LEMMA FailedStep ==
    ASSUME IInv, failed, Next
    PROVE  IInv'
<1>1. ExitProgram
  BY DEF Next, ResolveNow, JoinJob, StartJob, EnqueueRequest, Pending, CancelRequest,
         CancelRequestIgnored, DoLookup, SetDefaultAddressFamily, OnProbeComplete,
         SetPoolConstraints, Shutdown, Destroy, ProbeIPv6Support, OnIPAddressChanged,
         OnLookupComplete, CallbackReturns, PoolThreads, Alive
<1>2. UNCHANGED <<jobVars, limitVars, frameVars, entries_, familyVars, shutdown_, deleted, loop,
                  client, failed, tasks_, running>>
  BY <1>1 DEF ExitProgram, Terminate
<1> USE DEF jobVars, limitVars, frameVars, familyVars
<1>3. Types' BY <1>2 DEF IInv, Types, TypeOK, CallbackOnce
<1>4. NoIdleSlot' BY <1>2 DEF IInv, NoIdleSlot, CanCreateJobForPool
<1> QED BY <1>2, <1>3, <1>4 DEF IInv

LEMMA NextIInv ==
    ASSUME IInv, [Next]_vars
    PROVE  IInv'
<1>1. CASE UNCHANGED vars
  <2>1. UNCHANGED <<core, limitVars, entries_, familyVars, client, failed>>
    BY <1>1 DEF vars, core, poolVars, threadVars
  <2> USE DEF jobVars, limitVars, frameVars, familyVars
  <2>2. Types' BY <2>1 DEF IInv, Types, TypeOK, CallbackOnce, core
  <2>3. NoIdleSlot' BY <2>1 DEF IInv, NoIdleSlot, CanCreateJobForPool, core
  <2>4. ~failed => Sound' BY <2>1, CoreSame DEF IInv
  <2> QED BY <2>1, <2>2, <2>3, <2>4 DEF IInv
<1>2. CASE Next /\ failed BY <1>2, FailedStep
<1>3. CASE Next /\ ~failed
  <2>1. ASSUME NEW r \in Requests, JoinJob(r) PROVE IInv' BY <1>3, <2>1, JoinJobStep
  <2>2. ASSUME NEW r \in Requests, StartJob(r) PROVE IInv' BY <1>3, <2>2, StartJobStep
  <2>3. ASSUME NEW r \in Requests, EnqueueRequest(r) PROVE IInv' BY <1>3, <2>3, EnqueueRequestStep
  <2>4. ASSUME NEW r \in Requests, CancelRequest(r) PROVE IInv' BY <1>3, <2>4, CancelRequestStep
  <2>5. ASSUME NEW r \in Requests, DoLookup(r) PROVE IInv' BY <1>3, <2>5, DoLookupStep
  <2>6. ASSUME \/ \E r \in Requests : ResolveNow(r) \/ CancelRequestIgnored(r)
               \/ \E family \in Families : SetDefaultAddressFamily(family) \/ OnProbeComplete(family)
               \/ \E c \in Constraints : SetPoolConstraints(c[1], c[2])
               \/ ProbeIPv6Support \/ OnIPAddressChanged \/ ExitProgram
        PROVE  IInv'
    BY <1>3, <2>6, QuietStep
  <2>7. CASE Shutdown BY <1>3, <2>7, ShutdownStep
  <2>8. CASE Destroy BY <1>3, <2>8, DestroyStep
  <2>9. CASE OnLookupComplete BY <1>3, <2>9, OnLookupCompleteStep
  <2>10. CASE CallbackReturns BY <1>3, <2>10, CallbackReturnsStep
  <2>11. CASE PoolThreads BY <1>3, <2>11, PoolThreadsStep
  <2> QED BY <1>3, <2>1, <2>2, <2>3, <2>4, <2>5, <2>6, <2>7, <2>8, <2>9, <2>10, <2>11 DEF Next
<1> QED BY <1>1, <1>2, <1>3

LEMMA AlwaysIInv == Spec => []IInv
<1>1. Init => IInv BY InitIInv
<1>2. IInv /\ [Next]_vars => IInv' BY NextIInv
<1> QED BY <1>1, <1>2, PTL DEF Spec

\* Requests, jobs, queues and counters keep their shapes for any number of requests
\* and any limits; the count of jobs is never decremented below zero.
THEOREM ResolverTypes == Spec => []TypeOK
<1>1. IInv => TypeOK BY DEF IInv, Types
<1> QED BY <1>1, AlwaysIInv, PTL

\* No sequence of calls, callbacks, cancellations, a shutdown and the destructor makes
\* a callback run twice, or for a request that was cancelled.
THEOREM CallbacksRunOnce == Spec => []CallbackOnce
<1>1. IInv => CallbackOnce BY DEF IInv, Types
<1> QED BY <1>1, AlwaysIInv, PTL

\* Starting at most one job per completion leaves no slot free while requests wait.
THEOREM SlotsAreUsed == Spec => []NoIdleSlot
<1>1. IInv => NoIdleSlot BY DEF IInv
<1> QED BY <1>1, AlwaysIInv, PTL

\* How often something is in a list without repetitions.
LEMMA PlacesCard ==
    ASSUME NEW R, NEW s \in Seq(R), Distinct(s, 0), NEW x
    PROVE  Cardinality(Places(s, x)) = IF x \in ToSet(s) THEN 1 ELSE 0
<1>1. CASE x \in ToSet(s)
  <2>1. PICK i \in 1..Len(s) : s[i] = x BY <1>1, ToSetElems
  <2>2. \A k \in 1..Len(s) : s[k] = x => k = i BY <2>1 DEF Distinct, From
  <2>3. Places(s, x) = {i} BY <2>1, <2>2 DEF Places
  <2> QED BY <1>1, <2>3, FS_Singleton
<1>2. CASE x \notin ToSet(s)
  <2>1. Places(s, x) = {} BY <1>2, ToSetElems DEF Places
  <2> QED BY <1>2, <2>1, FS_EmptySet
<1> QED BY <1>1, <1>2

\* The map of jobs holds exactly the jobs that were not cancelled, each under its key;
\* they are counted, and each is on its way through the worker pool and back once.
THEOREM JobsAreExact == Spec => []JobsExact
<1>1. ASSUME IInv PROVE JobsExact
  <2> SUFFICES ASSUME ~failed
               PROVE  LET live == {j \in Requests \ {cur_completing_job_} : job[j].resolver_}
                      IN  /\ live = OutstandingJobs(jobs_)
                          /\ ~shutdown_ /\ ~deleted => num_outstanding_jobs_ = Cardinality(live)
                          /\ \A j \in live :
                                /\ jobs_[job[j].key_] = j
                                /\ Cardinality(Places(tasks_, j)) + Cardinality({j} \cap running)
                                   + Cardinality(Places(loop, j)) = 1
    BY DEF JobsExact
  <2> DEFINE live == {j \in Requests \ {cur_completing_job_} : job[j].resolver_}
  <2>1. Types /\ Sound BY <1>1 DEF IInv
  <2>2. live = Outstanding BY <2>1, TypeFacts DEF Sound, Mapped
  <2>3. ~shutdown_ /\ ~deleted => num_outstanding_jobs_ = Cardinality(live)
    <3> HIDE DEF live
    <3> QED BY <2>1, <2>2 DEF Sound, Counted
  <2>4. ASSUME NEW j \in live
        PROVE  /\ jobs_[job[j].key_] = j
               /\ Cardinality(Places(tasks_, j)) + Cardinality({j} \cap running)
                  + Cardinality(Places(loop, j)) = 1
    <3>1. j \in Requests /\ j \in Outstanding /\ j \in OnTheWay
      BY <2>1, <2>2 DEF Sound, Mapped
    <3>2. jobs_[job[j].key_] = j
      <4>1. PICK k \in Keys : jobs_[k] = j /\ j # None
        BY <3>1 DEF Outstanding, OutstandingJobs
      <4> QED BY <2>1, <4>1 DEF Sound, Mapped
    <3>3. /\ tasks_ \in Seq(Requests) /\ loop \in Seq(Requests)
          /\ Distinct(tasks_, 0) /\ Distinct(loop, 0)
      BY <2>1 DEF Types, Sound, Ways
    <3>4. /\ Cardinality(Places(tasks_, j)) = IF j \in ToSet(tasks_) THEN 1 ELSE 0
          /\ Cardinality(Places(loop, j)) = IF j \in ToSet(loop) THEN 1 ELSE 0
      BY <3>3, PlacesCard
    <3>5. Cardinality({j} \cap running) = IF j \in running THEN 1 ELSE 0
      <4>1. CASE j \in running
        <5>1. {j} \cap running = {j} BY <4>1
        <5> QED BY <4>1, <5>1, FS_Singleton
      <4>2. CASE j \notin running
        <5>1. {j} \cap running = {} BY <4>2
        <5> QED BY <4>2, <5>1, FS_EmptySet
      <4> QED BY <4>1, <4>2
    <3>6. \/ j \in ToSet(tasks_) /\ j \notin running /\ j \notin ToSet(loop)
          \/ j \notin ToSet(tasks_) /\ j \in running /\ j \notin ToSet(loop)
          \/ j \notin ToSet(tasks_) /\ j \notin running /\ j \in ToSet(loop)
      BY <2>1, <3>1 DEF Sound, Ways, OnTheWay
    <3> QED BY <3>2, <3>4, <3>5, <3>6
  <2> QED BY <2>2, <2>3, <2>4 DEF Outstanding
<1> QED BY <1>1, AlwaysIInv, PTL

\* Every request the client still waits for is in the queue once, or once in the list
\* of a job that is outstanding or has not yet come to it; nothing else is queued.
THEOREM RequestsAreNotForgotten == Spec => []NoRequestForgotten
<1>1. ASSUME IInv PROVE NoRequestForgotten
  <2> SUFFICES ASSUME ~shutdown_, ~deleted, ~failed
               PROVE  /\ ToSet(pending_requests_) \subseteq {r \in Requests : client[r] = "waiting"}
                      /\ \A r \in Requests : client[r] = "waiting" =>
                            LET j == request[r].job_ IN
                            /\ request[r].callback_
                            /\ Cardinality(Places(pending_requests_, r)) = (IF j = None THEN 1 ELSE 0)
                            /\ j # None => /\ Cardinality(Places(job[j].requests_, r)) = 1
                                           /\ \/ j \in OutstandingJobs(jobs_)
                                              \/ /\ j = cur_completing_job_
                                                 /\ \A i \in Places(job[j].requests_, r) : i > it
    BY DEF NoRequestForgotten
  <2>1. Types /\ Sound BY <1>1 DEF IInv
  <2>2. ToSet(pending_requests_) \subseteq {r \in Requests : client[r] = "waiting"}
    BY <2>1, TypeFacts DEF Sound, Answerable
  <2>3. ASSUME NEW r \in Requests, client[r] = "waiting", NEW j, j = request[r].job_
        PROVE  /\ request[r].callback_
               /\ Cardinality(Places(pending_requests_, r)) = (IF j = None THEN 1 ELSE 0)
               /\ j # None => /\ Cardinality(Places(job[j].requests_, r)) = 1
                              /\ \/ j \in OutstandingJobs(jobs_)
                                 \/ /\ j = cur_completing_job_
                                    /\ \A i \in Places(job[j].requests_, r) : i > it
    <3>1. Expected(r) BY <2>1, <2>3 DEF Sound, Answerable
    <3>2. j \in Requests \cup {None} /\ None \notin Requests BY <2>1, <2>3, TypeFacts
    <3>3. pending_requests_ \in Seq(Requests) /\ Distinct(pending_requests_, 0)
      BY <2>1, TypeFacts DEF Sound, Listed
    <3>4. CASE j = None
      <4>1. r \in ToSet(pending_requests_) /\ request[r].callback_
        BY <2>3, <3>1, <3>4 DEF Expected
      <4> QED BY <3>3, <3>4, <4>1, PlacesCard
    <3>5. CASE j # None
      <4> PICK s : s = job[j].requests_ OBVIOUS
      <4>1. /\ request[r].callback_ /\ (j \in Outstanding \/ j = cur_completing_job_)
            /\ \E i \in 1..Len(s) : s[i] = r /\ ToCome(j, i)
        BY <2>3, <3>1, <3>5 DEF Expected
      <4>2. PICK i \in 1..Len(s) : s[i] = r /\ ToCome(j, i) BY <4>1
      <4>3. s \in Seq(Requests) /\ Distinct(s, 0) /\ j \in Requests /\ r \in List(j) /\ r \in ToSet(s)
        BY <2>1, <3>2, <3>5, <4>2, TypeFacts DEF Sound, Listed, List
      <4>4. Cardinality(Places(s, r)) = 1 BY <4>3, PlacesCard
      <4>5. r \notin ToSet(pending_requests_) BY <2>1, <4>3 DEF Sound, Listed
      <4>6. Cardinality(Places(pending_requests_, r)) = 0 BY <3>3, <4>5, PlacesCard
      <4>7. \A k \in Places(s, r) : k = i BY <4>2, <4>3 DEF Places, Distinct, From
      <4>8. j = cur_completing_job_ => \A k \in Places(s, r) : k > it
        BY <4>2, <4>7 DEF ToCome
      <4> QED BY <3>5, <4>1, <4>4, <4>6, <4>8 DEF Outstanding
    <3> QED BY <3>4, <3>5
  <2> QED BY <2>2, <2>3
<1> QED BY <1>1, AlwaysIInv, PTL
===============================================================================
