------------------------------ MODULE ListLemmas ------------------------------
(***************************************************************************)
(* Facts about lists of distinct elements, for the lists of waiters of     *)
(* events, and that the natural numbers are well-ordered, which stands for *)
(* induction.                                                              *)
(***************************************************************************)
EXTENDS Integers, SequencesExt, SequenceTheorems, WellFoundedInduction, TLAPS

\* The elements of a list from position k on, and that none of them is there twice.
From(s, k) == {j \in 1..Len(s) : j >= k}
Elems(s, k) == {s[i] : i \in From(s, k)}
Distinct(s, k) == \A i, j \in From(s, k) : s[i] = s[j] => i = j

-----------------------------------------------------------------------------
(* A part of a list.                                                       *)

\* An empty list, and one that SignalAll has gone through, hold nothing.
LEMMA ElemsNone ==
    ASSUME NEW S, NEW s \in Seq(S), NEW k \in Nat, k > Len(s)
    PROVE  Elems(s, k) = {} /\ Elems(<<>>, 0) = {} /\ Distinct(<<>>, 0)
BY DEF Elems, From, Distinct

\* The start of SignalAll: position 1 is as good as 0.
LEMMA ElemsStart ==
    ASSUME NEW S, NEW s \in Seq(S)
    PROVE  Elems(s, 1) = Elems(s, 0) /\ (Distinct(s, 0) => Distinct(s, 1))
<1>1. From(s, 1) = From(s, 0) BY DEF From
<1> QED BY <1>1 DEF Elems, Distinct

\* SignalAll moves past the waiter it fires.
LEMMA ElemsStep ==
    ASSUME NEW S, NEW s \in Seq(S), NEW k \in 1..Len(s), Distinct(s, k)
    PROVE  /\ s[k] \in Elems(s, k) /\ Distinct(s, k + 1)
           /\ Elems(s, k + 1) = Elems(s, k) \ {s[k]}
<1>1. k \in Nat /\ Len(s) \in Nat /\ k \in From(s, k) BY DEF From
<1>2. From(s, k) = From(s, k + 1) \cup {k} /\ k \notin From(s, k + 1) BY <1>1 DEF From
<1> QED BY <1>1, <1>2 DEF Elems, Distinct

\* t is s without position i: the later positions move up by one.
CutAt(s, i, t) ==
    /\ Len(t) = Len(s) - 1
    /\ \A j \in 1..(Len(s) - 1) : t[j] = IF j < i THEN s[j] ELSE s[j + 1]

\* The two parts around a position, joined, are the list without it.
LEMMA CutSeq ==
    ASSUME NEW S, NEW s \in Seq(S), NEW i \in 1..Len(s)
    PROVE  LET t == SubSeq(s, 1, i - 1) \o SubSeq(s, i + 1, Len(s))
           IN  t \in Seq(S) /\ CutAt(s, i, t)
<1> DEFINE n == Len(s)
           u == SubSeq(s, 1, i - 1)
           v == SubSeq(s, i + 1, n)
           t == u \o v
<1>1. n \in Nat /\ i \in Int /\ \A j \in 1..n : s[j] \in S OBVIOUS
<1>2. u \in Seq(S) /\ Len(u) = i - 1 /\ \A j \in 1..(i - 1) : u[j] = s[j]
  BY <1>1, SubSeqProperties
<1>3. v \in Seq(S) /\ Len(v) = n - i /\ \A j \in 1..(n - i) : v[j] = s[i + j]
  <2>1. v \in Seq(S) /\ Len(v) = (IF i + 1 <= n THEN n - (i + 1) + 1 ELSE 0)
        /\ \A j \in 1..(n - (i + 1) + 1) : v[j] = s[i + 1 + j - 1]
    BY <1>1, SubSeqProperties
  <2> QED BY <1>1, <2>1
<1>4. /\ t \in Seq(S) /\ Len(t) = Len(u) + Len(v)
      /\ \A j \in 1..(Len(u) + Len(v)) :
           t[j] = IF j <= Len(u) THEN u[j] ELSE v[j - Len(u)]
  <2> HIDE DEF u, v
  <2> QED BY <1>2, <1>3, ConcatProperties
<1> HIDE DEF u, v, t, n
<1>5. Len(t) = n - 1 BY <1>1, <1>2, <1>3, <1>4
<1>6. ASSUME NEW j \in 1..(n - 1) PROVE t[j] = IF j < i THEN s[j] ELSE s[j + 1]
  <2>0. i \in 1..n /\ j \in 1..(Len(u) + Len(v)) BY <1>1, <1>2, <1>3 DEF n
  <2>1. CASE j < i BY <1>1, <1>2, <1>4, <2>0, <2>1
  <2>2. CASE ~(j < i)
    <3>1. j - (i - 1) \in 1..(n - i) /\ i + (j - (i - 1)) = j + 1 BY <1>1, <2>0, <2>2
    <3>2. t[j] = v[j - (i - 1)] BY <1>1, <1>2, <1>4, <2>0, <2>2
    <3> QED BY <1>3, <2>2, <3>1, <3>2
  <2> QED BY <2>1, <2>2
<1>7. CutAt(s, i, t) BY <1>5, <1>6 DEF CutAt, n
<1> QED BY <1>4, <1>7 DEF t, u, v, n

\* The list s with e behind its first k positions.
Inserted(s, k, e) == SubSeq(s, 1, k) \o <<e>> \o SubSeq(s, k + 1, Len(s))

\* Putting e behind the first k positions is undone by cutting position k + 1.
LEMMA InsertSeq ==
    ASSUME NEW S, NEW s \in Seq(S), NEW k \in 0..Len(s), NEW e \in S
    PROVE  LET t == Inserted(s, k, e)
           IN  /\ t \in Seq(S) /\ Len(t) = Len(s) + 1
               /\ t[k + 1] = e /\ CutAt(t, k + 1, s)
<1> DEFINE n == Len(s)
           u == SubSeq(s, 1, k)
           w == u \o <<e>>
           v == SubSeq(s, k + 1, n)
           t == w \o v
<1>1. n \in Nat /\ k \in Int /\ \A j \in 1..n : s[j] \in S OBVIOUS
<1>2. u \in Seq(S) /\ Len(u) = k /\ \A j \in 1..k : u[j] = s[j]
  BY <1>1, SubSeqProperties
<1>3. v \in Seq(S) /\ Len(v) = n - k /\ \A j \in 1..(n - k) : v[j] = s[k + j]
  <2>1. v \in Seq(S) /\ Len(v) = (IF k + 1 <= n THEN n - (k + 1) + 1 ELSE 0)
        /\ \A j \in 1..(n - (k + 1) + 1) : v[j] = s[k + 1 + j - 1]
    BY <1>1, SubSeqProperties
  <2> QED BY <1>1, <2>1
<1>4. w \in Seq(S) /\ Len(w) = k + 1 /\ w[k + 1] = e /\ \A j \in 1..k : w[j] = s[j]
  <2>1. <<e>> \in Seq(S) /\ Len(<<e>>) = 1 /\ <<e>>[1] = e OBVIOUS
  <2>2. /\ w \in Seq(S) /\ Len(w) = Len(u) + Len(<<e>>)
        /\ \A j \in 1..(Len(u) + Len(<<e>>)) :
             w[j] = IF j <= Len(u) THEN u[j] ELSE <<e>>[j - Len(u)]
    <3> HIDE DEF u
    <3> QED BY <1>2, <2>1, ConcatProperties
  <2> HIDE DEF u, w
  <2> QED BY <1>1, <1>2, <2>1, <2>2
<1>5. /\ t \in Seq(S) /\ Len(t) = Len(w) + Len(v)
      /\ \A j \in 1..(Len(w) + Len(v)) :
           t[j] = IF j <= Len(w) THEN w[j] ELSE v[j - Len(w)]
  <2> HIDE DEF w, v
  <2> QED BY <1>3, <1>4, ConcatProperties
<1> HIDE DEF u, v, w, t, n
<1>6. Len(t) = n + 1 /\ k \in 0..n BY <1>1, <1>3, <1>4, <1>5 DEF n
<1>7. t[k + 1] = e BY <1>1, <1>3, <1>4, <1>5, <1>6
<1>8. ASSUME NEW j \in 1..n PROVE s[j] = IF j < k + 1 THEN t[j] ELSE t[j + 1]
  <2>1. CASE j < k + 1 BY <1>1, <1>3, <1>4, <1>5, <1>6, <2>1
  <2>2. CASE ~(j < k + 1)
    <3>1. j + 1 - (k + 1) \in 1..(n - k) /\ k + (j + 1 - (k + 1)) = j
      BY <1>1, <1>6, <2>2
    <3>2. t[j + 1] = v[j + 1 - (k + 1)] BY <1>1, <1>3, <1>4, <1>5, <1>6, <2>2
    <3> QED BY <1>3, <2>2, <3>1, <3>2
  <2> QED BY <2>1, <2>2
<1>9. CutAt(t, k + 1, s) BY <1>1, <1>6, <1>8 DEF CutAt, n
<1> QED BY <1>5, <1>6, <1>7, <1>9 DEF Inserted, t, u, v, w, n

\* A waiter is cut out of the list of an event that is not being signaled.
LEMMA ElemsCut ==
    ASSUME NEW S, NEW s \in Seq(S), NEW i \in 1..Len(s), Distinct(s, 0),
           NEW t \in Seq(S), CutAt(s, i, t)
    PROVE  /\ s[i] \in Elems(s, 0)
           /\ Distinct(t, 0) /\ Elems(t, 0) = Elems(s, 0) \ {s[i]}
<1> DEFINE old(j) == IF j < i THEN j ELSE j + 1
<1>1. From(s, 0) = 1..Len(s) /\ From(t, 0) = 1..(Len(s) - 1) BY DEF From, CutAt
<1>2. \A j, l \in 1..Len(s) : s[j] = s[l] => j = l BY <1>1 DEF Distinct
<1>3. \A j \in 1..(Len(s) - 1) : old(j) \in 1..Len(s) \ {i} /\ t[j] = s[old(j)] BY DEF CutAt
<1>4. \A j, l \in 1..(Len(s) - 1) : old(j) = old(l) => j = l OBVIOUS
<1>5. Distinct(t, 0)
  <2> SUFFICES ASSUME NEW j \in 1..(Len(s) - 1), NEW l \in 1..(Len(s) - 1), t[j] = t[l]
               PROVE  j = l
    BY <1>1 DEF Distinct
  <2> HIDE DEF old
  <2>1. s[old(j)] = s[old(l)] /\ old(j) \in 1..Len(s) /\ old(l) \in 1..Len(s) BY <1>3
  <2> QED BY <1>2, <1>4, <2>1
<1>6. Elems(t, 0) \subseteq Elems(s, 0) \ {s[i]}
  <2> HIDE DEF old
  <2> QED BY <1>1, <1>2, <1>3 DEF Elems
<1>7. Elems(s, 0) \ {s[i]} \subseteq Elems(t, 0)
  <2> SUFFICES ASSUME NEW j \in 1..Len(s), s[j] # s[i] PROVE s[j] \in Elems(t, 0)
    BY <1>1 DEF Elems
  <2>1. CASE j < i BY <1>1, <2>1 DEF Elems, CutAt
  <2>2. CASE j > i
    <3>1. j - 1 \in 1..(Len(s) - 1) /\ t[j - 1] = s[j] BY <2>2 DEF CutAt
    <3> QED BY <1>1, <3>1 DEF Elems
  <2> QED BY <2>1, <2>2
<1>8. s[i] \in Elems(s, 0) BY <1>1 DEF Elems
<1> QED BY <1>5, <1>6, <1>7, <1>8

\* A waiter joins the list of an event that is not being signaled.
LEMMA ElemsAppend ==
    ASSUME NEW S, NEW s \in Seq(S), NEW a \in S, a \notin Elems(s, 0), Distinct(s, 0)
    PROVE  /\ Append(s, a) \in Seq(S) /\ Distinct(Append(s, a), 0)
           /\ Elems(Append(s, a), 0) = Elems(s, 0) \cup {a}
<1> DEFINE n == Len(s)
           t == Append(s, a)
<1>1. n \in Nat /\ t \in Seq(S) /\ Len(t) = n + 1 /\ t[n + 1] = a
      /\ \A j \in 1..n : t[j] = s[j]
  OBVIOUS
<1> HIDE DEF t
<1>2. From(s, 0) = 1..n /\ From(t, 0) = 1..n \cup {n + 1} BY <1>1 DEF From
<1>3. \A j \in 1..n : s[j] # a BY <1>2 DEF Elems
<1>4. Distinct(t, 0) BY <1>1, <1>2, <1>3 DEF Distinct
<1>5. Elems(t, 0) = Elems(s, 0) \cup {a} BY <1>1, <1>2 DEF Elems
<1> QED BY <1>1, <1>4, <1>5 DEF t

\* SignalOne drops the head, which it has fired.
LEMMA ElemsTail ==
    ASSUME NEW S, NEW s \in Seq(S), s # <<>>, Distinct(s, 0)
    PROVE  /\ Tail(s) \in Seq(S) /\ Distinct(Tail(s), 0)
           /\ Elems(Tail(s), 0) = Elems(s, 2)
<1> DEFINE n == Len(s)
           t == Tail(s)
<1>1. n \in Nat /\ n >= 1 /\ t \in Seq(S) /\ Len(t) = n - 1
      /\ \A j \in 1..(n - 1) : t[j] = s[j + 1]
  OBVIOUS
<1> HIDE DEF t
<1>2. From(s, 0) = 1..n /\ From(s, 2) = 2..n /\ From(t, 0) = 1..(n - 1) BY <1>1 DEF From
<1>3. \A j, l \in 1..n : s[j] = s[l] => j = l BY <1>2 DEF Distinct
<1>4. Distinct(t, 0)
  <2> SUFFICES ASSUME NEW j \in 1..(n - 1), NEW l \in 1..(n - 1), t[j] = t[l] PROVE j = l
    BY <1>2 DEF Distinct
  <2>1. j + 1 \in 1..n /\ l + 1 \in 1..n /\ s[j + 1] = s[l + 1] BY <1>1
  <2>2. j + 1 = l + 1 BY <1>3, <2>1
  <2> QED BY <2>2
<1>5. Elems(t, 0) \subseteq Elems(s, 2)
  <2>1. \A j \in 1..(n - 1) : j + 1 \in 2..n BY <1>1
  <2> QED BY <1>1, <1>2, <2>1 DEF Elems
<1>6. Elems(s, 2) \subseteq Elems(t, 0)
  <2> SUFFICES ASSUME NEW j \in 2..n PROVE s[j] \in Elems(t, 0) BY <1>2 DEF Elems
  <2>1. j - 1 \in 1..(n - 1) /\ t[j - 1] = s[j] BY <1>1
  <2> QED BY <1>2, <2>1 DEF Elems
<1> QED BY <1>1, <1>4, <1>5, <1>6 DEF t

-----------------------------------------------------------------------------
(* The least number, and the first position.                               *)

\* A set of natural numbers that is not empty has a least element.
LEMMA LeastNat ==
    ASSUME NEW T \in SUBSET Nat, T # {}
    PROVE  \E n \in T : \A m \in T : n <= m
<1> DEFINE R == {ss \in Nat \X Nat : ss[1] < ss[2]}
<1>1. OpToRel(<, Nat) = R BY DEF OpToRel
<1>2. IsWellFoundedOn(R, Nat) BY <1>1, NatLessThanWellFounded, Zenon
<1>3. PICK x \in T : \A y \in T : ~(<<y, x>> \in R)
  <2> HIDE DEF R
  <2> QED BY <1>2, WFMin
<1>4. ASSUME NEW m \in T PROVE x <= m
  <2>1. m \in Nat /\ x \in Nat /\ <<m, x>> \notin R BY <1>3
  <2>2. ~(m < x) BY <2>1
  <2> QED BY <2>1, <2>2
<1> QED BY <1>4

\* RemoveFirst cuts one occurrence out of the list, or changes nothing.
LEMMA RemoveFirstSeq ==
    ASSUME NEW S, NEW s \in Seq(S), NEW t
    PROVE  \/ /\ \A i \in 1..Len(s) : s[i] # t
              /\ RemoveFirst(s, t) = s
           \/ \E i \in 1..Len(s) : /\ s[i] = t /\ RemoveFirst(s, t) \in Seq(S)
                                   /\ CutAt(s, i, RemoveFirst(s, t))
<1> DEFINE I == {j \in 1..Len(s) : s[j] = t}
<1>1. CASE I = {} BY <1>1 DEF RemoveFirst
<1>2. CASE I # {}
  <2>1. I \in SUBSET Nat OBVIOUS
  <2>2. \E n \in I : \A m \in I : n <= m BY <1>2, <2>1, LeastNat
  <2>3. Min(I) \in I
    <3> HIDE DEF I
    <3> QED BY <2>2 DEF Min
  <2>4. RemoveFirst(s, t) = RemoveAt(s, Min(I)) BY <1>2 DEF RemoveFirst, SelectInSeq
  <2> DEFINE i == Min(I)
  <2>5. i \in 1..Len(s) /\ s[i] = t BY <2>3
  <2> HIDE DEF i
  <2>6. RemoveAt(s, i) \in Seq(S) /\ CutAt(s, i, RemoveAt(s, i))
    BY <2>5, CutSeq DEF RemoveAt
  <2> QED BY <2>4, <2>5, <2>6 DEF i
<1> QED BY <1>1, <1>2

-----------------------------------------------------------------------------
(* Sorting.                                                                *)

\* The set that a list stands for holds the values at its positions.
LEMMA ToSetElems ==
    ASSUME NEW S, NEW s \in Seq(S)
    PROVE  /\ ToSet(s) = Elems(s, 0) /\ ToSet(s) \subseteq S
           /\ \A e : e \in ToSet(s) <=> \E i \in 1..Len(s) : s[i] = e
BY DEF ToSet, Elems, From

\* s holds the elements of r in increasing order.
SortOf(s, r) ==
    /\ s \in [1..Len(r) -> ToSet(r)] /\ ToSet(s) = ToSet(r)
    /\ \A i, j \in 1..Len(r) : i < j => s[i] < s[j]

\* A list of distinct numbers can be sorted: otherwise take the shortest that
\* cannot, and cut out its least element.
LEMMA SortExists ==
    ASSUME NEW r \in Seq(Nat), Distinct(r, 0)
    PROVE  \E s : SortOf(s, r)
<1> DEFINE Hard(q) == Distinct(q, 0) /\ ~\E s : SortOf(s, q)
           Bad == {n \in Nat : \E q \in Seq(Nat) : Len(q) = n /\ Hard(q)}
<1> SUFFICES ASSUME Bad # {} PROVE FALSE
  <2>1. Len(r) \in Nat OBVIOUS
  <2> QED BY <2>1
<1>1. PICK n \in Bad : \A m \in Bad : n <= m BY LeastNat
<1>2. PICK q \in Seq(Nat) : Len(q) = n /\ Hard(q) BY <1>1
<1>3. Distinct(q, 0) /\ n \in Nat BY <1>2
<1>4. ASSUME n = 0 PROVE FALSE
  <2>1. Len(q) = 0 /\ q = <<>> /\ 1..Len(q) = {} BY <1>2, <1>4
  <2>2. ToSet(q) = {} BY <2>1, ToSetElems
  <2>3. SortOf(q, q) BY <2>1, <2>2 DEF SortOf
  <2> QED BY <1>2, <2>3
<1>5. PICK i \in 1..n : \A j \in 1..n : q[i] <= q[j]
  <2>1. 1 \in 1..Len(q) BY <1>2, <1>3, <1>4
  <2>2. ToSet(q) \in SUBSET Nat /\ ToSet(q) # {} BY <2>1, ToSetElems
  <2>3. PICK m \in ToSet(q) : \A k \in ToSet(q) : m <= k BY <2>2, LeastNat
  <2>4. PICK i \in 1..Len(q) : q[i] = m BY ToSetElems
  <2>5. \A j \in 1..Len(q) : q[j] \in ToSet(q) BY ToSetElems
  <2> QED BY <1>2, <2>3, <2>4, <2>5
<1>6. PICK t \in Seq(Nat) : CutAt(q, i, t)
  <2>1. i \in 1..Len(q) BY <1>2
  <2> QED BY <2>1, CutSeq
<1>7. /\ Distinct(t, 0) /\ Elems(t, 0) = Elems(q, 0) \ {q[i]} /\ Len(t) = n - 1
  <2>1. i \in 1..Len(q) BY <1>2
  <2>2. Distinct(t, 0) /\ Elems(t, 0) = Elems(q, 0) \ {q[i]} BY <1>3, <1>6, <2>1, ElemsCut
  <2> QED BY <1>2, <1>6, <2>2 DEF CutAt
<1>8. PICK u : SortOf(u, t)
  <2>1. n - 1 \in Nat /\ n - 1 \notin Bad BY <1>1, <1>3, <1>4
  <2> QED BY <1>7, <2>1
<1>9. /\ ToSet(t) = ToSet(q) \ {q[i]} /\ q[i] \in ToSet(q) /\ ToSet(q) \subseteq Nat
      /\ \A e \in ToSet(q) : e # q[i] => q[i] < e
  <2>1. ToSet(t) = ToSet(q) \ {q[i]} BY <1>7, ToSetElems
  <2>2. q[i] \in ToSet(q) /\ ToSet(q) \subseteq Nat BY <1>2, ToSetElems
  <2>3. \A e \in ToSet(q) : q[i] <= e BY <1>2, <1>5, ToSetElems
  <2> QED BY <2>1, <2>2, <2>3
<1>10. /\ u \in [1..(n - 1) -> ToSet(t)] /\ \A e \in ToSet(t) : \E j \in 1..(n - 1) : u[j] = e
       /\ \A j, k \in 1..(n - 1) : j < k => u[j] < u[k]
  <2>1. /\ u \in [1..(n - 1) -> ToSet(t)] /\ ToSet(u) = ToSet(t)
        /\ \A j, k \in 1..(n - 1) : j < k => u[j] < u[k]
    BY <1>7, <1>8 DEF SortOf
  <2> QED BY <2>1 DEF ToSet
<1> DEFINE s == [j \in 1..n |-> IF j = 1 THEN q[i] ELSE u[j - 1]]
<1>11. s \in [1..n -> ToSet(q)] /\ s[1] = q[i]
       /\ \A j \in 1..n : j # 1 => j - 1 \in 1..(n - 1) /\ s[j] = u[j - 1] /\ s[j] \in ToSet(t)
  <2>1. \A j \in 1..n : j # 1 => j - 1 \in 1..(n - 1) BY <1>3
  <2>2. 1 \in 1..n BY <1>3, <1>4
  <2> QED BY <1>9, <1>10, <2>1, <2>2
<1> HIDE DEF s
<1>12. ToSet(s) = ToSet(q)
  <2>1. DOMAIN s = 1..n BY <1>11
  <2>2. ToSet(s) \subseteq ToSet(q) BY <1>11, <2>1 DEF ToSet
  <2>3. ASSUME NEW e \in ToSet(q) PROVE e \in ToSet(s)
    <3>1. CASE e = q[i]
      <4>1. 1 \in DOMAIN s BY <1>3, <1>4, <2>1
      <4> QED BY <1>11, <3>1, <4>1 DEF ToSet
    <3>2. CASE e # q[i]
      <4>1. PICK j \in 1..(n - 1) : u[j] = e BY <1>9, <1>10, <3>2
      <4>2. j + 1 \in 1..n /\ j + 1 # 1 /\ (j + 1) - 1 = j BY <1>3
      <4>3. s[j + 1] = e BY <1>11, <4>1, <4>2
      <4> QED BY <2>1, <4>2, <4>3 DEF ToSet
    <3> QED BY <3>1, <3>2
  <2> QED BY <2>2, <2>3
<1>13. ASSUME NEW j \in 1..n, NEW k \in 1..n, j < k PROVE s[j] < s[k]
  <2>1. k # 1 BY <1>3, <1>13
  <2>2. CASE j = 1 BY <1>9, <1>11, <2>1, <2>2
  <2>3. CASE j # 1
    <3>1. j - 1 \in 1..(n - 1) /\ k - 1 \in 1..(n - 1) /\ j - 1 < k - 1
      BY <1>3, <1>13, <2>3
    <3> QED BY <1>10, <1>11, <2>1, <2>3, <3>1
  <2> QED BY <2>2, <2>3
<1>14. SortOf(s, q) BY <1>2, <1>11, <1>12, <1>13 DEF SortOf
<1> QED BY <1>2, <1>14

=============================================================================
