--------------------------------- MODULE Lemmas ---------------------------------
(* The lemmas that the proofs about several components rest on: induction over    *)
(* numbers and recursive functions, and what the operations of the bounded        *)
(* dictionary return, for every content and every bound.                          *)
EXTENDS FifoCache, Integers, WellFoundedInduction, SequenceTheorems, TLAPS

\* A set of numbers has a least one.
LEMMA LeastNumber ==
  ASSUME NEW S, S \subseteq Nat, S # {}
  PROVE  \E n \in S : \A m \in S : n <= m
<1> DEFINE R == OpToRel(<, Nat)
<1>1. IsWellFoundedOn(R, Nat)
  BY NatLessThanWellFounded
<1>2. PICK n \in S : \A m \in S : ~ (<<m, n>> \in R)
  <2> HIDE DEF R
  <2> QED
    BY <1>1, WFMin
<1>3. ASSUME NEW m \in S PROVE n <= m
  <2>1. n \in Nat /\ m \in Nat
    OBVIOUS
  <2>2. ~ (m < n)
    BY <1>2, <2>1 DEF OpToRel
  <2> QED
    BY <2>1, <2>2
<1> QED
  BY <1>3

\* Induction: a set that holds a number as soon as it holds the smaller ones.
LEMMA NumbersIn ==
  ASSUME NEW N \in Nat, NEW S,
         \A n \in 0..N : (\A m \in 0..n - 1 : m \in S) => n \in S
  PROVE  0..N \subseteq S
<1> DEFINE Others == (0..N) \ S
<1> SUFFICES ASSUME Others # {} PROVE FALSE
  OBVIOUS
<1>1. Others \subseteq Nat
  OBVIOUS
<1>2. PICK n \in Others : \A m \in Others : n <= m
  <2> HIDE DEF Others
  <2> QED
    BY <1>1, LeastNumber
<1>3. ASSUME NEW m \in 0..n - 1 PROVE m \in S
  <2>1. m \in 0..N /\ ~ (n <= m)
    BY <1>2
  <2>2. m \notin Others
    BY <1>2, <2>1
  <2> QED
    BY <2>1, <2>2
<1> QED
  BY <1>2, <1>3

\* Induction over the indices of a bounded measure.
LEMMA StepsUp ==
  ASSUME NEW N \in Nat, NEW S, 0 \in S,
         \A n \in 0..N - 1 : n \in S => n + 1 \in S
  PROVE  0..N \subseteq S
<1>1. ASSUME NEW n \in 0..N, \A m \in 0..n - 1 : m \in S PROVE n \in S
  <2>1. CASE n = 0
    BY <2>1
  <2>2. CASE n # 0
    <3>1. n - 1 \in 0..N - 1 /\ n - 1 \in 0..n - 1 /\ (n - 1) + 1 = n
      BY <2>2
    <3> QED
      BY <1>1, <3>1
  <2> QED
    BY <2>1, <2>2
<1> QED
  BY <1>1, NumbersIn

\* value gives the value at x of a function from D to V of its values where measure is
\* smaller.
IsRecursive(D, V, N, measure, value) ==
  /\ measure \in [D -> 0..N]
  /\ \A f \in [D -> V], x \in D : value[<<f, x>>] \in V
  /\ \A f, g \in [D -> V], x \in D :
       (\A y \in D : measure[y] < measure[x] => f[y] = g[y]) => value[<<f, x>>] = value[<<g, x>>]

IsFixed(D, f, value) == \A x \in D : f[x] = value[<<f, x>>]

\* Such a function exists.
LEMMA Recursion ==
  ASSUME NEW D, NEW V, V # {}, NEW N \in Nat, NEW measure, NEW value,
         IsRecursive(D, V, N, measure, value)
  PROVE  \E f \in [D -> V] : IsFixed(D, f, value)
<1> USE DEF IsRecursive, IsFixed
<1> PICK v \in V : TRUE
  OBVIOUS
<1> DEFINE Upto(f, k) == \A x \in D : measure[x] < k => f[x] = value[<<f, x>>]
           S == {k \in Nat : \E f \in [D -> V] : Upto(f, k)}
<1>1. 0 \in S
  <2>1. [x \in D |-> v] \in [D -> V] /\ Upto([x \in D |-> v], 0)
    OBVIOUS
  <2> HIDE DEF Upto
  <2> QED
    BY <2>1
<1>2. ASSUME NEW k \in 0..N, k \in S PROVE k + 1 \in S
  <2>1. PICK f \in [D -> V] : Upto(f, k)
    BY <1>2
  <2> DEFINE g == [x \in D |-> IF measure[x] = k THEN value[<<f, x>>] ELSE f[x]]
  <2>2. g \in [D -> V]
    OBVIOUS
  <2>3. \A y \in D : measure[y] < k => f[y] = g[y]
    OBVIOUS
  <2>4. ASSUME NEW x \in D, measure[x] < k + 1 PROVE g[x] = value[<<f, x>>]
    BY <2>1, <2>4
  <2>5. ASSUME NEW x \in D, measure[x] < k + 1 PROVE value[<<f, x>>] = value[<<g, x>>]
    <3>1. measure[x] \in Int /\ \A y \in D : measure[y] \in Int
      OBVIOUS
    <3>2. \A y \in D : measure[y] < measure[x] => f[y] = g[y]
      BY <2>3, <2>5, <3>1
    <3> HIDE DEF g
    <3> QED
      BY <2>2, <3>2
  <2>6. Upto(g, k + 1)
    <3> HIDE DEF g
    <3> QED
      BY <2>4, <2>5
  <2> HIDE DEF g, Upto
  <2> QED
    BY <2>2, <2>6
<1>3. N + 1 \in S
  <2>1. \A n \in 0..(N + 1) - 1 : n \in S => n + 1 \in S
    <3> HIDE DEF S
    <3> QED
      BY <1>2
  <2> HIDE DEF S
  <2>2. 0..N + 1 \subseteq S
    BY <1>1, <2>1, StepsUp
  <2> QED
    BY <2>2
<1>4. PICK f \in [D -> V] : Upto(f, N + 1)
  BY <1>3
<1> QED
  BY <1>4

\* The recursion of the models: stop with base, or go on from next and add to what comes
\* of it.
IsStepwise(D, V, N, measure, stop, base, next, add) ==
  /\ measure \in [D -> 0..N]
  /\ \A x \in D : x \in stop => base[x] \in V
  /\ \A x \in D : x \notin stop => next[x] \in D /\ measure[next[x]] < measure[x]
  /\ \A x \in D, v \in V : x \notin stop => add[<<x, v>>] \in V

IsResult(D, f, stop, base, next, add) ==
  \A x \in D : f[x] = IF x \in stop THEN base[x] ELSE add[<<x, f[next[x]]>>]

LEMMA StepwiseRecursion ==
  ASSUME NEW D, NEW V, V # {}, NEW N \in Nat, NEW measure, NEW stop, NEW base, NEW next, NEW add,
         IsStepwise(D, V, N, measure, stop, base, next, add)
  PROVE  \E f \in [D -> V] : IsResult(D, f, stop, base, next, add)
<1> USE DEF IsStepwise
<1> DEFINE value == [p \in [D -> V] \X D |->
                       IF p[2] \in stop THEN base[p[2]] ELSE add[<<p[2], p[1][next[p[2]]]>>]]
<1>1. \A f \in [D -> V], x \in D :
        value[<<f, x>>] = IF x \in stop THEN base[x] ELSE add[<<x, f[next[x]]>>]
  OBVIOUS
<1> HIDE DEF value
<1>2. \A f \in [D -> V], x \in D : value[<<f, x>>] \in V
  <2> TAKE f \in [D -> V], x \in D
  <2>1. CASE x \in stop
    BY <1>1, <2>1
  <2>2. CASE x \notin stop
    <3>1. f[next[x]] \in V
      BY <2>2
    <3> QED
      BY <1>1, <2>2, <3>1
  <2> QED
    BY <2>1, <2>2
<1>3. \A f, g \in [D -> V], x \in D :
        (\A y \in D : measure[y] < measure[x] => f[y] = g[y]) => value[<<f, x>>] = value[<<g, x>>]
  <2> TAKE f, g \in [D -> V], x \in D
  <2> HAVE \A y \in D : measure[y] < measure[x] => f[y] = g[y]
  <2>1. x \notin stop => next[x] \in D /\ measure[next[x]] < measure[x]
    OBVIOUS
  <2>2. x \notin stop => f[next[x]] = g[next[x]]
    BY <2>1
  <2>3. /\ value[<<f, x>>] = IF x \in stop THEN base[x] ELSE add[<<x, f[next[x]]>>]
        /\ value[<<g, x>>] = IF x \in stop THEN base[x] ELSE add[<<x, g[next[x]]>>]
    BY <1>1
  <2> QED
    BY <2>2, <2>3
<1>4. IsRecursive(D, V, N, measure, value)
  BY <1>2, <1>3 DEF IsRecursive
<1>5. PICK f \in [D -> V] : IsFixed(D, f, value)
  BY <1>4, Recursion
<1>6. ASSUME NEW x \in D
      PROVE  f[x] = IF x \in stop THEN base[x] ELSE add[<<x, f[next[x]]>>]
  <2>1. f[x] = value[<<f, x>>]
    BY <1>5 DEF IsFixed
  <2> QED
    BY <1>1, <2>1
<1> QED
  BY <1>6 DEF IsResult

\* A function of the numbers up to N, each value made from the one before.
IsUpward(f, N, base, step) == f[0] = base /\ \A k \in 1..N : f[k] = step[<<k, f[k - 1]>>]

LEMMA UpwardRecursion ==
  ASSUME NEW V, NEW N \in Nat, NEW base \in V, NEW step \in [(1..N) \X V -> V]
  PROVE  \E f \in [0..N -> V] : IsUpward(f, N, base, step)
<1> DEFINE D == 0..N
           bases == [k \in D |-> base]
           next == [k \in D |-> k - 1]
           measure == [k \in D |-> k]
<1>1. IsStepwise(D, V, N, measure, {0}, bases, next, step)
  <2>1. measure \in [D -> 0..N]
    OBVIOUS
  <2>2. \A k \in D : k \notin {0} => next[k] \in D /\ measure[next[k]] < measure[k]
    OBVIOUS
  <2>3. \A k \in D, v \in V : k \notin {0} => step[<<k, v>>] \in V
    OBVIOUS
  <2> HIDE DEF measure, next, D
  <2> QED
    BY <2>1, <2>2, <2>3 DEF IsStepwise
<1>2. PICK f \in [D -> V] : IsResult(D, f, {0}, bases, next, step)
  <2> HIDE DEF D, bases, next, measure
  <2> QED
    BY <1>1, StepwiseRecursion
<1>3. f[0] = base
  <2>1. 0 \in D /\ bases[0] = base
    OBVIOUS
  <2> HIDE DEF D, bases, next
  <2> QED
    BY <1>2, <2>1 DEF IsResult
<1>4. ASSUME NEW k \in 1..N PROVE f[k] = step[<<k, f[k - 1]>>]
  <2>1. k \in D /\ k \notin {0} /\ next[k] = k - 1
    OBVIOUS
  <2> HIDE DEF D, bases, next
  <2> QED
    BY <1>2, <2>1 DEF IsResult
<1> QED
  BY <1>3, <1>4 DEF IsUpward

\* A list made from the left: each step puts its part before what the rest gives.
IsListwise(D, S, N, measure, stop, tail, head, next) ==
  /\ measure \in [D -> 0..N] /\ tail \in [D -> Seq(S)] /\ head \in [D -> Seq(S)]
  /\ \A x \in D : x \notin stop => next[x] \in D /\ measure[next[x]] < measure[x]

IsList(D, f, stop, tail, head, next) ==
  \A x \in D : f[x] = IF x \in stop THEN tail[x] ELSE head[x] \o f[next[x]]

LEMMA ListRecursion ==
  ASSUME NEW D, NEW S, NEW N \in Nat, NEW measure, NEW stop, NEW tail, NEW head, NEW next,
         IsListwise(D, S, N, measure, stop, tail, head, next)
  PROVE  \E f \in [D -> Seq(S)] : IsList(D, f, stop, tail, head, next)
<1> USE DEF IsListwise
<1> DEFINE V == Seq(S)
           add == [p \in D \X V |-> head[p[1]] \o p[2]]
<1>1. ASSUME NEW x \in D, NEW v \in V PROVE add[<<x, v>>] = head[x] \o v /\ head[x] \o v \in V
  <2>1. head[x] \in Seq(S)
    OBVIOUS
  <2>2. head[x] \o v \in Seq(S)
    BY <2>1, ConcatProperties
  <2> QED
    BY <2>2
<1>2. V # {}
  <2>1. <<>> \in V
    OBVIOUS
  <2> QED
    BY <2>1
<1>3. IsStepwise(D, V, N, measure, stop, tail, next, add)
  <2> HIDE DEF add
  <2> QED
    BY <1>1 DEF IsStepwise
<1>4. PICK f \in [D -> V] : IsResult(D, f, stop, tail, next, add)
  <2> HIDE DEF V, add
  <2> QED
    BY <1>2, <1>3, StepwiseRecursion
<1>5. ASSUME NEW x \in D PROVE f[x] = IF x \in stop THEN tail[x] ELSE head[x] \o f[next[x]]
  <2>1. f[x] = IF x \in stop THEN tail[x] ELSE add[<<x, f[next[x]]>>]
    <3> HIDE DEF V, add
    <3> QED
      BY <1>4 DEF IsResult
  <2>2. CASE x \in stop
    BY <2>1, <2>2
  <2>3. CASE x \notin stop
    <3>1. f[next[x]] \in V
      <4> HIDE DEF V
      <4> QED
        BY <2>3
    <3>2. add[<<x, f[next[x]]>>] = head[x] \o f[next[x]]
      <4> HIDE DEF V, add
      <4> QED
        BY <1>1, <3>1
    <3> QED
      BY <2>1, <2>3, <3>2
  <2> QED
    BY <2>2, <2>3
<1> QED
  BY <1>5 DEF IsList

-----------------------------------------------------------------------------
(* The bounded dictionary.                                                     *)

\* No key occurs twice: what a dictionary is.
Distinct(c) == \A i, j \in DOMAIN c : c[i].key = c[j].key => i = j

\* r is what evictions from the old end have left of c.
NewestOf(r, c) ==
  Len(r) <= Len(c) /\ \A i \in 1..Len(r) : r[i] = c[i + (Len(c) - Len(r))]

\* What is looked up is the value of an entry under that key.
LEMMA LookupFindsEntry ==
  ASSUME NEW c, NEW k, Has(c, k)
  PROVE  \E i \in DOMAIN c : c[i].key = k /\ Lookup(c, k) = c[i].val
<1> DEFINE i == CHOOSE j \in DOMAIN c : c[j].key = k
<1>1. i \in DOMAIN c /\ c[i].key = k
  BY DEF Has
<1> QED
  BY <1>1 DEF Lookup

\* In a dictionary the value of an entry is found under its key.
LEMMA EntryIsFound ==
  ASSUME NEW c, Distinct(c), NEW i \in DOMAIN c
  PROVE  Has(c, c[i].key) /\ Lookup(c, c[i].key) = c[i].val
<1>1. Has(c, c[i].key)
  BY DEF Has
<1>2. PICK j \in DOMAIN c : c[j].key = c[i].key /\ Lookup(c, c[i].key) = c[j].val
  BY <1>1, LookupFindsEntry
<1> QED
  BY <1>1, <1>2 DEF Distinct

\* The empty dictionary.
LEMMA EmptyCache == \A S : Empty \in Seq(S) /\ Len(Empty) = 0 /\ Distinct(Empty)
BY DEF Empty, Distinct

\* An assignment keeps the entries of the others, and adds one if there was none.
LEMMA AssignProperties ==
  ASSUME NEW S, NEW c \in Seq(S), NEW k, NEW v, [key |-> k, val |-> v] \in S
  PROVE  /\ Assign(c, k, v) \in Seq(S)
         /\ Has(c, k) => Len(Assign(c, k, v)) = Len(c)
         /\ ~Has(c, k) => /\ Len(Assign(c, k, v)) = Len(c) + 1
                          /\ \A i \in 1..Len(c) : Assign(c, k, v)[i] = c[i]
                          /\ Assign(c, k, v)[Len(c) + 1] = [key |-> k, val |-> v]
         /\ Distinct(c) => Distinct(Assign(c, k, v))
<1> DEFINE e == [key |-> k, val |-> v]
           a == Assign(c, k, v)
<1>1. CASE Has(c, k)
  <2>1. a = [i \in 1..Len(c) |-> IF c[i].key = k THEN e ELSE c[i]]
    BY <1>1 DEF Assign
  <2>2. \A i \in 1..Len(c) : a[i] \in S /\ a[i].key = c[i].key
    BY <2>1
  <2>3. a \in Seq(S) /\ Len(a) = Len(c)
    BY <2>1, <2>2
  <2>4. Distinct(c) => Distinct(a)
    BY <2>2, <2>3 DEF Distinct
  <2> QED
    BY <1>1, <2>3, <2>4
<1>2. CASE ~Has(c, k)
  <2>1. a = Append(c, e)
    BY <1>2 DEF Assign
  <2>2. /\ a \in Seq(S) /\ Len(a) = Len(c) + 1
        /\ \A i \in 1..Len(c) : a[i] = c[i]
        /\ a[Len(c) + 1] = e
    BY <2>1, AppendProperties
  <2>3. \A i \in 1..Len(c) : c[i].key # k
    BY <1>2 DEF Has
  <2>4. ASSUME Distinct(c) PROVE Distinct(a)
    <3> SUFFICES ASSUME NEW i \in 1..Len(a), NEW j \in 1..Len(a), a[i].key = a[j].key
                 PROVE  i = j
      BY <2>2 DEF Distinct
    <3>1. CASE i <= Len(c) /\ j <= Len(c)
      BY <2>2, <2>4, <3>1 DEF Distinct
    <3>2. CASE i <= Len(c) /\ j = Len(c) + 1
      BY <2>2, <2>3, <3>2
    <3>3. CASE i = Len(c) + 1 /\ j <= Len(c)
      BY <2>2, <2>3, <3>3
    <3> QED
      BY <2>2, <3>1, <3>2, <3>3
  <2> QED
    BY <1>2, <2>2, <2>4
<1> QED
  BY <1>1, <1>2

\* What is left after evictions is the newest part.
LEMMA TrimToProperties ==
  ASSUME NEW S, NEW c \in Seq(S), NEW n \in Nat
  PROVE  /\ TrimTo(c, n) \in Seq(S)
         /\ Len(TrimTo(c, n)) <= n
         /\ NewestOf(TrimTo(c, n), c)
         /\ Distinct(c) => Distinct(TrimTo(c, n))
<1> DEFINE m == Len(c) - n + 1
           r == TrimTo(c, n)
<1>1. CASE Len(c) > n
  <2>1. r = SubSeq(c, m, Len(c)) /\ m \in 1..(Len(c) + 1)
    BY <1>1 DEF TrimTo
  <2>2. \A i \in m..Len(c) : c[i] \in S
    BY <2>1
  <2>3. r \in Seq(S) /\ Len(r) = n /\ \A i \in 1..n : r[i] = c[m + i - 1]
    BY <1>1, <2>1, <2>2, SubSeqProperties
  <2>4. ASSUME Distinct(c) PROVE Distinct(r)
    <3> SUFFICES ASSUME NEW i \in 1..n, NEW j \in 1..n, r[i].key = r[j].key
                 PROVE  i = j
      BY <2>3 DEF Distinct
    <3>1. m + i - 1 \in 1..Len(c) /\ m + j - 1 \in 1..Len(c)
      BY <1>1
    <3>2. c[m + i - 1].key = c[m + j - 1].key
      BY <2>3
    <3>3. m + i - 1 = m + j - 1
      BY SMTT(30), <2>4, <3>1, <3>2 DEF Distinct
    <3> QED
      BY <1>1, <3>3
  <2> QED
    BY <1>1, <2>1, <2>3, <2>4 DEF NewestOf
<1>2. CASE ~(Len(c) > n)
  BY <1>2 DEF TrimTo, NewestOf
<1> QED
  BY <1>1, <1>2

\* One entry less where the bound has been reached.
LEMMA MakeRoomProperties ==
  ASSUME NEW S, NEW c \in Seq(S), NEW n \in Nat \ {0}
  PROVE  /\ MakeRoom(c, n) \in Seq(S)
         /\ Len(c) <= n => Len(MakeRoom(c, n)) < n
         /\ NewestOf(MakeRoom(c, n), c)
         /\ Distinct(c) => Distinct(MakeRoom(c, n))
<1> DEFINE r == MakeRoom(c, n)
<1>1. CASE Len(c) >= n
  <2>1. r = Tail(c) /\ c # <<>>
    BY <1>1 DEF MakeRoom
  <2>2. r \in Seq(S) /\ Len(r) = Len(c) - 1 /\ \A i \in 1..Len(r) : r[i] = c[i + 1]
    BY <2>1, HeadTailProperties
  <2>3. ASSUME Distinct(c) PROVE Distinct(r)
    <3> SUFFICES ASSUME NEW i \in 1..Len(r), NEW j \in 1..Len(r), r[i].key = r[j].key
                 PROVE  i = j
      BY <2>2 DEF Distinct
    <3>1. i + 1 \in 1..Len(c) /\ j + 1 \in 1..Len(c)
      BY <2>2
    <3>2. c[i + 1].key = c[j + 1].key
      BY <2>2
    <3>3. i + 1 = j + 1
      BY <2>3, <3>1, <3>2 DEF Distinct
    <3> QED
      BY <3>3
  <2> QED
    BY <1>1, <2>2, <2>3 DEF NewestOf
<1>2. CASE ~(Len(c) >= n)
  BY <1>2 DEF MakeRoom, NewestOf
<1> QED
  BY <1>1, <1>2

\* What evictions leave keeps its value.
LEMMA NewestKeepsValues ==
  ASSUME NEW S, NEW c \in Seq(S), Distinct(c), NEW r \in Seq(S), Distinct(r), NewestOf(r, c),
         NEW i \in DOMAIN c, Has(r, c[i].key)
  PROVE  Lookup(r, c[i].key) = c[i].val
<1> DEFINE n == Len(c) - Len(r)
<1>1. PICK j \in DOMAIN r : r[j].key = c[i].key
  BY DEF Has
<1>2. DOMAIN r = 1..Len(r) /\ DOMAIN c = 1..Len(c) /\ Len(r) \in Nat /\ Len(c) \in Nat
  BY LenProperties
<1>3. j + n \in DOMAIN c /\ r[j] = c[j + n]
  BY <1>2 DEF NewestOf
<1>4. j + n = i
  BY <1>1, <1>3 DEF Distinct
<1> QED
  BY <1>1, <1>3, <1>4, EntryIsFound

\* Evictions bring no key in.
LEMMA NewestAddsNoKey ==
  ASSUME NEW S, NEW c \in Seq(S), NEW r \in Seq(S), NewestOf(r, c), NEW k, Has(r, k)
  PROVE  Has(c, k)
<1>1. PICK j \in DOMAIN r : r[j].key = k
  BY DEF Has
<1>2. DOMAIN r = 1..Len(r) /\ DOMAIN c = 1..Len(c) /\ Len(r) \in Nat /\ Len(c) \in Nat
  BY LenProperties
<1>3. j + (Len(c) - Len(r)) \in DOMAIN c /\ r[j] = c[j + (Len(c) - Len(r))]
  BY <1>2 DEF NewestOf
<1> QED
  BY <1>1, <1>3 DEF Has

\* An insertion that makes room first keeps the cache within its bound, and its
\* entries are those it had and the new one.
LEMMA InsertProperties ==
  ASSUME NEW S, NEW c \in Seq(S), NEW n \in Nat \ {0}, Len(c) <= n,
         NEW k, NEW v, [key |-> k, val |-> v] \in S
  PROVE  /\ Assign(MakeRoom(c, n), k, v) \in Seq(S)
         /\ Len(Assign(MakeRoom(c, n), k, v)) <= n
         /\ Distinct(c) => Distinct(Assign(MakeRoom(c, n), k, v))
<1>1. PICK r \in Seq(S) : r = MakeRoom(c, n) /\ Len(r) < n /\ (Distinct(c) => Distinct(r))
  BY MakeRoomProperties
<1>2. /\ Assign(r, k, v) \in Seq(S) /\ (Distinct(r) => Distinct(Assign(r, k, v)))
      /\ Len(Assign(r, k, v)) = Len(r) \/ Len(Assign(r, k, v)) = Len(r) + 1
  BY AssignProperties
<1> QED
  BY <1>1, <1>2
================================================================================
