---------------------------- MODULE FindIter_proofs ----------------------------
(* A finditer object keeps its place, calls PCRE2 where a call is defined, and    *)
(* hands out the matches of its subject, whatever the subject, the pattern, the   *)
(* range and the number of threads that share it.                                 *)
EXTENDS FindIter, Subjects_proofs

-----------------------------------------------------------------------------
(* Places and ranges.                                                          *)

FitsItsKind(s) == s.kind \in {"bytes", "ascii"} => OneByteEach(s)

\* Character i as a position of the caller.
IndexOf(s, i) == IF s.kind = "text" THEN i ELSE s.at[i]
PlaceOf(s, i) == At(IndexOf(s, i), s.at[i])

LEMMA PlacesAre ==
  ASSUME NEW s, IsSubject(s)
  PROVE  /\ LogicalLength(s) \in Nat /\ LogicalLength(s) = IndexOf(s, Chars(s))
         /\ ByteOf(s, LogicalLength(s)) = Length(s)
         /\ \A i \in 0..Chars(s) : /\ IndexOf(s, i) \in 0..LogicalLength(s)
                                   /\ ByteOf(s, IndexOf(s, i)) = s.at[i]
         /\ \A i, j \in 0..Chars(s) : /\ IndexOf(s, i) < IndexOf(s, j) <=> i < j
                                      /\ IndexOf(s, i) = IndexOf(s, j) <=> i = j
<1>1. Chars(s) \in Nat /\ Length(s) \in Nat /\ Length(s) = s.at[Chars(s)]
  BY PlacesInSubject
<1>2. CASE s.kind = "text"
  BY <1>1, <1>2 DEF LogicalLength, IndexOf, ByteOf
<1>3. CASE s.kind # "text"
  <2>1. /\ \A i \in 0..Chars(s) : s.at[i] \in 0..Length(s)
        /\ \A i, j \in 0..Chars(s) : /\ s.at[i] = s.at[j] <=> i = j
                                     /\ s.at[i] < s.at[j] <=> i < j
    BY PlacesInSubject
  <2> QED
    BY <1>1, <1>3, <2>1 DEF LogicalLength, IndexOf, ByteOf
<1> QED
  BY <1>2, <1>3

LEMMA RangeIs ==
  ASSUME NEW s, IsSubject(s), NEW p \in Int, NEW e \in Int
  PROVE  /\ Range0(s, p, e).pos \in 0..LogicalLength(s)
         /\ Range0(s, p, e).end \in 0..LogicalLength(s)
         /\ e < 0 => Range0(s, p, e).end = LogicalLength(s)
<1>1. LogicalLength(s) \in Nat
  BY PlacesAre
<1> QED
  BY <1>1 DEF Range0, ClampTo, LowerOf

\* The ends of a range that cuts no character are places.
LEMMA SoundIs ==
  ASSUME NEW s, IsSubject(s), NEW p \in Int, NEW e \in Int, Sound(s, p, e)
  PROVE  \E i, j \in 0..Chars(s) : /\ Range0(s, p, e).pos = IndexOf(s, i)
                                   /\ Range0(s, p, e).end = IndexOf(s, j)
<1>1. /\ ByteOf(s, Range0(s, p, e).pos) \in Boundaries(s)
      /\ ByteOf(s, Range0(s, p, e).end) \in Boundaries(s)
  BY DEF Sound
<1>2. CASE s.kind = "text"
  <2>1. Range0(s, p, e).pos \in 0..Chars(s) /\ Range0(s, p, e).end \in 0..Chars(s)
    BY <1>2, RangeIs DEF LogicalLength
  <2> QED
    BY <1>2, <2>1 DEF IndexOf
<1>3. CASE s.kind # "text"
  <2>1. PICK i \in 0..Chars(s) : s.at[i] = Range0(s, p, e).pos
    BY <1>1, <1>3, PlacesInSubject DEF ByteOf
  <2>2. PICK j \in 0..Chars(s) : s.at[j] = Range0(s, p, e).end
    BY <1>1, <1>3, PlacesInSubject DEF ByteOf
  <2> QED
    BY <1>3, <2>1, <2>2 DEF IndexOf
<1> QED
  BY <1>2, <1>3

\* Only a range of UTF-8 bytes can cut a character.
LEMMA MostlySound ==
  ASSUME NEW s, IsSubject(s), FitsItsKind(s), s.kind # "utf", NEW p \in Int, NEW e \in Int
  PROVE  Sound(s, p, e)
<1>1. \A q \in 0..LogicalLength(s) : ByteOf(s, q) \in Boundaries(s)
  <2>1. CASE s.kind = "text"
    <3>1. \A i \in 0..Chars(s) : s.at[i] \in Boundaries(s)
      BY PlacesInSubject
    <3> QED
      BY <2>1, <3>1 DEF ByteOf, LogicalLength
  <2>2. CASE s.kind # "text"
    <3>1. OneByteEach(s)
      BY <2>2 DEF IsSubject, FitsItsKind, Kinds
    <3>2. 0 \in 0..Chars(s)
      BY PlacesInSubject
    <3>3. Length(s) = Chars(s) /\ Boundaries(s) = 0..Chars(s)
      BY <3>1, <3>2, PositionsAreBytes
    <3> QED
      BY <2>2, <3>3 DEF ByteOf, LogicalLength
  <2> QED
    BY <2>1, <2>2
<1> QED
  BY <1>1, RangeIs DEF Sound

\* The range of a finditer object in positions and in bytes.
LEMMA CreatedWindowIs ==
  ASSUME NEW s, IsSubject(s), FitsItsKind(s), NEW p \in Int, NEW e \in Int
  PROVE  LET r == Range0(s, p, e)
         IN  CreateWindow(s, p, e) =
               [pos |-> r.pos, end |-> r.end, given |-> e >= 0, impossible |-> e >= 0 /\ r.end < r.pos,
                from |-> ByteOf(s, r.pos), to |-> ByteOf(s, r.end)]
<1> DEFINE r == Range0(s, p, e)
           w == Window(s, p, e)
           Byte(q) == IF SubjectIsBytes(s) \/ q = 0 THEN q ELSE utf8_index_to_offset_fast(s, q)
<1>1. /\ w.pos = r.pos /\ w.end = r.end /\ w.given = (e >= 0)
      /\ w.impossible = (e >= 0 /\ r.end < r.pos)
      /\ w = [pos |-> w.pos, end |-> w.end, given |-> w.given, impossible |-> w.impossible,
              from |-> w.from, to |-> w.to]
  BY DEF Range0, Window
<1>2. CreateWindow(s, p, e) =
        [w EXCEPT !.from = Byte(w.pos), !.to = IF w.end = LogicalLength(s) THEN Length(s) ELSE Byte(w.end)]
  BY DEF CreateWindow
<1>3. ASSUME NEW q \in 0..LogicalLength(s) PROVE Byte(q) = ByteOf(s, q)
  <2>1. CASE SubjectIsBytes(s)
    BY <2>1 DEF SubjectIsBytes, ByteOf
  <2>2. CASE ~ SubjectIsBytes(s) /\ q = 0
    BY <2>2, PlacesInSubject DEF ByteOf
  <2>3. CASE ~ SubjectIsBytes(s) /\ q # 0
    <3>1. s.kind \in {"ascii", "text"}
      BY <2>3 DEF SubjectIsBytes, IsSubject, Kinds
    <3>2. q \in 0..Chars(s) /\ ByteOf(s, q) = s.at[q]
      <4>1. CASE s.kind = "text"
        BY <4>1 DEF LogicalLength, ByteOf
      <4>2. CASE s.kind = "ascii"
        <5>1. OneByteEach(s)
          BY <4>2 DEF FitsItsKind
        <5>2. 0 \in 0..Chars(s)
          BY PlacesInSubject
        <5>3. Length(s) = Chars(s)
          BY <5>1, <5>2, PositionsAreBytes
        <5>4. q \in 0..Chars(s)
          BY <4>2, <5>3 DEF LogicalLength
        <5>5. s.at[q] = q
          BY <5>1, <5>4, PositionsAreBytes
        <5> QED
          BY <4>2, <5>4, <5>5 DEF ByteOf
      <4> QED
        BY <3>1, <4>1, <4>2
    <3>3. utf8_index_to_offset_fast(s, q) = s.at[q]
      BY <3>2, FastIndexToOffset
    <3> QED
      BY <2>3, <3>2, <3>3
  <2> QED
    BY <2>1, <2>2, <2>3
<1>4. w.pos \in 0..LogicalLength(s) /\ w.end \in 0..LogicalLength(s)
  BY <1>1, RangeIs
<1>5. Byte(w.pos) = ByteOf(s, r.pos)
  <2> HIDE DEF Byte, w, r
  <2> QED
    BY <1>1, <1>3, <1>4
<1>6. (IF w.end = LogicalLength(s) THEN Length(s) ELSE Byte(w.end)) = ByteOf(s, r.end)
  <2>1. ByteOf(s, LogicalLength(s)) = Length(s)
    BY PlacesAre
  <2> HIDE DEF Byte, w, r
  <2> QED
    BY <1>1, <1>3, <1>4, <2>1
<1> HIDE DEF w, Byte, r
<1>7. CreateWindow(s, p, e) =
        [pos |-> r.pos, end |-> r.end, given |-> e >= 0, impossible |-> e >= 0 /\ r.end < r.pos,
         from |-> ByteOf(s, r.pos), to |-> ByteOf(s, r.end)]
  BY <1>1, <1>2, <1>5, <1>6
<1> QED
  BY <1>7 DEF r


-----------------------------------------------------------------------------
(* The conversions with a forward cache.                                       *)

\* From any place to the byte of another.
LEMMA IndexToByte ==
  ASSUME NEW s, IsSubject(s), NEW c \in 0..Chars(s), NEW j \in 0..Chars(s)
  PROVE  finditer_index_to_byte(s, PlaceOf(s, c), IndexOf(s, j)) = PlaceOf(s, j)
<1> DEFINE cached == PlaceOf(s, c)
           goal == LowerOf(IndexOf(s, j), LogicalLength(s))
           from == FromCachedIndex(cached, goal)
           Walks(f) == f = [i \in from.index..goal |->
                              IF i = from.index THEN from.byte
                              ELSE advance_one_character(s, f[i - 1], FALSE)]
           walk == CHOOSE f : Walks(f)
<1>1. finditer_index_to_byte(s, cached, IndexOf(s, j))
        = IF s.kind # "text" THEN At(goal, goal) ELSE At(goal, walk[goal])
  BY DEF finditer_index_to_byte
<1>2. Chars(s) \in Nat /\ s.at[0] = 0
  BY PlacesInSubject
<1>3. goal = IndexOf(s, j)
  <2>1. IndexOf(s, j) \in 0..LogicalLength(s) /\ LogicalLength(s) \in Nat
    BY PlacesAre
  <2> QED
    BY <2>1 DEF LowerOf
<1>4. CASE s.kind # "text"
  <2> HIDE DEF walk, goal, cached
  <2>1. finditer_index_to_byte(s, cached, IndexOf(s, j)) = At(s.at[j], s.at[j])
    BY <1>1, <1>3, <1>4 DEF IndexOf
  <2> QED
    BY <1>4, <2>1 DEF PlaceOf, IndexOf, cached
<1>5. CASE s.kind = "text"
  <2>1. goal = j
    <3> HIDE DEF goal
    <3> QED
      BY <1>3, <1>5 DEF IndexOf
  <2>2. \E a \in 0..j : from = At(a, s.at[a])
    <3>1. cached = At(c, s.at[c]) /\ cached.index = c
      BY <1>5 DEF PlaceOf, IndexOf, At
    <3> HIDE DEF cached, goal
    <3>2. CASE j <= c
      <4>1. from = At(0, 0)
        BY <2>1, <3>1, <3>2 DEF FromCachedIndex
      <4>2. from = At(0, s.at[0]) /\ 0 \in 0..j
        BY <1>2, <4>1
      <4> QED
        BY <4>2
    <3>3. CASE c < j
      <4>1. from = At(c, s.at[c]) /\ c \in 0..j
        BY <1>2, <2>1, <3>1, <3>3 DEF FromCachedIndex
      <4> QED
        BY <4>1
    <3> QED
      BY <1>2, <3>2, <3>3
  <2> PICK a \in 0..j : from = At(a, s.at[a])
    BY <2>2
  <2>3. from.index = a /\ from.byte = s.at[a]
    BY DEF At
  <2> DEFINE places == [i \in a..j |-> s.at[i]]
  <2>4. ASSUME NEW i \in a + 1..j PROVE advance_one_character(s, s.at[i - 1], FALSE) = s.at[i]
    <3>1. i - 1 \in 0..Chars(s) /\ i - 1 < Chars(s) /\ (i - 1) + 1 = i
      BY <1>2
    <3>2. FALSE \in BOOLEAN
      OBVIOUS
    <3> QED
      BY <3>1, <3>2, StepOverCharacter
  <2>5. Walks(places)
    <3>1. ASSUME NEW i \in a..j
          PROVE  places[i] = IF i = a THEN s.at[a] ELSE advance_one_character(s, places[i - 1], FALSE)
      <4>1. CASE i = a
        BY <4>1
      <4>2. CASE i # a
        <5>1. i \in a + 1..j /\ i - 1 \in a..j
          BY <1>2, <4>2
        <5>2. places[i] = s.at[i] /\ places[i - 1] = s.at[i - 1]
          BY <5>1
        <5> HIDE DEF places
        <5> QED
          BY <2>4, <4>2, <5>1, <5>2
      <4> QED
        BY <4>1, <4>2
    <3>2. places = [i \in a..j |-> places[i]]
      OBVIOUS
    <3> HIDE DEF places, from, goal
    <3> QED
      BY <2>1, <2>3, <3>1, <3>2
  <2>6. Walks(walk)
    <3> HIDE DEF Walks, places
    <3> QED
      BY <2>5
  <2> DEFINE S == {n \in 0..j - a : walk[a + n] = s.at[a + n]}
  <2>7. 0 \in S
    <3>1. a \in a..j /\ a + 0 = a /\ 0 \in 0..j - a
      BY <1>2
    <3>2. walk[a] = s.at[a]
      <4> HIDE DEF walk, from, goal
      <4> QED
        BY <2>1, <2>3, <2>6, <3>1
    <3> HIDE DEF walk
    <3> QED
      BY <3>1, <3>2
  <2>8. ASSUME NEW n \in 0..(j - a) - 1, n \in S PROVE n + 1 \in S
    <3>1. /\ a + (n + 1) \in a + 1..j /\ (a + (n + 1)) - 1 = a + n /\ a + (n + 1) # a
          /\ a + (n + 1) \in a..j /\ n + 1 \in 0..j - a
      BY <1>2
    <3>2. walk[a + (n + 1)] = advance_one_character(s, walk[a + n], FALSE)
      <4> HIDE DEF walk, from, goal
      <4> QED
        BY <2>1, <2>3, <2>6, <3>1
    <3>3. walk[a + n] = s.at[a + n]
      <4> HIDE DEF walk
      <4> QED
        BY <2>8
    <3>4. advance_one_character(s, s.at[a + n], FALSE) = s.at[a + (n + 1)]
      BY <2>4, <3>1
    <3> HIDE DEF walk
    <3> QED
      BY <3>1, <3>2, <3>3, <3>4
  <2>9. j - a \in Nat
    BY <1>2
  <2>10. 0..j - a \subseteq S
    <3> HIDE DEF S
    <3> QED
      BY <2>7, <2>8, <2>9, StepsUp
  <2>11. walk[j] = s.at[j]
    <3>1. j - a \in 0..j - a /\ a + (j - a) = j
      BY <1>2
    <3>2. j - a \in S
      BY <2>10, <3>1
    <3>3. walk[a + (j - a)] = s.at[a + (j - a)]
      <4> HIDE DEF walk
      <4> QED
        BY <3>2
    <3> HIDE DEF walk
    <3> QED
      BY <3>1, <3>3
  <2> HIDE DEF walk, goal, from, cached
  <2>12. finditer_index_to_byte(s, cached, IndexOf(s, j)) = At(j, s.at[j])
    BY <1>1, <1>5, <2>1, <2>11
  <2> QED
    BY <1>5, <2>12 DEF PlaceOf, IndexOf, cached
<1> QED
  BY <1>4, <1>5

\* The walk that counts characters exists.
LEMMA WalkCounts ==
  ASSUME NEW s, IsSubject(s), NEW target \in 0..Length(s), NEW walk,
         walk = CHOOSE f : f = [byte \in 0..Length(s) |->
                  IF byte >= target \/ byte + LeadWidth(s, byte) > target THEN 0
                  ELSE f[byte + LeadWidth(s, byte)] + 1]
  PROVE  \A byte \in 0..Length(s) :
           walk[byte] = IF byte >= target \/ byte + LeadWidth(s, byte) > target THEN 0
                        ELSE walk[byte + LeadWidth(s, byte)] + 1
<1> DEFINE D == 0..Length(s)
           V == Nat
           Ends(byte) == byte >= target \/ byte + LeadWidth(s, byte) > target
           Walks(f) == f = [byte \in D |-> IF Ends(byte) THEN 0 ELSE f[byte + LeadWidth(s, byte)] + 1]
           stop == {byte \in D : Ends(byte)}
           base == [byte \in D |-> 0]
           next == [byte \in D |-> byte + LeadWidth(s, byte)]
           add == [p \in D \X V |-> p[2] + 1]
           measure == [byte \in D |-> Length(s) - byte]
<1>1. Length(s) \in Nat
  BY PlacesInSubject
<1>2. \A byte \in D : LeadWidth(s, byte) \in Nat \ {0}
  BY StepGoesOn
<1>3. IsStepwise(D, V, Length(s), measure, stop, base, next, add)
  <2>1. measure \in [D -> 0..Length(s)]
    BY <1>1
  <2>2. \A byte \in D : byte \in stop => base[byte] \in V
    OBVIOUS
  <2>3. ASSUME NEW byte \in D, byte \notin stop
        PROVE  next[byte] \in D /\ measure[next[byte]] < measure[byte]
    <3>1. next[byte] = byte + LeadWidth(s, byte) /\ next[byte] \in D
      BY <1>1, <1>2, <2>3
    <3>2. measure[next[byte]] = Length(s) - next[byte] /\ measure[byte] = Length(s) - byte
      <4> HIDE DEF next
      <4> QED
        BY <3>1
    <3> HIDE DEF next, measure
    <3> QED
      BY <1>1, <1>2, <3>1, <3>2
  <2>4. \A byte \in D, v \in V : byte \notin stop => add[<<byte, v>>] \in V
    OBVIOUS
  <2> HIDE DEF D, V, measure, stop, base, next, add
  <2> QED
    BY <2>1, <2>2, <2>3, <2>4 DEF IsStepwise
<1>4. PICK f \in [D -> V] : IsResult(D, f, stop, base, next, add)
  <2>1. V # {}
    OBVIOUS
  <2> HIDE DEF D, V, measure, stop, base, next, add
  <2> QED
    BY <1>1, <1>3, <2>1, StepwiseRecursion
<1>5. Walks(f)
  <2>1. ASSUME NEW byte \in D
        PROVE  f[byte] = IF Ends(byte) THEN 0 ELSE f[byte + LeadWidth(s, byte)] + 1
    <3>1. f[byte] = IF byte \in stop THEN base[byte] ELSE add[<<byte, f[next[byte]]>>]
      <4> HIDE DEF D, V, stop, base, next, add
      <4> QED
        BY <1>4 DEF IsResult
    <3>2. byte \notin stop => next[byte] \in D
      <4> HIDE DEF D, V, measure, stop, base, next, add
      <4> QED
        BY <1>3 DEF IsStepwise
    <3>3. byte \in stop <=> Ends(byte)
      OBVIOUS
    <3>4. next[byte] = byte + LeadWidth(s, byte) /\ base[byte] = 0
      OBVIOUS
    <3>5. byte \notin stop => add[<<byte, f[next[byte]]>>] = f[next[byte]] + 1
      <4>1. byte \notin stop => f[next[byte]] \in V
        <5> HIDE DEF D, V, stop, next
        <5> QED
          BY <3>2
      <4> HIDE DEF D, V, stop, next
      <4> QED
        BY <4>1
    <3> HIDE DEF D, V, stop, next, base, add, Ends
    <3> QED
      BY <3>1, <3>3, <3>4, <3>5
  <2> HIDE DEF D, V, Ends
  <2> QED
    BY <1>4, <2>1
<1>6. walk = CHOOSE g : Walks(g)
  OBVIOUS
<1>7. Walks(walk)
  <2> HIDE DEF Walks
  <2> QED
    BY <1>5, <1>6
<1> QED
  BY <1>7

\* From any place to the position of another.
LEMMA ByteToIndex ==
  ASSUME NEW s, IsSubject(s), NEW c \in 0..Chars(s), NEW j \in 0..Chars(s)
  PROVE  finditer_byte_to_index(s, PlaceOf(s, c), s.at[j]) = PlaceOf(s, j)
<1> DEFINE cached == PlaceOf(s, c)
           target == s.at[j]
           from == FromCache(cached, target)
           walk == CHOOSE f : f = [byte \in 0..Length(s) |->
                     IF byte >= target \/ byte + LeadWidth(s, byte) > target THEN 0
                     ELSE f[byte + LeadWidth(s, byte)] + 1]
           reached == IF from.byte > target THEN from.byte ELSE target
<1>1. finditer_byte_to_index(s, cached, target)
        = CASE s.kind # "text" -> At(target, target)
            [] s.kind = "text" /\ reached = Length(s) -> At(LogicalLength(s), reached)
            [] OTHER -> At(from.index + walk[from.byte], reached)
  BY DEF finditer_byte_to_index
<1>2. /\ Chars(s) \in Nat /\ s.at[0] = 0 /\ Length(s) \in Nat /\ Length(s) = s.at[Chars(s)]
      /\ s.at[j] \in 0..Length(s) /\ s.at[c] \in 0..Length(s)
      /\ \A i, k \in 0..Chars(s) : /\ s.at[i] = s.at[k] <=> i = k
                                   /\ s.at[i] < s.at[k] <=> i < k
  BY PlacesInSubject
<1>3. CASE s.kind # "text"
  <2> HIDE DEF walk, reached, cached, target
  <2>1. finditer_byte_to_index(s, cached, target) = At(target, target)
    BY <1>1, <1>3
  <2> QED
    BY <1>3, <2>1 DEF PlaceOf, IndexOf, cached, target
<1>4. CASE s.kind = "text"
  <2>1. \E a \in 0..j : from = At(a, s.at[a])
    <3>1. cached = At(c, s.at[c]) /\ cached.byte = s.at[c]
      BY <1>4 DEF PlaceOf, IndexOf, At
    <3> HIDE DEF cached
    <3>2. CASE s.at[j] <= s.at[c]
      <4>1. from = At(0, 0)
        BY <3>1, <3>2 DEF FromCache
      <4>2. from = At(0, s.at[0]) /\ 0 \in 0..j
        BY <1>2, <4>1
      <4> QED
        BY <4>2
    <3>3. CASE ~ (s.at[j] <= s.at[c])
      <4>1. c < j
        BY <1>2, <3>3
      <4>2. from = At(c, s.at[c]) /\ c \in 0..j
        BY <1>2, <3>1, <3>3, <4>1 DEF FromCache
      <4> QED
        BY <4>2
    <3> QED
      BY <3>2, <3>3
  <2> PICK a \in 0..j : from = At(a, s.at[a])
    BY <2>1
  <2>2. from.index = a /\ from.byte = s.at[a]
    BY DEF At
  <2>3. /\ a \in 0..Chars(s) /\ s.at[a] <= s.at[j] /\ s.at[a] \in 0..Length(s)
    <3>1. a \in 0..Chars(s)
      BY <1>2
    <3>2. s.at[a] \in 0..Length(s)
      BY <3>1, PlacesInSubject
    <3> QED
      BY <1>2, <3>1, <3>2
  <2>4. reached = s.at[j]
    <3> HIDE DEF from
    <3> QED
      BY <1>2, <2>2, <2>3
  <2>5. CASE s.at[j] = Length(s)
    <3>1. j = Chars(s)
      BY <1>2, <2>5
    <3> HIDE DEF walk, reached, cached, target, from
    <3>2. finditer_byte_to_index(s, cached, target) = At(LogicalLength(s), s.at[j])
      BY <1>1, <1>4, <2>4, <2>5
    <3> QED
      BY <1>4, <3>1, <3>2 DEF PlaceOf, IndexOf, LogicalLength, cached, target
  <2>6. CASE s.at[j] # Length(s)
    <3>1. \A byte \in 0..Length(s) :
            walk[byte] = IF byte >= target \/ byte + LeadWidth(s, byte) > target THEN 0
                         ELSE walk[byte + LeadWidth(s, byte)] + 1
      <4>1. target \in 0..Length(s)
        BY <1>2
      <4> HIDE DEF target
      <4> QED
        BY <4>1, WalkCounts
    <3> HIDE DEF walk
    <3> DEFINE S == {n \in 0..j : walk[s.at[j - n]] = n}
    <3>2. 0 \in S
      <4>1. walk[s.at[j]] = 0
        BY <1>2, <3>1
      <4>2. j - 0 = j /\ 0 \in 0..j
        BY <1>2
      <4> QED
        BY <4>1, <4>2
    <3>3. ASSUME NEW n \in 0..j - 1, n \in S PROVE n + 1 \in S
      <4> DEFINE i == j - (n + 1)
      <4>1. /\ i \in 0..Chars(s) - 1 /\ i + 1 = j - n /\ i + 1 \in 0..Chars(s) /\ i < j /\ i + 1 <= j
            /\ n + 1 \in 0..j /\ i \in 0..Chars(s)
        BY <1>2
      <4>2. walk[s.at[j - n]] = n
        BY <3>3
      <4> HIDE DEF i
      <4>3. /\ LeadWidth(s, s.at[i]) = WidthOf[s.text[i + 1]]
            /\ s.at[i + 1] = s.at[i] + WidthOf[s.text[i + 1]]
            /\ s.at[i] \in 0..Length(s) /\ s.at[i + 1] \in 0..Length(s)
        BY <4>1, LeadWidthOfCharacter, PlacesInSubject
      <4>4. s.at[i] < s.at[j] /\ s.at[i + 1] <= s.at[j]
        BY <1>2, <4>1, <4>3
      <4>5. s.at[i] + LeadWidth(s, s.at[i]) = s.at[i + 1]
        BY <4>3
      <4>6. walk[s.at[i]] = IF s.at[i] >= target \/ s.at[i] + LeadWidth(s, s.at[i]) > target THEN 0
                            ELSE walk[s.at[i] + LeadWidth(s, s.at[i])] + 1
        BY <3>1, <4>3
      <4>7. ~ (s.at[i] >= target) /\ ~ (s.at[i] + LeadWidth(s, s.at[i]) > target)
        BY <1>2, <4>3, <4>4, <4>5
      <4>8. walk[s.at[i]] = walk[s.at[i + 1]] + 1
        BY <4>5, <4>6, <4>7
      <4>9. walk[s.at[i]] = n + 1
        BY <4>1, <4>2, <4>8
      <4> QED
        BY <4>1, <4>9 DEF i
    <3>4. 0..j \subseteq S
      <4> HIDE DEF S
      <4> QED
        BY <1>2, <3>2, <3>3, StepsUp
    <3>5. walk[s.at[a]] = j - a
      <4>1. j - a \in 0..j /\ j - (j - a) = a
        BY <1>2
      <4>2. j - a \in S
        BY <3>4, <4>1
      <4>3. walk[s.at[j - (j - a)]] = j - a
        BY <4>2
      <4> QED
        BY <4>1, <4>3
    <3>6. finditer_byte_to_index(s, cached, target) = At(from.index + walk[from.byte], reached)
      <4> HIDE DEF reached, cached, target, from
      <4> QED
        BY <1>1, <1>4, <2>4, <2>6
    <3>7. from.index + walk[from.byte] = j
      <4> HIDE DEF from
      <4> QED
        BY <1>2, <2>2, <3>5
    <3> HIDE DEF reached, cached, target, from
    <3>8. finditer_byte_to_index(s, cached, target) = At(j, s.at[j])
      BY <2>4, <3>6, <3>7
    <3> QED
      BY <1>4, <3>8 DEF PlaceOf, IndexOf, cached, target
  <2> QED
    BY <2>5, <2>6
<1> QED
  BY <1>3, <1>4


-----------------------------------------------------------------------------
(* Spans in bytes.                                                             *)

LEMMA SpansInBytes ==
  ASSUME NEW s, IsSubject(s), NEW q \in Seq((0..Chars(s)) \X (0..Chars(s)))
  PROVE  InBytes(s, q) \in Seq(Nat \X Nat) /\ (q = <<>> => InBytes(s, q) = <<>>)
<1>1. DOMAIN q = 1..Len(q) /\ Len(q) \in Nat
  OBVIOUS
<1>2. ASSUME NEW i \in 1..Len(q) PROVE <<s.at[q[i][1]], s.at[q[i][2]]>> \in Nat \X Nat
  <2>1. q[i] \in (0..Chars(s)) \X (0..Chars(s))
    OBVIOUS
  <2>2. q[i][1] \in 0..Chars(s) /\ q[i][2] \in 0..Chars(s)
    BY <2>1
  <2>3. s.at[q[i][1]] \in Nat /\ s.at[q[i][2]] \in Nat
    BY <2>2 DEF IsSubject
  <2> QED
    BY <2>3
<1>3. InBytes(s, q) = [i \in 1..Len(q) |-> <<s.at[q[i][1]], s.at[q[i][2]]>>]
  BY <1>1 DEF InBytes
<1>4. InBytes(s, q) \in Seq(Nat \X Nat)
  BY <1>1, <1>2, <1>3
<1>5. q = <<>> => InBytes(s, q) = <<>>
  BY <1>3
<1> QED
  BY <1>4, <1>5

LEMMA InFront ==
  ASSUME NEW S, NEW x \in S, NEW r \in Seq(S)
  PROVE  /\ <<x>> \o r \in Seq(S) /\ Len(<<x>> \o r) = Len(r) + 1
         /\ (<<x>> \o r)[1] = x
         /\ \A i \in 2..Len(r) + 1 : (<<x>> \o r)[i] = r[i - 1]
  OBVIOUS

LEMMA FirstSpanInBytes ==
  ASSUME NEW s, IsSubject(s), NEW q \in Seq((0..Chars(s)) \X (0..Chars(s))),
         NEW k \in 0..Chars(s), NEW j \in 0..Chars(s)
  PROVE  InBytes(s, <<<<k, j>>>> \o q) = <<<<s.at[k], s.at[j]>>>> \o InBytes(s, q)
<1> DEFINE span == <<k, j>>
           long == <<span>> \o q
           byte == <<s.at[k], s.at[j]>>
           short == InBytes(s, q)
<1>1. Len(q) \in Nat /\ DOMAIN q = 1..Len(q)
  OBVIOUS
<1>2. span \in (0..Chars(s)) \X (0..Chars(s)) /\ span[1] = k /\ span[2] = j
  OBVIOUS
<1>3. short = [i \in 1..Len(q) |-> <<s.at[q[i][1]], s.at[q[i][2]]>>] /\ short \in Seq(Nat \X Nat)
  <2>1. short = [i \in 1..Len(q) |-> <<s.at[q[i][1]], s.at[q[i][2]]>>]
    BY <1>1 DEF InBytes
  <2>2. short \in Seq(Nat \X Nat)
    BY SpansInBytes
  <2> HIDE DEF short
  <2> QED
    BY <2>1, <2>2
<1>4. Len(short) = Len(q)
  <2> HIDE DEF short
  <2> QED
    BY <1>1, <1>3
<1>5. byte \in Nat \X Nat
  BY DEF IsSubject
<1> HIDE DEF short, byte
<1>6. /\ long \in Seq((0..Chars(s)) \X (0..Chars(s))) /\ Len(long) = Len(q) + 1
      /\ DOMAIN long = 1..Len(q) + 1
      /\ long[1] = span /\ \A i \in 2..Len(q) + 1 : long[i] = q[i - 1]
  <2> HIDE DEF span
  <2> QED
    BY <1>1, <1>2
<1>7. /\ <<byte>> \o short \in Seq(Nat \X Nat) /\ Len(<<byte>> \o short) = Len(q) + 1
      /\ (<<byte>> \o short)[1] = byte
      /\ \A i \in 2..Len(q) + 1 : (<<byte>> \o short)[i] = short[i - 1]
  <2> DEFINE S == Nat \X Nat
  <2>1. byte \in S /\ short \in Seq(S)
    BY <1>3, <1>5
  <2> HIDE DEF S
  <2>2. /\ <<byte>> \o short \in Seq(S) /\ Len(<<byte>> \o short) = Len(short) + 1
        /\ (<<byte>> \o short)[1] = byte
        /\ \A i \in 2..Len(short) + 1 : (<<byte>> \o short)[i] = short[i - 1]
    BY <2>1, InFront
  <2> QED
    BY <1>4, <2>2 DEF S
<1>8. InBytes(s, long) = [i \in 1..Len(q) + 1 |-> <<s.at[long[i][1]], s.at[long[i][2]]>>]
  <2> HIDE DEF long
  <2> QED
    BY <1>6 DEF InBytes
<1>9. <<byte>> \o short = [i \in 1..Len(q) + 1 |-> (<<byte>> \o short)[i]]
  BY <1>1, <1>7
<1>10. ASSUME NEW i \in 1..Len(q) + 1
       PROVE  <<s.at[long[i][1]], s.at[long[i][2]]>> = (<<byte>> \o short)[i]
  <2>1. CASE i = 1
    <3> HIDE DEF long, span
    <3> QED
      BY <1>2, <1>6, <1>7, <2>1 DEF byte
  <2>2. CASE i # 1
    <3>1. i \in 2..Len(q) + 1 /\ i - 1 \in 1..Len(q)
      BY <1>1, <2>2
    <3>2. (<<byte>> \o short)[i] = <<s.at[q[i - 1][1]], s.at[q[i - 1][2]]>>
      BY <1>3, <1>7, <3>1
    <3>3. long[i] = q[i - 1]
      <4> HIDE DEF long
      <4> QED
        BY <1>6, <3>1
    <3> HIDE DEF long
    <3> QED
      BY <3>2, <3>3
  <2> QED
    BY <2>1, <2>2
<1>11. InBytes(s, long) = <<byte>> \o short
  <2> HIDE DEF long
  <2> QED
    BY <1>8, <1>9, <1>10
<1> QED
  BY <1>11 DEF byte, short

\* One more of a sequence: x comes after y, and r after that.
ComesNext(S, all0, y, x, r) == y \in Seq(S) /\ x \in S /\ r \in Seq(S) /\ all0 = y \o (<<x>> \o r)

LEMMA OneMore ==
  ASSUME NEW S, NEW all0, NEW y, NEW x, NEW r, ComesNext(S, all0, y, x, r)
  PROVE  /\ all0 = Append(y, x) \o r
         /\ Append(y, x) \in Seq(S)
         /\ Len(y) < Len(all0)
         /\ all0[Len(y) + 1] = x
<1>0. y \in Seq(S) /\ x \in S /\ r \in Seq(S) /\ all0 = y \o (<<x>> \o r)
  BY DEF ComesNext
<1>1. <<x>> \in Seq(S) /\ Len(<<x>>) = 1 /\ <<x>>[1] = x
  BY <1>0
<1>2. y \o (<<x>> \o r) = (y \o <<x>>) \o r
  BY SMTT(30), <1>0, <1>1, ConcatAssociative
<1>3. y \o <<x>> = Append(y, x)
  BY <1>0, AppendIsConcat
<1>4. /\ <<x>> \o r \in Seq(S) /\ Len(<<x>> \o r) = 1 + Len(r) /\ (<<x>> \o r)[1] = x
      /\ Len(r) \in Nat /\ Len(y) \in Nat
  BY <1>0
<1>5. /\ Len(y \o (<<x>> \o r)) = Len(y) + (1 + Len(r))
      /\ (y \o (<<x>> \o r))[Len(y) + 1] = (<<x>> \o r)[1]
  <2> DEFINE z == <<x>> \o r
  <2>1. z \in Seq(S) /\ Len(z) = 1 + Len(r)
    BY <1>4
  <2> HIDE DEF z
  <2>2. /\ Len(y \o z) = Len(y) + Len(z)
        /\ (y \o z)[Len(y) + 1] = z[1]
    <3>1. y \in Seq(S) /\ Len(y) \in Nat /\ Len(r) \in Nat
      BY <1>0, <1>4
    <3>2. Len(y \o z) = Len(y) + Len(z)
      BY <2>1, <3>1
    <3>3. (y \o z)[Len(y) + 1] = z[1]
      BY <2>1, <3>1
    <3> QED
      BY <3>2, <3>3
  <2> QED
    BY <2>1, <2>2 DEF z
<1>6. Append(y, x) \in Seq(S)
  BY <1>0
<1> QED
  BY <1>0, <1>2, <1>3, <1>4, <1>5, <1>6

-----------------------------------------------------------------------------
(* The inductive invariant.                                                    *)

InputsFit ==
  /\ IsSubject(subject) /\ FitsItsKind(subject) /\ IsPattern(subject, pattern)
  /\ pos \in Int /\ endpos \in Int
  /\ all = Matches(subject, pattern, pos, endpos)
  /\ jit \in JitStates

Spots == [index : Int, byte : Int]

IterFits ==
  iter \in [current_pos : Int, current_byte : Int, window : {CreateWindow(subject, pos, endpos)},
            exhausted : BOOLEAN, retry_nonempty : BOOLEAN,
            byte_to_index : Spots, index_to_byte : Spots]

\* The lock is held by the call that is under way, and only one of those is.
OneAtATime ==
  /\ call \in [Threads -> {"idle", "scan", "matched", "no match"}]
  /\ \A t \in Threads : call[t] # "idle" <=> lock = t
  /\ \A t \in Threads : call[t] \in {"matched", "no match"} => ~ iter.exhausted

\* The matches not handed out are those from the character c on, where the object is; e
\* is where the range ends.  A call that has been told of a match or of none was told so
\* for that character.
Stands(c, e) ==
  /\ Range0(subject, pos, endpos).end = IndexOf(subject, e)
  /\ At(iter.current_pos, iter.current_byte) = PlaceOf(subject, c)
  /\ iter.exhausted => yielded = all
  /\ ~ iter.exhausted =>
       /\ c <= e
       /\ all = yielded \o InBytes(subject, Sequel(pattern, e)[<<c, iter.retry_nonempty>>])
  /\ \A t \in Threads :
       /\ call[t] = "matched" =>
            /\ Hit(pattern, e, c, iter.retry_nonempty)
            /\ ovector = <<subject.at[FirstSpan(pattern, e, <<c, iter.retry_nonempty>>)[1]],
                           subject.at[FirstSpan(pattern, e, <<c, iter.retry_nonempty>>)[2]]>>
       /\ call[t] = "no match" => ~ Hit(pattern, e, c, iter.retry_nonempty)

CachesArePlaces ==
  /\ \E b \in 0..Chars(subject) : iter.byte_to_index = PlaceOf(subject, b)
  /\ \E i \in 0..Chars(subject) : iter.index_to_byte = PlaceOf(subject, i)

\* Where the range cuts a character every call is refused.
NothingDone ==
  /\ iter.current_pos = iter.window.pos /\ iter.current_byte = iter.window.from
  /\ yielded = all
  /\ \A t \in Threads : call[t] \in {"idle", "scan"}

InRange == Sound(subject, pos, endpos)

IInv ==
  /\ InputsFit /\ IterFits /\ OneAtATime
  /\ yielded \in Seq(Nat \X Nat)
  /\ InRange => CachesArePlaces /\ \E c, e \in 0..Chars(subject) : Stands(c, e)
  /\ ~ InRange => NothingDone


LEMMA WindowIs ==
  ASSUME InputsFit, IterFits
  PROVE  /\ iter.window.pos = Range0(subject, pos, endpos).pos
         /\ iter.window.end = Range0(subject, pos, endpos).end
         /\ iter.window.given <=> endpos >= 0
         /\ iter.window.impossible <=> endpos >= 0 /\ iter.window.end < iter.window.pos
         /\ iter.window.from = ByteOf(subject, Range0(subject, pos, endpos).pos)
         /\ iter.window.to = ByteOf(subject, Range0(subject, pos, endpos).end)
<1>1. iter.window = CreateWindow(subject, pos, endpos)
  BY DEF IterFits
<1>2. IsSubject(subject) /\ FitsItsKind(subject) /\ pos \in Int /\ endpos \in Int
  BY DEF InputsFit
<1> DEFINE r == Range0(subject, pos, endpos)
<1>3. CreateWindow(subject, pos, endpos) =
        [pos |-> r.pos, end |-> r.end, given |-> endpos >= 0,
         impossible |-> endpos >= 0 /\ r.end < r.pos,
         from |-> ByteOf(subject, r.pos), to |-> ByteOf(subject, r.end)]
  BY <1>2, CreatedWindowIs
<1> HIDE DEF r
<1>4. /\ iter.window.pos = r.pos /\ iter.window.end = r.end
      /\ iter.window.from = ByteOf(subject, r.pos)
      /\ iter.window.to = ByteOf(subject, r.end)
  BY <1>1, <1>3
<1>5. /\ iter.window.given = (endpos >= 0)
      /\ iter.window.impossible = (endpos >= 0 /\ r.end < r.pos)
  BY <1>1, <1>3
<1>6. /\ iter.window.given <=> endpos >= 0
      /\ iter.window.impossible <=> endpos >= 0 /\ r.end < r.pos
  BY Zenon, <1>5
<1> QED
  BY <1>4, <1>6 DEF r

\* What Stands says of the object and of its window.
LEMMA Standing ==
  ASSUME InputsFit, IterFits, NEW c \in 0..Chars(subject), NEW e \in 0..Chars(subject), Stands(c, e)
  PROVE  /\ iter.current_pos = IndexOf(subject, c) /\ iter.current_byte = subject.at[c]
         /\ iter.window.end = IndexOf(subject, e) /\ iter.window.to = subject.at[e]
         /\ iter.window.given <=> endpos >= 0
         /\ endpos < 0 => e = Chars(subject)
         /\ iter.current_pos \in 0..LogicalLength(subject)
         /\ iter.current_byte \in 0..Length(subject) /\ iter.window.to \in 0..Length(subject)
         /\ LogicalLength(subject) \in Nat /\ Length(subject) \in Nat
         /\ c < e <=> iter.current_pos < iter.window.end
         /\ c <= e <=> iter.current_byte <= iter.window.to
<1>1. IsSubject(subject) /\ pos \in Int /\ endpos \in Int
  BY DEF InputsFit
<1>2. iter.current_pos = IndexOf(subject, c) /\ iter.current_byte = subject.at[c]
  <2>1. At(iter.current_pos, iter.current_byte) = At(IndexOf(subject, c), subject.at[c])
    BY DEF Stands, PlaceOf
  <2> QED
    BY <2>1 DEF At
<1>3. Range0(subject, pos, endpos).end = IndexOf(subject, e)
  BY DEF Stands
<1>4. ByteOf(subject, IndexOf(subject, e)) = subject.at[e]
  BY <1>1, PlacesAre
<1>5. /\ iter.window.end = IndexOf(subject, e) /\ iter.window.to = subject.at[e]
      /\ iter.window.given <=> endpos >= 0
  BY <1>3, <1>4, WindowIs
<1>6. endpos < 0 => e = Chars(subject)
  <2>1. endpos < 0 => IndexOf(subject, e) = IndexOf(subject, Chars(subject))
    BY <1>1, <1>3, RangeIs, PlacesAre
  <2>2. Chars(subject) \in 0..Chars(subject)
    BY <1>1, PlacesInSubject
  <2> QED
    BY <1>1, <2>1, <2>2, PlacesAre
<1>7. /\ IndexOf(subject, c) \in 0..LogicalLength(subject)
      /\ IndexOf(subject, c) < IndexOf(subject, e) <=> c < e
      /\ LogicalLength(subject) \in Nat
  BY <1>1, PlacesAre
<1>8. /\ subject.at[c] \in 0..Length(subject) /\ subject.at[e] \in 0..Length(subject)
      /\ Length(subject) \in Nat
      /\ subject.at[e] < subject.at[c] <=> e < c
      /\ Chars(subject) \in Nat
  BY <1>1, PlacesInSubject
<1>9. c <= e <=> subject.at[c] <= subject.at[e]
  BY <1>8
<1> QED
  BY <1>2, <1>5, <1>6, <1>7, <1>8, <1>9

\* The checks at the retry label never end an iteration that goes on.
LEMMA GoesOn ==
  ASSUME InputsFit, IterFits, NEW c \in 0..Chars(subject), NEW e \in 0..Chars(subject), Stands(c, e),
         ~ iter.exhausted
  PROVE  ~ Ended /\ c <= e
<1>1. c <= e
  BY DEF Stands
<1>2. IsSubject(subject)
  BY DEF InputsFit
<1>3. /\ IndexOf(subject, e) < IndexOf(subject, c) <=> e < c
      /\ IndexOf(subject, e) \in 0..LogicalLength(subject)
      /\ IndexOf(subject, c) \in 0..LogicalLength(subject)
      /\ Chars(subject) \in Nat
  BY <1>2, PlacesAre, PlacesInSubject
<1>4. /\ iter.current_pos = IndexOf(subject, c) /\ iter.window.end = IndexOf(subject, e)
      /\ iter.current_byte \in 0..Length(subject)
      /\ LogicalLength(subject) \in Nat /\ Length(subject) \in Nat
  BY Standing
<1> QED
  BY <1>1, <1>3, <1>4 DEF Ended

\* What PCRE2 finds.
LEMMA FoundIs ==
  ASSUME InputsFit, IterFits, NEW c \in 0..Chars(subject), NEW e \in 0..Chars(subject), Stands(c, e),
         ~ iter.exhausted
  PROVE  Found = HitAt(subject, pattern, e, c, iter.retry_nonempty)
<1>1. /\ IsSubject(subject) /\ IsPattern(subject, pattern) /\ pos \in Int /\ endpos \in Int
      /\ jit \in JitStates
  BY DEF InputsFit
<1>2. c \in 0..e
  <2>1. c <= e /\ Chars(subject) \in Nat
    BY <1>1, GoesOn, PlacesInSubject
  <2> QED
    BY <2>1
<1>3. /\ iter.current_byte = subject.at[c] /\ iter.window.to = subject.at[e]
      /\ iter.window.given <=> endpos >= 0
      /\ endpos < 0 => e = Chars(subject)
      /\ iter.current_byte \in 0..Length(subject) /\ iter.window.to \in 0..Length(subject)
      /\ Length(subject) \in Nat
      /\ c <= e <=> iter.current_byte <= iter.window.to
  BY Standing
<1>4. subject.at[Chars(subject)] = Length(subject)
  BY <1>1, PlacesInSubject
<1>5. ExecLengthNow = subject.at[e]
  BY <1>1, <1>2, <1>3, <1>4 DEF ExecLengthNow
<1>6. iter.retry_nonempty \in BOOLEAN
  BY DEF IterFits
<1> DEFINE check == ValidatedRange(subject, iter.window)
           may == MayTryJit(subject, iter.window, jit)
<1>7. check \in BOOLEAN /\ may \in BOOLEAN
  BY DEF ValidatedRange, MayTryJit
<1>8. Found = ScanMatch(subject, pattern, subject.at[e], subject.at[c], iter.retry_nonempty,
                        [Plain EXCEPT !.no_utf_check = check], may, jit)
  BY <1>3, <1>5 DEF Found, MatchOptions
<1> HIDE DEF check, may
<1> QED
  BY <1>1, <1>2, <1>6, <1>7, <1>8, ScanFinds

\* A range that cuts a character: the interpreter, which checks the encoding.
LEMMA RefusedIs ==
  ASSUME InputsFit, IterFits, ~ InRange, NothingDone, ~ Ended
  PROVE  Found = UtfError
<1>1. /\ IsSubject(subject) /\ FitsItsKind(subject) /\ pos \in Int /\ endpos \in Int
  BY DEF InputsFit
<1>2. subject.kind = "utf"
  BY <1>1, MostlySound DEF InRange
<1> DEFINE r == Range0(subject, pos, endpos)
<1>3. /\ r.pos \in 0..Length(subject) /\ r.end \in 0..Length(subject)
      /\ endpos < 0 => r.end = Length(subject)
      /\ Length(subject) \in Nat
      /\ ByteOf(subject, r.pos) = r.pos /\ ByteOf(subject, r.end) = r.end
  BY <1>1, <1>2, RangeIs, PlacesInSubject DEF LogicalLength, ByteOf
<1>4. ~ (r.pos \in Boundaries(subject) /\ r.end \in Boundaries(subject))
  BY <1>3 DEF InRange, Sound
<1>5. 0 \in Boundaries(subject) /\ Length(subject) \in Boundaries(subject)
  <2>1. /\ 0 \in 0..Chars(subject) /\ Chars(subject) \in 0..Chars(subject)
        /\ subject.at[0] = 0 /\ subject.at[Chars(subject)] = Length(subject)
    BY <1>1, PlacesInSubject
  <2>2. subject.at[0] \in Boundaries(subject) /\ subject.at[Chars(subject)] \in Boundaries(subject)
    BY <1>1, <2>1, PlacesInSubject
  <2> QED
    BY <2>1, <2>2
<1>6. /\ iter.window.pos = r.pos /\ iter.window.end = r.end
      /\ iter.window.given <=> endpos >= 0
      /\ iter.window.from = r.pos /\ iter.window.to = r.end
  <2> HIDE DEF r
  <2> QED
    BY <1>3, WindowIs DEF r
<1>7. iter.current_pos = r.pos /\ iter.current_byte = r.pos
  <2> HIDE DEF r
  <2> QED
    BY <1>6 DEF NothingDone
<1> HIDE DEF r
<1>8. ~ ({iter.current_byte, ExecLengthNow} \subseteq Boundaries(subject))
  <2>1. CASE r.pos \notin Boundaries(subject)
    BY <1>7, <2>1
  <2>2. CASE r.end \notin Boundaries(subject)
    <3>1. r.end < Length(subject) /\ endpos >= 0
      BY <1>1, <1>3, <1>5, <2>2
    <3>2. r.pos <= r.end
      BY <1>3, <1>6, <1>7, <3>1 DEF Ended
    <3>3. ExecLengthNow = r.end
      BY <1>3, <1>6, <1>7, <3>1, <3>2 DEF ExecLengthNow
    <3> QED
      BY <2>2, <3>3
  <2> QED
    BY <1>4, <2>1, <2>2
<1>9. ValidatedRange(subject, iter.window) = FALSE
  <2>1. ~ (iter.window.from = 0 /\ iter.window.to = Length(subject))
    BY <1>4, <1>5, <1>6
  <2> QED
    BY <1>2, <2>1 DEF ValidatedRange, SubjectIsBytes
<1>10. MayTryJit(subject, iter.window, jit) = FALSE
  BY <1>2, <1>9 DEF MayTryJit
<1> DEFINE o == [Plain EXCEPT !.no_utf_check = FALSE]
           given == IF iter.retry_nonempty THEN RetryNonempty(o) ELSE o
<1>11. given.no_utf_check = FALSE
  BY DEF Plain, RetryNonempty
<1>12. Found = pcre2_match(subject, pattern, ExecLengthNow, iter.current_byte, given)
  BY <1>9, <1>10 DEF Found, ScanMatch, MatchOptions
<1> HIDE DEF given
<1> QED
  BY <1>8, <1>11, <1>12 DEF pcre2_match


-----------------------------------------------------------------------------
(* The beginning.                                                              *)

LEMMA InputsAtFirst ==
  ASSUME Init
  PROVE  InputsFit
<1>1. PICK kind \in SubjectKinds, text \in Texts :
        /\ FitsKind(kind, text)
        /\ subject = Subject(kind, text)
        /\ \E a \in [0..Len(text) -> Alternatives] :
             /\ \A i \in 0..Len(text) : \A l \in Range(a[i]) : i + l <= Len(text)
             /\ pattern = a
  BY DEF Init
<1>2. kind \in Kinds /\ text \in Seq(Units) /\ Alternatives \subseteq Seq(Nat)
  BY FindIterAssumption
<1>3. IsSubject(subject) /\ subject.kind = kind /\ subject.text = text /\ Chars(subject) = Len(text)
  BY <1>1, <1>2, SubjectIsOne DEF Chars
<1>4. FitsItsKind(subject)
  <2> SUFFICES ASSUME kind \in {"bytes", "ascii"} PROVE OneByteEach(subject)
    BY <1>3 DEF FitsItsKind
  <2>1. Range(text) \subseteq {"a", "A", "-"}
    BY <1>1 DEF FitsKind
  <2>2. ASSUME NEW i \in 1..Len(text) PROVE WidthOf[text[i]] = 1
    <3>1. i \in DOMAIN text
      BY <1>2
    <3>2. text[i] \in {"a", "A", "-"}
      BY <2>1, <3>1 DEF Range
    <3> QED
      BY <3>2 DEF WidthOf, Units
  <2> QED
    BY <1>3, <2>2 DEF OneByteEach
<1>5. IsPattern(subject, pattern)
  <2>1. /\ pattern \in [0..Len(text) -> Alternatives]
        /\ \A i \in 0..Len(text) : \A l \in Range(pattern[i]) : i + l <= Len(text)
    BY <1>1
  <2>2. pattern \in [0..Len(text) -> Seq(Nat)]
    BY <1>2, <2>1
  <2>3. ASSUME NEW i \in 0..Len(text), NEW j \in DOMAIN pattern[i]
        PROVE  i + pattern[i][j] <= Len(text)
    <3>1. pattern[i][j] \in Range(pattern[i])
      BY DEF Range
    <3> QED
      BY <2>1, <3>1
  <2> QED
    BY <1>3, <2>2, <2>3 DEF IsPattern
<1>6. pos \in Int /\ endpos \in Int /\ all = Matches(subject, pattern, pos, endpos) /\ jit \in JitStates
  BY FindIterAssumption DEF Init
<1> QED
  BY <1>3, <1>4, <1>5, <1>6 DEF InputsFit

LEMMA ObjectAtFirst ==
  ASSUME Init
  PROVE  /\ IterFits
         /\ LET w == CreateWindow(subject, pos, endpos)
            IN  /\ iter.current_pos = w.pos /\ iter.current_byte = w.from
                /\ iter.window = w /\ iter.exhausted = w.impossible /\ iter.retry_nonempty = FALSE
                /\ iter.byte_to_index = At(w.pos, w.from) /\ iter.index_to_byte = At(w.pos, w.from)
<1> DEFINE w == CreateWindow(subject, pos, endpos)
           r == Range0(subject, pos, endpos)
<1>1. /\ IsSubject(subject) /\ FitsItsKind(subject) /\ pos \in Int /\ endpos \in Int
  BY InputsAtFirst DEF InputsFit
<1>2. iter = [current_pos |-> w.pos, current_byte |-> w.from, window |-> w,
              exhausted |-> w.impossible, retry_nonempty |-> FALSE,
              byte_to_index |-> At(w.pos, w.from), index_to_byte |-> At(w.pos, w.from)]
  BY DEF Init, Created, At
<1>3. w = [pos |-> r.pos, end |-> r.end, given |-> endpos >= 0,
           impossible |-> endpos >= 0 /\ r.end < r.pos,
           from |-> ByteOf(subject, r.pos), to |-> ByteOf(subject, r.end)]
  BY <1>1, CreatedWindowIs
<1>4. r.pos \in 0..LogicalLength(subject) /\ LogicalLength(subject) \in Nat
  BY <1>1, RangeIs, PlacesAre
<1>5. ByteOf(subject, r.pos) \in Int
  <2>1. CASE subject.kind = "text"
    <3>1. r.pos \in 0..Chars(subject)
      BY <1>4, <2>1 DEF LogicalLength
    <3>2. subject.at \in [0..Chars(subject) -> Nat]
      BY <1>1 DEF IsSubject
    <3> HIDE DEF r
    <3>3. subject.at[r.pos] \in Nat
      BY <3>1, <3>2
    <3>4. ByteOf(subject, r.pos) = subject.at[r.pos]
      BY <2>1 DEF ByteOf
    <3> QED
      BY <3>3, <3>4
  <2>2. CASE subject.kind # "text"
    BY <1>4, <2>2 DEF ByteOf
  <2> QED
    BY <2>1, <2>2
<1> HIDE DEF r
<1>6. w.pos \in Int /\ w.from \in Int
  <2> HIDE DEF w
  <2> QED
    BY <1>3, <1>4, <1>5
<1>7. w.impossible \in BOOLEAN
  <2>1. w.impossible = (endpos >= 0 /\ r.end < r.pos)
    <3> HIDE DEF w
    <3> QED
      BY <1>3
  <2> QED
    BY Zenon, <2>1
<1>8. At(w.pos, w.from) \in Spots
  BY <1>6 DEF At, Spots
<1>9. IterFits
  BY <1>2, <1>6, <1>7, <1>8 DEF IterFits
<1> HIDE DEF w
<1>10. /\ iter.current_pos = w.pos /\ iter.current_byte = w.from
       /\ iter.window = w /\ iter.exhausted = w.impossible /\ iter.retry_nonempty = FALSE
       /\ iter.byte_to_index = At(w.pos, w.from) /\ iter.index_to_byte = At(w.pos, w.from)
  BY <1>2
<1> QED
  BY <1>9, <1>10 DEF w

LEMMA AllStands ==
  ASSUME Init, InRange
  PROVE  /\ CachesArePlaces
         /\ \E c, e \in 0..Chars(subject) : Stands(c, e)
<1> DEFINE r == Range0(subject, pos, endpos)
<1>1. /\ IsSubject(subject) /\ FitsItsKind(subject) /\ IsPattern(subject, pattern)
      /\ pos \in Int /\ endpos \in Int /\ all = Matches(subject, pattern, pos, endpos)
  BY InputsAtFirst DEF InputsFit
<1>2. PICK c, e \in 0..Chars(subject) : r.pos = IndexOf(subject, c) /\ r.end = IndexOf(subject, e)
  BY <1>1, SoundIs DEF InRange
<1>3. ByteOf(subject, r.pos) = subject.at[c] /\ ByteOf(subject, r.end) = subject.at[e]
  <2> HIDE DEF r
  <2> QED
    BY <1>1, <1>2, PlacesAre
<1>4. /\ iter.window.pos = r.pos /\ iter.window.end = r.end
      /\ iter.window.impossible <=> endpos >= 0 /\ r.end < r.pos
      /\ iter.window.from = subject.at[c]
  <2>1. InputsFit /\ IterFits
    BY InputsAtFirst, ObjectAtFirst
  <2>2. /\ iter.window.pos = r.pos /\ iter.window.end = r.end
        /\ iter.window.impossible <=> endpos >= 0 /\ iter.window.end < iter.window.pos
        /\ iter.window.from = ByteOf(subject, r.pos)
    BY <2>1, WindowIs
  <2> HIDE DEF r
  <2> QED
    BY <1>3, <2>2
<1>5. /\ iter.current_pos = r.pos /\ iter.current_byte = subject.at[c]
      /\ iter.exhausted <=> iter.window.impossible
      /\ iter.retry_nonempty = FALSE
      /\ iter.byte_to_index = At(r.pos, subject.at[c]) /\ iter.index_to_byte = At(r.pos, subject.at[c])
  <2> DEFINE w == CreateWindow(subject, pos, endpos)
  <2>1. /\ iter.current_pos = w.pos /\ iter.current_byte = w.from
        /\ iter.window = w /\ iter.exhausted = w.impossible /\ iter.retry_nonempty = FALSE
        /\ iter.byte_to_index = At(w.pos, w.from) /\ iter.index_to_byte = At(w.pos, w.from)
    BY ObjectAtFirst
  <2> HIDE DEF w, r
  <2> QED
    BY <1>4, <2>1
<1>6. At(r.pos, subject.at[c]) = PlaceOf(subject, c)
  <2> HIDE DEF r
  <2> QED
    BY <1>2 DEF PlaceOf
<1>7. CachesArePlaces
  BY <1>5, <1>6 DEF CachesArePlaces
<1>8. yielded = <<>> /\ \A t \in Threads : call[t] = "idle"
  BY DEF Init
<1>9. r.end < r.pos <=> e < c
  <2> HIDE DEF r
  <2> QED
    BY <1>1, <1>2, PlacesAre
<1>10. ~ (r.end < r.pos) <=> c <= e
  BY <1>1, <1>9, PlacesInSubject
<1>11. CharAt(subject, ByteOf(subject, r.pos)) = c /\ CharAt(subject, ByteOf(subject, r.end)) = e
  <2> HIDE DEF r
  <2> QED
    BY <1>1, <1>3, PlacesInSubject
<1>12. all = IF r.end < r.pos THEN <<>> ELSE InBytes(subject, MatchesFrom(pattern, c, e))
  BY <1>1, <1>11 DEF Matches, InRange
<1>13. iter.exhausted <=> r.end < r.pos
  <2>1. endpos < 0 => ~ (r.end < r.pos)
    <3>1. endpos < 0 => r.end = LogicalLength(subject)
      BY <1>1, RangeIs
    <3>2. r.pos \in 0..LogicalLength(subject) /\ LogicalLength(subject) \in Nat
      BY <1>1, RangeIs, PlacesAre
    <3> HIDE DEF r
    <3> QED
      BY <3>1, <3>2
  <2>2. endpos < 0 \/ endpos >= 0
    BY <1>1
  <2> HIDE DEF r
  <2> QED
    BY <1>4, <1>5, <2>1, <2>2
<1> HIDE DEF r
<1>14. iter.exhausted => yielded = all
  BY <1>8, <1>12, <1>13
<1>15. ~ iter.exhausted =>
         /\ c <= e
         /\ all = yielded \o InBytes(subject, Sequel(pattern, e)[<<c, iter.retry_nonempty>>])
  <2> SUFFICES ASSUME ~ iter.exhausted
               PROVE  /\ c <= e
                      /\ all = yielded \o InBytes(subject, Sequel(pattern, e)[<<c, iter.retry_nonempty>>])
    OBVIOUS
  <2>1. c \in 0..e
    BY <1>1, <1>10, <1>13, PlacesInSubject
  <2>2. MatchesFrom(pattern, c, e) = Sequel(pattern, e)[<<c, FALSE>>]
    BY <1>1, <2>1, SequelIs
  <2> DEFINE q == Sequel(pattern, e)[<<c, FALSE>>]
  <2>3. q \in Seq((0..e) \X (0..e))
    <3>1. IsSequel(pattern, e, Sequel(pattern, e))
      BY <1>1, SequelIs
    <3> QED
      BY <2>1, <3>1 DEF IsSequel
  <2>4. q \in Seq((0..Chars(subject)) \X (0..Chars(subject)))
    <3>1. (0..e) \X (0..e) \subseteq (0..Chars(subject)) \X (0..Chars(subject))
      BY <1>1, PlacesInSubject
    <3> HIDE DEF q
    <3> QED
      BY <2>3, <3>1
  <2>5. InBytes(subject, q) \in Seq(Nat \X Nat)
    <3> HIDE DEF q
    <3> QED
      BY <1>1, <2>4, SpansInBytes
  <2>6. all = InBytes(subject, q)
    BY <1>12, <1>13, <2>2
  <2>7. <<>> \o InBytes(subject, q) = InBytes(subject, q)
    <3> HIDE DEF q
    <3> QED
      BY <2>5, ConcatEmptySeq
  <2>8. c <= e
    BY <1>1, <2>1, PlacesInSubject
  <2>9. q = Sequel(pattern, e)[<<c, iter.retry_nonempty>>]
    BY <1>5
  <2> HIDE DEF q
  <2>10. all = yielded \o InBytes(subject, q)
    BY <1>8, <2>6, <2>7
  <2> QED
    BY <2>8, <2>9, <2>10
<1>16. Stands(c, e)
  <2>1. Range0(subject, pos, endpos).end = IndexOf(subject, e)
    BY <1>2 DEF r
  <2>2. At(iter.current_pos, iter.current_byte) = PlaceOf(subject, c)
    BY <1>5, <1>6
  <2> QED
    BY <1>8, <1>14, <1>15, <2>1, <2>2 DEF Stands
<1> QED
  BY <1>7, <1>16

LEMMA StartsRight ==
  ASSUME Init
  PROVE  IInv /\ Sequence!Init
<1>1. InputsFit /\ IterFits
  BY InputsAtFirst, ObjectAtFirst
<1>2. OneAtATime
  <2>1. call = [t \in Threads |-> "idle"] /\ lock = "none" /\ "none" \notin Threads
    BY FindIterAssumption DEF Init, NoThread
  <2> QED
    BY <2>1 DEF OneAtATime
<1>3. yielded = <<>> /\ <<>> \in Seq(Nat \X Nat)
  BY DEF Init
<1>4. ASSUME ~ InRange PROVE NothingDone /\ all = <<>>
  <2>1. all = <<>>
    BY <1>1, <1>4 DEF InputsFit, Matches, InRange
  <2>2. /\ iter.current_pos = iter.window.pos /\ iter.current_byte = iter.window.from
    BY ObjectAtFirst
  <2>3. \A t \in Threads : call[t] = "idle"
    BY DEF Init
  <2> QED
    BY <1>3, <2>1, <2>2, <2>3 DEF NothingDone
<1>5. IInv
  BY <1>1, <1>2, <1>3, <1>4, AllStands DEF IInv
<1>6. iter.exhausted => all = <<>>
  <2>1. CASE InRange
    BY <1>3, <2>1, AllStands DEF Stands
  <2>2. CASE ~ InRange
    BY <1>4, <2>2
  <2> QED
    BY <2>1, <2>2
<1> QED
  BY <1>3, <1>5, <1>6 DEF Sequence!Init


-----------------------------------------------------------------------------
(* The steps.  Each keeps the invariant, and to the one who takes the matches it *)
(* is the next match, the end, or nothing.                                     *)

SequenceStep == Sequence!Next \/ UNCHANGED <<all, yielded, iter.exhausted>>

LEMMA InputsStay ==
  ASSUME IInv, UNCHANGED inputs, jit' \in JitStates
  PROVE  /\ InputsFit'
         /\ subject' = subject /\ pattern' = pattern /\ pos' = pos /\ endpos' = endpos /\ all' = all
         /\ InRange' <=> InRange
<1>1. subject' = subject /\ pattern' = pattern /\ pos' = pos /\ endpos' = endpos /\ all' = all
  BY DEF inputs
<1>2. InputsFit'
  BY <1>1 DEF IInv, InputsFit
<1>3. InRange' <=> InRange
  BY <1>1 DEF InRange
<1> QED
  BY <1>1, <1>2, <1>3

\* Only the call of t moves, and the lock with it.
LEMMA CallMoves ==
  ASSUME OneAtATime, NEW t \in Threads, NEW pc \in {"idle", "scan", "matched", "no match"},
         call' = [call EXCEPT ![t] = pc],
         \/ call[t] = "idle" /\ lock = NoThread /\ lock' = t /\ pc # "idle"
         \/ call[t] # "idle" /\ lock' = lock /\ pc # "idle"
         \/ call[t] # "idle" /\ lock' = NoThread /\ pc = "idle",
         \A u \in Threads : call'[u] \in {"matched", "no match"} => ~ iter.exhausted'
  PROVE  /\ OneAtATime'
         /\ call'[t] = pc /\ \A u \in Threads : u # t => call'[u] = "idle"
<1>1. call \in [Threads -> {"idle", "scan", "matched", "no match"}]
      /\ \A u \in Threads : call[u] # "idle" <=> lock = u
  BY DEF OneAtATime
<1>2. NoThread \notin Threads
  BY FindIterAssumption DEF NoThread
<1>3. call' \in [Threads -> {"idle", "scan", "matched", "no match"}]
  BY <1>1
<1>4. call'[t] = pc /\ \A u \in Threads : u # t => call'[u] = call[u]
  BY <1>1
<1>5. \A u \in Threads : u # t => call[u] = "idle"
  BY <1>1, <1>2
<1>6. \A u \in Threads : call'[u] # "idle" <=> lock' = u
  BY <1>1, <1>2, <1>4, <1>5
<1> QED
  BY <1>3, <1>4, <1>5, <1>6 DEF OneAtATime

\* The object does not move.
LEMMA StandsStill ==
  ASSUME NEW c, NEW e, Stands(c, e), UNCHANGED inputs, iter' = iter, yielded' = yielded,
         \A t \in Threads :
           /\ call'[t] = "matched" =>
                /\ Hit(pattern, e, c, iter.retry_nonempty)
                /\ ovector' = <<subject.at[FirstSpan(pattern, e, <<c, iter.retry_nonempty>>)[1]],
                                subject.at[FirstSpan(pattern, e, <<c, iter.retry_nonempty>>)[2]]>>
           /\ call'[t] = "no match" => ~ Hit(pattern, e, c, iter.retry_nonempty)
  PROVE  Stands(c, e)'
<1>1. subject' = subject /\ pattern' = pattern /\ pos' = pos /\ endpos' = endpos /\ all' = all
  BY DEF inputs
<1> QED
  BY <1>1 DEF Stands

LEMMA EnterKeeps ==
  ASSUME IInv, NEW t \in Threads, Enter(t)
  PROVE  IInv' /\ SequenceStep
<1>1. /\ UNCHANGED inputs /\ jit' = jit /\ iter' = iter /\ yielded' = yielded /\ ovector' = ovector
      /\ call[t] = "idle" /\ lock = NoThread /\ lock' = t /\ call' = [call EXCEPT ![t] = "scan"]
  BY DEF Enter, Goto
<1>2. /\ InputsFit' /\ (InRange' <=> InRange) /\ all' = all
      /\ subject' = subject /\ pattern' = pattern /\ pos' = pos /\ endpos' = endpos
  <2>1. jit' \in JitStates
    BY <1>1 DEF IInv, InputsFit
  <2> QED
    BY <1>1, <2>1, InputsStay
<1>3. IterFits'
  BY <1>1, <1>2 DEF IInv, IterFits
<1>4. call \in [Threads -> {"idle", "scan", "matched", "no match"}]
  BY DEF IInv, OneAtATime
<1>5. OneAtATime' /\ call'[t] = "scan" /\ \A u \in Threads : u # t => call'[u] = "idle"
  <2>1. \A u \in Threads : call'[u] \in {"matched", "no match"} => ~ iter.exhausted'
    BY <1>1, <1>4 DEF IInv, OneAtATime
  <2> QED
    BY <1>1, <2>1, CallMoves DEF IInv
<1>6. \A u \in Threads : call'[u] \in {"idle", "scan"}
  BY <1>5
<1>7. ASSUME InRange PROVE CachesArePlaces' /\ \E c, e \in 0..Chars(subject)' : Stands(c, e)'
  <2>1. CachesArePlaces'
    BY <1>1, <1>2, <1>7 DEF IInv, CachesArePlaces
  <2>2. PICK c, e \in 0..Chars(subject) : Stands(c, e)
    BY <1>7 DEF IInv
  <2>3. Stands(c, e)'
    BY <1>1, <1>6, <2>2, StandsStill
  <2> QED
    BY <1>2, <2>1, <2>3
<1>8. ASSUME ~ InRange PROVE NothingDone'
  BY <1>1, <1>2, <1>6, <1>8 DEF IInv, NothingDone
<1>9. yielded' \in Seq(Nat \X Nat)
  BY <1>1 DEF IInv
<1>10. IInv'
  BY <1>2, <1>3, <1>5, <1>7, <1>8, <1>9 DEF IInv
<1>11. SequenceStep
  BY <1>1, <1>2 DEF SequenceStep
<1> QED
  BY <1>10, <1>11


LEMMA StopKeeps ==
  ASSUME IInv, NEW t \in Threads, StopHere(t)
  PROVE  IInv' /\ SequenceStep
<1>1. /\ UNCHANGED inputs /\ jit' = jit /\ yielded' = yielded /\ ovector' = ovector
      /\ iter' = [iter EXCEPT !.exhausted = TRUE] /\ Ended
      /\ call[t] = "scan" /\ lock' = NoThread /\ call' = [call EXCEPT ![t] = "idle"]
  BY DEF StopHere, Leave, Return
<1>2. /\ InputsFit' /\ (InRange' <=> InRange) /\ all' = all
      /\ subject' = subject /\ pattern' = pattern /\ pos' = pos /\ endpos' = endpos
  <2>1. jit' \in JitStates
    BY <1>1 DEF IInv, InputsFit
  <2> QED
    BY <1>1, <2>1, InputsStay
<1>3. /\ IterFits' /\ iter'.exhausted = TRUE
      /\ iter'.current_pos = iter.current_pos /\ iter'.current_byte = iter.current_byte
      /\ iter'.window = iter.window
      /\ iter'.byte_to_index = iter.byte_to_index /\ iter'.index_to_byte = iter.index_to_byte
  BY <1>1, <1>2 DEF IInv, IterFits
<1>4. OneAtATime' /\ call'[t] = "idle" /\ \A u \in Threads : u # t => call'[u] = "idle"
  <2>1. call \in [Threads -> {"idle", "scan", "matched", "no match"}]
        /\ \A u \in Threads : call[u] # "idle" <=> lock = u
    BY DEF IInv, OneAtATime
  <2>2. \A u \in Threads : call'[u] \in {"matched", "no match"} => ~ iter.exhausted'
    BY <1>1, <2>1
  <2> QED
    BY <1>1, <2>2, CallMoves DEF IInv
<1>5. \A u \in Threads : call'[u] = "idle"
  BY <1>4
<1>6. ASSUME InRange
      PROVE  /\ CachesArePlaces' /\ iter.exhausted
             /\ \E c, e \in 0..Chars(subject)' : Stands(c, e)'
  <2>1. CachesArePlaces'
    BY <1>2, <1>3, <1>6 DEF IInv, CachesArePlaces
  <2>2. PICK c, e \in 0..Chars(subject) : Stands(c, e)
    BY <1>6 DEF IInv
  <2>3. iter.exhausted
    BY <1>1, <2>2, GoesOn DEF IInv
  <2>4. Stands(c, e)'
    BY <1>1, <1>2, <1>3, <1>5, <2>2, <2>3 DEF Stands
  <2> QED
    BY <1>2, <2>1, <2>3, <2>4
<1>7. ASSUME ~ InRange PROVE NothingDone'
  BY <1>1, <1>2, <1>3, <1>5, <1>7 DEF IInv, NothingDone
<1>8. yielded' \in Seq(Nat \X Nat)
  BY <1>1 DEF IInv
<1>9. IInv'
  BY <1>2, <1>3, <1>4, <1>6, <1>7, <1>8 DEF IInv
<1>10. SequenceStep
  <2>1. yielded = all
    <3>1. CASE InRange
      <4>1. PICK c, e \in 0..Chars(subject) : Stands(c, e)
        BY <3>1 DEF IInv
      <4> QED
        BY <1>6, <3>1, <4>1 DEF Stands
    <3>2. CASE ~ InRange
      BY <3>2 DEF IInv, NothingDone
    <3> QED
      BY <3>1, <3>2
  <2>2. Sequence!End
    BY <1>1, <1>2, <1>3, <2>1 DEF Sequence!End
  <2> QED
    BY <2>2 DEF SequenceStep, Sequence!Next
<1> QED
  BY <1>9, <1>10

\* What the call of PCRE2 says.
LEMMA HitSays ==
  ASSUME NEW s, NEW m, NEW e, NEW c, NEW retry
  PROVE  /\ HitAt(s, m, e, c, retry).rc \in {"match", "no match"}
         /\ HitAt(s, m, e, c, retry).rc = "match" <=> Hit(m, e, c, retry)
         /\ Hit(m, e, c, retry) =>
              /\ HitAt(s, m, e, c, retry).from = s.at[FirstSpan(m, e, <<c, retry>>)[1]]
              /\ HitAt(s, m, e, c, retry).to = s.at[FirstSpan(m, e, <<c, retry>>)[2]]
  BY DEF HitAt, Matched, NoMatch, Outcome

LEMMA MatchKeeps ==
  ASSUME IInv, NEW t \in Threads, Match(t)
  PROVE  IInv' /\ SequenceStep
<1>1. /\ UNCHANGED inputs /\ iter' = iter /\ yielded' = yielded
      /\ call[t] = "scan" /\ ~ Ended
      /\ jit' = IF UseJit /\ jit = "refuses" THEN "off" ELSE jit
  BY DEF Match
<1>2. \/ /\ Found.rc = "match" /\ ovector' = <<Found.from, Found.to>>
         /\ call' = [call EXCEPT ![t] = "matched"] /\ lock' = lock
      \/ /\ Found.rc = "no match" /\ ovector' = ovector
         /\ call' = [call EXCEPT ![t] = "no match"] /\ lock' = lock
      \/ /\ Found.rc \notin {"match", "no match"} /\ ovector' = ovector
         /\ call' = [call EXCEPT ![t] = "idle"] /\ lock' = NoThread
  BY DEF Match, Goto, Leave, Return
<1>3. /\ InputsFit' /\ (InRange' <=> InRange) /\ all' = all
      /\ subject' = subject /\ pattern' = pattern /\ pos' = pos /\ endpos' = endpos
  <2>1. jit' \in JitStates
    BY <1>1 DEF IInv, InputsFit, JitStates
  <2> QED
    BY <1>1, <2>1, InputsStay
<1>4. IterFits'
  BY <1>1, <1>3 DEF IInv, IterFits
<1>5. ~ iter.exhausted /\ iter'.exhausted = iter.exhausted
  BY <1>1 DEF Ended
<1>6. PICK pc \in {"matched", "no match", "idle"} :
        /\ call' = [call EXCEPT ![t] = pc]
        /\ pc = "matched" => Found.rc = "match" /\ ovector' = <<Found.from, Found.to>>
        /\ pc = "no match" => Found.rc = "no match"
        /\ pc = "idle" => Found.rc \notin {"match", "no match"}
        /\ lock' = IF pc = "idle" THEN NoThread ELSE lock
  BY <1>2
<1>7. OneAtATime' /\ call'[t] = pc /\ \A u \in Threads : u # t => call'[u] = "idle"
  <2>1. \A u \in Threads : call'[u] \in {"matched", "no match"} => ~ iter.exhausted'
    BY <1>5
  <2>2. pc \in {"idle", "scan", "matched", "no match"}
    OBVIOUS
  <2> QED
    BY <1>1, <1>6, <2>1, <2>2, CallMoves DEF IInv
<1>8. ASSUME InRange
      PROVE  CachesArePlaces' /\ \E c, e \in 0..Chars(subject)' : Stands(c, e)'
  <2>1. CachesArePlaces'
    BY <1>1, <1>3, <1>8 DEF IInv, CachesArePlaces
  <2>2. PICK c, e \in 0..Chars(subject) : Stands(c, e)
    BY <1>8 DEF IInv
  <2>3. Found = HitAt(subject, pattern, e, c, iter.retry_nonempty)
    BY <1>5, <2>2, FoundIs DEF IInv
  <2>4. pc = "matched" =>
          /\ Hit(pattern, e, c, iter.retry_nonempty)
          /\ ovector' = <<subject.at[FirstSpan(pattern, e, <<c, iter.retry_nonempty>>)[1]],
                          subject.at[FirstSpan(pattern, e, <<c, iter.retry_nonempty>>)[2]]>>
    BY <1>6, <2>3, HitSays
  <2>5. pc = "no match" => ~ Hit(pattern, e, c, iter.retry_nonempty)
    BY <1>6, <2>3, HitSays
  <2>6. Stands(c, e)'
    BY <1>1, <1>7, <2>2, <2>4, <2>5, StandsStill
  <2> QED
    BY <1>3, <2>1, <2>6
<1>9. ASSUME ~ InRange PROVE NothingDone'
  <2>1. Found = UtfError
    BY <1>1, <1>9, RefusedIs DEF IInv
  <2>2. pc = "idle"
    BY <1>6, <2>1 DEF UtfError, Outcome
  <2>3. \A u \in Threads : call'[u] = "idle"
    BY <1>7, <2>2
  <2> QED
    BY <1>1, <1>3, <1>9, <2>3 DEF IInv, NothingDone
<1>10. yielded' \in Seq(Nat \X Nat)
  BY <1>1 DEF IInv
<1>11. IInv'
  BY <1>3, <1>4, <1>7, <1>8, <1>9, <1>10 DEF IInv
<1>12. SequenceStep
  BY <1>1, <1>3, <1>5 DEF SequenceStep
<1> QED
  BY <1>11, <1>12


\* A match to be handed out: the l characters from k on.
MatchedAt(c, e, k, l) ==
  /\ Stands(c, e) /\ c \in 0..e /\ k \in c..e /\ k + l \in k..e
  /\ k \in 0..Chars(subject) /\ k + l \in 0..Chars(subject)
  /\ IsFirstSpan(pattern, e, c, iter.retry_nonempty, k, l)
  /\ ovector = <<subject.at[k], subject.at[k + l]>>
  /\ StartOf = PlaceOf(subject, k) /\ EndOf = PlaceOf(subject, k + l)

LEMMA MatchedIs ==
  ASSUME IInv, NEW t \in Threads, call[t] = "matched"
  PROVE  /\ InRange /\ ~ iter.exhausted
         /\ \E c, e, k \in 0..Chars(subject), l \in Nat : MatchedAt(c, e, k, l)
<1>1. InRange
  BY DEF IInv, NothingDone
<1>2. ~ iter.exhausted
  BY DEF IInv, OneAtATime
<1>3. PICK c, e \in 0..Chars(subject) : Stands(c, e)
  BY <1>1 DEF IInv
<1>4. /\ IsSubject(subject) /\ IsPattern(subject, pattern) /\ iter.retry_nonempty \in BOOLEAN
  BY DEF IInv, InputsFit, IterFits
<1>5. c \in 0..e
  <2>1. c <= e /\ Chars(subject) \in Nat
    BY <1>2, <1>3, <1>4, PlacesInSubject DEF Stands
  <2> QED
    BY <2>1
<1>6. /\ Hit(pattern, e, c, iter.retry_nonempty)
      /\ ovector = <<subject.at[FirstSpan(pattern, e, <<c, iter.retry_nonempty>>)[1]],
                     subject.at[FirstSpan(pattern, e, <<c, iter.retry_nonempty>>)[2]]>>
  BY <1>3 DEF Stands
<1>7. StartsFrom(pattern, e, <<c, iter.retry_nonempty>>) # {}
  BY <1>4, <1>5, <1>6, HitsAreStarts
<1>8. PICK k \in c..e, l \in Nat : IsFirstSpan(pattern, e, c, iter.retry_nonempty, k, l)
  BY <1>4, <1>5, <1>7, FirstSpanIs
<1>9. k + l \in k..e /\ k \in 0..Chars(subject) /\ k + l \in 0..Chars(subject)
  BY <1>4, <1>8, PlacesInSubject DEF IsFirstSpan
<1>10. ovector = <<subject.at[k], subject.at[k + l]>>
  BY <1>6, <1>8 DEF IsFirstSpan
<1>11. PICK b \in 0..Chars(subject) : iter.byte_to_index = PlaceOf(subject, b)
  BY <1>1 DEF IInv, CachesArePlaces
<1>12. StartOf = PlaceOf(subject, k)
  <2>1. ovector[1] = subject.at[k]
    BY <1>10
  <2> QED
    BY <1>4, <1>9, <1>11, <2>1, ByteToIndex DEF StartOf
<1>13. EndOf = PlaceOf(subject, k + l)
  <2>1. ovector[2] = subject.at[k + l]
    BY <1>10
  <2>2. finditer_byte_to_index(subject, PlaceOf(subject, k), subject.at[k + l]) = PlaceOf(subject, k + l)
    BY <1>4, <1>9, ByteToIndex
  <2> QED
    BY <1>12, <2>1, <2>2 DEF EndOf
<1>14. MatchedAt(c, e, k, l)
  BY <1>3, <1>5, <1>8, <1>9, <1>10, <1>12, <1>13 DEF MatchedAt
<1> QED
  BY <1>1, <1>2, <1>9, <1>14

\* The matches from the one found on.
LEMMA RestIs ==
  ASSUME IInv, ~ iter.exhausted, NEW c \in 0..Chars(subject), NEW e \in 0..Chars(subject),
         NEW k \in 0..Chars(subject), NEW l \in Nat, MatchedAt(c, e, k, l)
  PROVE  /\ ovector \in Nat \X Nat
         /\ all = Append(yielded, ovector) \o InBytes(subject, Sequel(pattern, e)[<<k + l, l = 0>>])
         /\ Append(yielded, ovector) \in Seq(Nat \X Nat)
         /\ Len(yielded) < Len(all) /\ all[Len(yielded) + 1] = ovector
<1>1. /\ IsSubject(subject) /\ IsPattern(subject, pattern) /\ iter.retry_nonempty \in BOOLEAN
      /\ yielded \in Seq(Nat \X Nat)
  BY DEF IInv, InputsFit, IterFits
<1>2. /\ Stands(c, e) /\ c \in 0..e /\ k \in c..e /\ k + l \in k..e
      /\ k \in 0..Chars(subject) /\ k + l \in 0..Chars(subject)
      /\ IsFirstSpan(pattern, e, c, iter.retry_nonempty, k, l)
      /\ ovector = <<subject.at[k], subject.at[k + l]>>
  BY DEF MatchedAt
<1> DEFINE q == Sequel(pattern, e)[<<k + l, l = 0>>]
<1>3. IsSequel(pattern, e, Sequel(pattern, e))
  BY <1>1, SequelIs
<1>4. k + l \in 0..e /\ (l = 0) \in BOOLEAN /\ Chars(subject) \in Nat
  BY <1>1, <1>2, PlacesInSubject
<1>5. q \in Seq((0..e) \X (0..e))
  BY <1>3, <1>4 DEF IsSequel
<1>6. Sequel(pattern, e)[<<c, iter.retry_nonempty>>] = <<<<k, k + l>>>> \o q
  <2>1. StartsFrom(pattern, e, <<c, iter.retry_nonempty>>) # {}
    BY <1>2 DEF IsFirstSpan
  <2>2. Sequel(pattern, e)[<<c, iter.retry_nonempty>>]
          = <<FirstSpan(pattern, e, <<c, iter.retry_nonempty>>)>>
            \o Sequel(pattern, e)[AfterSpan(pattern, e, <<c, iter.retry_nonempty>>)]
    BY <1>1, <1>2, <1>3, <2>1 DEF IsSequel
  <2>3. /\ FirstSpan(pattern, e, <<c, iter.retry_nonempty>>) = <<k, k + l>>
        /\ AfterSpan(pattern, e, <<c, iter.retry_nonempty>>) = <<k + l, l = 0>>
    BY <1>2 DEF IsFirstSpan
  <2> QED
    BY <2>2, <2>3
<1> HIDE DEF q
<1>7. q \in Seq((0..Chars(subject)) \X (0..Chars(subject)))
  <2>1. (0..e) \X (0..e) \subseteq (0..Chars(subject)) \X (0..Chars(subject))
    BY <1>4
  <2> QED
    BY <1>5, <2>1
<1>8. InBytes(subject, <<<<k, k + l>>>> \o q) = <<ovector>> \o InBytes(subject, q)
  BY <1>1, <1>2, <1>7, FirstSpanInBytes
<1>9. all = yielded \o (<<ovector>> \o InBytes(subject, q))
  BY <1>2, <1>6, <1>8 DEF Stands
<1>10. ovector \in Nat \X Nat
  <2>1. subject.at[k] \in Nat /\ subject.at[k + l] \in Nat
    BY <1>1, <1>2 DEF IsSubject
  <2> QED
    BY <1>2, <2>1
<1>11. InBytes(subject, q) \in Seq(Nat \X Nat)
  BY <1>1, <1>7, SpansInBytes
<1> DEFINE S == Nat \X Nat
           r == InBytes(subject, q)
<1>12. ovector \in S /\ r \in Seq(S) /\ yielded \in Seq(S) /\ all = yielded \o (<<ovector>> \o r)
  BY <1>1, <1>9, <1>10, <1>11
<1> HIDE DEF S, r
<1>13. ComesNext(S, all, yielded, ovector, r)
  BY <1>12 DEF ComesNext
<1>14. /\ all = Append(yielded, ovector) \o r
       /\ Append(yielded, ovector) \in Seq(S)
       /\ Len(yielded) < Len(all)
       /\ all[Len(yielded) + 1] = ovector
  BY <1>13, OneMore
<1> QED
  BY <1>10, <1>14 DEF r, q, S

LEMMA YieldKeeps ==
  ASSUME IInv, NEW t \in Threads, Yield(t)
  PROVE  IInv' /\ SequenceStep
<1>1. /\ UNCHANGED inputs /\ jit' = jit /\ yielded' = Append(yielded, ovector)
      /\ iter' = MovedTo(EndOf.index, ovector[2], EndOf.index = StartOf.index)
      /\ call[t] = "matched" /\ lock' = NoThread /\ call' = [call EXCEPT ![t] = "idle"]
  BY DEF Yield, Leave, Return
<1>2. InRange /\ ~ iter.exhausted
  BY <1>1, MatchedIs
<1>3. PICK c, e, k \in 0..Chars(subject), l \in Nat : MatchedAt(c, e, k, l)
  BY <1>1, MatchedIs
<1>4. /\ InputsFit' /\ (InRange' <=> InRange) /\ all' = all
      /\ subject' = subject /\ pattern' = pattern /\ pos' = pos /\ endpos' = endpos
  <2>1. jit' \in JitStates
    BY <1>1 DEF IInv, InputsFit
  <2> QED
    BY <1>1, <2>1, InputsStay
<1>5. IsSubject(subject)
  BY DEF IInv, InputsFit
<1>6. /\ k \in 0..Chars(subject) /\ k + l \in 0..Chars(subject)
      /\ StartOf = PlaceOf(subject, k) /\ EndOf = PlaceOf(subject, k + l)
      /\ ovector = <<subject.at[k], subject.at[k + l]>>
  BY <1>3 DEF MatchedAt
<1>7. /\ EndOf.index = IndexOf(subject, k + l) /\ StartOf.index = IndexOf(subject, k)
      /\ ovector[2] = subject.at[k + l]
  BY <1>6 DEF PlaceOf, At
<1>8. EndOf.index = StartOf.index <=> l = 0
  <2>1. IndexOf(subject, k + l) = IndexOf(subject, k) <=> k + l = k
    BY <1>5, <1>6, PlacesAre
  <2>2. k + l = k <=> l = 0
    BY <1>5, <1>6, PlacesInSubject
  <2> QED
    BY <1>7, <2>1, <2>2
<1>9. At(EndOf.index, ovector[2]) = PlaceOf(subject, k + l)
  BY <1>7 DEF PlaceOf
<1>10. iter' = [iter EXCEPT !.current_pos = EndOf.index, !.current_byte = ovector[2],
                            !.retry_nonempty = (l = 0),
                            !.byte_to_index = PlaceOf(subject, k + l),
                            !.index_to_byte = PlaceOf(subject, k + l)]
  BY <1>1, <1>8, <1>9 DEF MovedTo
<1>11. EndOf.index \in Int /\ ovector[2] \in Int
  <2>1. IndexOf(subject, k + l) \in 0..LogicalLength(subject) /\ LogicalLength(subject) \in Nat
    BY <1>5, <1>6, PlacesAre
  <2>2. subject.at[k + l] \in 0..Length(subject) /\ Length(subject) \in Nat
    BY <1>5, <1>6, PlacesInSubject
  <2> QED
    BY <1>7, <2>1, <2>2
<1>12. /\ IterFits' /\ iter'.exhausted = iter.exhausted /\ iter'.window = iter.window
       /\ iter'.current_pos = EndOf.index /\ iter'.current_byte = ovector[2]
       /\ iter'.retry_nonempty = (l = 0)
       /\ iter'.byte_to_index = PlaceOf(subject, k + l)
       /\ iter'.index_to_byte = PlaceOf(subject, k + l)
  <2>1. PlaceOf(subject, k + l) \in Spots
    BY <1>9, <1>11 DEF At, Spots
  <2>2. IterFits
    BY DEF IInv
  <2>3. (l = 0) \in BOOLEAN
    OBVIOUS
  <2> DEFINE index == EndOf.index
             byte == ovector[2]
             place == PlaceOf(subject, k + l)
             retry == l = 0
  <2>4. /\ iter' = [iter EXCEPT !.current_pos = index, !.current_byte = byte, !.retry_nonempty = retry,
                                !.byte_to_index = place, !.index_to_byte = place]
        /\ index \in Int /\ byte \in Int /\ place \in Spots /\ retry \in BOOLEAN
    BY <1>10, <1>11, <2>1, <2>3
  <2> HIDE DEF index, byte, place, retry
  <2>5. /\ IterFits' /\ iter'.exhausted = iter.exhausted /\ iter'.window = iter.window
        /\ iter'.current_pos = index /\ iter'.current_byte = byte
        /\ iter'.retry_nonempty = retry
        /\ iter'.byte_to_index = place /\ iter'.index_to_byte = place
    BY <1>4, <2>2, <2>4 DEF IterFits
  <2> QED
    BY <2>5 DEF index, byte, place, retry
<1>13. OneAtATime' /\ call'[t] = "idle" /\ \A u \in Threads : u # t => call'[u] = "idle"
  <2>1. \A u \in Threads : call'[u] \in {"matched", "no match"} => ~ iter.exhausted'
    BY <1>2, <1>12
  <2> QED
    BY <1>1, <2>1, CallMoves DEF IInv
<1>14. /\ all = Append(yielded, ovector) \o InBytes(subject, Sequel(pattern, e)[<<k + l, l = 0>>])
       /\ Append(yielded, ovector) \in Seq(Nat \X Nat)
       /\ Len(yielded) < Len(all) /\ all[Len(yielded) + 1] = ovector
  BY ZenonT(30), <1>2, <1>3, RestIs
<1>15. Stands(k + l, e)'
  <2>1. (Range0(subject, pos, endpos).end = IndexOf(subject, e))'
    BY <1>3, <1>4 DEF MatchedAt, Stands
  <2>2. At(iter'.current_pos, iter'.current_byte) = PlaceOf(subject', k + l)
    BY <1>4, <1>9, <1>12
  <2>3. k + l <= e
    BY <1>3, <1>5, PlacesInSubject DEF MatchedAt
  <2>4. all' = yielded' \o InBytes(subject', Sequel(pattern', e)[<<k + l, iter'.retry_nonempty>>])
    BY <1>1, <1>4, <1>12, <1>14
  <2>5. \A u \in Threads : call'[u] = "idle"
    BY <1>13
  <2> QED
    BY <1>2, <1>12, <2>1, <2>2, <2>3, <2>4, <2>5 DEF Stands
<1>16. CachesArePlaces'
  BY <1>4, <1>6, <1>12 DEF CachesArePlaces
<1>17. \E c1, e1 \in 0..Chars(subject)' : Stands(c1, e1)'
  BY <1>4, <1>6, <1>15
<1>18. IInv'
  BY <1>1, <1>2, <1>4, <1>12, <1>13, <1>14, <1>16, <1>17 DEF IInv
<1>19. SequenceStep
  <2>1. Sequence!Yield
    BY <1>1, <1>2, <1>4, <1>12, <1>14 DEF Sequence!Yield
  <2> QED
    BY <2>1 DEF SequenceStep, Sequence!Next
<1> QED
  BY <1>18, <1>19


LEMMA YieldFailsKeeps ==
  ASSUME IInv, NEW t \in Threads, YieldFails(t)
  PROVE  IInv' /\ SequenceStep
<1>1. /\ UNCHANGED inputs /\ jit' = jit /\ yielded' = yielded
      /\ iter' = [iter EXCEPT !.byte_to_index = EndOf]
      /\ call[t] = "matched" /\ lock' = NoThread /\ call' = [call EXCEPT ![t] = "idle"]
  BY DEF YieldFails, Leave, Return
<1>2. InRange /\ ~ iter.exhausted
  BY <1>1, MatchedIs
<1>3. PICK c, e, k \in 0..Chars(subject), l \in Nat : MatchedAt(c, e, k, l)
  BY <1>1, MatchedIs
<1>4. /\ InputsFit' /\ (InRange' <=> InRange) /\ all' = all
      /\ subject' = subject /\ pattern' = pattern /\ pos' = pos /\ endpos' = endpos
  <2>1. jit' \in JitStates
    BY <1>1 DEF IInv, InputsFit
  <2> QED
    BY <1>1, <2>1, InputsStay
<1>5. IsSubject(subject)
  BY DEF IInv, InputsFit
<1>6. k + l \in 0..Chars(subject) /\ EndOf = PlaceOf(subject, k + l)
  BY <1>3 DEF MatchedAt
<1>7. EndOf \in Spots
  <2>1. IndexOf(subject, k + l) \in 0..LogicalLength(subject) /\ LogicalLength(subject) \in Nat
    BY <1>5, <1>6, PlacesAre
  <2>2. subject.at[k + l] \in 0..Length(subject) /\ Length(subject) \in Nat
    BY <1>5, <1>6, PlacesInSubject
  <2> QED
    BY <1>6, <2>1, <2>2 DEF PlaceOf, At, Spots
<1>8. /\ IterFits' /\ iter'.exhausted = iter.exhausted
      /\ iter'.current_pos = iter.current_pos /\ iter'.current_byte = iter.current_byte
      /\ iter'.retry_nonempty = iter.retry_nonempty
      /\ iter'.byte_to_index = EndOf /\ iter'.index_to_byte = iter.index_to_byte
  BY <1>1, <1>4, <1>7 DEF IInv, IterFits
<1>9. OneAtATime' /\ call'[t] = "idle" /\ \A u \in Threads : u # t => call'[u] = "idle"
  <2>1. \A u \in Threads : call'[u] \in {"matched", "no match"} => ~ iter.exhausted'
    BY <1>2, <1>8
  <2> QED
    BY <1>1, <2>1, CallMoves DEF IInv
<1>10. Stands(c, e)'
  <2>1. \A u \in Threads : call'[u] = "idle"
    BY <1>9
  <2>2. Stands(c, e)
    BY <1>3 DEF MatchedAt
  <2> QED
    BY <1>1, <1>4, <1>8, <2>1, <2>2 DEF Stands
<1>11. CachesArePlaces'
  <2>1. \E i \in 0..Chars(subject) : iter.index_to_byte = PlaceOf(subject, i)
    BY <1>2 DEF IInv, CachesArePlaces
  <2> QED
    BY <1>4, <1>6, <1>8, <2>1 DEF CachesArePlaces
<1>12. yielded' \in Seq(Nat \X Nat)
  BY <1>1 DEF IInv
<1>13. \E c1, e1 \in 0..Chars(subject)' : Stands(c1, e1)'
  BY <1>4, <1>10
<1>14. IInv'
  BY <1>2, <1>4, <1>8, <1>9, <1>11, <1>12, <1>13 DEF IInv
<1>15. SequenceStep
  BY <1>1, <1>4, <1>8 DEF SequenceStep
<1> QED
  BY <1>14, <1>15

\* The step over a character where nothing begins that is not empty.
LEMMA NextPositionIs ==
  ASSUME IInv, InRange, NEW c \in 0..Chars(subject), NEW e \in 0..Chars(subject), Stands(c, e),
         c < Chars(subject)
  PROVE  NextPosition = PlaceOf(subject, c + 1)
<1>1. /\ InputsFit /\ IterFits /\ IsSubject(subject) /\ FitsItsKind(subject)
      /\ subject.kind \in {"bytes", "utf", "ascii", "text"}
  BY DEF IInv, InputsFit, IsSubject, Kinds
<1>2. iter.current_pos = IndexOf(subject, c) /\ iter.current_byte = subject.at[c]
  BY <1>1, Standing
<1>3. c + 1 \in 0..Chars(subject)
  BY <1>1, PlacesInSubject
<1>4. CASE SubjectIsBytes(subject)
  <2>1. subject.kind \in {"bytes", "utf"}
    BY <1>4 DEF SubjectIsBytes
  <2>2. (subject.kind = "bytes") \in BOOLEAN
    OBVIOUS
  <2>3. subject.kind = "bytes" => \A k \in 1..Chars(subject) : WidthOf[subject.text[k]] = 1
    BY <1>1 DEF FitsItsKind, OneByteEach
  <2>4. advance_one_character(subject, subject.at[c], subject.kind = "bytes") = subject.at[c + 1]
    BY <1>1, <2>2, <2>3, StepOverCharacter
  <2> DEFINE byte == advance_one_character(subject, iter.current_byte, subject.kind = "bytes")
  <2>5. NextPosition = At(byte, byte)
    <3>1. subject.kind # "ascii"
      BY <2>1
    <3> QED
      BY Zenon, <1>4, <3>1 DEF NextPosition
  <2>6. byte = subject.at[c + 1]
    <3>1. byte = advance_one_character(subject, subject.at[c], subject.kind = "bytes")
      BY Zenon, <1>2
    <3> QED
      BY Zenon, <2>4, <3>1
  <2> HIDE DEF byte
  <2>7. NextPosition = At(subject.at[c + 1], subject.at[c + 1])
    BY <2>5, <2>6
  <2> QED
    BY <2>1, <2>7 DEF PlaceOf, IndexOf
<1>5. CASE subject.kind = "ascii"
  <2>1. OneByteEach(subject)
    BY <1>1, <1>5 DEF FitsItsKind
  <2>2. subject.at[c] = c /\ subject.at[c + 1] = c + 1
    BY <1>1, <1>3, <2>1, PositionsAreBytes
  <2>3. NextPosition = At(c + 1, c + 1)
    BY <1>2, <1>5, <2>2 DEF NextPosition, SubjectIsBytes, IndexOf
  <2> QED
    BY <1>5, <2>2, <2>3 DEF PlaceOf, IndexOf
<1>6. CASE subject.kind = "text"
  <2>1. PICK i \in 0..Chars(subject) : iter.index_to_byte = PlaceOf(subject, i)
    BY DEF IInv, CachesArePlaces
  <2>2. iter.current_pos + 1 = IndexOf(subject, c + 1)
    BY <1>2, <1>6 DEF IndexOf
  <2>3. finditer_index_to_byte(subject, iter.index_to_byte, iter.current_pos + 1) = PlaceOf(subject, c + 1)
    BY <1>1, <1>3, <2>1, <2>2, IndexToByte
  <2>4. NextPosition = At(iter.current_pos + 1, PlaceOf(subject, c + 1).byte)
    BY <1>6, <2>3 DEF NextPosition, SubjectIsBytes
  <2> QED
    BY <2>2, <2>4 DEF PlaceOf, At
<1> QED
  BY <1>1, <1>4, <1>5, <1>6 DEF SubjectIsBytes

\* The matches that remain where there is none at a character.
LEMMA NoneHere ==
  ASSUME IInv, ~ iter.exhausted, NEW c \in 0..Chars(subject), NEW e \in 0..Chars(subject), Stands(c, e),
         ~ Hit(pattern, e, c, iter.retry_nonempty)
  PROVE  /\ iter.retry_nonempty /\ c < e =>
              all = yielded \o InBytes(subject, Sequel(pattern, e)[<<c + 1, FALSE>>])
         /\ ~ (iter.retry_nonempty /\ c < e) => yielded = all
<1>1. /\ IsSubject(subject) /\ IsPattern(subject, pattern) /\ iter.retry_nonempty \in BOOLEAN
      /\ yielded \in Seq(Nat \X Nat)
  BY DEF IInv, InputsFit, IterFits
<1>2. c \in 0..e /\ Chars(subject) \in Nat
  <2>1. c <= e /\ Chars(subject) \in Nat
    BY <1>1, PlacesInSubject DEF Stands
  <2> QED
    BY <2>1
<1>3. all = yielded \o InBytes(subject, Sequel(pattern, e)[<<c, iter.retry_nonempty>>])
  BY DEF Stands
<1>4. Sequel(pattern, e)[<<c, iter.retry_nonempty>>] = <<>> => yielded = all
  <2> SUFFICES ASSUME Sequel(pattern, e)[<<c, iter.retry_nonempty>>] = <<>> PROVE yielded = all
    OBVIOUS
  <2>1. <<>> \in Seq((0..Chars(subject)) \X (0..Chars(subject)))
    OBVIOUS
  <2>2. InBytes(subject, <<>>) = <<>>
    BY <1>1, <2>1, SpansInBytes
  <2>3. yielded \o <<>> = yielded
    BY <1>1, ConcatEmptySeq
  <2> QED
    BY <1>3, <2>2, <2>3
<1>5. CASE iter.retry_nonempty
  <2>1. iter.retry_nonempty = TRUE
    BY <1>1, <1>5
  <2>2. ~ Hit(pattern, e, c, TRUE)
    BY <2>1
  <2>3. /\ c = e => Sequel(pattern, e)[<<c, TRUE>>] = <<>>
        /\ c < e => Sequel(pattern, e)[<<c, TRUE>>] = Sequel(pattern, e)[<<c + 1, FALSE>>]
    BY <1>1, <1>2, <2>2, NothingHere
  <2>4. c < e \/ c = e
    BY <1>2
  <2>5. c = e => ~ (c < e)
    BY <1>2
  <2> QED
    BY <1>3, <1>4, <2>1, <2>3, <2>4, <2>5
<1>6. CASE ~ iter.retry_nonempty
  <2>1. iter.retry_nonempty = FALSE
    BY <1>1, <1>6
  <2>2. StartsFrom(pattern, e, <<c, FALSE>>) = {}
    BY <2>1 DEF Hit
  <2>3. IsSequel(pattern, e, Sequel(pattern, e))
    BY <1>1, SequelIs
  <2>4. Sequel(pattern, e)[<<c, FALSE>>] = <<>>
    BY <1>2, <2>2, <2>3 DEF IsSequel
  <2> QED
    BY <1>4, <2>1, <2>4
<1> QED
  BY <1>5, <1>6


\* The end of the search is the end of the range.
LEMMA AtEndIs ==
  ASSUME InputsFit, IterFits, NEW c \in 0..Chars(subject), NEW e \in 0..Chars(subject), Stands(c, e)
  PROVE  AtEnd <=> ~ (c < e)
<1>1. /\ iter.current_pos \in 0..LogicalLength(subject) /\ LogicalLength(subject) \in Nat
      /\ iter.current_pos = IndexOf(subject, c) /\ iter.window.end = IndexOf(subject, e)
      /\ iter.window.given <=> endpos >= 0
      /\ endpos < 0 => e = Chars(subject)
      /\ c < e <=> iter.current_pos < iter.window.end
  BY Standing
<1>2. IsSubject(subject) /\ pos \in Int /\ endpos \in Int
  BY DEF InputsFit
<1>3. /\ IndexOf(subject, e) \in 0..LogicalLength(subject)
      /\ IndexOf(subject, Chars(subject)) = LogicalLength(subject)
  BY <1>2, PlacesAre
<1>4. endpos < 0 => iter.window.end = LogicalLength(subject)
  BY <1>1, <1>3
<1>5. endpos < 0 \/ endpos >= 0
  BY <1>2
<1> QED
  BY <1>1, <1>3, <1>4, <1>5 DEF AtEnd

\* Nothing but an empty match could begin here, and the range goes on.
LEMMA StepKeeps ==
  ASSUME IInv, NEW t \in Threads, Missed(t), iter.retry_nonempty, ~ AtEnd
  PROVE  IInv' /\ SequenceStep
<1>1. /\ UNCHANGED inputs /\ jit' = jit /\ yielded' = yielded /\ ovector' = ovector
      /\ iter' = MovedTo(NextPosition.index, NextPosition.byte, FALSE)
      /\ call[t] = "no match" /\ lock' = lock /\ call' = [call EXCEPT ![t] = "scan"]
  BY DEF Missed, Goto
<1>2. InRange /\ ~ iter.exhausted
  BY <1>1 DEF IInv, OneAtATime, NothingDone
<1>3. PICK c, e \in 0..Chars(subject) : Stands(c, e)
  BY <1>2 DEF IInv
<1>4. /\ InputsFit' /\ (InRange' <=> InRange) /\ all' = all
      /\ subject' = subject /\ pattern' = pattern /\ pos' = pos /\ endpos' = endpos
  <2>1. jit' \in JitStates
    BY <1>1 DEF IInv, InputsFit
  <2> QED
    BY <1>1, <2>1, InputsStay
<1>5. IsSubject(subject) /\ InputsFit /\ IterFits /\ OneAtATime
  BY DEF IInv, InputsFit
<1>6. c < e
  BY <1>3, <1>5, AtEndIs
<1>7. Chars(subject) \in Nat /\ c < Chars(subject) /\ c + 1 \in 0..Chars(subject)
  BY <1>5, <1>6, PlacesInSubject
<1>8. NextPosition = PlaceOf(subject, c + 1)
  BY <1>2, <1>3, <1>7, NextPositionIs
<1> DEFINE index == IndexOf(subject, c + 1)
           byte == subject.at[c + 1]
           place == PlaceOf(subject, c + 1)
<1>9. index \in Int /\ byte \in Int /\ place = At(index, byte) /\ place \in Spots
  <2>1. index \in 0..LogicalLength(subject) /\ LogicalLength(subject) \in Nat
    BY <1>5, <1>7, PlacesAre
  <2>2. byte \in 0..Length(subject) /\ Length(subject) \in Nat
    BY <1>5, <1>7, PlacesInSubject
  <2> HIDE DEF index, byte
  <2>3. place = At(index, byte)
    BY DEF PlaceOf, index, byte
  <2> HIDE DEF place
  <2> QED
    BY <2>1, <2>2, <2>3 DEF At, Spots
<1>10. NextPosition.index = index /\ NextPosition.byte = byte
  <2> HIDE DEF index, byte, place
  <2>1. NextPosition = At(index, byte)
    BY <1>8, <1>9 DEF place
  <2> QED
    BY <2>1 DEF At
<1>11. iter' = [iter EXCEPT !.current_pos = index, !.current_byte = byte, !.retry_nonempty = FALSE,
                            !.byte_to_index = place, !.index_to_byte = place]
  <2> HIDE DEF index, byte, place
  <2> QED
    BY <1>1, <1>9, <1>10 DEF MovedTo
<1>12. /\ IterFits' /\ iter'.exhausted = iter.exhausted
       /\ iter'.current_pos = index /\ iter'.current_byte = byte
       /\ iter'.retry_nonempty = FALSE
       /\ iter'.byte_to_index = place /\ iter'.index_to_byte = place
  <2> HIDE DEF index, byte, place
  <2> QED
    BY <1>4, <1>5, <1>9, <1>11 DEF IterFits
<1>13. OneAtATime' /\ call'[t] = "scan" /\ \A u \in Threads : u # t => call'[u] = "idle"
  <2>1. \A u \in Threads : call'[u] \in {"matched", "no match"} => ~ iter.exhausted'
    BY <1>2, <1>12
  <2> QED
    BY <1>1, <1>5, <2>1, CallMoves
<1>14. ~ Hit(pattern, e, c, iter.retry_nonempty)
  BY <1>1, <1>3 DEF Stands
<1>15. all = yielded \o InBytes(subject, Sequel(pattern, e)[<<c + 1, FALSE>>])
  BY <1>2, <1>3, <1>6, <1>14, NoneHere
<1>16. Stands(c + 1, e)'
  <2>1. (Range0(subject, pos, endpos).end = IndexOf(subject, e))'
    BY <1>3, <1>4 DEF Stands
  <2>2. At(iter'.current_pos, iter'.current_byte) = PlaceOf(subject', c + 1)
    BY <1>4, <1>9, <1>12
  <2>3. c + 1 <= e
    BY <1>6, <1>7
  <2>4. all' = yielded' \o InBytes(subject', Sequel(pattern', e)[<<c + 1, iter'.retry_nonempty>>])
    BY <1>1, <1>4, <1>12, <1>15
  <2>5. \A u \in Threads : call'[u] \in {"idle", "scan"}
    BY <1>13
  <2> HIDE DEF index, byte, place
  <2> QED
    BY <1>2, <1>12, <2>1, <2>2, <2>3, <2>4, <2>5 DEF Stands
<1>17. CachesArePlaces'
  BY <1>4, <1>7, <1>12 DEF CachesArePlaces
<1>18. \E c1, e1 \in 0..Chars(subject)' : Stands(c1, e1)'
  BY <1>4, <1>7, <1>16
<1>19. yielded' \in Seq(Nat \X Nat)
  BY <1>1 DEF IInv
<1>20. IInv'
  BY <1>2, <1>4, <1>12, <1>13, <1>17, <1>18, <1>19 DEF IInv
<1>21. SequenceStep
  BY <1>1, <1>4, <1>12 DEF SequenceStep
<1> QED
  BY <1>20, <1>21

\* Nothing from here on: the end.
LEMMA ExhaustKeeps ==
  ASSUME IInv, NEW t \in Threads, Missed(t), ~ (iter.retry_nonempty /\ ~ AtEnd)
  PROVE  IInv' /\ SequenceStep
<1>1. /\ UNCHANGED inputs /\ jit' = jit /\ yielded' = yielded /\ ovector' = ovector
      /\ iter' = [iter EXCEPT !.exhausted = TRUE, !.retry_nonempty = FALSE]
      /\ call[t] = "no match" /\ lock' = NoThread /\ call' = [call EXCEPT ![t] = "idle"]
  BY DEF Missed, Exhaust, Leave, Return
<1>2. InRange /\ ~ iter.exhausted
  BY <1>1 DEF IInv, OneAtATime, NothingDone
<1>3. PICK c, e \in 0..Chars(subject) : Stands(c, e)
  BY <1>2 DEF IInv
<1>4. /\ InputsFit' /\ (InRange' <=> InRange) /\ all' = all
      /\ subject' = subject /\ pattern' = pattern /\ pos' = pos /\ endpos' = endpos
  <2>1. jit' \in JitStates
    BY <1>1 DEF IInv, InputsFit
  <2> QED
    BY <1>1, <2>1, InputsStay
<1>5. IsSubject(subject) /\ InputsFit /\ IterFits /\ OneAtATime
  BY DEF IInv, InputsFit
<1>6. /\ IterFits' /\ iter'.exhausted = TRUE
      /\ iter'.current_pos = iter.current_pos /\ iter'.current_byte = iter.current_byte
      /\ iter'.byte_to_index = iter.byte_to_index /\ iter'.index_to_byte = iter.index_to_byte
  BY <1>1, <1>4, <1>5 DEF IterFits
<1>7. OneAtATime' /\ call'[t] = "idle" /\ \A u \in Threads : u # t => call'[u] = "idle"
  <2>1. call[t] # "idle" /\ \A u \in Threads : u # t => call[u] = "idle"
    <3>1. \A u \in Threads : call[u] # "idle" <=> lock = u
      BY <1>5 DEF OneAtATime
    <3> QED
      BY <1>1, <3>1
  <2>2. call \in [Threads -> {"idle", "scan", "matched", "no match"}]
    BY <1>5 DEF OneAtATime
  <2>3. \A u \in Threads : call'[u] \in {"matched", "no match"} => ~ iter.exhausted'
    BY <1>1, <2>1, <2>2
  <2> QED
    BY <1>1, <1>5, <2>3, CallMoves
<1>8. ~ Hit(pattern, e, c, iter.retry_nonempty)
  BY <1>1, <1>3 DEF Stands
<1>9. yielded = all
  <2>1. ~ (iter.retry_nonempty /\ c < e)
    BY <1>3, <1>5, AtEndIs
  <2> QED
    BY <1>2, <1>3, <1>8, <2>1, NoneHere
<1>10. Stands(c, e)'
  <2>1. \A u \in Threads : call'[u] = "idle"
    BY <1>7
  <2> QED
    BY <1>1, <1>3, <1>4, <1>6, <1>9, <2>1 DEF Stands
<1>11. CachesArePlaces'
  BY <1>2, <1>4, <1>6 DEF IInv, CachesArePlaces
<1>12. \E c1, e1 \in 0..Chars(subject)' : Stands(c1, e1)'
  BY <1>4, <1>10
<1>13. yielded' \in Seq(Nat \X Nat)
  BY <1>1 DEF IInv
<1>14. IInv'
  BY <1>2, <1>4, <1>6, <1>7, <1>11, <1>12, <1>13 DEF IInv
<1>15. SequenceStep
  <2>1. Sequence!End
    BY <1>1, <1>4, <1>6, <1>9 DEF Sequence!End
  <2> QED
    BY <2>1 DEF SequenceStep, Sequence!Next
<1> QED
  BY <1>14, <1>15

LEMMA StepsKeep ==
  ASSUME IInv, [Next]_vars
  PROVE  IInv' /\ SequenceStep
<1>1. CASE UNCHANGED vars
  <2>1. /\ UNCHANGED inputs /\ jit' = jit /\ iter' = iter /\ ovector' = ovector /\ lock' = lock
        /\ call' = call /\ yielded' = yielded /\ all' = all
        /\ subject' = subject /\ pattern' = pattern /\ pos' = pos /\ endpos' = endpos
    BY <1>1 DEF vars, inputs
  <2>2. /\ InputsFit' /\ (InRange' <=> InRange)
    BY <2>1 DEF IInv, InputsFit, InRange
  <2>3. IterFits' /\ OneAtATime' /\ yielded' \in Seq(Nat \X Nat)
    BY <2>1 DEF IInv, IterFits, OneAtATime
  <2>4. ASSUME InRange PROVE CachesArePlaces' /\ \E c, e \in 0..Chars(subject)' : Stands(c, e)'
    <3>1. CachesArePlaces'
      BY <2>1, <2>4 DEF IInv, CachesArePlaces
    <3>2. PICK c, e \in 0..Chars(subject) : Stands(c, e)
      BY <2>4 DEF IInv
    <3>3. Stands(c, e)'
      BY <2>1, <3>2 DEF Stands
    <3> QED
      BY <2>1, <3>1, <3>3
  <2>5. ASSUME ~ InRange PROVE NothingDone'
    BY <2>1, <2>5 DEF IInv, NothingDone
  <2>6. IInv'
    BY <2>2, <2>3, <2>4, <2>5 DEF IInv
  <2> QED
    BY <2>1, <2>6 DEF SequenceStep
<1>2. CASE Next
  <2>1. PICK t \in Threads :
          Enter(t) \/ StopHere(t) \/ Match(t) \/ Yield(t) \/ YieldFails(t) \/ Missed(t)
    BY <1>2 DEF Next
  <2>2. Missed(t) => IInv' /\ SequenceStep
    BY StepKeeps, ExhaustKeeps
  <2> QED
    BY <2>1, <2>2, EnterKeeps, StopKeeps, MatchKeeps, YieldKeeps, YieldFailsKeeps
<1> QED
  BY <1>1, <1>2

LEMMA Inv == Spec => []IInv
<1>1. Init => IInv
  BY StartsRight
<1>2. IInv /\ [Next]_vars => IInv'
  BY StepsKeep
<1> QED
  BY <1>1, <1>2, PTL DEF Spec


-----------------------------------------------------------------------------
(* match, search and fullmatch.                                                *)

\* The range of the other methods in positions and in bytes.
LEMMA WindowFits ==
  ASSUME NEW s, IsSubject(s), FitsItsKind(s), NEW p \in Int, NEW e \in Int
  PROVE  LET r == Range0(s, p, e)
         IN  /\ Window(s, p, e).pos = r.pos /\ Window(s, p, e).end = r.end
             /\ Window(s, p, e).impossible <=> e >= 0 /\ r.end < r.pos
             /\ Window(s, p, e).from = ByteOf(s, r.pos) /\ Window(s, p, e).to = ByteOf(s, r.end)
<1> DEFINE r == Range0(s, p, e)
           Byte(q) == IF s.kind = "text" /\ q # 0 THEN utf8_index_to_offset(s, q) ELSE q
<1>1. Window(s, p, e) = [pos |-> r.pos, end |-> r.end, given |-> e >= 0,
                         impossible |-> e >= 0 /\ r.end < r.pos, from |-> Byte(r.pos),
                         to |-> IF e < 0 THEN Length(s) ELSE Byte(r.end)]
  BY DEF Range0, Window
<1>2. ASSUME NEW q \in 0..LogicalLength(s) PROVE Byte(q) = ByteOf(s, q)
  <2>1. CASE s.kind = "text" /\ q # 0
    <3>1. q \in 0..Chars(s) /\ ByteOf(s, q) = s.at[q]
      BY <2>1 DEF LogicalLength, ByteOf
    <3>2. utf8_index_to_offset(s, q) = s.at[q]
      BY <2>1, <3>1, IndexToOffset
    <3> QED
      BY <2>1, <3>1, <3>2
  <2>2. CASE s.kind = "text" /\ q = 0
    BY <2>2, PlacesInSubject DEF ByteOf
  <2>3. CASE s.kind # "text"
    BY <2>3 DEF ByteOf
  <2> QED
    BY <2>1, <2>2, <2>3
<1>3. r.pos \in 0..LogicalLength(s) /\ r.end \in 0..LogicalLength(s)
      /\ (e < 0 => r.end = LogicalLength(s))
  BY RangeIs
<1>4. ByteOf(s, LogicalLength(s)) = Length(s)
  BY PlacesAre
<1> HIDE DEF r, Byte
<1>5. Byte(r.pos) = ByteOf(s, r.pos) /\ Byte(r.end) = ByteOf(s, r.end)
  BY <1>2, <1>3
<1>6. (IF e < 0 THEN Length(s) ELSE Byte(r.end)) = ByteOf(s, r.end)
  BY <1>3, <1>4, <1>5
<1>7. /\ Window(s, p, e).pos = r.pos /\ Window(s, p, e).end = r.end
      /\ Window(s, p, e).from = ByteOf(s, r.pos) /\ Window(s, p, e).to = ByteOf(s, r.end)
      /\ Window(s, p, e).impossible = (e >= 0 /\ r.end < r.pos)
  BY <1>1, <1>5, <1>6
<1>8. Window(s, p, e).impossible <=> e >= 0 /\ r.end < r.pos
  BY Zenon, <1>7
<1> QED
  BY <1>7, <1>8 DEF r

\* What a search from c to e finds, at c alone or anywhere, and up to e or not.
Fitting(m, e, full, k) ==
  {j \in DOMAIN m[k] : k + m[k][j] <= e /\ (full => k + m[k][j] = e)}
Beginnings(m, c, e, only, full) == {k \in c..e : Fitting(m, e, full, k) # {} /\ (only => k = c)}
SpanAt(s, m, e, full, k) == Matched(s.at[k], s.at[k + m[k][Min(Fitting(m, e, full, k))]])
Finds(s, m, c, e, only, full) ==
  IF Beginnings(m, c, e, only, full) = {} THEN NoMatch
  ELSE SpanAt(s, m, e, full, Min(Beginnings(m, c, e, only, full)))

LEMMA MatchedIsMatch ==
  ASSUME NEW x, NEW y
  PROVE  Matched(x, y).rc = "match" /\ Matched(x, y).from = x /\ Matched(x, y).to = y
  BY DEF Matched, Outcome

LEMMA FirstMatchIs ==
  ASSUME NEW s, NEW m, NEW c, NEW e, NEW o, NEW only, NEW full,
         o.anchored <=> only, o.endanchored <=> full, ~ o.notempty_atstart
  PROVE  FirstMatch(s, m, c, e, o) = Finds(s, m, c, e, only, full)
<1> DEFINE Fits(k) == {j \in DOMAIN m[k] : /\ k + m[k][j] <= e
                                           /\ o.notempty_atstart => ~(k = c /\ m[k][j] = 0)
                                           /\ o.endanchored => k + m[k][j] = e}
           Span(k) == Matched(s.at[k], s.at[k + m[k][Min(Fits(k))]])
           starts == {k \in c..e : Fits(k) # {} /\ (o.anchored => k = c)}
<1>1. FirstMatch(s, m, c, e, o) = IF starts = {} THEN NoMatch ELSE Span(Min(starts))
  BY DEF FirstMatch
<1>2. ASSUME NEW k PROVE Fits(k) = Fitting(m, e, full, k)
  BY Zenon DEF Fitting
<1>3. ASSUME NEW k PROVE Span(k) = SpanAt(s, m, e, full, k)
  <2> HIDE DEF Fits
  <2> QED
    BY <1>2 DEF SpanAt
<1>4. starts = Beginnings(m, c, e, only, full)
  <2> HIDE DEF Fits
  <2> QED
    BY <1>2 DEF Beginnings
<1> HIDE DEF Span, starts
<1> QED
  BY <1>1, <1>3, <1>4 DEF Finds

LEMMA ReferenceIs ==
  ASSUME NEW s, IsSubject(s), NEW m, IsPattern(s, m), NEW p \in Int, NEW q \in Int, NEW mode,
         NEW c \in 0..Chars(s), NEW e \in 0..Chars(s), c <= e,
         Range0(s, p, q).pos = IndexOf(s, c), Range0(s, p, q).end = IndexOf(s, e)
  PROVE  Reference(s, m, p, q, mode) = Finds(s, m, c, e, mode # "search", mode = "fullmatch")
<1> DEFINE r == Range0(s, p, q)
           full == mode = "fullmatch"
           i == CharAt(s, ByteOf(s, r.pos))
           j0 == CharAt(s, ByteOf(s, r.end))
<1>1. i = c /\ j0 = e
  <2>1. ByteOf(s, IndexOf(s, c)) = s.at[c] /\ ByteOf(s, IndexOf(s, e)) = s.at[e]
    BY PlacesAre
  <2>2. CharAt(s, s.at[c]) = c /\ CharAt(s, s.at[e]) = e
    BY PlacesInSubject
  <2> QED
    BY <2>1, <2>2
<1>2. ~ (r.end < r.pos)
  <2>1. /\ IndexOf(s, e) < IndexOf(s, c) <=> e < c
        /\ Chars(s) \in Nat
    BY PlacesAre, PlacesInSubject
  <2> QED
    BY <2>1
<1> DEFINE Fits(k) == {l \in Range(m[k]) : k + l <= j0 /\ (mode = "fullmatch" => k + l = j0)}
           starts == {k \in i..j0 : Fits(k) # {} /\ (mode # "search" => k = i)}
           At1(k) == m[k][Min({j \in DOMAIN m[k] : m[k][j] \in Fits(k)})]
<1>3. Reference(s, m, p, q, mode)
        = IF r.end < r.pos \/ starts = {} THEN NoMatch
          ELSE Matched(s.at[Min(starts)], s.at[Min(starts) + At1(Min(starts))])
  BY DEF Reference
<1>4. ASSUME NEW k
      PROVE  /\ {j \in DOMAIN m[k] : m[k][j] \in Fits(k)} = Fitting(m, e, full, k)
             /\ Fits(k) = {} <=> Fitting(m, e, full, k) = {}
  <2>1. Range(m[k]) = {m[k][j] : j \in DOMAIN m[k]}
    BY DEF Range
  <2>2. Fits(k) = {l \in Range(m[k]) : k + l <= e /\ (full => k + l = e)}
    <3> HIDE DEF i, j0
    <3> QED
      BY <1>1
  <2>3. ASSUME NEW j \in DOMAIN m[k] PROVE m[k][j] \in Fits(k) <=> j \in Fitting(m, e, full, k)
    <3>1. m[k][j] \in Range(m[k])
      BY <2>1
    <3> HIDE DEF Fits, full
    <3> QED
      BY <2>2, <3>1 DEF Fitting
  <2>4. Fitting(m, e, full, k) \subseteq DOMAIN m[k]
    BY DEF Fitting
  <2>5. ASSUME NEW l \in Fits(k) PROVE \E j \in DOMAIN m[k] : m[k][j] = l
    <3> HIDE DEF full
    <3> QED
      BY <2>1, <2>2
  <2> HIDE DEF Fits, full
  <2> QED
    BY <2>3, <2>4, <2>5
<1>5. starts = Beginnings(m, c, e, mode # "search", full)
  <2> HIDE DEF Fits, full, i, j0
  <2> QED
    BY <1>1, <1>4 DEF Beginnings
<1>6. ASSUME NEW k PROVE Matched(s.at[k], s.at[k + At1(k)]) = SpanAt(s, m, e, full, k)
  <2>1. At1(k) = m[k][Min(Fitting(m, e, full, k))]
    <3> HIDE DEF Fits, full
    <3> QED
      BY <1>4
  <2> HIDE DEF At1, full
  <2> QED
    BY <2>1 DEF SpanAt
<1> HIDE DEF At1, starts, full, i, j0, r
<1>7. Reference(s, m, p, q, mode) = Finds(s, m, c, e, mode # "search", full)
  BY <1>2, <1>3, <1>5, <1>6 DEF Finds
<1> QED
  BY <1>7 DEF full

\* What the three modes find.
Searched(s, m, c, e) == Finds(s, m, c, e, FALSE, FALSE)
AtStart(s, m, c, e) == Finds(s, m, c, e, TRUE, FALSE)
InFull(s, m, c, e) == Finds(s, m, c, e, TRUE, TRUE)

LEMMA ModesFind ==
  ASSUME NEW s, NEW m, NEW c, NEW e, NEW mode \in Modes
  PROVE  LET found == Finds(s, m, c, e, mode # "search", mode = "fullmatch")
         IN  /\ mode = "search" => found = Searched(s, m, c, e)
             /\ mode = "match" => found = AtStart(s, m, c, e)
             /\ mode = "fullmatch" => found = InFull(s, m, c, e)
<1> DEFINE only == mode # "search"
           full == mode = "fullmatch"
           found == Finds(s, m, c, e, only, full)
<1>1. ASSUME mode = "search" PROVE found = Searched(s, m, c, e)
  <2>1. only = FALSE /\ full = FALSE
    BY <1>1
  <2> HIDE DEF only, full
  <2> QED
    BY <2>1 DEF Searched
<1>2. ASSUME mode = "match" PROVE found = AtStart(s, m, c, e)
  <2>1. only = TRUE /\ full = FALSE
    BY <1>2
  <2> HIDE DEF only, full
  <2> QED
    BY <2>1 DEF AtStart
<1>3. ASSUME mode = "fullmatch" PROVE found = InFull(s, m, c, e)
  <2>1. only = TRUE /\ full = TRUE
    BY <1>3
  <2> HIDE DEF only, full
  <2> QED
    BY <2>1 DEF InFull
<1> QED
  BY <1>1, <1>2, <1>3

\* A match found without the anchors tells what there is with them, but for a full match
\* where a match that is not full is preferred (jit_anchor_fixup_needed).
LEMMA AnchorsIgnored ==
  ASSUME NEW s, IsSubject(s), NEW m, IsPattern(s, m), NEW e \in 0..Chars(s), NEW c \in 0..e,
         NEW r, r = Searched(s, m, c, e)
  PROVE  /\ r = NoMatch => AtStart(s, m, c, e) = NoMatch /\ InFull(s, m, c, e) = NoMatch
         /\ r # NoMatch => r.rc = "match"
         /\ r # NoMatch /\ r.from # s.at[c] =>
              AtStart(s, m, c, e) = NoMatch /\ InFull(s, m, c, e) = NoMatch
         /\ r # NoMatch /\ r.from = s.at[c] => AtStart(s, m, c, e) = r
         /\ r # NoMatch /\ r.from = s.at[c] /\ r.to = s.at[e] => InFull(s, m, c, e) = r
<1> DEFINE B == Beginnings(m, c, e, FALSE, FALSE)
           A(f) == Beginnings(m, c, e, TRUE, f)
<1>1. B \subseteq c..e /\ B \subseteq Nat /\ Chars(s) \in Nat /\ c \in c..e
  <2>1. B \subseteq c..e
    BY DEF Beginnings
  <2>2. Chars(s) \in Nat
    BY PlacesInSubject
  <2> HIDE DEF B
  <2> QED
    BY <2>1, <2>2
<1>2. ASSUME NEW f, NEW k PROVE Fitting(m, e, f, k) \subseteq Fitting(m, e, FALSE, k)
  BY DEF Fitting
<1>3. ASSUME NEW f PROVE A(f) = IF Fitting(m, e, f, c) = {} THEN {} ELSE {c}
  BY <1>1 DEF Beginnings
<1>4. c \in B <=> Fitting(m, e, FALSE, c) # {}
  BY <1>1 DEF Beginnings
<1>5. ASSUME c \notin B PROVE AtStart(s, m, c, e) = NoMatch /\ InFull(s, m, c, e) = NoMatch
  <2>1. A(FALSE) = {} /\ A(TRUE) = {}
    BY <1>2, <1>3, <1>4, <1>5
  <2> QED
    BY <2>1 DEF Finds, AtStart, InFull
<1>6. NoMatch.rc = "no match"
  BY DEF NoMatch, Outcome
<1>7. CASE B = {}
  <2>1. r = NoMatch
    BY <1>7 DEF Finds, Searched
  <2>2. c \notin B
    BY <1>7
  <2> HIDE DEF B, A
  <2> QED
    BY <1>5, <2>1, <2>2
<1>8. CASE B # {}
  <2> DEFINE k == Min(B)
             l == m[k][Min(Fitting(m, e, FALSE, k))]
  <2>1. k \in B /\ \A x \in B : k <= x
    <3> HIDE DEF B
    <3> QED
      BY <1>1, <1>8, MinOfNumbers
  <2>2. r = SpanAt(s, m, e, FALSE, k)
    BY <1>8 DEF Finds, Searched
  <2>3. r = Matched(s.at[k], s.at[k + l])
    <3> HIDE DEF k
    <3> QED
      BY <2>2 DEF SpanAt
  <2>4. r.rc = "match" /\ r.from = s.at[k] /\ r.to = s.at[k + l]
    <3> DEFINE first == s.at[k]
               last == s.at[k + l]
    <3>1. r = Matched(first, last)
      BY <2>3
    <3> HIDE DEF first, last
    <3>2. Matched(first, last).rc = "match" /\ Matched(first, last).from = first
          /\ Matched(first, last).to = last
      BY MatchedIsMatch
    <3>3. r.rc = "match" /\ r.from = first /\ r.to = last
      BY Zenon, <3>1, <3>2
    <3> QED
      BY <3>3 DEF first, last
  <2>5. k \in c..e /\ k \in 0..Chars(s) /\ c \in 0..Chars(s)
    <3> HIDE DEF B, k
    <3> QED
      BY <1>1, <2>1
  <2>6. r.from = s.at[c] <=> k = c
    <3>1. s.at[k] = s.at[c] <=> k = c
      <4> HIDE DEF k
      <4> QED
        BY <2>5, PlacesInSubject
    <3>2. r.from = s.at[k]
      BY <2>4
    <3> HIDE DEF k
    <3> QED
      BY <3>1, <3>2
  <2>7. r # NoMatch
    <3> HIDE DEF k, l
    <3> QED
      BY <1>6, <2>4
  <2>8. ASSUME k # c PROVE c \notin B
    <3> HIDE DEF B, k
    <3> QED
      BY <1>1, <2>1, <2>5, <2>8
  <2>9. ASSUME k = c PROVE AtStart(s, m, c, e) = r
    <3>1. A(FALSE) = {c}
      <4> HIDE DEF k
      <4> QED
        BY <1>3, <1>4, <2>1, <2>9
    <3>2. Min({c}) = c
      <4>1. {c} \subseteq Int /\ c \in {c} /\ \A x \in {c} : c <= x
        BY <1>1
      <4> QED
        BY <4>1, MinIs
    <3>3. AtStart(s, m, c, e) = SpanAt(s, m, e, FALSE, c)
      BY <3>1, <3>2 DEF Finds, AtStart
    <3> HIDE DEF k
    <3> QED
      BY <2>2, <2>9, <3>3
  <2>10. ASSUME k = c, r.to = s.at[e] PROVE InFull(s, m, c, e) = r
    <3> DEFINE F == Fitting(m, e, FALSE, c)
               G == Fitting(m, e, TRUE, c)
               j == Min(F)
    <3>1. F \subseteq Nat /\ F # {} /\ F \subseteq DOMAIN m[c]
      <4>1. c \in 0..Chars(s)
        BY <2>5
      <4>2. DOMAIN m[c] \subseteq Nat
        BY <4>1 DEF IsPattern
      <4>3. F # {}
        <5> HIDE DEF k
        <5> QED
          BY <1>4, <2>1, <2>10
      <4> QED
        BY <4>2, <4>3 DEF Fitting
    <3>2. j \in F /\ \A x \in F : j <= x
      <4> HIDE DEF F
      <4> QED
        BY <3>1, MinOfNumbers
    <3>3. l = m[c][j]
      <4> HIDE DEF k
      <4> QED
        BY <2>10
    <3>4. m[c][j] \in Nat /\ c + m[c][j] <= e /\ c + m[c][j] \in 0..Chars(s)
      <4>1. j \in DOMAIN m[c] /\ c + m[c][j] <= e
        <5> HIDE DEF j
        <5> QED
          BY <3>2 DEF Fitting
      <4>2. m[c] \in Seq(Nat)
        BY <2>5 DEF IsPattern
      <4>3. m[c][j] \in Nat
        <5> HIDE DEF j
        <5> QED
          BY <4>1, <4>2, ElementOfSeq
      <4> HIDE DEF j
      <4> QED
        BY <1>1, <4>1, <4>3
    <3>5. c + m[c][j] = e
      <4>1. s.at[c + m[c][j]] = s.at[e]
        <5> HIDE DEF j, k, l
        <5> QED
          BY <2>4, <2>10, <3>3
      <4> HIDE DEF j
      <4> QED
        BY <3>4, <4>1, PlacesInSubject
    <3>6. j \in G /\ G \subseteq F
      <4> HIDE DEF j
      <4>1. j \in DOMAIN m[c]
        BY <3>1, <3>2
      <4> QED
        BY <3>4, <3>5, <4>1 DEF Fitting
    <3>7. Min(G) = j
      <4> HIDE DEF F, G, j
      <4>1. G \subseteq Int
        BY <3>1, <3>6
      <4>2. \A x \in G : j <= x
        BY <3>2, <3>6
      <4> QED
        BY <3>6, <4>1, <4>2, MinIs
    <3>8. SpanAt(s, m, e, TRUE, c) = SpanAt(s, m, e, FALSE, c)
      <4> HIDE DEF j
      <4>1. Min(Fitting(m, e, TRUE, c)) = Min(Fitting(m, e, FALSE, c))
        BY <3>7 DEF j
      <4> QED
        BY <4>1 DEF SpanAt
    <3>9. A(TRUE) = {c}
      <4> HIDE DEF j
      <4> QED
        BY <1>3, <3>6
    <3>10. Min({c}) = c
      <4>1. {c} \subseteq Int /\ c \in {c} /\ \A x \in {c} : c <= x
        BY <1>1
      <4> QED
        BY <4>1, MinIs
    <3>11. InFull(s, m, c, e) = SpanAt(s, m, e, TRUE, c)
      BY <3>9, <3>10 DEF Finds, InFull
    <3> HIDE DEF k, F, G, j
    <3> QED
      BY <2>2, <2>10, <3>8, <3>11
  <2> HIDE DEF B, A, k, l
  <2> QED
    BY <1>5, <2>4, <2>6, <2>7, <2>8, <2>9, <2>10
<1> QED
  BY <1>7, <1>8

\* Every match of the pattern begins with the unit u, or its other case.
BeginsWith(s, m, u) ==
  \A k \in 0..Chars(s) : m[k] # <<>> => 0 \notin Range(m[k]) /\ s.text[k + 1] \in Folded(u)

\* What fits at a character where matches begin with a unit is that unit at least.
LEMMA UnitIsThere ==
  ASSUME NEW s, IsSubject(s), NEW m, IsPattern(s, m), NEW u, BeginsWith(s, m, u),
         NEW e \in 0..Chars(s), NEW c \in 0..e, NEW full, NEW k \in c..e, Fitting(m, e, full, k) # {}
  PROVE  k < e /\ k \in 0..Chars(s) - 1 /\ s.text[k + 1] \in Folded(u)
<1>1. Chars(s) \in Nat
  BY PlacesInSubject
<1>2. k \in 0..Chars(s) /\ k \in Nat
  BY <1>1
<1>3. PICK j \in DOMAIN m[k] : k + m[k][j] <= e
  BY DEF Fitting
<1>4. m[k] \in Seq(Nat)
  BY <1>2 DEF IsPattern
<1>5. m[k][j] \in Nat /\ m[k] # <<>>
  <2>1. m[k][j] \in Nat
    BY <1>3, <1>4, ElementOfSeq
  <2>2. DOMAIN m[k] # {}
    BY <1>3
  <2> QED
    BY <2>1, <2>2
<1>6. 0 \notin Range(m[k]) /\ s.text[k + 1] \in Folded(u)
  BY <1>2, <1>5 DEF BeginsWith
<1>7. m[k][j] # 0
  BY <1>3, <1>6 DEF Range
<1> QED
  BY <1>1, <1>2, <1>3, <1>5, <1>6, <1>7

\* The scan for the first unit gives up only where there is no match.
LEMMA PrescanIsRight ==
  ASSUME NEW s, IsSubject(s), NEW m, IsPattern(s, m), NEW u, BeginsWith(s, m, u),
         NEW e \in 0..Chars(s), NEW c \in 0..e, NEW w, w.from = s.at[c], w.to = s.at[e],
         NEW mode, PrescanFails(s, w, mode, u), NEW full
  PROVE  Finds(s, m, c, e, mode # "search", full) = NoMatch
<1> DEFINE only == mode # "search"
           units == {s.text[i] : i \in {j \in 1..Chars(s) : w.from <= s.at[j - 1] /\ s.at[j - 1] < w.to}}
           leading == {s.text[i] : i \in {j \in 1..Chars(s) : s.at[j - 1] = w.from}}
<1>1. \/ w.from >= w.to
      \/ ~ only /\ Folded(u) \cap units = {}
      \/ only /\ Folded(u) \cap leading = {}
  BY DEF PrescanFails
<1>2. Chars(s) \in Nat /\ Length(s) \in Nat
  BY PlacesInSubject
<1>3. ASSUME NEW k \in Beginnings(m, c, e, only, full) PROVE FALSE
  <2>1. k \in c..e /\ Fitting(m, e, full, k) # {} /\ (only => k = c)
    <3> HIDE DEF only
    <3> QED
      BY <1>3 DEF Beginnings
  <2>2. k < e /\ k \in 0..Chars(s) - 1 /\ s.text[k + 1] \in Folded(u)
    BY <2>1, UnitIsThere
  <2>3. /\ c \in 0..Chars(s) /\ k \in 0..Chars(s) /\ k + 1 \in 1..Chars(s) /\ (k + 1) - 1 = k
    BY <1>2, <2>1, <2>2
  <2>4. /\ s.at[k] < s.at[e] /\ (s.at[c] < s.at[k] \/ c = k)
        /\ s.at[c] \in 0..Length(s) /\ s.at[k] \in 0..Length(s) /\ s.at[e] \in 0..Length(s)
    <3>1. c < k \/ c = k
      BY <1>2, <2>1
    <3> QED
      BY <2>2, <2>3, <3>1, PlacesInSubject
  <2>5. s.at[c] <= s.at[k] /\ s.at[c] < s.at[e]
    BY <1>2, <2>4
  <2>6. s.text[k + 1] \in units
    <3>1. w.from <= s.at[(k + 1) - 1] /\ s.at[(k + 1) - 1] < w.to
      BY <2>3, <2>4, <2>5
    <3> QED
      BY <2>3, <3>1
  <2>7. only => s.text[k + 1] \in leading
    <3> SUFFICES ASSUME only PROVE s.text[k + 1] \in leading
      OBVIOUS
    <3>1. s.at[(k + 1) - 1] = w.from
      BY <2>1, <2>3
    <3> QED
      BY <2>3, <3>1
  <2>8. ~ (w.from >= w.to)
    BY <1>2, <2>4, <2>5
  <2> HIDE DEF units, leading, only
  <2> QED
    BY <1>1, <2>2, <2>6, <2>7, <2>8
<1>4. Beginnings(m, c, e, only, full) = {}
  BY <1>3
<1> QED
  BY <1>4 DEF Finds

\* A call of PCRE2 between two characters.
LEMMA CallFinds ==
  ASSUME NEW s, IsSubject(s), NEW m, NEW c \in 0..Chars(s), NEW e \in 0..Chars(s),
         NEW o, NEW only, NEW full, o.anchored <=> only, o.endanchored <=> full, ~ o.notempty_atstart
  PROVE  pcre2_match(s, m, s.at[e], s.at[c], o) = Finds(s, m, c, e, only, full)
<1>1. /\ s.at[c] \in Boundaries(s) /\ s.at[e] \in Boundaries(s)
      /\ CharAt(s, s.at[c]) = c /\ CharAt(s, s.at[e]) = e
  BY PlacesInSubject
<1>2. pcre2_match(s, m, s.at[e], s.at[c], o) = FirstMatch(s, m, c, e, o)
  <2>1. {s.at[c], s.at[e]} \subseteq Boundaries(s)
    BY <1>1
  <2> QED
    BY <1>1, <2>1 DEF pcre2_match
<1> QED
  BY <1>2, FirstMatchIs

\* The options of a call of match, search or fullmatch.
OptionsOf(only, full, check) ==
  [anchored |-> only, endanchored |-> full, notempty_atstart |-> FALSE, no_utf_check |-> check]
MatchOptionSets ==
  [anchored : BOOLEAN, endanchored : BOOLEAN, notempty_atstart : BOOLEAN, no_utf_check : BOOLEAN]

\* The JIT code finds the same, where it takes the options and minds the anchors.
LEMMA JitCallFinds ==
  ASSUME NEW s, IsSubject(s), NEW m, NEW c \in 0..Chars(s), NEW e \in 0..Chars(s),
         NEW o \in MatchOptionSets, ~ o.notempty_atstart,
         NEW state, state \notin {"refuses", "ignores anchors"}
  PROVE  pcre2_jit_match(s, m, s.at[e], s.at[c], o, state) = pcre2_match(s, m, s.at[e], s.at[c], o)
<1> DEFINE given == [o EXCEPT !.no_utf_check = TRUE]
<1>1. pcre2_jit_match(s, m, s.at[e], s.at[c], o, state) = pcre2_match(s, m, s.at[e], s.at[c], given)
  BY DEF pcre2_jit_match
<1>2. /\ given.anchored = o.anchored /\ given.endanchored = o.endanchored
      /\ given.notempty_atstart = o.notempty_atstart
  BY DEF MatchOptionSets
<1>3. /\ s.at[c] \in Boundaries(s) /\ s.at[e] \in Boundaries(s)
      /\ CharAt(s, s.at[c]) = c /\ CharAt(s, s.at[e]) = e
  BY PlacesInSubject
<1> HIDE DEF given
<1>4. FirstMatch(s, m, c, e, given) = FirstMatch(s, m, c, e, o)
  <2> DEFINE only == o.anchored
             full == o.endanchored
  <2>1. /\ o.anchored <=> only
        /\ o.endanchored <=> full
        /\ given.anchored <=> only
        /\ given.endanchored <=> full
        /\ ~ given.notempty_atstart
    BY Zenon, <1>2
  <2> HIDE DEF only, full
  <2>2. FirstMatch(s, m, c, e, given) = Finds(s, m, c, e, only, full)
    BY <2>1, FirstMatchIs
  <2>3. FirstMatch(s, m, c, e, o) = Finds(s, m, c, e, only, full)
    BY <2>1, FirstMatchIs
  <2> QED
    BY <2>2, <2>3
<1>5. ASSUME NEW options
      PROVE  pcre2_match(s, m, s.at[e], s.at[c], options) = FirstMatch(s, m, c, e, options)
  <2>1. {s.at[c], s.at[e]} \subseteq Boundaries(s)
    BY <1>3
  <2> QED
    BY <1>3, <2>1 DEF pcre2_match
<1> QED
  BY <1>1, <1>4, <1>5

\* Where it ignores the anchors it searches.
LEMMA JitCallSearches ==
  ASSUME NEW s, IsSubject(s), NEW m, NEW c \in 0..Chars(s), NEW e \in 0..Chars(s),
         NEW o \in MatchOptionSets, ~ o.notempty_atstart
  PROVE  pcre2_jit_match(s, m, s.at[e], s.at[c], o, "ignores anchors") = Searched(s, m, c, e)
<1> DEFINE kept == [o EXCEPT !.anchored = FALSE, !.endanchored = FALSE]
           given == [kept EXCEPT !.no_utf_check = TRUE]
           no == FALSE
<1>1. pcre2_jit_match(s, m, s.at[e], s.at[c], o, "ignores anchors")
        = pcre2_match(s, m, s.at[e], s.at[c], given)
  BY DEF pcre2_jit_match
<1>2. /\ given.anchored = FALSE /\ given.endanchored = FALSE
      /\ given.notempty_atstart = o.notempty_atstart
  BY DEF MatchOptionSets
<1>3. /\ given.anchored <=> no
      /\ given.endanchored <=> no
      /\ ~ given.notempty_atstart
  <2> HIDE DEF given
  <2> QED
    BY Zenon, <1>2
<1> HIDE DEF given, no
<1>4. pcre2_match(s, m, s.at[e], s.at[c], given) = Finds(s, m, c, e, no, no)
  BY <1>3, CallFinds
<1> QED
  BY <1>1, <1>4 DEF no, Searched

\* What Pattern_execute makes of its calls.
ComesOfTheCalls(s, m, u, p, q, mode, jit_state) ==
  LET w     == Window(s, p, q)
      len   == ExecLength(s, w)
      o     == OptionsOf(mode # "search", mode = "fullmatch", ValidatedRange(s, w))
      found == Pattern_execute(s, m, u, p, q, mode, jit_state)
      plain == pcre2_match(s, m, len, w.from, o)
      r     == pcre2_jit_match(s, m, len, w.from, o, jit_state)
      judged == IF jit_state = "ignores anchors" /\ mode # "search" THEN Fixup(w, mode, r)
                ELSE "definitive"
  IN  IF w.impossible \/ PrescanFails(s, w, mode, u) THEN found = NoMatch
      ELSE \/ found = plain
           \/ /\ MayTryJit(s, w, jit_state) /\ r.rc # "bad option"
              /\ \/ judged = "uncertain" /\ found = pcre2_match(s, m, w.to, w.from, o)
                 \/ judged = "no match" /\ found = NoMatch
                 \/ judged \notin {"uncertain", "no match"} /\ found = r

LEMMA ExecutionComesOfTheCalls ==
  ASSUME NEW s, NEW m, NEW u, NEW p, NEW q, NEW mode, NEW state
  PROVE  ComesOfTheCalls(s, m, u, p, q, mode, state)
<1> DEFINE w     == Window(s, p, q)
           len   == ExecLength(s, w)
           o     == ExecOptions(s, w, mode)
           found == Pattern_execute(s, m, u, p, q, mode, state)
           plain == pcre2_match(s, m, len, w.from, o)
           tried == MayTryJit(s, w, state)
           code  == pcre2_jit_match(s, m, len, w.from, o, state)
           r     == IF tried THEN code ELSE Undefined
           judged == IF state = "ignores anchors" /\ mode # "search" THEN Fixup(w, mode, r)
                     ELSE "definitive"
           gone   == w.impossible \/ PrescanFails(s, w, mode, u)
           needed == InterpreterNeeded(state, tried, r)
           again  == pcre2_match(s, m, w.to, w.from, o)
<1>1. o = OptionsOf(mode # "search", mode = "fullmatch", ValidatedRange(s, w))
  <2> DEFINE only  == mode # "search"
             full  == mode = "fullmatch"
             check == ValidatedRange(s, w)
  <2>1. only \in BOOLEAN /\ full \in BOOLEAN /\ check \in BOOLEAN
    BY DEF ValidatedRange
  <2>2. o = [[Plain EXCEPT !.no_utf_check = check] EXCEPT !.anchored = only, !.endanchored = full]
    BY Zenon DEF ExecOptions, MatchOptions
  <2> HIDE DEF only, full, check, o, w
  <2>3. o = OptionsOf(only, full, check)
    BY <2>1, <2>2 DEF Plain, OptionsOf
  <2> QED
    BY Zenon, <2>3 DEF only, full, check, o, w
<1>2. found = CASE gone -> NoMatch
                [] ~ gone -> CASE needed -> plain
                               [] ~ needed /\ judged = "uncertain" -> again
                               [] ~ needed /\ judged = "no match" -> NoMatch
                               [] OTHER -> r
  BY Zenon DEF Pattern_execute
<1>3. needed <=> ~ tried \/ r.rc = "bad option"
  BY Zenon DEF InterpreterNeeded
<1>4. tried => r = code
  BY Zenon
<1> DEFINE option == OptionsOf(mode # "search", mode = "fullmatch", ValidatedRange(s, w))
           plain0 == pcre2_match(s, m, len, w.from, option)
           code0  == pcre2_jit_match(s, m, len, w.from, option, state)
           again0 == pcre2_match(s, m, w.to, w.from, option)
           judged0 == IF state = "ignores anchors" /\ mode # "search" THEN Fixup(w, mode, code0)
                      ELSE "definitive"
<1>5. plain = plain0 /\ code = code0 /\ again = again0
  <2> HIDE DEF o, w, len
  <2> QED
    BY Zenon, <1>1
<1>6. tried => judged = judged0
  <2> HIDE DEF code, w, tried, code0
  <2> QED
    BY Zenon, <1>5
<1>7. IF gone THEN found = NoMatch
      ELSE \/ found = plain0
           \/ /\ tried /\ code0.rc # "bad option"
              /\ \/ judged0 = "uncertain" /\ found = again0
                 \/ judged0 = "no match" /\ found = NoMatch
                 \/ judged0 \notin {"uncertain", "no match"} /\ found = code0
  <2>1. gone => found = NoMatch
    <3> HIDE DEF gone, needed, judged, r, plain, again, found
    <3> QED
      BY <1>2
  <2>2. ~ gone /\ needed => found = plain
    <3> HIDE DEF gone, needed, judged, r, plain, again, found
    <3> QED
      BY <1>2
  <2>3. ~ gone /\ ~ needed => \/ judged = "uncertain" /\ found = again
                              \/ judged = "no match" /\ found = NoMatch
                              \/ judged \notin {"uncertain", "no match"} /\ found = r
    <3> HIDE DEF gone, needed, judged, r, plain, again, found
    <3> QED
      BY <1>2
  <2> HIDE DEF gone, needed, judged, r, plain, again, found, plain0, code, code0, again0, judged0, tried
  <2> QED
    BY <1>3, <1>4, <1>5, <1>6, <2>1, <2>2, <2>3
<1> HIDE DEF found
<1> QED
  BY Zenon, <1>7 DEF found, ComesOfTheCalls

\* Pattern_execute in a range that cuts no character.
LEMMA ExecuteInRange ==
  ASSUME NEW s, IsSubject(s), FitsItsKind(s), NEW m, IsPattern(s, m), NEW u,
         u # "none" => BeginsWith(s, m, u), NEW p \in Int, NEW q \in Int, NEW mode \in Modes,
         NEW state \in JitStates, Sound(s, p, q)
  PROVE  Pattern_execute(s, m, u, p, q, mode, state) = Reference(s, m, p, q, mode)
<1> DEFINE w     == Window(s, p, q)
           len   == ExecLength(s, w)
           only  == mode # "search"
           full  == mode = "fullmatch"
           check == ValidatedRange(s, w)
           o     == OptionsOf(only, full, check)
           found == Pattern_execute(s, m, u, p, q, mode, state)
           plain == pcre2_match(s, m, len, w.from, o)
           again == pcre2_match(s, m, w.to, w.from, o)
           r     == pcre2_jit_match(s, m, len, w.from, o, state)
           judged == IF state = "ignores anchors" /\ mode # "search" THEN Fixup(w, mode, r)
                     ELSE "definitive"
           gone   == w.impossible \/ PrescanFails(s, w, mode, u)
<1>1. PICK c, e \in 0..Chars(s) : /\ Range0(s, p, q).pos = IndexOf(s, c)
                                  /\ Range0(s, p, q).end = IndexOf(s, e)
  BY SoundIs
<1>2. /\ w.from = s.at[c] /\ w.to = s.at[e]
      /\ w.impossible <=> q >= 0 /\ e < c
      /\ Range0(s, p, q).end < Range0(s, p, q).pos <=> e < c
  <2>1. /\ ByteOf(s, IndexOf(s, c)) = s.at[c] /\ ByteOf(s, IndexOf(s, e)) = s.at[e]
        /\ IndexOf(s, e) < IndexOf(s, c) <=> e < c
    BY PlacesAre
  <2> HIDE DEF w
  <2> QED
    BY <1>1, <2>1, WindowFits DEF w
<1>3. Chars(s) \in Nat /\ Length(s) \in Nat /\ Length(s) = s.at[Chars(s)]
      /\ s.at[c] \in 0..Length(s) /\ s.at[e] \in 0..Length(s)
      /\ (s.at[e] < s.at[c] <=> e < c)
  BY PlacesInSubject
<1>4. check \in BOOLEAN /\ only \in BOOLEAN /\ full \in BOOLEAN
  BY DEF ValidatedRange
<1>5. IF gone THEN found = NoMatch
      ELSE \/ found = plain
           \/ /\ MayTryJit(s, w, state) /\ r.rc # "bad option"
              /\ \/ judged = "uncertain" /\ found = again
                 \/ judged = "no match" /\ found = NoMatch
                 \/ judged \notin {"uncertain", "no match"} /\ found = r
  <2>1. ComesOfTheCalls(s, m, u, p, q, mode, state)
    BY ExecutionComesOfTheCalls
  <2> QED
    BY Zenon, <2>1 DEF ComesOfTheCalls
<1>6. CASE e < c
  <2>1. q >= 0
    <3>1. IndexOf(s, Chars(s)) = LogicalLength(s) /\ IndexOf(s, c) \in 0..LogicalLength(s)
          /\ LogicalLength(s) \in Nat
      BY PlacesAre
    <3>2. q < 0 => Range0(s, p, q).end = LogicalLength(s)
      BY RangeIs
    <3> QED
      BY <1>1, <1>2, <1>6, <3>1, <3>2
  <2>2. gone
    BY <1>2, <1>6, <2>1
  <2>3. Reference(s, m, p, q, mode) = NoMatch
    BY <1>2, <1>6 DEF Reference
  <2> HIDE DEF gone, found, plain, again, r, judged
  <2> QED
    BY <1>5, <2>2, <2>3 DEF found
<1>7. CASE ~ (e < c)
  <2>1. c \in 0..e /\ c <= e
    BY <1>3, <1>7
  <2> DEFINE ref == Finds(s, m, c, e, only, full)
  <2>2. Reference(s, m, p, q, mode) = ref
    BY <1>1, <2>1, ReferenceIs
  <2>3. len = s.at[e]
    <3> HIDE DEF w
    <3> QED
      BY <1>2, <1>3, <1>7 DEF ExecLength
  <2>4. o.anchored = only /\ o.endanchored = full /\ o.notempty_atstart = FALSE
    <3> HIDE DEF only, full, check
    <3> QED
      BY <1>4 DEF OptionsOf
  <2>5. /\ o.anchored <=> only
        /\ o.endanchored <=> full
        /\ ~ o.notempty_atstart
    <3> HIDE DEF o, only, full
    <3> QED
      BY Zenon, <2>4
  <2>6. plain = ref /\ again = ref /\ pcre2_match(s, m, s.at[e], s.at[c], o) = ref
    <3>1. pcre2_match(s, m, s.at[e], s.at[c], o) = ref
      <4> HIDE DEF o, only, full
      <4> QED
        BY <2>5, CallFinds
    <3> HIDE DEF o, ref, len, w
    <3> QED
      BY <1>2, <2>3, <3>1
  <2>7. ASSUME gone PROVE ref = NoMatch
    <3>1. PrescanFails(s, w, mode, u)
      BY <1>2, <1>7, <2>7
    <3>2. u # "none"
      BY <3>1 DEF PrescanFails
    <3>3. BeginsWith(s, m, u)
      BY <3>2
    <3> HIDE DEF w, full
    <3> QED
      BY <1>2, <2>1, <3>1, <3>3, PrescanIsRight
  <2>8. ASSUME r.rc # "bad option" PROVE state # "refuses"
    <3> SUFFICES ASSUME state = "refuses" PROVE FALSE
      OBVIOUS
    <3>1. r = BadOption
      BY DEF pcre2_jit_match
    <3>2. BadOption.rc = "bad option"
      BY DEF BadOption, Outcome
    <3> HIDE DEF r
    <3> QED
      BY <2>8, <3>1, <3>2
  <2>9. /\ mode = "search" => ref = Searched(s, m, c, e)
        /\ mode = "match" => ref = AtStart(s, m, c, e)
        /\ mode = "fullmatch" => ref = InFull(s, m, c, e)
    BY ModesFind
  <2>10. ASSUME state # "refuses"
         PROVE  /\ state # "ignores anchors" => r = ref
                /\ state = "ignores anchors" => r = Searched(s, m, c, e)
    <3>1. r = pcre2_jit_match(s, m, s.at[e], s.at[c], o, state)
      <4> HIDE DEF o, w, len
      <4> QED
        BY <1>2, <2>3
    <3>2. o \in MatchOptionSets
      <4> HIDE DEF only, full, check
      <4> QED
        BY <1>4 DEF OptionsOf, MatchOptionSets
    <3> DEFINE answer == pcre2_jit_match(s, m, s.at[e], s.at[c], o, state)
    <3>3. ASSUME state # "ignores anchors" PROVE answer = pcre2_match(s, m, s.at[e], s.at[c], o)
      <4> HIDE DEF o, only, full
      <4> QED
        BY <2>5, <2>10, <3>2, <3>3, JitCallFinds
    <3>4. ASSUME state = "ignores anchors" PROVE answer = Searched(s, m, c, e)
      <4> HIDE DEF o, only, full
      <4> QED
        BY <2>5, <3>2, <3>4, JitCallSearches
    <3> HIDE DEF r, ref, answer, o
    <3>5. r = answer
      BY <3>1 DEF answer
    <3> QED
      BY <2>6, <3>3, <3>4, <3>5
  <2> HIDE DEF ref
  <2>11. ASSUME r.rc # "bad option", state = "ignores anchors", mode # "search"
         PROVE  /\ Fixup(w, mode, r) = "no match" => ref = NoMatch
                /\ Fixup(w, mode, r) \notin {"uncertain", "no match"} => ref = r
    <3>1. r = Searched(s, m, c, e)
      BY <2>8, <2>10, <2>11
    <3>2. w.from = s.at[c] /\ w.to = s.at[e]
      BY <1>2
    <3> HIDE DEF r, w
    <3>3. /\ r = NoMatch => AtStart(s, m, c, e) = NoMatch /\ InFull(s, m, c, e) = NoMatch
          /\ r # NoMatch => r.rc = "match"
          /\ r # NoMatch /\ r.from # s.at[c] =>
               AtStart(s, m, c, e) = NoMatch /\ InFull(s, m, c, e) = NoMatch
          /\ r # NoMatch /\ r.from = s.at[c] => AtStart(s, m, c, e) = r
          /\ r # NoMatch /\ r.from = s.at[c] /\ r.to = s.at[e] => InFull(s, m, c, e) = r
      BY <2>1, <3>1, AnchorsIgnored
    <3>4. NoMatch.rc # "match"
      BY DEF NoMatch, Outcome
    <3>5. mode \in {"match", "fullmatch"}
      BY <2>11 DEF Modes
    <3>6. /\ Fixup(w, mode, r) = "no match" => r.rc = "match" /\ r.from # s.at[c]
          /\ r.rc = "match" /\ Fixup(w, mode, r) \notin {"uncertain", "no match"} =>
               r.from = s.at[c] /\ (mode = "fullmatch" => r.to = s.at[e])
      BY <3>2 DEF Fixup
    <3> QED
      BY <2>9, <3>3, <3>4, <3>5, <3>6
  <2>12. ASSUME r.rc # "bad option", judged = "no match" PROVE ref = NoMatch
    <3>1. state = "ignores anchors" /\ mode # "search" /\ Fixup(w, mode, r) = "no match"
      <4> HIDE DEF r, w
      <4> QED
        BY <2>12
    <3> HIDE DEF r, w
    <3> QED
      BY <2>11, <2>12, <3>1
  <2>13. ASSUME r.rc # "bad option", judged \notin {"uncertain", "no match"} PROVE ref = r
    <3>1. CASE state # "ignores anchors"
      <4> HIDE DEF r, judged
      <4> QED
        BY <2>8, <2>10, <2>13, <3>1
    <3>2. CASE state = "ignores anchors" /\ mode = "search"
      <4> HIDE DEF r, judged
      <4> QED
        BY <2>8, <2>9, <2>10, <2>13, <3>2
    <3>3. CASE state = "ignores anchors" /\ mode # "search"
      <4> HIDE DEF r, w
      <4> QED
        BY <2>11, <2>13, <3>3
    <3> QED
      BY <3>1, <3>2, <3>3
  <2> HIDE DEF gone, found, plain, again, r, judged
  <2>14. found = ref
    BY <1>5, <2>6, <2>7, <2>12, <2>13
  <2> QED
    BY <2>2, <2>14 DEF found
<1> QED
  BY <1>6, <1>7

\* Pattern_execute in a range that cuts a character.
LEMMA ExecuteOutOfRange ==
  ASSUME NEW s, IsSubject(s), FitsItsKind(s), NEW m, NEW u, NEW p \in Int, NEW q \in Int,
         NEW mode, NEW state \in JitStates, ~ Sound(s, p, q)
  PROVE  Pattern_execute(s, m, u, p, q, mode, state) \in {NoMatch, UtfError}
<1> DEFINE w     == Window(s, p, q)
           len   == ExecLength(s, w)
           o     == OptionsOf(mode # "search", mode = "fullmatch", ValidatedRange(s, w))
           found == Pattern_execute(s, m, u, p, q, mode, state)
           plain == pcre2_match(s, m, len, w.from, o)
           x     == Range0(s, p, q)
<1>1. s.kind = "utf"
  BY MostlySound
<1>2. /\ x.pos \in 0..Length(s) /\ x.end \in 0..Length(s) /\ Length(s) \in Nat
      /\ ByteOf(s, x.pos) = x.pos /\ ByteOf(s, x.end) = x.end
      /\ q < 0 => x.end = Length(s)
  BY <1>1, RangeIs, PlacesInSubject DEF LogicalLength, ByteOf
<1>3. /\ w.from = x.pos /\ w.to = x.end
      /\ w.impossible <=> q >= 0 /\ x.end < x.pos
  <2> HIDE DEF w, x
  <2> QED
    BY <1>2, WindowFits DEF w, x
<1>4. ~ (x.pos \in Boundaries(s) /\ x.end \in Boundaries(s))
  BY <1>2 DEF Sound
<1>5. 0 \in Boundaries(s) /\ Length(s) \in Boundaries(s)
  <2>1. /\ 0 \in 0..Chars(s) /\ Chars(s) \in 0..Chars(s)
        /\ s.at[0] = 0 /\ s.at[Chars(s)] = Length(s)
    BY PlacesInSubject
  <2>2. s.at[0] \in Boundaries(s) /\ s.at[Chars(s)] \in Boundaries(s)
    BY <2>1, PlacesInSubject
  <2> QED
    BY <2>1, <2>2
<1> HIDE DEF x
<1>6. ValidatedRange(s, w) = FALSE /\ ~ MayTryJit(s, w, state)
  <2>1. ~ (w.from = 0 /\ w.to = Length(s))
    <3> HIDE DEF w
    <3> QED
      BY <1>3, <1>4, <1>5
  <2> HIDE DEF w
  <2>2. ValidatedRange(s, w) = FALSE
    BY <1>1, <2>1 DEF ValidatedRange, SubjectIsBytes
  <2>3. ~ MayTryJit(s, w, state)
    BY Zenon, <1>1, <2>2 DEF MayTryJit
  <2> QED
    BY <2>2, <2>3
<1>7. found = NoMatch \/ (~ w.impossible /\ found = plain)
  <2>1. \/ found = NoMatch
        \/ ~ w.impossible /\ (found = plain \/ MayTryJit(s, w, state))
    <3>1. ComesOfTheCalls(s, m, u, p, q, mode, state)
      BY ExecutionComesOfTheCalls
    <3> QED
      BY Zenon, <3>1 DEF ComesOfTheCalls
  <2> HIDE DEF found, plain, w
  <2> QED
    BY <1>6, <2>1
<1>8. ASSUME ~ w.impossible PROVE plain = UtfError
  <2>1. ~ (x.end < x.pos)
    <3>1. q >= 0 \/ q < 0
      OBVIOUS
    <3> HIDE DEF w
    <3> QED
      BY <1>2, <1>3, <1>8, <3>1
  <2>2. len = x.end
    <3> HIDE DEF w
    <3> QED
      BY <1>2, <1>3, <2>1 DEF ExecLength
  <2>3. o.no_utf_check = FALSE
    <3> HIDE DEF w
    <3> QED
      BY <1>6 DEF OptionsOf
  <2>4. ~ ({w.from, len} \subseteq Boundaries(s))
    <3> HIDE DEF w, len
    <3> QED
      BY <1>3, <1>4, <2>2
  <2> HIDE DEF w, len, o
  <2> QED
    BY <2>3, <2>4 DEF pcre2_match
<1> HIDE DEF found, plain, w
<1>9. found \in {NoMatch, UtfError}
  BY <1>7, <1>8
<1> QED
  BY <1>9 DEF found

-----------------------------------------------------------------------------
(* findall.                                                                    *)

\* Where a call of a scan finds something: from c on, k to j, and not nothing on a retry.
HitFrom(s, byte, retry, r) ==
  \E c, k, j \in 0..Chars(s) : /\ byte = s.at[c] /\ r.from = s.at[k] /\ r.to = s.at[j]
                               /\ c <= k /\ k <= j /\ (retry => c < j)

LEMMA CallSays ==
  ASSUME NEW s, IsSubject(s), NEW m, IsPattern(s, m), NEW byte \in 0..Length(s), NEW len \in byte..Length(s),
         NEW retry \in BOOLEAN, NEW check \in BOOLEAN, NEW may \in BOOLEAN, NEW state \in JitStates,
         NEW r, r = ScanMatch(s, m, len, byte, retry, [Plain EXCEPT !.no_utf_check = check], may, state),
         r.rc = "match"
  PROVE  HitFrom(s, byte, retry, r)
<1> DEFINE o == [Plain EXCEPT !.no_utf_check = check]
           given == IF retry THEN RetryNonempty(o) ELSE o
           first == IF may /\ ~retry THEN pcre2_jit_match(s, m, len, byte, given, state) ELSE BadOption
<1>1. r = IF first = BadOption THEN pcre2_match(s, m, len, byte, given) ELSE first
  BY DEF ScanMatch
<1>2. CASE ~ ({byte, len} \subseteq Boundaries(s))
  <2>1. ASSUME NEW x PROVE pcre2_match(s, m, len, byte, x) \in {Undefined, UtfError}
    <3>1. \/ pcre2_match(s, m, len, byte, x) = Undefined
          \/ pcre2_match(s, m, len, byte, x) = UtfError
      BY Zenon, <1>2 DEF pcre2_match
    <3> QED
      BY <3>1
  <2>2. first \in {Undefined, UtfError, BadOption}
    <3>1. CASE may /\ ~ retry /\ state # "refuses"
      <4> DEFINE kept == IF state = "ignores anchors"
                         THEN [given EXCEPT !.anchored = FALSE, !.endanchored = FALSE] ELSE given
                 x == [kept EXCEPT !.no_utf_check = TRUE]
      <4>1. pcre2_jit_match(s, m, len, byte, given, state) = pcre2_match(s, m, len, byte, x)
        BY <3>1 DEF pcre2_jit_match
      <4>2. first = pcre2_match(s, m, len, byte, x)
        <5> HIDE DEF x, given
        <5> QED
          BY Zenon, <3>1, <4>1
      <4> HIDE DEF x, first
      <4> QED
        BY <2>1, <4>2
    <3>2. CASE may /\ ~ retry /\ state = "refuses"
      BY <3>2 DEF pcre2_jit_match
    <3>3. CASE ~ (may /\ ~ retry)
      BY <3>3
    <3> QED
      BY <3>1, <3>2, <3>3
  <2>3. r \in {Undefined, UtfError, BadOption}
    <3> HIDE DEF first, given
    <3> QED
      BY <1>1, <2>1, <2>2
  <2>4. Undefined.rc # "match" /\ UtfError.rc # "match" /\ BadOption.rc # "match"
    BY DEF Undefined, UtfError, BadOption, Outcome
  <2> QED
    BY <2>3, <2>4
<1>3. CASE {byte, len} \subseteq Boundaries(s)
  <2>1. byte \in Boundaries(s) /\ len \in Boundaries(s)
    BY <1>3
  <2>2. PICK c, e \in 0..Chars(s) : s.at[c] = byte /\ s.at[e] = len
    BY <2>1, PlacesInSubject
  <2>3. c \in 0..e /\ Chars(s) \in Nat
    <3>1. Chars(s) \in Nat /\ (s.at[e] < s.at[c] <=> e < c)
      BY PlacesInSubject
    <3>2. ~ (len < byte)
      BY PlacesInSubject
    <3> QED
      BY <2>2, <3>1, <3>2
  <2>4. r = HitAt(s, m, e, c, retry)
    BY <2>2, <2>3, ScanFinds
  <2>5. Hit(m, e, c, retry)
    <3>1. NoMatch.rc # "match"
      BY DEF NoMatch, Outcome
    <3> QED
      BY <2>4, <3>1 DEF HitAt
  <2>6. StartsFrom(m, e, <<c, retry>>) # {}
    BY <2>3, <2>5, HitsAreStarts
  <2>7. PICK k \in c..e, l \in Nat : IsFirstSpan(m, e, c, retry, k, l)
    BY <2>3, <2>6, FirstSpanIs
  <2>8. FirstSpan(m, e, <<c, retry>>) = <<k, k + l>> /\ k + l \in k..e /\ (retry /\ k = c => l # 0)
    BY <2>7 DEF IsFirstSpan
  <2>9. r.from = s.at[k] /\ r.to = s.at[k + l]
    <3>1. r = Matched(s.at[k], s.at[k + l])
      BY <2>4, <2>5, <2>8 DEF HitAt
    <3> QED
      BY <3>1, MatchedIsMatch
  <2>10. /\ k \in 0..Chars(s) /\ k + l \in 0..Chars(s) /\ c <= k /\ k <= k + l
         /\ retry => c < k + l
    BY <2>2, <2>3, <2>8
  <2> QED
    BY <2>2, <2>9, <2>10 DEF HitFrom
<1> QED
  BY <1>2, <1>3

\* The call of a scan, and the range that is scanned.
CallAt(s, m, w, o, state, here) ==
  ScanMatch(s, m, ExecLength(s, w), here[1], here[3], o, MayTryJit(s, w, state), state)
OutOf(w, here) == here[2] > w.end \/ here[1] > w.to
IsScanRange(s, w) ==
  w.to \in 0..Length(s) /\ w.from \in 0..w.to /\ w.end \in 0..LogicalLength(s)

\* The scan of FindallIn, and the equation it satisfies.
ScanOf(s, m, w, o, state, f, here) ==
  LET r == CallAt(s, m, w, o, state, here)
  IN  IF OutOf(w, here) THEN <<>>
      ELSE IF r.rc = "match" THEN <<<<r.from, r.to>>>> \o f[AfterHit(s, here, r)]
      ELSE IF r.rc # "no match" THEN <<r.rc>>
      ELSE IF here[3] /\ here[2] < w.end THEN f[AfterMiss(s, here)] ELSE <<>>
FindallScan(s, m, w, o, state) ==
  CHOOSE scan : scan = [here \in ScanPlaces(s) |-> ScanOf(s, m, w, o, state, scan, here)]

LEMMA FindallIsScan ==
  ASSUME NEW s, NEW m, NEW w, NEW o, NEW state
  PROVE  FindallIn(s, m, w, o, state)
           = IF w.impossible THEN <<>> ELSE FindallScan(s, m, w, o, state)[<<w.from, w.pos, FALSE>>]
  BY DEF FindallIn, FindallScan, ScanOf, CallAt, OutOf

\* How much of the scan is left.
Left(s, w, here) ==
  2 * (Length(s) - here[1]) + 2 * (IF here[2] < w.end THEN w.end - here[2] ELSE 0)
    + (IF here[3] THEN 0 ELSE 1)

LEMMA LeftIs ==
  ASSUME NEW s, IsSubject(s), NEW w, IsScanRange(s, w), NEW here \in ScanPlaces(s)
  PROVE  /\ Left(s, w, here) \in 0..2 * Length(s) + 2 * LogicalLength(s) + 1
         /\ here[1] \in 0..Length(s) /\ here[2] \in Nat /\ here[3] \in BOOLEAN
         /\ s.kind # "text" => here[2] = here[1]
         /\ w.end \in Nat /\ Length(s) \in Nat /\ LogicalLength(s) \in Nat
<1>1. Length(s) \in Nat /\ LogicalLength(s) \in Nat /\ w.end \in 0..LogicalLength(s)
  BY PlacesInSubject, PlacesAre DEF IsScanRange
<1>2. /\ here[1] \in 0..Length(s) /\ here[2] \in Nat /\ here[3] \in BOOLEAN
      /\ s.kind # "text" => here[2] = here[1]
  BY DEF ScanPlaces
<1>3. Left(s, w, here) \in 0..2 * Length(s) + 2 * LogicalLength(s) + 1
  BY <1>1, <1>2 DEF Left
<1> QED
  BY <1>1, <1>2, <1>3

\* A scan goes on where there is less left of it.
LEMMA HitGoesOn ==
  ASSUME NEW s, IsSubject(s), NEW w, IsScanRange(s, w), NEW here \in ScanPlaces(s),
         NEW r, HitFrom(s, here[1], here[3], r)
  PROVE  /\ AfterHit(s, here, r) \in ScanPlaces(s)
         /\ Left(s, w, AfterHit(s, here, r)) < Left(s, w, here)
<1>1. /\ here[1] \in 0..Length(s) /\ here[2] \in Nat /\ here[3] \in BOOLEAN
      /\ s.kind # "text" => here[2] = here[1]
      /\ w.end \in Nat /\ Length(s) \in Nat
  BY LeftIs
<1>2. PICK c, k, j \in 0..Chars(s) : /\ here[1] = s.at[c] /\ r.from = s.at[k] /\ r.to = s.at[j]
                                     /\ c <= k /\ k <= j /\ (here[3] => c < j)
  BY DEF HitFrom
<1>3. /\ s.at[j] \in 0..Length(s) /\ s.at[c] \in 0..Length(s) /\ Chars(s) \in Nat
      /\ s.at[k] = s.at[j] <=> k = j
      /\ s.at[c] < s.at[j] <=> c < j
      /\ s.at[c] = s.at[j] <=> c = j
  BY PlacesInSubject
<1> DEFINE index == IF s.kind # "text" THEN r.to
                    ELSE here[2] + utf8_offset_to_index(s, here[1], r.to - here[1])
           empty == EndsEmpty(r.from, r.to)
<1>4. /\ index \in Nat
      /\ s.kind # "text" => index = s.at[j]
      /\ index >= here[2]
  <2>1. CASE s.kind # "text"
    BY <1>1, <1>2, <1>3, <2>1
  <2>2. CASE s.kind = "text"
    <3>1. utf8_offset_to_index(s, s.at[c], s.at[j] - s.at[c]) = j - c
      BY <1>2, <1>3, OffsetToIndex
    <3> QED
      BY <1>1, <1>2, <1>3, <2>2, <3>1
  <2> QED
    BY <2>1, <2>2
<1>5. empty \in BOOLEAN /\ (empty => k = j)
  BY <1>2, <1>3 DEF EndsEmpty
<1>6. AfterHit(s, here, r) = <<s.at[j], index, empty>>
  BY <1>2 DEF AfterHit
<1> HIDE DEF index, empty
<1>7. <<s.at[j], index, empty>> \in ScanPlaces(s)
  BY <1>3, <1>4, <1>5 DEF ScanPlaces
<1>8. Left(s, w, <<s.at[j], index, empty>>) < Left(s, w, here)
  <2>1. CASE s.at[c] < s.at[j]
    BY <1>1, <1>2, <1>3, <1>4, <1>5, <2>1 DEF Left
  <2>2. CASE s.at[c] = s.at[j]
    <3>1. c = j /\ k = j /\ here[3] = FALSE
      BY <1>1, <1>2, <1>3, <2>2
    <3>2. empty = TRUE
      BY <1>2, <3>1 DEF empty, EndsEmpty
    <3> QED
      BY <1>1, <1>2, <1>3, <1>4, <2>2, <3>1, <3>2 DEF Left
  <2>3. s.at[c] < s.at[j] \/ s.at[c] = s.at[j]
    BY <1>2, <1>3
  <2> QED
    BY <2>1, <2>2, <2>3
<1> QED
  BY <1>6, <1>7, <1>8

LEMMA MissGoesOn ==
  ASSUME NEW s, IsSubject(s), NEW w, IsScanRange(s, w), NEW here \in ScanPlaces(s),
         here[3], here[2] < w.end
  PROVE  /\ AfterMiss(s, here) \in ScanPlaces(s)
         /\ Left(s, w, AfterMiss(s, here)) < Left(s, w, here)
<1>1. /\ here[1] \in 0..Length(s) /\ here[2] \in Nat /\ here[3] = TRUE
      /\ s.kind # "text" => here[2] = here[1]
      /\ w.end \in Nat /\ Length(s) \in Nat /\ w.end <= LogicalLength(s)
  BY LeftIs DEF IsScanRange
<1> DEFINE single == SingleByteSubject(s)
           next_byte == advance_one_character(s, here[1], single)
           index == IF SubjectIsBytes(s) THEN next_byte ELSE here[2] + 1
<1>2. single \in BOOLEAN
  BY DEF SingleByteSubject
<1>3. next_byte \in 0..Length(s) /\ (here[1] < Length(s) => here[1] < next_byte)
  <2> HIDE DEF single
  <2> QED
    BY <1>1, <1>2, StepGoesOn
<1>4. here[1] <= next_byte
  <2> DEFINE b == here[1]
  <2>1. b = Length(s) => next_byte = Length(s)
    BY <1>1 DEF advance_one_character
  <2> HIDE DEF next_byte
  <2> QED
    BY <1>1, <1>3, <2>1
<1>5. s.kind # "text" => here[1] < Length(s) /\ index = next_byte
  <2> SUFFICES ASSUME s.kind # "text" PROVE here[1] < Length(s) /\ index = next_byte
    OBVIOUS
  <2>1. here[1] < Length(s)
    BY <1>1 DEF LogicalLength
  <2>2. CASE SubjectIsBytes(s)
    BY <2>1, <2>2
  <2>3. CASE ~ SubjectIsBytes(s)
    <3>1. s.kind = "ascii"
      BY <2>3 DEF SubjectIsBytes, IsSubject, Kinds
    <3>2. next_byte = here[1] + 1
      BY <1>1, <2>1, <3>1 DEF advance_one_character, SingleByteSubject
    <3> HIDE DEF next_byte
    <3> QED
      BY <1>1, <2>1, <2>3, <3>2
  <2> QED
    BY <2>2, <2>3
<1>6. s.kind = "text" => index = here[2] + 1
  BY DEF SubjectIsBytes
<1>7. AfterMiss(s, here) = <<next_byte, index, FALSE>>
  BY DEF AfterMiss
<1>8. index \in Nat /\ (s.kind # "text" => index = next_byte)
      /\ (s.kind = "text" => index = here[2] + 1)
      /\ (s.kind # "text" => here[1] < next_byte)
  <2> HIDE DEF index, next_byte
  <2> QED
    BY <1>1, <1>3, <1>5, <1>6
<1> HIDE DEF index, next_byte
<1>9. <<next_byte, index, FALSE>> \in ScanPlaces(s)
  BY <1>3, <1>8 DEF ScanPlaces
<1>10. Left(s, w, <<next_byte, index, FALSE>>) < Left(s, w, here)
  <2>1. CASE s.kind = "text"
    BY <1>1, <1>3, <1>4, <1>8, <2>1 DEF Left
  <2>2. CASE s.kind # "text"
    BY <1>1, <1>3, <1>4, <1>8, <2>2 DEF Left
  <2> QED
    BY <2>1, <2>2
<1> QED
  BY <1>7, <1>9, <1>10

\* The scan of the values of findall exists.
LEMMA FindallScanIs ==
  ASSUME NEW s, IsSubject(s), NEW m, IsPattern(s, m), NEW w, IsScanRange(s, w),
         NEW check \in BOOLEAN, NEW o, o = [Plain EXCEPT !.no_utf_check = check], NEW state \in JitStates
  PROVE  \A here \in ScanPlaces(s) :
           FindallScan(s, m, w, o, state)[here]
             = ScanOf(s, m, w, o, state, FindallScan(s, m, w, o, state), here)
<1> DEFINE D == ScanPlaces(s)
           Call(here) == CallAt(s, m, w, o, state, here)
           V == Seq({<<Call(here).from, Call(here).to>> : here \in D} \cup {Call(here).rc : here \in D})
           N == 2 * Length(s) + 2 * LogicalLength(s) + 1
           Finding(here) == ~ OutOf(w, here) /\ Call(here).rc = "match"
           Missing(here) == /\ ~ OutOf(w, here) /\ Call(here).rc # "match" /\ Call(here).rc = "no match"
                           /\ here[3] /\ here[2] < w.end
           Failing(here) == /\ ~ OutOf(w, here) /\ Call(here).rc # "match" /\ Call(here).rc # "no match"
           measure == [here \in D |-> Left(s, w, here)]
           stop == {here \in D : ~ Finding(here) /\ ~ Missing(here)}
           base == [here \in D |-> IF Failing(here) THEN <<Call(here).rc>> ELSE <<>>]
           next == [here \in D |-> IF Finding(here) THEN AfterHit(s, here, Call(here))
                                   ELSE AfterMiss(s, here)]
           add == [p \in D \X V |-> IF Finding(p[1])
                                    THEN <<<<Call(p[1]).from, Call(p[1]).to>>>> \o p[2] ELSE p[2]]
           Goes(f) == f = [here \in D |-> ScanOf(s, m, w, o, state, f, here)]
<1>1. N \in Nat
  BY PlacesInSubject, PlacesAre
<1>2. ASSUME NEW here \in D, Finding(here) PROVE HitFrom(s, here[1], here[3], Call(here))
  <2>1. /\ here[1] \in 0..Length(s) /\ here[3] \in BOOLEAN /\ here[1] <= w.to
        /\ w.to \in 0..Length(s) /\ Length(s) \in Nat
    BY <1>2, LeftIs DEF OutOf, IsScanRange
  <2>2. ExecLength(s, w) = w.to
    BY <2>1 DEF ExecLength, IsScanRange
  <2> DEFINE byte == here[1]
             retry == here[3]
             may == MayTryJit(s, w, state)
             r == Call(here)
  <2>3. may \in BOOLEAN
    BY DEF MayTryJit
  <2>4. r = ScanMatch(s, m, w.to, byte, retry, [Plain EXCEPT !.no_utf_check = check], may, state)
    BY <2>2 DEF CallAt
  <2>5. byte \in 0..Length(s) /\ w.to \in byte..Length(s) /\ retry \in BOOLEAN /\ r.rc = "match"
    BY <1>2, <2>1
  <2> HIDE DEF byte, retry, may, r
  <2>6. HitFrom(s, byte, retry, r)
    BY <2>3, <2>4, <2>5, CallSays
  <2> QED
    BY <2>6 DEF byte, retry, r
<1>3. ASSUME NEW here \in D, here \notin stop
      PROVE  next[here] \in D /\ measure[next[here]] < measure[here]
  <2>1. CASE Finding(here)
    <3>1. next[here] = AfterHit(s, here, Call(here))
      BY <2>1
    <3> DEFINE r == Call(here)
    <3>2. HitFrom(s, here[1], here[3], r)
      <4> HIDE DEF Finding, D
      <4> QED
        BY <1>2, <2>1
    <3> HIDE DEF r
    <3>3. /\ AfterHit(s, here, r) \in ScanPlaces(s)
          /\ Left(s, w, AfterHit(s, here, r)) < Left(s, w, here)
      BY <3>2, HitGoesOn
    <3> HIDE DEF next, Finding, Call
    <3> QED
      BY <3>1, <3>3 DEF r
  <2>2. CASE ~ Finding(here)
    <3>1. next[here] = AfterMiss(s, here) /\ here[3] /\ here[2] < w.end
      <4>1. Missing(here)
        <5> HIDE DEF Finding, Missing, D
        <5> QED
          BY <1>3, <2>2
      <4>2. next[here] = AfterMiss(s, here)
        <5> HIDE DEF Finding
        <5> QED
          BY <2>2
      <4> QED
        BY Zenon, <4>1, <4>2
    <3>2. /\ AfterMiss(s, here) \in ScanPlaces(s)
          /\ Left(s, w, AfterMiss(s, here)) < Left(s, w, here)
      <4> HIDE DEF next, stop
      <4> QED
        BY <3>1, MissGoesOn
    <3> HIDE DEF next, stop
    <3> QED
      BY <3>1, <3>2
  <2> QED
    BY <2>1, <2>2
<1>4. IsStepwise(D, V, N, measure, stop, base, next, add)
  <2>1. measure \in [D -> 0..N]
    <3>1. \A here \in D : Left(s, w, here) \in 0..N
      BY LeftIs
    <3> HIDE DEF D, N
    <3> QED
      BY <3>1
  <2>2. ASSUME NEW here \in D, here \in stop PROVE base[here] \in V
    <3>1. base[here] = IF Failing(here) THEN <<Call(here).rc>> ELSE <<>>
      OBVIOUS
    <3> DEFINE S == {<<Call(x).from, Call(x).to>> : x \in D} \cup {Call(x).rc : x \in D}
    <3>2. Call(here).rc \in S /\ V = Seq(S)
      OBVIOUS
    <3> HIDE DEF base, Failing, Call, D, S, V
    <3>3. <<Call(here).rc>> \in V /\ <<>> \in V
      BY <3>2
    <3> QED
      BY <3>1, <3>3
  <2>4. ASSUME NEW here \in D, NEW v \in V, here \notin stop
        PROVE  add[<<here, v>>] \in V
    <3>1. add[<<here, v>>] = IF Finding(here) THEN <<<<Call(here).from, Call(here).to>>>> \o v ELSE v
      <4> HIDE DEF D, V, stop, Finding, Call
      <4> QED
        OBVIOUS
    <3>2. <<Call(here).from, Call(here).to>>
            \in {<<Call(x).from, Call(x).to>> : x \in D} \cup {Call(x).rc : x \in D}
      OBVIOUS
    <3> HIDE DEF add, D, stop, Finding, Call
    <3>3. <<<<Call(here).from, Call(here).to>>>> \in V
      BY <3>2
    <3> QED
      BY <3>1, <3>3, ConcatProperties
  <2> HIDE DEF D, V, N, measure, stop, base, next, add
  <2> QED
    BY <1>3, <2>1, <2>2, <2>4 DEF IsStepwise
<1>5. PICK f \in [D -> V] : IsResult(D, f, stop, base, next, add)
  <2>1. <<>> \in V
    OBVIOUS
  <2> HIDE DEF D, V, N, measure, stop, base, next, add
  <2>2. V # {}
    BY <2>1
  <2> QED
    BY <1>1, <1>4, <2>2, StepwiseRecursion
<1>6. ASSUME NEW here \in D PROVE f[here] = ScanOf(s, m, w, o, state, f, here)
  <2>1. f[here] = IF here \in stop THEN base[here] ELSE add[<<here, f[next[here]]>>]
    <3> HIDE DEF D, V, stop, base, next, add
    <3> QED
      BY <1>5 DEF IsResult
  <2>2. here \notin stop => f[next[here]] \in V
    <3> HIDE DEF D, V, stop, measure, next
    <3> QED
      BY <1>3
  <2>3. ASSUME NEW v \in V
        PROVE  add[<<here, v>>] = IF Finding(here) THEN <<<<Call(here).from, Call(here).to>>>> \o v
                                  ELSE v
    <3> HIDE DEF D, V, Finding, Call
    <3> QED
      OBVIOUS
  <2> DEFINE rest == f[next[here]]
             one == <<<<Call(here).from, Call(here).to>>>>
  <2>4. /\ base[here] = IF Failing(here) THEN <<Call(here).rc>> ELSE <<>>
        /\ next[here] = IF Finding(here) THEN AfterHit(s, here, Call(here)) ELSE AfterMiss(s, here)
        /\ here \in stop <=> ~ Finding(here) /\ ~ Missing(here)
    <3> HIDE DEF D, Finding, Missing, Failing, Call
    <3> QED
      OBVIOUS
  <2> HIDE DEF stop, base, next, add, D, V
  <2>5. CASE Finding(here)
    <3>1. f[here] = <<<<Call(here).from, Call(here).to>>>> \o f[AfterHit(s, here, Call(here))]
      <4>1. here \notin stop /\ next[here] = AfterHit(s, here, Call(here))
        <5> HIDE DEF Finding, Call
        <5> QED
          BY Zenon, <2>4, <2>5
      <4>2. add[<<here, rest>>] = one \o rest
        <5> HIDE DEF Finding, one, rest
        <5>1. rest \in V
          BY <2>2, <4>1 DEF rest
        <5> QED
          BY <2>3, <2>5, <5>1 DEF one
      <4>3. f[here] = one \o rest
        <5> HIDE DEF one
        <5> QED
          BY <2>1, <4>1, <4>2
      <4> HIDE DEF Call
      <4> QED
        BY <4>1, <4>3
    <3> QED
      BY Zenon, <2>5, <3>1 DEF ScanOf
  <2>6. CASE Missing(here)
    <3>1. ~ Finding(here)
      BY Zenon, <2>6
    <3>2. f[here] = f[AfterMiss(s, here)]
      <4>1. here \notin stop /\ next[here] = AfterMiss(s, here)
        <5> HIDE DEF Finding, Missing, Call
        <5> QED
          BY Zenon, <2>4, <2>6, <3>1
      <4>2. add[<<here, rest>>] = rest
        <5> HIDE DEF Finding, rest
        <5>1. rest \in V
          BY <2>2, <4>1 DEF rest
        <5> QED
          BY <2>3, <3>1, <5>1
      <4> QED
        BY <2>1, <4>1, <4>2
    <3> QED
      BY Zenon, <2>6, <3>2 DEF ScanOf
  <2>7. CASE ~ Finding(here) /\ ~ Missing(here)
    <3>1. f[here] = IF Failing(here) THEN <<Call(here).rc>> ELSE <<>>
      <4> HIDE DEF Finding, Missing, Failing, Call
      <4> QED
        BY <2>1, <2>4, <2>7
    <3>2. CASE Failing(here)
      BY Zenon, <3>1, <3>2 DEF ScanOf
    <3>3. CASE ~ Failing(here)
      BY Zenon, <2>7, <3>1, <3>3 DEF ScanOf
    <3> HIDE DEF Failing
    <3> QED
      BY <3>2, <3>3
  <2> HIDE DEF Finding, Missing
  <2> QED
    BY <2>5, <2>6, <2>7
<1>7. Goes(f)
  <2>1. f = [here \in D |-> f[here]]
    <3> HIDE DEF D, V, stop, base, next, add
    <3>1. f \in [D -> V]
      OBVIOUS
    <3> QED
      BY ONLY <3>1
  <2>2. [here \in D |-> f[here]] = [here \in D |-> ScanOf(s, m, w, o, state, f, here)]
    <3> HIDE DEF D
    <3> QED
      BY Zenon, <1>6
  <2> HIDE DEF D
  <2> QED
    BY Zenon, <2>1, <2>2
<1> DEFINE g == CHOOSE h : Goes(h)
<1>8. Goes(g)
  <2> HIDE DEF Goes
  <2> QED
    BY <1>7
<1>9. g = FindallScan(s, m, w, o, state)
  BY DEF FindallScan
<1> HIDE DEF g
<1>10. \A here \in D : g[here] = ScanOf(s, m, w, o, state, g, here)
  <2> HIDE DEF D
  <2> QED
    BY <1>8
<1> QED
  BY <1>9, <1>10

\* The place of character c in a scan.
ScanAt(s, c, adv) == <<s.at[c], IndexOf(s, c), adv>>

LEMMA ScanAtIs ==
  ASSUME NEW s, IsSubject(s), NEW c \in 0..Chars(s), NEW adv \in BOOLEAN
  PROVE  /\ ScanAt(s, c, adv) \in ScanPlaces(s)
         /\ ScanAt(s, c, adv)[1] = s.at[c] /\ ScanAt(s, c, adv)[2] = IndexOf(s, c)
         /\ ScanAt(s, c, adv)[3] = adv
<1>1. /\ s.at[c] \in 0..Length(s) /\ Chars(s) \in Nat
      /\ IndexOf(s, c) \in 0..LogicalLength(s) /\ LogicalLength(s) \in Nat
  BY PlacesInSubject, PlacesAre
<1>2. s.kind # "text" => IndexOf(s, c) = s.at[c]
  BY DEF IndexOf
<1>3. IndexOf(s, c) \in Nat
  BY <1>1
<1> QED
  BY <1>1, <1>2, <1>3 DEF ScanAt, ScanPlaces

LEMMA AfterHitIs ==
  ASSUME NEW s, IsSubject(s), NEW c \in 0..Chars(s), NEW adv \in BOOLEAN,
         NEW k \in c..Chars(s), NEW j \in k..Chars(s), NEW r, r = Matched(s.at[k], s.at[j])
  PROVE  AfterHit(s, ScanAt(s, c, adv), r) = ScanAt(s, j, k = j)
<1>1. /\ Chars(s) \in Nat /\ k \in 0..Chars(s) /\ j \in 0..Chars(s) /\ c <= j
      /\ s.at[k] = s.at[j] <=> k = j
      /\ s.at[c] \in Nat /\ s.at[j] \in Nat
  <2>1. /\ Chars(s) \in Nat /\ Length(s) \in Nat
        /\ \A i \in 0..Chars(s) : s.at[i] \in 0..Length(s)
        /\ \A a, b \in 0..Chars(s) : s.at[a] = s.at[b] <=> a = b
    BY PlacesInSubject
  <2>2. k \in 0..Chars(s) /\ j \in 0..Chars(s) /\ c <= j
    BY <2>1
  <2>3. s.at[c] \in 0..Length(s) /\ s.at[j] \in 0..Length(s)
    BY <2>1, <2>2
  <2> QED
    BY <2>1, <2>2, <2>3
<1>2. r.from = s.at[k] /\ r.to = s.at[j]
  BY MatchedIsMatch
<1>3. /\ ScanAt(s, c, adv)[1] = s.at[c] /\ ScanAt(s, c, adv)[2] = IndexOf(s, c)
  BY DEF ScanAt
<1>4. EndsEmpty(r.from, r.to) = (k = j)
  BY <1>1, <1>2 DEF EndsEmpty
<1>5. utf8_offset_to_index(s, s.at[c], s.at[j] - s.at[c]) = j - c
  BY <1>1, OffsetToIndex
<1> DEFINE here == ScanAt(s, c, adv)
           index == IF s.kind # "text" THEN r.to
                    ELSE here[2] + utf8_offset_to_index(s, here[1], r.to - here[1])
<1>6. index = IndexOf(s, j)
  <2> HIDE DEF here
  <2>1. here[1] = s.at[c] /\ here[2] = IndexOf(s, c)
    BY <1>3 DEF here
  <2> QED
    BY <1>1, <1>2, <1>5, <2>1 DEF IndexOf
<1>7. AfterHit(s, here, r) = <<r.to, index, EndsEmpty(r.from, r.to)>>
  BY DEF AfterHit
<1> HIDE DEF here, index
<1> QED
  BY <1>2, <1>4, <1>6, <1>7 DEF ScanAt, here

\* Each unit of a subject that is stepped over byte by byte is one byte.
LEMMA SingleBytes ==
  ASSUME NEW s, IsSubject(s), FitsItsKind(s), SingleByteSubject(s)
  PROVE  \A k \in 1..Chars(s) : WidthOf[s.text[k]] = 1
<1>1. OneByteEach(s)
  BY DEF SingleByteSubject, FitsItsKind
<1> QED
  BY <1>1 DEF OneByteEach

LEMMA AfterMissIs ==
  ASSUME NEW s, IsSubject(s), FitsItsKind(s), NEW c \in 0..Chars(s) - 1, NEW adv \in BOOLEAN
  PROVE  AfterMiss(s, ScanAt(s, c, adv)) = ScanAt(s, c + 1, FALSE)
<1>1. Chars(s) \in Nat /\ c \in 0..Chars(s) /\ c < Chars(s) /\ c + 1 \in 0..Chars(s)
  BY PlacesInSubject
<1> DEFINE single == SingleByteSubject(s)
           next_byte == advance_one_character(s, s.at[c], single)
           here == ScanAt(s, c, adv)
           index == IF SubjectIsBytes(s) THEN next_byte ELSE here[2] + 1
<1>2. next_byte = s.at[c + 1]
  <2>1. single \in BOOLEAN /\ (single => \A k \in 1..Chars(s) : WidthOf[s.text[k]] = 1)
    BY SingleBytes DEF SingleByteSubject
  <2> HIDE DEF single
  <2>2. next_byte = s.at[IF c < Chars(s) THEN c + 1 ELSE c]
    BY <1>1, <2>1, StepOverCharacter
  <2> QED
    BY <1>1, <2>2
<1>3. here[1] = s.at[c] /\ here[2] = IndexOf(s, c)
  BY DEF ScanAt
<1>4. index = IndexOf(s, c + 1)
  <2>1. CASE SubjectIsBytes(s)
    BY <1>2, <2>1 DEF IndexOf, SubjectIsBytes
  <2>2. CASE s.kind = "text"
    BY <1>3, <2>2 DEF IndexOf, SubjectIsBytes
  <2>3. CASE s.kind = "ascii"
    <3>1. OneByteEach(s)
      BY <2>3 DEF FitsItsKind
    <3>2. c + 1 \in 1..Chars(s) /\ (c + 1) - 1 = c
      BY <1>1
    <3>3. s.at[c + 1] = s.at[c] + 1
      BY <3>1, <3>2 DEF IsSubject, OneByteEach
    <3> HIDE DEF here
    <3> QED
      BY <1>3, <2>3, <3>3 DEF IndexOf, SubjectIsBytes
  <2>4. SubjectIsBytes(s) \/ s.kind = "text" \/ s.kind = "ascii"
    BY DEF SubjectIsBytes, IsSubject, Kinds
  <2> HIDE DEF index
  <2> QED
    BY <2>1, <2>2, <2>3, <2>4
<1>5. AfterMiss(s, here) = <<next_byte, index, FALSE>>
  <2>1. AfterMiss(s, here)
          = <<advance_one_character(s, here[1], single),
              IF SubjectIsBytes(s) THEN advance_one_character(s, here[1], single) ELSE here[2] + 1,
              FALSE>>
    BY DEF AfterMiss
  <2> HIDE DEF here
  <2> QED
    BY <1>3, <2>1
<1> HIDE DEF here, index, next_byte
<1> QED
  BY <1>2, <1>4, <1>5 DEF ScanAt, here

\* From each character on the scan finds the matches there are.
LEMMA FindallScanFinds ==
  ASSUME NEW s, IsSubject(s), FitsItsKind(s), NEW m, IsPattern(s, m), NEW w, IsScanRange(s, w),
         NEW e \in 0..Chars(s), w.end = IndexOf(s, e), w.to = s.at[e],
         NEW check \in BOOLEAN, NEW o, o = [Plain EXCEPT !.no_utf_check = check], NEW state \in JitStates
  PROVE  \A c \in 0..e, adv \in BOOLEAN :
           FindallScan(s, m, w, o, state)[ScanAt(s, c, adv)] = InBytes(s, Sequel(m, e)[<<c, adv>>])
<1> DEFINE f == FindallScan(s, m, w, o, state)
           Right(c, adv) == f[ScanAt(s, c, adv)] = InBytes(s, Sequel(m, e)[<<c, adv>>])
           N == 2 * e + 1
           Rest(c, adv) == 2 * (e - c) + (IF adv THEN 0 ELSE 1)
           S == {n \in 0..N : \A c \in 0..e, adv \in BOOLEAN : Rest(c, adv) = n => Right(c, adv)}
<1>1. Chars(s) \in Nat /\ e \in Nat /\ N \in Nat
  BY PlacesInSubject
<1>2. IsSequel(m, e, Sequel(m, e))
  BY SequelIs
<1>3. ASSUME NEW n \in 0..N, \A k \in 0..n - 1 : k \in S PROVE n \in S
  <2> SUFFICES ASSUME NEW c \in 0..e, NEW adv \in BOOLEAN, Rest(c, adv) = n PROVE Right(c, adv)
    OBVIOUS
  <2> DEFINE here == ScanAt(s, c, adv)
             r == CallAt(s, m, w, o, state, here)
  <2>1. c \in 0..Chars(s)
    BY <1>1
  <2>2. here \in ScanPlaces(s) /\ here[1] = s.at[c] /\ here[2] = IndexOf(s, c) /\ here[3] = adv
    <3> HIDE DEF here
    <3> QED
      BY <2>1, ScanAtIs DEF here
  <2>3. ASSUME NEW d \in 0..e, NEW a \in BOOLEAN, Rest(d, a) < Rest(c, adv) PROVE Right(d, a)
    <3>1. Rest(d, a) \in 0..n - 1
      BY <1>1, <2>3
    <3> HIDE DEF Right, Rest
    <3>2. Rest(d, a) \in S
      <4> HIDE DEF S
      <4> QED
        BY <1>3, <3>1
    <3> QED
      BY <3>2
  <2>4. /\ IndexOf(s, c) < IndexOf(s, e) <=> c < e
        /\ ~ (IndexOf(s, c) > IndexOf(s, e)) /\ ~ (s.at[c] > s.at[e])
        /\ s.at[c] \in 0..Length(s) /\ s.at[e] \in 0..Length(s) /\ Length(s) \in Nat
    <3>1. /\ IndexOf(s, c) < IndexOf(s, e) <=> c < e
          /\ IndexOf(s, e) < IndexOf(s, c) <=> e < c
      BY <2>1, PlacesAre
    <3>2. /\ s.at[c] \in 0..Length(s) /\ s.at[e] \in 0..Length(s) /\ Length(s) \in Nat
          /\ s.at[e] < s.at[c] <=> e < c
      BY <2>1, PlacesInSubject
    <3>3. /\ IndexOf(s, c) \in 0..LogicalLength(s) /\ IndexOf(s, e) \in 0..LogicalLength(s)
          /\ LogicalLength(s) \in Nat
      BY <2>1, PlacesAre
    <3>4. ~ (e < c)
      BY <1>1
    <3> QED
      BY <3>1, <3>2, <3>3, <3>4
  <2>5. ~ OutOf(w, here)
    <3> HIDE DEF here
    <3> QED
      BY <2>2, <2>4 DEF OutOf
  <2>6. r = HitAt(s, m, e, c, adv)
    <3>1. ExecLength(s, w) = s.at[e]
      BY <2>4 DEF ExecLength, IsScanRange
    <3> DEFINE may == MayTryJit(s, w, state)
    <3>2. may \in BOOLEAN
      BY DEF MayTryJit
    <3>3. r = ScanMatch(s, m, s.at[e], s.at[c], adv, [Plain EXCEPT !.no_utf_check = check], may, state)
      <4> HIDE DEF here
      <4> QED
        BY <2>2, <3>1 DEF CallAt
    <3> HIDE DEF r, may
    <3> QED
      BY <3>2, <3>3, ScanFinds
  <2>7. f[here] = ScanOf(s, m, w, o, state, f, here)
    <3> HIDE DEF f, here
    <3> QED
      BY <2>2, FindallScanIs DEF f
  <2>8. CASE Hit(m, e, c, adv)
    <3>1. StartsFrom(m, e, <<c, adv>>) # {}
      BY <2>8, HitsAreStarts
    <3>2. PICK k \in c..e, l \in Nat : IsFirstSpan(m, e, c, adv, k, l)
      BY <3>1, FirstSpanIs
    <3> DEFINE j == k + l
    <3>3. /\ FirstSpan(m, e, <<c, adv>>) = <<k, j>> /\ j \in k..e
          /\ AfterSpan(m, e, <<c, adv>>) = <<j, l = 0>>
          /\ adv /\ k = c => l # 0
      BY <3>2 DEF IsFirstSpan
    <3>4. (l = 0) = (k = j) /\ l = j - k
      BY <1>1
    <3>5. r = Matched(s.at[k], s.at[j])
      BY <2>6, <2>8, <3>3 DEF HitAt
    <3> HIDE DEF j
    <3>6. k \in c..Chars(s) /\ j \in k..Chars(s) /\ j \in 0..e /\ k \in 0..Chars(s) /\ j \in 0..Chars(s)
      BY <1>1, <3>3
    <3>7. AfterHit(s, here, r) = ScanAt(s, j, k = j)
      <4> HIDE DEF r
      <4> QED
        BY <2>1, <3>5, <3>6, AfterHitIs
    <3>8. r.rc = "match" /\ r.from = s.at[k] /\ r.to = s.at[j]
      BY <3>5, MatchedIsMatch
    <3>9. f[here] = <<<<s.at[k], s.at[j]>>>> \o f[ScanAt(s, j, k = j)]
      <4> HIDE DEF f, here, r
      <4>1. f[here] = <<<<r.from, r.to>>>> \o f[AfterHit(s, here, r)]
        BY Zenon, <2>5, <2>7, <3>8 DEF ScanOf, r
      <4> QED
        BY <3>7, <3>8, <4>1
    <3>10. Right(j, k = j)
      <4> DEFINE empty == (k = j)
      <4>1. empty \in BOOLEAN /\ (empty => l = 0) /\ (~ empty => l # 0)
        BY <3>4
      <4>2. Rest(j, empty) < Rest(c, adv)
        <5>1. CASE empty /\ k = c
          <6>1. ~ adv
            BY <3>3, <4>1, <5>1
          <6> QED
            BY <1>1, <3>6, <5>1, <6>1
        <5>2. CASE ~ empty \/ k # c
          <6>1. j > c
            BY <1>1, <3>4, <3>6, <4>1, <5>2
          <6> HIDE DEF empty
          <6> QED
            BY <1>1, <3>6, <4>1, <6>1
        <5> QED
          BY <5>1, <5>2
      <4> HIDE DEF empty, Right, Rest
      <4> QED
        BY <2>3, <3>6, <4>1, <4>2 DEF empty
    <3>11. Sequel(m, e)[<<c, adv>>] = <<<<k, j>>>> \o Sequel(m, e)[<<j, k = j>>]
      BY <1>2, <3>1, <3>3, <3>4 DEF IsSequel
    <3> DEFINE q == Sequel(m, e)[<<j, k = j>>]
    <3>12. q \in Seq((0..Chars(s)) \X (0..Chars(s)))
      <4>1. (k = j) \in BOOLEAN
        OBVIOUS
      <4>2. q \in Seq((0..e) \X (0..e))
        BY <1>2, <3>6, <4>1 DEF IsSequel
      <4>3. (0..e) \X (0..e) \subseteq (0..Chars(s)) \X (0..Chars(s))
        BY <1>1
      <4> HIDE DEF q
      <4> QED
        BY <4>2, <4>3, SeqMonotonic
    <3>13. InBytes(s, <<<<k, j>>>> \o q) = <<<<s.at[k], s.at[j]>>>> \o InBytes(s, q)
      <4> HIDE DEF q
      <4> QED
        BY <3>6, <3>12, FirstSpanInBytes
    <3> HIDE DEF f
    <3> QED
      BY <3>9, <3>10, <3>11, <3>13
  <2>9. CASE ~ Hit(m, e, c, adv)
    <3>1. r.rc # "match" /\ r.rc = "no match"
      <4>1. r = NoMatch
        BY <2>6, <2>9 DEF HitAt
      <4>2. NoMatch.rc # "match" /\ NoMatch.rc = "no match"
        BY DEF NoMatch, Outcome
      <4> HIDE DEF r
      <4> QED
        BY <4>1, <4>2
    <3>2. f[here] = IF here[3] /\ here[2] < w.end THEN f[AfterMiss(s, here)] ELSE <<>>
      <4> HIDE DEF f, here, r
      <4> QED
        BY Zenon, <2>5, <2>7, <3>1 DEF ScanOf, r
    <3>3. f[here] = IF adv /\ c < e THEN f[AfterMiss(s, here)] ELSE <<>>
      <4> HIDE DEF f, here
      <4> QED
        BY <2>2, <2>4, <3>2
    <3>4. InBytes(s, <<>>) = <<>>
      <4>1. <<>> \in Seq((0..Chars(s)) \X (0..Chars(s)))
        OBVIOUS
      <4> QED
        BY <4>1, SpansInBytes
    <3>5. CASE adv /\ c < e
      <4>1. adv = TRUE /\ c \in 0..Chars(s) - 1 /\ c + 1 \in 0..e
        BY <1>1, <3>5
      <4>2. AfterMiss(s, here) = ScanAt(s, c + 1, FALSE)
        BY <4>1, AfterMissIs
      <4>3. Sequel(m, e)[<<c, TRUE>>] = Sequel(m, e)[<<c + 1, FALSE>>]
        <5>1. ~ Hit(m, e, c, TRUE)
          BY <2>9, <4>1
        <5> QED
          BY <3>5, <5>1, NothingHere
      <4>4. Right(c + 1, FALSE)
        <5> DEFINE no == FALSE
        <5>1. no \in BOOLEAN /\ Rest(c + 1, no) < Rest(c, adv)
          BY <1>1, <4>1
        <5> HIDE DEF no, Right, Rest
        <5>2. Right(c + 1, no)
          BY <2>3, <4>1, <5>1
        <5> QED
          BY <5>2 DEF no
      <4> HIDE DEF f, here
      <4>5. f[here] = f[ScanAt(s, c + 1, FALSE)]
        BY <3>3, <3>5, <4>2
      <4> QED
        BY <4>1, <4>3, <4>4, <4>5 DEF here
    <3>6. CASE adv /\ ~ (c < e)
      <4>1. adv = TRUE /\ c = e
        BY <1>1, <3>6
      <4>2. Sequel(m, e)[<<c, TRUE>>] = <<>>
        <5>1. ~ Hit(m, e, c, TRUE)
          BY <2>9, <4>1
        <5> QED
          BY <4>1, <5>1, NothingHere
      <4> HIDE DEF f, here
      <4>3. f[here] = <<>>
        BY <3>3, <3>6
      <4> QED
        BY <3>4, <4>1, <4>2, <4>3 DEF here
    <3>7. CASE ~ adv
      <4>1. adv = FALSE
        BY <3>7
      <4>2. StartsFrom(m, e, <<c, FALSE>>) = {}
        BY <2>9, <4>1 DEF Hit
      <4>3. Sequel(m, e)[<<c, FALSE>>] = <<>>
        BY <1>2, <4>2 DEF IsSequel
      <4> HIDE DEF f, here
      <4>4. f[here] = <<>>
        BY <3>3, <3>7
      <4> QED
        BY <3>4, <4>1, <4>3, <4>4 DEF here
    <3> QED
      BY <3>5, <3>6, <3>7
  <2> HIDE DEF Right
  <2> QED
    BY <2>8, <2>9
<1>4. 0..N \subseteq S
  <2> HIDE DEF S, N
  <2> QED
    BY <1>1, <1>3, NumbersIn
<1>5. ASSUME NEW c \in 0..e, NEW adv \in BOOLEAN PROVE Right(c, adv)
  <2>1. Rest(c, adv) \in 0..N
    BY <1>1
  <2>2. Rest(c, adv) \in S
    <3> HIDE DEF S, N, Rest
    <3> QED
      BY <1>4, <2>1
  <2> HIDE DEF Right, Rest
  <2> QED
    BY <2>2
<1> QED
  BY <1>5

\* Pattern_findall in a range that cuts no character.
LEMMA FindallInRange ==
  ASSUME NEW s, IsSubject(s), FitsItsKind(s), NEW m, IsPattern(s, m), NEW p \in Int, NEW q \in Int,
         NEW state \in JitStates, Sound(s, p, q) \/ Range0(s, p, q).end < Range0(s, p, q).pos
  PROVE  Pattern_findall(s, m, p, q, state) = Matches(s, m, p, q)
<1> DEFINE w     == Window(s, p, q)
           check == ValidatedRange(s, w)
           o     == MatchOptions(s, w)
           x     == Range0(s, p, q)
<1>1. Pattern_findall(s, m, p, q, state)
        = IF w.impossible THEN <<>> ELSE FindallScan(s, m, w, o, state)[<<w.from, w.pos, FALSE>>]
  <2>1. Pattern_findall(s, m, p, q, state) = FindallIn(s, m, w, o, state)
    BY DEF Pattern_findall
  <2> HIDE DEF w, o
  <2> QED
    BY <2>1, FindallIsScan
<1>2. /\ w.pos = x.pos /\ w.end = x.end
      /\ w.impossible <=> q >= 0 /\ x.end < x.pos
      /\ w.from = ByteOf(s, x.pos) /\ w.to = ByteOf(s, x.end)
  BY Zenon, WindowFits
<1>3. /\ x.pos \in 0..LogicalLength(s) /\ x.end \in 0..LogicalLength(s)
      /\ q < 0 => x.end = LogicalLength(s)
      /\ LogicalLength(s) \in Nat
  BY RangeIs, PlacesAre
<1>4. w.impossible <=> x.end < x.pos
  <2> HIDE DEF w, x
  <2> QED
    BY <1>2, <1>3
<1>5. Matches(s, m, p, q)
        = IF ~ Sound(s, p, q) \/ x.end < x.pos THEN <<>>
          ELSE InBytes(s, MatchesFrom(m, CharAt(s, ByteOf(s, x.pos)), CharAt(s, ByteOf(s, x.end))))
  BY DEF Matches
<1>6. CASE x.end < x.pos
  <2> HIDE DEF w, o, x
  <2> QED
    BY <1>1, <1>4, <1>5, <1>6
<1>7. CASE ~ (x.end < x.pos)
  <2>1. PICK c, e \in 0..Chars(s) : x.pos = IndexOf(s, c) /\ x.end = IndexOf(s, e)
    <3>1. Sound(s, p, q)
      BY Zenon, <1>7
    <3> QED
      BY <3>1, SoundIs
  <2> HIDE DEF x
  <2>2. /\ c \in 0..e
        /\ ByteOf(s, x.pos) = s.at[c] /\ ByteOf(s, x.end) = s.at[e]
        /\ CharAt(s, s.at[c]) = c /\ CharAt(s, s.at[e]) = e
        /\ s.at[e] \in 0..Length(s) /\ s.at[c] \in 0..s.at[e]
    <3>1. /\ IndexOf(s, e) < IndexOf(s, c) <=> e < c
          /\ ByteOf(s, IndexOf(s, c)) = s.at[c] /\ ByteOf(s, IndexOf(s, e)) = s.at[e]
      BY PlacesAre
    <3>2. /\ CharAt(s, s.at[c]) = c /\ CharAt(s, s.at[e]) = e /\ Chars(s) \in Nat
          /\ s.at[e] \in 0..Length(s) /\ s.at[c] \in 0..Length(s) /\ Length(s) \in Nat
          /\ s.at[e] < s.at[c] <=> e < c
      BY PlacesInSubject
    <3>3. ~ (e < c)
      BY <1>7, <2>1, <3>1
    <3>4. c \in 0..e
      BY <3>2, <3>3
    <3> QED
      BY <2>1, <3>1, <3>2, <3>3, <3>4
  <2>3. Matches(s, m, p, q) = InBytes(s, Sequel(m, e)[<<c, FALSE>>])
    <3>1. Sound(s, p, q)
      BY Zenon, <1>7 DEF x
    <3>2. MatchesFrom(m, c, e) = Sequel(m, e)[<<c, FALSE>>]
      BY <2>2, SequelIs
    <3> QED
      BY <1>5, <1>7, <2>2, <3>1, <3>2
  <2>4. IsScanRange(s, w) /\ w.end = IndexOf(s, e) /\ w.to = s.at[e]
    <3> HIDE DEF w
    <3> QED
      BY <1>2, <1>3, <2>1, <2>2 DEF IsScanRange
  <2>5. check \in BOOLEAN /\ o = [Plain EXCEPT !.no_utf_check = check]
    BY DEF ValidatedRange, MatchOptions
  <2> HIDE DEF w, o, check
  <2>6. FindallScan(s, m, w, o, state)[ScanAt(s, c, FALSE)] = InBytes(s, Sequel(m, e)[<<c, FALSE>>])
    <3> DEFINE no == FALSE
    <3>1. no \in BOOLEAN
      OBVIOUS
    <3> HIDE DEF no
    <3>2. FindallScan(s, m, w, o, state)[ScanAt(s, c, no)] = InBytes(s, Sequel(m, e)[<<c, no>>])
      BY <2>2, <2>4, <2>5, <3>1, FindallScanFinds
    <3> QED
      BY <3>2 DEF no
  <2>7. <<w.from, w.pos, FALSE>> = ScanAt(s, c, FALSE)
    BY <1>2, <2>1, <2>2 DEF ScanAt
  <2> QED
    BY <1>1, <1>4, <1>7, <2>3, <2>6, <2>7
<1> QED
  BY <1>6, <1>7

\* In a range that cuts a character the first call raises.
LEMMA FindallOutOfRange ==
  ASSUME NEW s, IsSubject(s), FitsItsKind(s), NEW m, IsPattern(s, m), NEW p \in Int, NEW q \in Int,
         NEW state \in JitStates, ~ Sound(s, p, q), ~ (Range0(s, p, q).end < Range0(s, p, q).pos)
  PROVE  Pattern_findall(s, m, p, q, state) = <<"utf error">>
<1> DEFINE w     == Window(s, p, q)
           check == ValidatedRange(s, w)
           o     == MatchOptions(s, w)
           x     == Range0(s, p, q)
           here  == <<w.from, w.pos, FALSE>>
           f     == FindallScan(s, m, w, o, state)
           r     == CallAt(s, m, w, o, state, here)
<1>1. s.kind = "utf"
  BY MostlySound
<1>2. /\ x.pos \in 0..Length(s) /\ x.end \in 0..Length(s) /\ Length(s) \in Nat
      /\ ByteOf(s, x.pos) = x.pos /\ ByteOf(s, x.end) = x.end
      /\ LogicalLength(s) = Length(s)
      /\ ~ (x.end < x.pos)
  BY <1>1, RangeIs, PlacesInSubject DEF LogicalLength, ByteOf
<1>3. /\ w.from = x.pos /\ w.to = x.end /\ w.pos = x.pos /\ w.end = x.end
      /\ ~ w.impossible
  <2> HIDE DEF w, x
  <2> QED
    BY <1>2, WindowFits DEF w, x
<1>4. ~ (x.pos \in Boundaries(s) /\ x.end \in Boundaries(s))
  BY <1>2 DEF Sound
<1>5. 0 \in Boundaries(s) /\ Length(s) \in Boundaries(s)
  <2>1. /\ 0 \in 0..Chars(s) /\ Chars(s) \in 0..Chars(s)
        /\ s.at[0] = 0 /\ s.at[Chars(s)] = Length(s)
    BY PlacesInSubject
  <2>2. s.at[0] \in Boundaries(s) /\ s.at[Chars(s)] \in Boundaries(s)
    BY <2>1, PlacesInSubject
  <2> QED
    BY <2>1, <2>2
<1> HIDE DEF x
<1>6. ValidatedRange(s, w) = FALSE /\ MayTryJit(s, w, state) = FALSE
  <2>1. ~ (w.from = 0 /\ w.to = Length(s))
    <3> HIDE DEF w
    <3> QED
      BY <1>3, <1>4, <1>5
  <2> HIDE DEF w
  <2>2. ValidatedRange(s, w) = FALSE
    BY <1>1, <2>1 DEF ValidatedRange, SubjectIsBytes
  <2>3. MayTryJit(s, w, state) = FALSE
    BY <1>1, <2>2 DEF MayTryJit
  <2> QED
    BY <2>2, <2>3
<1>7. ExecLength(s, w) = x.end
  <2> HIDE DEF w
  <2> QED
    BY <1>2, <1>3 DEF ExecLength
<1>8. o = [Plain EXCEPT !.no_utf_check = FALSE] /\ o.no_utf_check = FALSE
  <2> HIDE DEF w
  <2> QED
    BY <1>6 DEF MatchOptions, Plain
<1> HIDE DEF w, o
<1>9. r = pcre2_match(s, m, x.end, w.from, o)
  <2>1. here[1] = w.from /\ here[3] = FALSE
    OBVIOUS
  <2> HIDE DEF here
  <2> QED
    BY <1>6, <1>7, <2>1 DEF CallAt, ScanMatch
<1>10. r = UtfError
  <2>1. ~ ({w.from, x.end} \subseteq Boundaries(s))
    BY <1>3, <1>4
  <2> HIDE DEF r
  <2> QED
    BY <1>8, <1>9, <2>1 DEF pcre2_match
<1>11. r.rc = "utf error"
  <2> HIDE DEF r
  <2> QED
    BY <1>10 DEF UtfError, Outcome
<1>12. here \in ScanPlaces(s) /\ IsScanRange(s, w)
  <2>1. here \in (0..Length(s)) \X Nat \X BOOLEAN /\ here[1] = here[2]
    <3>1. w.from \in 0..Length(s) /\ w.pos \in Nat /\ w.from = w.pos
      BY <1>2, <1>3
    <3> QED
      BY <3>1
  <2>2. IsScanRange(s, w)
    BY <1>2, <1>3 DEF IsScanRange
  <2> HIDE DEF here
  <2> QED
    BY <2>1, <2>2 DEF ScanPlaces
<1>13. f[here] = ScanOf(s, m, w, o, state, f, here)
  <2> DEFINE no == FALSE
  <2>1. no \in BOOLEAN /\ o = [Plain EXCEPT !.no_utf_check = no]
    BY <1>8
  <2> HIDE DEF no, f, here
  <2> QED
    BY <1>12, <2>1, FindallScanIs DEF f
<1>14. ~ OutOf(w, here)
  <2>1. here[1] = w.from /\ here[2] = w.pos
    OBVIOUS
  <2> HIDE DEF here
  <2> QED
    BY <1>2, <1>3, <2>1 DEF OutOf
<1>15. f[here] = <<r.rc>>
  <2>1. r.rc # "match" /\ r.rc # "no match"
    <3> HIDE DEF r
    <3> QED
      BY <1>11
  <2> HIDE DEF f, here
  <2> QED
    BY Zenon, <1>13, <1>14, <2>1 DEF ScanOf
<1>16. Pattern_findall(s, m, p, q, state) = f[here]
  <2>1. Pattern_findall(s, m, p, q, state) = FindallIn(s, m, w, o, state)
    BY DEF Pattern_findall, w, o
  <2>2. FindallIn(s, m, w, o, state) = f[here]
    BY <1>3, FindallIsScan
  <2> QED
    BY <2>1, <2>2
<1> HIDE DEF f, here, r
<1> QED
  BY <1>11, <1>15, <1>16

-----------------------------------------------------------------------------
(* split.                                                                      *)

\* Where the pieces end that come before the i-th match.
LastEnd(used, i) == IF i = 0 THEN 0 ELSE used[i][2]

\* The recursion of PiecesBetween, and the equation it satisfies.
PiecesOf(s, used, groups) ==
  CHOOSE pieces : pieces = [i \in 0..Len(used) |->
    LET last == IF i = 0 THEN 0 ELSE used[i][2]
    IN  IF i = Len(used) THEN <<<<last, Length(s)>>>>
        ELSE <<<<last, used[i + 1][1]>>>> \o [g \in 1..groups |-> used[i + 1]] \o pieces[i + 1]]

\* The values of the groups of a match.
GroupValues(groups, span) == [g \in 1..groups |-> span]

PiecesGoOn(s, used, groups) ==
  \A i \in 0..Len(used) :
    /\ i = Len(used) => PiecesOf(s, used, groups)[i] = <<<<LastEnd(used, i), Length(s)>>>>
    /\ i # Len(used) =>
         PiecesOf(s, used, groups)[i]
           = <<<<LastEnd(used, i), used[i + 1][1]>>>> \o GroupValues(groups, used[i + 1])
             \o PiecesOf(s, used, groups)[i + 1]

LEMMA PiecesAre ==
  ASSUME NEW s, Length(s) \in Nat, NEW used \in Seq(Nat \X Nat), NEW groups \in Nat
  PROVE  PiecesBetween(s, used, groups) = PiecesOf(s, used, groups)[0] /\ PiecesGoOn(s, used, groups)
<1> DEFINE n == Len(used)
           D == 0..n
           P == Nat \X Nat
           stop == {n}
           head == [i \in D |-> IF i = n THEN <<>>
                                ELSE <<<<LastEnd(used, i), used[i + 1][1]>>>>
                                     \o [g \in 1..groups |-> used[i + 1]]]
           tail == [i \in D |-> IF i = n THEN <<<<LastEnd(used, i), Length(s)>>>> ELSE <<>>]
           next == [i \in D |-> i + 1]
           measure == [i \in D |-> n - i]
           Goes(f) == f = [i \in D |->
             LET last == IF i = 0 THEN 0 ELSE used[i][2]
             IN  IF i = n THEN <<<<last, Length(s)>>>>
                 ELSE <<<<last, used[i + 1][1]>>>> \o [g \in 1..groups |-> used[i + 1]] \o f[i + 1]]
<1>1. n \in Nat
  OBVIOUS
<1>2. ASSUME NEW i \in D PROVE LastEnd(used, i) \in Nat
  <2>1. CASE i = 0
    BY <2>1 DEF LastEnd
  <2>2. CASE i # 0
    <3>1. used[i] \in Nat \X Nat
      BY <2>2
    <3> QED
      BY <2>2, <3>1 DEF LastEnd
  <2> QED
    BY <2>1, <2>2
<1>3. head \in [D -> Seq(P)]
  <2>1. ASSUME NEW i \in D, i # n
        PROVE  <<<<LastEnd(used, i), used[i + 1][1]>>>> \o [g \in 1..groups |-> used[i + 1]] \in Seq(P)
    <3>1. i + 1 \in 1..n
      BY <1>1, <2>1
    <3>2. used[i + 1] \in Nat \X Nat
      BY <3>1
    <3> DEFINE a == LastEnd(used, i)
               u == used[i + 1]
    <3>3. a \in Nat /\ u \in Nat \X Nat /\ u[1] \in Nat
      BY <1>2, <3>2
    <3> HIDE DEF a, u, D, n
    <3>4. <<<<a, u[1]>>>> \in Seq(P)
      BY <3>3
    <3>5. [g \in 1..groups |-> u] \in Seq(P)
      BY <3>3
    <3> QED
      BY <3>4, <3>5, ConcatProperties DEF a, u
  <2>2. ASSUME NEW i \in D PROVE head[i] \in Seq(P)
    <3>1. CASE i = n
      BY <3>1
    <3>2. CASE i # n
      BY <2>1, <3>2
    <3> QED
      BY <3>1, <3>2
  <2>3. head = [i \in D |-> head[i]]
    OBVIOUS
  <2> HIDE DEF head, D, P
  <2> QED
    BY <2>2, <2>3
<1>4. tail \in [D -> Seq(P)]
  <2>1. ASSUME NEW i \in D PROVE tail[i] \in Seq(P)
    <3> DEFINE a == LastEnd(used, i)
    <3>1. a \in Nat
      BY <1>2
    <3> HIDE DEF a
    <3>2. <<<<a, Length(s)>>>> \in Seq(P) /\ <<>> \in Seq(P)
      BY <3>1
    <3>3. tail[i] = IF i = n THEN <<<<a, Length(s)>>>> ELSE <<>>
      BY DEF a
    <3> HIDE DEF tail, D, P, n
    <3> QED
      BY <3>2, <3>3
  <2>2. tail = [i \in D |-> tail[i]]
    OBVIOUS
  <2> HIDE DEF tail, D, P
  <2> QED
    BY <2>1, <2>2
<1>5. PICK f \in [D -> Seq(P)] : IsList(D, f, stop, tail, head, next)
  <2>1. measure \in [D -> 0..n]
    BY <1>1
  <2>2. \A i \in D : i \notin stop => next[i] \in D /\ measure[next[i]] < measure[i]
    BY <1>1
  <2> HIDE DEF n, D, P, stop, head, tail, next, measure
  <2>3. IsListwise(D, P, n, measure, stop, tail, head, next)
    BY <1>3, <1>4, <2>1, <2>2 DEF IsListwise
  <2> QED
    BY <1>1, <2>3, ListRecursion
<1>6. ASSUME NEW i \in D
      PROVE  f[i] = IF i = n THEN <<<<LastEnd(used, i), Length(s)>>>>
                    ELSE <<<<LastEnd(used, i), used[i + 1][1]>>>>
                         \o [g \in 1..groups |-> used[i + 1]] \o f[i + 1]
  <2> DEFINE one == <<<<LastEnd(used, i), used[i + 1][1]>>>> \o [g \in 1..groups |-> used[i + 1]]
             last == <<<<LastEnd(used, i), Length(s)>>>>
  <2>1. /\ i = n => tail[i] = last
        /\ i # n => head[i] = one
        /\ next[i] = i + 1 /\ (i \in stop <=> i = n)
    <3> HIDE DEF one, last
    <3> QED
      BY DEF one, last
  <2> HIDE DEF D, P, stop, head, tail, next, measure, one, last
  <2>2. f[i] = IF i = n THEN last ELSE one \o f[i + 1]
    BY <1>5, <2>1 DEF IsList
  <2> QED
    BY <2>2 DEF one, last
<1>7. Goes(f)
  <2>1. f = [i \in D |-> f[i]]
    <3> HIDE DEF D, P, stop, head, tail, next
    <3>1. f \in [D -> Seq(P)]
      OBVIOUS
    <3> QED
      BY ONLY <3>1
  <2> DEFINE F == [i \in D |-> IF i = n THEN <<<<LastEnd(used, i), Length(s)>>>>
                               ELSE <<<<LastEnd(used, i), used[i + 1][1]>>>>
                                    \o [g \in 1..groups |-> used[i + 1]] \o f[i + 1]]
  <2>2. [i \in D |-> f[i]] = F
    <3> HIDE DEF D, n
    <3> QED
      BY Zenon, <1>6
  <2>3. f = F
    <3> HIDE DEF F
    <3> QED
      BY <2>1, <2>2
  <2> HIDE DEF D, n
  <2> QED
    BY Zenon, <2>3 DEF LastEnd
<1> DEFINE pieces == PiecesOf(s, used, groups)
<1>8. Goes(pieces)
  <2>1. pieces = CHOOSE h : Goes(h)
    BY DEF PiecesOf
  <2> HIDE DEF Goes, pieces
  <2> QED
    BY <1>7, <2>1
<1>9. PiecesBetween(s, used, groups) = pieces[0]
  BY DEF PiecesBetween, PiecesOf
<1> HIDE DEF pieces
<1>10. ASSUME NEW i \in D
       PROVE  pieces[i] = IF i = n THEN <<<<LastEnd(used, i), Length(s)>>>>
                     ELSE <<<<LastEnd(used, i), used[i + 1][1]>>>>
                          \o [g \in 1..groups |-> used[i + 1]] \o pieces[i + 1]
  <2> HIDE DEF D, n
  <2> QED
    BY Zenon, <1>8 DEF LastEnd
<1>11. ASSUME NEW i \in D, i # n
       PROVE  pieces[i] = <<<<LastEnd(used, i), used[i + 1][1]>>>> \o GroupValues(groups, used[i + 1])
                          \o pieces[i + 1]
  <2> HIDE DEF D, n
  <2> QED
    BY Zenon, <1>10, <1>11 DEF GroupValues
<1>12. ASSUME NEW i \in D, i = n PROVE pieces[i] = <<<<LastEnd(used, i), Length(s)>>>>
  <2> HIDE DEF D, n
  <2> QED
    BY Zenon, <1>10, <1>12
<1> QED
  BY <1>9, <1>11, <1>12 DEF pieces, PiecesGoOn

\* The matches that are used, and how many of them.
LEMMA UsedAre ==
  ASSUME NEW all0 \in Seq(Nat \X Nat), NEW maxsplit \in Int
  PROVE  /\ UpTo(all0, maxsplit) \in Seq(Nat \X Nat)
         /\ Len(UpTo(all0, maxsplit)) \in 0..Len(all0)
         /\ \A i \in 1..Len(UpTo(all0, maxsplit)) : UpTo(all0, maxsplit)[i] = all0[i]
         /\ \A done \in 0..Len(UpTo(all0, maxsplit)) :
              /\ EnoughSplits(maxsplit, done) => done = Len(UpTo(all0, maxsplit))
              /\ ~ EnoughSplits(maxsplit, done) /\ done < Len(all0) => done < Len(UpTo(all0, maxsplit))
              /\ EnoughSplits(maxsplit, done) <=> done = SplitLimit(maxsplit)
<1>1. Len(all0) \in Nat /\ \A i \in 1..Len(all0) : all0[i] \in Nat \X Nat
  OBVIOUS
<1>2. CASE maxsplit < 0
  <2>1. UpTo(all0, maxsplit) = <<>>
    BY <1>2 DEF UpTo
  <2>2. <<>> \in Seq(Nat \X Nat) /\ Len(<<>>) = 0
    OBVIOUS
  <2> QED
    BY <1>1, <1>2, <2>1, <2>2 DEF EnoughSplits, SplitLimit
<1>3. CASE maxsplit = 0
  <2>1. UpTo(all0, maxsplit) = all0
    BY <1>3 DEF UpTo
  <2> QED
    BY <1>1, <1>3, <2>1 DEF EnoughSplits, SplitLimit
<1>4. CASE maxsplit > 0
  <2> DEFINE n == LowerOf(maxsplit, Len(all0))
  <2>1. n \in 0..Len(all0) /\ n <= maxsplit /\ (n < maxsplit => n = Len(all0))
    BY <1>1, <1>4 DEF LowerOf
  <2>2. UpTo(all0, maxsplit) = SubSeq(all0, 1, n)
    <3>1. ~ (maxsplit < 0) /\ maxsplit # 0
      BY <1>4
    <3> QED
      BY Zenon, <3>1 DEF UpTo
  <2> HIDE DEF n
  <2>3. /\ SubSeq(all0, 1, n) \in Seq(Nat \X Nat)
        /\ Len(SubSeq(all0, 1, n)) = n
        /\ \A i \in 1..n : SubSeq(all0, 1, n)[i] = all0[i]
    <3>1. \A i \in 1..n : all0[i] \in Nat \X Nat
      BY <1>1, <2>1
    <3>2. n \in Int /\ 1 \in Int
      BY <2>1
    <3>3. /\ SubSeq(all0, 1, n) \in Seq(Nat \X Nat)
          /\ Len(SubSeq(all0, 1, n)) = IF 1 <= n THEN n - 1 + 1 ELSE 0
          /\ \A i \in 1..n - 1 + 1 : SubSeq(all0, 1, n)[i] = all0[1 + i - 1]
      BY <3>1, <3>2, SubSeqProperties
    <3> QED
      BY <1>1, <2>1, <3>3
  <2> QED
    BY <1>1, <1>4, <2>1, <2>2, <2>3 DEF EnoughSplits, SplitLimit
<1> QED
  BY <1>2, <1>3, <1>4

\* The call of split's scan, and the equation the scan satisfies.
CutAt(s, m, state, here) ==
  ScanMatch(s, m, Length(s), here[1], here[4], [Plain EXCEPT !.no_utf_check = ~SubjectIsBytes(s)],
            state # "off", state)
CutsOf(s, m, maxsplit, groups, state, f, here) ==
  LET r == CutAt(s, m, state, here)
  IN  IF EnoughSplits(maxsplit, here[3]) THEN <<<<here[2], Length(s)>>>>
      ELSE IF r.rc = "match" THEN PieceAndGroups(here[2], r, groups) \o f[AfterCut(here, r)]
      ELSE IF r.rc # "no match" THEN <<r.rc>>
      ELSE IF here[4] /\ here[1] < Length(s) THEN f[AfterNoCut(s, here)]
      ELSE <<<<here[2], Length(s)>>>>
SplitScan(s, m, maxsplit, groups, state) ==
  CHOOSE scan : scan = [here \in SplitPlaces(s) |-> CutsOf(s, m, maxsplit, groups, state, scan, here)]

LEMMA SplitIsScan ==
  ASSUME NEW s, NEW m, NEW maxsplit, NEW groups, NEW state
  PROVE  Pattern_split(s, m, maxsplit, groups, state)
           = SplitScan(s, m, maxsplit, groups, state)[<<0, 0, 0, FALSE>>]
  BY DEF Pattern_split, SplitScan, CutsOf, CutAt

\* How much of the scan is left.
LeftToCut(s, here) == 2 * (Length(s) - here[1]) + (IF here[4] THEN 0 ELSE 1)

LEMMA LeftToCutIs ==
  ASSUME NEW s, IsSubject(s), NEW here \in SplitPlaces(s)
  PROVE  /\ LeftToCut(s, here) \in 0..2 * Length(s) + 1 /\ Length(s) \in Nat
         /\ here[1] \in 0..Length(s) /\ here[2] \in 0..Length(s) /\ here[3] \in Nat /\ here[4] \in BOOLEAN
<1>1. Length(s) \in Nat
  BY PlacesInSubject
<1>2. here[1] \in 0..Length(s) /\ here[2] \in 0..Length(s) /\ here[3] \in Nat /\ here[4] \in BOOLEAN
  BY DEF SplitPlaces
<1> QED
  BY <1>1, <1>2 DEF LeftToCut

LEMMA CutGoesOn ==
  ASSUME NEW s, IsSubject(s), NEW here \in SplitPlaces(s), NEW r, HitFrom(s, here[1], here[4], r)
  PROVE  /\ AfterCut(here, r) \in SplitPlaces(s)
         /\ LeftToCut(s, AfterCut(here, r)) < LeftToCut(s, here)
         /\ r.from \in Nat /\ r.to \in Nat
<1>1. /\ here[1] \in 0..Length(s) /\ here[2] \in 0..Length(s) /\ here[3] \in Nat /\ here[4] \in BOOLEAN
      /\ Length(s) \in Nat
  BY LeftToCutIs
<1>2. PICK c, k, j \in 0..Chars(s) : /\ here[1] = s.at[c] /\ r.from = s.at[k] /\ r.to = s.at[j]
                                     /\ c <= k /\ k <= j /\ (here[4] => c < j)
  BY DEF HitFrom
<1>3. /\ s.at[j] \in 0..Length(s) /\ s.at[c] \in 0..Length(s) /\ s.at[k] \in 0..Length(s)
      /\ Chars(s) \in Nat
      /\ s.at[k] = s.at[j] <=> k = j
      /\ s.at[c] < s.at[j] <=> c < j
      /\ s.at[c] = s.at[j] <=> c = j
  BY PlacesInSubject
<1> DEFINE empty == EndsEmpty(r.from, r.to)
           done == here[3] + 1
<1>4. empty \in BOOLEAN /\ (empty <=> k = j) /\ done \in Nat
  BY <1>1, <1>2, <1>3 DEF EndsEmpty
<1>5. AfterCut(here, r) = <<s.at[j], s.at[j], done, empty>>
  BY <1>2 DEF AfterCut, NextPiece
<1> HIDE DEF empty, done
<1>6. <<s.at[j], s.at[j], done, empty>> \in SplitPlaces(s)
  BY <1>3, <1>4 DEF SplitPlaces
<1>7. LeftToCut(s, <<s.at[j], s.at[j], done, empty>>) < LeftToCut(s, here)
  <2>1. CASE c < j
    BY <1>1, <1>2, <1>3, <1>4, <2>1 DEF LeftToCut
  <2>2. CASE c = j
    <3>1. k = j /\ ~ here[4] /\ empty
      BY <1>1, <1>2, <1>3, <1>4, <2>2
    <3> QED
      BY <1>1, <1>2, <1>3, <2>2, <3>1 DEF LeftToCut
  <2> QED
    BY <1>2, <1>3, <2>1, <2>2
<1> QED
  BY <1>2, <1>3, <1>5, <1>6, <1>7

LEMMA NoCutGoesOn ==
  ASSUME NEW s, IsSubject(s), NEW here \in SplitPlaces(s), here[4], here[1] < Length(s)
  PROVE  /\ AfterNoCut(s, here) \in SplitPlaces(s)
         /\ LeftToCut(s, AfterNoCut(s, here)) < LeftToCut(s, here)
<1>1. /\ here[1] \in 0..Length(s) /\ here[2] \in 0..Length(s) /\ here[3] \in Nat /\ here[4] = TRUE
      /\ Length(s) \in Nat
  BY LeftToCutIs
<1> DEFINE single == SingleByteSubject(s)
           next_byte == advance_one_character(s, here[1], single)
           last == here[2]
           done == here[3]
<1>2. next_byte \in 0..Length(s) /\ here[1] < next_byte
  <2>1. single \in BOOLEAN
    BY DEF SingleByteSubject
  <2> HIDE DEF single
  <2> QED
    BY <1>1, <2>1, StepGoesOn
<1>3. AfterNoCut(s, here) = <<next_byte, last, done, FALSE>>
  BY DEF AfterNoCut
<1>4. last \in 0..Length(s) /\ done \in Nat
  BY <1>1
<1> HIDE DEF next_byte, last, done
<1>5. <<next_byte, last, done, FALSE>> \in SplitPlaces(s)
  BY <1>2, <1>4 DEF SplitPlaces
<1>6. LeftToCut(s, <<next_byte, last, done, FALSE>>) < LeftToCut(s, here)
  BY <1>1, <1>2 DEF LeftToCut
<1> QED
  BY <1>3, <1>5, <1>6

\* A match found by a call of the scan.
LEMMA CutSays ==
  ASSUME NEW s, IsSubject(s), NEW m, IsPattern(s, m), NEW state \in JitStates,
         NEW here \in SplitPlaces(s), CutAt(s, m, state, here).rc = "match"
  PROVE  HitFrom(s, here[1], here[4], CutAt(s, m, state, here))
<1> DEFINE byte == here[1]
           retry == here[4]
           may == state # "off"
           check == ~ SubjectIsBytes(s)
           r == CutAt(s, m, state, here)
<1>1. /\ byte \in 0..Length(s) /\ Length(s) \in byte..Length(s) /\ retry \in BOOLEAN
      /\ may \in BOOLEAN /\ check \in BOOLEAN
  <2>1. here[1] \in 0..Length(s) /\ here[4] \in BOOLEAN /\ Length(s) \in Nat
    BY LeftToCutIs
  <2> QED
    BY <2>1
<1>2. r = ScanMatch(s, m, Length(s), byte, retry, [Plain EXCEPT !.no_utf_check = check], may, state)
  BY DEF CutAt
<1>3. r.rc = "match"
  OBVIOUS
<1> HIDE DEF byte, retry, may, check, r
<1>4. HitFrom(s, byte, retry, r)
  BY <1>1, <1>2, <1>3, CallSays
<1> QED
  BY <1>4 DEF byte, retry, r

\* The piece before a match and its groups are spans.
LEMMA PieceAndGroupsAre ==
  ASSUME NEW last \in Nat, NEW r, r.from \in Nat, r.to \in Nat, NEW groups \in Nat
  PROVE  PieceAndGroups(last, r, groups) \in Seq(Nat \X Nat)
<1> DEFINE a == r.from
           b == r.to
<1>1. a \in Nat /\ b \in Nat
  OBVIOUS
<1>2. PieceAndGroups(last, r, groups) = <<<<last, a>>>> \o [g \in 1..groups |-> <<a, b>>]
  BY DEF PieceAndGroups
<1> HIDE DEF a, b
<1>3. <<<<last, a>>>> \in Seq(Nat \X Nat) /\ [g \in 1..groups |-> <<a, b>>] \in Seq(Nat \X Nat)
  BY <1>1
<1> QED
  BY <1>2, <1>3, ConcatProperties

\* The scan of split exists.
LEMMA SplitScanIs ==
  ASSUME NEW s, IsSubject(s), NEW m, IsPattern(s, m), NEW maxsplit \in Int, NEW groups \in Nat,
         NEW state \in JitStates
  PROVE  \A here \in SplitPlaces(s) :
           SplitScan(s, m, maxsplit, groups, state)[here]
             = CutsOf(s, m, maxsplit, groups, state, SplitScan(s, m, maxsplit, groups, state), here)
<1> DEFINE D == SplitPlaces(s)
           Call(here) == CutAt(s, m, state, here)
           S == (Nat \X Nat) \cup {Call(here).rc : here \in D}
           N == 2 * Length(s) + 1
           Enough(here) == EnoughSplits(maxsplit, here[3])
           Cutting(here) == ~ Enough(here) /\ Call(here).rc = "match"
           Missing(here) == /\ ~ Enough(here) /\ Call(here).rc # "match" /\ Call(here).rc = "no match"
                            /\ here[4] /\ here[1] < Length(s)
           Failing(here) == /\ ~ Enough(here) /\ Call(here).rc # "match" /\ Call(here).rc # "no match"
           Piece(here) == PieceAndGroups(here[2], Call(here), groups)
           Rest(here) == <<<<here[2], Length(s)>>>>
           measure == [here \in D |-> LeftToCut(s, here)]
           stop == {here \in D : ~ Cutting(here) /\ ~ Missing(here)}
           tail == [here \in D |-> IF Failing(here) THEN <<Call(here).rc>> ELSE Rest(here)]
           head == [here \in D |-> IF Cutting(here) THEN Piece(here) ELSE <<>>]
           next == [here \in D |-> IF Cutting(here) THEN AfterCut(here, Call(here))
                                   ELSE AfterNoCut(s, here)]
           Goes(f) == f = [here \in D |-> CutsOf(s, m, maxsplit, groups, state, f, here)]
<1>1. N \in Nat
  BY PlacesInSubject
<1>2. ASSUME NEW here \in D, Cutting(here)
      PROVE  /\ AfterCut(here, Call(here)) \in D
             /\ LeftToCut(s, AfterCut(here, Call(here))) < LeftToCut(s, here)
             /\ Piece(here) \in Seq(Nat \X Nat)
  <2> DEFINE r == Call(here)
             last == here[2]
  <2>1. HitFrom(s, here[1], here[4], r)
    <3>1. Call(here).rc = "match"
      BY <1>2
    <3> QED
      BY <3>1, CutSays
  <2>2. last \in Nat
    BY LeftToCutIs
  <2> HIDE DEF r
  <2>3. /\ AfterCut(here, r) \in SplitPlaces(s)
        /\ LeftToCut(s, AfterCut(here, r)) < LeftToCut(s, here)
        /\ r.from \in Nat /\ r.to \in Nat
    BY <2>1, CutGoesOn
  <2> HIDE DEF last
  <2>4. PieceAndGroups(last, r, groups) \in Seq(Nat \X Nat)
    BY <2>2, <2>3, PieceAndGroupsAre
  <2> HIDE DEF Call
  <2> QED
    BY <2>3, <2>4 DEF r, last
<1>3. ASSUME NEW here \in D, here \notin stop
      PROVE  next[here] \in D /\ measure[next[here]] < measure[here]
  <2>1. CASE Cutting(here)
    <3>1. next[here] = AfterCut(here, Call(here))
      BY <2>1
    <3> HIDE DEF next, stop, Cutting, Call
    <3> QED
      BY <1>2, <2>1, <3>1
  <2>2. CASE ~ Cutting(here)
    <3>1. next[here] = AfterNoCut(s, here) /\ here[4] /\ here[1] < Length(s)
      <4>1. Missing(here)
        <5> HIDE DEF Cutting, Missing, D
        <5> QED
          BY <1>3, <2>2
      <4>2. next[here] = AfterNoCut(s, here)
        <5> HIDE DEF Cutting
        <5> QED
          BY <2>2
      <4> QED
        BY Zenon, <4>1, <4>2
    <3>2. /\ AfterNoCut(s, here) \in SplitPlaces(s)
          /\ LeftToCut(s, AfterNoCut(s, here)) < LeftToCut(s, here)
      <4> HIDE DEF next, stop
      <4> QED
        BY <3>1, NoCutGoesOn
    <3> HIDE DEF next, stop
    <3> QED
      BY <3>1, <3>2
  <2> QED
    BY <2>1, <2>2
<1>4. IsListwise(D, S, N, measure, stop, tail, head, next)
  <2>1. measure \in [D -> 0..N]
    <3>1. \A here \in D : LeftToCut(s, here) \in 0..N
      BY LeftToCutIs
    <3> HIDE DEF D, N
    <3> QED
      BY <3>1
  <2>2. ASSUME NEW here \in D PROVE tail[here] \in Seq(S)
    <3>1. tail[here] = IF Failing(here) THEN <<Call(here).rc>> ELSE Rest(here)
      OBVIOUS
    <3> DEFINE rc == Call(here).rc
               rest == <<here[2], Length(s)>>
    <3>2. rc \in S
      OBVIOUS
    <3>3. rest \in S
      <4>1. here[2] \in Nat /\ Length(s) \in Nat
        BY LeftToCutIs
      <4>2. rest \in Nat \X Nat
        BY <4>1
      <4> HIDE DEF rest
      <4> QED
        BY <4>2
    <3>4. tail[here] = <<rc>> \/ tail[here] = <<rest>>
      <4> HIDE DEF tail, Failing, Call
      <4> QED
        BY <3>1
    <3> HIDE DEF tail, S, rc, rest
    <3>5. <<rc>> \in Seq(S) /\ <<rest>> \in Seq(S)
      BY <3>2, <3>3
    <3> QED
      BY <3>4, <3>5
  <2>3. ASSUME NEW here \in D PROVE head[here] \in Seq(S)
    <3>1. head[here] = IF Cutting(here) THEN Piece(here) ELSE <<>>
      OBVIOUS
    <3>2. Nat \X Nat \subseteq S
      OBVIOUS
    <3> HIDE DEF head, S, Cutting, Piece
    <3>3. Cutting(here) => Piece(here) \in Seq(S)
      BY <1>2, <3>2, SeqMonotonic
    <3>4. <<>> \in Seq(S)
      OBVIOUS
    <3> QED
      BY <3>1, <3>3, <3>4
  <2>4. tail = [here \in D |-> tail[here]] /\ head = [here \in D |-> head[here]]
    OBVIOUS
  <2> HIDE DEF D, S, N, measure, stop, tail, head, next
  <2>5. tail \in [D -> Seq(S)] /\ head \in [D -> Seq(S)]
    BY <2>2, <2>3, <2>4
  <2> QED
    BY <1>3, <2>1, <2>5 DEF IsListwise
<1>5. PICK f \in [D -> Seq(S)] : IsList(D, f, stop, tail, head, next)
  <2> HIDE DEF D, S, N, measure, stop, tail, head, next
  <2> QED
    BY <1>1, <1>4, ListRecursion
<1>6. ASSUME NEW here \in D PROVE f[here] = CutsOf(s, m, maxsplit, groups, state, f, here)
  <2>1. f[here] = IF here \in stop THEN tail[here] ELSE head[here] \o f[next[here]]
    <3> HIDE DEF D, S, stop, tail, head, next
    <3> QED
      BY <1>5 DEF IsList
  <2>2. here \notin stop => f[next[here]] \in Seq(S)
    <3> HIDE DEF D, S, stop, measure, next
    <3> QED
      BY <1>3
  <2>3. /\ tail[here] = IF Failing(here) THEN <<Call(here).rc>> ELSE Rest(here)
        /\ head[here] = IF Cutting(here) THEN Piece(here) ELSE <<>>
        /\ next[here] = IF Cutting(here) THEN AfterCut(here, Call(here)) ELSE AfterNoCut(s, here)
        /\ here \in stop <=> ~ Cutting(here) /\ ~ Missing(here)
    <3> HIDE DEF D, Cutting, Missing, Failing, Call, Piece, Rest
    <3> QED
      OBVIOUS
  <2> HIDE DEF stop, tail, head, next, D, S
  <2>4. CASE Cutting(here)
    <3>1. f[here] = Piece(here) \o f[AfterCut(here, Call(here))]
      <4> HIDE DEF Cutting, Missing, Failing, Call, Piece, Rest
      <4> QED
        BY <2>1, <2>3, <2>4
    <3> QED
      BY Zenon, <2>4, <3>1 DEF CutsOf
  <2>5. CASE Missing(here)
    <3>1. ~ Cutting(here)
      BY Zenon, <2>5
    <3>2. f[here] = f[AfterNoCut(s, here)]
      <4> HIDE DEF Cutting, Missing, Failing, Call, Piece, Rest
      <4>1. here \notin stop /\ next[here] = AfterNoCut(s, here) /\ head[here] = <<>>
        BY <2>3, <2>5, <3>1
      <4>2. <<>> \o f[next[here]] = f[next[here]]
        BY <2>2, <4>1, ConcatEmptySeq
      <4> QED
        BY <2>1, <4>1, <4>2
    <3> QED
      BY Zenon, <2>5, <3>2 DEF CutsOf
  <2>6. CASE ~ Cutting(here) /\ ~ Missing(here)
    <3>1. f[here] = IF Failing(here) THEN <<Call(here).rc>> ELSE Rest(here)
      <4> HIDE DEF Cutting, Missing, Failing, Call, Rest
      <4> QED
        BY <2>1, <2>3, <2>6
    <3>2. CASE Failing(here)
      <4>1. f[here] = <<Call(here).rc>>
        <5> HIDE DEF Failing, Call, Rest
        <5> QED
          BY <3>1, <3>2
      <4> QED
        BY Zenon, <3>2, <4>1 DEF CutsOf
    <3>3. CASE ~ Failing(here)
      <4>1. f[here] = Rest(here)
        <5> HIDE DEF Failing, Call, Rest
        <5> QED
          BY <3>1, <3>3
      <4> QED
        BY Zenon, <2>6, <3>3, <4>1 DEF CutsOf
    <3> HIDE DEF Failing
    <3> QED
      BY <3>2, <3>3
  <2> HIDE DEF Cutting, Missing
  <2> QED
    BY <2>4, <2>5, <2>6
<1>7. Goes(f)
  <2>1. f = [here \in D |-> f[here]]
    <3> HIDE DEF D, S, stop, tail, head, next
    <3>1. f \in [D -> Seq(S)]
      OBVIOUS
    <3> QED
      BY ONLY <3>1
  <2>2. [here \in D |-> f[here]] = [here \in D |-> CutsOf(s, m, maxsplit, groups, state, f, here)]
    <3> HIDE DEF D
    <3> QED
      BY Zenon, <1>6
  <2> HIDE DEF D
  <2> QED
    BY Zenon, <2>1, <2>2
<1> DEFINE scan == SplitScan(s, m, maxsplit, groups, state)
<1>8. Goes(scan)
  <2>1. scan = CHOOSE h : Goes(h)
    BY DEF SplitScan
  <2> HIDE DEF Goes, scan
  <2> QED
    BY <1>7, <2>1
<1> HIDE DEF scan
<1>9. \A here \in D : scan[here] = CutsOf(s, m, maxsplit, groups, state, scan, here)
  <2> HIDE DEF D
  <2> QED
    BY <1>8
<1> QED
  BY <1>9 DEF scan

\* What is left of the matches once so many of them are done.
IsRest(all0, rest, done) ==
  Len(all0) = done + Len(rest) /\ \A i \in 1..Len(rest) : all0[done + i] = rest[i]

LEMMA RestIsLess ==
  ASSUME NEW all0 \in Seq(Nat \X Nat), NEW x \in Nat \X Nat, NEW less \in Seq(Nat \X Nat), NEW done \in Nat,
         IsRest(all0, <<x>> \o less, done)
  PROVE  IsRest(all0, less, done + 1) /\ all0[done + 1] = x /\ done < Len(all0)
<1> DEFINE rest == <<x>> \o less
<1>1. /\ Len(rest) = Len(less) + 1 /\ Len(less) \in Nat /\ rest[1] = x /\ Len(all0) \in Nat
      /\ \A i \in 1..Len(less) : rest[i + 1] = less[i]
  <2>1. <<x>> \in Seq(Nat \X Nat) /\ Len(<<x>>) = 1 /\ <<x>>[1] = x
    OBVIOUS
  <2> QED
    BY <2>1, ConcatProperties
<1>2. Len(all0) = done + Len(rest) /\ \A i \in 1..Len(rest) : all0[done + i] = rest[i]
  BY DEF IsRest
<1> HIDE DEF rest
<1>3. all0[done + 1] = x /\ done < Len(all0)
  <2>1. 1 \in 1..Len(rest) /\ done < done + Len(rest)
    BY <1>1
  <2>2. all0[done + 1] = rest[1]
    BY <1>2, <2>1
  <2> QED
    BY <1>1, <1>2, <2>1, <2>2
<1>4. Len(all0) = (done + 1) + Len(less)
  BY <1>1, <1>2
<1>5. ASSUME NEW i \in 1..Len(less) PROVE all0[(done + 1) + i] = less[i]
  <2>1. i + 1 \in 1..Len(rest) /\ done + (i + 1) = (done + 1) + i
    BY <1>1
  <2> QED
    BY <1>1, <1>2, <2>1
<1> QED
  BY <1>3, <1>4, <1>5 DEF IsRest

\* A place of split's scan at a character.
CutPlace(s, c, last, done, adv) == <<s.at[c], last, done, adv>>

LEMMA CutPlaceIs ==
  ASSUME NEW s, IsSubject(s), NEW c \in 0..Chars(s), NEW last \in 0..Length(s), NEW done \in Nat,
         NEW adv \in BOOLEAN
  PROVE  /\ CutPlace(s, c, last, done, adv) \in SplitPlaces(s)
         /\ CutPlace(s, c, last, done, adv)[1] = s.at[c] /\ CutPlace(s, c, last, done, adv)[2] = last
         /\ CutPlace(s, c, last, done, adv)[3] = done /\ CutPlace(s, c, last, done, adv)[4] = adv
<1>1. s.at[c] \in 0..Length(s)
  BY PlacesInSubject
<1> QED
  BY <1>1 DEF CutPlace, SplitPlaces

AreSpans(q) == q \in Seq(Nat \X Nat)

\* From each character on split cuts at the matches there are, as long as it is to.
LEMMA SplitScanCuts ==
  ASSUME NEW s, IsSubject(s), FitsItsKind(s), NEW m, IsPattern(s, m), NEW maxsplit \in Int,
         NEW groups \in Nat, NEW state \in JitStates, NEW all0, AreSpans(all0), NEW used, used = UpTo(all0, maxsplit)
  PROVE  \A c \in 0..Chars(s), adv \in BOOLEAN, done \in 0..Len(used) :
           /\ IsRest(all0, InBytes(s, Sequel(m, Chars(s))[<<c, adv>>]), done)
           /\ LastEnd(used, done) \in 0..Length(s)
           => SplitScan(s, m, maxsplit, groups, state)[CutPlace(s, c, LastEnd(used, done), done, adv)]
                = PiecesOf(s, used, groups)[done]
<1>0. PICK e \in 0..Chars(s) : e = Chars(s)
  BY PlacesInSubject
<1> DEFINE f == SplitScan(s, m, maxsplit, groups, state)
           pieces == PiecesOf(s, used, groups)
           Right(c, adv) ==
             \A done \in 0..Len(used) :
               /\ IsRest(all0, InBytes(s, Sequel(m, e)[<<c, adv>>]), done)
               /\ LastEnd(used, done) \in 0..Length(s)
               => f[CutPlace(s, c, LastEnd(used, done), done, adv)] = pieces[done]
           N == 2 * e + 1
           Rest(c, adv) == 2 * (e - c) + (IF adv THEN 0 ELSE 1)
           S == {n \in 0..N : \A c \in 0..e, adv \in BOOLEAN : Rest(c, adv) = n => Right(c, adv)}
<1>1. /\ e \in Nat /\ e \in 0..e /\ N \in Nat /\ Length(s) \in Nat /\ s.at[e] = Length(s)
      /\ e = Chars(s)
  BY <1>0, PlacesInSubject
<1>2. IsSequel(m, e, Sequel(m, e))
  BY <1>1, SequelIs
<1>9. e \in Nat /\ Chars(s) = e
  BY <1>1
<1>3. /\ Len(used) \in 0..Len(all0) /\ Len(all0) \in Nat
      /\ \A i \in 1..Len(used) : used[i] = all0[i]
      /\ \A done \in 0..Len(used) :
           /\ EnoughSplits(maxsplit, done) => done = Len(used)
           /\ ~ EnoughSplits(maxsplit, done) /\ done < Len(all0) => done < Len(used)
  <2>1. all0 \in Seq(Nat \X Nat)
    BY DEF AreSpans
  <2>2. Len(all0) \in Nat
    BY <2>1
  <2> QED
    BY <2>1, <2>2, UsedAre
<1>4. PiecesGoOn(s, used, groups)
  <2>1. used \in Seq(Nat \X Nat)
    BY UsedAre DEF AreSpans
  <2>2. Length(s) \in Nat
    BY PlacesInSubject
  <2> QED
    BY <2>1, <2>2, PiecesAre
<1>8. \A here \in SplitPlaces(s) : f[here] = CutsOf(s, m, maxsplit, groups, state, f, here)
  BY SplitScanIs
<1>5. ASSUME NEW n \in 0..N, \A k \in 0..n - 1 : k \in S PROVE n \in S
  <2> SUFFICES ASSUME NEW c \in 0..e, NEW adv \in BOOLEAN, Rest(c, adv) = n,
                      NEW done \in 0..Len(used),
                      IsRest(all0, InBytes(s, Sequel(m, e)[<<c, adv>>]), done),
                      LastEnd(used, done) \in 0..Length(s)
               PROVE  f[CutPlace(s, c, LastEnd(used, done), done, adv)] = pieces[done]
    OBVIOUS
  <2> DEFINE last == LastEnd(used, done)
             here == CutPlace(s, c, last, done, adv)
             r == CutAt(s, m, state, here)
  <2>1. done \in Nat /\ last \in 0..Length(s) /\ c \in 0..Chars(s) /\ c \in Nat
    BY <1>9
  <2>2. here \in SplitPlaces(s) /\ here[1] = s.at[c] /\ here[2] = last /\ here[3] = done /\ here[4] = adv
    <3> HIDE DEF here, last
    <3>1. /\ CutPlace(s, c, last, done, adv) \in SplitPlaces(s)
          /\ CutPlace(s, c, last, done, adv)[1] = s.at[c] /\ CutPlace(s, c, last, done, adv)[2] = last
          /\ CutPlace(s, c, last, done, adv)[3] = done /\ CutPlace(s, c, last, done, adv)[4] = adv
      BY ONLY <2>1, IsSubject(s), adv \in BOOLEAN, CutPlaceIs
    <3> QED
      BY <3>1 DEF here
  <2>3. ASSUME NEW d \in 0..e, NEW a \in BOOLEAN, Rest(d, a) < Rest(c, adv) PROVE Right(d, a)
    <3>1. Rest(d, a) \in 0..n - 1
      <4>1. Rest(d, a) \in Nat /\ n \in Nat
        BY <1>9
      <4>2. Rest(d, a) < n
        BY <2>3
      <4> HIDE DEF Rest
      <4> QED
        BY <4>1, <4>2
    <3> HIDE DEF Right, Rest
    <3>2. Rest(d, a) \in S
      <4> HIDE DEF S
      <4> QED
        BY <1>5, <3>1
    <3> QED
      BY <3>2
  <2>4. r = HitAt(s, m, e, c, adv)
    <3> DEFINE may == state # "off"
               check == ~ SubjectIsBytes(s)
    <3>1. may \in BOOLEAN /\ check \in BOOLEAN
      BY DEF SubjectIsBytes
    <3>2. r = ScanMatch(s, m, s.at[e], s.at[c], adv, [Plain EXCEPT !.no_utf_check = check], may, state)
      <4> HIDE DEF here
      <4> QED
        BY <1>1, <2>2 DEF CutAt
    <3>3. IsSubject(s) /\ IsPattern(s, m) /\ e \in 0..Chars(s) /\ c \in 0..e /\ adv \in BOOLEAN
      OBVIOUS
    <3>4. state \in JitStates
      OBVIOUS
    <3> HIDE DEF r, may, check
    <3> QED
      BY ONLY <3>1, <3>2, <3>3, <3>4, ScanFinds
  <2>5. f[here] = CutsOf(s, m, maxsplit, groups, state, f, here)
    <3> HIDE DEF f, here
    <3> QED
      BY ONLY <1>8, <2>2
  <2>6. CASE EnoughSplits(maxsplit, done)
    <3>1. pieces[done] = <<<<last, Length(s)>>>>
      <4> HIDE DEF pieces
      <4> QED
        BY <1>3, <1>4, <2>6 DEF pieces, PiecesGoOn
    <3>2. EnoughSplits(maxsplit, here[3]) /\ <<<<here[2], Length(s)>>>> = <<<<last, Length(s)>>>>
      <4> HIDE DEF here, last
      <4> QED
        BY <2>2, <2>6
    <3>3. f[here] = <<<<here[2], Length(s)>>>>
      <4> HIDE DEF f, here
      <4> QED
        BY Zenon, <2>5, <3>2 DEF CutsOf
    <3> HIDE DEF f, pieces, here, last
    <3> QED
      BY <3>1, <3>2, <3>3 DEF here, last
  <2>7. CASE ~ EnoughSplits(maxsplit, done) /\ Hit(m, e, c, adv)
    <3>1. StartsFrom(m, e, <<c, adv>>) # {}
      BY <1>1, <2>7, HitsAreStarts
    <3>2. PICK k \in c..e, l \in Nat : IsFirstSpan(m, e, c, adv, k, l)
      BY <1>1, <3>1, FirstSpanIs
    <3> DEFINE j == k + l
    <3>3. /\ FirstSpan(m, e, <<c, adv>>) = <<k, j>> /\ j \in k..e
          /\ AfterSpan(m, e, <<c, adv>>) = <<j, l = 0>>
          /\ adv /\ k = c => l # 0
      BY <3>2 DEF IsFirstSpan
    <3>4. (l = 0) = (k = j) /\ l = j - k
      BY <1>1
    <3>5. r = Matched(s.at[k], s.at[j])
      BY <2>4, <2>7, <3>3 DEF HitAt
    <3> HIDE DEF j
    <3>6. k \in 0..Chars(s) /\ j \in 0..Chars(s) /\ c <= k /\ k <= j /\ k \in 0..e /\ j \in 0..e
      BY <1>9, <3>3
    <3>7. r.rc = "match" /\ r.from = s.at[k] /\ r.to = s.at[j]
      BY <3>5, MatchedIsMatch
    <3>8. /\ s.at[k] \in 0..Length(s) /\ s.at[j] \in 0..Length(s)
          /\ s.at[k] = s.at[j] <=> k = j
      BY <3>6, PlacesInSubject
    <3> DEFINE empty == (k = j)
               span == <<s.at[k], s.at[j]>>
               q == Sequel(m, e)[<<j, k = j>>]
    <3>9. Sequel(m, e)[<<c, adv>>] = <<<<k, j>>>> \o q
      BY <1>2, <3>1, <3>3, <3>4 DEF IsSequel
    <3>10. q \in Seq((0..Chars(s)) \X (0..Chars(s)))
      <4>1. (k = j) \in BOOLEAN
        OBVIOUS
      <4> QED
        BY <1>1, <1>2, <3>6, <4>1 DEF IsSequel
    <3> HIDE DEF q
    <3>11. InBytes(s, <<<<k, j>>>> \o q) = <<span>> \o InBytes(s, q)
      BY <3>6, <3>10, FirstSpanInBytes
    <3>12. IsRest(all0, InBytes(s, q), done + 1) /\ all0[done + 1] = span /\ done < Len(all0)
      <4>1. IsRest(all0, <<span>> \o InBytes(s, q), done)
        BY <3>9, <3>11
      <4>2. InBytes(s, q) \in Seq(Nat \X Nat)
        BY <3>10, SpansInBytes
      <4>3. span \in Nat \X Nat
        BY <3>8
      <4> HIDE DEF span
      <4> QED
        BY <2>1, <4>1, <4>2, <4>3, RestIsLess DEF AreSpans
    <3>13. done # Len(used) /\ done + 1 \in 0..Len(used) /\ done + 1 \in 1..Len(used) /\ used[done + 1] = span
      <4>1. done < Len(used)
        BY <1>3, <2>7, <3>12
      <4>2. done + 1 \in 1..Len(used)
        BY <1>3, <2>1, <4>1
      <4> HIDE DEF span
      <4> QED
        BY <1>3, <2>1, <3>12, <4>1, <4>2
    <3>14. LastEnd(used, done + 1) = s.at[j]
      <4>1. done + 1 # 0 /\ used[done + 1][2] = s.at[j]
        BY <2>1, <3>13
      <4> QED
        BY <4>1 DEF LastEnd
    <3>15. pieces[done] = <<<<last, s.at[k]>>>> \o GroupValues(groups, span) \o pieces[done + 1]
      <4>1. used[done + 1][1] = s.at[k]
        BY <3>13
      <4> HIDE DEF pieces, span, last
      <4> QED
        BY <1>4, <3>13, <4>1 DEF last, pieces, PiecesGoOn
    <3>16. AfterCut(here, r) = CutPlace(s, j, s.at[j], done + 1, empty)
      <4>1. EndsEmpty(r.from, r.to) = empty
        BY <3>7, <3>8 DEF EndsEmpty
      <4> HIDE DEF here, r, empty
      <4> QED
        BY <2>2, <3>7, <4>1 DEF AfterCut, NextPiece, CutPlace
    <3>17. PieceAndGroups(here[2], r, groups) = <<<<last, s.at[k]>>>> \o GroupValues(groups, span)
      <4> HIDE DEF here, r, last
      <4> QED
        BY <2>2, <3>7 DEF PieceAndGroups, GroupValues
    <3>18. f[here] = PieceAndGroups(here[2], r, groups) \o f[AfterCut(here, r)]
      <4>1. ~ EnoughSplits(maxsplit, here[3])
        <5> HIDE DEF here
        <5> QED
          BY <2>2, <2>7
      <4> HIDE DEF f, here
      <4> QED
        BY Zenon, <2>5, <3>7, <4>1 DEF CutsOf
    <3>19. f[CutPlace(s, j, s.at[j], done + 1, empty)] = pieces[done + 1]
      <4>1. empty \in BOOLEAN /\ (empty => l = 0) /\ (~ empty => l # 0)
        BY ONLY <3>4 DEF empty
      <4>2. Rest(j, empty) < Rest(c, adv)
        <5>1. CASE empty /\ k = c
          <6>1. ~ adv
            BY <3>3, <4>1, <5>1
          <6>2. e \in Nat /\ c \in Nat /\ j = c
            BY <1>9, <2>1, <5>1
          <6>3. Rest(j, empty) = 2 * (e - c) + 0
            BY ONLY <5>1, <6>2 DEF Rest
          <6>4. Rest(c, adv) = 2 * (e - c) + 1
            BY ONLY <6>1 DEF Rest
          <6> HIDE DEF Rest
          <6> QED
            BY ONLY <6>2, <6>3, <6>4
        <5>2. CASE ~ empty \/ k # c
          <6>1. j > c
            BY <1>9, <2>1, <3>4, <3>6, <4>1, <5>2
          <6> HIDE DEF empty
          <6> QED
            BY <1>9, <2>1, <3>6, <6>1
        <5> QED
          BY <5>1, <5>2
      <4>3. Right(j, empty)
        <5> HIDE DEF empty, Right, Rest
        <5> QED
          BY <2>3, <3>6, <4>1, <4>2
      <4>4. IsRest(all0, InBytes(s, Sequel(m, e)[<<j, empty>>]), done + 1)
        BY <3>12 DEF q
      <4>5. LastEnd(used, done + 1) \in 0..Length(s) /\ done + 1 \in 0..Len(used)
        BY <3>8, <3>13, <3>14
      <4>6. f[CutPlace(s, j, LastEnd(used, done + 1), done + 1, empty)] = pieces[done + 1]
        <5> HIDE DEF f, pieces, empty
        <5> QED
          BY <4>3, <4>4, <4>5
      <4> HIDE DEF f, pieces, empty
      <4> QED
        BY <3>14, <4>6
    <3> HIDE DEF f, pieces, here, last, r, span, empty
    <3>20. f[here] = pieces[done]
      BY <3>15, <3>16, <3>17, <3>18, <3>19
    <3> QED
      BY <3>20 DEF here, last
  <2>8. CASE ~ EnoughSplits(maxsplit, done) /\ ~ Hit(m, e, c, adv)
    <3>1. r.rc # "match" /\ r.rc = "no match"
      <4>1. r = NoMatch
        BY <2>4, <2>8 DEF HitAt
      <4>2. NoMatch.rc # "match" /\ NoMatch.rc = "no match"
        BY DEF NoMatch, Outcome
      <4> HIDE DEF r
      <4> QED
        BY <4>1, <4>2
    <3>2. f[here] = IF here[4] /\ here[1] < Length(s) THEN f[AfterNoCut(s, here)]
                    ELSE <<<<here[2], Length(s)>>>>
      <4>1. ~ EnoughSplits(maxsplit, here[3])
        <5> HIDE DEF here
        <5> QED
          BY <2>2, <2>8
      <4> HIDE DEF f, here
      <4> QED
        BY Zenon, <2>5, <3>1, <4>1 DEF CutsOf
    <3>3. s.at[c] < Length(s) <=> c < e
      <4>1. c \in 0..Chars(s) /\ e \in 0..Chars(s) /\ s.at[e] = Length(s)
        BY <1>1, <2>1
      <4>2. s.at[c] < s.at[e] <=> c < e
        BY <4>1, PlacesInSubject
      <4> QED
        BY <4>1, <4>2
    <3>4. f[here] = IF adv /\ c < e THEN f[AfterNoCut(s, here)] ELSE <<<<last, Length(s)>>>>
      <4> HIDE DEF f, here, last
      <4> QED
        BY <2>2, <3>2, <3>3
    <3>5. ASSUME Sequel(m, e)[<<c, adv>>] = <<>> PROVE pieces[done] = <<<<last, Length(s)>>>>
      <4>1. InBytes(s, <<>>) = <<>>
        <5>1. <<>> \in Seq((0..Chars(s)) \X (0..Chars(s)))
          OBVIOUS
        <5> QED
          BY <5>1, SpansInBytes
      <4>2. IsRest(all0, <<>>, done)
        BY <3>5, <4>1
      <4>3. Len(<<>>) = 0
        OBVIOUS
      <4>4. done = Len(all0)
        BY <1>3, <2>1, <4>2, <4>3 DEF IsRest
      <4>5. done = Len(used)
        BY <1>3, <4>4
      <4>6. done \in 0..Len(used)
        OBVIOUS
      <4> QED
        BY ONLY <1>4, <4>5, <4>6 DEF pieces, last, PiecesGoOn
    <3>6. CASE adv /\ c < e
      <4>1. adv = TRUE /\ c \in 0..Chars(s) - 1 /\ c + 1 \in 0..e
        <5>1. adv = TRUE
          BY ONLY adv \in BOOLEAN, <3>6
        <5> QED
          BY ONLY c \in 0..e, <1>9, <3>6, <5>1
      <4>2. AfterNoCut(s, here) = CutPlace(s, c + 1, last, done, FALSE)
        <5> DEFINE single == SingleByteSubject(s)
        <5>1. single \in BOOLEAN /\ (single => \A k \in 1..Chars(s) : WidthOf[s.text[k]] = 1)
          BY SingleBytes DEF SingleByteSubject
        <5>2. AfterNoCut(s, here) = <<advance_one_character(s, here[1], single), here[2], here[3], FALSE>>
          BY DEF AfterNoCut
        <5> HIDE DEF single
        <5>3. advance_one_character(s, s.at[c], single) = s.at[IF c < Chars(s) THEN c + 1 ELSE c]
          BY <2>1, <5>1, StepOverCharacter
        <5>4. advance_one_character(s, s.at[c], single) = s.at[c + 1]
          BY <1>9, <3>6, <5>3
        <5> HIDE DEF here, last
        <5> QED
          BY <2>2, <5>2, <5>4 DEF CutPlace
      <4>3. Sequel(m, e)[<<c, adv>>] = Sequel(m, e)[<<c + 1, FALSE>>]
        <5>1. ~ Hit(m, e, c, TRUE)
          BY <2>8, <4>1
        <5>2. Sequel(m, e)[<<c, TRUE>>] = Sequel(m, e)[<<c + 1, FALSE>>]
          BY <1>1, <3>6, <5>1, NothingHere
        <5> QED
          BY <4>1, <5>2
      <4>4. f[CutPlace(s, c + 1, last, done, FALSE)] = pieces[done]
        <5> DEFINE no == FALSE
        <5>1. no \in BOOLEAN /\ Rest(c + 1, no) < Rest(c, adv)
          BY <1>9, <2>1, <4>1
        <5>2. IsRest(all0, InBytes(s, Sequel(m, e)[<<c + 1, no>>]), done)
          BY <4>3
        <5>3. Right(c + 1, no)
          <6> HIDE DEF no, Right, Rest
          <6> QED
            BY <2>3, <4>1, <5>1
        <5> HIDE DEF no, f, pieces
        <5>4. f[CutPlace(s, c + 1, LastEnd(used, done), done, no)] = pieces[done]
          BY <5>2, <5>3
        <5> QED
          BY <5>4 DEF no
      <4> HIDE DEF f, pieces, here, last
      <4>5. f[here] = pieces[done]
        BY <3>4, <3>6, <4>2, <4>4
      <4> QED
        BY <4>5 DEF here, last
    <3>7. CASE adv /\ ~ (c < e)
      <4>1. adv = TRUE /\ c = e
        BY <1>1, <3>7
      <4>2. Sequel(m, e)[<<c, adv>>] = <<>>
        <5>1. ~ Hit(m, e, c, TRUE)
          BY <2>8, <4>1
        <5>2. Sequel(m, e)[<<c, TRUE>>] = <<>>
          BY <1>1, <4>1, <5>1, NothingHere
        <5> QED
          BY <4>1, <5>2
      <4> HIDE DEF f, pieces, here, last
      <4>3. f[here] = pieces[done]
        BY <3>4, <3>5, <3>7, <4>2
      <4> QED
        BY <4>3 DEF here, last
    <3>8. CASE ~ adv
      <4>1. adv = FALSE
        BY <3>8
      <4>2. StartsFrom(m, e, <<c, FALSE>>) = {}
        BY <2>8, <4>1 DEF Hit
      <4>3. Sequel(m, e)[<<c, adv>>] = <<>>
        BY <1>2, <4>1, <4>2 DEF IsSequel
      <4> HIDE DEF f, pieces, here, last
      <4>4. f[here] = pieces[done]
        BY <3>4, <3>5, <3>8, <4>3
      <4> QED
        BY <4>4 DEF here, last
    <3> QED
      BY <3>6, <3>7, <3>8
  <2> QED
    BY <2>6, <2>7, <2>8
<1>6. 0..N \subseteq S
  <2> HIDE DEF S, N
  <2> QED
    BY <1>1, <1>5, NumbersIn
<1>7. ASSUME NEW c \in 0..e, NEW adv \in BOOLEAN PROVE Right(c, adv)
  <2>1. Rest(c, adv) \in 0..N
    BY <1>1
  <2>2. Rest(c, adv) \in S
    <3> HIDE DEF S, N, Rest
    <3> QED
      BY <1>6, <2>1
  <2> HIDE DEF Right, Rest
  <2> QED
    BY <2>2
<1> QED
  BY <1>1, <1>7

\* All matches of a subject.
LEMMA AllMatches ==
  ASSUME NEW s, IsSubject(s), NEW m, IsPattern(s, m)
  PROVE  /\ Matches(s, m, 0, -1) = InBytes(s, Sequel(m, Chars(s))[<<0, FALSE>>])
         /\ AreSpans(Matches(s, m, 0, -1))
<1> DEFINE x == Range0(s, 0, -1)
           e == Chars(s)
<1>1. /\ e \in Nat /\ 0 \in 0..e /\ e \in 0..e /\ LogicalLength(s) \in Nat /\ Length(s) \in Nat
      /\ s.at[0] = 0 /\ s.at[e] = Length(s) /\ CharAt(s, s.at[0]) = 0 /\ CharAt(s, s.at[e]) = e
      /\ s.at[0] \in Boundaries(s) /\ s.at[e] \in Boundaries(s)
  BY PlacesInSubject, PlacesAre
<1>2. x.pos = 0 /\ x.end = LogicalLength(s)
  BY <1>1 DEF Range0, ClampTo, LowerOf
<1>3. ByteOf(s, x.pos) = s.at[0] /\ ByteOf(s, x.end) = s.at[e]
  <2>1. ByteOf(s, LogicalLength(s)) = Length(s)
    BY PlacesAre
  <2>2. ByteOf(s, 0) = 0
    BY <1>1 DEF ByteOf
  <2> HIDE DEF x
  <2> QED
    BY <1>1, <1>2, <2>1, <2>2
<1>4. Sound(s, 0, -1)
  BY <1>1, <1>3 DEF Sound
<1>5. Matches(s, m, 0, -1)
        = IF ~ Sound(s, 0, -1) \/ x.end < x.pos THEN <<>>
          ELSE InBytes(s, MatchesFrom(m, CharAt(s, ByteOf(s, x.pos)), CharAt(s, ByteOf(s, x.end))))
  BY DEF Matches
<1>6. ~ (x.end < x.pos)
  <2> HIDE DEF x
  <2> QED
    BY <1>1, <1>2
<1>7. IsSequel(m, e, Sequel(m, e)) /\ MatchesFrom(m, 0, e) = Sequel(m, e)[<<0, FALSE>>]
  <2>1. IsSequel(m, e, Sequel(m, e)) /\ \A p \in 0..e : MatchesFrom(m, p, e) = Sequel(m, e)[<<p, FALSE>>]
    BY <1>1, SequelIs
  <2> QED
    BY Zenon, <1>1, <2>1
<1>8. Matches(s, m, 0, -1) = InBytes(s, Sequel(m, e)[<<0, FALSE>>])
  <2> HIDE DEF x, e
  <2> QED
    BY <1>1, <1>3, <1>4, <1>5, <1>6, <1>7
<1>9. Sequel(m, e)[<<0, FALSE>>] \in Seq((0..e) \X (0..e))
  <2> DEFINE no == FALSE
  <2>1. no \in BOOLEAN
    OBVIOUS
  <2> HIDE DEF no
  <2>2. Sequel(m, e)[<<0, no>>] \in Seq((0..e) \X (0..e))
    BY <1>1, <1>7, <2>1 DEF IsSequel
  <2> QED
    BY <2>2 DEF no
<1>10. AreSpans(Matches(s, m, 0, -1))
  BY <1>8, <1>9, SpansInBytes DEF AreSpans
<1> QED
  BY <1>8, <1>10

LEMMA SplitIsRight ==
  ASSUME NEW s, IsSubject(s), FitsItsKind(s), NEW m, IsPattern(s, m), NEW maxsplit \in Int,
         NEW groups \in Nat, NEW state \in JitStates
  PROVE  Pattern_split(s, m, maxsplit, groups, state) = ReferencePieces(s, m, maxsplit, groups)
<1> DEFINE all0 == Matches(s, m, 0, -1)
           used == UpTo(all0, maxsplit)
           rest == InBytes(s, Sequel(m, Chars(s))[<<0, FALSE>>])
           no == FALSE
<1>1. AreSpans(all0) /\ all0 = rest
  BY AllMatches
<1> HIDE DEF all0, rest
<1>2. used \in Seq(Nat \X Nat) /\ 0 \in 0..Len(used)
  <2>1. all0 \in Seq(Nat \X Nat)
    BY <1>1 DEF AreSpans
  <2>2. used \in Seq(Nat \X Nat)
    BY <2>1, UsedAre
  <2> HIDE DEF used
  <2>3. Len(used) \in Nat
    BY <2>2
  <2> QED
    BY <2>2, <2>3
<1>3. IsRest(all0, rest, 0)
  <2>1. Len(all0) \in Nat
    BY <1>1 DEF AreSpans
  <2> QED
    BY <1>1, <2>1 DEF IsRest
<1>4. Length(s) \in Nat /\ 0 \in 0..Chars(s) /\ s.at[0] = 0 /\ 0 \in 0..Length(s)
  BY PlacesInSubject
<1>5. LastEnd(used, 0) = 0
  BY DEF LastEnd
<1>6. no \in BOOLEAN
  OBVIOUS
<1>7. IsRest(all0, InBytes(s, Sequel(m, Chars(s))[<<0, no>>]), 0)
  BY <1>3 DEF rest
<1>13. used = UpTo(all0, maxsplit)
  OBVIOUS
<1> HIDE DEF no, used
<1>8. SplitScan(s, m, maxsplit, groups, state)[CutPlace(s, 0, LastEnd(used, 0), 0, no)]
        = PiecesOf(s, used, groups)[0]
  <2>1. 0 \in 0..Len(used) /\ LastEnd(used, 0) \in 0..Length(s)
    BY <1>2, <1>4, <1>5
  <2> QED
    BY <1>1, <1>4, <1>6, <1>7, <1>13, <2>1, SplitScanCuts
<1>9. CutPlace(s, 0, LastEnd(used, 0), 0, no) = <<0, 0, 0, FALSE>>
  BY <1>4, <1>5 DEF CutPlace, no
<1>10. Pattern_split(s, m, maxsplit, groups, state)
         = SplitScan(s, m, maxsplit, groups, state)[<<0, 0, 0, FALSE>>]
  BY SplitIsScan
<1>11. PiecesBetween(s, used, groups) = PiecesOf(s, used, groups)[0]
  BY <1>2, <1>4, PiecesAre
<1>12. ReferencePieces(s, m, maxsplit, groups) = PiecesBetween(s, used, groups)
  BY DEF ReferencePieces, used, all0
<1> QED
  BY <1>8, <1>9, <1>10, <1>11, <1>12

\* Which piece, and which of its groups, is the i-th of the pieces and groups, counted
\* from 0; how many there are of n pieces.
PieceOf(groups, i) == i \div (groups + 1)
GroupOf(groups, i) == i % (groups + 1)
Grouped(groups, n) == n + (n - 1) * groups

GroupingGoesOn(groups, n) ==
  /\ Grouped(groups, n) \in Nat \ {0}
  /\ Grouped(groups, n + 1) = groups + 1 + Grouped(groups, n)
  /\ \A i \in 0..Grouped(groups, n) - 1 :
       /\ PieceOf(groups, i) \in 0..n - 1
       /\ PieceOf(groups, i + groups + 1) = PieceOf(groups, i) + 1
       /\ GroupOf(groups, i + groups + 1) = GroupOf(groups, i)
  /\ \A i \in 0..groups : PieceOf(groups, i) = 0 /\ GroupOf(groups, i) = i

LEMMA GroupArithmetic ==
  ASSUME NEW groups \in 1..8, NEW n \in Nat \ {0}
  PROVE  GroupingGoesOn(groups, n)
<1> USE DEF GroupingGoesOn, PieceOf, GroupOf, Grouped
<1>1. CASE groups = 1
  BY <1>1
<1>2. CASE groups = 2
  BY <1>2
<1>3. CASE groups = 3
  BY <1>3
<1>4. CASE groups = 4
  BY <1>4
<1>5. CASE groups = 5
  BY <1>5
<1>6. CASE groups = 6
  BY <1>6
<1>7. CASE groups = 7
  BY <1>7
<1>8. CASE groups = 8
  BY <1>8
<1> QED
  BY ONLY groups \in 1..8, <1>1, <1>2, <1>3, <1>4, <1>5, <1>6, <1>7, <1>8

GroupedAt(pieces, width, groups, i) ==
  IF GroupOf(groups, i) = 0 THEN pieces[PieceOf(groups, i) + 1]
  ELSE <<pieces[PieceOf(groups, i) + 1][2], pieces[PieceOf(groups, i) + 1][2] + width>>

AreGrouped(w, pieces, width, groups) ==
  /\ w \in Seq(Nat \X Nat) /\ Len(w) = Grouped(groups, Len(pieces))
  /\ \A i \in 0..Grouped(groups, Len(pieces)) - 1 : w[i + 1] = GroupedAt(pieces, width, groups, i)

LEMMA WithGroupsIs ==
  ASSUME NEW q \in Seq(Nat \X Nat), Len(q) # 0, NEW width \in Nat, NEW groups \in 1..8
  PROVE  AreGrouped(WithGroups(q, width, groups), q, width, groups)
<1> DEFINE n == Len(q)
           l == Grouped(groups, n)
           At0(i) == GroupedAt(q, width, groups, i)
<1>1. n \in Nat \ {0} /\ \A i \in 1..n : q[i] \in Nat \X Nat
  OBVIOUS
<1>2. l \in Nat /\ \A i \in 0..l - 1 : PieceOf(groups, i) \in 0..n - 1
  <2> HIDE DEF n
  <2>1. GroupingGoesOn(groups, n)
    BY <1>1, GroupArithmetic
  <2> QED
    BY <2>1 DEF GroupingGoesOn
<1>3. WithGroups(q, width, groups) = [i \in 1..l |-> At0(i - 1)]
  BY DEF WithGroups, GroupedAt, PieceOf, GroupOf, Grouped
<1> HIDE DEF l, n
<1>4. ASSUME NEW i \in 0..l - 1 PROVE At0(i) \in Nat \X Nat
  <2> DEFINE j == PieceOf(groups, i)
             piece == q[j + 1]
  <2>1. j + 1 \in 1..n
    <3>1. j \in 0..n - 1
      BY <1>2
    <3> HIDE DEF j
    <3> QED
      BY <1>1, <3>1
  <2>2. piece \in Nat \X Nat
    <3> HIDE DEF j
    <3> QED
      BY <1>1, <2>1
  <2>3. At0(i) = IF GroupOf(groups, i) = 0 THEN piece ELSE <<piece[2], piece[2] + width>>
    BY DEF GroupedAt
  <2> HIDE DEF At0, piece
  <2>4. piece[2] \in Nat
    BY <2>2
  <2>5. <<piece[2], piece[2] + width>> \in Nat \X Nat
    BY <2>4
  <2> QED
    BY <2>2, <2>3, <2>5
<1>5. \A i \in 0..l - 1 : At0(i) = GroupedAt(q, width, groups, i)
  OBVIOUS
<1> HIDE DEF At0
<1>6. \A i \in 1..l : At0(i - 1) \in Nat \X Nat
  BY <1>2, <1>4
<1> DEFINE w == [i \in 1..l |-> At0(i - 1)]
<1>7. w \in Seq(Nat \X Nat) /\ Len(w) = l
  BY <1>2, <1>6
<1>8. \A i \in 0..l - 1 : w[i + 1] = At0(i)
  BY <1>2
<1>9. w = WithGroups(q, width, groups)
  BY <1>3
<1> HIDE DEF w
<1>10. \A i \in 0..l - 1 : w[i + 1] = GroupedAt(q, width, groups, i)
  BY <1>5, <1>8
<1>11. AreGrouped(w, q, width, groups)
  BY <1>7, <1>10 DEF AreGrouped, l, n
<1> QED
  BY <1>9, <1>11

LEMMA WithGroupsOfOne ==
  ASSUME NEW p \in Nat \X Nat, NEW width \in Nat, NEW groups \in 1..8
  PROVE  WithGroups(<<p>>, width, groups) = <<p>>
<1> DEFINE q == <<p>>
           w == WithGroups(q, width, groups)
<1>1. q \in Seq(Nat \X Nat) /\ Len(q) = 1 /\ q[1] = p /\ Len(q) # 0
  OBVIOUS
<1>2. Grouped(groups, 1) = 1
  BY DEF Grouped
<1>3. PieceOf(groups, 0) = 0 /\ GroupOf(groups, 0) = 0
  <2>1. GroupingGoesOn(groups, 1)
    BY GroupArithmetic
  <2>2. 0 \in 0..groups
    OBVIOUS
  <2> QED
    BY <2>1, <2>2 DEF GroupingGoesOn
<1> HIDE DEF q
<1>4. AreGrouped(w, q, width, groups)
  BY <1>1, WithGroupsIs
<1> HIDE DEF w
<1>5. w \in Seq(Nat \X Nat) /\ Len(w) = 1 /\ w[1] = GroupedAt(q, width, groups, 0)
  <2>1. 0 \in 0..1 - 1 /\ 0 + 1 = 1
    OBVIOUS
  <2> QED
    BY <1>1, <1>2, <1>4, <2>1 DEF AreGrouped
<1>6. GroupedAt(q, width, groups, 0) = p
  <2>1. 0 + 1 = 1
    OBVIOUS
  <2> QED
    BY <1>1, <1>3, <2>1 DEF GroupedAt
<1>7. w = q
  <2>1. Len(w) = Len(q) /\ \A i \in 1..Len(w) : w[i] = q[i]
    BY <1>1, <1>5, <1>6
  <2> QED
    BY <1>1, <1>5, <2>1, SeqEqual
<1> QED
  BY <1>7 DEF q, w

LEMMA WithGroupsGoesOn ==
  ASSUME NEW p \in Nat \X Nat, NEW q \in Seq(Nat \X Nat), Len(q) # 0, NEW width \in Nat, NEW groups \in 1..8
  PROVE  WithGroups(<<p>> \o q, width, groups)
           = <<p>> \o GroupValues(groups, <<p[2], p[2] + width>>) \o WithGroups(q, width, groups)
<1> DEFINE span == <<p[2], p[2] + width>>
           long == <<p>> \o q
           n == Len(q)
           d == groups + 1
           l == Grouped(groups, n)
           ones == GroupValues(groups, span)
           w == WithGroups(q, width, groups)
           v == WithGroups(long, width, groups)
           x == <<p>> \o ones
<1>1. /\ long \in Seq(Nat \X Nat) /\ Len(long) = n + 1 /\ long[1] = p
      /\ \A i \in 1..n : long[i + 1] = q[i]
      /\ n \in Nat \ {0}
  <2>1. <<p>> \in Seq(Nat \X Nat) /\ Len(<<p>>) = 1 /\ <<p>>[1] = p /\ n \in Nat \ {0}
    OBVIOUS
  <2>2. \A i \in 1..n : i + 1 \in 1..1 + n /\ i + 1 - 1 = i /\ ~ (i + 1 <= 1)
    BY <2>1
  <2> HIDE DEF n
  <2> QED
    BY <2>1, <2>2, ConcatProperties DEF n
<1>2. GroupingGoesOn(groups, n)
  <2> HIDE DEF n
  <2> QED
    BY <1>1, GroupArithmetic
<1>3. AreGrouped(w, q, width, groups)
  BY WithGroupsIs
<1>4. AreGrouped(v, long, width, groups)
  <2> HIDE DEF long
  <2>1. Len(long) # 0
    BY <1>1
  <2> QED
    BY <1>1, <2>1, WithGroupsIs
<1>5. span \in Nat \X Nat
  OBVIOUS
<1>6. x \in Seq(Nat \X Nat) /\ Len(x) = d /\ x[1] = p /\ \A i \in 1..groups : x[i + 1] = span
  <2> HIDE DEF span
  <2>1. /\ ones \in Seq(Nat \X Nat) /\ Len(ones) = groups /\ \A i \in 1..groups : ones[i] = span
        /\ <<p>> \in Seq(Nat \X Nat) /\ Len(<<p>>) = 1 /\ <<p>>[1] = p
    BY <1>5 DEF GroupValues
  <2>2. \A i \in 1..groups : i + 1 \in 1..1 + groups /\ i + 1 - 1 = i /\ ~ (i + 1 <= 1)
    OBVIOUS
  <2> HIDE DEF ones
  <2> QED
    BY <2>1, <2>2, ConcatProperties
<1> HIDE DEF x, w, v, l, n, long, ones, span
<1>7. /\ l \in Nat /\ d \in Nat /\ w \in Seq(Nat \X Nat) /\ v \in Seq(Nat \X Nat)
      /\ Len(w) = l /\ Len(v) = d + l
  <2>1. l \in Nat /\ Grouped(groups, n + 1) = groups + 1 + l
    BY <1>2 DEF GroupingGoesOn, l
  <2> QED
    BY <1>1, <1>3, <1>4, <2>1 DEF AreGrouped, l, n
<1>8. /\ x \o w \in Seq(Nat \X Nat) /\ Len(x \o w) = d + l
      /\ \A i \in 1..d : (x \o w)[i] = x[i]
      /\ \A i \in 1..l : (x \o w)[i + d] = w[i]
  <2>1. \A i \in 1..d : i \in 1..d + l /\ i <= d
    BY <1>7
  <2>2. \A i \in 1..l : i + d \in 1..d + l /\ ~ (i + d <= d) /\ (i + d) - d = i
    BY <1>7
  <2>3. x \in Seq(Nat \X Nat) /\ Len(x) = d
    BY <1>6
  <2>4. /\ x \o w \in Seq(Nat \X Nat) /\ Len(x \o w) = d + l
        /\ \A i \in 1..d + l : (x \o w)[i] = IF i <= d THEN x[i] ELSE w[i - d]
    <3> HIDE DEF d
    <3> QED
      BY <1>7, <2>3, ConcatProperties
  <2> DEFINE y == x \o w
  <2>5. \A i \in 1..d + l : y[i] = IF i <= d THEN x[i] ELSE w[i - d]
    BY <2>4
  <2> HIDE DEF d, y
  <2>6. ASSUME NEW i \in 1..d PROVE y[i] = x[i]
    BY <2>1, <2>5
  <2>7. ASSUME NEW i \in 1..l PROVE y[i + d] = w[i]
    <3>1. i + d \in 1..d + l /\ ~ (i + d <= d) /\ (i + d) - d = i
      BY <2>2
    <3> DEFINE k == i + d
    <3>2. k \in 1..d + l /\ ~ (k <= d) /\ k - d = i
      BY <3>1
    <3> HIDE DEF k
    <3>3. y[k] = w[k - d]
      BY <2>5, <3>2
    <3> QED
      BY <3>2, <3>3 DEF k
  <2> QED
    BY <2>4, <2>6, <2>7 DEF y
<1>9. ASSUME NEW i \in 0..groups PROVE v[i + 1] = (x \o w)[i + 1]
  <2>1. PieceOf(groups, i) = 0 /\ GroupOf(groups, i) = i
    BY <1>2 DEF GroupingGoesOn
  <2>2. i \in 0..d + l - 1 /\ i + 1 \in 1..d /\ 0 + 1 = 1
    BY <1>7
  <2>3. v[i + 1] = GroupedAt(long, width, groups, i)
    BY <1>4, <1>7, <2>2 DEF AreGrouped
  <2>4. GroupedAt(long, width, groups, i) = IF i = 0 THEN p ELSE span
    BY <1>1, <2>1, <2>2 DEF GroupedAt, span
  <2>5. x[i + 1] = IF i = 0 THEN p ELSE span
    <3>1. CASE i = 0
      BY <1>6, <3>1
    <3>2. CASE i # 0
      <4>1. i \in 1..groups
        BY <3>2
      <4> QED
        BY <1>6, <3>2, <4>1
    <3> QED
      BY <3>1, <3>2
  <2> QED
    BY <1>8, <2>2, <2>3, <2>4, <2>5
<1>10. ASSUME NEW i \in 0..l - 1 PROVE v[i + groups + 1 + 1] = (x \o w)[i + groups + 1 + 1]
  <2> DEFINE k == i + groups + 1
  <2>1. /\ PieceOf(groups, i) \in 0..n - 1 /\ PieceOf(groups, k) = PieceOf(groups, i) + 1
        /\ GroupOf(groups, k) = GroupOf(groups, i)
    BY <1>2 DEF GroupingGoesOn, l
  <2>2. k \in 0..d + l - 1 /\ k + 1 = (i + 1) + d /\ i + 1 \in 1..l
    BY <1>7
  <2> HIDE DEF k
  <2>3. v[k + 1] = GroupedAt(long, width, groups, k)
    BY <1>4, <1>7, <2>2 DEF AreGrouped
  <2>4. w[i + 1] = GroupedAt(q, width, groups, i)
    BY <1>3 DEF AreGrouped, l, n
  <2>5. PieceOf(groups, i) + 1 \in 1..n
    <3>1. n \in Nat /\ PieceOf(groups, i) \in 0..n - 1
      BY <1>1, <2>1
    <3> QED
      BY <3>1
  <2>6. long[PieceOf(groups, k) + 1] = q[PieceOf(groups, i) + 1]
    <3> DEFINE j == PieceOf(groups, i) + 1
    <3>1. j \in 1..n /\ PieceOf(groups, k) + 1 = j + 1
      BY <2>1, <2>5
    <3> HIDE DEF j
    <3>2. long[j + 1] = q[j]
      BY <1>1, <3>1
    <3> QED
      BY <3>1, <3>2 DEF j
  <2>7. GroupedAt(long, width, groups, k) = GroupedAt(q, width, groups, i)
    BY <2>1, <2>6 DEF GroupedAt
  <2>8. v[k + 1] = (x \o w)[k + 1]
    BY <1>8, <2>2, <2>3, <2>4, <2>7
  <2> QED
    BY <2>8 DEF k
<1>11. ASSUME NEW i \in 1..d + l PROVE v[i] = (x \o w)[i]
  <2>1. CASE i <= d
    <3>1. i - 1 \in 0..groups /\ (i - 1) + 1 = i
      BY <1>7, <2>1
    <3> QED
      BY <1>9, <3>1
  <2>2. CASE ~ (i <= d)
    <3>1. i - d - 1 \in 0..l - 1 /\ (i - d - 1) + groups + 1 + 1 = i
      BY <1>7, <2>2
    <3> QED
      BY <1>10, <3>1
  <2> QED
    BY <2>1, <2>2
<1>12. v = x \o w
  <2> DEFINE y == x \o w
  <2>1. y \in Seq(Nat \X Nat) /\ Len(v) = Len(y) /\ \A i \in 1..Len(v) : v[i] = y[i]
    BY <1>7, <1>8, <1>11
  <2> HIDE DEF y
  <2>2. v = y
    BY <1>7, <2>1, SeqEqual
  <2> QED
    BY <2>2 DEF y
<1> QED
  BY <1>12 DEF v, x, w, ones, long, span

-----------------------------------------------------------------------------
(* A pattern that is one character, on a subject.                             *)
LiteralIn(s, u) ==
  [i \in 0..Chars(s) |-> IF i < Chars(s) /\ s.text[i + 1] = u THEN <<1>> ELSE <<>>]

LEMMA LiteralIsPattern ==
  ASSUME NEW s, IsSubject(s), NEW u
  PROVE  IsPattern(s, LiteralIn(s, u))
<1>1. Chars(s) \in Nat
  BY PlacesInSubject
<1> DEFINE m == LiteralIn(s, u)
           n == Chars(s)
<1>2. m = [i \in 0..n |-> IF i < n /\ s.text[i + 1] = u THEN <<1>> ELSE <<>>]
  BY DEF LiteralIn
<1> HIDE DEF m, n
<1>3. <<1>> \in Seq(Nat) /\ <<>> \in Seq(Nat)
  OBVIOUS
<1>4. m \in [0..n -> Seq(Nat)]
  BY <1>2, <1>3
<1>5. ASSUME NEW i \in 0..n, NEW j \in DOMAIN m[i] PROVE i + m[i][j] <= n
  <2>1. m[i] = IF i < n /\ s.text[i + 1] = u THEN <<1>> ELSE <<>>
    BY <1>2
  <2>2. DOMAIN <<>> = {} /\ DOMAIN <<1>> = {1} /\ <<1>>[1] = 1
    OBVIOUS
  <2>3. i < n /\ m[i] = <<1>>
    BY <1>5, <2>1, <2>2
  <2>4. j = 1 /\ m[i][j] = 1
    BY <1>5, <2>2, <2>3
  <2> QED
    BY <1>1, <2>3, <2>4 DEF n
<1> QED
  BY <1>4, <1>5 DEF IsPattern, m, n

\* Its matches are the places of the character, one after the other.
LiteralGoesOn(s, u, e, next, c) ==
  /\ c = e => next[<<c, FALSE>>] = <<>>
  /\ c < e /\ s.text[c + 1] # u => next[<<c, FALSE>>] = next[<<c + 1, FALSE>>]
  /\ c < e /\ s.text[c + 1] = u => next[<<c, FALSE>>] = <<<<c, c + 1>>>> \o next[<<c + 1, FALSE>>]

LEMMA LiteralSequel ==
  ASSUME NEW s, IsSubject(s), NEW u, NEW e, e = Chars(s), NEW c \in 0..e
  PROVE  LiteralGoesOn(s, u, e, Sequel(LiteralIn(s, u), e), c)
<1> DEFINE m == LiteralIn(s, u)
           no == FALSE
<1>1. e \in Nat /\ c \in Nat /\ e \in 0..Chars(s) /\ no \in BOOLEAN
  BY PlacesInSubject
<1>2. IsPattern(s, m)
  BY LiteralIsPattern
<1>3. m[c] = IF c < e /\ s.text[c + 1] = u THEN <<1>> ELSE <<>>
  BY DEF LiteralIn
<1> HIDE DEF m, no
<1>4. CASE m[c] = <<>>
  <2>1. FitsFrom(m, e, <<c, no>>, c) = {}
    <3>1. DOMAIN m[c] = {}
      BY <1>4
    <3> QED
      BY <3>1 DEF FitsFrom
  <2>2. /\ c = e => Sequel(m, e)[<<c, no>>] = <<>>
        /\ c < e => Sequel(m, e)[<<c, no>>] = Sequel(m, e)[<<c + 1, FALSE>>]
    <3>1. IsSubject(s) /\ c \in 0..e
      OBVIOUS
    <3> QED
      BY ONLY <3>1, <1>1, <1>2, <2>1, NothingAt
  <2>3. ~ (c < e /\ s.text[c + 1] = u)
    <3>1. <<1>> # <<>>
      OBVIOUS
    <3> QED
      BY <1>3, <1>4, <3>1
  <2> QED
    BY <2>2, <2>3 DEF m, no, LiteralGoesOn
<1>5. CASE c < e /\ s.text[c + 1] = u
  <2>1. m[c] = <<1>> /\ DOMAIN m[c] = {1} /\ m[c][1] = 1
    BY <1>3, <1>5
  <2>2. FitsFrom(m, e, <<c, no>>, c) = {1}
    <3>1. c + m[c][1] <= e /\ m[c][1] # 0
      BY <1>1, <1>5, <2>1
    <3> QED
      BY <2>1, <3>1 DEF FitsFrom
  <2>3. c \in StartsFrom(m, e, <<c, no>>)
    <3>1. <<c, no>>[1] = c /\ c \in c..e
      BY <1>1
    <3> QED
      BY <2>2, <3>1 DEF StartsFrom
  <2>4. PICK k \in c..e, l \in Nat : IsFirstSpan(m, e, c, no, k, l)
    BY <1>1, <1>2, <2>3, FirstSpanIs
  <2>5. k = c
    <3>1. StartsFrom(m, e, <<c, no>>) \subseteq c..e
      <4>1. <<c, no>>[1] = c
        OBVIOUS
      <4> QED
        BY <4>1 DEF StartsFrom
    <3>2. StartsFrom(m, e, <<c, no>>) \subseteq Int /\ \A j \in StartsFrom(m, e, <<c, no>>) : c <= j
      BY <1>1, <3>1
    <3>3. Min(StartsFrom(m, e, <<c, no>>)) = c
      BY <2>3, <3>2, MinIs
    <3> QED
      BY <2>4, <3>3 DEF IsFirstSpan
  <2>6. l = 1
    <3>1. Min({1}) = 1
      <4>1. {1} \subseteq Int /\ 1 \in {1} /\ \A j \in {1} : 1 <= j
        OBVIOUS
      <4> QED
        BY <4>1, MinIs
    <3>2. l = LengthAt(m, e, <<c, no>>, c)
      BY <2>4, <2>5 DEF IsFirstSpan
    <3> QED
      BY <2>1, <2>2, <3>1, <3>2 DEF LengthAt
  <2>7. FirstSpan(m, e, <<c, no>>) = <<c, c + 1>> /\ AfterSpan(m, e, <<c, no>>) = <<c + 1, FALSE>>
    <3>1. FirstSpan(m, e, <<c, no>>) = <<k, k + l>> /\ AfterSpan(m, e, <<c, no>>) = <<k + l, l = 0>>
      BY <2>4 DEF IsFirstSpan
    <3>2. (l = 0) = FALSE
      BY <2>6
    <3> QED
      BY <2>5, <2>6, <3>1, <3>2
  <2>8. Sequel(m, e)[<<c, no>>] = <<<<c, c + 1>>>> \o Sequel(m, e)[<<c + 1, FALSE>>]
    <3>1. IsSequel(m, e, Sequel(m, e))
      BY <1>1, <1>2, SequelIs
    <3>2. StartsFrom(m, e, <<c, no>>) # {}
      BY <2>3
    <3>3. Sequel(m, e)[<<c, no>>]
            = <<FirstSpan(m, e, <<c, no>>)>> \o Sequel(m, e)[AfterSpan(m, e, <<c, no>>)]
      BY <1>1, <3>1, <3>2 DEF IsSequel
    <3> QED
      BY <2>7, <3>3
  <2> QED
    BY <1>1, <1>5, <2>8 DEF m, no, LiteralGoesOn
<1> QED
  BY <1>3, <1>4, <1>5

\* The scan of the built-in split, and the equation it satisfies.
SplitOf(s, u, limit, f, here) ==
  IF here[1] = Chars(s) \/ here[3] = limit THEN <<<<s.at[here[2]], Length(s)>>>>
  ELSE IF s.text[here[1] + 1] = u
    THEN <<<<s.at[here[2]], s.at[here[1]]>>>> \o f[<<here[1] + 1, here[1] + 1, here[3] + 1>>]
  ELSE f[<<here[1] + 1, here[2], here[3]>>]
LiteralPlaces(s) == (0..Chars(s)) \X (0..Chars(s)) \X Nat
LiteralScan(s, u, limit) ==
  CHOOSE scan : scan = [here \in LiteralPlaces(s) |-> SplitOf(s, u, limit, scan, here)]

LEMMA BuiltinSplitIsScan ==
  ASSUME NEW s, NEW u, NEW limit
  PROVE  BuiltinSplit(s, u, limit) = LiteralScan(s, u, limit)[<<0, 0, 0>>]
  BY DEF BuiltinSplit, LiteralScan, SplitOf, LiteralPlaces

LEMMA LiteralScanIs ==
  ASSUME NEW s, IsSubject(s), NEW u, NEW limit \in Int
  PROVE  \A here \in LiteralPlaces(s) :
           LiteralScan(s, u, limit)[here] = SplitOf(s, u, limit, LiteralScan(s, u, limit), here)
<1> DEFINE n == Chars(s)
           D == LiteralPlaces(s)
           P == Nat \X Nat
           Ends(here) == here[1] = n \/ here[3] = limit
           Cuts(here) == s.text[here[1] + 1] = u
           Rest(here) == <<s.at[here[2]], Length(s)>>
           Piece(here) == <<s.at[here[2]], s.at[here[1]]>>
           stop == {here \in D : Ends(here)}
           tail == [here \in D |-> <<Rest(here)>>]
           head == [here \in D |-> IF Cuts(here) THEN <<Piece(here)>> ELSE <<>>]
           next == [here \in D |-> IF Cuts(here) THEN <<here[1] + 1, here[1] + 1, here[3] + 1>>
                                   ELSE <<here[1] + 1, here[2], here[3]>>]
           measure == [here \in D |-> n - here[1]]
           Goes(f) == f = [here \in D |-> SplitOf(s, u, limit, f, here)]
<1>1. n \in Nat /\ Length(s) \in Nat /\ \A i \in 0..n : s.at[i] \in Nat
  <2>1. Length(s) \in Nat /\ \A i \in 0..n : s.at[i] \in 0..Length(s)
    BY PlacesInSubject
  <2> QED
    BY <2>1, PlacesInSubject
<1>2. ASSUME NEW here \in D
      PROVE  here[1] \in 0..n /\ here[2] \in 0..n /\ here[3] \in Nat /\ Rest(here) \in P /\ Piece(here) \in P
  <2>1. here[1] \in 0..n /\ here[2] \in 0..n /\ here[3] \in Nat
    BY DEF LiteralPlaces
  <2> HIDE DEF n
  <2> QED
    BY <1>1, <2>1
<1>3. ASSUME NEW here \in D, here \notin stop
      PROVE  next[here] \in D /\ measure[next[here]] < measure[here]
  <2> DEFINE i == here[1]
             l == here[2]
             k == here[3]
  <2>1. i \in 0..n /\ l \in 0..n /\ k \in Nat /\ i # n
    BY <1>2, <1>3
  <2>2. next[here] = <<i + 1, i + 1, k + 1>> \/ next[here] = <<i + 1, l, k>>
    OBVIOUS
  <2> HIDE DEF i, l, k, n
  <2>3. i + 1 \in 0..n
    BY <1>1, <2>1
  <2>4. <<i + 1, i + 1, k + 1>> \in D /\ <<i + 1, l, k>> \in D
    BY <2>1, <2>3 DEF LiteralPlaces, n
  <2>5. next[here] \in D /\ next[here][1] = i + 1
    <3> HIDE DEF next, D
    <3> QED
      BY <2>2, <2>4
  <2>6. measure[next[here]] = n - next[here][1] /\ measure[here] = n - i
    <3> HIDE DEF next, D
    <3> QED
      BY <2>5 DEF i
  <2>7. n - (i + 1) < n - i
    BY <1>1, <2>1
  <2> HIDE DEF next, D, measure
  <2> QED
    BY <2>5, <2>6, <2>7
<1>4. IsListwise(D, P, n, measure, stop, tail, head, next)
  <2>1. measure \in [D -> 0..n]
    <3>1. ASSUME NEW here \in D PROVE n - here[1] \in 0..n
      <4> DEFINE i == here[1]
      <4>1. i \in 0..n
        BY <1>2
      <4> HIDE DEF D, n, i
      <4>2. n - i \in 0..n
        BY <1>1, <4>1
      <4> QED
        BY <4>2 DEF i
    <3> HIDE DEF D, n
    <3> QED
      BY <3>1
  <2>2. ASSUME NEW here \in D PROVE tail[here] \in Seq(P) /\ head[here] \in Seq(P)
    <3>1. /\ tail[here] = <<Rest(here)>>
          /\ head[here] = IF Cuts(here) THEN <<Piece(here)>> ELSE <<>>
      OBVIOUS
    <3> HIDE DEF D, P, Rest, Piece, Cuts
    <3>2. <<Rest(here)>> \in Seq(P) /\ <<Piece(here)>> \in Seq(P) /\ <<>> \in Seq(P)
      BY <1>2
    <3> HIDE DEF tail, head
    <3> QED
      BY <3>1, <3>2
  <2>3. tail = [here \in D |-> tail[here]] /\ head = [here \in D |-> head[here]]
    OBVIOUS
  <2> HIDE DEF D, P, n, measure, stop, tail, head, next
  <2>4. tail \in [D -> Seq(P)] /\ head \in [D -> Seq(P)]
    BY <2>2, <2>3
  <2> QED
    BY <1>3, <2>1, <2>4 DEF IsListwise
<1>5. PICK f \in [D -> Seq(P)] : IsList(D, f, stop, tail, head, next)
  <2> HIDE DEF D, P, n, measure, stop, tail, head, next
  <2> QED
    BY <1>1, <1>4, ListRecursion
<1>6. ASSUME NEW here \in D PROVE f[here] = SplitOf(s, u, limit, f, here)
  <2>1. f[here] = IF here \in stop THEN tail[here] ELSE head[here] \o f[next[here]]
    <3> HIDE DEF D, P, stop, tail, head, next
    <3> QED
      BY <1>5 DEF IsList
  <2>2. here \notin stop => f[next[here]] \in Seq(P)
    <3> HIDE DEF D, P, stop, measure, next
    <3> QED
      BY <1>3
  <2>3. /\ tail[here] = <<Rest(here)>>
        /\ head[here] = IF Cuts(here) THEN <<Piece(here)>> ELSE <<>>
        /\ next[here] = IF Cuts(here) THEN <<here[1] + 1, here[1] + 1, here[3] + 1>>
                        ELSE <<here[1] + 1, here[2], here[3]>>
        /\ here \in stop <=> Ends(here)
    <3> HIDE DEF D, Cuts, Ends, Rest, Piece
    <3> QED
      OBVIOUS
  <2> HIDE DEF stop, tail, head, next, D, P, Ends, Cuts, Rest, Piece
  <2>4. CASE Ends(here)
    <3>1. f[here] = <<Rest(here)>>
      BY <2>1, <2>3, <2>4
    <3> QED
      BY Zenon, <2>4, <3>1 DEF SplitOf, Ends, Rest, n
  <2>5. CASE ~ Ends(here) /\ Cuts(here)
    <3>1. f[here] = <<Piece(here)>> \o f[<<here[1] + 1, here[1] + 1, here[3] + 1>>]
      BY <2>1, <2>3, <2>5
    <3> QED
      BY Zenon, <2>5, <3>1 DEF SplitOf, Ends, Cuts, Piece, n
  <2>6. CASE ~ Ends(here) /\ ~ Cuts(here)
    <3>1. f[here] = f[<<here[1] + 1, here[2], here[3]>>]
      <4>1. here \notin stop /\ next[here] = <<here[1] + 1, here[2], here[3]>> /\ head[here] = <<>>
        BY <2>3, <2>6
      <4>2. <<>> \o f[next[here]] = f[next[here]]
        BY <2>2, <4>1, ConcatEmptySeq
      <4> QED
        BY <2>1, <4>1, <4>2
    <3> QED
      BY Zenon, <2>6, <3>1 DEF SplitOf, Ends, Cuts, n
  <2> QED
    BY <2>4, <2>5, <2>6
<1>7. Goes(f)
  <2>1. f = [here \in D |-> f[here]]
    <3> HIDE DEF D, P, stop, tail, head, next
    <3>1. f \in [D -> Seq(P)]
      OBVIOUS
    <3> QED
      BY ONLY <3>1
  <2>2. [here \in D |-> f[here]] = [here \in D |-> SplitOf(s, u, limit, f, here)]
    <3> HIDE DEF D
    <3> QED
      BY Zenon, <1>6
  <2> HIDE DEF D
  <2> QED
    BY Zenon, <2>1, <2>2
<1> DEFINE scan == LiteralScan(s, u, limit)
<1>8. Goes(scan)
  <2>1. scan = CHOOSE h : Goes(h)
    BY DEF LiteralScan
  <2> HIDE DEF Goes, scan
  <2> QED
    BY <1>7, <2>1
<1> HIDE DEF scan
<1>9. \A here \in D : scan[here] = SplitOf(s, u, limit, scan, here)
  <2> HIDE DEF D
  <2> QED
    BY <1>8
<1> QED
  BY <1>9 DEF scan

\* From each character on the built-in split, with the groups, cuts at the matches there
\* are, as long as it is to.
LiteralCuts(s, u, maxsplit, groups, all0, used, c, l, done) ==
  /\ IsRest(all0, InBytes(s, Sequel(LiteralIn(s, u), Chars(s))[<<c, FALSE>>]), done)
  /\ LastEnd(used, done) = s.at[l]
  => WithGroups(LiteralScan(s, u, SplitLimit(maxsplit))[<<c, l, done>>], WidthOf[u], groups)
       = PiecesOf(s, used, groups)[done]

LEMMA LiteralScanCuts ==
  ASSUME NEW s, IsSubject(s), NEW u \in Units, NEW maxsplit \in Int, NEW groups \in 1..8,
         NEW all0, AreSpans(all0), NEW used, used = UpTo(all0, maxsplit)
  PROVE  \A c, l \in 0..Chars(s), done \in 0..Len(used) :
           LiteralCuts(s, u, maxsplit, groups, all0, used, c, l, done)
<1>0. PICK e \in 0..Chars(s) : e = Chars(s)
  BY PlacesInSubject
<1> DEFINE m == LiteralIn(s, u)
           limit == SplitLimit(maxsplit)
           width == WidthOf[u]
           f == LiteralScan(s, u, limit)
           pieces == PiecesOf(s, used, groups)
           Cut(here, done) == /\ AreSpans(f[here]) /\ Len(f[here]) # 0
                              /\ WithGroups(f[here], width, groups) = pieces[done]
           Right(c) ==
             \A l \in 0..e, done \in 0..Len(used) :
               /\ IsRest(all0, InBytes(s, Sequel(m, e)[<<c, FALSE>>]), done)
               /\ LastEnd(used, done) = s.at[l]
               => Cut(<<c, l, done>>, done)
           S == {n \in 0..e : \A c \in 0..e : e - c = n => Right(c)}
<1>1. /\ e \in Nat /\ Length(s) \in Nat /\ s.at[e] = Length(s) /\ e = Chars(s)
      /\ \A i \in 0..e : s.at[i] \in Nat
  <2>1. Length(s) \in Nat /\ \A i \in 0..Chars(s) : s.at[i] \in 0..Length(s)
    BY PlacesInSubject
  <2>2. \A i \in 0..Chars(s) : s.at[i] \in Nat
    BY <2>1
  <2> QED
    BY <1>0, <2>2, PlacesInSubject
<1>2. IsPattern(s, m) /\ IsSequel(m, e, Sequel(m, e))
  BY <1>1, LiteralIsPattern, SequelIs
<1>3. limit \in Int /\ width \in Nat
  <2>1. width \in 1..3
    BY WidthsArePositive
  <2> QED
    BY <2>1 DEF SplitLimit
<1>4. /\ Len(used) \in 0..Len(all0) /\ Len(all0) \in Nat
      /\ \A i \in 1..Len(used) : used[i] = all0[i]
      /\ \A done \in 0..Len(used) :
           /\ EnoughSplits(maxsplit, done) => done = Len(used)
           /\ ~ EnoughSplits(maxsplit, done) /\ done < Len(all0) => done < Len(used)
           /\ EnoughSplits(maxsplit, done) <=> done = limit
  <2>1. all0 \in Seq(Nat \X Nat)
    BY DEF AreSpans
  <2>2. Len(all0) \in Nat
    BY <2>1
  <2> QED
    BY <2>1, <2>2, UsedAre
<1>5. PiecesGoOn(s, used, groups)
  <2>1. used \in Seq(Nat \X Nat)
    BY UsedAre DEF AreSpans
  <2>2. Length(s) \in Nat /\ groups \in Nat
    BY PlacesInSubject
  <2> QED
    BY <2>1, <2>2, PiecesAre
<1> HIDE DEF limit, width, m, f, pieces
<1>6. \A here \in LiteralPlaces(s) : f[here] = SplitOf(s, u, limit, f, here)
  BY <1>3, LiteralScanIs DEF f
<1>10. \A c \in 0..e : LiteralGoesOn(s, u, e, Sequel(m, e), c)
  BY <1>1, LiteralSequel DEF m
<1>7. ASSUME NEW n \in 0..e, \A k \in 0..n - 1 : k \in S PROVE n \in S
  <2> SUFFICES ASSUME NEW c \in 0..e, e - c = n, NEW l \in 0..e, NEW done \in 0..Len(used),
                      IsRest(all0, InBytes(s, Sequel(m, e)[<<c, FALSE>>]), done),
                      LastEnd(used, done) = s.at[l]
               PROVE  Cut(<<c, l, done>>, done)
    <3> HIDE DEF Cut
    <3> QED
      OBVIOUS
  <2> DEFINE here == <<c, l, done>>
  <2>1. done \in Nat /\ c \in Nat /\ s.at[l] \in Nat
    BY <1>1
  <2>2. here \in LiteralPlaces(s) /\ here[1] = c /\ here[2] = l /\ here[3] = done
    BY <1>1, <2>1 DEF LiteralPlaces
  <2>3. c < e => Right(c + 1)
    <3>1. CASE c < e
      <4>1. c + 1 \in 0..e /\ e - (c + 1) \in 0..n - 1
        BY <1>1, <2>1, <3>1
      <4> HIDE DEF Right
      <4>2. e - (c + 1) \in S
        <5> HIDE DEF S
        <5> QED
          BY <1>7, <4>1
      <4> QED
        BY <4>1, <4>2
    <3> QED
      BY <3>1
  <2> HIDE DEF Right, S
  <2>4. f[here] = IF c = e \/ done = limit THEN <<<<s.at[l], Length(s)>>>>
                  ELSE IF s.text[c + 1] = u
                    THEN <<<<s.at[l], s.at[c]>>>> \o f[<<c + 1, c + 1, done + 1>>]
                  ELSE f[<<c + 1, l, done>>]
    <3>1. f[here] = SplitOf(s, u, limit, f, here)
      <4> HIDE DEF here
      <4> QED
        BY <1>6, <2>2
    <3>2. SplitOf(s, u, limit, f, <<c, l, done>>)
            = IF c = Chars(s) \/ done = limit THEN <<<<s.at[l], Length(s)>>>>
              ELSE IF s.text[c + 1] = u
                THEN <<<<s.at[l], s.at[c]>>>> \o f[<<c + 1, c + 1, done + 1>>]
              ELSE f[<<c + 1, l, done>>]
      BY DEF SplitOf
    <3> QED
      BY Zenon, <1>1, <3>1, <3>2
  <2> HIDE DEF here
  <2>5. ASSUME done = Len(used), f[here] = <<<<s.at[l], Length(s)>>>> PROVE Cut(here, done)
    <3> DEFINE p == <<s.at[l], Length(s)>>
    <3>1. pieces[done] = <<p>>
      BY <1>5, <2>5 DEF pieces, PiecesGoOn
    <3>2. p \in Nat \X Nat
      BY <1>1, <2>1
    <3>3. f[here] = <<p>>
      BY <2>5
    <3> HIDE DEF p
    <3>4. AreSpans(<<p>>) /\ Len(<<p>>) # 0
      BY <3>2 DEF AreSpans
    <3>5. WithGroups(<<p>>, width, groups) = <<p>>
      BY <1>3, <3>2, WithGroupsOfOne
    <3> QED
      BY <3>1, <3>3, <3>4, <3>5
  <2>6. CASE done = limit
    <3>1. done = Len(used)
      BY <1>4, <2>6
    <3>2. f[here] = <<<<s.at[l], Length(s)>>>>
      BY <2>4, <2>6
    <3> HIDE DEF Cut
    <3> QED
      BY <2>5, <3>1, <3>2 DEF here
  <2>7. CASE done # limit /\ c = e
    <3>1. Sequel(m, e)[<<c, FALSE>>] = <<>>
      BY <1>10, <2>7 DEF LiteralGoesOn
    <3>2. InBytes(s, <<>>) = <<>>
      <4>1. <<>> \in Seq((0..Chars(s)) \X (0..Chars(s)))
        OBVIOUS
      <4> QED
        BY <4>1, SpansInBytes
    <3>3. IsRest(all0, <<>>, done)
      BY <3>1, <3>2
    <3>4. done = Len(all0)
      <4>1. Len(<<>>) = 0
        OBVIOUS
      <4> QED
        BY <1>4, <2>1, <3>3, <4>1 DEF IsRest
    <3>5. done = Len(used)
      BY <1>4, <3>4
    <3>6. f[here] = <<<<s.at[l], Length(s)>>>>
      BY <2>4, <2>7
    <3> HIDE DEF Cut
    <3> QED
      BY <2>5, <3>5, <3>6 DEF here
  <2>8. CASE done # limit /\ c # e /\ s.text[c + 1] # u
    <3>1. c < e /\ c + 1 \in 0..e
      BY <1>1, <2>1, <2>8
    <3>2. Sequel(m, e)[<<c, FALSE>>] = Sequel(m, e)[<<c + 1, FALSE>>]
      BY <1>10, <2>8, <3>1 DEF LiteralGoesOn
    <3>3. f[here] = f[<<c + 1, l, done>>]
      BY <2>4, <2>8
    <3>4. Cut(<<c + 1, l, done>>, done)
      <4> HIDE DEF Cut
      <4> QED
        BY <2>3, <3>1, <3>2 DEF Right
    <3> QED
      BY <3>3, <3>4 DEF here
  <2>9. CASE done # limit /\ c # e /\ s.text[c + 1] = u
    <3>1. c < e /\ c + 1 \in 0..e /\ c \in 0..Chars(s) - 1 /\ c \in 0..Chars(s) /\ c + 1 \in 0..Chars(s)
      BY <1>1, <2>1, <2>9
    <3> DEFINE q == Sequel(m, e)[<<c + 1, FALSE>>]
               span == <<s.at[c], s.at[c + 1]>>
               p == <<s.at[l], s.at[c]>>
               after == <<c + 1, c + 1, done + 1>>
    <3>2. Sequel(m, e)[<<c, FALSE>>] = <<<<c, c + 1>>>> \o q
      BY <1>10, <2>9, <3>1 DEF LiteralGoesOn
    <3>3. q \in Seq((0..Chars(s)) \X (0..Chars(s)))
      <4> DEFINE no == FALSE
      <4>1. no \in BOOLEAN
        OBVIOUS
      <4> HIDE DEF no
      <4>2. Sequel(m, e)[<<c + 1, no>>] \in Seq((0..e) \X (0..e))
        BY <1>2, <3>1, <4>1 DEF IsSequel
      <4> QED
        BY <1>1, <4>2 DEF no
    <3>4. IsRest(all0, <<span>> \o InBytes(s, q), done)
      <4> HIDE DEF q
      <4>1. InBytes(s, <<<<c, c + 1>>>> \o q) = <<span>> \o InBytes(s, q)
        BY <3>1, <3>3, FirstSpanInBytes
      <4> HIDE DEF span
      <4> QED
        BY <3>2, <4>1
    <3>5. span \in Nat \X Nat /\ p \in Nat \X Nat /\ s.at[c + 1] = s.at[c] + width
      <4>1. s.at[c + 1] = s.at[c] + width
        BY <2>9, <3>1, PlacesInSubject DEF width
      <4> QED
        BY <1>1, <2>1, <3>1, <4>1
    <3>6. IsRest(all0, InBytes(s, q), done + 1) /\ all0[done + 1] = span /\ done < Len(all0)
      <4> HIDE DEF q, span
      <4>1. InBytes(s, q) \in Seq(Nat \X Nat)
        BY <3>3, SpansInBytes
      <4> QED
        BY <2>1, <3>4, <3>5, <4>1, RestIsLess DEF AreSpans
    <3>7. done # Len(used) /\ done + 1 \in 0..Len(used) /\ used[done + 1] = span
      <4>1. done < Len(used)
        BY <1>4, <2>9, <3>6
      <4>2. done + 1 \in 1..Len(used)
        BY <1>4, <2>1, <4>1
      <4> HIDE DEF span
      <4> QED
        BY <1>4, <2>1, <3>6, <4>1, <4>2
    <3>8. LastEnd(used, done + 1) = s.at[c + 1]
      <4>1. done + 1 # 0 /\ used[done + 1][2] = s.at[c + 1]
        BY <2>1, <3>7
      <4> QED
        BY <4>1 DEF LastEnd
    <3>9. pieces[done] = <<p>> \o GroupValues(groups, span) \o pieces[done + 1]
      <4>1. used[done + 1][1] = s.at[c]
        BY <3>7
      <4> HIDE DEF span
      <4> QED
        BY <1>5, <3>7, <4>1 DEF pieces, PiecesGoOn
    <3>10. Cut(after, done + 1)
      <4> HIDE DEF Cut
      <4> QED
        BY <2>3, <3>1, <3>6, <3>7, <3>8 DEF Right
    <3>11. f[here] = <<p>> \o f[after]
      BY <2>4, <2>9
    <3>12. p[2] = s.at[c]
      OBVIOUS
    <3> DEFINE g == f[after]
    <3>13. g \in Seq(Nat \X Nat) /\ Len(g) # 0 /\ WithGroups(g, width, groups) = pieces[done + 1]
      BY <3>10 DEF AreSpans
    <3> HIDE DEF g, span, p, after
    <3>14. WithGroups(<<p>> \o g, width, groups)
             = <<p>> \o GroupValues(groups, <<p[2], p[2] + width>>) \o WithGroups(g, width, groups)
      BY <1>3, <3>5, <3>13, WithGroupsGoesOn
    <3>15. <<p[2], p[2] + width>> = span
      BY <3>5, <3>12 DEF span
    <3>16. WithGroups(<<p>> \o g, width, groups) = pieces[done]
      BY <3>9, <3>13, <3>14, <3>15
    <3>17. AreSpans(<<p>> \o g) /\ Len(<<p>> \o g) # 0
      <4>1. <<p>> \in Seq(Nat \X Nat) /\ Len(<<p>>) = 1 /\ Len(g) \in Nat
        BY <3>5, <3>13
      <4>2. <<p>> \o g \in Seq(Nat \X Nat) /\ Len(<<p>> \o g) = 1 + Len(g)
        BY <3>13, <4>1, ConcatProperties
      <4> QED
        BY <4>1, <4>2 DEF AreSpans
    <3> QED
      BY <3>11, <3>16, <3>17 DEF g, here
  <2> HIDE DEF Cut
  <2> QED
    BY <2>6, <2>7, <2>8, <2>9
<1>8. 0..e \subseteq S
  <2> HIDE DEF S
  <2> QED
    BY <1>1, <1>7, NumbersIn
<1>9. ASSUME NEW c \in 0..e PROVE Right(c)
  <2>1. e - c \in 0..e
    BY <1>1
  <2>2. e - c \in S
    <3> HIDE DEF S
    <3> QED
      BY <1>8, <2>1
  <2> HIDE DEF Right
  <2> QED
    BY <2>2
<1>11. ASSUME NEW c \in 0..e, NEW l \in 0..e, NEW done \in 0..Len(used),
              IsRest(all0, InBytes(s, Sequel(m, e)[<<c, FALSE>>]), done), LastEnd(used, done) = s.at[l]
       PROVE  WithGroups(f[<<c, l, done>>], width, groups) = pieces[done]
  <2>1. Right(c)
    BY <1>9
  <2> HIDE DEF Cut
  <2>2. Cut(<<c, l, done>>, done)
    BY <1>11, <2>1
  <2> QED
    BY <2>2 DEF Cut
<1>12. ASSUME NEW c \in 0..e, NEW l \in 0..e, NEW done \in 0..Len(used)
       PROVE  LiteralCuts(s, u, maxsplit, groups, all0, used, c, l, done)
  <2>1. /\ IsRest(all0, InBytes(s, Sequel(m, e)[<<c, FALSE>>]), done) /\ LastEnd(used, done) = s.at[l]
        => WithGroups(f[<<c, l, done>>], width, groups) = pieces[done]
    BY <1>11
  <2>2. e = Chars(s)
    BY <1>1
  <2> QED
    BY ONLY <2>1, <2>2 DEF f, limit, width, pieces, m, LiteralCuts
<1> QED
  BY <1>1, <1>12

LEMMA LiteralSplitIsRight ==
  ASSUME NEW s, IsSubject(s), NEW u \in Units, NEW maxsplit \in Int, NEW groups \in 1..8
  PROVE  SplitWithLiteral(s, u, maxsplit, groups) = ReferencePieces(s, LiteralIn(s, u), maxsplit, groups)
<1> DEFINE m == LiteralIn(s, u)
           all0 == Matches(s, m, 0, -1)
           used == UpTo(all0, maxsplit)
           rest == InBytes(s, Sequel(m, Chars(s))[<<0, FALSE>>])
           f == LiteralScan(s, u, SplitLimit(maxsplit))
<1>1. IsPattern(s, m)
  BY LiteralIsPattern
<1>2. AreSpans(all0) /\ all0 = rest
  <2> HIDE DEF m
  <2> QED
    BY <1>1, AllMatches
<1> HIDE DEF all0, rest
<1>3. used \in Seq(Nat \X Nat) /\ 0 \in 0..Len(used)
  <2>1. all0 \in Seq(Nat \X Nat)
    BY <1>2 DEF AreSpans
  <2>2. used \in Seq(Nat \X Nat)
    BY <2>1, UsedAre
  <2> HIDE DEF used
  <2>3. Len(used) \in Nat
    BY <2>2
  <2> QED
    BY <2>2, <2>3
<1>4. IsRest(all0, rest, 0)
  <2>1. Len(all0) \in Nat
    BY <1>2 DEF AreSpans
  <2> QED
    BY <1>2, <2>1 DEF IsRest
<1>5. Length(s) \in Nat /\ 0 \in 0..Chars(s) /\ s.at[0] = 0 /\ groups \in Nat
  BY PlacesInSubject
<1>6. LastEnd(used, 0) = s.at[0]
  BY <1>5 DEF LastEnd
<1>7. used = UpTo(all0, maxsplit)
  OBVIOUS
<1> HIDE DEF used, f
<1>8. IsRest(all0, InBytes(s, Sequel(LiteralIn(s, u), Chars(s))[<<0, FALSE>>]), 0)
  BY <1>4 DEF rest
<1>9. WithGroups(f[<<0, 0, 0>>], WidthOf[u], groups) = PiecesOf(s, used, groups)[0]
  <2>1. LiteralCuts(s, u, maxsplit, groups, all0, used, 0, 0, 0)
    BY <1>2, <1>3, <1>5, <1>7, LiteralScanCuts
  <2> QED
    BY <1>6, <1>8, <2>1 DEF f, LiteralCuts
<1>10. PiecesBetween(s, used, groups) = PiecesOf(s, used, groups)[0]
  BY <1>3, <1>5, PiecesAre
<1>11. ReferencePieces(s, m, maxsplit, groups) = PiecesBetween(s, used, groups)
  BY DEF ReferencePieces, used, all0
<1>12. SplitWithLiteral(s, u, maxsplit, groups) = WithGroups(f[<<0, 0, 0>>], WidthOf[u], groups)
  BY BuiltinSplitIsScan DEF SplitWithLiteral, f
<1> QED
  BY <1>9, <1>10, <1>11, <1>12

-----------------------------------------------------------------------------
(* The theorems.                                                               *)

\* Whatever the subject, the pattern and the range, however the threads share the
\* iterator and whichever match objects cannot be made, FindIter_iternext hands out the
\* matches of the subject, in order and each once, and ends after the last of them.
THEOREM IterationImplementsTheSequence == Spec => IteratesMatches
<1>1. Init => Sequence!Init
  BY StartsRight
<1>2. IInv /\ [Next]_vars => [Sequence!Next]_<<all, yielded, iter.exhausted>>
  BY StepsKeep DEF SequenceStep
<1>3. Spec => []IInv
  BY Inv
<1> QED
  BY <1>1, <1>2, <1>3, PTL DEF Spec, IteratesMatches, Sequence!Spec

\* The position of the iterator in characters and in bytes, and the two ends of each of
\* its caches, are always one place of the subject, and never inside a character.
THEOREM PositionsStayAgreed == Spec => []PositionsAgree
<1>1. IInv => PositionsAgree
  <2> SUFFICES ASSUME IInv, InRange,
                      NEW here \in {At(iter.current_pos, iter.current_byte),
                                    iter.byte_to_index, iter.index_to_byte}
               PROVE  /\ here.byte \in Boundaries(subject)
                      /\ ByteOf(subject, here.index) = here.byte
    BY DEF PositionsAgree, InRange
  <2>1. IsSubject(subject)
    BY DEF IInv, InputsFit
  <2>2. PICK c, e \in 0..Chars(subject) : Stands(c, e)
    BY DEF IInv
  <2>3. PICK i \in 0..Chars(subject) : here = PlaceOf(subject, i)
    BY <2>2 DEF IInv, CachesArePlaces, Stands
  <2>4. here.index = IndexOf(subject, i) /\ here.byte = subject.at[i]
    BY <2>3 DEF PlaceOf, At
  <2>5. subject.at[i] \in Boundaries(subject)
    BY <2>1, PlacesInSubject
  <2>6. ByteOf(subject, IndexOf(subject, i)) = subject.at[i]
    BY <2>1, PlacesAre
  <2> QED
    BY <2>4, <2>5, <2>6
<1> QED
  BY <1>1, Inv, PTL

\* Every call of PCRE2 by FindIter_iternext is one that PCRE2 defines: no offset inside a
\* character is given with PCRE2_NO_UTF_CHECK, nor to JIT code.
THEOREM CallsStayDefined == Spec => []CallsAreDefined
<1>1. IInv => CallsAreDefined
  <2> SUFFICES ASSUME IInv, ~ Ended PROVE Found # Undefined
    BY DEF CallsAreDefined
  <2>1. CASE InRange
    <3>1. PICK c, e \in 0..Chars(subject) : Stands(c, e)
      BY <2>1 DEF IInv
    <3>2. Found = HitAt(subject, pattern, e, c, iter.retry_nonempty)
      BY <3>1, FoundIs DEF IInv, Ended
    <3>3. Found.rc \in {"match", "no match"}
      BY <3>2, HitSays
    <3>4. Undefined.rc = "undefined"
      BY DEF Undefined, Outcome
    <3> QED
      BY <3>3, <3>4
  <2>2. CASE ~ InRange
    <3>1. Found = UtfError
      BY <2>2, RefusedIs DEF IInv
    <3> QED
      BY <3>1 DEF UtfError, Undefined, Outcome
  <2> QED
    BY <2>1, <2>2
<1> QED
  BY <1>1, Inv, PTL

\* The conversions between positions in characters and offsets in UTF-8 are inverse to
\* each other, the fast one and the plain one agree, for every str.
THEOREM ConversionsStayAgreed == Spec => []ConversionsAgree
<1>1. IInv => ConversionsAgree
  <2> SUFFICES ASSUME IInv, subject.kind = "text", NEW i \in 0..Chars(subject)
               PROVE  /\ utf8_index_to_offset(subject, i) = subject.at[i]
                      /\ utf8_index_to_offset_fast(subject, i) = subject.at[i]
                      /\ utf8_offset_to_index(subject, 0, subject.at[i]) = i
    BY DEF ConversionsAgree
  <2>1. IsSubject(subject)
    BY DEF IInv, InputsFit
  <2>2. utf8_index_to_offset(subject, i) = subject.at[i]
    BY <2>1, IndexToOffset
  <2>3. utf8_index_to_offset_fast(subject, i) = subject.at[i]
    BY <2>1, FastIndexToOffset
  <2>4. /\ subject.at[0] = 0 /\ 0 \in 0..Chars(subject) /\ 0 <= i /\ i - 0 = i
        /\ subject.at[i] - 0 = subject.at[i]
    BY <2>1, PlacesInSubject
  <2>5. utf8_offset_to_index(subject, subject.at[0], subject.at[i] - subject.at[0]) = i - 0
    BY <2>1, <2>4, OffsetToIndex
  <2> QED
    BY <2>2, <2>3, <2>4, <2>5
<1> QED
  BY <1>1, Inv, PTL

\* match, search and fullmatch give the match the reference gives, with and without the
\* scan for the first literal, the cut of the subject at endpos, the JIT code, its retry
\* in the interpreter and the repair of the anchors it ignores; in a range that cuts a
\* character they give none or raise.
THEOREM ExecutionsFindTheMatch == Spec => []ExecuteFindsTheMatch
<1>1. IInv => ExecuteFindsTheMatch
  <2> SUFFICES ASSUME IInv, NEW mode \in Modes, NEW u \in FirstLiterals
               PROVE  Pattern_execute(subject, pattern, u, pos, endpos, mode, jit)
                        \in IF Sound(subject, pos, endpos)
                            THEN {Reference(subject, pattern, pos, endpos, mode)}
                            ELSE {NoMatch, UtfError}
    BY DEF ExecuteFindsTheMatch
  <2>1. /\ IsSubject(subject) /\ FitsItsKind(subject) /\ IsPattern(subject, pattern)
        /\ pos \in Int /\ endpos \in Int /\ jit \in JitStates
    BY DEF IInv, InputsFit
  <2>2. u # "none" => BeginsWith(subject, pattern, u)
    <3> SUFFICES ASSUME u # "none" PROVE BeginsWith(subject, pattern, u)
      OBVIOUS
    <3>1. DOMAIN pattern = 0..Chars(subject)
      BY <2>1 DEF IsPattern
    <3> QED
      BY <3>1 DEF FirstLiterals, BeginsWith, Folded
  <2>3. CASE Sound(subject, pos, endpos)
    <3>1. Pattern_execute(subject, pattern, u, pos, endpos, mode, jit)
            = Reference(subject, pattern, pos, endpos, mode)
      BY <2>1, <2>2, <2>3, ExecuteInRange
    <3> QED
      BY <2>3, <3>1
  <2>4. CASE ~ Sound(subject, pos, endpos)
    <3>1. Pattern_execute(subject, pattern, u, pos, endpos, mode, jit) \in {NoMatch, UtfError}
      BY <2>1, <2>4, ExecuteOutOfRange
    <3> QED
      BY <2>4, <3>1
  <2> QED
    BY <2>3, <2>4
<1> QED
  BY <1>1, Inv, PTL

\* findall returns the matches finditer yields, whatever the JIT code does, and raises
\* where the range cuts a character.
THEOREM FindallFindsTheMatches == Spec => []FindallFindsAll
<1>1. IInv => FindallFindsAll
  <2> SUFFICES ASSUME IInv
               PROVE  LET r == Range0(subject, pos, endpos)
                      IN  Pattern_findall(subject, pattern, pos, endpos, jit)
                            = IF Sound(subject, pos, endpos) \/ r.end < r.pos THEN all
                              ELSE <<"utf error">>
    BY DEF FindallFindsAll
  <2> DEFINE r == Range0(subject, pos, endpos)
  <2>1. /\ IsSubject(subject) /\ FitsItsKind(subject) /\ IsPattern(subject, pattern)
        /\ pos \in Int /\ endpos \in Int /\ jit \in JitStates
        /\ all = Matches(subject, pattern, pos, endpos)
    BY DEF IInv, InputsFit
  <2>2. CASE Sound(subject, pos, endpos) \/ r.end < r.pos
    <3>1. Pattern_findall(subject, pattern, pos, endpos, jit) = all
      BY <2>1, <2>2, FindallInRange
    <3> QED
      BY <2>2, <3>1
  <2>3. CASE ~ (Sound(subject, pos, endpos) \/ r.end < r.pos)
    <3>1. Pattern_findall(subject, pattern, pos, endpos, jit) = <<"utf error">>
      BY <2>1, <2>3, FindallOutOfRange
    <3> QED
      BY <2>3, <3>1
  <2> QED
    BY <2>2, <2>3
<1> QED
  BY <1>1, Inv, PTL

\* split returns the pieces the matches leave, each match followed by its groups, up to
\* maxsplit of them; what stands in for a literal in groups, the built-in split, returns
\* the same.
THEOREM SplitsCutAtTheMatches == Spec => []SplitCutsAtMatches
<1>1. IInv => SplitCutsAtMatches
  <2> SUFFICES ASSUME IInv, NEW maxsplit \in -1..2
               PROVE  /\ \A groups \in 0..2 :
                           Pattern_split(subject, pattern, maxsplit, groups, jit)
                             = ReferencePieces(subject, pattern, maxsplit, groups)
                      /\ \A u \in Range(subject.text) :
                           /\ Pattern_split_literal_capture_fast(subject, u, maxsplit)
                                = ReferencePieces(subject, Literal(u), maxsplit, 1)
                           /\ Pattern_split_literal_captures_fast(subject, u, maxsplit, 2)
                                = ReferencePieces(subject, Literal(u), maxsplit, 2)
    BY DEF SplitCutsAtMatches
  <2>1. /\ IsSubject(subject) /\ FitsItsKind(subject) /\ IsPattern(subject, pattern)
        /\ jit \in JitStates /\ maxsplit \in Int
    BY DEF IInv, InputsFit
  <2>2. ASSUME NEW groups \in 0..2
        PROVE  Pattern_split(subject, pattern, maxsplit, groups, jit)
                 = ReferencePieces(subject, pattern, maxsplit, groups)
    <3>1. groups \in Nat
      OBVIOUS
    <3> QED
      BY <2>1, <3>1, SplitIsRight
  <2>3. ASSUME NEW u \in Range(subject.text)
        PROVE  /\ Pattern_split_literal_capture_fast(subject, u, maxsplit)
                    = ReferencePieces(subject, Literal(u), maxsplit, 1)
               /\ Pattern_split_literal_captures_fast(subject, u, maxsplit, 2)
                    = ReferencePieces(subject, Literal(u), maxsplit, 2)
    <3>1. u \in Units
      <4>1. subject.text \in Seq(Units)
        BY <2>1 DEF IsSubject
      <4> QED
        BY <4>1 DEF Range
    <3>2. Literal(u) = LiteralIn(subject, u)
      BY DEF Literal, LiteralIn
    <3>3. 1 \in 1..8 /\ 2 \in 1..8
      OBVIOUS
    <3>4. ASSUME NEW groups \in 1..8
          PROVE  SplitWithLiteral(subject, u, maxsplit, groups)
                   = ReferencePieces(subject, Literal(u), maxsplit, groups)
      BY <2>1, <3>1, <3>2, LiteralSplitIsRight
    <3> QED
      BY <3>3, <3>4 DEF Pattern_split_literal_capture_fast, Pattern_split_literal_captures_fast
  <2> QED
    BY <2>2, <2>3
<1> QED
  BY <1>1, Inv, PTL
================================================================================
