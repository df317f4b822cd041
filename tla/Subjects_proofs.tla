----------------------------- MODULE Subjects_proofs -----------------------------
(* What the conversions between positions in characters and in bytes compute,     *)
(* and what the calls of PCRE2 return, for every text.                            *)
(*                                                                                *)
(* The definitions are recursive functions.  Induction is over sets of numbers,   *)
(* from the fact that the naturals are well founded, and a recursive function is  *)
(* shown to exist before its equation is used.                                    *)
EXTENDS PatternMethods, Lemmas, FiniteSetTheorems

-----------------------------------------------------------------------------
(* Subjects.                                                                   *)

IsSubject(s) ==
  /\ s.kind \in Kinds /\ s.text \in Seq(Units)
  /\ s.at \in [0..Chars(s) -> Nat]
  /\ s.at[0] = 0
  /\ \A i \in 1..Chars(s) : s.at[i] = s.at[i - 1] + WidthOf[s.text[i]]

LEMMA WidthsArePositive == \A u \in Units : WidthOf[u] \in 1..3
  BY DEF Units, WidthOf

\* The bytes at which the characters begin, one after the other.
LEMMA SubjectIsOne ==
  ASSUME NEW kind \in Kinds, NEW text \in Seq(Units)
  PROVE  /\ IsSubject(Subject(kind, text))
         /\ Subject(kind, text).kind = kind /\ Subject(kind, text).text = text
<1> DEFINE n == Len(text)
           Places(f) == f = [i \in 0..n |-> IF i = 0 THEN 0 ELSE f[i - 1] + WidthOf[text[i]]]
           at == CHOOSE f : Places(f)
           D == 0..n
           measure == [i \in D |-> i]
           value == [p \in [D -> Nat] \X D |-> IF p[2] = 0 THEN 0 ELSE p[1][p[2] - 1] + WidthOf[text[p[2]]]]
<1>1. n \in Nat /\ \A i \in 1..n : text[i] \in Units /\ WidthOf[text[i]] \in Nat
  BY WidthsArePositive, LenProperties, ElementOfSeq
<1>2. \A f \in [D -> Nat], i \in D : value[<<f, i>>] = IF i = 0 THEN 0 ELSE f[i - 1] + WidthOf[text[i]]
  OBVIOUS
<1>3. \A f \in [D -> Nat], i \in D : value[<<f, i>>] \in Nat
  <2> TAKE f \in [D -> Nat], i \in D
  <2>1. i # 0 => i - 1 \in D /\ f[i - 1] \in Nat /\ WidthOf[text[i]] \in Nat
    BY <1>1
  <2> HIDE DEF value
  <2> QED
    BY <1>2, <2>1
<1>4. \A f, g \in [D -> Nat], i \in D :
         (\A j \in D : measure[j] < measure[i] => f[j] = g[j]) => value[<<f, i>>] = value[<<g, i>>]
  <2> TAKE f, g \in [D -> Nat], i \in D
  <2> HAVE \A j \in D : measure[j] < measure[i] => f[j] = g[j]
  <2>1. i # 0 => i - 1 \in D /\ measure[i - 1] < measure[i]
    BY <1>1
  <2>2. i # 0 => f[i - 1] = g[i - 1]
    BY <2>1
  <2> HIDE DEF value
  <2> QED
    BY ZenonT(30), <1>2, <2>2
<1>5. measure \in [D -> 0..n]
  OBVIOUS
<1>6. PICK f \in [D -> Nat] : \A i \in D : f[i] = value[<<f, i>>]
  <2> HIDE DEF D, measure, value
  <2>1. IsRecursive(D, Nat, n, measure, value)
    BY <1>3, <1>4, <1>5 DEF IsRecursive
  <2>2. n \in Nat /\ Nat # {}
    BY <1>1
  <2>3. \E f \in [D -> Nat] : IsFixed(D, f, value)
    <3> HIDE DEF n
    <3> QED
      BY <2>1, <2>2, Recursion
  <2> QED
    BY <2>3 DEF IsFixed
<1>7. Places(f)
  BY <1>2, <1>6
<1>8. Places(at)
  <2> HIDE DEF Places
  <2> QED
    BY <1>7
<1>9. Subject(kind, text) = [kind |-> kind, text |-> text, at |-> at]
  BY DEF Subject
<1>10. /\ at[0] = 0
       /\ \A i \in 1..n : at[i] = at[i - 1] + WidthOf[text[i]]
       /\ DOMAIN at = 0..n /\ at = [i \in 0..n |-> at[i]]
  <2> HIDE DEF at
  <2> QED
    BY <1>1, <1>8
<1>11. ASSUME NEW i \in 0..n PROVE at[i] \in Nat
  <2> DEFINE S == {j \in 0..n : at[j] \in Nat}
  <2> HIDE DEF at
  <2>1. 0 \in S
    BY <1>1, <1>10
  <2>2. ASSUME NEW j \in 0..n - 1, j \in S PROVE j + 1 \in S
    <3>1. j + 1 \in 1..n /\ (j + 1) - 1 = j /\ at[j] \in Nat
      BY <1>1, <2>2
    <3>2. at[j + 1] = at[j] + WidthOf[text[j + 1]] /\ WidthOf[text[j + 1]] \in Nat
      BY <1>1, <1>10, <3>1
    <3> QED
      BY <3>1, <3>2
  <2>3. 0..n \subseteq S
    <3> HIDE DEF S, n
    <3> QED
      BY <1>1, <2>1, <2>2, StepsUp
  <2> QED
    BY <2>3
<1>12. at \in [0..n -> Nat]
  <2> HIDE DEF at
  <2> QED
    BY <1>10, <1>11
<1> HIDE DEF at
<1>13. ASSUME NEW s, s = Subject(kind, text) PROVE IsSubject(s) /\ s.kind = kind /\ s.text = text
  <2>1. s.kind = kind /\ s.text = text /\ s.at = at /\ Chars(s) = n
    BY <1>9, <1>13 DEF Chars
  <2> QED
    BY <1>1, <1>10, <1>12, <2>1 DEF IsSubject
<1> QED
  BY <1>13

\* A character begins after the one before it.
LEMMA AtIncreases ==
  ASSUME NEW s, IsSubject(s), NEW j \in 0..Chars(s), NEW i \in 0..Chars(s), i < j
  PROVE  s.at[i] < s.at[j]
<1> DEFINE S == {k \in 0..Chars(s) : \A m \in 0..k - 1 : s.at[m] < s.at[k]}
<1>1. Chars(s) \in Nat /\ \A k \in 1..Chars(s) : s.text[k] \in Units
  BY LenProperties, ElementOfSeq DEF IsSubject, Chars
<1>2. 0 \in S
  BY <1>1
<1>3. ASSUME NEW k \in 0..Chars(s) - 1, k \in S PROVE k + 1 \in S
  <2>1. s.at[k + 1] = s.at[k] + WidthOf[s.text[k + 1]] /\ WidthOf[s.text[k + 1]] \in 1..3
        /\ s.at[k] \in Nat
    <3>1. k \in 0..Chars(s) /\ k + 1 \in 1..Chars(s) /\ (k + 1) - 1 = k
      BY <1>1
    <3> QED
      BY <1>1, <3>1, WidthsArePositive DEF IsSubject
  <2>2. ASSUME NEW m \in 0..(k + 1) - 1 PROVE s.at[m] < s.at[k + 1]
    <3>1. m \in 0..Chars(s) /\ s.at[m] \in Nat
      BY <1>1 DEF IsSubject
    <3>2. m = k \/ m \in 0..k - 1
      OBVIOUS
    <3>3. s.at[m] <= s.at[k]
      BY <1>3, <2>1, <3>1, <3>2
    <3> QED
      BY <2>1, <3>1, <3>3
  <2> QED
    BY <1>1, <2>2
<1>4. 0..Chars(s) \subseteq S
  <2> HIDE DEF S
  <2> QED
    BY <1>1, <1>2, <1>3, StepsUp
<1> QED
  BY <1>1, <1>4

\* The numbers of bytes, and the place of a character, told from its first byte.
LEMMA PlacesInSubject ==
  ASSUME NEW s, IsSubject(s)
  PROVE  /\ Chars(s) \in Nat /\ Length(s) \in Nat /\ Length(s) = s.at[Chars(s)] /\ s.at[0] = 0
         /\ \A i \in 0..Chars(s) : s.at[i] \in 0..Length(s) /\ s.at[i] \in Boundaries(s)
         /\ \A i \in 0..Chars(s) - 1 : s.text[i + 1] \in Units /\ s.at[i] < Length(s)
                                       /\ s.at[i + 1] = s.at[i] + WidthOf[s.text[i + 1]]
         /\ \A i, j \in 0..Chars(s) : /\ s.at[i] = s.at[j] <=> i = j
                                      /\ s.at[i] < s.at[j] <=> i < j
         /\ \A b \in Boundaries(s) : \E i \in 0..Chars(s) : s.at[i] = b
         /\ \A i \in 0..Chars(s) : CharAt(s, s.at[i]) = i
<1>1. /\ Chars(s) \in Nat /\ \A k \in 1..Chars(s) : s.text[k] \in Units
      /\ DOMAIN s.at = 0..Chars(s) /\ \A i \in 0..Chars(s) : s.at[i] \in Nat
  BY LenProperties, ElementOfSeq DEF IsSubject, Chars
<1>2. \A i, j \in 0..Chars(s) : i < j => s.at[i] < s.at[j]
  BY AtIncreases
<1>3. \A i, j \in 0..Chars(s) : /\ s.at[i] = s.at[j] <=> i = j
                                /\ s.at[i] < s.at[j] <=> i < j
  <2> TAKE i, j \in 0..Chars(s)
  <2>1. i < j \/ i = j \/ j < i
    BY <1>1
  <2>2. s.at[i] \in Nat /\ s.at[j] \in Nat
    BY <1>1
  <2> QED
    BY <1>1, <1>2, <2>1, <2>2
<1>4. Length(s) = s.at[Chars(s)] /\ Length(s) \in Nat /\ s.at[0] = 0
  BY <1>1 DEF Length, IsSubject
<1>5. \A i \in 0..Chars(s) : s.at[i] \in 0..Length(s)
  BY <1>1, <1>2, <1>4
<1>6. Boundaries(s) = {s.at[i] : i \in 0..Chars(s)}
  BY <1>1 DEF Boundaries, Range
<1>7. ASSUME NEW i \in 0..Chars(s) PROVE CharAt(s, s.at[i]) = i
  BY <1>3 DEF CharAt
<1>8. \A i \in 0..Chars(s) - 1 : s.text[i + 1] \in Units /\ s.at[i] < Length(s)
                                 /\ s.at[i + 1] = s.at[i] + WidthOf[s.text[i + 1]]
  BY SMTT(30), <1>1, <1>2, <1>4 DEF IsSubject
<1> QED
  BY <1>1, <1>3, <1>4, <1>5, <1>6, <1>7, <1>8

\* The least of a set of numbers, as Min has it.
LEMMA MinIs ==
  ASSUME NEW S, S \subseteq Int, NEW n \in S, \A m \in S : n <= m
  PROVE  Min(S) = n
<1> DEFINE Least(x) == \A m \in S : x <= m
           x == CHOOSE x \in S : Least(x)
<1>1. x \in S /\ Least(x)
  <2> HIDE DEF Least
  <2>1. Least(n)
    BY DEF Least
  <2> QED
    BY <2>1
<1>2. Min(S) = x
  BY DEF Min
<1>3. x <= n /\ n <= x /\ x \in Int /\ n \in Int
  <2> HIDE DEF x
  <2> QED
    BY <1>1
<1> HIDE DEF x
<1> QED
  BY <1>2, <1>3

LEMMA MinOfNumbers ==
  ASSUME NEW S, S \subseteq Nat, S # {}
  PROVE  Min(S) \in S /\ \A m \in S : Min(S) <= m
<1>1. PICK n \in S : \A m \in S : n <= m
  BY LeastNumber
<1>2. S \subseteq Int
  OBVIOUS
<1>3. Min(S) = n
  BY <1>1, <1>2, MinIs
<1> QED
  BY <1>1, <1>3

-----------------------------------------------------------------------------
(* Steps over the characters.                                                  *)

\* The lead byte tells the width of its character.
LEMMA LeadWidthOfCharacter ==
  ASSUME NEW s, IsSubject(s), NEW i \in 0..Chars(s) - 1
  PROVE  LeadWidth(s, s.at[i]) = WidthOf[s.text[i + 1]]
<1>1. i \in 0..Chars(s) /\ s.at[i] \in Boundaries(s) /\ s.at[i] # Length(s) /\ CharAt(s, s.at[i]) = i
  BY PlacesInSubject
<1> QED
  BY <1>1 DEF LeadWidth

\* The step over a character, byte by byte where each is one.
LEMMA StepOverCharacter ==
  ASSUME NEW s, IsSubject(s), NEW i \in 0..Chars(s), NEW single \in BOOLEAN,
         single => \A k \in 1..Chars(s) : WidthOf[s.text[k]] = 1
  PROVE  advance_one_character(s, s.at[i], single) = s.at[IF i < Chars(s) THEN i + 1 ELSE i]
<1>1. Chars(s) \in Nat /\ Length(s) \in Nat /\ Length(s) = s.at[Chars(s)] /\ s.at[i] \in 0..Length(s)
  BY PlacesInSubject
<1>2. CASE i = Chars(s)
  BY <1>1, <1>2 DEF advance_one_character
<1>3. CASE i < Chars(s)
  <2>1. /\ i \in 0..Chars(s) - 1 /\ i + 1 \in 0..Chars(s) /\ i + 1 \in 1..Chars(s)
        /\ s.at[i] < Length(s) /\ s.at[i + 1] \in 0..Length(s)
        /\ s.at[i + 1] = s.at[i] + WidthOf[s.text[i + 1]]
    BY <1>1, <1>3, PlacesInSubject
  <2>2. LeadWidth(s, s.at[i]) = WidthOf[s.text[i + 1]]
    BY <2>1, LeadWidthOfCharacter
  <2>3. CASE single
    <3>1. s.at[i + 1] = s.at[i] + 1
      BY <2>1, <2>3
    <3> QED
      BY <1>1, <1>3, <2>1, <2>3, <3>1 DEF advance_one_character
  <2>4. CASE ~single
    BY <1>1, <1>3, <2>1, <2>2, <2>4 DEF advance_one_character, LowerOf
  <2> QED
    BY <2>3, <2>4
<1> QED
  BY <1>1, <1>2, <1>3

\* Wherever a step begins it ends later, and in the subject.
LEMMA StepGoesOn ==
  ASSUME NEW s, IsSubject(s), NEW b \in 0..Length(s)
  PROVE  /\ LeadWidth(s, b) \in Nat \ {0}
         /\ \A single \in BOOLEAN :
              /\ advance_one_character(s, b, single) \in 0..Length(s)
              /\ b < Length(s) => b < advance_one_character(s, b, single)
<1>1. Chars(s) \in Nat /\ Length(s) \in Nat /\ Length(s) = s.at[Chars(s)]
  BY PlacesInSubject
<1>2. LeadWidth(s, b) \in Nat \ {0}
  <2>1. CASE b \in Boundaries(s) \ {Length(s)}
    <3>1. PICK i \in 0..Chars(s) : s.at[i] = b
      BY <2>1, PlacesInSubject
    <3>2. i \in 0..Chars(s) - 1
      BY <1>1, <2>1, <3>1
    <3>3. s.text[i + 1] \in Units
      BY <3>2, PlacesInSubject
    <3> QED
      BY <3>1, <3>2, <3>3, LeadWidthOfCharacter, WidthsArePositive
  <2>2. CASE b \notin Boundaries(s) \ {Length(s)}
    BY <2>2 DEF LeadWidth
  <2> QED
    BY <2>1, <2>2
<1> QED
  BY <1>1, <1>2 DEF advance_one_character, LowerOf

\* The walk from the beginning comes to the byte of the position.
LEMMA FastIndexToOffset ==
  ASSUME NEW s, IsSubject(s), NEW index \in 0..Chars(s)
  PROVE  utf8_index_to_offset_fast(s, index) = s.at[index]
<1> DEFINE steps == IF index > 0 THEN index ELSE 0
           Walks(f) == f = [i \in 0..steps |->
                              IF i = 0 THEN 0 ELSE advance_one_character(s, f[i - 1], FALSE)]
           walk == CHOOSE f : Walks(f)
           places == [i \in 0..index |-> s.at[i]]
<1>1. Chars(s) \in Nat /\ index \in Nat /\ s.at[0] = 0
  BY PlacesInSubject
<1>2. utf8_index_to_offset_fast(s, index) = walk[steps] /\ steps = index
  BY <1>1 DEF utf8_index_to_offset_fast
<1>3. ASSUME NEW i \in 1..index PROVE advance_one_character(s, s.at[i - 1], FALSE) = s.at[i]
  <2>1. i - 1 \in 0..Chars(s) /\ i - 1 < Chars(s) /\ (i - 1) + 1 = i
    BY <1>1
  <2>2. FALSE \in BOOLEAN
    OBVIOUS
  <2> QED
    BY <2>1, <2>2, StepOverCharacter
<1>4. Walks(places)
  <2>1. ASSUME NEW i \in 0..index
        PROVE  places[i] = IF i = 0 THEN 0 ELSE advance_one_character(s, places[i - 1], FALSE)
    <3>1. CASE i = 0
      BY <1>1, <3>1
    <3>2. CASE i # 0
      <4>1. i \in 1..index /\ i - 1 \in 0..index
        BY <1>1, <3>2
      <4>2. places[i] = s.at[i] /\ places[i - 1] = s.at[i - 1]
        BY <4>1
      <4> HIDE DEF places
      <4> QED
        BY <1>3, <3>2, <4>1, <4>2
    <3> QED
      BY <3>1, <3>2
  <2>2. places = [i \in 0..index |-> places[i]]
    OBVIOUS
  <2> HIDE DEF places, steps
  <2> QED
    BY <1>2, <2>1, <2>2
<1>5. Walks(walk)
  <2> HIDE DEF Walks, places
  <2> QED
    BY <1>4
<1> DEFINE S == {i \in 0..index : walk[i] = s.at[i]}
<1>6. 0 \in S
  <2> HIDE DEF walk
  <2> QED
    BY <1>1, <1>2, <1>5
<1>7. ASSUME NEW i \in 0..index - 1, i \in S PROVE i + 1 \in S
  <2>1. i + 1 \in 1..index /\ (i + 1) - 1 = i /\ i + 1 # 0 /\ i + 1 \in 0..index
    BY <1>1
  <2>2. walk[i + 1] = advance_one_character(s, walk[i], FALSE)
    <3> HIDE DEF walk
    <3> QED
      BY <1>2, <1>5, <2>1
  <2> HIDE DEF walk
  <2> QED
    BY <1>3, <1>7, <2>1, <2>2
<1>8. 0..index \subseteq S
  <2> HIDE DEF S
  <2> QED
    BY <1>1, <1>6, <1>7, StepsUp
<1> HIDE DEF walk
<1> QED
  BY <1>1, <1>2, <1>8

-----------------------------------------------------------------------------
(* Counting the characters that begin in some bytes.                           *)

\* Character i is the first that begins at the byte o or after it.
FirstFrom(s, o, i) ==
  /\ i \in 0..Chars(s)
  /\ o <= s.at[i]
  /\ \A k \in 0..i - 1 : s.at[k] < o

LEMMA FirstFromExists ==
  ASSUME NEW s, IsSubject(s), NEW o \in 0..Length(s)
  PROVE  \E i \in 0..Chars(s) : FirstFrom(s, o, i)
<1> DEFINE S == {i \in 0..Chars(s) : o <= s.at[i]}
<1>1. /\ Chars(s) \in Nat /\ Length(s) = s.at[Chars(s)] /\ Length(s) \in Nat
      /\ \A i \in 0..Chars(s) : s.at[i] \in 0..Length(s)
  BY PlacesInSubject
<1>2. Chars(s) \in S /\ S \subseteq Nat
  BY <1>1
<1>3. PICK i \in S : \A k \in S : i <= k
  <2>1. S # {}
    BY <1>2
  <2> HIDE DEF S
  <2> QED
    BY <1>2, <2>1, LeastNumber
<1>4. ASSUME NEW k \in 0..i - 1 PROVE s.at[k] < o
  <2>1. k \in 0..Chars(s) /\ ~ (i <= k)
    BY <1>1, <1>3
  <2>2. k \notin S
    BY <1>3, <2>1
  <2> QED
    BY <1>1, <2>1, <2>2
<1> QED
  BY <1>3, <1>4 DEF FirstFrom

LEMMA FirstFromPlace ==
  ASSUME NEW s, IsSubject(s), NEW i \in 0..Chars(s)
  PROVE  FirstFrom(s, s.at[i], i)
<1>1. /\ Chars(s) \in Nat /\ s.at[i] \in 0..Length(s) /\ Length(s) \in Nat
      /\ \A k \in 0..Chars(s) : s.at[k] < s.at[i] <=> k < i
  BY PlacesInSubject
<1> QED
  BY <1>1 DEF FirstFrom

\* The characters that begin between two bytes, and their number.
LEMMA StartersBetween ==
  ASSUME NEW s, IsSubject(s), NEW o \in 0..Length(s), NEW p \in o..Length(s),
         NEW i, NEW j, FirstFrom(s, o, i), FirstFrom(s, p, j)
  PROVE  /\ i <= j
         /\ StartersIn(s, o, p - o) = {s.at[k] : k \in i..j - 1}
         /\ IsFiniteSet(StartersIn(s, o, p - o))
         /\ utf8_offset_to_index(s, o, p - o) = j - i
<1>1. /\ Chars(s) \in Nat /\ Length(s) = s.at[Chars(s)] /\ Length(s) \in Nat
      /\ \A k \in 0..Chars(s) : s.at[k] \in 0..Length(s) /\ s.at[k] \in Boundaries(s)
      /\ \A k, m \in 0..Chars(s) : (s.at[k] = s.at[m] <=> k = m) /\ (s.at[k] < s.at[m] <=> k < m)
      /\ \A b \in Boundaries(s) : \E k \in 0..Chars(s) : s.at[k] = b
  BY PlacesInSubject
<1>2. /\ i \in 0..Chars(s) /\ o <= s.at[i] /\ \A k \in 0..i - 1 : s.at[k] < o
      /\ j \in 0..Chars(s) /\ p <= s.at[j] /\ \A k \in 0..j - 1 : s.at[k] < p
  BY DEF FirstFrom
<1>3. o \in Nat /\ p \in Nat /\ o <= p /\ o + (p - o) = p
  BY <1>1
<1>4. i <= j
  <2> SUFFICES ASSUME j < i PROVE FALSE
    BY <1>1, <1>2
  <2>1. j \in 0..i - 1
    BY <1>1, <1>2
  <2>2. s.at[j] < o /\ p <= s.at[j] /\ s.at[j] \in Nat
    BY <1>1, <1>2, <2>1
  <2> QED
    BY <1>3, <2>2
<1>5. ASSUME NEW k \in i..j - 1
      PROVE  k \in 0..Chars(s) /\ o <= s.at[k] /\ s.at[k] < p /\ s.at[k] \in Boundaries(s) \ {Length(s)}
  <2>1. k \in 0..Chars(s) /\ k \in 0..j - 1 /\ (k = i \/ i < k) /\ k < Chars(s)
    BY <1>1, <1>2
  <2>2. s.at[k] \in Nat /\ s.at[i] \in Nat /\ s.at[k] \in Boundaries(s)
    BY <1>1, <1>2, <2>1
  <2>3. s.at[i] <= s.at[k] /\ s.at[k] < p /\ s.at[k] # Length(s)
    BY <1>1, <1>2, <2>1, <2>2
  <2> QED
    BY <1>2, <1>3, <2>1, <2>2, <2>3
<1>6. ASSUME NEW b \in StartersIn(s, o, p - o) PROVE \E k \in i..j - 1 : b = s.at[k]
  <2>1. b \in Boundaries(s) /\ o <= b /\ b < p
    BY <1>3 DEF StartersIn
  <2>2. PICK k \in 0..Chars(s) : s.at[k] = b
    BY <1>1, <2>1
  <2>3. s.at[k] \in Nat
    BY <1>1
  <2>4. ~ (k < i)
    BY <1>1, <1>2, <1>3, <2>1, <2>2, <2>3
  <2>5. s.at[j] \in Nat /\ s.at[k] < s.at[j]
    BY <1>1, <1>2, <1>3, <2>1, <2>2, <2>3
  <2>6. k < j
    BY <1>1, <1>2, <2>5
  <2> QED
    BY <1>1, <1>2, <2>2, <2>4, <2>6
<1>7. StartersIn(s, o, p - o) = {s.at[k] : k \in i..j - 1}
  <2>1. ASSUME NEW k \in i..j - 1 PROVE s.at[k] \in StartersIn(s, o, p - o)
    BY <1>3, <1>5 DEF StartersIn
  <2> QED
    BY <1>6, <2>1
<1> DEFINE T == StartersIn(s, o, p - o)
           f == [k \in i..j - 1 |-> s.at[k]]
<1>8. f \in Bijection(i..j - 1, T)
  <2>1. f \in [i..j - 1 -> T]
    BY <1>7
  <2>2. ASSUME NEW k \in i..j - 1, NEW m \in i..j - 1, f[k] = f[m] PROVE k = m
    BY <1>1, <1>5, <2>2
  <2>3. \A b \in T : \E k \in i..j - 1 : f[k] = b
    BY <1>7
  <2> QED
    BY <2>1, <2>2, <2>3 DEF Bijection, Injection, Surjection, IsInjective
<1>9. IsFiniteSet(i..j - 1) /\ Cardinality(i..j - 1) = j - i
  <2>1. i \in Int /\ j - 1 \in Int /\ j \in Int
    BY <1>1, <1>2
  <2>2. /\ IsFiniteSet(i..j - 1)
        /\ Cardinality(i..j - 1) = IF i > j - 1 THEN 0 ELSE (j - 1) - i + 1
    BY <2>1, FS_Interval
  <2> QED
    BY <1>4, <2>1, <2>2
<1>10. IsFiniteSet(T) /\ Cardinality(T) = j - i
  <2>1. ExistsBijection(i..j - 1, T)
    <3> HIDE DEF f, T
    <3> QED
      BY <1>8 DEF ExistsBijection
  <2> HIDE DEF T
  <2> QED
    BY <1>9, <2>1, FS_Bijection
<1> QED
  BY <1>4, <1>7, <1>10 DEF utf8_offset_to_index

\* The byte of a position, found from any byte before it and the number of characters
\* that begin from there on.
LEMMA AfterStartersIs ==
  ASSUME NEW s, IsSubject(s), NEW o \in 0..Length(s), NEW i, FirstFrom(s, o, i),
         NEW index \in 0..Chars(s), i <= index
  PROVE  AfterStarters(s, o, index - i) = s.at[index]
<1> DEFINE M == {b \in o..Length(s) :
                   \/ b = Length(s)
                   \/ b \in Boundaries(s) /\ utf8_offset_to_index(s, o, b - o) = index - i}
<1>1. /\ Chars(s) \in Nat /\ Length(s) = s.at[Chars(s)] /\ Length(s) \in Nat
      /\ \A k \in 0..Chars(s) : s.at[k] \in 0..Length(s) /\ s.at[k] \in Boundaries(s)
      /\ \A k, m \in 0..Chars(s) : (s.at[k] = s.at[m] <=> k = m) /\ (s.at[k] < s.at[m] <=> k < m)
      /\ \A b \in Boundaries(s) : \E k \in 0..Chars(s) : s.at[k] = b
  BY PlacesInSubject
<1>2. i \in 0..Chars(s) /\ o <= s.at[i]
  BY DEF FirstFrom
<1>3. ASSUME NEW m \in 0..Chars(s), o <= s.at[m]
      PROVE  utf8_offset_to_index(s, o, s.at[m] - o) = m - i
  <2>1. s.at[m] \in o..Length(s)
    BY <1>1, <1>3
  <2>2. FirstFrom(s, s.at[m], m)
    BY FirstFromPlace
  <2> QED
    BY <2>1, <2>2, StartersBetween
<1>4. s.at[index] \in M
  <2>1. s.at[i] <= s.at[index] /\ s.at[index] \in 0..Length(s) /\ s.at[i] \in 0..Length(s)
    BY <1>1, <1>2
  <2>2. o <= s.at[index]
    BY <1>1, <1>2, <2>1
  <2> QED
    BY <1>1, <1>3, <2>1, <2>2
<1>5. ASSUME NEW b \in M PROVE s.at[index] <= b
  <2>1. CASE b = Length(s)
    BY <1>1, <2>1
  <2>2. CASE b \in Boundaries(s) /\ utf8_offset_to_index(s, o, b - o) = index - i
    <3>1. PICK m \in 0..Chars(s) : s.at[m] = b
      BY <1>1, <2>2
    <3>2. o <= s.at[m]
      BY <3>1
    <3>3. m - i = index - i
      BY <1>3, <2>2, <3>1, <3>2
    <3>4. m = index
      BY <1>1, <1>2, <3>3
    <3> QED
      BY <1>1, <3>1, <3>4
  <2> QED
    BY <2>1, <2>2
<1>6. M \subseteq Int
  BY <1>1
<1>7. Min(M) = s.at[index]
  <2> HIDE DEF M
  <2> QED
    BY <1>4, <1>5, <1>6, MinIs
<1> QED
  BY <1>7 DEF AfterStarters

\* The cases of ScanChunks.
ChunkEnds(s, here) == here[1] + Chunk > Length(s)
InChunk(s, here) == StartersIn(s, here[1], Chunk)
PassesChunk(s, here) == here[2] >= Cardinality(InChunk(s, here))
NextChunk(s, here) == <<here[1] + Chunk, here[2] - Cardinality(InChunk(s, here))>>
EndInChunk(s, here) ==
  <<CHOOSE b \in InChunk(s, here) : Cardinality({c \in InChunk(s, here) : c < b}) = here[2], 0>>

\* The characters that begin in a chunk.
LEMMA ChunkCounts ==
  ASSUME NEW s, IsSubject(s), NEW o \in 0..Length(s), NEW r, ~ ChunkEnds(s, <<o, r>>)
  PROVE  /\ o + Chunk \in 0..Length(s)
         /\ Cardinality(InChunk(s, <<o, r>>)) \in Nat
         /\ \E i, j \in 0..Chars(s) :
              /\ FirstFrom(s, o, i) /\ FirstFrom(s, o + Chunk, j) /\ i <= j
              /\ InChunk(s, <<o, r>>) = {s.at[k] : k \in i..j - 1}
              /\ Cardinality(InChunk(s, <<o, r>>)) = j - i
<1>1. Chunk \in Nat \ {0} /\ Length(s) \in Nat
  BY ChunkAssumption, PlacesInSubject
<1>2. o + Chunk \in o..Length(s) /\ o + Chunk \in 0..Length(s) /\ (o + Chunk) - o = Chunk
  BY <1>1 DEF ChunkEnds
<1>3. PICK i \in 0..Chars(s) : FirstFrom(s, o, i)
  BY FirstFromExists
<1>4. PICK j \in 0..Chars(s) : FirstFrom(s, o + Chunk, j)
  BY <1>2, FirstFromExists
<1>5. /\ i <= j
      /\ StartersIn(s, o, (o + Chunk) - o) = {s.at[k] : k \in i..j - 1}
      /\ IsFiniteSet(StartersIn(s, o, (o + Chunk) - o))
      /\ utf8_offset_to_index(s, o, (o + Chunk) - o) = j - i
  BY <1>2, <1>3, <1>4, StartersBetween
<1>6. /\ InChunk(s, <<o, r>>) = {s.at[k] : k \in i..j - 1} /\ IsFiniteSet(InChunk(s, <<o, r>>))
      /\ Cardinality(InChunk(s, <<o, r>>)) = j - i
  BY <1>2, <1>5 DEF utf8_offset_to_index, InChunk
<1>7. Cardinality(InChunk(s, <<o, r>>)) \in Nat
  BY <1>6, FS_CardinalityType
<1> QED
  BY <1>2, <1>3, <1>4, <1>5, <1>6, <1>7

\* The scan by chunks exists: each chunk is after the one before.
LEMMA ChunksAreScanned ==
  ASSUME NEW s, IsSubject(s), NEW index \in 0..Chars(s)
  PROVE  \E scan :
           /\ ScanChunks(s, index) = scan[<<0, index>>]
           /\ \A o \in 0..Length(s), r \in 0..index :
                scan[<<o, r>>] = IF ChunkEnds(s, <<o, r>>) THEN <<o, r>>
                                 ELSE IF PassesChunk(s, <<o, r>>) THEN scan[NextChunk(s, <<o, r>>)]
                                 ELSE EndInChunk(s, <<o, r>>)
<1> DEFINE D == (0..Length(s)) \X (0..index)
           Scans(f) == f = [here \in D |->
                              IF ChunkEnds(s, here) THEN here
                              ELSE IF PassesChunk(s, here) THEN f[NextChunk(s, here)]
                              ELSE EndInChunk(s, here)]
           scan == CHOOSE f : Scans(f)
           stop == {here \in D : ChunkEnds(s, here) \/ ~ PassesChunk(s, here)}
           base == [here \in D |-> IF ChunkEnds(s, here) THEN here ELSE EndInChunk(s, here)]
           next == [here \in D |-> NextChunk(s, here)]
           V == {base[here] : here \in D}
           add == [p \in D \X V |-> p[2]]
           measure == [here \in D |-> Length(s) - here[1]]
<1>1. Length(s) \in Nat /\ Chunk \in Nat \ {0} /\ Chars(s) \in Nat
  BY PlacesInSubject, ChunkAssumption
<1>2. ScanChunks(s, index) = scan[<<0, index>>]
  BY DEF ScanChunks, ChunkEnds, InChunk, PassesChunk, NextChunk, EndInChunk
<1>3. IsStepwise(D, V, Length(s), measure, stop, base, next, add)
  <2>1. measure \in [D -> 0..Length(s)]
    BY <1>1
  <2>2. \A here \in D : here \in stop => base[here] \in V
    OBVIOUS
  <2>3. ASSUME NEW here \in D, here \notin stop
        PROVE  next[here] \in D /\ measure[next[here]] < measure[here]
    <3>1. PICK o \in 0..Length(s), r \in 0..index : here = <<o, r>>
      OBVIOUS
    <3>2. ~ ChunkEnds(s, <<o, r>>) /\ PassesChunk(s, <<o, r>>)
      BY <2>3, <3>1
    <3>3. o + Chunk \in 0..Length(s) /\ Cardinality(InChunk(s, <<o, r>>)) \in Nat
      BY <3>2, ChunkCounts
    <3>4. r - Cardinality(InChunk(s, <<o, r>>)) \in 0..index
      BY <1>1, <3>2, <3>3 DEF PassesChunk
    <3>5. next[here] = <<o + Chunk, r - Cardinality(InChunk(s, <<o, r>>))>>
      BY <3>1 DEF NextChunk
    <3>6. next[here] \in D
      BY <3>3, <3>4, <3>5
    <3>7. measure[here] = Length(s) - o /\ measure[next[here]] = Length(s) - (o + Chunk)
      <4> HIDE DEF next
      <4> QED
        BY <3>1, <3>5, <3>6
    <3> QED
      BY <1>1, <3>6, <3>7
  <2>4. \A here \in D, v \in V : here \notin stop => add[<<here, v>>] \in V
    <3> HIDE DEF D, V, stop
    <3> QED
      OBVIOUS
  <2> HIDE DEF D, V, measure, stop, base, next, add
  <2> QED
    BY <2>1, <2>2, <2>3, <2>4 DEF IsStepwise
<1>4. PICK f \in [D -> V] : IsResult(D, f, stop, base, next, add)
  <2>1. V # {}
    <3>1. <<0, 0>> \in D
      BY <1>1
    <3> QED
      BY <3>1
  <2> HIDE DEF D, V, measure, stop, base, next, add
  <2> QED
    BY <1>1, <1>3, <2>1, StepwiseRecursion
<1>5. Scans(f)
  <2>1. ASSUME NEW here \in D
        PROVE  f[here] = IF ChunkEnds(s, here) THEN here
                         ELSE IF PassesChunk(s, here) THEN f[NextChunk(s, here)]
                         ELSE EndInChunk(s, here)
    <3>1. f[here] = IF here \in stop THEN base[here] ELSE add[<<here, f[next[here]]>>]
      <4> HIDE DEF D, V, stop, base, next, add
      <4> QED
        BY <1>4 DEF IsResult
    <3>2. here \notin stop => next[here] \in D
      <4> HIDE DEF D, V, measure, stop, base, next, add
      <4> QED
        BY <1>3 DEF IsStepwise
    <3>3. here \notin stop => add[<<here, f[next[here]]>>] = f[NextChunk(s, here)]
      <4>1. next[here] = NextChunk(s, here)
        OBVIOUS
      <4>2. here \notin stop => f[next[here]] \in V
        <5> HIDE DEF D, V, stop, next
        <5> QED
          BY <3>2
      <4> HIDE DEF D, V, stop, next
      <4> QED
        BY <4>1, <4>2
    <3> QED
      BY <3>1, <3>3
  <2> HIDE DEF D, V
  <2> QED
    BY <1>4, <2>1
<1>6. Scans(scan)
  <2> HIDE DEF Scans
  <2> QED
    BY <1>5
<1>7. \A o \in 0..Length(s), r \in 0..index :
        scan[<<o, r>>] = IF ChunkEnds(s, <<o, r>>) THEN <<o, r>>
                         ELSE IF PassesChunk(s, <<o, r>>) THEN scan[NextChunk(s, <<o, r>>)]
                         ELSE EndInChunk(s, <<o, r>>)
  <2> HIDE DEF scan
  <2> QED
    BY <1>6
<1> HIDE DEF scan
<1> QED
  BY <1>2, <1>7

\* The starters between a byte and the beginning of a character.
LEMMA StartersBeforePlace ==
  ASSUME NEW s, IsSubject(s), NEW o \in 0..Length(s), NEW i, FirstFrom(s, o, i),
         NEW m \in 0..Chars(s), NEW p \in o..Length(s), p = s.at[m]
  PROVE  /\ StartersIn(s, o, p - o) = {s.at[k] : k \in i..m - 1}
         /\ utf8_offset_to_index(s, o, p - o) = m - i
<1>1. FirstFrom(s, p, m)
  BY FirstFromPlace
<1>2. /\ StartersIn(s, o, p - o) = {s.at[k] : k \in i..m - 1}
      /\ utf8_offset_to_index(s, o, p - o) = m - i
  BY SMTT(30), <1>1, StartersBetween
<1> QED
  BY <1>2

\* The scan by chunks and the rest byte by byte come to the byte of the position: from
\* any chunk on what remains to be counted is what lies between its first character and
\* the position.
LEMMA ScanComesToPlace ==
  ASSUME NEW s, IsSubject(s), NEW index \in 0..Chars(s)
  PROVE  ScanTail(s, ScanChunks(s, index)) = s.at[index]
<1>1. Length(s) \in Nat /\ Chunk \in Nat \ {0} /\ Chars(s) \in Nat /\ s.at[0] = 0
  BY PlacesInSubject, ChunkAssumption
<1>2. PICK scan :
        /\ ScanChunks(s, index) = scan[<<0, index>>]
        /\ \A o \in 0..Length(s), r \in 0..index :
             scan[<<o, r>>] = IF ChunkEnds(s, <<o, r>>) THEN <<o, r>>
                              ELSE IF PassesChunk(s, <<o, r>>) THEN scan[NextChunk(s, <<o, r>>)]
                              ELSE EndInChunk(s, <<o, r>>)
  BY ChunksAreScanned
<1> DEFINE Remains(o, r) == \E i \in 0..Chars(s) : FirstFrom(s, o, i) /\ i + r = index
           S == {n \in 0..Length(s) :
                   \A o \in 0..Length(s), r \in 0..index :
                     Length(s) - o = n /\ Remains(o, r) => ScanTail(s, scan[<<o, r>>]) = s.at[index]}
<1>3. ASSUME NEW o \in 0..Length(s), NEW r \in 0..index, Remains(o, r)
      PROVE  ScanTail(s, <<o, r>>) = s.at[index]
  <2>1. PICK i \in 0..Chars(s) : FirstFrom(s, o, i) /\ i + r = index
    BY <1>3
  <2>2. i <= index /\ index - i = r
    BY <1>1, <2>1
  <2>3. AfterStarters(s, o, index - i) = s.at[index]
    BY <2>1, <2>2, AfterStartersIs
  <2> QED
    BY <2>2, <2>3 DEF ScanTail
<1>4. ASSUME NEW o \in 0..Length(s), NEW i \in 0..Chars(s), FirstFrom(s, o, i),
             NEW j \in 0..Chars(s), FirstFrom(s, o, j)
      PROVE  i = j
  <2>1. /\ o <= s.at[i] /\ \A k \in 0..i - 1 : s.at[k] < o
        /\ o <= s.at[j] /\ \A k \in 0..j - 1 : s.at[k] < o
        /\ s.at[i] \in 0..Length(s) /\ s.at[j] \in 0..Length(s)
    BY <1>4, PlacesInSubject DEF FirstFrom
  <2>2. ~ (i < j) /\ ~ (j < i)
    BY <1>1, <2>1
  <2> QED
    BY <1>1, <2>2
<1>5. ASSUME NEW o \in 0..Length(s), NEW r \in 0..index, Remains(o, r), ~ ChunkEnds(s, <<o, r>>),
             ~ PassesChunk(s, <<o, r>>)
      PROVE  EndInChunk(s, <<o, r>>) = <<s.at[index], 0>>
  <2>1. PICK i, j \in 0..Chars(s) :
          /\ FirstFrom(s, o, i) /\ FirstFrom(s, o + Chunk, j) /\ i <= j
          /\ InChunk(s, <<o, r>>) = {s.at[k] : k \in i..j - 1}
          /\ Cardinality(InChunk(s, <<o, r>>)) = j - i
    BY <1>5, ChunkCounts
  <2>2. i + r = index
    BY <1>4, <1>5, <2>1
  <2>3. r < j - i
    BY <1>1, <1>5, <2>1 DEF PassesChunk
  <2>4. index \in i..j - 1
    BY <1>1, <2>2, <2>3
  <2> DEFINE starters == InChunk(s, <<o, r>>)
             Before(b) == {c \in starters : c < b}
             b0 == CHOOSE b \in starters : Cardinality(Before(b)) = r
  <2>5. ASSUME NEW m \in i..j - 1 PROVE Cardinality(Before(s.at[m])) = m - i
    <3>1. m \in 0..Chars(s) /\ s.at[m] \in o..Length(s) /\ FirstFrom(s, s.at[m], m)
      <4>1. m \in 0..Chars(s) /\ i <= m
        BY <1>1
      <4>2. s.at[m] \in 0..Length(s) /\ s.at[i] \in 0..Length(s) /\ (i < m => s.at[i] < s.at[m])
        BY <4>1, PlacesInSubject
      <4>3. o <= s.at[i]
        BY <2>1 DEF FirstFrom
      <4>4. o <= s.at[m]
        BY <1>1, <4>1, <4>2, <4>3
      <4> QED
        BY <1>1, <4>1, <4>2, <4>4, FirstFromPlace
    <3>2. /\ StartersIn(s, o, s.at[m] - o) = {s.at[k] : k \in i..m - 1}
          /\ Cardinality(StartersIn(s, o, s.at[m] - o)) = m - i
      <4>1. FirstFrom(s, o, i) /\ i <= m
        BY <1>1, <2>1
      <4>2. /\ StartersIn(s, o, s.at[m] - o) = {s.at[k] : k \in i..m - 1}
            /\ utf8_offset_to_index(s, o, s.at[m] - o) = m - i
        <5> DEFINE p == s.at[m]
        <5>1. p \in o..Length(s) /\ p = s.at[m]
          BY <3>1
        <5> HIDE DEF p
        <5>2. /\ StartersIn(s, o, p - o) = {s.at[k] : k \in i..m - 1}
              /\ utf8_offset_to_index(s, o, p - o) = m - i
          BY SMTT(30), <3>1, <4>1, <5>1, StartersBeforePlace
        <5> QED
          BY <5>2 DEF p
      <4> QED
        BY <4>2 DEF utf8_offset_to_index
    <3>3. Before(s.at[m]) = {s.at[k] : k \in i..m - 1}
      <4>1. \A k \in i..j - 1 : s.at[k] < s.at[m] <=> k \in i..m - 1
        BY <1>1, <3>1, PlacesInSubject
      <4>2. i..m - 1 \subseteq i..j - 1
        BY <1>1
      <4> QED
        BY <2>1, <4>1, <4>2
    <3> QED
      BY <3>2, <3>3
  <2>6. s.at[index] \in starters /\ Cardinality(Before(s.at[index])) = r
    BY <1>1, <2>1, <2>2, <2>4, <2>5
  <2>7. b0 \in starters /\ Cardinality(Before(b0)) = r
    <3> HIDE DEF starters, Before
    <3> QED
      BY <2>6
  <2>8. b0 = s.at[index]
    <3> HIDE DEF b0
    <3>1. PICK m \in i..j - 1 : b0 = s.at[m]
      BY <2>1, <2>7
    <3>2. m - i = r
      BY <2>5, <2>7, <3>1
    <3>3. m = index
      BY <1>1, <2>2, <3>2
    <3> QED
      BY <3>1, <3>3
  <2>9. EndInChunk(s, <<o, r>>) = <<b0, 0>>
    BY DEF EndInChunk
  <2> HIDE DEF b0
  <2> QED
    BY <2>8, <2>9
<1>6. ASSUME NEW n \in 0..Length(s), \A m \in 0..n - 1 : m \in S PROVE n \in S
  <2> SUFFICES ASSUME NEW o \in 0..Length(s), NEW r \in 0..index, Length(s) - o = n, Remains(o, r)
               PROVE  ScanTail(s, scan[<<o, r>>]) = s.at[index]
    OBVIOUS
  <2> HIDE DEF Remains
  <2>1. scan[<<o, r>>] = IF ChunkEnds(s, <<o, r>>) THEN <<o, r>>
                         ELSE IF PassesChunk(s, <<o, r>>) THEN scan[NextChunk(s, <<o, r>>)]
                         ELSE EndInChunk(s, <<o, r>>)
    BY <1>2
  <2>2. CASE ChunkEnds(s, <<o, r>>)
    BY <1>3, <2>1, <2>2
  <2>3. CASE ~ ChunkEnds(s, <<o, r>>) /\ PassesChunk(s, <<o, r>>)
    <3> DEFINE count == Cardinality(InChunk(s, <<o, r>>))
    <3>1. PICK i, j \in 0..Chars(s) :
            FirstFrom(s, o, i) /\ FirstFrom(s, o + Chunk, j) /\ i <= j /\ count = j - i
      BY <2>3, ChunkCounts
    <3>2. o + Chunk \in 0..Length(s) /\ count \in Nat
      BY <2>3, ChunkCounts
    <3>3. i + r = index
      BY <1>4, <3>1 DEF Remains
    <3>4. r - count \in 0..index /\ j + (r - count) = index
      BY <1>1, <2>3, <3>1, <3>2, <3>3 DEF PassesChunk
    <3>5. Remains(o + Chunk, r - count)
      BY <3>1, <3>4 DEF Remains
    <3>6. NextChunk(s, <<o, r>>) = <<o + Chunk, r - count>>
      BY DEF NextChunk
    <3> HIDE DEF count
    <3>7. Length(s) - (o + Chunk) \in 0..n - 1
      BY <1>1, <3>2
    <3>8. ScanTail(s, scan[<<o + Chunk, r - count>>]) = s.at[index]
      BY <1>6, <3>2, <3>4, <3>5, <3>7
    <3> QED
      BY <2>1, <2>3, <3>6, <3>8
  <2>4. CASE ~ ChunkEnds(s, <<o, r>>) /\ ~ PassesChunk(s, <<o, r>>)
    <3>1. scan[<<o, r>>] = <<s.at[index], 0>>
      BY <1>5, <2>1, <2>4
    <3>2. s.at[index] \in 0..Length(s) /\ FirstFrom(s, s.at[index], index)
      BY PlacesInSubject, FirstFromPlace
    <3>3. Remains(s.at[index], 0)
      BY <1>1, <3>2 DEF Remains
    <3>4. 0 \in 0..index
      BY <1>1
    <3> QED
      BY <1>3, <3>1, <3>2, <3>3, <3>4
  <2> QED
    BY <2>2, <2>3, <2>4
<1>7. 0..Length(s) \subseteq S
  <2> HIDE DEF S
  <2> QED
    BY <1>1, <1>6, NumbersIn
<1>8. Remains(0, index)
  <2>1. FirstFrom(s, s.at[0], 0)
    BY <1>1, FirstFromPlace
  <2> QED
    BY <1>1, <2>1
<1>9. Length(s) \in S
  BY <1>1, <1>7
<1> HIDE DEF Remains
<1> QED
  BY <1>1, <1>2, <1>8, <1>9

\* Characters of one byte each: the positions are the bytes.
OneByteEach(s) == \A i \in 1..Chars(s) : WidthOf[s.text[i]] = 1

LEMMA PositionsAreBytes ==
  ASSUME NEW s, IsSubject(s), OneByteEach(s), NEW i \in 0..Chars(s)
  PROVE  s.at[i] = i /\ Length(s) = Chars(s) /\ Boundaries(s) = 0..Chars(s)
<1>1. Chars(s) \in Nat /\ Length(s) = s.at[Chars(s)] /\ s.at[0] = 0
  BY PlacesInSubject
<1> DEFINE S == {k \in 0..Chars(s) : s.at[k] = k}
<1>2. 0 \in S
  BY <1>1
<1>3. ASSUME NEW k \in 0..Chars(s) - 1, k \in S PROVE k + 1 \in S
  <2>1. s.at[k + 1] = s.at[k] + WidthOf[s.text[k + 1]] /\ k + 1 \in 1..Chars(s)
    BY <1>1, PlacesInSubject
  <2> QED
    BY <1>1, <1>3, <2>1 DEF OneByteEach
<1>4. 0..Chars(s) \subseteq S
  <2> HIDE DEF S
  <2> QED
    BY <1>1, <1>2, <1>3, StepsUp
<1>5. \A k \in 0..Chars(s) : s.at[k] = k
  BY <1>4
<1>6. Boundaries(s) = 0..Chars(s)
  <2>1. \A k \in 0..Chars(s) : s.at[k] \in Boundaries(s)
    BY PlacesInSubject
  <2>2. \A b \in Boundaries(s) : \E k \in 0..Chars(s) : s.at[k] = b
    BY PlacesInSubject
  <2>3. ASSUME NEW b \in Boundaries(s) PROVE b \in 0..Chars(s)
    BY <1>5, <2>2
  <2>4. ASSUME NEW b \in 0..Chars(s) PROVE b \in Boundaries(s)
    BY <1>5, <2>1
  <2> QED
    BY <2>3, <2>4
<1> QED
  BY <1>1, <1>5, <1>6

\* A str of one byte a character in memory: each character beyond ASCII is one byte more.
LEMMA LatinBytes ==
  ASSUME NEW s, IsSubject(s), OneByteKind(s), NEW index \in 0..Chars(s)
  PROVE  index + Cardinality({i \in 1..index : s.text[i] = "latin"}) = s.at[index]
<1> DEFINE Latin(k) == {i \in 1..k : s.text[i] = "latin"}
           S == {k \in 0..Chars(s) : IsFiniteSet(Latin(k)) /\ k + Cardinality(Latin(k)) = s.at[k]}
<1>1. Chars(s) \in Nat /\ s.at[0] = 0
  BY PlacesInSubject
<1>2. 0 \in S
  <2>1. Latin(0) = {}
    OBVIOUS
  <2> QED
    BY <1>1, <2>1, FS_EmptySet
<1>3. ASSUME NEW k \in 0..Chars(s) - 1, k \in S PROVE k + 1 \in S
  <2>1. /\ s.text[k + 1] \in Units /\ s.at[k + 1] = s.at[k] + WidthOf[s.text[k + 1]]
        /\ k + 1 \in 1..Chars(s) /\ k \in Nat
    BY <1>1, PlacesInSubject
  <2>2. WidthOf[s.text[k + 1]] = IF s.text[k + 1] = "latin" THEN 2 ELSE 1
    BY <2>1 DEF OneByteKind, WidthOf, Units
  <2>3. /\ IsFiniteSet(Latin(k)) /\ k + Cardinality(Latin(k)) = s.at[k]
        /\ Cardinality(Latin(k)) \in Nat /\ k + 1 \notin Latin(k)
    BY <1>3, <2>1, FS_CardinalityType
  <2>4. Latin(k + 1) = IF s.text[k + 1] = "latin" THEN Latin(k) \union {k + 1} ELSE Latin(k)
    BY <2>1
  <2>5. /\ IsFiniteSet(Latin(k) \union {k + 1})
        /\ Cardinality(Latin(k) \union {k + 1}) = Cardinality(Latin(k)) + 1
    <3> HIDE DEF Latin
    <3> QED
      BY <2>3, FS_AddElement
  <2> HIDE DEF Latin
  <2> QED
    BY <2>1, <2>2, <2>3, <2>4, <2>5
<1>4. 0..Chars(s) \subseteq S
  <2> HIDE DEF S
  <2> QED
    BY <1>1, <1>2, <1>3, StepsUp
<1> QED
  BY <1>4

\* A position in characters goes to the byte its character begins at, by whichever way.
LEMMA IndexToOffset ==
  ASSUME NEW s, IsSubject(s), s.kind = "ascii" => OneByteEach(s), NEW index \in 0..Chars(s)
  PROVE  utf8_index_to_offset(s, index) = s.at[index]
<1>1. Chars(s) \in Nat /\ Length(s) = s.at[Chars(s)]
  BY PlacesInSubject
<1>2. CASE s.kind = "ascii"
  BY <1>2, PositionsAreBytes DEF utf8_index_to_offset
<1>3. CASE s.kind # "ascii" /\ index >= Chars(s)
  <2>1. index = Chars(s)
    BY <1>1, <1>3
  <2> QED
    BY <1>1, <1>3, <2>1 DEF utf8_index_to_offset
<1>4. CASE s.kind # "ascii" /\ ~ (index >= Chars(s)) /\ OneByteKind(s)
  <2>1. index + Cardinality({i \in 1..index : s.text[i] = "latin"}) = s.at[index]
    BY <1>4, LatinBytes
  <2> QED
    BY <1>4, <2>1 DEF utf8_index_to_offset
<1>5. CASE s.kind # "ascii" /\ ~ (index >= Chars(s)) /\ ~ OneByteKind(s)
  BY <1>5, ScanComesToPlace DEF utf8_index_to_offset
<1> QED
  BY <1>2, <1>3, <1>4, <1>5

\* And back.
LEMMA OffsetToIndex ==
  ASSUME NEW s, IsSubject(s), NEW i \in 0..Chars(s), NEW j \in 0..Chars(s), i <= j
  PROVE  utf8_offset_to_index(s, s.at[i], s.at[j] - s.at[i]) = j - i
<1>1. s.at[i] \in 0..Length(s) /\ s.at[j] \in 0..Length(s) /\ (i < j => s.at[i] < s.at[j])
      /\ Length(s) \in Nat /\ Chars(s) \in Nat
  BY PlacesInSubject
<1>2. s.at[j] \in s.at[i]..Length(s)
  BY <1>1
<1>3. FirstFrom(s, s.at[i], i) /\ FirstFrom(s, s.at[j], j)
  BY FirstFromPlace
<1> QED
  BY <1>1, <1>2, <1>3, StartersBetween


-----------------------------------------------------------------------------
(* Matches.                                                                    *)

\* What a character can match ends in the subject.
IsPattern(s, m) ==
  /\ m \in [0..Chars(s) -> Seq(Nat)]
  /\ \A i \in 0..Chars(s) : \A j \in DOMAIN m[i] : i + m[i][j] <= Chars(s)

\* The parts of MatchesFrom: here is a character and whether an empty match there is out.
FitsFrom(m, e, here, k) ==
  {j \in DOMAIN m[k] : k + m[k][j] <= e /\ ~(here = <<k, TRUE>> /\ m[k][j] = 0)}
StartsFrom(m, e, here) == {k \in here[1]..e : FitsFrom(m, e, here, k) # {}}
LengthAt(m, e, here, k) == m[k][Min(FitsFrom(m, e, here, k))]
FirstSpan(m, e, here) ==
  LET k == Min(StartsFrom(m, e, here)) IN <<k, k + LengthAt(m, e, here, k)>>
AfterSpan(m, e, here) ==
  LET k == Min(StartsFrom(m, e, here))
      l == LengthAt(m, e, here, k)
  IN  <<k + l, l = 0>>

\* A span begins where it is looked for and ends before the end; it is not the empty one
\* that is out.
LEMMA SpansAreInside ==
  ASSUME NEW s, IsSubject(s), NEW m, IsPattern(s, m), NEW e \in 0..Chars(s), NEW c \in 0..e,
         NEW adv \in BOOLEAN, NEW k \in c..e, FitsFrom(m, e, <<c, adv>>, k) # {}
  PROVE  /\ LengthAt(m, e, <<c, adv>>, k) \in Nat
         /\ k + LengthAt(m, e, <<c, adv>>, k) \in k..e
         /\ adv /\ k = c => LengthAt(m, e, <<c, adv>>, k) # 0
<1> DEFINE fits == FitsFrom(m, e, <<c, adv>>, k)
<1>1. Chars(s) \in Nat /\ k \in 0..Chars(s)
  BY PlacesInSubject
<1>2. m[k] \in Seq(Nat)
  BY <1>1 DEF IsPattern
<1>3. fits \subseteq Nat /\ fits # {}
  <2>1. DOMAIN m[k] = 1..Len(m[k]) /\ Len(m[k]) \in Nat
    BY <1>2
  <2>2. fits \subseteq DOMAIN m[k]
    BY Zenon DEF FitsFrom
  <2>3. fits # {}
    OBVIOUS
  <2> HIDE DEF fits
  <2> QED
    BY <2>1, <2>2, <2>3
<1>4. Min(fits) \in fits
  <2> HIDE DEF fits
  <2> QED
    BY <1>3, MinOfNumbers
<1> DEFINE j == Min(fits)
<1>5. /\ j \in DOMAIN m[k] /\ k + m[k][j] <= e
      /\ ~ (<<c, adv>> = <<k, TRUE>> /\ m[k][j] = 0)
  <2> HIDE DEF j
  <2>1. j \in fits
    BY <1>4 DEF j
  <2> QED
    BY <2>1 DEF FitsFrom
<1>6. LengthAt(m, e, <<c, adv>>, k) = m[k][j]
  BY DEF LengthAt
<1> HIDE DEF j, fits
<1>8. m[k][j] \in Nat
  BY <1>2, <1>5
<1>9. k + m[k][j] \in k..e
  BY <1>1, <1>5, <1>8
<1>10. adv /\ k = c => m[k][j] # 0
  BY <1>5
<1> QED
  BY <1>6, <1>8, <1>9, <1>10

\* The first of them is the l characters from k on.
IsFirstSpan(m, e, c, adv, k, l) ==
  /\ FirstSpan(m, e, <<c, adv>>) = <<k, k + l>> /\ k + l \in k..e
  /\ AfterSpan(m, e, <<c, adv>>) = <<k + l, l = 0>>
  /\ k = Min(StartsFrom(m, e, <<c, adv>>)) /\ k \in StartsFrom(m, e, <<c, adv>>)
  /\ l = LengthAt(m, e, <<c, adv>>, k)
  /\ adv /\ k = c => l # 0

LEMMA FirstSpanIs ==
  ASSUME NEW s, IsSubject(s), NEW m, IsPattern(s, m), NEW e \in 0..Chars(s), NEW c \in 0..e,
         NEW adv \in BOOLEAN, StartsFrom(m, e, <<c, adv>>) # {}
  PROVE  \E k \in c..e, l \in Nat : IsFirstSpan(m, e, c, adv, k, l)
<1> DEFINE starts == StartsFrom(m, e, <<c, adv>>)
           k == Min(starts)
<1>1. starts \subseteq c..e /\ starts \subseteq Nat /\ starts # {}
  BY DEF StartsFrom
<1>2. k \in starts
  <2> HIDE DEF starts
  <2> QED
    BY <1>1, MinOfNumbers
<1>3. k \in c..e /\ FitsFrom(m, e, <<c, adv>>, k) # {}
  <2> HIDE DEF k
  <2> QED
    BY <1>1, <1>2 DEF StartsFrom
<1> DEFINE l == LengthAt(m, e, <<c, adv>>, k)
<1>4. FirstSpan(m, e, <<c, adv>>) = <<k, k + l>> /\ AfterSpan(m, e, <<c, adv>>) = <<k + l, l = 0>>
  BY DEF FirstSpan, AfterSpan
<1>5. k = Min(StartsFrom(m, e, <<c, adv>>)) /\ starts = StartsFrom(m, e, <<c, adv>>)
  OBVIOUS
<1>6. l \in Nat /\ k + l \in k..e /\ (adv /\ k = c => l # 0)
  <2> HIDE DEF k, starts
  <2> QED
    BY <1>3, SpansAreInside
<1>7. l = LengthAt(m, e, <<c, adv>>, k)
  OBVIOUS
<1> HIDE DEF k, starts, l
<1>8. IsFirstSpan(m, e, c, adv, k, l)
  BY <1>2, <1>3, <1>4, <1>5, <1>6, <1>7 DEF IsFirstSpan
<1> QED
  BY <1>3, <1>6, <1>8

\* The matches from each character on.
Sequel(m, e) ==
  CHOOSE next : next = [here \in (0..e) \X BOOLEAN |->
                          IF StartsFrom(m, e, here) = {} THEN <<>>
                          ELSE <<FirstSpan(m, e, here)>> \o next[AfterSpan(m, e, here)]]

IsSequel(m, e, next) ==
  \A c \in 0..e, adv \in BOOLEAN :
    /\ next[<<c, adv>>] \in Seq((0..e) \X (0..e))
    /\ StartsFrom(m, e, <<c, adv>>) = {} => next[<<c, adv>>] = <<>>
    /\ StartsFrom(m, e, <<c, adv>>) # {} =>
         next[<<c, adv>>] = <<FirstSpan(m, e, <<c, adv>>)>> \o next[AfterSpan(m, e, <<c, adv>>)]

LEMMA SequelIs ==
  ASSUME NEW s, IsSubject(s), NEW m, IsPattern(s, m), NEW e \in 0..Chars(s)
  PROVE  /\ IsSequel(m, e, Sequel(m, e))
         /\ \A p \in 0..e : MatchesFrom(m, p, e) = Sequel(m, e)[<<p, FALSE>>]
<1> DEFINE D == (0..e) \X BOOLEAN
           V == Seq((0..e) \X (0..e))
           Goes(f) == f = [here \in D |->
                             IF StartsFrom(m, e, here) = {} THEN <<>>
                             ELSE <<FirstSpan(m, e, here)>> \o f[AfterSpan(m, e, here)]]
           stop == {here \in D : StartsFrom(m, e, here) = {}}
           base == [here \in D |-> <<>>]
           next == [here \in D |-> AfterSpan(m, e, here)]
           add == [p \in D \X V |-> <<FirstSpan(m, e, p[1])>> \o p[2]]
           measure == [here \in D |-> 2 * (e - here[1]) + (IF here[2] THEN 0 ELSE 1)]
           N == 2 * e + 1
<1>1. Chars(s) \in Nat /\ e \in Nat /\ N \in Nat
  BY PlacesInSubject
<1>2. \A p \in 0..e : MatchesFrom(m, p, e) = Sequel(m, e)[<<p, FALSE>>]
  BY DEF MatchesFrom, Sequel, StartsFrom, FitsFrom, FirstSpan, AfterSpan, LengthAt
<1>3. Sequel(m, e) = CHOOSE f : Goes(f)
  BY DEF Sequel
<1>4. ASSUME NEW here \in D, here \notin stop
      PROVE  /\ FirstSpan(m, e, here) \in (0..e) \X (0..e)
             /\ AfterSpan(m, e, here) \in D
             /\ measure[AfterSpan(m, e, here)] < measure[here]
  <2>1. PICK c \in 0..e, adv \in BOOLEAN : here = <<c, adv>>
    OBVIOUS
  <2>2. StartsFrom(m, e, <<c, adv>>) # {}
    BY <1>4, <2>1
  <2> PICK k \in c..e, l \in Nat : IsFirstSpan(m, e, c, adv, k, l)
    BY <2>2, FirstSpanIs
  <2>3. /\ FirstSpan(m, e, <<c, adv>>) = <<k, k + l>> /\ k + l \in k..e
        /\ AfterSpan(m, e, <<c, adv>>) = <<k + l, l = 0>>
        /\ adv /\ k = c => l # 0
    BY DEF IsFirstSpan
  <2>4. k \in 0..e /\ k + l \in 0..e /\ (l = 0) \in BOOLEAN
    BY <1>1, <2>3
  <2>5. /\ measure[<<c, adv>>] = 2 * (e - c) + (IF adv THEN 0 ELSE 1)
        /\ measure[<<k + l, l = 0>>] = 2 * (e - (k + l)) + (IF l = 0 THEN 0 ELSE 1)
    <3>1. <<c, adv>> \in D /\ <<k + l, l = 0>> \in D
      BY <2>4
    <3> QED
      BY <3>1
  <2>6. 2 * (e - (k + l)) + (IF l = 0 THEN 0 ELSE 1) < 2 * (e - c) + (IF adv THEN 0 ELSE 1)
    <3>1. CASE l = 0 /\ k = c
      <4>1. ~ adv
        BY <2>3, <3>1
      <4> QED
        BY <1>1, <3>1, <4>1
    <3>2. CASE l # 0 \/ k # c
      <4>1. k + l > c
        BY <1>1, <2>3, <3>2
      <4> QED
        BY <1>1, <2>4, <4>1
    <3> QED
      BY <3>1, <3>2
  <2>7. FirstSpan(m, e, here) \in (0..e) \X (0..e)
    BY <2>1, <2>3, <2>4
  <2>8. AfterSpan(m, e, here) = <<k + l, l = 0>>
    BY <2>1, <2>3
  <2>9. <<k + l, l = 0>> \in D
    BY <2>4
  <2>10. measure[<<k + l, l = 0>>] < measure[<<c, adv>>]
    <3> HIDE DEF measure
    <3> QED
      BY <2>5, <2>6
  <2> HIDE DEF measure, D
  <2> QED
    BY <2>1, <2>7, <2>8, <2>9, <2>10
<1>5. IsStepwise(D, V, N, measure, stop, base, next, add)
  <2>1. measure \in [D -> 0..N]
    <3>1. ASSUME NEW here \in D PROVE 2 * (e - here[1]) + (IF here[2] THEN 0 ELSE 1) \in 0..N
      <4>1. here[1] \in 0..e /\ here[2] \in BOOLEAN
        OBVIOUS
      <4> QED
        BY <1>1, <4>1
    <3> HIDE DEF D, N
    <3> QED
      BY <3>1
  <2>2. \A here \in D : here \in stop => base[here] \in V
    OBVIOUS
  <2>3. ASSUME NEW here \in D, here \notin stop
        PROVE  next[here] \in D /\ measure[next[here]] < measure[here]
    <3>1. next[here] = AfterSpan(m, e, here)
      OBVIOUS
    <3> HIDE DEF next, measure, D, stop
    <3> QED
      BY <1>4, <2>3, <3>1
  <2>4. ASSUME NEW here \in D, NEW v \in V, here \notin stop
        PROVE  add[<<here, v>>] \in V
    <3>1. FirstSpan(m, e, here) \in (0..e) \X (0..e)
      <4> HIDE DEF D, stop, measure
      <4> QED
        BY <1>4, <2>4
    <3>2. add[<<here, v>>] = <<FirstSpan(m, e, here)>> \o v
      <4> HIDE DEF D, V, stop
      <4> QED
        OBVIOUS
    <3> HIDE DEF add, D, stop
    <3>3. <<FirstSpan(m, e, here)>> \in V
      BY <3>1
    <3> QED
      BY <3>2, <3>3, ConcatProperties
  <2> HIDE DEF D, V, N, measure, stop, base, next, add
  <2> QED
    BY <2>1, <2>2, <2>3, <2>4 DEF IsStepwise
<1>6. PICK f \in [D -> V] : IsResult(D, f, stop, base, next, add)
  <2>1. <<>> \in V
    OBVIOUS
  <2> HIDE DEF D, V, N, measure, stop, base, next, add
  <2>2. V # {}
    BY <2>1
  <2> QED
    BY <1>1, <1>5, <2>2, StepwiseRecursion
<1>7. ASSUME NEW here \in D
      PROVE  f[here] = IF StartsFrom(m, e, here) = {} THEN <<>>
                       ELSE <<FirstSpan(m, e, here)>> \o f[AfterSpan(m, e, here)]
  <2>1. f[here] = IF here \in stop THEN base[here] ELSE add[<<here, f[next[here]]>>]
    <3> HIDE DEF D, V, stop, base, next, add
    <3> QED
      BY <1>6 DEF IsResult
  <2>2. here \notin stop => AfterSpan(m, e, here) \in D
    <3> HIDE DEF D, stop, measure
    <3> QED
      BY <1>4
  <2>3. base[here] = <<>> /\ next[here] = AfterSpan(m, e, here)
    OBVIOUS
  <2>4. \A v \in V : add[<<here, v>>] = <<FirstSpan(m, e, here)>> \o v
    <3> HIDE DEF D, V
    <3> QED
      OBVIOUS
  <2>5. here \notin stop => f[AfterSpan(m, e, here)] \in V
    <3> HIDE DEF D, V, stop
    <3> QED
      BY <2>2
  <2>6. here \in stop <=> StartsFrom(m, e, here) = {}
    OBVIOUS
  <2> HIDE DEF D, V, stop, base, next, add
  <2> QED
    BY <2>1, <2>3, <2>4, <2>5, <2>6
<1>8. Goes(f)
  <2> HIDE DEF D, V
  <2> QED
    BY <1>6, <1>7
<1> DEFINE g == CHOOSE h : Goes(h)
<1>9. Goes(g)
  <2> HIDE DEF Goes
  <2> QED
    BY <1>8
<1>10. g = Sequel(m, e)
  BY <1>3
<1>11. g = f
  \* Equal where the measure is smaller, equal.
  <2> DEFINE S == {n \in 0..N : \A here \in D : measure[here] = n => g[here] = f[here]}
  <2>1. ASSUME NEW n \in 0..N, \A k \in 0..n - 1 : k \in S PROVE n \in S
    <3> SUFFICES ASSUME NEW here \in D, measure[here] = n PROVE g[here] = f[here]
      OBVIOUS
    <3>1. g[here] = IF StartsFrom(m, e, here) = {} THEN <<>>
                    ELSE <<FirstSpan(m, e, here)>> \o g[AfterSpan(m, e, here)]
      <4> HIDE DEF g, D
      <4> QED
        BY <1>9
    <3>2. here \notin stop => /\ AfterSpan(m, e, here) \in D
                              /\ measure[AfterSpan(m, e, here)] < measure[here]
      <4> HIDE DEF D, stop, measure
      <4> QED
        BY <1>4
    <3>3. here \notin stop => measure[AfterSpan(m, e, here)] \in 0..n - 1
      <4>1. \A x \in D : measure[x] \in 0..N
        <5> HIDE DEF D, V, N, measure, stop, base, next, add
        <5> QED
          BY <1>5 DEF IsStepwise
      <4> HIDE DEF D, N, measure, stop
      <4> QED
        BY <1>1, <3>2, <4>1
    <3>4. here \notin stop => g[AfterSpan(m, e, here)] = f[AfterSpan(m, e, here)]
      <4> HIDE DEF g, D, N, measure, stop
      <4> QED
        BY <2>1, <3>2, <3>3
    <3>5. here \in stop <=> StartsFrom(m, e, here) = {}
      OBVIOUS
    <3> HIDE DEF g, D, N, measure, stop
    <3> QED
      BY <1>7, <3>1, <3>4, <3>5
  <2>2. 0..N \subseteq S
    <3> HIDE DEF S, N
    <3> QED
      BY <1>1, <2>1, NumbersIn
  <2>3. \A here \in D : measure[here] \in 0..N
    <3> HIDE DEF D, V, N, measure, stop, base, next, add
    <3> QED
      BY <1>5 DEF IsStepwise
  <2>4. ASSUME NEW here \in D PROVE g[here] = f[here]
    <3> HIDE DEF g, D, N, measure
    <3> QED
      BY <2>2, <2>3
  <2>5. g = [here \in D |-> g[here]]
    <3> HIDE DEF g, D
    <3> QED
      BY <1>9
  <2>6. f = [here \in D |-> f[here]]
    <3> HIDE DEF D, V
    <3> QED
      BY <1>6
  <2> HIDE DEF g, D
  <2> QED
    BY <2>4, <2>5, <2>6
<1>12. ASSUME NEW c \in 0..e, NEW adv \in BOOLEAN
       PROVE  /\ f[<<c, adv>>] \in Seq((0..e) \X (0..e))
              /\ StartsFrom(m, e, <<c, adv>>) = {} => f[<<c, adv>>] = <<>>
              /\ StartsFrom(m, e, <<c, adv>>) # {} =>
                   f[<<c, adv>>] = <<FirstSpan(m, e, <<c, adv>>)>> \o f[AfterSpan(m, e, <<c, adv>>)]
  <2>1. <<c, adv>> \in D
    OBVIOUS
  <2>2. f[<<c, adv>>] \in V
    <3> HIDE DEF D, V
    <3> QED
      BY <2>1
  <2> QED
    BY <1>7, <2>1, <2>2
<1> HIDE DEF g
<1> QED
  BY <1>2, <1>10, <1>11, <1>12 DEF IsSequel


\* Whether there is a match: on a retry, one that begins at c.
Hit(m, e, c, retry) ==
  IF retry THEN FitsFrom(m, e, <<c, TRUE>>, c) # {} ELSE StartsFrom(m, e, <<c, FALSE>>) # {}

\* What PCRE2 finds from character c on: anchored and not empty on a retry.
HitAt(s, m, e, c, retry) ==
  IF Hit(m, e, c, retry)
  THEN Matched(s.at[FirstSpan(m, e, <<c, retry>>)[1]], s.at[FirstSpan(m, e, <<c, retry>>)[2]])
  ELSE NoMatch

LEMMA HitsAreStarts ==
  ASSUME NEW s, IsSubject(s), NEW m, IsPattern(s, m), NEW e \in 0..Chars(s), NEW c \in 0..e,
         NEW retry \in BOOLEAN, Hit(m, e, c, retry)
  PROVE  StartsFrom(m, e, <<c, retry>>) # {}
<1>1. c \in c..e
  BY PlacesInSubject
<1>2. CASE retry
  <2>1. retry = TRUE
    BY <1>2
  <2>2. FitsFrom(m, e, <<c, TRUE>>, c) # {}
    BY <2>1 DEF Hit
  <2>3. <<c, TRUE>>[1] = c
    OBVIOUS
  <2>4. c \in StartsFrom(m, e, <<c, TRUE>>)
    BY <1>1, <2>2, <2>3 DEF StartsFrom
  <2> QED
    BY <2>1, <2>4
<1>3. CASE ~ retry
  <2>1. retry = FALSE
    BY <1>3
  <2> QED
    BY <2>1 DEF Hit
<1> QED
  BY <1>2, <1>3

LEMMA FirstMatchFinds ==
  ASSUME NEW s, IsSubject(s), NEW m, IsPattern(s, m), NEW e \in 0..Chars(s), NEW c \in 0..e,
         NEW retry \in BOOLEAN, NEW o, o.anchored = retry, o.notempty_atstart = retry,
         o.endanchored = FALSE
  PROVE  FirstMatch(s, m, c, e, o) = HitAt(s, m, e, c, retry)
<1> DEFINE here == <<c, retry>>
           Fits(k) == {j \in DOMAIN m[k] : /\ k + m[k][j] <= e
                                           /\ o.notempty_atstart => ~(k = c /\ m[k][j] = 0)
                                           /\ o.endanchored => k + m[k][j] = e}
           Span(k) == Matched(s.at[k], s.at[k + m[k][Min(Fits(k))]])
           starts == {k \in c..e : Fits(k) # {} /\ (o.anchored => k = c)}
<1>1. FirstMatch(s, m, c, e, o) = IF starts = {} THEN NoMatch ELSE Span(Min(starts))
  BY DEF FirstMatch
<1>2. c \in c..e /\ c..e \subseteq Int /\ Chars(s) \in Nat
  BY PlacesInSubject
<1>3. ASSUME NEW k PROVE Fits(k) = FitsFrom(m, e, here, k)
  <2>1. here = <<k, TRUE>> <=> (o.notempty_atstart /\ k = c)
    BY Zenon
  <2>2. ~ o.endanchored
    OBVIOUS
  <2> HIDE DEF here
  <2> QED
    BY Zenon, <2>1, <2>2 DEF FitsFrom
<1>4. StartsFrom(m, e, here) = {k \in c..e : FitsFrom(m, e, here, k) # {}}
  <2>1. here[1] = c
    OBVIOUS
  <2> HIDE DEF here
  <2> QED
    BY <2>1 DEF StartsFrom
<1>5. ASSUME NEW k, k = Min(StartsFrom(m, e, here))
      PROVE  Span(k) = Matched(s.at[FirstSpan(m, e, here)[1]], s.at[FirstSpan(m, e, here)[2]])
  <2>1. FirstSpan(m, e, here) = <<k, k + LengthAt(m, e, here, k)>>
    BY <1>5 DEF FirstSpan
  <2>2. LengthAt(m, e, here, k) = m[k][Min(Fits(k))]
    <3> HIDE DEF Fits, here
    <3> QED
      BY <1>3 DEF LengthAt
  <2> HIDE DEF Fits, here
  <2> QED
    BY <2>1, <2>2
<1>6. CASE retry
  <2>1. retry = TRUE /\ o.anchored
    BY <1>6
  <2>2. starts = {k \in {c} : Fits(c) # {}}
    <3> HIDE DEF Fits
    <3> QED
      BY <1>2, <2>1
  <2>3. Hit(m, e, c, retry) <=> Fits(c) # {}
    <3>1. Hit(m, e, c, TRUE) <=> FitsFrom(m, e, <<c, TRUE>>, c) # {}
      BY DEF Hit
    <3>2. Fits(c) = FitsFrom(m, e, <<c, TRUE>>, c)
      BY <1>3, <2>1
    <3> HIDE DEF Fits
    <3> QED
      BY <2>1, <3>1, <3>2
  <2>4. CASE Fits(c) = {}
    <3>1. starts = {} /\ ~ Hit(m, e, c, retry)
      <4> HIDE DEF Fits, starts
      <4> QED
        BY <2>2, <2>3, <2>4
    <3> HIDE DEF Fits, starts
    <3> QED
      BY <1>1, <3>1 DEF HitAt
  <2>5. CASE Fits(c) # {}
    <3>1. starts = {c} /\ Hit(m, e, c, retry)
      <4> HIDE DEF Fits, starts
      <4> QED
        BY <2>2, <2>3, <2>5
    <3>2. c \in StartsFrom(m, e, here) /\ \A k \in StartsFrom(m, e, here) : c <= k
      <4>1. FitsFrom(m, e, here, c) # {}
        <5> HIDE DEF Fits, here
        <5> QED
          BY <1>3, <2>5
      <4> HIDE DEF here
      <4> QED
        BY <1>2, <1>4, <4>1
    <3>3. StartsFrom(m, e, here) \subseteq Int
      <4> HIDE DEF here
      <4> QED
        BY <1>2, <1>4
    <3>4. Min(StartsFrom(m, e, here)) = c
      <4> HIDE DEF here
      <4> QED
        BY <3>2, <3>3, MinIs
    <3>5. Min(starts) = c
      <4> HIDE DEF starts
      <4>1. {c} \subseteq Int /\ c \in {c} /\ \A k \in {c} : c <= k
        BY <1>2
      <4> QED
        BY <3>1, <4>1, MinIs
    <3>6. Span(c) = Matched(s.at[FirstSpan(m, e, here)[1]], s.at[FirstSpan(m, e, here)[2]])
      <4> HIDE DEF Span, here
      <4> QED
        BY <1>5, <3>4
    <3>7. FirstMatch(s, m, c, e, o) = Span(c)
      <4>1. starts # {}
        <5> HIDE DEF starts
        <5> QED
          BY <3>1
      <4> HIDE DEF Span, starts
      <4> QED
        BY <1>1, <3>5, <4>1
    <3> HIDE DEF Span
    <3> QED
      BY <3>1, <3>6, <3>7 DEF HitAt
  <2> HIDE DEF Fits
  <2> QED
    BY <2>4, <2>5
<1>7. CASE ~ retry
  <2>1. retry = FALSE /\ ~ o.anchored
    BY <1>7
  <2>2. starts = StartsFrom(m, e, here)
    <3> HIDE DEF Fits, here
    <3> QED
      BY <1>3, <1>4, <2>1
  <2>3. Hit(m, e, c, retry) <=> StartsFrom(m, e, here) # {}
    BY <2>1 DEF Hit
  <2>4. Span(Min(starts))
          = Matched(s.at[FirstSpan(m, e, here)[1]], s.at[FirstSpan(m, e, here)[2]])
    <3> HIDE DEF Span, here, starts
    <3> QED
      BY <1>5, <2>2
  <2> HIDE DEF Span, starts
  <2> QED
    BY <1>1, <2>2, <2>3, <2>4 DEF HitAt
<1> QED
  BY <1>6, <1>7

\* What a scan finds at a character, whatever the JIT code does.
LEMMA ScanFinds ==
  ASSUME NEW s, IsSubject(s), NEW m, IsPattern(s, m), NEW e \in 0..Chars(s), NEW c \in 0..e,
         NEW retry \in BOOLEAN, NEW check \in BOOLEAN, NEW may_jit \in BOOLEAN, NEW jit \in JitStates
  PROVE  ScanMatch(s, m, s.at[e], s.at[c], retry, [Plain EXCEPT !.no_utf_check = check], may_jit, jit)
           = HitAt(s, m, e, c, retry)
<1> DEFINE o == [Plain EXCEPT !.no_utf_check = check]
           given == IF retry THEN RetryNonempty(o) ELSE o
           r == IF may_jit /\ ~retry THEN pcre2_jit_match(s, m, s.at[e], s.at[c], given, jit) ELSE BadOption
<1>1. /\ s.at[c] \in Boundaries(s) /\ s.at[e] \in Boundaries(s)
      /\ CharAt(s, s.at[c]) = c /\ CharAt(s, s.at[e]) = e
  <2>1. c \in 0..Chars(s)
    BY PlacesInSubject
  <2> QED
    BY <2>1, PlacesInSubject
<1>2. ASSUME NEW x PROVE pcre2_match(s, m, s.at[e], s.at[c], x) = FirstMatch(s, m, c, e, x)
  <2>1. {s.at[c], s.at[e]} \subseteq Boundaries(s)
    BY <1>1
  <2> QED
    BY <1>1, <2>1 DEF pcre2_match
<1>3. given.anchored = retry /\ given.notempty_atstart = retry /\ given.endanchored = FALSE
  BY DEF Plain, RetryNonempty
<1>4. pcre2_match(s, m, s.at[e], s.at[c], given) = HitAt(s, m, e, c, retry)
  <2> HIDE DEF given
  <2>1. FirstMatch(s, m, c, e, given) = HitAt(s, m, e, c, retry)
    BY <1>3, FirstMatchFinds
  <2>2. pcre2_match(s, m, s.at[e], s.at[c], given) = FirstMatch(s, m, c, e, given)
    BY <1>2
  <2> QED
    BY <2>1, <2>2
<1>5. ASSUME ~ retry, jit # "refuses"
      PROVE  pcre2_jit_match(s, m, s.at[e], s.at[c], given, jit) = HitAt(s, m, e, c, retry)
  <2> DEFINE kept == IF jit = "ignores anchors"
                     THEN [given EXCEPT !.anchored = FALSE, !.endanchored = FALSE] ELSE given
             x == [kept EXCEPT !.no_utf_check = TRUE]
  <2>1. pcre2_jit_match(s, m, s.at[e], s.at[c], given, jit) = pcre2_match(s, m, s.at[e], s.at[c], x)
    BY <1>5 DEF pcre2_jit_match
  <2>2. retry = FALSE
    BY <1>5
  <2>3. given = o
    BY <1>5
  <2>4. x.anchored = retry /\ x.notempty_atstart = retry /\ x.endanchored = FALSE
    <3> HIDE DEF given
    <3> QED
      BY <2>2, <2>3 DEF Plain
  <2> HIDE DEF x, given
  <2>5. FirstMatch(s, m, c, e, x) = HitAt(s, m, e, c, retry)
    BY <2>4, FirstMatchFinds
  <2>6. pcre2_match(s, m, s.at[e], s.at[c], x) = FirstMatch(s, m, c, e, x)
    BY <1>2
  <2> QED
    BY <2>1, <2>5, <2>6
<1>6. HitAt(s, m, e, c, retry) # BadOption
  BY DEF HitAt, Matched, NoMatch, BadOption, Outcome
<1>7. r = BadOption \/ r = HitAt(s, m, e, c, retry)
  <2>1. CASE may_jit /\ ~retry /\ jit # "refuses"
    <3> HIDE DEF given
    <3> QED
      BY <1>5, <2>1
  <2>2. CASE may_jit /\ jit = "refuses"
    <3> HIDE DEF given
    <3> QED
      BY <2>2 DEF pcre2_jit_match
  <2>3. CASE ~ may_jit \/ retry
    BY <2>3
  <2> QED
    BY <2>1, <2>2, <2>3
<1>8. ScanMatch(s, m, s.at[e], s.at[c], retry, o, may_jit, jit)
        = IF r = BadOption THEN pcre2_match(s, m, s.at[e], s.at[c], given) ELSE r
  BY DEF ScanMatch
<1> HIDE DEF r, given
<1> QED
  BY <1>4, <1>6, <1>7, <1>8

\* Where nothing begins the matches are those from the next character on.
LEMMA NothingAt ==
  ASSUME NEW s, IsSubject(s), NEW m, IsPattern(s, m), NEW e \in 0..Chars(s), NEW c \in 0..e,
         NEW adv \in BOOLEAN, FitsFrom(m, e, <<c, adv>>, c) = {}
  PROVE  /\ c = e => Sequel(m, e)[<<c, adv>>] = <<>>
         /\ c < e => Sequel(m, e)[<<c, adv>>] = Sequel(m, e)[<<c + 1, FALSE>>]
<1>1. Chars(s) \in Nat /\ c \in Nat /\ e \in Nat
  BY PlacesInSubject
<1>3. IsSequel(m, e, Sequel(m, e))
  BY SequelIs
<1>4. CASE c = e
  <2>1. StartsFrom(m, e, <<c, adv>>) = {}
    <3>1. <<c, adv>>[1] = c
      OBVIOUS
    <3>2. \A k \in c..e : k = c
      BY <1>1, <1>4
    <3> QED
      BY <3>1, <3>2 DEF StartsFrom
  <2>2. c \in 0..e /\ adv \in BOOLEAN
    OBVIOUS
  <2>3. Sequel(m, e)[<<c, adv>>] = <<>>
    BY <1>3, <2>1, <2>2 DEF IsSequel
  <2> QED
    BY <1>4, <2>3
<1>5. CASE c < e
  <2>1. ASSUME NEW k \in c + 1..e
        PROVE  FitsFrom(m, e, <<c, adv>>, k) = FitsFrom(m, e, <<c + 1, FALSE>>, k)
    <3>1. <<c, adv>> # <<k, TRUE>> /\ <<c + 1, FALSE>> # <<k, TRUE>>
      <4>1. c # k
        BY <1>1
      <4> QED
        BY <4>1
    <3> QED
      BY Zenon, <3>1 DEF FitsFrom
  <2>2. StartsFrom(m, e, <<c, adv>>) = StartsFrom(m, e, <<c + 1, FALSE>>)
    <3>1. StartsFrom(m, e, <<c, adv>>) = {k \in c..e : FitsFrom(m, e, <<c, adv>>, k) # {}}
      BY DEF StartsFrom
    <3>2. StartsFrom(m, e, <<c + 1, FALSE>>)
            = {k \in c + 1..e : FitsFrom(m, e, <<c + 1, FALSE>>, k) # {}}
      BY DEF StartsFrom
    <3>3. \A k : k \in c..e <=> (k = c \/ k \in c + 1..e)
      BY <1>1, <1>5
    <3>4. c \notin c + 1..e
      BY <1>1
    <3> QED
      BY <2>1, <3>1, <3>2, <3>3, <3>4
  <2>3. c + 1 \in 0..e /\ c \in 0..e /\ adv \in BOOLEAN /\ FALSE \in BOOLEAN
    BY <1>1, <1>5
  <2>4. CASE StartsFrom(m, e, <<c, adv>>) = {}
    <3>1. /\ Sequel(m, e)[<<c, adv>>] = <<>>
          /\ Sequel(m, e)[<<c + 1, FALSE>>] = <<>>
      BY <1>3, <2>2, <2>3, <2>4 DEF IsSequel
    <3> QED
      BY <1>5, <3>1
  <2>5. CASE StartsFrom(m, e, <<c, adv>>) # {}
    <3>1. PICK k \in c..e, l \in Nat : IsFirstSpan(m, e, c, adv, k, l)
      BY <2>3, <2>5, FirstSpanIs
    <3>2. StartsFrom(m, e, <<c + 1, FALSE>>) # {}
      BY <2>2, <2>5
    <3>3. PICK k2 \in c + 1..e, l2 \in Nat : IsFirstSpan(m, e, c + 1, FALSE, k2, l2)
      BY <2>3, <3>2, FirstSpanIs
    <3>4. k = k2
      BY <2>2, <3>1, <3>3 DEF IsFirstSpan
    <3>5. l = l2
      BY <2>1, <3>1, <3>3, <3>4 DEF IsFirstSpan, LengthAt
    <3>6. /\ FirstSpan(m, e, <<c, adv>>) = FirstSpan(m, e, <<c + 1, FALSE>>)
          /\ AfterSpan(m, e, <<c, adv>>) = AfterSpan(m, e, <<c + 1, FALSE>>)
      BY <3>1, <3>3, <3>4, <3>5 DEF IsFirstSpan
    <3>7. /\ Sequel(m, e)[<<c, adv>>]
               = <<FirstSpan(m, e, <<c, adv>>)>> \o Sequel(m, e)[AfterSpan(m, e, <<c, adv>>)]
          /\ Sequel(m, e)[<<c + 1, FALSE>>]
               = <<FirstSpan(m, e, <<c + 1, FALSE>>)>>
                 \o Sequel(m, e)[AfterSpan(m, e, <<c + 1, FALSE>>)]
      BY <1>3, <2>3, <2>5, <3>2 DEF IsSequel
    <3>8. Sequel(m, e)[<<c, adv>>] = Sequel(m, e)[<<c + 1, FALSE>>]
      BY <3>6, <3>7
    <3> QED
      BY <1>5, <3>8
  <2> QED
    BY <2>4, <2>5
<1> QED
  BY <1>1, <1>4, <1>5

\* Where nothing that is not empty begins, the matches go on from the next character.
LEMMA NothingHere ==
  ASSUME NEW s, IsSubject(s), NEW m, IsPattern(s, m), NEW e \in 0..Chars(s), NEW c \in 0..e,
         ~ Hit(m, e, c, TRUE)
  PROVE  /\ c = e => Sequel(m, e)[<<c, TRUE>>] = <<>>
         /\ c < e => Sequel(m, e)[<<c, TRUE>>] = Sequel(m, e)[<<c + 1, FALSE>>]
<1> DEFINE adv == TRUE
<1>1. adv \in BOOLEAN
  OBVIOUS
<1>2. FitsFrom(m, e, <<c, adv>>, c) = {}
  BY DEF Hit
<1> HIDE DEF adv
<1>3. /\ c = e => Sequel(m, e)[<<c, adv>>] = <<>>
      /\ c < e => Sequel(m, e)[<<c, adv>>] = Sequel(m, e)[<<c + 1, FALSE>>]
  BY <1>1, <1>2, NothingAt
<1> QED
  BY <1>3 DEF adv
==============================================================================
