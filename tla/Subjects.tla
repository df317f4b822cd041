------------------------------- MODULE Subjects -------------------------------
(* The subjects of a match as pcre_ext sees them, a text in characters kept as *)
(* UTF-8 bytes, the conversions between positions in characters and in bytes,  *)
(* and PCRE2 itself, as pcre2.c calls it.                                      *)
(*                                                                             *)
(* A matcher stands for a compiled pattern: for each character position the    *)
(* numbers of characters it can match there, in the order it prefers them.     *)
EXTENDS Integers, Sequences, FiniteSets, FiniteSetsExt, Functions

CONSTANT Chunk   \* the bytes looked at together, sizeof(uint64_t) in the code

ASSUME ChunkAssumption == Chunk \in Nat \ {0}

Units == {"a", "A", "-", "latin", "wide"}
WidthOf == [u \in Units |-> CASE u = "latin" -> 2 [] u = "wide" -> 3 [] OTHER -> 1]

\* "bytes" is a bytes subject of a pattern without PCRE2_UTF, "utf" one of a
\* pattern with it, "ascii" and "text" are str.
Kinds == {"bytes", "utf", "ascii", "text"}

\* at[i] is the byte at which character i + 1 begins, and at which character i ends.
Subject(kind, text) ==
  LET at[i \in 0..Len(text)] == IF i = 0 THEN 0 ELSE at[i - 1] + WidthOf[text[i]]
  IN  [kind |-> kind, text |-> text, at |-> at]

Chars(s) == Len(s.text)
Length(s) == s.at[Chars(s)]
Boundaries(s) == Range(s.at)
CharAt(s, byte) == CHOOSE i \in 0..Chars(s) : s.at[i] = byte
SubjectIsBytes(s) == s.kind \in {"bytes", "utf"}
\* Positions of a str are in characters, those of a bytes object in bytes.
LogicalLength(s) == IF s.kind = "text" THEN Chars(s) ELSE Length(s)

-----------------------------------------------------------------------------
(* Conversions.                                                                *)

\* Bytes that are not continuation bytes, of the len bytes from byte on.
StartersIn(s, byte, len) == {b \in Boundaries(s) \ {Length(s)} : byte <= b /\ b < byte + len}

\* The width the lead byte announces; a continuation byte counts as one.
LeadWidth(s, byte) ==
  IF byte \in Boundaries(s) \ {Length(s)} THEN WidthOf[s.text[CharAt(s, byte) + 1]] ELSE 1

LowerOf(a, b) == IF a <= b THEN a ELSE b

\* Mutant: the step is by one byte, whatever the character.
advance_one_byte(s, byte, single_byte_subject) ==
  IF byte >= Length(s) THEN Length(s) ELSE byte + 1

advance_one_character(s, byte, single_byte_subject) ==
  IF byte >= Length(s) THEN Length(s)
  ELSE IF single_byte_subject THEN byte + 1
  ELSE LowerOf(byte + LeadWidth(s, byte), Length(s))

\* utf8_offset_to_index(utf8_data + byte, len)
utf8_offset_to_index(s, byte, len) == Cardinality(StartersIn(s, byte, len))

\* Character by character, for the positions a finditer object is created with.
utf8_index_to_offset_fast(s, index) ==
  LET steps == IF index > 0 THEN index ELSE 0
      walk[i \in 0..steps] == IF i = 0 THEN 0 ELSE advance_one_character(s, walk[i - 1], FALSE)
  IN  walk[steps]

\* PyUnicode_1BYTE_KIND: a byte of the str for every character.
OneByteKind(s) == \A i \in 1..Chars(s) : s.text[i] # "wide"

\* Whole chunks from offset on while they hold no more starters than remain; in the
\* chunk where the count ends, the starter it ends at.
ScanChunks(s, index) ==
  LET scan[here \in (0..Length(s)) \X (0..index)] ==
        LET offset == here[1]
            remaining == here[2]
            starters == StartersIn(s, offset, Chunk)
        IN  IF offset + Chunk > Length(s) THEN here
            ELSE IF remaining >= Cardinality(starters) THEN
                   scan[<<offset + Chunk, remaining - Cardinality(starters)>>]
            ELSE <<CHOOSE b \in starters : Cardinality({c \in starters : c < b}) = remaining, 0>>
  IN  scan[<<0, index>>]

\* The first end of a character from offset on with so many starters before it.
AfterStarters(s, offset, n) ==
  Min({b \in offset..Length(s) :
         \/ b = Length(s)
         \/ b \in Boundaries(s) /\ utf8_offset_to_index(s, offset, b - offset) = n})

\* Mutant: nothing is left to do when every character has been counted.
TailIfLeft(s, reached) == IF reached[2] = 0 THEN reached[1] ELSE AfterStarters(s, reached[1], reached[2])

\* The last, partial chunk byte by byte, up to the next starter even when no
\* character remains to be counted: the chunk may have ended inside one.
ScanTail(s, reached) == AfterStarters(s, reached[1], reached[2])

utf8_index_to_offset(s, index) ==
  IF s.kind = "ascii" THEN index
  ELSE IF index >= Chars(s) THEN Length(s)
  ELSE IF OneByteKind(s) THEN index + Cardinality({i \in 1..index : s.text[i] = "latin"})
  ELSE ScanTail(s, ScanChunks(s, index))

-----------------------------------------------------------------------------
(* PCRE2.                                                                      *)

Outcome(rc, from, to) == [rc |-> rc, from |-> from, to |-> to]
Matched(from, to) == Outcome("match", from, to)
NoMatch == Outcome("no match", 0, 0)
BadOption == Outcome("bad option", 0, 0)
UtfError == Outcome("utf error", 0, 0)
Undefined == Outcome("undefined", 0, 0)

Plain == [anchored |-> FALSE, endanchored |-> FALSE, notempty_atstart |-> FALSE, no_utf_check |-> FALSE]
RetryNonempty(o) == [o EXCEPT !.anchored = TRUE, !.notempty_atstart = TRUE]

\* The first position from i on where m can match, and what it prefers there, in
\* the characters up to e.
FirstMatch(s, m, i, e, o) ==
  LET Fits(k) == {j \in DOMAIN m[k] : /\ k + m[k][j] <= e
                                      /\ o.notempty_atstart => ~(k = i /\ m[k][j] = 0)
                                      /\ o.endanchored => k + m[k][j] = e}
      At(k) == Matched(s.at[k], s.at[k + m[k][Min(Fits(k))]])
      starts == {k \in i..e : Fits(k) # {} /\ (o.anchored => k = i)}
  IN  IF starts = {} THEN NoMatch ELSE At(Min(starts))

\* pcre2_match over the first len bytes from the byte start on.  An offset inside a
\* character is an error, or undefined behaviour under PCRE2_NO_UTF_CHECK.
pcre2_match(s, m, len, start, o) ==
  CASE {start, len} \subseteq Boundaries(s) -> FirstMatch(s, m, CharAt(s, start), CharAt(s, len), o)
    [] OTHER -> IF o.no_utf_check THEN Undefined ELSE UtfError

\* The JIT code of a pattern: none, one that works, one that does not support an
\* option it is given, or one of a PCRE2 that ignores the anchors at match time.
JitStates == {"off", "works", "refuses", "ignores anchors"}

\* pcre2_jit_match, which never checks the encoding.
pcre2_jit_match(s, m, len, start, o, jit) ==
  LET given == IF jit = "ignores anchors" THEN [o EXCEPT !.anchored = FALSE, !.endanchored = FALSE] ELSE o
  IN  IF jit = "refuses" THEN BadOption
      ELSE pcre2_match(s, m, len, start, [given EXCEPT !.no_utf_check = TRUE])

-----------------------------------------------------------------------------
(* What the positions and the matches should be, in characters only.           *)

\* The position in bytes of a position as the caller gives it.
ByteOf(s, position) == IF s.kind = "text" THEN s.at[position] ELSE position

ClampTo(position, low, high) == IF position < low THEN low ELSE LowerOf(position, high)

\* pos and endpos as Python's re takes them; -1 is the end of the subject.
Range0(s, pos, endpos) ==
  [pos |-> ClampTo(pos, 0, LogicalLength(s)),
   end |-> IF endpos < 0 THEN LogicalLength(s) ELSE LowerOf(endpos, LogicalLength(s))]

\* No position in the middle of a character.
Sound(s, pos, endpos) ==
  LET r == Range0(s, pos, endpos) IN {ByteOf(s, r.pos), ByteOf(s, r.end)} \subseteq Boundaries(s)

\* The matches from p to e: each is the first that does not begin before the one
\* before it ends, and an empty match never ends where the one before it, empty
\* too, was found.
MatchesFrom(m, p, e) ==
  LET fits(k, here) == {j \in DOMAIN m[k] : k + m[k][j] <= e /\ ~(here = <<k, TRUE>> /\ m[k][j] = 0)}
      next[here \in (0..e) \X BOOLEAN] ==
        LET starts == {k \in here[1]..e : fits(k, here) # {}}
            k == Min(starts)
            l == m[k][Min(fits(k, here))]
        IN  IF starts = {} THEN <<>> ELSE <<<<k, k + l>>>> \o next[<<k + l, l = 0>>]
  IN  next[<<p, FALSE>>]

InBytes(s, spans) == [i \in DOMAIN spans |-> <<s.at[spans[i][1]], s.at[spans[i][2]]>>]

\* The matches of a subject between pos and endpos, as spans in bytes.
Matches(s, m, pos, endpos) ==
  LET r == Range0(s, pos, endpos)
  IN  IF ~Sound(s, pos, endpos) \/ r.end < r.pos THEN <<>>
      ELSE InBytes(s, MatchesFrom(m, CharAt(s, ByteOf(s, r.pos)), CharAt(s, ByteOf(s, r.end))))
================================================================================
