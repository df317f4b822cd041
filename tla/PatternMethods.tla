---------------------------- MODULE PatternMethods ----------------------------
(* The methods of a Pattern that return once they are done: match, search and  *)
(* fullmatch (Pattern_execute), findall and split.  What they return is given  *)
(* in bytes of the subject.  They borrow match data, contexts and stacks as    *)
(* MatchResources has it; here is what they find.                              *)
EXTENDS Subjects

Modes == {"search", "match", "fullmatch"}

\* pos and endpos clamped to the subject, and in bytes; endpos < 0 is none given.
Window(s, pos, endpos) ==
  LET p == ClampTo(pos, 0, LogicalLength(s))
      e == IF endpos < 0 THEN LogicalLength(s) ELSE LowerOf(endpos, LogicalLength(s))
      Byte(q) == IF s.kind = "text" /\ q # 0 THEN utf8_index_to_offset(s, q) ELSE q
  IN  [pos |-> p, end |-> e, given |-> endpos >= 0, impossible |-> endpos >= 0 /\ e < p,
       from |-> Byte(p), to |-> IF endpos < 0 THEN Length(s) ELSE Byte(e)]

\* Mutant: any range of a bytes subject is taken as valid UTF-8.
AnyRange(s, w) == TRUE

\* Text is valid UTF-8, bytes only as a whole.
ValidatedRange(s, w) == ~SubjectIsBytes(s) \/ (w.from = 0 /\ w.to = Length(s))

\* JIT code never checks the encoding: a part of a UTF bytes subject is left to the
\* interpreter.
MayTryJit(s, w, jit) == jit # "off" /\ ~(s.kind = "utf" /\ ~ValidatedRange(s, w))

MatchOptions(s, w) == [Plain EXCEPT !.no_utf_check = ValidatedRange(s, w)]

\* The text ends at endpos: PCRE2_USE_OFFSET_LIMIT is no match option of any PCRE2,
\* see detect_offset_limit_support.
ExecLength(s, w) == IF w.to = Length(s) THEN Length(s) ELSE IF w.to < w.from THEN w.from ELSE w.to

-----------------------------------------------------------------------------
(* match, search, fullmatch.                                                   *)

\* Both cases of an ASCII letter.
Folded(unit) == IF unit \in {"a", "A"} THEN {"a", "A"} ELSE {unit}

\* The scan for the first literal, before PCRE2 is called: a byte of the range for a
\* search, the first byte for the anchored modes.
PrescanFails(s, w, mode, first_literal) ==
  LET units == {s.text[i] : i \in {j \in 1..Chars(s) : w.from <= s.at[j - 1] /\ s.at[j - 1] < w.to}}
      leading == {s.text[i] : i \in {j \in 1..Chars(s) : s.at[j - 1] = w.from}}
  IN  /\ first_literal # "none"
      /\ \/ w.from >= w.to
         \/ mode = "search" /\ Folded(first_literal) \cap units = {}
         \/ mode # "search" /\ Folded(first_literal) \cap leading = {}

ExecOptions(s, w, mode) ==
  [MatchOptions(s, w) EXCEPT !.anchored = (mode # "search"), !.endanchored = (mode = "fullmatch")]

\* jit_anchor_fixup_needed: what to make of a match of JIT code that ignores anchors.
Fixup(w, mode, r) ==
  CASE r.rc = "match" /\ r.from # w.from                                         -> "no match"
    [] r.rc = "match" /\ r.from = w.from /\ mode = "fullmatch" /\ r.to # w.to    -> "uncertain"
    [] OTHER                                                                     -> "definitive"

\* Mutant: the interpreter does not run where the flag of the pattern is set.
InterpreterUnlessJit(jit, tried, r) == jit = "off"

\* The interpreter runs when this call has no result of the JIT code.
InterpreterNeeded(jit, tried, r) == ~tried \/ r.rc = "bad option"

Pattern_execute(s, m, first_literal, pos, endpos, mode, jit) ==
  LET w == Window(s, pos, endpos)
      len == ExecLength(s, w)
      o == ExecOptions(s, w, mode)
      tried == MayTryJit(s, w, jit)
      r == IF tried THEN pcre2_jit_match(s, m, len, w.from, o, jit) ELSE Undefined
      judged == IF jit = "ignores anchors" /\ mode # "search" THEN Fixup(w, mode, r) ELSE "definitive"
  IN  CASE w.impossible \/ PrescanFails(s, w, mode, first_literal) -> NoMatch
        [] ~(w.impossible \/ PrescanFails(s, w, mode, first_literal)) ->
             CASE InterpreterNeeded(jit, tried, r) -> pcre2_match(s, m, len, w.from, o)
               [] ~InterpreterNeeded(jit, tried, r) /\ judged = "uncertain" ->
                    pcre2_match(s, m, w.to, w.from, o)
               [] ~InterpreterNeeded(jit, tried, r) /\ judged = "no match" -> NoMatch
               [] OTHER -> r

-----------------------------------------------------------------------------
(* findall and split.                                                          *)

\* One call in a scan: the JIT code except on the retry, which is anchored and not
\* empty; the interpreter if the code does not support an option.
ScanMatch(s, m, len, byte, retry, o, may_jit, jit) ==
  LET given == IF retry THEN RetryNonempty(o) ELSE o
      r == IF may_jit /\ ~retry THEN pcre2_jit_match(s, m, len, byte, given, jit) ELSE BadOption
  IN  IF r = BadOption THEN pcre2_match(s, m, len, byte, given) ELSE r

\* Bytes are stepped over one by one unless they are UTF-8.
SingleByteSubject(s) == s.kind \in {"bytes", "ascii"}

EndsEmpty(start_byte, end_byte) == start_byte = end_byte

\* Where a scan can be: a byte, the same position as an index, which is another number
\* in text only, and whether the last match there was empty.
ScanPlaces(s) ==
  {here \in (0..Length(s)) \X Nat \X BOOLEAN : s.kind # "text" => here[2] = here[1]}

\* After a match.
AfterHit(s, here, r) ==
  <<r.to,
    IF s.kind # "text" THEN r.to ELSE here[2] + utf8_offset_to_index(s, here[1], r.to - here[1]),
    EndsEmpty(r.from, r.to)>>

\* Nothing there that is not empty: the next character.
AfterMiss(s, here) ==
  LET next_byte == advance_one_character(s, here[1], SingleByteSubject(s))
  IN  <<next_byte, IF SubjectIsBytes(s) THEN next_byte ELSE here[2] + 1, FALSE>>

\* The spans findall makes its values of, or the error it ends with.
FindallIn(s, m, w, o, jit) ==
  LET Call(here) ==
        ScanMatch(s, m, ExecLength(s, w), here[1], here[3], o, MayTryJit(s, w, jit), jit)
      scan[here \in ScanPlaces(s)] ==
        IF here[2] > w.end \/ here[1] > w.to THEN <<>>
        ELSE IF Call(here).rc = "match"
          THEN <<<<Call(here).from, Call(here).to>>>> \o scan[AfterHit(s, here, Call(here))]
        ELSE IF Call(here).rc # "no match" THEN <<Call(here).rc>>
        ELSE IF here[3] /\ here[2] < w.end THEN scan[AfterMiss(s, here)] ELSE <<>>
  IN  IF w.impossible THEN <<>> ELSE scan[<<w.from, w.pos, FALSE>>]

Pattern_findall(s, m, pos, endpos, jit) ==
  LET In(w) == FindallIn(s, m, w, MatchOptions(s, w), jit) IN In(Window(s, pos, endpos))

\* Mutant: the piece before a match begins where the one before it began.
PieceFromStart(last_end, start_byte, end_byte) == start_byte

NextPiece(last_end, start_byte, end_byte) == end_byte

\* Where the scan of split can be: a byte, the end of the last match, the splits done,
\* and whether the last match was empty.
SplitPlaces(s) == (0..Length(s)) \X (0..Length(s)) \X Nat \X BOOLEAN

\* maxsplit = 0 is no limit, a negative one no split.
EnoughSplits(maxsplit, done) == maxsplit < 0 \/ (maxsplit > 0 /\ done >= maxsplit)

\* The piece before a match and the values of its groups, all of them taking the whole
\* match here.
PieceAndGroups(last_end, r, groups) ==
  <<<<last_end, r.from>>>> \o [g \in 1..groups |-> <<r.from, r.to>>]

AfterCut(here, r) ==
  <<r.to, NextPiece(here[2], r.from, r.to), here[3] + 1, EndsEmpty(r.from, r.to)>>

AfterNoCut(s, here) ==
  <<advance_one_character(s, here[1], SingleByteSubject(s)), here[2], here[3], FALSE>>

\* The pieces of split, each match followed by its groups, or the error it ends with.
Pattern_split(s, m, maxsplit, groups, jit) ==
  LET o == [Plain EXCEPT !.no_utf_check = ~SubjectIsBytes(s)]
      Call(here) == ScanMatch(s, m, Length(s), here[1], here[4], o, jit # "off", jit)
      scan[here \in SplitPlaces(s)] ==
        IF EnoughSplits(maxsplit, here[3]) THEN <<<<here[2], Length(s)>>>>
        ELSE IF Call(here).rc = "match"
          THEN PieceAndGroups(here[2], Call(here), groups) \o scan[AfterCut(here, Call(here))]
        ELSE IF Call(here).rc # "no match" THEN <<Call(here).rc>>
        ELSE IF here[4] /\ here[1] < Length(s) THEN scan[AfterNoCut(s, here)]
        ELSE <<<<here[2], Length(s)>>>>
  IN  scan[<<0, 0, 0, FALSE>>]

\* str.split and bytes.split with a separator of one character: -1 is no limit.  A
\* character is looked at, the last piece began at another, so many are split off.
BuiltinSplit(s, separator, limit) ==
  LET scan[here \in (0..Chars(s)) \X (0..Chars(s)) \X Nat] ==
        IF here[1] = Chars(s) \/ here[3] = limit THEN <<<<s.at[here[2]], Length(s)>>>>
        ELSE IF s.text[here[1] + 1] = separator
          THEN <<<<s.at[here[2]], s.at[here[1]]>>>>
               \o scan[<<here[1] + 1, here[1] + 1, here[3] + 1>>]
        ELSE scan[<<here[1] + 1, here[2], here[3]>>]
  IN  scan[<<0, 0, 0>>]

SplitLimit(maxsplit) == IF maxsplit = 0 THEN -1 ELSE IF maxsplit < 0 THEN 0 ELSE maxsplit

\* A pattern that is a literal in groups: the pieces of the built-in split, with what
\* the groups take, the separator, after each but the last.
WithGroups(pieces, width, groups) ==
  [i \in 1..Len(pieces) + (Len(pieces) - 1) * groups |->
     LET piece == pieces[(i - 1) \div (groups + 1) + 1]
     IN  IF (i - 1) % (groups + 1) = 0 THEN piece ELSE <<piece[2], piece[2] + width>>]

SplitWithLiteral(s, separator, maxsplit, groups) ==
  WithGroups(BuiltinSplit(s, separator, SplitLimit(maxsplit)), WidthOf[separator], groups)

Pattern_split_literal_capture_fast(s, separator, maxsplit) == SplitWithLiteral(s, separator, maxsplit, 1)

\* From two to eight groups.
Pattern_split_literal_captures_fast(s, separator, maxsplit, groups) ==
  SplitWithLiteral(s, separator, maxsplit, groups)

-----------------------------------------------------------------------------
(* What they should find.                                                      *)

\* The first match: anywhere for a search, at pos for match, from pos to endpos for
\* fullmatch.  Among what a position can match fullmatch takes what reaches endpos.
Reference(s, m, pos, endpos, mode) ==
  LET r == Range0(s, pos, endpos)
      i == CharAt(s, ByteOf(s, r.pos))
      e == CharAt(s, ByteOf(s, r.end))
      Fits(k) == {l \in Range(m[k]) : k + l <= e /\ (mode = "fullmatch" => k + l = e)}
      starts == {k \in i..e : Fits(k) # {} /\ (mode # "search" => k = i)}
      k == Min(starts)
      l == m[k][Min({j \in DOMAIN m[k] : m[k][j] \in Fits(k)})]
  IN  IF r.end < r.pos \/ starts = {} THEN NoMatch ELSE Matched(s.at[k], s.at[k + l])

\* The pieces between the matches used, each match followed by its groups: from the end
\* of the i-th of them on.
PiecesBetween(s, used, groups) ==
  LET pieces[i \in 0..Len(used)] ==
        LET last == IF i = 0 THEN 0 ELSE used[i][2]
        IN  IF i = Len(used) THEN <<<<last, Length(s)>>>>
            ELSE <<<<last, used[i + 1][1]>>>> \o [g \in 1..groups |-> used[i + 1]] \o pieces[i + 1]
  IN  pieces[0]

UpTo(all, maxsplit) ==
  CASE maxsplit < 0 -> <<>>
    [] maxsplit = 0 -> all
    [] OTHER        -> SubSeq(all, 1, LowerOf(maxsplit, Len(all)))

ReferencePieces(s, m, maxsplit, groups) ==
  PiecesBetween(s, UpTo(Matches(s, m, 0, -1), maxsplit), groups)
================================================================================
