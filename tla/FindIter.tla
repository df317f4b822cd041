------------------------------- MODULE FindIter -------------------------------
(* A finditer object shared by threads: Pattern_create_finditer and            *)
(* FindIter_iternext.  The subject, the pattern and the range are chosen at    *)
(* the start and stay.  iternext runs under the lock of the object; the calls  *)
(* of PCRE2 in it may run without the GIL and write the match data of the      *)
(* object, which iternext reads afterwards.                                    *)
EXTENDS PatternMethods

CONSTANTS
  Threads,
  Texts,        \* the subjects, as sequences of Units
  SubjectKinds, \* what the subjects are: a subset of Kinds
  Alternatives, \* what a pattern can match at a position
  Positions,    \* values of pos and endpos given by the caller
  Jits,         \* the JIT code of the pattern: a subset of JitStates
  MaxFailures   \* bound of the model on the match objects that cannot be made

ASSUME FindIterAssumption ==
  /\ SubjectKinds \subseteq Kinds /\ Jits \subseteq JitStates
  /\ Texts \subseteq Seq(Units) /\ Alternatives \subseteq Seq(Nat)
  /\ Positions \subseteq Int /\ MaxFailures \in Nat
  /\ "none" \notin Threads

VARIABLES
  subject, pattern, pos, endpos, \* what the iterator is made of
  jit,        \* the JIT code of the pattern and its jit_enabled flag
  iter,       \* the FindIterObject
  ovector,    \* the match data of the object
  lock,       \* who holds the lock of the object
  call,       \* the iternext call of each thread
  all,        \* history: the matches there are, and
  yielded,    \* the spans of the match objects returned
  failures    \* history: match objects that could not be made

inputs == <<subject, pattern, pos, endpos, all>>
vars == <<inputs, jit, iter, ovector, lock, call, yielded, failures>>

NoThread == "none"

\* A str is "ascii" or not by what is in it; the units of bytes are bytes, unless
\* they are UTF-8.
FitsKind(kind, text) ==
  LET ascii == Range(text) \subseteq {"a", "A", "-"}
  IN  /\ kind \in {"bytes", "ascii"} => ascii
      /\ kind = "text" => ~ascii

CreateWindow(s, p, e) ==
  LET w == Window(s, p, e)
      Byte(q) == IF SubjectIsBytes(s) \/ q = 0 THEN q ELSE utf8_index_to_offset_fast(s, q)
  IN  [w EXCEPT !.from = Byte(w.pos),
                !.to = IF w.end = LogicalLength(s) THEN Length(s) ELSE Byte(w.end)]

\* byte_to_index and index_to_byte are the caches of the conversions.
Created(s, p, e) ==
  LET w == CreateWindow(s, p, e)
      here == [index |-> w.pos, byte |-> w.from]
  IN  [current_pos |-> w.pos, current_byte |-> w.from, window |-> w,
       exhausted |-> w.impossible, retry_nonempty |-> FALSE,
       byte_to_index |-> here, index_to_byte |-> here]

Init ==
  /\ \E kind \in SubjectKinds, text \in Texts :
       /\ FitsKind(kind, text)
       /\ subject = Subject(kind, text)
       /\ \E a \in [0..Len(text) -> Alternatives] :
            /\ \A i \in 0..Len(text) : \A l \in Range(a[i]) : i + l <= Len(text)
            /\ pattern = a
  /\ pos \in Positions /\ endpos \in Positions
  /\ all = Matches(subject, pattern, pos, endpos)
  /\ jit \in Jits
  /\ iter = Created(subject, pos, endpos)
  /\ ovector = <<0, 0>>
  /\ lock = NoThread
  /\ call = [t \in Threads |-> "idle"]
  /\ yielded = <<>> /\ failures = 0

-----------------------------------------------------------------------------
(* The conversions with a forward cache.  Each returns the index, the byte and  *)
(* what the cache holds after it.                                               *)

At(index, byte) == [index |-> index, byte |-> byte]

\* A target that is not after the cached position starts from the beginning.
FromCache(cached, target) == IF target <= cached.byte THEN At(0, 0) ELSE cached

finditer_byte_to_index(s, cached, target) ==
  LET from == FromCache(cached, target)
      walk[byte \in 0..Length(s)] ==
        IF byte >= target \/ byte + LeadWidth(s, byte) > target THEN 0
        ELSE walk[byte + LeadWidth(s, byte)] + 1
      reached == IF from.byte > target THEN from.byte ELSE target
  IN  CASE s.kind # "text" -> At(target, target)
        [] s.kind = "text" /\ reached = Length(s) -> At(LogicalLength(s), reached)
        [] OTHER -> At(from.index + walk[from.byte], reached)

\* Mutant: the walk starts at the beginning with the index of the cache.
FromZeroByte(cached, target) == At(cached.index, 0)

FromCachedIndex(cached, target) == IF target <= cached.index THEN At(0, 0) ELSE cached

finditer_index_to_byte(s, cached, target) ==
  LET goal == LowerOf(target, LogicalLength(s))
      from == FromCachedIndex(cached, goal)
      walk[i \in from.index..goal] ==
        IF i = from.index THEN from.byte ELSE advance_one_character(s, walk[i - 1], FALSE)
  IN  IF s.kind # "text" THEN At(goal, goal) ELSE At(goal, walk[goal])

-----------------------------------------------------------------------------
(* FindIter_iternext.                                                           *)

Goto(t, pc) == call' = [call EXCEPT ![t] = pc]
Return(t) == call' = [call EXCEPT ![t] = "idle"]

\* Mutant: iternext does not wait for another thread to leave.
EnterUnlocked(t) ==
  /\ call[t] = "idle"
  /\ lock' = t
  /\ Goto(t, "scan")
  /\ UNCHANGED <<inputs, jit, iter, ovector, yielded, failures>>

\* The lock of the object: PyMutex, or a lock waited for without the GIL.
Enter(t) ==
  /\ call[t] = "idle"
  /\ lock = NoThread /\ lock' = t
  /\ Goto(t, "scan")
  /\ UNCHANGED <<inputs, jit, iter, ovector, yielded, failures>>

Leave(t) == Return(t) /\ lock' = NoThread

Ended ==
  \/ iter.exhausted
  \/ iter.current_pos > LogicalLength(subject)
  \/ iter.window.given /\ iter.current_pos > iter.window.end
  \/ iter.current_byte > Length(subject)

\* The checks at the retry label; StopIteration.
StopHere(t) ==
  /\ call[t] = "scan" /\ Ended
  /\ iter' = [iter EXCEPT !.exhausted = TRUE]
  /\ Leave(t)
  /\ UNCHANGED <<inputs, jit, ovector, yielded, failures>>

ExecLengthNow ==
  IF iter.window.given /\ iter.window.to < Length(subject)
  THEN (IF iter.window.to < iter.current_byte THEN iter.current_byte ELSE iter.window.to)
  ELSE Length(subject)

UseJit == MayTryJit(subject, iter.window, jit) /\ ~iter.retry_nonempty

Found == ScanMatch(subject, pattern, ExecLengthNow, iter.current_byte, iter.retry_nonempty,
                   MatchOptions(subject, iter.window), MayTryJit(subject, iter.window, jit), jit)

\* The call of PCRE2: a refused option turns JIT off for the pattern, an error is
\* raised and leaves the position as it is.
Match(t) ==
  /\ call[t] = "scan" /\ ~Ended
  /\ jit' = IF UseJit /\ jit = "refuses" THEN "off" ELSE jit
  /\ \/ /\ Found.rc = "match"
        /\ ovector' = <<Found.from, Found.to>>
        /\ Goto(t, "matched") /\ UNCHANGED lock
     \/ /\ Found.rc = "no match"
        /\ Goto(t, "no match") /\ UNCHANGED <<ovector, lock>>
     \/ /\ Found.rc \notin {"match", "no match"}
        /\ Leave(t) /\ UNCHANGED ovector
  /\ UNCHANGED <<inputs, iter, yielded, failures>>

\* What the conversions of the two ends make of the cache.
StartOf == finditer_byte_to_index(subject, iter.byte_to_index, ovector[1])
EndOf == finditer_byte_to_index(subject, StartOf, ovector[2])

MovedTo(index, byte, retry) ==
  [iter EXCEPT !.current_pos = index, !.current_byte = byte, !.retry_nonempty = retry,
               !.byte_to_index = At(index, byte), !.index_to_byte = At(index, byte)]

\* The match object is made of the match data, and the position moves on.
Yield(t) ==
  /\ call[t] = "matched"
  /\ iter' = MovedTo(EndOf.index, ovector[2], EndOf.index = StartOf.index)
  /\ yielded' = Append(yielded, ovector)
  /\ Leave(t)
  /\ UNCHANGED <<inputs, jit, ovector, failures>>

\* create_match_object runs out of memory: the caches have moved, the position has
\* not, and the next call finds the same match again.
YieldFails(t) ==
  /\ call[t] = "matched"
  /\ failures < MaxFailures /\ failures' = failures + 1
  /\ iter' = [iter EXCEPT !.byte_to_index = EndOf]
  /\ Leave(t)
  /\ UNCHANGED <<inputs, jit, ovector, yielded>>

Exhaust(t) ==
  /\ iter' = [iter EXCEPT !.exhausted = TRUE, !.retry_nonempty = FALSE]
  /\ Leave(t)

NextPosition ==
  LET byte == advance_one_character(subject, iter.current_byte, subject.kind = "bytes")
  IN  CASE SubjectIsBytes(subject) -> At(byte, byte)
        [] subject.kind = "ascii"  -> At(iter.current_pos + 1, iter.current_byte + 1)
        [] OTHER -> At(iter.current_pos + 1,
                       finditer_index_to_byte(subject, iter.index_to_byte, iter.current_pos + 1).byte)

AtEnd ==
  \/ iter.current_pos >= LogicalLength(subject)
  \/ iter.window.given /\ iter.current_pos >= iter.window.end

\* Nothing there that is not empty: on from the next character.  Nothing anywhere:
\* the iterator is exhausted.
Missed(t) ==
  /\ call[t] = "no match"
  /\ IF iter.retry_nonempty /\ ~AtEnd
     THEN /\ iter' = MovedTo(NextPosition.index, NextPosition.byte, FALSE)
          /\ Goto(t, "scan") /\ UNCHANGED lock
     ELSE Exhaust(t)
  /\ UNCHANGED <<inputs, jit, ovector, yielded, failures>>

Next ==
  \E t \in Threads :
    Enter(t) \/ StopHere(t) \/ Match(t) \/ Yield(t) \/ YieldFails(t) \/ Missed(t)

Spec == Init /\ [][Next]_vars

-----------------------------------------------------------------------------
(* Properties.                                                                  *)

Sequence == INSTANCE MatchSequence WITH over <- iter.exhausted

\* However threads share the iterator, and whatever match objects could not be made,
\* it hands out the matches of the subject: each once, in order, no empty one where
\* the empty one before it was found, no character skipped, and no end before the
\* last of them (FindIter_iternext).
IteratesMatches == Sequence!Spec

\* The position of the object in characters and in bytes, and both ends of its
\* caches, are the same place (finditer_byte_to_index, finditer_index_to_byte).
PositionsAgree ==
  Sound(subject, pos, endpos) =>
    \A here \in {At(iter.current_pos, iter.current_byte), iter.byte_to_index, iter.index_to_byte} :
      /\ here.byte \in Boundaries(subject)
      /\ ByteOf(subject, here.index) = here.byte

\* PCRE2 is never given an offset inside a character together with
\* PCRE2_NO_UTF_CHECK, nor JIT code such an offset ("documented UB", pcre2.c:3921).
CallsAreDefined ==
  \A t \in Threads : call[t] = "scan" /\ ~Ended => Found # Undefined

\* The iterator has just been created: time to ask the other methods.
Fresh ==
  /\ yielded = <<>> /\ failures = 0 /\ \A t \in Threads : call[t] = "idle"
  /\ iter = Created(subject, pos, endpos)

\* A first code unit PCRE2 may report: every match begins with it, or with its other
\* case inside a scoped (?i:...).
FirstLiterals ==
  {"none"} \cup
  {u \in {"a", "A", "-", "latin"} :
     \A i \in DOMAIN pattern : pattern[i] # <<>> =>
       0 \notin Range(pattern[i]) /\ subject.text[i + 1] \in (IF u \in {"a", "A"} THEN {"a", "A"} ELSE {u})}

\* match, search and fullmatch find what a search without prescan, truncation, JIT
\* code and its repairs finds, and nothing in a range that cuts a character.
ExecuteFindsTheMatch ==
  Fresh =>
    \A mode \in Modes :
      LET allowed == IF Sound(subject, pos, endpos) THEN {Reference(subject, pattern, pos, endpos, mode)}
                     ELSE {NoMatch, UtfError}
      IN  \A u \in FirstLiterals :
            Pattern_execute(subject, pattern, u, pos, endpos, mode, jit) \in allowed

\* findall finds the matches finditer finds, or raises when the range cuts a character.
FindallFindsAll ==
  Fresh =>
    LET r == Range0(subject, pos, endpos)
    IN  Pattern_findall(subject, pattern, pos, endpos, jit)
          = IF Sound(subject, pos, endpos) \/ r.end < r.pos THEN all ELSE <<"utf error">>

\* For a pattern that is one literal in a group.
Literal(u) ==
  [i \in 0..Chars(subject) |-> IF i < Chars(subject) /\ subject.text[i + 1] = u THEN <<1>> ELSE <<>>]

\* split cuts the subject at those matches, up to maxsplit of them; so does the
\* built-in split that stands in for a pattern that is a literal in groups.
SplitCutsAtMatches ==
  Fresh /\ pos = 0 /\ endpos = -1 =>
    \A maxsplit \in -1..2 :
      /\ \A groups \in 0..2 :
           Pattern_split(subject, pattern, maxsplit, groups, jit)
             = ReferencePieces(subject, pattern, maxsplit, groups)
      /\ \A u \in Range(subject.text) :
           /\ Pattern_split_literal_capture_fast(subject, u, maxsplit)
                = ReferencePieces(subject, Literal(u), maxsplit, 1)
           /\ Pattern_split_literal_captures_fast(subject, u, maxsplit, 2)
                = ReferencePieces(subject, Literal(u), maxsplit, 2)

\* The conversions agree: a position in characters goes to the byte its character
\* begins at, and back (util.c, pcre2.c:2186).
ConversionsAgree ==
  Fresh /\ subject.kind = "text" =>
    \A i \in 0..Chars(subject) :
      /\ utf8_index_to_offset(subject, i) = subject.at[i]
      /\ utf8_index_to_offset_fast(subject, i) = subject.at[i]
      /\ utf8_offset_to_index(subject, 0, subject.at[i]) = i
================================================================================
