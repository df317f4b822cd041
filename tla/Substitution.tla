----------------------------- MODULE Substitution -----------------------------
(* A substitution: Pattern_substitute runs pcre2_substitute into a buffer it   *)
(* sizes itself and grows when PCRE2 runs out of room, with a callout that     *)
(* stops a bounded one; what it does not take on goes through Pattern.subn's   *)
(* loop over finditer.                                                         *)
(*                                                                             *)
(* Lengths are in code units.  Where it matters what is in the output, the     *)
(* units of the subject are 1..call.subject and the text put in for the match  *)
(* i of call.matches is the unit -i.                                           *)
EXTENDS Integers, Sequences, FiniteSetsExt, SequencesExt

CONSTANTS SubjectLengths,   \* lengths of the subject
          MaxMatches,       \* bound on the matches of a subject
          LiteralLengths,   \* lengths of the text of a replacement
          Counts,           \* the counts asked for
          MaxSize,          \* PY_SSIZE_T_MAX
          MaxFailures       \* bound on the times a match itself runs out of memory

ASSUME SubstitutionAssumption ==
  /\ SubjectLengths \subseteq Nat /\ LiteralLengths \subseteq Nat /\ Counts \subseteq Int
  /\ MaxMatches \in Nat /\ MaxSize \in Nat

VARIABLES call,       \* the arguments
          capacity,   \* out_capacity, the size of the buffer
          attempts, failures,
          status,     \* "new", "running", "returned", "no memory", "refused", "not implemented"
          answer      \* the output and the number of substitutions

subVars == <<call, capacity, attempts, failures, status, answer>>

MaxAttempts == 5
CountLimit == 8
Slack == 16

\* The lengths of a reference as it is written, ${1}.
ReferenceLength == 4

Spans(n) == [start : 0..n, end : 0..n]

\* Matches as PCRE2 finds them: in order, an empty one never twice at a place.
InOrder(s, t) ==
  /\ s.end <= t.start
  /\ s.start = s.end => t # s

MatchLists(n) ==
  {list \in BoundedSeq({s \in Spans(n) : s.start <= s.end}, MaxMatches) :
     \A i \in 1..Len(list) - 1 : InOrder(list[i], list[i + 1])}

\* A group is as long as the subject, through a look around, or empty.
Calls ==
  {c \in UNION {[subject : {n}, matches : MatchLists(n), group : {0, n}, literal : LiteralLengths,
                 shape : {"GENERAL", "LITERAL", "SINGLE_REFERENCE"}, count : Counts] : n \in SubjectLengths} :
     c.shape = "LITERAL" => c.group = 0}

References(c) == IF c.shape = "LITERAL" THEN 0 ELSE 1
ReplacementLength(c) == c.literal + References(c) * ReferenceLength
Inserted(c) == c.literal + c.group

Bounded(c) == c.count > 1

-----------------------------------------------------------------------------
(* pcre2_substitute.  The text for a match is in the buffer before the callout *)
(* is asked about it, and is taken out again when the callout stops.           *)

LowerOf(a, b) == IF a <= b THEN a ELSE b

\* The matches it comes to: the one that stops a bounded substitution included.
Reached(c) ==
  CASE c.count = 0 -> Len(c.matches)
    [] c.count = 1 -> LowerOf(1, Len(c.matches))
    [] OTHER       -> LowerOf(c.count + 1, Len(c.matches))

bounded_substitute_callout(c, subscount) == IF subscount > c.count THEN "stop" ELSE "go on"

Stopped(c) == Bounded(c) /\ Reached(c) > 0 /\ bounded_substitute_callout(c, Reached(c)) = "stop"
Accepted(c) == IF Stopped(c) THEN Reached(c) - 1 ELSE Reached(c)

\* The units in the buffer when it has put in the text for the first i matches.
Written(c, i) ==
  LET kept(k) == c.matches[k].start - (IF k = 1 THEN 0 ELSE c.matches[k - 1].end)
      sum[k \in 0..i] == IF k = 0 THEN 0 ELSE sum[k - 1] + kept(k) + Inserted(c)
  IN sum[i]

\* The whole output, and the zero that ends it.
Total(c, accepted) ==
  Written(c, accepted) + c.subject - (IF accepted = 0 THEN 0 ELSE c.matches[accepted].end) + 1

Needed(c) == Max({Written(c, Reached(c)), Total(c, Accepted(c))})

\* What is in the buffer in the end: the units up to the last match that is in,
\* its text, and the rest.
OutputOf(c, accepted) ==
  LET end(k) == IF k = 0 THEN 0 ELSE c.matches[k].end
      units(a, b) == [k \in 1..(b - a) |-> a + k]
      out[k \in 0..accepted] ==
        IF k = 0 THEN <<>> ELSE out[k - 1] \o units(end(k - 1), c.matches[k].start) \o <<-k>>
  IN out[accepted] \o units(end(accepted), c.subject)

-----------------------------------------------------------------------------
(* Pattern_substitute.                                                         *)

InitialLength(c) ==
  c.subject + (IF Bounded(c) THEN c.count ELSE 1) * ReplacementLength(c) + Slack

\* bounded_max_outlen
Ceiling(c) ==
  IF c.shape = "LITERAL" THEN InitialLength(c)
  ELSE c.subject + c.count * (c.subject + ReplacementLength(c)) + Slack

\* Mutant: the products are formed without a look at their factors.
SizesUnchecked(c) == TRUE

\* The checks of the factors before a length is computed from them.
SizesAllowed(c) ==
  LET r == ReplacementLength(c)
      room == MaxSize - c.subject - Slack
  IN /\ r <= MaxSize - Slack /\ c.subject <= MaxSize - r - Slack
     /\ Bounded(c) => /\ r <= room \div c.count
                      /\ c.shape # "LITERAL" => /\ c.subject <= MaxSize - r
                                                /\ c.subject + r <= room \div c.count

NotTaken(c) ==
  \/ c.count < 0 \/ c.count > CountLimit
  \/ Bounded(c) /\ c.shape = "GENERAL"

\* Allocate the first buffer.
Begin ==
  /\ status = "new"
  /\ status' = IF NotTaken(call) THEN "not implemented"
               ELSE IF ~SizesAllowed(call) THEN "refused"
               ELSE "running"
  /\ capacity' = IF status' = "running" THEN InitialLength(call) ELSE 0
  /\ UNCHANGED <<call, attempts, failures, answer>>

\* The next size, from the length PCRE2 asks for, 0 where it does not say.
Grown(c, size, outlen) ==
  LET required == IF Bounded(c) THEN IF size <= Ceiling(c) \div 2 THEN 2 * size ELSE Ceiling(c)
                  ELSE IF outlen = 0 THEN InitialLength(c) + c.subject
                  ELSE outlen
  IN Max({required, InitialLength(c)})

\* PCRE2_ERROR_NOMEMORY.
OutOfRoom(outlen) ==
  /\ UNCHANGED <<call, answer>>
  /\ IF \/ Bounded(call) /\ capacity >= Ceiling(call)
        \/ Grown(call, capacity, outlen) > MaxSize
        \/ attempts + 1 = MaxAttempts
     THEN status' = "no memory" /\ UNCHANGED <<capacity, attempts>>
     ELSE /\ capacity' = Grown(call, capacity, outlen)
          /\ attempts' = attempts + 1
          /\ UNCHANGED status

TooSmall ==
  /\ status = "running" /\ Needed(call) > capacity
  /\ OutOfRoom(Needed(call))
  /\ UNCHANGED failures

\* The match runs out of memory, and no length is asked for.
MatchFails ==
  /\ status = "running" /\ failures < MaxFailures
  /\ failures' = failures + 1
  /\ OutOfRoom(0)

\* Mutant: the match that stopped a bounded substitution is counted.
CountReached(c) == Reached(c)

CountReturned(c) == IF Stopped(c) THEN Reached(c) - 1 ELSE Reached(c)

Substitute ==
  /\ status = "running" /\ Needed(call) <= capacity
  /\ status' = "returned"
  /\ answer' = [out |-> OutputOf(call, Accepted(call)), count |-> CountReturned(call)]
  /\ UNCHANGED <<call, capacity, attempts, failures>>

-----------------------------------------------------------------------------
(* The loop of Pattern.subn over the matches of finditer.                      *)

\* The limit of the loop, -1 for none.
normalise_count(count) == CASE count = 0 -> -1 [] count < 0 -> 0 [] OTHER -> count

subn ==
  /\ status = "not implemented"
  /\ LET limit == normalise_count(call.count)
         done == IF limit = -1 THEN Len(call.matches) ELSE LowerOf(limit, Len(call.matches))
     IN answer' = [out |-> OutputOf(call, done), count |-> done]
  /\ status' = "returned"
  /\ UNCHANGED <<call, capacity, attempts, failures>>

SubstitutionInit ==
  /\ call \in Calls
  /\ capacity = 0 /\ attempts = 0 /\ failures = 0
  /\ status = "new"
  /\ answer = [out |-> <<>>, count |-> 0]

SubstitutionNext == Begin \/ TooSmall \/ MatchFails \/ Substitute \/ subn

SubstitutionSpec == SubstitutionInit /\ [][SubstitutionNext]_subVars

-----------------------------------------------------------------------------

\* The matches a call replaces, by what count means to re.
Wanted(c) ==
  CASE c.count = 0 -> DOMAIN c.matches
    [] c.count < 0 -> {}
    [] OTHER       -> {i \in DOMAIN c.matches : i <= c.count}

\* A substitution that returns has replaced exactly the matches asked for, each
\* unit of the subject outside of them is there once and in its place, and the
\* count is theirs: whatever was tried in too small a buffer, and whichever of
\* PCRE2 and the loop did it (Pattern_substitute, pcre2.c:4187; pcre.py:1110).
SubstitutesAsRequested ==
  status = "returned" =>
    LET out == answer.out
        place(u) == CHOOSE k \in DOMAIN out : out[k] = u
        kept == {u \in 1..call.subject :
                   \A i \in Wanted(call) : u <= call.matches[i].start \/ u > call.matches[i].end}
        present == kept \union {-i : i \in Wanted(call)}
    IN /\ answer.count = Cardinality(Wanted(call))
       /\ \A i, j \in Wanted(call) : i < j => place(-i) < place(-j)
       /\ Range(out) = present /\ Len(out) = Cardinality(present)
       /\ \A u, v \in kept : u < v => place(u) < place(v)
       /\ \A i \in Wanted(call) : \A u \in kept :
            (u <= call.matches[i].start) <=> (place(u) < place(-i))

\* A substitution fails for want of memory only if the match itself ran out of
\* it, if its length is past PY_SSIZE_T_MAX, or if it is bounded, at its ceiling
\* and cut short, and then only for the text it would have taken out again; and
\* no buffer is larger than PY_SSIZE_T_MAX (pcre2.c:4346-4387, 4425-4461).
FailsOnlyWhenItMust ==
  /\ capacity <= MaxSize
  /\ status = "no memory" =>
       \/ failures > 0
       \/ Total(call, Cardinality(Wanted(call))) > MaxSize
       \/ Stopped(call) /\ capacity = Ceiling(call) /\ Total(call, call.count) <= capacity
  /\ status = "refused" =>
       (IF Bounded(call) THEN Ceiling(call) ELSE InitialLength(call)) > MaxSize

\* A bounded substitution never needs more than its ceiling, "this strict linear
\* ceiling" of the comment at pcre2.c:4365-4368.
CeilingSuffices == status # "no memory"
==============================================================================
