------------------------------ MODULE MatchFields -----------------------------
(* What a match works out when it is first asked: lastindex, for which a match *)
(* with several groups is replayed by a second compilation of the pattern that *)
(* all its matches share, and regs.  Threads ask for them at the same time;    *)
(* each publishes what it has worked out, and the first one's stands.  As      *)
(* built with atomics.                                                         *)
EXTENDS Integers, Sequences, FiniteSets, SequencesExt

CONSTANTS Readers,         \* threads
          GroupNumbers,          \* the groups of the pattern, 1..n
          Snapshots,       \* the matches, all of the one pattern
          MaxReads,        \* bound on the reads in all
          MaxReplayFailures

\* A reader's number stands for the tuple it builds, which is never NULL.
ASSUME MatchFieldsAssumption ==
  /\ GroupNumbers \subseteq Nat /\ IsFiniteSet(GroupNumbers)
  /\ Readers \subseteq Nat \ {0} /\ MaxReads \in Nat

VARIABLES took,            \* of a match: the groups that took part, in their order
          replayCode,      \* PatternObject.lastindex_replay_code
          compiled, freed, \* the replay codes made, 1..compiled, and those freed
          lastindexCache, regsCache,
          reader,          \* of a thread: where it is, of which match, with what
          replayFailures,
          answers          \* history: what the reads returned

fieldVars == <<took, replayCode, compiled, freed, lastindexCache, regsCache, reader,
               replayFailures, answers>>

NoCode == 0
NotYet == -2
NoGroup == -1
NoTuple == 0
Failure == -3
Idle == [pc |-> "idle"]

MatchFieldsInit ==
  /\ took \in [Snapshots -> {s \in BoundedSeq(GroupNumbers, Cardinality(GroupNumbers)) : IsInjective(s)}]
  /\ replayCode = NoCode /\ compiled = 0 /\ freed = {}
  /\ lastindexCache = [m \in Snapshots |-> NotYet]
  /\ regsCache = [m \in Snapshots |-> NoTuple]
  /\ reader = [t \in Readers |-> Idle]
  /\ replayFailures = 0
  /\ answers = <<>>

Goes(t, m, pc, with) == reader' = [reader EXCEPT ![t] = [pc |-> pc, of |-> m, with |-> with]]

Answers(t, m, field, value) ==
  /\ reader' = [reader EXCEPT ![t] = Idle]
  /\ answers' = Append(answers, [of |-> m, field |-> field, value |-> value])

At(t, pc) == reader[t].pc = pc

\* What needs no replay: the only group that took part, or none.
Sole(m) == CASE Len(took[m]) = 0 -> NoGroup [] OTHER -> took[m][1]

\* Match_get_lastindex: the cache, in a critical section, and then the snapshot.
GetLastindex(t, m) ==
  /\ At(t, "idle") /\ Len(answers) < MaxReads
  /\ \/ lastindexCache[m] # NotYet /\ Answers(t, m, "lastindex", lastindexCache[m])
     \/ /\ lastindexCache[m] = NotYet
        /\ IF Len(took[m]) <= 1 THEN Goes(t, m, "publish", Sole(m)) ELSE Goes(t, m, "get code", NoCode)
        /\ UNCHANGED answers
  /\ UNCHANGED <<took, replayCode, compiled, freed, lastindexCache, regsCache, replayFailures>>

\* pattern_get_lastindex_replay_code
GetCode(t) ==
  /\ At(t, "get code")
  /\ LET m == reader[t].of IN
     IF replayCode # NoCode THEN Goes(t, m, "replay", replayCode) ELSE Goes(t, m, "compile", NoCode)
  /\ UNCHANGED <<took, replayCode, compiled, freed, lastindexCache, regsCache, replayFailures, answers>>

CompileReplay(t) ==
  /\ At(t, "compile")
  /\ compiled' = compiled + 1
  /\ Goes(t, reader[t].of, "exchange", compiled')
  /\ UNCHANGED <<took, replayCode, freed, lastindexCache, regsCache, replayFailures, answers>>

\* Mutant: whoever comes second frees its code and goes on with it.
ExchangeKeepsOwn(t) ==
  /\ At(t, "exchange")
  /\ Goes(t, reader[t].of, "replay", reader[t].with)
  /\ replayCode' = IF replayCode = NoCode THEN reader[t].with ELSE replayCode
  /\ freed' = IF replayCode = NoCode THEN freed ELSE freed \union {reader[t].with}
  /\ UNCHANGED <<took, compiled, lastindexCache, regsCache, replayFailures, answers>>

\* The compare-and-exchange; whoever comes second goes on with the other's code.
Exchange(t) ==
  /\ At(t, "exchange")
  /\ \/ /\ replayCode = NoCode
        /\ replayCode' = reader[t].with
        /\ Goes(t, reader[t].of, "replay", reader[t].with)
        /\ UNCHANGED freed
     \/ /\ replayCode # NoCode
        /\ freed' = freed \union {reader[t].with}
        /\ Goes(t, reader[t].of, "replay", replayCode)
        /\ UNCHANGED replayCode
  /\ UNCHANGED <<took, compiled, lastindexCache, regsCache, replayFailures, answers>>

\* match_replay_lastindex: the last group in the order in which they took part.
match_replay_lastindex(t) ==
  /\ At(t, "replay")
  /\ Goes(t, reader[t].of, "publish", Last(took[reader[t].of]))
  /\ UNCHANGED <<took, replayCode, compiled, freed, lastindexCache, regsCache, replayFailures, answers>>

\* Out of memory, a match limit, or text that has changed under the match.
ReplayFails(t) ==
  /\ At(t, "replay") \/ At(t, "compile")
  /\ replayFailures < MaxReplayFailures
  /\ replayFailures' = replayFailures + 1
  /\ Goes(t, reader[t].of, "failed", NoCode)
  /\ UNCHANGED <<took, replayCode, compiled, freed, lastindexCache, regsCache, answers>>

\* The replay failed: another thread's may have succeeded meanwhile.
ReplayFailed(t) ==
  /\ At(t, "failed")
  /\ LET m == reader[t].of IN
     Answers(t, m, "lastindex", IF lastindexCache[m] = NotYet THEN Failure ELSE lastindexCache[m])
  /\ UNCHANGED <<took, replayCode, compiled, freed, lastindexCache, regsCache, replayFailures>>

PublishLastindex(t) ==
  /\ At(t, "publish")
  /\ LET m == reader[t].of IN
     /\ lastindexCache' = [lastindexCache EXCEPT ![m] = IF @ = NotYet THEN reader[t].with ELSE @]
     /\ Answers(t, m, "lastindex", lastindexCache'[m])
  /\ UNCHANGED <<took, replayCode, compiled, freed, regsCache, replayFailures>>

\* Match_get_regs: each thread builds a tuple of its own, here numbered by it.
GetRegs(t, m) ==
  /\ At(t, "idle") /\ Len(answers) < MaxReads
  /\ \/ regsCache[m] # NoTuple /\ Answers(t, m, "regs", regsCache[m])
     \/ regsCache[m] = NoTuple /\ Goes(t, m, "publish regs", t) /\ UNCHANGED answers
  /\ UNCHANGED <<took, replayCode, compiled, freed, lastindexCache, regsCache, replayFailures>>

PublishRegs(t) ==
  /\ At(t, "publish regs")
  /\ LET m == reader[t].of IN
     /\ regsCache' = [regsCache EXCEPT ![m] = IF @ = NoTuple THEN t ELSE @]
     /\ Answers(t, m, "regs", regsCache'[m])
  /\ UNCHANGED <<took, replayCode, compiled, freed, lastindexCache, replayFailures>>

MatchFieldsNext ==
  \E t \in Readers :
    \/ \E m \in Snapshots : GetLastindex(t, m) \/ GetRegs(t, m)
    \/ GetCode(t) \/ CompileReplay(t) \/ Exchange(t) \/ match_replay_lastindex(t)
    \/ ReplayFails(t) \/ ReplayFailed(t) \/ PublishLastindex(t) \/ PublishRegs(t)

MatchFieldsSpec == MatchFieldsInit /\ [][MatchFieldsNext]_fieldVars

-----------------------------------------------------------------------------

LastIndexOf(m) == IF took[m] = <<>> THEN NoGroup ELSE Last(took[m])

\* Whoever asks, and however the answers race, a match has one lastindex, the
\* group that took part last, and one regs tuple; once it has given them it does
\* not fail to give them; and the code behind them is neither freed while a
\* thread may run it nor forgotten (pattern_get_lastindex_replay_code,
\* pcre2.c:794; Match_get_lastindex, pcre2.c:981; Match_get_regs, pcre2.c:1111).
FieldsAgree ==
  /\ \A i, j \in DOMAIN answers :
       /\ answers[i].field = "lastindex" => answers[i].value \in {LastIndexOf(answers[i].of), Failure}
       /\ answers[i].of = answers[j].of /\ answers[i].field = answers[j].field /\ i < j
            => answers[i].value \in {answers[j].value, Failure}
  /\ \A t \in Readers : At(t, "replay") => reader[t].with \notin freed
  /\ replayCode \notin freed
  /\ \A c \in (1..compiled) \ (freed \union {replayCode}) :
       \E t \in Readers : At(t, "exchange") /\ reader[t].with = c
==============================================================================
