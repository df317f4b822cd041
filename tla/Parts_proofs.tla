------------------------------ MODULE Parts_proofs ------------------------------
(* The components of which MCParts makes one run: the locks of a call for every  *)
(* number of threads and calls, the fields of a match for every match and number *)
(* of readers, what the process keeps of the imports for every number of         *)
(* interpreters, imports and allocators, a substitution for every subject, list  *)
(* of matches, replacement and count, the templates of Match.expand and of a     *)
(* substitution for every text, match and name table, and the escapes of a       *)
(* pattern for every text.                                                       *)
EXTENDS Locks, MatchFields, Runtime, Substitution, Texts, Lemmas, FiniteSetTheorems

-----------------------------------------------------------------------------
(* Locks.                                                                    *)

Labels == Attached \union Advancing \union {"outside", "wait", "done"}

LocksTypes ==
  /\ interpreter \in Threads \union {NoThread}
  /\ iterator \in Threads \union {NoThread}
  /\ guard \in Threads \union {NoThread}
  /\ serial \in BOOLEAN /\ jit \in BOOLEAN
  /\ pc \in [Threads -> Labels]
  /\ at \in [Threads -> [kind : Kinds \union {"none"}, long : BOOLEAN]]

\* Each lock is exactly where the code of its holder has it: what makes a lock's
\* release by one thread harmless to the others, and so the invariant inductive.
HeldWhereUsed(t) ==
  /\ interpreter = t <=> pc[t] \in Attached
  /\ iterator = t <=> Advances(t)
  /\ guard = t <=> serial /\ pc[t] \in Guarded
  /\ pc[t] \in {"advance", "wait", "iterator taken"} => at[t].kind = "next"

LocksInv == LocksTypes /\ \A t \in Threads : HeldWhereUsed(t)

LEMMA InitLocksInv == LocksInit => LocksInv
<1> SUFFICES ASSUME LocksInit PROVE LocksInv
  OBVIOUS
<1>1. LocksTypes
  BY DEF LocksInit, LocksTypes, Labels, Attached, Advancing, NoCall, Kinds
<1>2. ASSUME NEW t \in Threads PROVE HeldWhereUsed(t)
  BY <1>2, LocksAssumption
     DEF LocksInit, HeldWhereUsed, Advances, Attached, Advancing, Guarded, NoCall
<1> QED
  BY <1>1, <1>2 DEF LocksInv

\* A step of t is told by where it leaves t and what it does with the three locks.
LEMMA StepOfOneThread ==
  ASSUME LocksInv, LocksTypes', NEW t \in Threads,
         \A s \in Threads \ {t} : pc'[s] = pc[s] /\ at'[s] = at[s],
         serial' = serial,
         \/ interpreter' = interpreter
         \/ interpreter \in {t, NoThread} /\ interpreter' \in {t, NoThread},
         \/ iterator' = iterator
         \/ iterator \in {t, NoThread} /\ iterator' \in {t, NoThread},
         \/ guard' = guard
         \/ guard \in {t, NoThread} /\ guard' \in {t, NoThread},
         HeldWhereUsed(t)'
  PROVE  LocksInv'
<1>1. ASSUME NEW s \in Threads PROVE HeldWhereUsed(s)'
  <2>1. CASE s = t
    BY <2>1
  <2>2. CASE s # t
    <3>1. pc'[s] = pc[s] /\ at'[s] = at[s] /\ HeldWhereUsed(s)
      BY <2>2 DEF LocksInv
    <3>2. /\ interpreter' = s <=> interpreter = s
          /\ iterator' = s <=> iterator = s
          /\ guard' = s <=> guard = s
      BY <2>2, LocksAssumption
    <3> QED
      BY <3>1, <3>2 DEF HeldWhereUsed, Advances
  <2> QED
    BY <2>1, <2>2
<1> QED
  BY <1>1 DEF LocksInv

LEMMA NextLocksInv == LocksInv /\ [LocksNext]_lockVars => LocksInv'
<1> SUFFICES ASSUME LocksInv, [LocksNext]_lockVars PROVE LocksInv'
  OBVIOUS
<1> USE LocksAssumption
<1>1. LocksTypes /\ \A t \in Threads : HeldWhereUsed(t)
  BY DEF LocksInv
<1>2. CASE UNCHANGED lockVars
  BY <1>2 DEF LocksInv, LocksTypes, HeldWhereUsed, Advances, lockVars
<1>3. ASSUME NEW t \in Threads, Step(t) PROVE LocksInv'
  <2>1. HeldWhereUsed(t) /\ LocksTypes
    BY <1>1
  <2>2. pc[t] \in Labels /\ at[t].kind \in Kinds \union {"none"}
    BY <2>1 DEF LocksTypes
  <2>3. CASE Resume(t)
    <3>1. /\ \/ pc[t] = "outside" /\ pc'[t] = "python"
             \/ pc[t] = "iterator taken" /\ pc'[t] = "locked"
             \/ pc[t] = "matched" /\ pc'[t] = "returned"
          /\ pc' \in [Threads -> Labels]
          /\ \A s \in Threads \ {t} : pc'[s] = pc[s]
      BY <2>1, <2>3 DEF Resume, TakeInterpreter, Goto, LocksTypes, Labels, Attached, Advancing
    <3>2. /\ interpreter = NoThread /\ interpreter' = t
          /\ UNCHANGED <<iterator, guard, serial, jit, at>>
      BY <2>3 DEF Resume, TakeInterpreter
    <3>3. LocksTypes'
      BY <2>1, <3>1, <3>2 DEF LocksTypes
    <3>4. HeldWhereUsed(t)'
      BY <2>1, <3>1, <3>2 DEF HeldWhereUsed, Advances, Attached, Advancing, Guarded
    <3> QED
      BY <3>1, <3>2, <3>3, <3>4, StepOfOneThread
  <2>4. CASE Call(t)
    <3>1. PICK kind \in Kinds, long \in BOOLEAN :
             at' = [at EXCEPT ![t] = [kind |-> kind, long |-> long]]
      BY <2>4 DEF Call
    <3>2. /\ at'[t].kind = kind /\ at' \in [Threads -> [kind : Kinds \union {"none"}, long : BOOLEAN]]
          /\ \A s \in Threads \ {t} : at'[s] = at[s]
      BY <2>1, <3>1 DEF LocksTypes
    <3>3. /\ pc'[t] = (IF kind = "next" THEN "advance" ELSE "locked")
          /\ pc' \in [Threads -> Labels]
          /\ \A s \in Threads \ {t} : pc'[s] = pc[s]
      BY <2>1, <2>4, <3>2 DEF Call, Goto, LocksTypes, Labels, Attached, Advancing
    <3>4. pc[t] = "python" /\ UNCHANGED <<interpreter, iterator, guard, serial, jit>>
      BY <2>4 DEF Call
    <3>5. LocksTypes'
      BY <2>1, <3>2, <3>3, <3>4 DEF LocksTypes
    <3>6. HeldWhereUsed(t)'
      BY <2>1, <3>2, <3>3, <3>4 DEF HeldWhereUsed, Advances, Attached, Advancing, Guarded
    <3> QED
      BY <3>2, <3>3, <3>4, <3>5, <3>6, StepOfOneThread
  <2>5. CASE Wait(t)
    BY <1>1, <2>1, <2>2, <2>5, StepOfOneThread
       DEF Wait, Goto, LocksTypes, HeldWhereUsed, Advances, Labels, Attached, Advancing, Guarded
  <2>6. CASE TakeIterator(t)
    BY ZenonT(30), <1>1, <2>1, <2>2, <2>6, StepOfOneThread
       DEF TakeIterator, Goto, LocksTypes, HeldWhereUsed, Advances, Labels, Attached, Advancing, Guarded
  <2>7. CASE ReadFlag(t)
    BY ZenonT(30), <1>1, <2>1, <2>2, <2>7, StepOfOneThread
       DEF ReadFlag, GuardTaken, Goto, LocksTypes, HeldWhereUsed, Advances, Labels, Attached,
           Advancing, Guarded
  <2>8. CASE FlagRead(t)
    <3>1. /\ pc'[t] \in {"detach for jit", "detach", "jit attached", "interpret attached"}
          /\ pc' \in [Threads -> Labels]
          /\ \A s \in Threads \ {t} : pc'[s] = pc[s]
          /\ at' = at
      BY <2>1, <2>8 DEF FlagRead, Goto, LocksTypes, Labels, Attached, Advancing
    <3>2. UNCHANGED <<interpreter, iterator, serial>>
      BY <2>8 DEF FlagRead
    <3>3. \/ guard' = guard
          \/ guard \in {t, NoThread} /\ guard' \in {t, NoThread}
      BY <2>1, <2>8 DEF FlagRead, GuardLeft, HeldWhereUsed, Guarded
    <3>5. LocksTypes'
      BY <2>1, <2>8, <3>1 DEF FlagRead, GuardLeft, LocksTypes, Labels, Attached, Advancing
    <3>6. HeldWhereUsed(t)'
      BY <2>1, <2>8, <3>1
         DEF FlagRead, GuardLeft, HeldWhereUsed, Advances, Attached, Advancing, Guarded
    <3> QED
      BY <3>1, <3>2, <3>3, <3>5, <3>6, StepOfOneThread
  <2>9. CASE Detach(t)
    <3>1. /\ pc'[t] = (IF pc[t] = "detach" THEN "matched" ELSE "jit detached")
          /\ pc' \in [Threads -> Labels]
          /\ \A s \in Threads \ {t} : pc'[s] = pc[s]
          /\ at' = at
      BY <2>1, <2>9 DEF Detach, Goto, LocksTypes, Labels, Attached, Advancing
    <3>5. LocksTypes'
      BY <2>1, <2>9, <3>1 DEF Detach, LocksTypes, Labels, Attached, Advancing
    <3>6. HeldWhereUsed(t)'
      BY <2>1, <2>9, <3>1 DEF Detach, HeldWhereUsed, Advances, Attached, Advancing, Guarded
    <3> QED
      BY <2>1, <2>9, <3>1, <3>5, <3>6, StepOfOneThread DEF Detach, HeldWhereUsed, Attached
  <2>10. CASE JitCall(t)
    BY ZenonT(30), <1>1, <2>1, <2>2, <2>10, StepOfOneThread
       DEF JitCall, GuardTaken, Goto, LocksTypes, HeldWhereUsed, Advances, Labels, Attached,
           Advancing, Guarded
  <2>11. CASE JitReturns(t)
    <3>1. /\ pc'[t] = (IF pc[t] = "running" THEN "returned" ELSE "matched")
          /\ pc' \in [Threads -> Labels]
          /\ \A s \in Threads \ {t} : pc'[s] = pc[s]
          /\ at' = at
      BY <2>1, <2>11 DEF JitReturns, Goto, LocksTypes, Labels, Attached, Advancing
    <3>2. UNCHANGED <<interpreter, iterator, serial>>
      BY <2>11 DEF JitReturns
    <3>3. \/ guard' = guard
          \/ guard \in {t, NoThread} /\ guard' \in {t, NoThread}
      BY <2>1, <2>11 DEF JitReturns, GuardLeft, HeldWhereUsed, Guarded
    <3>5. LocksTypes'
      BY <2>1, <2>11, <3>1 DEF JitReturns, GuardLeft, LocksTypes, Labels, Attached, Advancing
    <3>6. HeldWhereUsed(t)'
      BY <2>1, <2>11, <3>1
         DEF JitReturns, GuardLeft, HeldWhereUsed, Advances, Attached, Advancing, Guarded
    <3> QED
      BY <3>1, <3>2, <3>3, <3>5, <3>6, StepOfOneThread
  <2>12. CASE Interpret(t)
    BY ZenonT(30), <1>1, <2>1, <2>2, <2>12, StepOfOneThread
       DEF Interpret, Goto, LocksTypes, HeldWhereUsed, Advances, Labels, Attached, Advancing, Guarded
  <2>13. CASE BadOption(t)
    BY ZenonT(30), <1>1, <2>1, <2>2, <2>13, StepOfOneThread
       DEF BadOption, GuardTaken, Goto, LocksTypes, HeldWhereUsed, Advances, Labels, Attached,
           Advancing, Guarded
  <2>14. CASE FlagCleared(t)
    BY ZenonT(30), <1>1, <2>1, <2>2, <2>14, StepOfOneThread
       DEF FlagCleared, GuardLeft, Goto, LocksTypes, HeldWhereUsed, Advances, Labels, Attached,
           Advancing, Guarded
  <2>15. CASE Return(t)
    <3>1. /\ at'[t].kind = "none" /\ at' \in [Threads -> [kind : Kinds \union {"none"}, long : BOOLEAN]]
          /\ \A s \in Threads \ {t} : at'[s] = at[s]
      BY <2>1, <2>15 DEF Return, LocksTypes, NoCall
    <3>2. /\ pc'[t] = (IF interpreter' = t THEN "python" ELSE "outside")
          /\ pc' \in [Threads -> Labels]
          /\ interpreter' \in {t, NoThread}
          /\ \A s \in Threads \ {t} : pc'[s] = pc[s]
      BY <2>1, <2>15 DEF Return, Goto, LocksTypes, Labels, Attached, Advancing
    <3>3. /\ pc[t] = "returned" /\ UNCHANGED <<guard, serial, jit>>
          /\ iterator' = IF at[t].kind = "next" THEN NoThread ELSE iterator
      BY <2>15 DEF Return
    <3>4. interpreter = t /\ (at[t].kind = "next" <=> iterator = t) /\ ~ (serial /\ guard = t)
      BY <2>1, <3>3 DEF HeldWhereUsed, Advances, Attached, Advancing, Guarded
    <3>5. LocksTypes'
      BY <2>1, <3>1, <3>2, <3>3 DEF LocksTypes
    <3>6. HeldWhereUsed(t)'
      BY <2>1, <3>1, <3>2, <3>3, <3>4 DEF HeldWhereUsed, Advances, Attached, Advancing, Guarded
    <3> QED
      BY <3>1, <3>2, <3>3, <3>4, <3>5, <3>6, StepOfOneThread
  <2>16. CASE End(t)
    BY ZenonT(30), <1>1, <2>1, <2>2, <2>16, StepOfOneThread
       DEF End, Goto, LocksTypes, HeldWhereUsed, Advances, Labels, Attached, Advancing, Guarded
  <2> QED
    BY <1>3, <2>3, <2>4, <2>5, <2>6, <2>7, <2>8, <2>9, <2>10, <2>11, <2>12, <2>13, <2>14, <2>15, <2>16
       DEF Step
<1> QED
  BY <1>2, <1>3 DEF LocksNext

LEMMA LocksInvHolds == LocksSpec => []LocksInv
  BY InitLocksInv, NextLocksInv, PTL DEF LocksSpec

\* A lock has one holder, and each of the three sections lies where its lock is held.
LEMMA HoldersExclude == LocksInv => SectionsAreExclusive
  BY LocksAssumption DEF LocksInv, HeldWhereUsed, SectionsAreExclusive

\* The guard's holder waits for nothing; with the guard free the interpreter's holder
\* waits for nothing; with both free only the iterator is waited for, and its holder
\* waits for neither.
LEMMA NoCircleOfWaits == LocksInv => SomeThreadCanGoOn
<1> SUFFICES ASSUME LocksInv, NEW t \in Threads, pc[t] # "done"
             PROVE  \E s \in Threads : CanGoOn(s)
  BY DEF SomeThreadCanGoOn
<1> USE LocksAssumption
<1>1. LocksTypes /\ \A s \in Threads : HeldWhereUsed(s)
  BY DEF LocksInv
<1>2. CASE serial /\ guard # NoThread
  <2>1. guard \in Threads /\ HeldWhereUsed(guard)
    BY <1>1, <1>2 DEF LocksTypes
  <2>2. pc[guard] \in Guarded
    BY <2>1 DEF HeldWhereUsed
  <2> QED
    BY <2>1, <2>2 DEF CanGoOn, Guarded
<1>3. CASE (~serial \/ guard = NoThread) /\ interpreter # NoThread
  <2>1. interpreter \in Threads /\ HeldWhereUsed(interpreter)
    BY <1>1, <1>3 DEF LocksTypes
  <2>2. pc[interpreter] \in Attached
    BY <2>1 DEF HeldWhereUsed
  <2> QED
    BY <1>3, <2>1, <2>2 DEF CanGoOn, Attached
<1>4. CASE (~serial \/ guard = NoThread) /\ interpreter = NoThread /\ iterator # NoThread
  <2>1. iterator \in Threads /\ HeldWhereUsed(iterator)
    BY <1>1, <1>4 DEF LocksTypes
  <2>2. pc[iterator] \in Advancing
    BY <2>1 DEF HeldWhereUsed, Advances
  <2> QED
    BY <1>4, <2>1, <2>2 DEF CanGoOn, Advancing
<1>5. CASE (~serial \/ guard = NoThread) /\ interpreter = NoThread /\ iterator = NoThread
  BY <1>5 DEF CanGoOn
<1> QED
  BY <1>2, <1>3, <1>4, <1>5

\* No two threads are in the interpreter, advance the iterator, or look at a JIT flag
\* or run JIT code under the guard at once (jit_guard_acquire, jit_support.c:60;
\* FindIter_iternext, pcre2.c:2621).
THEOREM LocksExclude == LocksSpec => []SectionsAreExclusive
  BY LocksInvHolds, HoldersExclude, PTL

\* However many threads call into the extension, and in whichever order they take the
\* interpreter, the iterator and the guard, one that has not ended can go on
\* (jit_guard_release before PyEval_RestoreThread, pcre2.c:107; the interpreter given up
\* before the iterator is awaited, pcre2.c:2621).
THEOREM LocksNeverDeadlock == LocksSpec => []SomeThreadCanGoOn
  BY LocksInvHolds, NoCircleOfWaits, PTL

-----------------------------------------------------------------------------
(* The fields of a match.                                                    *)

Places == {"get code", "compile", "exchange", "replay", "failed", "publish", "publish regs"}
Answer == [of : Snapshots, field : {"lastindex", "regs"}, value : Int]

FieldTypes ==
  /\ took \in [Snapshots -> Seq(Nat)]
  /\ compiled \in Nat /\ replayCode \in 0..compiled /\ freed \subseteq 1..compiled
  /\ lastindexCache \in [Snapshots -> Int] /\ regsCache \in [Snapshots -> Nat]
  /\ reader \in [Readers -> {Idle} \union [pc : Places, of : Snapshots, with : Int]]
  /\ answers \in Seq(Answer)

\* What is cached is the truth, or nothing.
CachesTrue == \A m \in Snapshots : lastindexCache[m] \in {NotYet, LastIndexOf(m)}

\* What a thread brings along from its last step.
ReaderKnows(t) ==
  /\ At(t, "publish") => reader[t].with = LastIndexOf(reader[t].of)
  /\ At(t, "publish regs") => reader[t].with = t
  /\ reader[t].pc \in {"get code", "compile", "exchange", "replay", "failed"} => Len(took[reader[t].of]) >= 2

\* Who has a code: the pattern, those that run the pattern's, and those about to offer
\* theirs, each one of its own.
CodesOwned ==
  /\ replayCode \notin freed
  /\ \A t \in Readers :
       /\ At(t, "exchange") => reader[t].with \in (1..compiled) \ (freed \union {replayCode})
       /\ At(t, "replay") => reader[t].with = replayCode /\ replayCode # NoCode
  /\ \A t, u \in Readers : At(t, "exchange") /\ At(u, "exchange") /\ t # u => reader[t].with # reader[u].with
  /\ \A c \in (1..compiled) \ (freed \union {replayCode}) :
       \E t \in Readers : At(t, "exchange") /\ reader[t].with = c

\* What has been answered is in the cache, which is never written again.
AnswerStands(a) ==
  /\ a.field = "lastindex" => a.value \in {lastindexCache[a.of], Failure} /\ a.value # NotYet
  /\ a.field = "regs" => a.value = regsCache[a.of] /\ a.value # NoTuple

\* Once a match has told its lastindex it does not fail to tell it.
NoLateFailure ==
  \A i, j \in DOMAIN answers :
    /\ answers[i].of = answers[j].of /\ answers[i].field = "lastindex"
    /\ answers[j].field = "lastindex" /\ i < j /\ answers[j].value = Failure
    => answers[i].value = Failure

FieldsInv ==
  /\ FieldTypes /\ CachesTrue /\ CodesOwned
  /\ \A t \in Readers : ReaderKnows(t)
  /\ \A i \in DOMAIN answers : AnswerStands(answers[i])
  /\ NoLateFailure

-----------------------------------------------------------------------------

\* A match has a lastindex, which is neither of the two special values.
LEMMA LastIndexIsNumber ==
  ASSUME FieldTypes, NEW m \in Snapshots
  PROVE  /\ LastIndexOf(m) \in Int /\ LastIndexOf(m) # NotYet /\ LastIndexOf(m) # Failure
         /\ Len(took[m]) >= 2 => LastIndexOf(m) = Last(took[m])
         /\ ~(Len(took[m]) >= 2) => LastIndexOf(m) = Sole(m)
<1>1. took[m] \in Seq(Nat) /\ Len(took[m]) \in Nat /\ DOMAIN took[m] = 1..Len(took[m])
  BY LenProperties DEF FieldTypes
<1>2. took[m] = <<>> <=> Len(took[m]) = 0
  BY <1>1, EmptySeq
<1>3. Len(took[m]) # 0 => took[m][Len(took[m])] \in Nat
  BY <1>1, ElementOfSeq
<1>4. Len(took[m]) = 0 => LastIndexOf(m) = NoGroup /\ Sole(m) = NoGroup
  BY <1>2 DEF LastIndexOf, Sole
<1>5. Len(took[m]) # 0 => LastIndexOf(m) = took[m][Len(took[m])] /\ Sole(m) = took[m][1]
                           /\ Last(took[m]) = took[m][Len(took[m])]
  BY <1>2 DEF LastIndexOf, Sole, Last
<1>6. ~(Len(took[m]) >= 2) /\ Len(took[m]) # 0 => Len(took[m]) = 1
  <2>1. \A n \in Nat : ~(n >= 2) /\ n # 0 => n = 1
    OBVIOUS
  <2> QED
    BY <1>1, <2>1
<1> QED
  BY <1>1, <1>3, <1>4, <1>5, <1>6 DEF NoGroup, NotYet, Failure

\* Where nobody has read anything yet, nothing is claimed.
LEMMA InitFieldsInv == MatchFieldsInit => FieldsInv
<1> SUFFICES ASSUME MatchFieldsInit PROVE FieldsInv
  OBVIOUS
<1> USE MatchFieldsAssumption DEF MatchFieldsInit
<1>1. took \in [Snapshots -> Seq(Nat)]
  <2> DEFINE B == BoundedSeq(GroupNumbers, Cardinality(GroupNumbers))
  <2>1. took \in [Snapshots -> {s \in B : IsInjective(s)}]
    OBVIOUS
  <2>2. B \subseteq Seq(GroupNumbers)
    <3> SUFFICES ASSUME NEW s \in B
                 PROVE  s \in Seq(GroupNumbers)
      OBVIOUS
    <3>1. PICK n \in 0..Cardinality(GroupNumbers) : s \in [1..n -> GroupNumbers]
      BY DEF BoundedSeq, SeqOf
    <3>2. n \in Nat
      BY FS_CardinalityType
    <3> QED
      BY <3>1, <3>2, SeqDef
  <2>3. Seq(GroupNumbers) \subseteq Seq(Nat)
    BY SeqMonotonic
  <2> HIDE DEF B
  <2> QED
    BY <2>1, <2>2, <2>3
<1>2. FieldTypes
  BY <1>1, EmptySeq DEF FieldTypes, NoCode, NotYet, NoTuple
<1>3. CachesTrue
  BY DEF CachesTrue
<1>4. \A t \in Readers : reader[t].pc = "idle"
  BY DEF Idle
<1>5. CodesOwned
  BY <1>4 DEF CodesOwned, At, NoCode
<1>6. \A t \in Readers : ReaderKnows(t)
  BY <1>4 DEF ReaderKnows, At
<1>7. DOMAIN answers = {}
  OBVIOUS
<1> QED
  BY <1>2, <1>3, <1>5, <1>6, <1>7 DEF FieldsInv, NoLateFailure

-----------------------------------------------------------------------------
(* The steps.                                                                   *)

Located == [pc : Places, of : Snapshots, with : Int]

\* A step of one thread leaves the others where they are.
LEMMA OthersStay ==
  ASSUME FieldTypes, NEW t \in Readers, NEW r \in {Idle} \union Located,
         reader' = [reader EXCEPT ![t] = r]
  PROVE  /\ reader' \in [Readers -> {Idle} \union Located] /\ reader'[t] = r
         /\ \A u \in Readers \ {t} : reader'[u] = reader[u]
BY DEF FieldTypes, Located

LEMMA IdleIsNoPlace == Idle.pc \notin Places /\ Idle.pc = "idle"
BY DEF Idle, Places

\* Where a thread is at a place, it has a match and something with it.
LEMMA AtPlace ==
  ASSUME FieldTypes, NEW t \in Readers, reader[t].pc \in Places
  PROVE  reader[t] \in Located
BY IdleIsNoPlace DEF FieldTypes, Located

\* A step that neither offers nor makes a code.
LEMMA CodesKept ==
  ASSUME FieldTypes, CodesOwned, NEW t \in Readers, NEW r \in {Idle} \union Located,
         reader' = [reader EXCEPT ![t] = r], UNCHANGED <<replayCode, compiled, freed>>,
         ~At(t, "exchange"), r.pc # "exchange",
         r.pc = "replay" => r.with = replayCode /\ replayCode # NoCode
  PROVE  CodesOwned'
<1>1. reader'[t] = r /\ \A u \in Readers \ {t} : reader'[u] = reader[u]
  BY OthersStay
<1>2. \A u \in Readers : (At(u, "exchange")' <=> At(u, "exchange"))
                         /\ (At(u, "exchange") => reader'[u] = reader[u])
  BY <1>1 DEF At
<1> QED
  BY <1>1, <1>2 DEF CodesOwned, At

\* A thread that goes on with the right thing in hand.
LEMMA GoesOn ==
  ASSUME FieldsInv, NEW t \in Readers, NEW r \in Located,
         reader' = [reader EXCEPT ![t] = r],
         UNCHANGED <<took, replayCode, compiled, freed, lastindexCache, regsCache, answers>>,
         ~At(t, "exchange"), r.pc # "exchange",
         r.pc = "replay" => r.with = replayCode /\ replayCode # NoCode,
         r.pc = "publish" => r.with = LastIndexOf(r.of),
         r.pc = "publish regs" => r.with = t,
         r.pc \in {"get code", "compile", "exchange", "replay", "failed"} => Len(took[r.of]) >= 2
  PROVE  FieldsInv'
<1> USE DEF FieldsInv
<1>1. reader' \in [Readers -> {Idle} \union Located] /\ reader'[t] = r
      /\ \A u \in Readers \ {t} : reader'[u] = reader[u]
  BY OthersStay
<1>2. FieldTypes'
  BY <1>1 DEF FieldTypes, Located
<1>3. CachesTrue' /\ NoLateFailure' /\ \A i \in DOMAIN answers' : AnswerStands(answers[i])'
  BY DEF CachesTrue, NoLateFailure, AnswerStands, LastIndexOf
<1>4. CodesOwned'
  BY CodesKept
<1>5. ASSUME NEW u \in Readers PROVE ReaderKnows(u)'
  BY <1>1 DEF ReaderKnows, At, LastIndexOf
<1> QED
  BY <1>2, <1>3, <1>4, <1>5

\* A thread that answers what the cache says from now on.
LEMMA AnswersRight ==
  ASSUME FieldsInv, NEW t \in Readers, NEW a \in Answer,
         reader' = [reader EXCEPT ![t] = Idle], answers' = Append(answers, a),
         UNCHANGED <<took, replayCode, compiled, freed>>, ~At(t, "exchange"),
         lastindexCache' \in [Snapshots -> Int], regsCache' \in [Snapshots -> Nat], CachesTrue',
         \A m \in Snapshots : lastindexCache[m] \in {NotYet, lastindexCache'[m]},
         \A m \in Snapshots : regsCache[m] \in {NoTuple, regsCache'[m]},
         a.field = "lastindex" => a.value \in {lastindexCache'[a.of], Failure} /\ a.value # NotYet,
         a.field = "lastindex" /\ a.value = Failure => lastindexCache[a.of] = NotYet,
         a.field = "regs" => a.value = regsCache'[a.of] /\ a.value # NoTuple
  PROVE  FieldsInv'
<1> USE DEF FieldsInv
<1>1. reader' \in [Readers -> {Idle} \union Located] /\ reader'[t] = Idle
      /\ \A u \in Readers \ {t} : reader'[u] = reader[u]
  BY OthersStay
<1>2. /\ answers' \in Seq(Answer) /\ answers \in Seq(Answer)
      /\ Len(answers) \in Nat /\ Len(answers') = Len(answers) + 1
      /\ DOMAIN answers = 1..Len(answers) /\ DOMAIN answers' = 1..(Len(answers) + 1)
      /\ \A i \in 1..Len(answers) : answers'[i] = answers[i]
      /\ answers'[Len(answers) + 1] = a
  <2>1. answers \in Seq(Answer)
    BY DEF FieldTypes
  <2> QED
    BY <2>1, AppendProperties, LenProperties
<1>3. FieldTypes'
  BY <1>1, <1>2 DEF FieldTypes, Located
<1>4. CodesOwned'
  BY CodesKept, IdleIsNoPlace
<1>5. ASSUME NEW u \in Readers PROVE ReaderKnows(u)'
  BY <1>1, IdleIsNoPlace DEF ReaderKnows, At, LastIndexOf
<1>6. \A i \in DOMAIN answers : answers[i] \in Answer
  BY <1>2, ElementOfSeq
<1>7. ASSUME NEW i \in DOMAIN answers' PROVE AnswerStands(answers[i])'
  <2>1. CASE i = Len(answers) + 1
    BY <1>2, <2>1 DEF AnswerStands
  <2>2. CASE i \in DOMAIN answers
    <3>1. answers'[i] = answers[i] /\ AnswerStands(answers[i])
      BY <1>2, <2>2
    <3>2. answers[i].of \in Snapshots
      BY <1>6, <2>2 DEF Answer
    <3> QED
      BY <3>1, <3>2 DEF AnswerStands
  <2> QED
    BY <1>2, <2>1, <2>2
<1>8. NoLateFailure'
  <2> SUFFICES ASSUME NEW i \in DOMAIN answers', NEW j \in DOMAIN answers', i < j,
                      answers'[i].of = answers'[j].of, answers'[i].field = "lastindex",
                      answers'[j].field = "lastindex", answers'[j].value = Failure
               PROVE  answers'[i].value = Failure
    BY DEF NoLateFailure
  <2>1. i \in DOMAIN answers /\ answers'[i] = answers[i]
    BY <1>2
  <2>2. CASE j \in DOMAIN answers
    BY <1>2, <2>1, <2>2 DEF NoLateFailure
  <2>3. CASE j = Len(answers) + 1
    BY <1>2, <2>1, <2>3 DEF AnswerStands
  <2> QED
    BY <1>2, <2>2, <2>3
<1> QED
  BY <1>3, <1>4, <1>5, <1>7, <1>8

LEMMA GetLastindexStep ==
  ASSUME FieldsInv, NEW t \in Readers, NEW m \in Snapshots, GetLastindex(t, m)
  PROVE  FieldsInv'
<1>1. FieldTypes /\ lastindexCache[m] \in {NotYet, LastIndexOf(m)} /\ lastindexCache[m] \in Int
      /\ ~At(t, "exchange")
      /\ UNCHANGED <<took, replayCode, compiled, freed, lastindexCache, regsCache>>
  BY DEF FieldsInv, CachesTrue, FieldTypes, At, GetLastindex
<1>2. CASE lastindexCache[m] # NotYet /\ Answers(t, m, "lastindex", lastindexCache[m])
  <2> DEFINE a == [of |-> m, field |-> "lastindex", value |-> lastindexCache[m]]
  <2>1. a \in Answer /\ a.of = m /\ a.field = "lastindex" /\ a.value = lastindexCache[m]
    BY <1>1 DEF Answer
  <2>2. reader' = [reader EXCEPT ![t] = Idle] /\ answers' = Append(answers, a)
    BY <1>2 DEF Answers
  <2>3. a.value # Failure
    BY <1>1, <1>2, <2>1, LastIndexIsNumber
  <2>4. /\ lastindexCache' \in [Snapshots -> Int] /\ regsCache' \in [Snapshots -> Nat] /\ CachesTrue'
        /\ UNCHANGED <<took, replayCode, compiled, freed>>
    BY <1>1 DEF FieldTypes, FieldsInv, CachesTrue, LastIndexOf
  <2> HIDE DEF a
  <2> QED
    BY <1>1, <1>2, <2>1, <2>2, <2>3, <2>4, AnswersRight
<1>3. CASE /\ lastindexCache[m] = NotYet
           /\ IF Len(took[m]) <= 1 THEN Goes(t, m, "publish", Sole(m)) ELSE Goes(t, m, "get code", NoCode)
           /\ UNCHANGED answers
  <2>1. UNCHANGED <<took, replayCode, compiled, freed, lastindexCache, regsCache, answers>>
    BY <1>1, <1>3
  <2>2. Len(took[m]) \in Nat
    BY <1>1, LenProperties DEF FieldTypes
  <2>3. CASE Len(took[m]) <= 1
    <3> DEFINE r == [pc |-> "publish", of |-> m, with |-> Sole(m)]
    <3>1. Sole(m) = LastIndexOf(m) /\ LastIndexOf(m) \in Int
      BY <1>1, <2>2, <2>3, LastIndexIsNumber
    <3>2. r \in Located /\ r.pc = "publish" /\ r.of = m /\ r.with = LastIndexOf(m)
      BY <3>1 DEF Located, Places
    <3>3. reader' = [reader EXCEPT ![t] = r]
      BY <1>3, <2>3 DEF Goes
    <3> HIDE DEF r
    <3> QED
      BY <1>1, <2>1, <3>2, <3>3, GoesOn
  <2>4. CASE ~(Len(took[m]) <= 1)
    <3> DEFINE r == [pc |-> "get code", of |-> m, with |-> NoCode]
    <3>1. r \in Located /\ r.pc = "get code" /\ r.of = m
      BY DEF Located, Places, NoCode
    <3>3. \A n \in Nat : ~(n <= 1) => n >= 2
      OBVIOUS
    <3>4. Len(took[r.of]) >= 2
      BY <2>2, <2>4, <3>1, <3>3
    <3>2. reader' = [reader EXCEPT ![t] = r]
      BY <1>3, <2>4 DEF Goes
    <3> HIDE DEF r
    <3> QED
      BY <1>1, <2>1, <3>1, <3>2, <3>4, GoesOn
  <2> QED
    BY <2>3, <2>4
<1> QED
  BY <1>2, <1>3 DEF GetLastindex

LEMMA GetCodeStep ==
  ASSUME FieldsInv, NEW t \in Readers, GetCode(t)
  PROVE  FieldsInv'
<1> DEFINE m == reader[t].of
           next == IF replayCode # NoCode THEN "replay" ELSE "compile"
           r == [pc |-> next, of |-> m, with |-> replayCode]
<1>1. /\ reader[t].pc = "get code" /\ reader' = [reader EXCEPT ![t] = r]
      /\ UNCHANGED <<took, replayCode, compiled, freed, lastindexCache, regsCache, answers>>
  BY DEF GetCode, Goes, At
<1>2. m \in Snapshots /\ Len(took[m]) >= 2 /\ ~At(t, "exchange") /\ replayCode \in Int
  <2>1. m \in Snapshots /\ Len(took[m]) >= 2 /\ ~At(t, "exchange")
    BY <1>1, AtPlace DEF FieldsInv, ReaderKnows, Located, Places, At
  <2>2. replayCode \in Int
    BY DEF FieldsInv, FieldTypes
  <2> QED
    BY <2>1, <2>2
<1>3. r \in Located /\ r.of = m /\ r.with = replayCode /\ r.pc \in {"replay", "compile"}
      /\ (r.pc = "replay" => replayCode # NoCode)
  BY <1>2 DEF Located, Places
<1> HIDE DEF r
<1> QED
  BY <1>1, <1>2, <1>3, GoesOn

LEMMA MatchReplayStep ==
  ASSUME FieldsInv, NEW t \in Readers, match_replay_lastindex(t)
  PROVE  FieldsInv'
<1> DEFINE m == reader[t].of
           r == [pc |-> "publish", of |-> m, with |-> Last(took[m])]
<1>1. /\ reader[t].pc = "replay" /\ reader' = [reader EXCEPT ![t] = r]
      /\ UNCHANGED <<took, replayCode, compiled, freed, lastindexCache, regsCache, answers>>
  BY DEF match_replay_lastindex, Goes, At
<1>2. m \in Snapshots /\ Len(took[m]) >= 2 /\ ~At(t, "exchange") /\ FieldTypes
  BY <1>1, AtPlace DEF FieldsInv, ReaderKnows, Located, Places, At
<1>3. Last(took[m]) = LastIndexOf(m) /\ LastIndexOf(m) \in Int
  BY <1>2, LastIndexIsNumber
<1>4. r \in Located /\ r.of = m /\ r.with = LastIndexOf(m) /\ r.pc = "publish"
  BY <1>2, <1>3 DEF Located, Places
<1> HIDE DEF r
<1> QED
  BY <1>1, <1>2, <1>4, GoesOn

LEMMA ReplayFailsStep ==
  ASSUME FieldsInv, NEW t \in Readers, ReplayFails(t)
  PROVE  FieldsInv'
<1> DEFINE m == reader[t].of
           r == [pc |-> "failed", of |-> m, with |-> NoCode]
<1>1. /\ reader[t].pc \in {"replay", "compile"} /\ reader' = [reader EXCEPT ![t] = r]
      /\ UNCHANGED <<took, replayCode, compiled, freed, lastindexCache, regsCache, answers>>
  BY DEF ReplayFails, Goes, At
<1>2. m \in Snapshots /\ Len(took[m]) >= 2 /\ ~At(t, "exchange")
  BY <1>1, AtPlace DEF FieldsInv, ReaderKnows, Located, Places, At
<1>3. r \in Located /\ r.of = m /\ r.pc = "failed"
  BY <1>2 DEF Located, Places, NoCode
<1> HIDE DEF r
<1> QED
  BY <1>1, <1>2, <1>3, GoesOn

LEMMA ReplayFailedStep ==
  ASSUME FieldsInv, NEW t \in Readers, ReplayFailed(t)
  PROVE  FieldsInv'
<1> DEFINE m == reader[t].of
           value == IF lastindexCache[m] = NotYet THEN Failure ELSE lastindexCache[m]
           a == [of |-> m, field |-> "lastindex", value |-> value]
<1>1. /\ reader[t].pc = "failed" /\ reader' = [reader EXCEPT ![t] = Idle] /\ answers' = Append(answers, a)
      /\ UNCHANGED <<took, replayCode, compiled, freed, lastindexCache, regsCache>>
  BY DEF ReplayFailed, Answers, At
<1>2. m \in Snapshots /\ ~At(t, "exchange") /\ FieldTypes /\ CachesTrue
  BY <1>1, AtPlace DEF FieldsInv, Located, Places, At
<1>3. /\ value \in Int /\ value \in {lastindexCache[m], Failure} /\ value # NotYet
      /\ (value = Failure => lastindexCache[m] = NotYet)
  <2>1. lastindexCache[m] \in {NotYet, LastIndexOf(m)} /\ LastIndexOf(m) # Failure /\ lastindexCache[m] \in Int
    BY <1>2, LastIndexIsNumber DEF CachesTrue, FieldTypes
  <2> QED
    BY <2>1 DEF Failure, NotYet
<1> HIDE DEF value
<1>4. a \in Answer /\ a.of = m /\ a.field = "lastindex" /\ a.value = value
  BY <1>2, <1>3 DEF Answer
<1>5. /\ lastindexCache' \in [Snapshots -> Int] /\ regsCache' \in [Snapshots -> Nat] /\ CachesTrue'
      /\ UNCHANGED <<took, replayCode, compiled, freed>>
  BY <1>1, <1>2 DEF FieldTypes, CachesTrue, LastIndexOf
<1> HIDE DEF a, m
<1> QED
  BY <1>1, <1>2, <1>3, <1>4, <1>5, AnswersRight

LEMMA PublishLastindexStep ==
  ASSUME FieldsInv, NEW t \in Readers, PublishLastindex(t)
  PROVE  FieldsInv'
<1> DEFINE m == reader[t].of
           value == IF lastindexCache[m] = NotYet THEN reader[t].with ELSE lastindexCache[m]
           a == [of |-> m, field |-> "lastindex", value |-> lastindexCache'[m]]
<1>1. /\ reader[t].pc = "publish" /\ reader' = [reader EXCEPT ![t] = Idle] /\ answers' = Append(answers, a)
      /\ lastindexCache' = [lastindexCache EXCEPT ![m] = value]
      /\ UNCHANGED <<took, replayCode, compiled, freed, regsCache>>
  BY DEF PublishLastindex, Answers, At
<1>2. m \in Snapshots /\ ~At(t, "exchange") /\ FieldTypes /\ CachesTrue /\ reader[t].with = LastIndexOf(m)
  BY <1>1, AtPlace DEF FieldsInv, Located, Places, At, ReaderKnows
<1>3. /\ value = LastIndexOf(m) /\ value \in Int /\ value # NotYet /\ value # Failure
  BY <1>2, LastIndexIsNumber DEF CachesTrue, FieldTypes
<1> HIDE DEF value
<1>4. lastindexCache'[m] = value
  BY <1>1, <1>2 DEF FieldTypes
<1>5. a \in Answer /\ a.of = m /\ a.field = "lastindex" /\ a.value = value
  BY <1>2, <1>3, <1>4 DEF Answer
<1>6. /\ lastindexCache' \in [Snapshots -> Int] /\ regsCache' \in [Snapshots -> Nat] /\ CachesTrue'
      /\ UNCHANGED <<took, replayCode, compiled, freed>>
  BY <1>1, <1>2, <1>3 DEF FieldTypes, CachesTrue, LastIndexOf
<1>7. \A n \in Snapshots : lastindexCache[n] \in {NotYet, lastindexCache'[n]}
  BY <1>1, <1>2, <1>3, <1>4 DEF FieldTypes, CachesTrue
<1> HIDE DEF a, m
<1> QED
  BY <1>1, <1>2, <1>3, <1>4, <1>5, <1>6, <1>7, AnswersRight

LEMMA GetRegsStep ==
  ASSUME FieldsInv, NEW t \in Readers, NEW m \in Snapshots, GetRegs(t, m)
  PROVE  FieldsInv'
<1>1. FieldTypes /\ CachesTrue /\ regsCache[m] \in Nat /\ ~At(t, "exchange")
      /\ UNCHANGED <<took, replayCode, compiled, freed, lastindexCache, regsCache>>
  BY DEF FieldsInv, CachesTrue, FieldTypes, At, GetRegs
<1>2. CASE regsCache[m] # NoTuple /\ Answers(t, m, "regs", regsCache[m])
  <2> DEFINE a == [of |-> m, field |-> "regs", value |-> regsCache[m]]
  <2>1. a \in Answer /\ a.of = m /\ a.field = "regs" /\ a.value = regsCache[m]
    <3>1. regsCache[m] \in Int
      BY <1>1
    <3> QED
      BY <3>1 DEF Answer
  <2>2. reader' = [reader EXCEPT ![t] = Idle] /\ answers' = Append(answers, a)
    BY <1>2 DEF Answers
  <2>3. /\ lastindexCache' \in [Snapshots -> Int] /\ regsCache' \in [Snapshots -> Nat] /\ CachesTrue'
        /\ UNCHANGED <<took, replayCode, compiled, freed>>
    BY <1>1 DEF FieldTypes, CachesTrue, LastIndexOf
  <2> HIDE DEF a
  <2> QED
    BY <1>1, <1>2, <2>1, <2>2, <2>3, AnswersRight
<1>3. CASE regsCache[m] = NoTuple /\ Goes(t, m, "publish regs", t) /\ UNCHANGED answers
  <2> DEFINE r == [pc |-> "publish regs", of |-> m, with |-> t]
  <2>1. UNCHANGED <<took, replayCode, compiled, freed, lastindexCache, regsCache, answers>>
    BY <1>1, <1>3
  <2>2. r \in Located /\ r.pc = "publish regs" /\ r.with = t
    <3>1. t \in Int
      BY MatchFieldsAssumption
    <3> QED
      BY <3>1 DEF Located, Places
  <2>3. reader' = [reader EXCEPT ![t] = r]
    BY <1>3 DEF Goes
  <2> HIDE DEF r
  <2> QED
    BY <1>1, <2>1, <2>2, <2>3, GoesOn
<1> QED
  BY <1>2, <1>3 DEF GetRegs

LEMMA PublishRegsStep ==
  ASSUME FieldsInv, NEW t \in Readers, PublishRegs(t)
  PROVE  FieldsInv'
<1> DEFINE m == reader[t].of
           value == IF regsCache[m] = NoTuple THEN t ELSE regsCache[m]
           a == [of |-> m, field |-> "regs", value |-> regsCache'[m]]
<1>1. /\ reader[t].pc = "publish regs" /\ reader' = [reader EXCEPT ![t] = Idle] /\ answers' = Append(answers, a)
      /\ regsCache' = [regsCache EXCEPT ![m] = value]
      /\ UNCHANGED <<took, replayCode, compiled, freed, lastindexCache>>
  BY DEF PublishRegs, Answers, At
<1>2. m \in Snapshots /\ ~At(t, "exchange") /\ FieldTypes /\ CachesTrue
  BY <1>1, AtPlace DEF FieldsInv, Located, Places, At
<1>3. value \in Nat /\ value # NoTuple /\ (regsCache[m] # NoTuple => value = regsCache[m])
  BY <1>2, MatchFieldsAssumption DEF FieldTypes, NoTuple
<1> HIDE DEF value
<1>4. regsCache'[m] = value
  BY <1>1, <1>2 DEF FieldTypes
<1>5. a \in Answer /\ a.of = m /\ a.field = "regs" /\ a.value = value
  BY <1>2, <1>3, <1>4 DEF Answer
<1>6. /\ lastindexCache' \in [Snapshots -> Int] /\ regsCache' \in [Snapshots -> Nat] /\ CachesTrue'
      /\ UNCHANGED <<took, replayCode, compiled, freed>>
  BY <1>1, <1>2, <1>3 DEF FieldTypes, CachesTrue, LastIndexOf
<1>7. \A n \in Snapshots : regsCache[n] \in {NoTuple, regsCache'[n]}
  BY <1>1, <1>2, <1>3, <1>4 DEF FieldTypes
<1> HIDE DEF a, m
<1> QED
  BY <1>1, <1>2, <1>3, <1>4, <1>5, <1>6, <1>7, AnswersRight

\* A code is nobody's before it is made, and its maker's until it is offered.
LEMMA CompileReplayStep ==
  ASSUME FieldsInv, NEW t \in Readers, CompileReplay(t)
  PROVE  FieldsInv'
<1> USE DEF FieldsInv
<1> DEFINE r == [pc |-> "exchange", of |-> reader[t].of, with |-> compiled']
<1>1. /\ reader[t].pc = "compile" /\ reader' = [reader EXCEPT ![t] = r] /\ compiled' = compiled + 1
      /\ UNCHANGED <<took, replayCode, freed, lastindexCache, regsCache, answers>>
  BY DEF CompileReplay, Goes, At
<1>2. /\ reader[t].of \in Snapshots /\ Len(took[reader[t].of]) >= 2
      /\ compiled \in Nat /\ replayCode \in 0..compiled /\ freed \subseteq 1..compiled
  BY <1>1, AtPlace DEF Located, Places, ReaderKnows, FieldTypes
<1>3. r \in Located /\ r.pc = "exchange" /\ r.of = reader[t].of /\ r.with = compiled + 1
  BY <1>1, <1>2 DEF Located, Places
<1> HIDE DEF r
<1>4. reader' \in [Readers -> {Idle} \union Located] /\ reader'[t] = r
      /\ \A u \in Readers \ {t} : reader'[u] = reader[u]
  BY <1>1, <1>3, OthersStay
<1>5. FieldTypes'
  BY <1>1, <1>2, <1>4 DEF FieldTypes, Located
<1>6. CachesTrue' /\ NoLateFailure' /\ \A i \in DOMAIN answers' : AnswerStands(answers[i])'
  BY <1>1 DEF CachesTrue, NoLateFailure, AnswerStands, LastIndexOf
<1>7. ASSUME NEW u \in Readers PROVE ReaderKnows(u)'
  BY <1>1, <1>2, <1>3, <1>4 DEF ReaderKnows, At, LastIndexOf
<1>8. CodesOwned'
  <2>1. replayCode' \notin freed'
    BY <1>1 DEF CodesOwned
  <2>2. ASSUME NEW u \in Readers
        PROVE  /\ At(u, "exchange")' => reader'[u].with \in (1..compiled') \ (freed' \union {replayCode'})
               /\ At(u, "replay")' => reader'[u].with = replayCode' /\ replayCode' # NoCode
    BY <1>1, <1>2, <1>3, <1>4 DEF CodesOwned, At
  <2>3. ASSUME NEW u \in Readers, NEW v \in Readers, At(u, "exchange")', At(v, "exchange")', u # v
        PROVE  reader'[u].with # reader'[v].with
    BY <1>2, <1>3, <1>4, <2>3 DEF CodesOwned, At
  <2>4. ASSUME NEW c \in (1..compiled') \ (freed' \union {replayCode'})
        PROVE  \E u \in Readers : At(u, "exchange")' /\ reader'[u].with = c
    <3>1. CASE c = compiled + 1
      BY <1>3, <1>4, <3>1 DEF At
    <3>2. CASE c # compiled + 1
      <4>1. PICK u \in Readers : At(u, "exchange") /\ reader[u].with = c
        BY <1>1, <1>2, <2>4, <3>2 DEF CodesOwned
      <4> QED
        BY <1>1, <1>4, <4>1 DEF At
    <3> QED
      BY <3>1, <3>2
  <2> QED
    BY <2>1, <2>2, <2>3, <2>4 DEF CodesOwned
<1> QED
  BY <1>5, <1>6, <1>7, <1>8

\* Whoever comes first publishes, whoever comes second frees: nobody runs the code of
\* the second.
LEMMA ExchangeStep ==
  ASSUME FieldsInv, NEW t \in Readers, Exchange(t)
  PROVE  FieldsInv'
<1> USE DEF FieldsInv
<1> DEFINE w == reader[t].with
           r == [pc |-> "replay", of |-> reader[t].of, with |-> replayCode']
<1>1. /\ reader[t].pc = "exchange" /\ reader' = [reader EXCEPT ![t] = r]
      /\ UNCHANGED <<took, compiled, lastindexCache, regsCache, answers>>
      /\ \/ replayCode = NoCode /\ replayCode' = w /\ freed' = freed
         \/ replayCode # NoCode /\ replayCode' = replayCode /\ freed' = freed \union {w}
  BY DEF Exchange, Goes, At
<1>2. /\ reader[t].of \in Snapshots /\ Len(took[reader[t].of]) >= 2
      /\ compiled \in Nat /\ replayCode \in 0..compiled /\ freed \subseteq 1..compiled
      /\ w \in (1..compiled) \ (freed \union {replayCode})
  BY <1>1, AtPlace DEF Located, Places, ReaderKnows, FieldTypes, CodesOwned, At
<1>3. replayCode' \in 1..compiled /\ replayCode' # NoCode
  BY <1>1, <1>2 DEF NoCode
<1>4. r \in Located /\ r.pc = "replay" /\ r.of = reader[t].of /\ r.with = replayCode'
  BY <1>2, <1>3 DEF Located, Places
<1> HIDE DEF r
<1>5. reader' \in [Readers -> {Idle} \union Located] /\ reader'[t] = r
      /\ \A u \in Readers \ {t} : reader'[u] = reader[u]
  BY <1>1, <1>4, OthersStay
<1>6. FieldTypes'
  <2>1. freed' \subseteq 1..compiled
    <3>1. w \in 1..compiled /\ freed \subseteq 1..compiled /\ freed' \in {freed, freed \union {w}}
      BY <1>1, <1>2
    <3> QED
      BY <3>1
  <2>2. replayCode' \in 0..compiled /\ compiled' = compiled /\ compiled \in Nat
    BY <1>1, <1>2, <1>3
  <2>3. /\ took' \in [Snapshots -> Seq(Nat)] /\ answers' \in Seq(Answer)
        /\ lastindexCache' \in [Snapshots -> Int] /\ regsCache' \in [Snapshots -> Nat]
    BY <1>1 DEF FieldTypes
  <2> QED
    BY <1>5, <2>1, <2>2, <2>3 DEF FieldTypes, Located
<1>7. CachesTrue' /\ NoLateFailure' /\ \A i \in DOMAIN answers' : AnswerStands(answers[i])'
  BY <1>1 DEF CachesTrue, NoLateFailure, AnswerStands, LastIndexOf
<1>8. ASSUME NEW u \in Readers PROVE ReaderKnows(u)'
  BY <1>1, <1>2, <1>4, <1>5 DEF ReaderKnows, At, LastIndexOf
<1>9. CodesOwned'
  <2>1. replayCode' \notin freed'
    BY <1>1, <1>2 DEF CodesOwned
  <2>2. ASSUME NEW u \in Readers \ {t}
        PROVE  /\ At(u, "exchange")' => reader'[u].with \in (1..compiled') \ (freed' \union {replayCode'})
               /\ At(u, "replay")' => reader'[u].with = replayCode' /\ replayCode' # NoCode
    BY <1>1, <1>2, <1>5 DEF CodesOwned, At
  <2>3. /\ ~At(t, "exchange")'
        /\ reader'[t].with = replayCode' /\ replayCode' # NoCode
    BY <1>3, <1>4, <1>5 DEF At
  <2>4. ASSUME NEW u \in Readers, NEW v \in Readers, At(u, "exchange")', At(v, "exchange")', u # v
        PROVE  reader'[u].with # reader'[v].with
    BY <1>5, <2>3, <2>4 DEF CodesOwned, At
  <2>5. ASSUME NEW c \in (1..compiled') \ (freed' \union {replayCode'})
        PROVE  \E u \in Readers : At(u, "exchange")' /\ reader'[u].with = c
    <3>1. c \in (1..compiled) \ (freed \union {replayCode}) /\ c # w
      BY <1>1, <1>2, <2>5 DEF NoCode
    <3>2. PICK u \in Readers : At(u, "exchange") /\ reader[u].with = c
      BY <3>1 DEF CodesOwned
    <3> QED
      BY <1>5, <3>1, <3>2 DEF At
  <2> QED
    BY <2>1, <2>2, <2>3, <2>4, <2>5 DEF CodesOwned
<1> QED
  BY <1>6, <1>7, <1>8, <1>9

LEMMA StepFieldsInv == FieldsInv /\ [MatchFieldsNext]_fieldVars => FieldsInv'
<1> SUFFICES ASSUME FieldsInv, [MatchFieldsNext]_fieldVars PROVE FieldsInv'
  OBVIOUS
<1>1. CASE UNCHANGED fieldVars
  BY <1>1 DEF fieldVars, FieldsInv, FieldTypes, CachesTrue, CodesOwned, ReaderKnows, At, AnswerStands,
     NoLateFailure, LastIndexOf
<1>2. CASE MatchFieldsNext
  BY <1>2, GetLastindexStep, GetRegsStep, GetCodeStep, CompileReplayStep, ExchangeStep,
     MatchReplayStep, ReplayFailsStep, ReplayFailedStep, PublishLastindexStep, PublishRegsStep
     DEF MatchFieldsNext
<1> QED
  BY <1>1, <1>2

\* Whoever asks, in whatever order the threads compile, replay, fail and publish: a
\* match tells one lastindex, the true one, and one regs tuple, it does not fail to tell
\* what it has told, and the code that is run is neither freed nor forgotten
\* (pattern_get_lastindex_replay_code, pcre2.c:794; Match_get_lastindex, pcre2.c:981;
\* Match_get_regs, pcre2.c:1111).
THEOREM MatchFieldsAgree == MatchFieldsSpec => []FieldsAgree
<1>1. ASSUME FieldsInv PROVE FieldsAgree
  <2> USE <1>1 DEF FieldsInv
  <2>1. \A i \in DOMAIN answers : answers[i] \in Answer
    BY ElementOfSeq, LenProperties DEF FieldTypes
  <2>2. ASSUME NEW i \in DOMAIN answers, answers[i].field = "lastindex"
        PROVE  answers[i].value \in {LastIndexOf(answers[i].of), Failure}
    BY <2>1, <2>2 DEF AnswerStands, CachesTrue, Answer
  <2>3. ASSUME NEW i \in DOMAIN answers, NEW j \in DOMAIN answers,
               answers[i].of = answers[j].of, answers[i].field = answers[j].field, i < j
        PROVE  answers[i].value \in {answers[j].value, Failure}
    <3>1. CASE answers[i].field = "lastindex"
      <4>1. CASE answers[j].value = Failure
        BY <2>3, <3>1, <4>1 DEF NoLateFailure
      <4>2. CASE answers[j].value # Failure
        BY <2>2, <2>3, <3>1, <4>2
      <4> QED
        BY <4>1, <4>2
    <3>2. CASE answers[i].field = "regs"
      BY <2>3, <3>2 DEF AnswerStands
    <3> QED
      BY <2>1, <3>1, <3>2 DEF Answer
  <2> QED
    BY <2>2, <2>3 DEF FieldsAgree, CodesOwned
<1> QED
  BY <1>1, InitFieldsInv, StepFieldsInv, PTL DEF MatchFieldsSpec

-----------------------------------------------------------------------------
(* The imports.                                                              *)

Modes == {"thread", "global"}
Settings == [serial : BOOLEAN, contexts : BOOLEAN, patterns : Modes, strategy : Modes,
             allocator : Allocators \union {"none"}]

Steps == {"jit support", "context cache", "pattern cache", "types", "memory", "errors", "caches",
          "objects"}

RuntimeTypes ==
  /\ module_fully_initialized \in BOOLEAN
  /\ settings \in Settings /\ first \in Settings
  /\ up \subseteq Subsystems
  /\ import \in {NoImport} \union [pc : Steps, first_init : BOOLEAN, mode : Modes]

\* What a first import has put up when it comes to the step place.
UpBefore(place) ==
  CASE place \in {"jit support", "context cache", "pattern cache"} -> {}
    [] place \in {"types", "memory"} -> {"pattern cache"}
    [] place = "errors"              -> {"pattern cache", "memory"}
    [] place = "caches"              -> {"pattern cache", "memory", "errors"}
    [] place = "objects"             -> Subsystems

\* A first import undoes a prefix of its steps when it fails, so each step must find
\* what those before it leave, and nothing of those after it; the memory alone may be
\* there from an earlier failure.
FirstImport ==
  /\ UpBefore(import.pc) \subseteq up /\ up \subseteq UpBefore(import.pc) \union {"memory"}
  /\ import.pc = "jit support" => ~settings.serial
  /\ settings.patterns = IF "pattern cache" \in up THEN import.mode ELSE "thread"
  /\ settings.strategy = IF "caches" \in up THEN import.mode ELSE "thread"

NothingLeft ==
  /\ up \subseteq {"memory"}
  /\ ~settings.serial /\ settings.patterns = "thread" /\ settings.strategy = "thread"

RuntimeInv ==
  /\ RuntimeTypes
  /\ import # NoImport => import.first_init = ~module_fully_initialized
  /\ module_fully_initialized => up = Subsystems /\ settings = first
                                 /\ settings.patterns = settings.strategy
  /\ ~module_fully_initialized => IF import = NoImport THEN NothingLeft ELSE FirstImport

\* Before any import nothing is there.
LEMMA InitRuntimeInv == RuntimeInit => RuntimeInv
<1> SUFFICES ASSUME RuntimeInit PROVE RuntimeInv
  OBVIOUS
<1>1. /\ NotSet \in Settings /\ NotSet.serial = FALSE
      /\ NotSet.patterns = "thread" /\ NotSet.strategy = "thread"
  BY DEF Settings, Modes, NotSet
<1>2. settings = NotSet /\ first = NotSet /\ up = {} /\ import = NoImport /\ module_fully_initialized = FALSE
  BY DEF RuntimeInit
<1> QED
  BY <1>1, <1>2 DEF RuntimeInv, RuntimeTypes, NothingLeft

\* Where no import runs none is at a step.
LEMMA NoImportAtNoStep == NoImport.pc \notin Steps
BY DEF NoImport, Steps

\* A step of a later import changes nothing: what it finds is there already.
LEMMA LaterImportKeeps ==
  ASSUME RuntimeInv, module_fully_initialized, RuntimeNext
  PROVE  UNCHANGED <<module_fully_initialized, settings, up>> /\ first' = first
<1> USE DEF RuntimeInv
<1>1. import # NoImport => ~FirstInit
  BY DEF FirstInit, RuntimeTypes
<1>2. "memory" \in up /\ "caches" \in up /\ "errors" \in up
  BY DEF Subsystems
<1>3. import.pc \in Steps => import # NoImport
  BY NoImportAtNoStep
<1>4. ASSUME NEW i \in Interpreters, Import(i) PROVE UNCHANGED <<module_fully_initialized, settings, up, first>>
  BY <1>4 DEF Import
<1>5. CASE JitSupport
  BY <1>1, <1>3, <1>5 DEF JitSupport, On, Steps
<1>6. CASE ContextCache
  BY <1>1, <1>3, <1>6 DEF ContextCache, On, Steps
<1>7. CASE PatternCache
  BY <1>1, <1>3, <1>7 DEF PatternCache, On, Steps
<1>8. CASE Types
  BY <1>8 DEF Types
<1>9. CASE Memory
  BY <1>2, <1>9 DEF Memory
<1>10. CASE pcre_error_init
  BY <1>2, <1>10 DEF pcre_error_init
<1>11. CASE cache_initialize
  BY <1>2, <1>11 DEF cache_initialize
<1>12. CASE Objects
  BY <1>1, <1>3, <1>12 DEF Objects, On, Steps
<1>13. CASE Fail
  BY <1>1, <1>13 DEF Fail
<1> QED
  BY <1>4, <1>5, <1>6, <1>7, <1>8, <1>9, <1>10, <1>11, <1>12, <1>13 DEF RuntimeNext

\* Every step keeps the types.
LEMMA StepTypes ==
  ASSUME RuntimeTypes, [RuntimeNext]_runtimeVars
  PROVE  RuntimeTypes'
<1> USE DEF RuntimeTypes, Continue
<1>1. ASSUME import.pc \in Steps PROVE import \in [pc : Steps, first_init : BOOLEAN, mode : Modes]
  BY <1>1, NoImportAtNoStep
<1>2. NoImport \in {NoImport} \union [pc : Steps, first_init : BOOLEAN, mode : Modes]
  OBVIOUS
<1>3. ASSUME NEW i \in Interpreters, Import(i) PROVE RuntimeTypes'
  <2>1. [pc |-> "jit support", first_init |-> ~module_fully_initialized, mode |-> "thread"]
          \in [pc : Steps, first_init : BOOLEAN, mode : Modes]
    BY DEF Steps, Modes
  <2> QED
    BY <1>3, <2>1 DEF Import
<1>4. CASE JitSupport
  BY <1>1, <1>4 DEF JitSupport, On, Settings, Steps
<1>5. CASE ContextCache
  BY <1>1, <1>5 DEF ContextCache, On, Settings, Steps
<1>6. CASE PatternCache
  BY ZenonT(30), <1>1, <1>6 DEF PatternCache, On, Settings, Steps, Modes, Subsystems
<1>7. CASE Types
  BY <1>1, <1>7 DEF Types, On, Steps
<1>8. CASE Memory
  BY ZenonT(30), <1>1, <1>8 DEF Memory, On, Settings, Steps, Subsystems
<1>9. CASE pcre_error_init
  BY <1>1, <1>9 DEF pcre_error_init, On, Steps, Subsystems
<1>10. CASE cache_initialize
  BY <1>1, <1>10 DEF cache_initialize, On, Settings, Steps, Subsystems
<1>11. CASE Objects
  BY <1>11 DEF Objects
<1>12. CASE Fail
  <2>1. ASSUME NEW down PROVE Reset(settings, down) \in Settings
    BY DEF Settings, Reset, Modes
  <2> QED
    BY <1>12, <2>1 DEF Fail
<1>13. CASE UNCHANGED runtimeVars
  BY <1>13 DEF runtimeVars
<1> QED
  BY <1>3, <1>4, <1>5, <1>6, <1>7, <1>8, <1>9, <1>10, <1>11, <1>12, <1>13 DEF RuntimeNext

\* A first import goes from step to step on what the steps before have left.
LEMMA FirstImportKeeps ==
  ASSUME RuntimeInv, ~module_fully_initialized, RuntimeNext, RuntimeTypes'
  PROVE  RuntimeInv'
<1> USE DEF RuntimeInv, Subsystems
<1>1. import # NoImport => FirstInit /\ FirstImport /\ import \in [pc : Steps, first_init : BOOLEAN, mode : Modes]
  BY DEF FirstInit, RuntimeTypes
<1>2. import.pc \in Steps => import # NoImport
  BY NoImportAtNoStep
<1>3. settings \in Settings /\ up \subseteq Subsystems
  BY DEF RuntimeTypes
<1>4. ASSUME import # NoImport, ~module_fully_initialized', NEW place \in Steps,
             import'.pc = place, import'.first_init = import.first_init, FirstImport'
      PROVE  RuntimeInv'
  BY <1>1, <1>4, NoImportAtNoStep DEF FirstInit
<1>5. ASSUME NEW i \in Interpreters, Import(i) PROVE RuntimeInv'
  <2>1. import = NoImport /\ NothingLeft /\ UNCHANGED <<module_fully_initialized, settings, up, first>>
    BY <1>5 DEF Import
  <2>2. CASE import' = import
    BY <2>1, <2>2 DEF NothingLeft
  <2>3. CASE import' = [pc |-> "jit support", first_init |-> ~module_fully_initialized, mode |-> "thread"]
    <3>1. import'.pc = "jit support" /\ import'.first_init = TRUE /\ import'.mode = "thread"
      BY <2>3
    <3>2. import' # NoImport
      BY <3>1, NoImportAtNoStep DEF Steps
    <3>3. FirstImport'
      BY <2>1, <3>1 DEF FirstImport, NothingLeft, UpBefore
    <3> QED
      BY <2>1, <3>1, <3>2, <3>3
  <2> QED
    BY <1>5, <2>2, <2>3 DEF Import
<1>6. CASE JitSupport
  <2>1. import # NoImport /\ import.pc = "jit support"
    BY <1>2, <1>6 DEF JitSupport, On, Steps
  <2>2. /\ import'.pc = "context cache" /\ import'.first_init = import.first_init /\ import'.mode = import.mode
        /\ UNCHANGED <<module_fully_initialized, up>>
        /\ settings'.patterns = settings.patterns /\ settings'.strategy = settings.strategy
    BY <1>1, <1>3, <1>6, <2>1 DEF JitSupport, Continue, Settings
  <2> QED
    BY <1>1, <1>4, <2>1, <2>2 DEF FirstImport, UpBefore, Steps
<1>7. CASE ContextCache
  <2>1. import # NoImport /\ import.pc = "context cache"
    BY <1>2, <1>7 DEF ContextCache, On, Steps
  <2>2. /\ import'.pc = "pattern cache" /\ import'.first_init = import.first_init /\ import'.mode = import.mode
        /\ UNCHANGED <<module_fully_initialized, up>>
        /\ settings'.patterns = settings.patterns /\ settings'.strategy = settings.strategy
    BY <1>1, <1>3, <1>7, <2>1 DEF ContextCache, Continue, Settings
  <2> QED
    BY <1>1, <1>4, <2>1, <2>2 DEF FirstImport, UpBefore, Steps
<1>8. CASE PatternCache
  <2>1. import # NoImport /\ import.pc = "pattern cache"
    BY <1>2, <1>8 DEF PatternCache, On, Steps
  <2>2. PICK mode \in Modes :
        /\ import' = [import EXCEPT !.pc = "types", !.mode = mode]
        /\ settings' = [settings EXCEPT !.patterns = mode]
    BY <1>1, <1>8, <2>1 DEF PatternCache, Modes
  <2>3. /\ import'.pc = "types" /\ import'.first_init = import.first_init /\ import'.mode = mode
        /\ settings'.patterns = mode /\ settings'.strategy = settings.strategy
    BY <1>1, <1>3, <2>1, <2>2 DEF Settings
  <2>4. up' = up \union {"pattern cache"} /\ UNCHANGED module_fully_initialized
    BY <1>1, <1>8, <2>1 DEF PatternCache
  <2> QED
    BY <1>1, <1>4, <2>1, <2>3, <2>4 DEF FirstImport, UpBefore, Steps
<1>9. CASE Types
  <2>1. import # NoImport /\ import.pc = "types"
    BY <1>2, <1>9 DEF Types, On, Steps
  <2>2. /\ import'.pc = "memory" /\ import'.first_init = import.first_init /\ import'.mode = import.mode
        /\ UNCHANGED <<module_fully_initialized, up, settings>>
    BY <1>1, <1>9, <2>1 DEF Types, Continue
  <2> QED
    BY <1>1, <1>4, <2>1, <2>2 DEF FirstImport, UpBefore, Steps
<1>10. CASE Memory
  <2>1. import # NoImport /\ import.pc = "memory"
    BY <1>2, <1>10 DEF Memory, On, Steps
  <2>2. /\ import'.pc = "errors" /\ import'.first_init = import.first_init /\ import'.mode = import.mode
        /\ UNCHANGED module_fully_initialized /\ up' = up \union {"memory"}
        /\ settings'.patterns = settings.patterns /\ settings'.strategy = settings.strategy
    BY <1>1, <1>3, <1>10, <2>1 DEF Memory, Continue, Settings
  <2> QED
    BY <1>1, <1>4, <2>1, <2>2 DEF FirstImport, UpBefore, Steps
<1>11. CASE pcre_error_init
  <2>1. import # NoImport /\ import.pc = "errors"
    BY <1>2, <1>11 DEF pcre_error_init, On, Steps
  <2>2. /\ import'.pc = "caches" /\ import'.first_init = import.first_init /\ import'.mode = import.mode
        /\ UNCHANGED <<module_fully_initialized, settings>> /\ up' = up \union {"errors"}
    BY <1>1, <1>11, <2>1 DEF pcre_error_init, Continue
  <2> QED
    BY <1>1, <1>4, <2>1, <2>2 DEF FirstImport, UpBefore, Steps
<1>12. CASE cache_initialize
  <2>1. import # NoImport /\ import.pc = "caches" /\ FirstImport
    BY <1>1, <1>2, <1>12 DEF cache_initialize, On, Steps
  <2>2. up = {"pattern cache", "memory", "errors"}
    BY <2>1 DEF FirstImport, UpBefore
  <2>3. settings' = [settings EXCEPT !.strategy = import.mode]
    BY <1>12, <2>2 DEF cache_initialize
  <2>4. /\ import'.pc = "objects" /\ import'.first_init = import.first_init /\ import'.mode = import.mode
        /\ UNCHANGED module_fully_initialized /\ up' = Subsystems
        /\ settings'.patterns = settings.patterns /\ settings'.strategy = import.mode
    BY <1>1, <1>3, <1>12, <2>1, <2>2, <2>3 DEF cache_initialize, Continue, Settings
  <2> QED
    BY <1>4, <2>1, <2>2, <2>4 DEF FirstImport, UpBefore, Steps
<1>13. CASE Objects
  <2>1. import # NoImport /\ import.pc = "objects" /\ FirstImport
    BY <1>1, <1>2, <1>13 DEF Objects, On, Steps
  <2>2. up = Subsystems /\ settings.patterns = settings.strategy
    BY <1>3, <2>1 DEF FirstImport, UpBefore
  <2>3. UNCHANGED <<settings, up>> /\ first' = settings /\ module_fully_initialized' = TRUE /\ import' = NoImport
    BY <1>1, <1>13, <2>1 DEF Objects
  <2> QED
    BY <2>2, <2>3
<1>14. CASE Fail
  <2>1. import # NoImport /\ FirstInit /\ FirstImport /\ import' = NoImport /\ UNCHANGED module_fully_initialized
    BY <1>1, <1>14 DEF Fail
  <2>2. import.pc \in {"jit support", "pattern cache", "types", "errors", "caches", "objects"}
    BY <1>14, <2>1 DEF Fail
  <2> DEFINE down == TakenDown(import.pc)
  <2>3. up' = up \ down /\ settings' = Reset(settings, down)
    BY <1>14, <2>1 DEF Fail
  <2>4. /\ settings'.serial = FALSE
        /\ settings'.patterns = IF "pattern cache" \in down THEN "thread" ELSE settings.patterns
        /\ settings'.strategy = IF "caches" \in down THEN "thread" ELSE settings.strategy
    <3> HIDE DEF down
    <3> QED
      BY <1>3, <2>3 DEF Reset, Settings
  <2>5. NothingLeft'
    BY <2>1, <2>2, <2>3, <2>4 DEF NothingLeft, FirstImport, UpBefore, TakenDown
  <2> QED
    BY <2>1, <2>5
<1> QED
  BY <1>5, <1>6, <1>7, <1>8, <1>9, <1>10, <1>11, <1>12, <1>13, <1>14 DEF RuntimeNext

LEMMA StepRuntimeInv == RuntimeInv /\ [RuntimeNext]_runtimeVars => RuntimeInv'
<1> SUFFICES ASSUME RuntimeInv, [RuntimeNext]_runtimeVars PROVE RuntimeInv'
  OBVIOUS
<1>1. RuntimeTypes'
  BY StepTypes DEF RuntimeInv
<1>2. CASE UNCHANGED runtimeVars
  BY <1>2 DEF runtimeVars, RuntimeInv, RuntimeTypes, FirstImport, NothingLeft
<1>3. CASE RuntimeNext /\ ~module_fully_initialized
  BY <1>1, <1>3, FirstImportKeeps
<1>4. CASE RuntimeNext /\ module_fully_initialized
  <2>1. UNCHANGED <<module_fully_initialized, settings, up>> /\ first' = first
    BY <1>4, LaterImportKeeps
  <2>2. import' # NoImport => import'.first_init = FALSE
    <3>1. import # NoImport => import.first_init = FALSE /\ import \in [pc : Steps, first_init : BOOLEAN, mode : Modes]
      BY <1>4 DEF RuntimeInv, RuntimeTypes
    <3>2. import.pc \in Steps => import # NoImport
      BY NoImportAtNoStep
    <3>3. ASSUME NEW i \in Interpreters, Import(i) PROVE import' = import \/ import'.first_init = FALSE
      <4>1. (~module_fully_initialized) = FALSE
        BY <1>4
      <4>2. CASE primary_interpreter \in {NoInterpreter, i}
        <5>1. import' = [pc |-> "jit support", first_init |-> ~module_fully_initialized, mode |-> "thread"]
          BY <3>3, <4>2 DEF Import
        <5>2. import'.first_init = ~module_fully_initialized
          BY <5>1
        <5> QED
          BY <4>1, <5>2
      <4>3. CASE primary_interpreter \notin {NoInterpreter, i}
        BY <3>3, <4>3 DEF Import
      <4> QED
        BY <4>2, <4>3
    <3>4. ASSUME On("jit support") \/ On("context cache") \/ On("pattern cache") \/ On("types")
                 \/ On("memory") \/ On("errors") \/ On("caches"),
                 NEW place, NEW mode,
                 import' = [import EXCEPT !.pc = place] \/ import' = [import EXCEPT !.pc = place, !.mode = mode]
          PROVE  import'.first_init = FALSE
      BY <3>1, <3>2, <3>4 DEF On, Steps
    <3>5. CASE Objects \/ Fail
      BY <3>5 DEF Objects, Fail
    <3>6. CASE PatternCache
      BY <3>4, <3>6 DEF PatternCache
    <3>7. CASE JitSupport \/ ContextCache \/ Types \/ Memory \/ pcre_error_init \/ cache_initialize
      BY <3>4, <3>7 DEF JitSupport, ContextCache, Types, Memory, pcre_error_init, cache_initialize, Continue
    <3> QED
      BY <1>4, <3>1, <3>3, <3>5, <3>6, <3>7 DEF RuntimeNext
  <2> QED
    BY <1>1, <1>4, <2>1, <2>2 DEF RuntimeInv
<1> QED
  BY <1>2, <1>3, <1>4 DEF RuntimeInv, RuntimeTypes

\* However many interpreters import the extension, however often, in whatever
\* environment and wherever it fails: once an import has succeeded every subsystem is
\* there with the settings of that import, and a failed first import leaves nothing
\* but the allocator (module_exec, pcre2.c:6331).
THEOREM ImportsKeepTheRuntimeWhole == RuntimeSpec => []RuntimeStaysWhole
<1>1. RuntimeInv => RuntimeStaysWhole
  <2> SUFFICES ASSUME RuntimeInv, ~module_fully_initialized, import = NoImport
               PROVE  [settings EXCEPT !.contexts = NotSet.contexts, !.allocator = NotSet.allocator] = NotSet
    BY DEF RuntimeInv, RuntimeStaysWhole, NothingLeft
  <2>1. settings \in Settings /\ settings.serial = FALSE /\ settings.patterns = "thread" /\ settings.strategy = "thread"
    BY DEF RuntimeInv, RuntimeTypes, NothingLeft, Settings
  <2> DEFINE s == [settings EXCEPT !.contexts = NotSet.contexts, !.allocator = NotSet.allocator]
  <2>2. s \in Settings /\ NotSet \in Settings
    BY <2>1 DEF Settings, NotSet, Modes
  <2>3. /\ s.serial = FALSE /\ s.contexts = TRUE /\ s.patterns = "thread"
        /\ s.strategy = "thread" /\ s.allocator = "none"
    BY <2>1 DEF Settings, NotSet
  <2> HIDE DEF s
  <2>4. /\ NotSet.serial = FALSE /\ NotSet.contexts = TRUE /\ NotSet.patterns = "thread"
        /\ NotSet.strategy = "thread" /\ NotSet.allocator = "none"
    BY DEF NotSet
  <2>5. s = NotSet
    BY <2>2, <2>3, <2>4 DEF Settings
  <2> QED
    BY <2>5 DEF s
<1> QED
  BY <1>1, InitRuntimeInv, StepRuntimeInv, PTL DEF RuntimeSpec

-----------------------------------------------------------------------------
(* Substitutions.                                                            *)

Shapes == {"GENERAL", "LITERAL", "SINGLE_REFERENCE"}

\* Where the part of the subject ends that the first k matches take up.
EndOf(c, k) == IF k = 0 THEN 0 ELSE c.matches[k].end

IsMatchList(c) ==
  /\ Len(c.matches) \in Nat /\ DOMAIN c.matches = 1..Len(c.matches)
  /\ \A k \in 1..Len(c.matches) :
       /\ c.matches[k].start \in Nat /\ c.matches[k].end \in Nat
       /\ EndOf(c, k - 1) <= c.matches[k].start /\ c.matches[k].start <= c.matches[k].end
       /\ c.matches[k].end <= c.subject

IsCall(c) ==
  /\ c.subject \in Nat /\ c.literal \in Nat /\ c.group \in 0..c.subject
  /\ c.count \in Int /\ c.shape \in Shapes
  /\ c.shape = "LITERAL" => c.group = 0
  /\ IsMatchList(c)

LEMMA CallsAre == \A c \in Calls : IsCall(c)
<1> SUFFICES ASSUME NEW c \in Calls PROVE IsCall(c)
  OBVIOUS
<1>1. PICK n \in SubjectLengths :
        c \in [subject : {n}, matches : MatchLists(n), group : {0, n}, literal : LiteralLengths,
               shape : Shapes, count : Counts]
  BY DEF Calls, Shapes
<1>2. /\ c.subject = n /\ c.matches \in MatchLists(n) /\ c.group \in {0, n}
      /\ c.literal \in LiteralLengths /\ c.shape \in Shapes /\ c.count \in Counts
  BY <1>1
<1>3. n \in Nat /\ c.literal \in Nat /\ c.count \in Int /\ c.group \in 0..n
  <2>1. n \in Nat /\ c.literal \in Nat /\ c.count \in Int
    <3> HIDE <1>1
    <3> QED
      BY <1>2, SubstitutionAssumption
  <2> QED
    BY <1>2, <2>1
<1>4. c.shape = "LITERAL" => c.group = 0
  BY DEF Calls
<1> DEFINE list == c.matches
           Ordered == {s \in Spans(n) : s.start <= s.end}
<1>5. list \in BoundedSeq(Ordered, MaxMatches)
      /\ \A i \in 1..Len(list) - 1 : InOrder(list[i], list[i + 1])
  BY <1>2 DEF MatchLists
<1>6. PICK m \in 0..MaxMatches : list \in [1..m -> Ordered]
  BY <1>5 DEF BoundedSeq, SeqOf
<1>7. m \in Nat
  BY SubstitutionAssumption
<1>8. list \in Seq(Ordered) /\ Len(list) = m
  BY <1>6, <1>7
<1>9. ASSUME NEW s \in Ordered
      PROVE  s.start \in Nat /\ s.end \in Nat /\ s.start <= s.end /\ s.end <= n
  BY <1>3 DEF Spans
<1>10. \A k \in 1..m : /\ list[k].start \in Nat /\ list[k].end \in Nat
                       /\ list[k].start <= list[k].end /\ list[k].end <= n
  <2> HIDE DEF Ordered, list
  <2>1. \A k \in 1..m : list[k] \in Ordered
    BY ONLY <1>6
  <2> QED
    BY <1>9, <2>1
<1>11. DOMAIN list = 1..m
  BY ONLY <1>6
<1>12. ASSUME NEW k \in 1..m PROVE EndOf(c, k - 1) <= list[k].start
  <2>1. CASE k = 1
    BY <1>10, <2>1 DEF EndOf
  <2>2. CASE k # 1
    <3>1. k - 1 \in 1..m - 1 /\ (k - 1) + 1 = k /\ k - 1 # 0
      BY <1>7, <2>2
    <3>2. InOrder(list[k - 1], list[k])
      <4> HIDE DEF list
      <4> QED
        BY <1>5, <1>8, <3>1
    <3> QED
      BY <3>1, <3>2 DEF EndOf, InOrder
  <2> QED
    BY <2>1, <2>2
<1>13. IsMatchList(c)
  <2>1. Len(list) = m /\ c.subject = n
    BY <1>2, <1>8
  <2> QED
    BY <1>7, <1>10, <1>11, <1>12, <2>1 DEF IsMatchList
<1> QED
  BY <1>2, <1>3, <1>4, <1>13 DEF IsCall

LEMMA CallNumbers ==
  ASSUME NEW c, IsCall(c)
  PROVE  /\ Len(c.matches) \in Nat /\ DOMAIN c.matches = 1..Len(c.matches)
         /\ c.subject \in Nat /\ Inserted(c) \in Nat
  BY DEF IsCall, IsMatchList, Inserted

\* The matches lie one after the other in the subject.
LEMMA EndsAre ==
  ASSUME NEW c, IsCall(c), NEW k \in 0..Len(c.matches)
  PROVE  EndOf(c, k) \in 0..c.subject
  BY DEF IsCall, IsMatchList, EndOf

LEMMA MatchesFollow ==
  ASSUME NEW c, IsCall(c), NEW k \in 1..Len(c.matches), NEW i \in 1..k - 1
  PROVE  c.matches[i].end <= c.matches[k].start
<1> DEFINE n == Len(c.matches)
           S == {m \in 0..n : \A j \in 1..m : c.matches[j].end <= EndOf(c, m)}
<1>1. n \in Nat /\ \A m \in 0..n : EndOf(c, m) \in Nat
  <2>1. n \in Nat /\ c.subject \in Nat
    BY CallNumbers
  <2>2. \A m \in 0..n : EndOf(c, m) \in 0..c.subject
    BY EndsAre
  <2> QED
    BY <2>1, <2>2
<1>2. 0 \in S
  BY <1>1
<1>3. ASSUME NEW m \in 0..n - 1, m \in S PROVE m + 1 \in S
  <2>1. m + 1 \in 1..n /\ (m + 1) - 1 = m /\ m \in 0..n
    BY <1>1
  <2>2. EndOf(c, m) <= EndOf(c, m + 1) /\ EndOf(c, m + 1) = c.matches[m + 1].end
    <3>1. /\ EndOf(c, m) <= c.matches[m + 1].start
          /\ c.matches[m + 1].start <= c.matches[m + 1].end
          /\ c.matches[m + 1].start \in Nat /\ c.matches[m + 1].end \in Nat
      BY <2>1 DEF IsCall, IsMatchList
    <3>2. EndOf(c, m + 1) = c.matches[m + 1].end
      BY <2>1 DEF EndOf
    <3> QED
      BY <1>1, <2>1, <3>1, <3>2
  <2>3. ASSUME NEW j \in 1..m + 1 PROVE c.matches[j].end <= EndOf(c, m + 1)
    <3>1. j = m + 1 \/ j \in 1..m
      BY <2>1
    <3>2. CASE j = m + 1
      BY <1>1, <2>1, <2>2, <3>2
    <3>3. CASE j \in 1..m
      <4>1. c.matches[j].end <= EndOf(c, m) /\ c.matches[j].end \in Nat
        BY <1>3, <2>1, <3>3 DEF IsCall, IsMatchList
      <4> QED
        BY <1>1, <2>1, <2>2, <4>1
    <3> QED
      BY <3>1, <3>2, <3>3
  <2> QED
    BY <2>1, <2>3
<1>4. 0..n \subseteq S
  <2> HIDE DEF S, n
  <2> QED
    BY <1>1, <1>2, <1>3, StepsUp
<1>5. k - 1 \in S /\ k - 1 \in 0..n
  <2> HIDE DEF S
  <2>1. k - 1 \in 0..n
    BY <1>1
  <2> QED
    BY <1>4, <2>1
<1>6. c.matches[i].end <= EndOf(c, k - 1) /\ EndOf(c, k - 1) \in Nat
  BY <1>1, <1>5
<1>7. EndOf(c, k - 1) <= c.matches[k].start /\ c.matches[k].start \in Nat /\ c.matches[i].end \in Nat
  BY <1>1 DEF IsCall, IsMatchList
<1> QED
  BY <1>6, <1>7

-----------------------------------------------------------------------------

\* What a match adds to the buffer: the units since the last one, and its text.
Added(c, k) == (c.matches[k].start - EndOf(c, k - 1)) + Inserted(c)

LEMMA WrittenIs ==
  ASSUME NEW c, IsCall(c), NEW i \in 0..Len(c.matches)
  PROVE  \E w \in [0..i -> Int] :
           w[0] = 0 /\ (\A k \in 1..i : w[k] = w[k - 1] + Added(c, k)) /\ Written(c, i) = w[i]
<1> DEFINE kept(k) == c.matches[k].start - (IF k = 1 THEN 0 ELSE c.matches[k - 1].end)
           Sums(f) == f = [k \in 0..i |-> IF k = 0 THEN 0 ELSE f[k - 1] + kept(k) + Inserted(c)]
           sum == CHOOSE f : Sums(f)
           step == [p \in (1..i) \X Int |-> p[2] + Added(c, p[1])]
<1>1. Inserted(c) \in Nat /\ \A k \in 1..i : kept(k) \in Int /\ Added(c, k) = kept(k) + Inserted(c)
  <2>1. Inserted(c) \in Nat
    BY DEF IsCall, Inserted
  <2>2. ASSUME NEW k \in 1..i
        PROVE  c.matches[k].start \in Nat /\ EndOf(c, k - 1) \in Nat
               /\ kept(k) = c.matches[k].start - EndOf(c, k - 1)
    <3>1. k \in 1..Len(c.matches) /\ k - 1 \in 0..Len(c.matches) /\ (k - 1 = 0 <=> k = 1)
          /\ c.subject \in Nat
      BY CallNumbers
    <3>2. c.matches[k].start \in Nat
      BY <3>1 DEF IsCall, IsMatchList
    <3>3. EndOf(c, k - 1) \in 0..c.subject
      BY <3>1, EndsAre
    <3>4. kept(k) = c.matches[k].start - EndOf(c, k - 1)
      BY Zenon, <3>1 DEF EndOf
    <3> QED
      BY <3>1, <3>2, <3>3, <3>4
  <2> HIDE DEF kept
  <2> QED
    BY <2>1, <2>2 DEF Added
<1> HIDE DEF kept
<1>2. i \in Nat /\ step \in [(1..i) \X Int -> Int]
  <2>1. \A k \in 1..i : Added(c, k) \in Int
    BY <1>1
  <2> QED
    BY <2>1 DEF IsCall, IsMatchList
<1>3. \A k \in 1..i, v \in Int : step[<<k, v>>] = v + Added(c, k)
  OBVIOUS
<1> HIDE DEF step
<1>4. PICK f \in [0..i -> Int] : IsUpward(f, i, 0, step)
  <2>1. 0 \in Int
    OBVIOUS
  <2> QED
    BY ONLY <1>2, <2>1, UpwardRecursion
<1>5. ASSUME NEW k \in 1..i PROVE f[k] = f[k - 1] + kept(k) + Inserted(c)
  <2>1. k - 1 \in 0..i /\ f[k - 1] \in Int /\ f[k] = step[<<k, f[k - 1]>>]
    BY <1>2, <1>4 DEF IsUpward
  <2>2. f[k] = f[k - 1] + Added(c, k)
    BY <1>3, <2>1
  <2> QED
    BY <1>1, <2>1, <2>2
<1>6. Sums(f)
  BY <1>4, <1>5 DEF IsUpward
<1>7. Sums(sum)
  <2> HIDE DEF Sums
  <2> QED
    BY <1>6
<1> HIDE DEF sum
<1>8. sum[0] = 0 /\ \A k \in 1..i : sum[k] = sum[k - 1] + kept(k) + Inserted(c)
  BY <1>2, <1>7
<1>9. sum \in [0..i -> Int]
  <2> DEFINE S == {k \in 0..i : sum[k] \in Int}
  <2>1. 0 \in S
    BY <1>2, <1>8
  <2>2. ASSUME NEW k \in 0..i - 1, k \in S PROVE k + 1 \in S
    <3>1. k + 1 \in 1..i /\ (k + 1) - 1 = k /\ sum[k] \in Int
      BY <1>2, <2>2
    <3>2. sum[k + 1] = sum[k] + kept(k + 1) + Inserted(c) /\ kept(k + 1) \in Int /\ Inserted(c) \in Int
      BY <1>1, <1>8, <3>1
    <3> QED
      BY <3>1, <3>2
  <2>3. 0..i \subseteq S
    <3> HIDE DEF S
    <3> QED
      BY <1>2, <2>1, <2>2, StepsUp
  <2>4. \A k \in 0..i : sum[k] \in Int
    BY <2>3
  <2>5. DOMAIN sum = 0..i /\ sum = [k \in 0..i |-> sum[k]]
    BY <1>7
  <2> QED
    BY ONLY <2>4, <2>5
<1>10. ASSUME NEW k \in 1..i PROVE sum[k] = sum[k - 1] + Added(c, k)
  <2>1. sum[k - 1] \in Int /\ sum[k] = sum[k - 1] + kept(k) + Inserted(c)
    BY <1>2, <1>8, <1>9
  <2> QED
    BY <1>1, <2>1
<1>11. Written(c, i) = sum[i]
  BY Zenon DEF Written, sum, kept
<1> QED
  BY <1>8, <1>9, <1>10, <1>11

\* It is no more than the subject up to there, and the text of every match.
LEMMA WrittenIsBounded ==
  ASSUME NEW c, IsCall(c), NEW i \in 0..Len(c.matches)
  PROVE  Written(c, i) \in Nat /\ Written(c, i) <= EndOf(c, i) + i * Inserted(c)
<1>1. PICK w \in [0..i -> Int] :
        w[0] = 0 /\ (\A k \in 1..i : w[k] = w[k - 1] + Added(c, k)) /\ Written(c, i) = w[i]
  BY WrittenIs
<1>2. i \in Nat /\ Inserted(c) \in Nat /\ \A k \in 0..i : EndOf(c, k) \in Nat
  <2>1. i \in Nat /\ Inserted(c) \in Nat /\ Len(c.matches) \in Nat /\ c.subject \in Nat
    BY CallNumbers
  <2>2. ASSUME NEW k \in 0..i PROVE EndOf(c, k) \in Nat
    <3>1. k \in 0..Len(c.matches)
      BY <2>1
    <3>2. EndOf(c, k) \in 0..c.subject
      BY <3>1, EndsAre
    <3> QED
      BY <2>1, <3>2
  <2> QED
    BY <2>1, <2>2
<1> DEFINE S == {k \in 0..i : w[k] \in Nat /\ w[k] <= EndOf(c, k) + k * Inserted(c)}
<1>3. 0 \in S
  BY <1>1, <1>2 DEF EndOf
<1>4. ASSUME NEW k \in 0..i - 1, k \in S PROVE k + 1 \in S
  <2>1. k + 1 \in 1..i /\ (k + 1) - 1 = k /\ k \in Nat
    BY <1>2
  <2>2. w[k + 1] = w[k] + Added(c, k + 1)
    BY <1>1, <2>1
  <2>3. w[k] \in Nat /\ w[k] <= EndOf(c, k) + k * Inserted(c)
    BY <1>4
  <2>4. /\ EndOf(c, k) <= c.matches[k + 1].start /\ c.matches[k + 1].start <= EndOf(c, k + 1)
        /\ c.matches[k + 1].start \in Nat
    <3>1. EndOf(c, k + 1) = c.matches[k + 1].end
      BY <2>1 DEF EndOf
    <3> DEFINE m == k + 1
    <3>2. m \in 1..Len(c.matches) /\ m - 1 = k
      BY <2>1 DEF IsCall, IsMatchList
    <3> HIDE DEF m
    <3>3. /\ EndOf(c, m - 1) <= c.matches[m].start
          /\ c.matches[m].start <= c.matches[m].end /\ c.matches[m].start \in Nat
      BY <3>2 DEF IsCall, IsMatchList
    <3> QED
      BY <3>1, <3>2, <3>3 DEF m
  <2>5. Added(c, k + 1) = (c.matches[k + 1].start - EndOf(c, k)) + Inserted(c)
    BY <2>1 DEF Added
  <2>6. EndOf(c, k) \in Nat /\ EndOf(c, k + 1) \in Nat
    BY <1>2, <2>1
  <2> DEFINE r == Inserted(c)
             below == k * r
             above == (k + 1) * r
  <2>7. above = below + r /\ below \in Nat /\ r \in Nat
    BY <1>2, <2>1
  <2> HIDE DEF S, r, below, above
  <2>8. w[k + 1] \in Nat /\ w[k + 1] <= EndOf(c, k + 1) + above
    <3>1. w[k] \in Nat /\ w[k] <= EndOf(c, k) + below
      BY <2>3 DEF below, r
    <3>2. Added(c, k + 1) = (c.matches[k + 1].start - EndOf(c, k)) + r
      BY <2>5 DEF r
    <3>3. \A p, e, a, z, b, d \in Nat : p <= e + b /\ e <= a /\ a <= z =>
            p + ((a - e) + d) \in Nat /\ p + ((a - e) + d) <= z + (b + d)
      OBVIOUS
    <3> DEFINE a == c.matches[k + 1].start
               e == EndOf(c, k)
               z == EndOf(c, k + 1)
    <3>4. a \in Nat /\ e \in Nat /\ z \in Nat /\ e <= a /\ a <= z /\ w[k] <= e + below
          /\ w[k + 1] = w[k] + ((a - e) + r)
      BY <2>2, <2>4, <2>6, <3>1, <3>2
    <3> HIDE DEF a, e, z
    <3>5. w[k + 1] \in Nat /\ w[k + 1] <= z + above
      BY ONLY <2>7, <3>1, <3>3, <3>4
    <3> QED
      BY <3>5 DEF z
  <2> QED
    BY <2>1, <2>8, <1>2 DEF S, above, r
<1>5. 0..i \subseteq S
  <2> HIDE DEF S
  <2> QED
    BY <1>2, <1>3, <1>4, StepsUp
<1>6. i \in S
  BY <1>2, <1>5
<1> QED
  BY <1>1, <1>6

LEMMA MaxOfTwo ==
  ASSUME NEW a \in Int, NEW b \in Int
  PROVE  Max({a, b}) \in {a, b} /\ Max({a, b}) >= a /\ Max({a, b}) >= b
<1> DEFINE IsMax(x) == x \in {a, b} /\ \A y \in {a, b} : x >= y
<1>1. Max({a, b}) = CHOOSE x \in {a, b} : \A y \in {a, b} : x >= y
  BY DEF Max
<1>2. \E x \in {a, b} : \A y \in {a, b} : x >= y
  <2>1. CASE a >= b
    BY <2>1
  <2>2. CASE ~(a >= b)
    BY <2>2
  <2> QED
    BY <2>1, <2>2
<1> QED
  BY <1>1, <1>2

\* The matches a call asks for are the first ones.
Asked(c) ==
  CASE c.count = 0 -> Len(c.matches)
    [] c.count < 0 -> 0
    [] OTHER       -> LowerOf(c.count, Len(c.matches))

LEMMA WantedAreFirst ==
  ASSUME NEW c, IsCall(c)
  PROVE  /\ Asked(c) \in 0..Len(c.matches)
         /\ Wanted(c) = 1..Asked(c)
         /\ Cardinality(Wanted(c)) = Asked(c)
<1>1. c.count \in Int /\ Len(c.matches) \in Nat /\ DOMAIN c.matches = 1..Len(c.matches)
  BY DEF IsCall, IsMatchList
<1>2. Asked(c) \in 0..Len(c.matches)
  BY <1>1 DEF Asked, LowerOf
<1>3. Wanted(c) = 1..Asked(c)
  <2>1. CASE c.count = 0
    BY <1>1, <2>1 DEF Asked, Wanted
  <2>2. CASE c.count < 0
    <3>1. Wanted(c) = {} /\ Asked(c) = 0
      BY <1>1, <2>2 DEF Asked, Wanted
    <3> QED
      BY <3>1
  <2>3. CASE c.count > 0
    <3>1. Wanted(c) = {i \in 1..Len(c.matches) : i <= c.count}
          /\ Asked(c) = LowerOf(c.count, Len(c.matches))
      BY <1>1, <2>3 DEF Asked, Wanted
    <3> QED
      BY <1>1, <2>3, <3>1 DEF LowerOf
  <2> QED
    BY <1>1, <2>1, <2>2, <2>3
<1>4. Cardinality(1..Asked(c)) = Asked(c)
  <2>1. 1 \in Int /\ Asked(c) \in Int /\ Asked(c) >= 0
    BY <1>1, <1>2
  <2>2. Cardinality(1..Asked(c)) = IF 1 > Asked(c) THEN 0 ELSE (Asked(c) - 1) + 1
    BY <2>1, FS_Interval
  <2> QED
    BY <2>1, <2>2
<1> QED
  BY <1>2, <1>3, <1>4

LEMMA AcceptedAreAsked ==
  ASSUME NEW c, IsCall(c), c.count >= 0
  PROVE  /\ Reached(c) \in 0..Len(c.matches)
         /\ Accepted(c) = Asked(c)
         /\ CountReturned(c) = Asked(c)
         /\ ~Stopped(c) => Reached(c) = Asked(c)
         /\ Stopped(c) => Bounded(c) /\ Asked(c) = c.count
         /\ Bounded(c) => Asked(c) <= c.count
<1> USE DEF Reached, Accepted, CountReturned, Asked, Stopped, Bounded, LowerOf,
            bounded_substitute_callout
<1>1. c.count \in Nat /\ Len(c.matches) \in Nat
  BY DEF IsCall, IsMatchList
<1>2. CASE c.count = 0
  BY <1>1, <1>2
<1>3. CASE c.count = 1
  BY <1>1, <1>3
<1>4. CASE c.count > 1 /\ Len(c.matches) <= c.count
  BY <1>1, <1>4
<1>5. CASE c.count > 1 /\ Len(c.matches) > c.count
  BY <1>1, <1>5
<1> QED
  BY <1>1, <1>2, <1>3, <1>4, <1>5

LEMMA TotalIsBounded ==
  ASSUME NEW c, IsCall(c), NEW a \in 0..Len(c.matches)
  PROVE  /\ Total(c, a) \in Nat \ {0}
         /\ Written(c, a) <= Total(c, a)
         /\ Total(c, a) <= c.subject + a * Inserted(c) + 1
<1>1. Total(c, a) = Written(c, a) + (c.subject - EndOf(c, a)) + 1
  BY Zenon DEF Total, EndOf
<1>2. Written(c, a) \in Nat /\ Written(c, a) <= EndOf(c, a) + a * Inserted(c)
  BY WrittenIsBounded
<1>3. EndOf(c, a) \in 0..c.subject /\ c.subject \in Nat
  BY EndsAre DEF IsCall
<1>4. a * Inserted(c) \in Int
  BY DEF IsCall, IsMatchList, Inserted
<1> DEFINE inserted == a * Inserted(c)
<1> HIDE DEF inserted
<1>5. /\ Written(c, a) <= EndOf(c, a) + inserted /\ inserted \in Int
  BY <1>2, <1>4 DEF inserted
<1>6. Total(c, a) <= c.subject + inserted + 1
  BY ONLY <1>1, <1>2, <1>3, <1>5
<1>7. Total(c, a) \in Nat \ {0} /\ Written(c, a) <= Total(c, a)
  BY ONLY <1>1, <1>2, <1>3
<1> QED
  BY <1>6, <1>7 DEF inserted

\* What the checks of the factors say of the products.
LEMMA FactorsAndProducts ==
  ASSUME NEW n \in 2..8, NEW s \in Nat, NEW r \in Nat, NEW limit \in Int
  PROVE  /\ r <= (limit - s - 16) \div n <=> (s + n * r) + 16 <= limit
         /\ s + n * r <= n * (s + r)
         /\ n * (s + r) \in Nat /\ n * r \in Nat /\ r <= n * r
         /\ (s + n * (s + r)) + 16 <= 16 * ((s + n * r) + 16)
<1>1. n = 2 \/ n = 3 \/ n = 4 \/ n = 5 \/ n = 6 \/ n = 7 \/ n = 8
  OBVIOUS
<1>2. CASE n = 2
  BY <1>2
<1>3. CASE n = 3
  BY <1>3
<1>4. CASE n = 4
  BY <1>4
<1>5. CASE n = 5
  BY <1>5
<1>6. CASE n = 6
  BY <1>6
<1>7. CASE n = 7
  BY <1>7
<1>8. CASE n = 8
  BY <1>8
<1> QED
  BY <1>1, <1>2, <1>3, <1>4, <1>5, <1>6, <1>7, <1>8

LEMMA ProductsGrow ==
  ASSUME NEW n \in 2..8, NEW a \in 0..n, NEW x \in Nat, NEW y \in Nat, x <= y
  PROVE  a * x <= n * y
<1>1. a * x \in Nat /\ n * y \in Nat /\ a * y \in Nat
  OBVIOUS
<1>2. a * x <= a * y
  OBVIOUS
<1>3. a * y <= n * y
  OBVIOUS
<1> QED
  BY ONLY <1>1, <1>2, <1>3

\* The sizes of a call whose factors have passed, or failed, the checks.
LEMMA SizesAre ==
  ASSUME NEW c, IsCall(c), ~NotTaken(c)
  PROVE  /\ InitialLength(c) \in Nat /\ c.count \in 0..8
         /\ Bounded(c) => /\ Ceiling(c) \in Nat /\ InitialLength(c) <= Ceiling(c)
                          /\ Ceiling(c) <= 16 * InitialLength(c)
         /\ SizesAllowed(c) <=>
              (IF Bounded(c) THEN Ceiling(c) ELSE InitialLength(c)) <= MaxSize
<1> DEFINE s == c.subject
           r == ReplacementLength(c)
<1>1. s \in Nat /\ r \in Nat /\ MaxSize \in Nat /\ Slack = 16
  BY SubstitutionAssumption DEF IsCall, ReplacementLength, References, ReferenceLength, Slack
<1>2. c.count \in 0..8
  BY DEF NotTaken, CountLimit, IsCall
<1>3. CASE ~Bounded(c)
  <2>1. InitialLength(c) = (s + 1 * r) + 16
    BY <1>1, <1>3 DEF InitialLength
  <2>2. SizesAllowed(c) <=> r <= MaxSize - 16 /\ s <= MaxSize - r - 16
    BY <1>1, <1>3 DEF SizesAllowed
  <2> HIDE DEF s, r
  <2> QED
    BY <1>1, <1>2, <1>3, <2>1, <2>2
<1>4. CASE Bounded(c)
  <2> DEFINE n == c.count
             p == n * r
             q == n * (s + r)
             room == (MaxSize - s - 16) \div n
  <2>1. n \in 2..8
    BY <1>2, <1>4 DEF Bounded
  <2>2. /\ r <= room <=> (s + p) + 16 <= MaxSize
        /\ s + p <= q /\ q \in Nat /\ p \in Nat /\ r <= p
        /\ (s + q) + 16 <= 16 * ((s + p) + 16)
    <3> HIDE DEF s, r, n
    <3> QED
      BY <1>1, <2>1, FactorsAndProducts
  <2>3. s + r <= room <=> (s + q) + 16 <= MaxSize
    <3> HIDE DEF s, r, n
    <3>1. s + r \in Nat
      BY <1>1
    <3> QED
      BY <1>1, <2>1, <3>1, FactorsAndProducts
  <2>4. InitialLength(c) = (s + p) + 16
    BY <1>1, <1>4 DEF InitialLength
  <2>5. Ceiling(c) = IF c.shape = "LITERAL" THEN InitialLength(c) ELSE (s + q) + 16
    BY <1>1 DEF Ceiling
  <2>6. SizesAllowed(c) <=>
          /\ r <= MaxSize - 16 /\ s <= MaxSize - r - 16
          /\ r <= room
          /\ c.shape # "LITERAL" => s <= MaxSize - r /\ s + r <= room
    BY <1>1, <1>4 DEF SizesAllowed
  <2> HIDE DEF p, q, room, s, r
  <2>7. /\ InitialLength(c) \in Nat /\ Ceiling(c) \in Nat /\ InitialLength(c) <= Ceiling(c)
        /\ Ceiling(c) <= 16 * InitialLength(c)
    BY <1>1, <2>2, <2>4, <2>5
  <2>8. SizesAllowed(c) <=> Ceiling(c) <= MaxSize
    <3>1. CASE c.shape = "LITERAL"
      BY ONLY <1>1, <2>2, <2>4, <2>5, <2>6, <3>1
    <3>2. CASE c.shape # "LITERAL"
      BY ONLY <1>1, <2>2, <2>3, <2>5, <2>6, <3>2
    <3> QED
      BY <3>1, <3>2
  <2> QED
    BY <1>2, <1>4, <2>7, <2>8
<1> QED
  BY <1>3, <1>4

\* The ceiling is enough for the matches asked for.
LEMMA CeilingIsEnough ==
  ASSUME NEW c, IsCall(c), ~NotTaken(c), Bounded(c), NEW a \in 0..Len(c.matches), a <= c.count
  PROVE  Total(c, a) <= Ceiling(c)
<1> DEFINE s == c.subject
           r == ReplacementLength(c)
           n == c.count
           d == Inserted(c)
<1>1. /\ s \in Nat /\ r \in Nat /\ d \in Nat /\ Slack = 16 /\ n \in 2..8 /\ a \in 0..n
      /\ d <= s + r /\ (c.shape = "LITERAL" => d <= r)
  <2>1. s \in Nat /\ c.literal \in Nat /\ c.group \in 0..s /\ (c.shape = "LITERAL" => c.group = 0)
        /\ a \in Nat /\ Slack = 16
    <3>1. a \in Nat
      BY CallNumbers
    <3> QED
      BY <3>1 DEF IsCall, Slack
  <2>2. n \in 2..8 /\ a \in 0..n
    <3>1. n \in 0..8 /\ n > 1
      BY SizesAre DEF Bounded
    <3> HIDE DEF n
    <3>2. n \in 2..8
      BY <3>1
    <3> QED
      BY <2>1, <3>2 DEF n
  <2>3. d = c.literal + c.group /\ (r = c.literal \/ r = c.literal + 4)
    BY <2>1 DEF ReplacementLength, References, ReferenceLength, Inserted
  <2> HIDE DEF s, r, n, d
  <2> QED
    BY ONLY <2>1, <2>2, <2>3
<1>2. Total(c, a) <= s + a * d + 1 /\ Total(c, a) \in Nat
  BY TotalIsBounded
<1>3. Ceiling(c) = IF c.shape = "LITERAL" THEN (s + n * r) + 16 ELSE (s + n * (s + r)) + 16
  BY <1>1 DEF Ceiling, InitialLength
<1> HIDE DEF s, r, n, d
<1>4. CASE c.shape = "LITERAL"
  <2>1. a * d <= n * r
    BY <1>1, <1>4, ProductsGrow
  <2> DEFINE x == a * d
             y == n * r
  <2>2. x <= y /\ x \in Int /\ y \in Int
    BY <1>1, <2>1
  <2>3. Total(c, a) <= s + x + 1 /\ Ceiling(c) = (s + y) + 16
    BY <1>2, <1>3, <1>4
  <2> HIDE DEF x, y
  <2> QED
    BY ONLY <1>1, <1>2, <2>2, <2>3
<1>5. CASE c.shape # "LITERAL"
  <2>1. a * d <= n * (s + r)
    <3>1. s + r \in Nat
      BY <1>1
    <3> QED
      BY <1>1, <3>1, ProductsGrow
  <2> DEFINE x == a * d
             y == n * (s + r)
  <2>2. x <= y /\ x \in Int /\ y \in Int
    BY <1>1, <2>1
  <2>3. Total(c, a) <= s + x + 1 /\ Ceiling(c) = (s + y) + 16
    BY <1>2, <1>3, <1>5
  <2> HIDE DEF x, y
  <2> QED
    BY ONLY <1>1, <1>2, <2>2, <2>3
<1> QED
  BY <1>4, <1>5

\* The powers of two up to the attempts there are.
Doubled(n) == CASE n = 0 -> 1 [] n = 1 -> 2 [] n = 2 -> 4 [] n = 3 -> 8 [] OTHER -> 16

\* While the match itself has not run out of memory the buffer has the length
\* that was asked for, or has been doubled as often as there were attempts; so a
\* bounded one is at its ceiling before the attempts are at theirs.
RoomSoFar(c) ==
  IF Bounded(c)
  THEN capacity <= Ceiling(c) /\ (capacity = Ceiling(c) \/ capacity >= Doubled(attempts) * InitialLength(c))
  ELSE attempts = 0 \/ capacity >= Needed(c)

SubstitutionTypes ==
  /\ call \in Calls
  /\ capacity \in Nat /\ attempts \in 0..MaxAttempts - 1 /\ failures \in Nat
  /\ status \in {"new", "running", "returned", "no memory", "refused", "not implemented"}

SubstitutionInv ==
  /\ SubstitutionTypes
  /\ status \in {"new", "not implemented"} => capacity = 0 /\ attempts = 0 /\ failures = 0
  /\ status = "running" =>
       /\ ~NotTaken(call) /\ SizesAllowed(call) /\ capacity >= InitialLength(call)
       /\ failures = 0 => RoomSoFar(call)
  /\ FailsOnlyWhenItMust

LEMMA InitSubstitutionInv == SubstitutionInit => SubstitutionInv
BY SubstitutionAssumption
   DEF SubstitutionInit, SubstitutionInv, SubstitutionTypes, FailsOnlyWhenItMust, MaxAttempts

LEMMA BeginStep ==
  ASSUME SubstitutionInv, Begin
  PROVE  SubstitutionInv'
<1>1. /\ call \in Calls /\ call' = call /\ attempts = 0 /\ failures = 0 /\ status = "new"
      /\ attempts' = 0 /\ failures' = 0 /\ IsCall(call)
  BY CallsAre DEF SubstitutionInv, SubstitutionTypes, Begin
<1>2. capacity' = IF status' = "running" THEN InitialLength(call) ELSE 0
  BY DEF Begin
<1>3. CASE NotTaken(call)
  <2>1. status' = "not implemented" /\ capacity' = 0
    BY <1>2, <1>3 DEF Begin
  <2> QED
    BY <1>1, <2>1, SubstitutionAssumption
       DEF SubstitutionInv, SubstitutionTypes, FailsOnlyWhenItMust, MaxAttempts
<1>4. CASE ~NotTaken(call) /\ ~SizesAllowed(call)
  <2>1. status' = "refused" /\ capacity' = 0
    BY <1>2, <1>4 DEF Begin
  <2>2. (IF Bounded(call) THEN Ceiling(call) ELSE InitialLength(call)) > MaxSize
    BY <1>1, <1>4, SizesAre, SubstitutionAssumption
  <2> QED
    BY <1>1, <2>1, <2>2, SubstitutionAssumption
       DEF SubstitutionInv, SubstitutionTypes, FailsOnlyWhenItMust, MaxAttempts
<1>5. CASE ~NotTaken(call) /\ SizesAllowed(call)
  <2>1. status' = "running" /\ capacity' = InitialLength(call)
    BY <1>2, <1>5 DEF Begin
  <2>2. /\ InitialLength(call) \in Nat /\ InitialLength(call) <= MaxSize
        /\ Bounded(call) => InitialLength(call) <= Ceiling(call)
    <3>1. /\ InitialLength(call) \in Nat /\ MaxSize \in Nat
          /\ Bounded(call) => Ceiling(call) \in Nat /\ InitialLength(call) <= Ceiling(call)
                              /\ Ceiling(call) <= MaxSize
          /\ ~Bounded(call) => InitialLength(call) <= MaxSize
      BY <1>1, <1>5, SizesAre, SubstitutionAssumption
    <3> QED
      BY <3>1
  <2>3. RoomSoFar(call)'
    <3>1. attempts' = 0 /\ Doubled(0) * InitialLength(call) = InitialLength(call)
      BY <1>1, <2>2 DEF Doubled
    <3> QED
      BY <1>1, <2>1, <2>2, <3>1 DEF RoomSoFar
  <2> QED
    BY <1>1, <1>5, <2>1, <2>2, <2>3
       DEF SubstitutionInv, SubstitutionTypes, FailsOnlyWhenItMust, MaxAttempts
<1> QED
  BY <1>3, <1>4, <1>5

\* What the next size is, and when there is none.
LEMMA NextSize ==
  ASSUME SubstitutionInv, status = "running", NEW outlen \in Nat, OutOfRoom(outlen)
  PROVE  /\ call' = call /\ call \in Calls /\ IsCall(call)
         /\ \/ status' = "no memory" /\ capacity' = capacity /\ attempts' = attempts
            \/ /\ status' = "running" /\ attempts' = attempts + 1 /\ attempts' < MaxAttempts
               /\ capacity' = Grown(call, capacity, outlen)
               /\ capacity' \in Nat /\ capacity' <= MaxSize /\ capacity' >= InitialLength(call)
<1>1. call' = call /\ call \in Calls /\ IsCall(call) /\ capacity \in Nat /\ attempts \in 0..4
  <2>1. call' = call
    BY DEF OutOfRoom
  <2>2. call \in Calls /\ capacity \in Nat /\ attempts \in 0..4
    BY DEF SubstitutionInv, SubstitutionTypes, MaxAttempts
  <2> QED
    BY <2>1, <2>2, CallsAre
<1>2. Grown(call, capacity, outlen) \in Nat /\ Grown(call, capacity, outlen) >= InitialLength(call)
  <2> DEFINE required == IF Bounded(call)
                         THEN IF capacity <= Ceiling(call) \div 2 THEN 2 * capacity ELSE Ceiling(call)
                         ELSE IF outlen = 0 THEN InitialLength(call) + call.subject
                         ELSE outlen
             least == InitialLength(call)
  <2>1. /\ least \in Nat /\ call.subject \in Nat
        /\ Bounded(call) => Ceiling(call) \in Nat
    BY <1>1, SizesAre DEF SubstitutionInv, IsCall
  <2>2. required \in Nat
    BY <1>1, <2>1
  <2>3. Grown(call, capacity, outlen) = Max({required, least})
    BY DEF Grown
  <2> HIDE DEF required, least
  <2>4. Max({required, least}) \in {required, least} /\ Max({required, least}) >= least
    <3>1. required \in Int /\ least \in Int
      BY <2>1, <2>2
    <3> QED
      BY ONLY <3>1, MaxOfTwo
  <2> QED
    BY <2>1, <2>2, <2>3, <2>4 DEF least
<1>3. CASE \/ Bounded(call) /\ capacity >= Ceiling(call)
           \/ Grown(call, capacity, outlen) > MaxSize
           \/ attempts + 1 = MaxAttempts
  BY <1>1, <1>3 DEF OutOfRoom
<1>4. CASE ~ (\/ Bounded(call) /\ capacity >= Ceiling(call)
              \/ Grown(call, capacity, outlen) > MaxSize
              \/ attempts + 1 = MaxAttempts)
  <2>1. /\ status' = "running" /\ attempts' = attempts + 1
        /\ capacity' = Grown(call, capacity, outlen)
    BY <1>4 DEF OutOfRoom
  <2> QED
    BY <1>1, <1>2, <1>4, <2>1, SubstitutionAssumption DEF MaxAttempts
<1> QED
  BY <1>3, <1>4

\* A match that runs out of memory leaves no more to say than the sizes.
LEMMA MatchFailsStep ==
  ASSUME SubstitutionInv, MatchFails
  PROVE  SubstitutionInv'
<1>1. status = "running" /\ failures' = failures + 1 /\ OutOfRoom(0) /\ failures \in Nat
      /\ attempts \in 0..4 /\ capacity \in Nat /\ capacity <= MaxSize
      /\ ~NotTaken(call) /\ SizesAllowed(call)
  BY DEF MatchFails, SubstitutionInv, SubstitutionTypes, FailsOnlyWhenItMust, MaxAttempts
<1>2. /\ call' = call /\ call \in Calls
      /\ \/ status' = "no memory" /\ capacity' = capacity /\ attempts' = attempts
         \/ /\ status' = "running" /\ attempts' = attempts + 1 /\ attempts' < MaxAttempts
            /\ capacity' \in Nat /\ capacity' <= MaxSize /\ capacity' >= InitialLength(call)
  BY <1>1, NextSize
<1>3. failures' \in Nat /\ failures' > 0
  BY <1>1
<1>4. CASE status' = "no memory" /\ capacity' = capacity /\ attempts' = attempts
  BY <1>1, <1>2, <1>3, <1>4
     DEF SubstitutionInv, SubstitutionTypes, FailsOnlyWhenItMust, MaxAttempts
<1>5. CASE /\ status' = "running" /\ attempts' = attempts + 1 /\ attempts' < MaxAttempts
           /\ capacity' \in Nat /\ capacity' <= MaxSize /\ capacity' >= InitialLength(call)
  BY <1>1, <1>2, <1>3, <1>5
     DEF SubstitutionInv, SubstitutionTypes, FailsOnlyWhenItMust, MaxAttempts
<1> QED
  BY <1>2, <1>4, <1>5

\* What a call that is not cut short needs is the length of its output.
LEMMA NeededIs ==
  ASSUME NEW c, IsCall(c), c.count >= 0
  PROVE  /\ Needed(c) \in Nat \ {0}
         /\ ~Stopped(c) => Needed(c) = Total(c, Asked(c))
<1>1. /\ Reached(c) \in 0..Len(c.matches) /\ Asked(c) \in 0..Len(c.matches)
      /\ Accepted(c) = Asked(c)
      /\ ~Stopped(c) => Reached(c) = Asked(c)
  BY AcceptedAreAsked, WantedAreFirst
<1> DEFINE w == Written(c, Reached(c))
           z == Total(c, Asked(c))
<1>2. w \in Nat /\ z \in Nat \ {0} /\ (~Stopped(c) => w <= z)
  BY <1>1, WrittenIsBounded, TotalIsBounded
<1>3. Needed(c) = Max({w, z})
  BY <1>1 DEF Needed
<1> HIDE DEF w, z
<1>4. Max({w, z}) \in {w, z} /\ Max({w, z}) >= w /\ Max({w, z}) >= z
  <2>1. w \in Int /\ z \in Int
    BY <1>2
  <2> QED
    BY ONLY <2>1, MaxOfTwo
<1>5. Needed(c) \in Nat \ {0} /\ (~Stopped(c) => Needed(c) = z)
  BY ONLY <1>2, <1>3, <1>4
<1> QED
  BY <1>5 DEF z

\* A buffer at its ceiling is too small only for what is taken out again.
LEMMA AtTheCeiling ==
  ASSUME NEW c, IsCall(c), ~NotTaken(c), Bounded(c), NEW size \in Nat, size >= Ceiling(c),
         Needed(c) > size
  PROVE  Stopped(c) /\ Total(c, c.count) <= Ceiling(c)
<1>1. /\ c.count \in 0..8 /\ Ceiling(c) \in Nat
      /\ Asked(c) \in 0..Len(c.matches) /\ Asked(c) <= c.count
      /\ Stopped(c) => Asked(c) = c.count
      /\ Needed(c) \in Nat /\ (~Stopped(c) => Needed(c) = Total(c, Asked(c)))
  <2>1. c.count \in 0..8 /\ Ceiling(c) \in Nat
    BY SizesAre
  <2>2. c.count >= 0
    BY <2>1
  <2>3. /\ Asked(c) \in 0..Len(c.matches) /\ Asked(c) <= c.count
        /\ Stopped(c) => Asked(c) = c.count
    BY <2>2, WantedAreFirst, AcceptedAreAsked
  <2>4. Needed(c) \in Nat /\ (~Stopped(c) => Needed(c) = Total(c, Asked(c)))
    BY <2>2, NeededIs
  <2> QED
    BY <2>1, <2>3, <2>4
<1>2. Total(c, Asked(c)) <= Ceiling(c) /\ Total(c, Asked(c)) \in Nat
  BY <1>1, CeilingIsEnough, TotalIsBounded
<1>3. Stopped(c)
  <2> SUFFICES ASSUME ~Stopped(c) PROVE FALSE
    OBVIOUS
  <2>1. Needed(c) = Total(c, Asked(c))
    BY <1>1
  <2> QED
    BY <1>1, <1>2, <2>1
<1> QED
  BY <1>1, <1>2, <1>3

\* A buffer that was too small and could be made larger.
LEMMA TooSmallGoesOn ==
  ASSUME SubstitutionInv, TooSmall, status' = "running", failures = 0,
         capacity' = Grown(call, capacity, Needed(call)), attempts' = attempts + 1,
         attempts' < MaxAttempts, call' = call
  PROVE  RoomSoFar(call)'
<1> DEFINE c == call
           least == InitialLength(c)
<1>1. /\ IsCall(c) /\ ~NotTaken(c) /\ RoomSoFar(c) /\ Needed(c) > capacity
      /\ capacity \in Nat /\ attempts \in 0..4 /\ capacity >= least
  BY CallsAre DEF TooSmall, SubstitutionInv, SubstitutionTypes, MaxAttempts
<1>2. /\ least \in Nat /\ c.count >= 0
      /\ Bounded(c) => Ceiling(c) \in Nat /\ least <= Ceiling(c) /\ Ceiling(c) <= 16 * least
  BY <1>1, SizesAre
<1>3. Needed(c) \in Nat \ {0}
  BY <1>1, <1>2, NeededIs
<1>4. CASE ~Bounded(c)
  <2>1. Grown(c, capacity, Needed(c)) = Max({Needed(c), least})
    BY <1>3, <1>4 DEF Grown
  <2>2. Max({Needed(c), least}) >= Needed(c)
    <3>1. Needed(c) \in Int /\ least \in Int
      BY <1>2, <1>3
    <3> HIDE DEF least, c
    <3> QED
      BY ONLY <3>1, MaxOfTwo
  <2> QED
    BY <1>4, <2>1, <2>2 DEF RoomSoFar
<1>5. CASE Bounded(c)
  <2> DEFINE top == Ceiling(c)
             required == IF capacity <= top \div 2 THEN 2 * capacity ELSE top
  <2>1. Grown(c, capacity, Needed(c)) = Max({required, least})
    BY <1>5 DEF Grown
  <2>2. top \in Nat /\ least <= top /\ capacity >= least
    BY <1>1, <1>2, <1>5
  <2>3. required \in Nat /\ required <= top /\ required >= least
    <3> HIDE DEF top, least, c
    <3> QED
      BY <1>1, <1>2, <2>2
  <2>4. Max({required, least}) = required
    <3> HIDE DEF required, top, least, c
    <3>1. required \in Int /\ least \in Int
      BY <1>2, <2>3
    <3>2. Max({required, least}) \in {required, least} /\ Max({required, least}) >= required
      BY ONLY <3>1, MaxOfTwo
    <3> QED
      BY <2>3, <3>1, <3>2
  <2>5. capacity' = required
    BY <2>1, <2>4
  <2>6. capacity = top \/ capacity >= Doubled(attempts) * least
    BY <1>1, <1>5 DEF RoomSoFar
  <2>7. capacity' = top \/ capacity' >= Doubled(attempts') * least
    <3> HIDE DEF least, c
    <3>1. CASE capacity <= top \div 2
      <4> HIDE DEF top
      <4>1. capacity' = 2 * capacity
        BY <2>5, <3>1
      <4>2. CASE capacity = top
        <5>1. capacity = 0 /\ top = 0
          BY <1>1, <2>2, <3>1, <4>2
        <5> QED
          BY <4>1, <5>1
      <4>3. CASE capacity >= Doubled(attempts) * least
        <5>1. attempts \in 0..3
          BY <1>1 DEF MaxAttempts
        <5>2. Doubled(attempts) \in Nat /\ Doubled(attempts + 1) = 2 * Doubled(attempts)
          BY <5>1 DEF Doubled
        <5> DEFINE power == Doubled(attempts)
        <5>3. power \in Nat /\ capacity >= power * least /\ Doubled(attempts') = 2 * power
          BY <4>3, <5>2
        <5> HIDE DEF power
        <5>4. (2 * power) * least = 2 * (power * least) /\ power * least \in Nat
          BY <1>2, <5>3
        <5> QED
          BY <1>1, <4>1, <5>3, <5>4
      <4> QED
        BY <2>6, <4>2, <4>3
    <3>2. CASE ~(capacity <= top \div 2)
      BY <2>5, <3>2
    <3> QED
      BY <3>1, <3>2
  <2>8. RoomSoFar(c)' = (capacity' <= top /\ (capacity' = top \/ capacity' >= Doubled(attempts') * least))
    BY <1>5 DEF RoomSoFar
  <2> QED
    BY <2>3, <2>5, <2>7, <2>8
<1> QED
  BY <1>4, <1>5

LEMMA TooSmallStep ==
  ASSUME SubstitutionInv, TooSmall
  PROVE  SubstitutionInv'
<1> DEFINE c == call
<1>1. /\ status = "running" /\ Needed(c) > capacity /\ OutOfRoom(Needed(c)) /\ failures' = failures
      /\ failures \in Nat /\ attempts \in 0..4 /\ capacity \in Nat /\ capacity <= MaxSize
      /\ ~NotTaken(c) /\ SizesAllowed(c) /\ (failures = 0 => RoomSoFar(c)) /\ IsCall(c)
      /\ capacity >= InitialLength(c)
  BY CallsAre
     DEF TooSmall, SubstitutionInv, SubstitutionTypes, FailsOnlyWhenItMust, MaxAttempts
<1>2. InitialLength(c) \in Nat /\ c.count \in 0..8 /\ (Bounded(c) => Ceiling(c) \in Nat)
      /\ (Bounded(c) => Ceiling(c) <= MaxSize) /\ (Bounded(c) => InitialLength(c) <= Ceiling(c))
      /\ (~Bounded(c) => InitialLength(c) <= MaxSize)
      /\ (Bounded(c) => Ceiling(c) <= 16 * InitialLength(c))
  BY <1>1, SizesAre
<1>3. Needed(c) \in Nat \ {0} /\ (~Stopped(c) => Needed(c) = Total(c, Asked(c)))
  BY <1>1, <1>2, NeededIs
<1>4. /\ call' = c /\ c \in Calls
      /\ \/ status' = "no memory" /\ capacity' = capacity /\ attempts' = attempts
         \/ /\ status' = "running" /\ attempts' = attempts + 1 /\ attempts' < MaxAttempts
            /\ capacity' = Grown(c, capacity, Needed(c))
            /\ capacity' \in Nat /\ capacity' <= MaxSize /\ capacity' >= InitialLength(c)
  BY <1>1, <1>3, NextSize
<1>5. CASE /\ status' = "running" /\ attempts' = attempts + 1 /\ attempts' < MaxAttempts
           /\ capacity' = Grown(c, capacity, Needed(c))
           /\ capacity' \in Nat /\ capacity' <= MaxSize /\ capacity' >= InitialLength(c)
  <2>1. failures = 0 => RoomSoFar(call)'
    BY <1>1, <1>4, <1>5, TooSmallGoesOn
  <2> QED
    BY <1>1, <1>4, <1>5, <2>1
       DEF SubstitutionInv, SubstitutionTypes, FailsOnlyWhenItMust, MaxAttempts
<1>6. CASE status' = "no memory" /\ capacity' = capacity /\ attempts' = attempts
  <2>1. ASSUME failures = 0
        PROVE  \/ Total(c, Cardinality(Wanted(c))) > MaxSize
               \/ Stopped(c) /\ capacity = Ceiling(c) /\ Total(c, c.count) <= capacity
    <3>1. \/ Bounded(c) /\ capacity >= Ceiling(c)
          \/ Grown(c, capacity, Needed(c)) > MaxSize
          \/ attempts + 1 = MaxAttempts
      BY <1>1, <1>6 DEF OutOfRoom
    <3>2. RoomSoFar(c)
      BY <1>1, <2>1
    <3>3. CASE Bounded(c) /\ capacity >= Ceiling(c)
      <4>1. capacity = Ceiling(c)
        BY <1>1, <1>2, <3>2, <3>3 DEF RoomSoFar
      <4>2. Stopped(c) /\ Total(c, c.count) <= Ceiling(c)
        BY <1>1, <3>3, AtTheCeiling
      <4> QED
        BY <4>1, <4>2
    <3>4. CASE Bounded(c) /\ ~ (capacity >= Ceiling(c))
      <4> DEFINE top == Ceiling(c)
                 least == InitialLength(c)
                 required == IF capacity <= top \div 2 THEN 2 * capacity ELSE top
      <4>1. Grown(c, capacity, Needed(c)) = Max({required, least})
        BY <3>4 DEF Grown
      <4>2. required \in Nat /\ required <= top
        BY <1>1, <1>2, <3>4
      <4>3. Max({required, least}) \in {required, least}
        <5>1. required \in Int /\ least \in Int
          BY <1>2, <4>2
        <5> HIDE DEF required, least
        <5> QED
          BY ONLY <5>1, MaxOfTwo
      <4>4. ~ (Grown(c, capacity, Needed(c)) > MaxSize)
        <5>1. least \in Nat /\ least <= MaxSize /\ top \in Nat /\ top <= MaxSize
              /\ MaxSize \in Nat
          BY <1>2, <3>4, SubstitutionAssumption
        <5> HIDE DEF required, least, top, c
        <5> QED
          BY ONLY <4>1, <4>2, <4>3, <5>1
      <4>5. attempts = 4
        BY <1>1, <3>1, <3>4, <4>4 DEF MaxAttempts
      <4>6. capacity >= 16 * least
        BY <1>1, <1>2, <3>2, <3>4, <4>5 DEF RoomSoFar, Doubled
      <4> QED
        BY <1>1, <1>2, <3>4, <4>6
    <3>5. CASE ~Bounded(c)
      <4>1. attempts = 0
        BY <1>1, <1>3, <3>2, <3>5 DEF RoomSoFar
      <4>2. Grown(c, capacity, Needed(c)) > MaxSize
        BY <3>1, <3>5, <4>1 DEF MaxAttempts
      <4>3. Grown(c, capacity, Needed(c)) = Max({Needed(c), InitialLength(c)})
        BY <1>3, <3>5 DEF Grown
      <4>4. Max({Needed(c), InitialLength(c)}) \in {Needed(c), InitialLength(c)}
        <5> DEFINE needed == Needed(c)
                   least == InitialLength(c)
        <5>1. needed \in Int /\ least \in Int
          BY <1>2, <1>3
        <5> HIDE DEF needed, least
        <5>2. Max({needed, least}) \in {needed, least}
          BY ONLY <5>1, MaxOfTwo
        <5> QED
          BY <5>2 DEF needed, least
      <4>5. Needed(c) > MaxSize
        BY <1>2, <3>5, <4>2, <4>3, <4>4, SubstitutionAssumption
      <4>6. ~Stopped(c) /\ Cardinality(Wanted(c)) = Asked(c)
        BY <1>1, <3>5, WantedAreFirst DEF Stopped
      <4> QED
        BY <1>3, <4>5, <4>6
    <3> QED
      BY <3>3, <3>4, <3>5
  <2>2. failures = 0 \/ failures > 0
    BY <1>1
  <2> QED
    BY <1>1, <1>4, <1>6, <2>1, <2>2
       DEF SubstitutionInv, SubstitutionTypes, FailsOnlyWhenItMust, MaxAttempts
<1> QED
  BY <1>4, <1>5, <1>6

LEMMA StepSubstitutionInv == SubstitutionInv /\ [SubstitutionNext]_subVars => SubstitutionInv'
<1> SUFFICES ASSUME SubstitutionInv, [SubstitutionNext]_subVars PROVE SubstitutionInv'
  OBVIOUS
<1>1. CASE Begin
  BY <1>1, BeginStep
<1>2. CASE TooSmall
  BY <1>2, TooSmallStep
<1>3. CASE MatchFails
  BY <1>3, MatchFailsStep
<1>4. CASE Substitute
  BY <1>4 DEF Substitute, SubstitutionInv, SubstitutionTypes, FailsOnlyWhenItMust
<1>5. CASE subn
  BY <1>5 DEF subn, SubstitutionInv, SubstitutionTypes, FailsOnlyWhenItMust
<1>6. CASE UNCHANGED subVars
  BY <1>6 DEF subVars, SubstitutionInv, SubstitutionTypes, FailsOnlyWhenItMust, RoomSoFar
<1> QED
  BY <1>1, <1>2, <1>3, <1>4, <1>5, <1>6 DEF SubstitutionNext

\* A substitution fails for want of memory only when the match itself ran out of
\* it, when the output is too long for any buffer, or when a bounded one is cut
\* short at its ceiling; and no buffer is longer than a size can be: the retries
\* and the ceiling of Pattern_substitute, for every subject, replacement, list of
\* matches and count.
THEOREM SubstitutionsFailOnlyWhenTheyMust == SubstitutionSpec => []FailsOnlyWhenItMust
<1>1. SubstitutionInv => FailsOnlyWhenItMust
  BY DEF SubstitutionInv
<1> QED
  BY InitSubstitutionInv, StepSubstitutionInv, <1>1, PTL DEF SubstitutionSpec

-----------------------------------------------------------------------------

\* x is in the output before y: a unit of the subject, or -i for the match i.
Before(c, x, y) ==
  \/ x > 0 /\ y > 0 /\ x < y
  \/ x > 0 /\ y < 0 /\ x <= c.matches[-y].start
  \/ x < 0 /\ y > 0 /\ c.matches[-x].start < y
  \/ x < 0 /\ y < 0 /\ y < x

IsOrdered(c, s) == \A i, j \in 1..Len(s) : i < j => Before(c, s[i], s[j])

\* What is there of the first n units when the first k matches are replaced.
KeptUnits(c, k, n) == {u \in 1..n : \A i \in 1..k : u <= c.matches[i].start \/ u > c.matches[i].end}
PutIn(k) == {-i : i \in 1..k}

IsOutput(c, k, n, s) ==
  /\ s \in Seq(Int)
  /\ Range(s) = KeptUnits(c, k, n) \union PutIn(k)
  /\ IsOrdered(c, s)

LEMMA OrderedJoined ==
  ASSUME NEW c, NEW s \in Seq(Int), NEW t \in Seq(Int), IsOrdered(c, s), IsOrdered(c, t),
         \A x \in Range(s), y \in Range(t) : Before(c, x, y)
  PROVE  s \o t \in Seq(Int) /\ Range(s \o t) = Range(s) \union Range(t) /\ IsOrdered(c, s \o t)
<1> DEFINE r == s \o t
<1>1. /\ r \in Seq(Int) /\ Len(r) = Len(s) + Len(t)
      /\ \A i \in 1..Len(s) + Len(t) : r[i] = IF i <= Len(s) THEN s[i] ELSE t[i - Len(s)]
  BY ConcatProperties
<1>2. /\ Len(s) \in Nat /\ DOMAIN s = 1..Len(s) /\ Len(t) \in Nat /\ DOMAIN t = 1..Len(t)
      /\ Len(r) \in Nat /\ DOMAIN r = 1..Len(r)
  <2> HIDE DEF r
  <2> QED
    BY <1>1, LenProperties
<1> HIDE DEF r
<1>3. \A i \in 1..Len(s) : i \in 1..Len(r) /\ r[i] = s[i]
  BY <1>1, <1>2
<1>4. \A i \in 1..Len(t) : i + Len(s) \in 1..Len(r) /\ r[i + Len(s)] = t[i]
  <2> TAKE i \in 1..Len(t)
  <2>1. i + Len(s) \in 1..Len(s) + Len(t) /\ ~ (i + Len(s) <= Len(s)) /\ (i + Len(s)) - Len(s) = i
    BY <1>2
  <2> QED
    BY <1>1, <2>1
<1>5. ASSUME NEW i \in 1..Len(r)
      PROVE  i \in 1..Len(s) \/ (i - Len(s) \in 1..Len(t) /\ r[i] = t[i - Len(s)])
  <2>1. CASE i <= Len(s)
    BY <1>2, <2>1
  <2>2. CASE ~ (i <= Len(s))
    <3>1. i \in 1..Len(s) + Len(t)
      BY <1>1
    <3>2. i - Len(s) \in 1..Len(t)
      BY <1>2, <2>2, <3>1
    <3>3. r[i] = t[i - Len(s)]
      BY <1>1, <2>2, <3>1
    <3> QED
      BY <3>2, <3>3
  <2> QED
    BY <2>1, <2>2
<1>6. Range(r) = Range(s) \union Range(t)
  <2>1. ASSUME NEW x \in Range(r) PROVE x \in Range(s) \union Range(t)
    <3>1. PICK i \in 1..Len(r) : r[i] = x
      BY <1>2 DEF Range
    <3> QED
      BY <1>2, <1>3, <1>5, <3>1 DEF Range
  <2>2. ASSUME NEW x \in Range(s) PROVE x \in Range(r)
    BY <1>2, <1>3 DEF Range
  <2>3. ASSUME NEW x \in Range(t) PROVE x \in Range(r)
    <3>1. PICK i \in 1..Len(t) : t[i] = x
      BY <1>2 DEF Range
    <3> QED
      BY <1>2, <1>4, <3>1 DEF Range
  <2> QED
    BY <2>1, <2>2, <2>3
<1>7. ASSUME NEW i \in 1..Len(r), NEW j \in 1..Len(r), i < j PROVE Before(c, r[i], r[j])
  <2>1. CASE j \in 1..Len(s)
    <3>1. i \in 1..Len(s)
      BY <1>2, <1>7, <2>1
    <3> QED
      BY <1>3, <1>7, <2>1, <3>1 DEF IsOrdered
  <2>2. CASE i \in 1..Len(s) /\ j \notin 1..Len(s)
    <3>1. j - Len(s) \in 1..Len(t) /\ r[j] = t[j - Len(s)]
      BY <1>5, <2>2
    <3>2. r[i] \in Range(s) /\ r[j] \in Range(t)
      BY <1>2, <1>3, <2>2, <3>1 DEF Range
    <3> QED
      BY <3>2
  <2>3. CASE i \notin 1..Len(s) /\ j \notin 1..Len(s)
    <3> DEFINE p == i - Len(s)
               q == j - Len(s)
    <3>1. p \in 1..Len(t) /\ q \in 1..Len(t) /\ r[i] = t[p] /\ r[j] = t[q]
      BY <1>5, <2>3
    <3>2. p < q
      BY <1>2, <1>7
    <3> HIDE DEF p, q
    <3> QED
      BY <3>1, <3>2 DEF IsOrdered
  <2> QED
    BY <2>1, <2>2, <2>3
<1>8. IsOrdered(c, r)
  BY <1>7 DEF IsOrdered
<1> QED
  BY <1>1, <1>6, <1>8 DEF r

\* The units of the subject from one place to another.
Units(a, b) == [k \in 1..(b - a) |-> a + k]

LEMMA UnitsAre ==
  ASSUME NEW c, NEW a \in Nat, NEW b \in Nat, a <= b
  PROVE  Units(a, b) \in Seq(Int) /\ Range(Units(a, b)) = (a + 1)..b /\ IsOrdered(c, Units(a, b))
<1> DEFINE s == Units(a, b)
           n == b - a
<1>1. n \in Nat /\ s = [k \in 1..n |-> a + k]
  BY DEF Units
<1> HIDE DEF s, n
<1>2. s \in Seq(Int) /\ Len(s) = n /\ DOMAIN s = 1..n /\ \A k \in 1..n : s[k] = a + k
  BY <1>1
<1>3. Range(s) = (a + 1)..b
  <2>1. ASSUME NEW x \in Range(s) PROVE x \in (a + 1)..b
    BY <1>1, <1>2 DEF Range, n
  <2>2. ASSUME NEW x \in (a + 1)..b PROVE x \in Range(s)
    <3>1. x - a \in 1..n /\ a + (x - a) = x
      BY DEF n
    <3> QED
      BY <1>2, <3>1 DEF Range
  <2> QED
    BY <2>1, <2>2
<1>4. ASSUME NEW i \in 1..Len(s), NEW j \in 1..Len(s), i < j PROVE Before(c, s[i], s[j])
  BY <1>1, <1>2, <1>4 DEF Before
<1> QED
  BY <1>2, <1>3, <1>4 DEF IsOrdered, s

\* The first units are kept and in their order: so is what comes next.
LEMMA UnitsAdded ==
  ASSUME NEW c, IsCall(c), NEW k \in 0..Len(c.matches), NEW s, IsOutput(c, k, EndOf(c, k), s),
         NEW n \in Nat, EndOf(c, k) <= n
  PROVE  IsOutput(c, k, n, s \o Units(EndOf(c, k), n))
<1> DEFINE e == EndOf(c, k)
           t == Units(e, n)
<1>1. /\ k \in Nat /\ e \in Nat
      /\ \A i \in 1..k : /\ c.matches[i].start \in Nat /\ c.matches[i].end \in Nat
                         /\ c.matches[i].start <= c.matches[i].end /\ c.matches[i].end <= e
  <2>1. k \in Nat /\ e \in Nat
    <3>1. e \in 0..c.subject
      BY EndsAre
    <3> QED
      BY <3>1, CallNumbers
  <2>2. ASSUME NEW i \in 1..k
        PROVE  /\ c.matches[i].start \in Nat /\ c.matches[i].end \in Nat
               /\ c.matches[i].start <= c.matches[i].end
    BY <2>1 DEF IsCall, IsMatchList
  <2>3. ASSUME NEW i \in 1..k PROVE c.matches[i].end <= e
    <3>1. CASE i = k
      BY <2>1, <2>2, <3>1 DEF EndOf
    <3>2. CASE i # k
      <4>1. k \in 1..Len(c.matches) /\ i \in 1..k - 1
        BY <2>1, <3>2
      <4>2. c.matches[i].end <= c.matches[k].start
        BY <4>1, MatchesFollow
      <4>3. e = c.matches[k].end /\ c.matches[k].start <= c.matches[k].end
            /\ c.matches[k].start \in Nat /\ c.matches[k].end \in Nat
        BY <4>1, <2>2, <2>1 DEF EndOf
      <4> QED
        BY <2>1, <2>2, <4>2, <4>3
    <3> QED
      BY <3>1, <3>2
  <2> QED
    BY <2>1, <2>2, <2>3
<1>2. t \in Seq(Int) /\ Range(t) = (e + 1)..n /\ IsOrdered(c, t)
  BY <1>1, UnitsAre
<1>3. s \in Seq(Int) /\ Range(s) = KeptUnits(c, k, e) \union PutIn(k) /\ IsOrdered(c, s)
  BY DEF IsOutput
<1> HIDE DEF e, t
<1>4. ASSUME NEW x \in Range(s), NEW y \in Range(t) PROVE Before(c, x, y)
  <2>1. y \in (e + 1)..n
    BY <1>2
  <2>2. CASE x \in KeptUnits(c, k, e)
    <3>1. x \in 1..e
      BY <2>2 DEF KeptUnits
    <3> QED
      BY <1>1, <2>1, <3>1 DEF Before
  <2>3. CASE x \in PutIn(k)
    <3>1. PICK i \in 1..k : x = -i
      BY <2>3 DEF PutIn
    <3>2. i \in Nat \ {0} /\ -x = i /\ x < 0
      BY <1>1, <3>1
    <3>3. c.matches[i].start < y
      <4>1. /\ c.matches[i].start \in Nat /\ c.matches[i].end \in Nat
            /\ c.matches[i].start <= c.matches[i].end /\ c.matches[i].end <= e
        BY <1>1, <3>1
      <4> QED
        BY <1>1, <2>1, <4>1
    <3> QED
      BY <1>1, <2>1, <3>2, <3>3 DEF Before
  <2> QED
    BY <1>3, <2>2, <2>3
<1>5. s \o t \in Seq(Int) /\ Range(s \o t) = Range(s) \union Range(t) /\ IsOrdered(c, s \o t)
  BY <1>2, <1>3, <1>4, OrderedJoined
<1>6. KeptUnits(c, k, n) = KeptUnits(c, k, e) \union (e + 1)..n
  <2>1. e \in Nat /\ e <= n
    BY <1>1 DEF e
  <2>2. ASSUME NEW u \in KeptUnits(c, k, n) PROVE u \in KeptUnits(c, k, e) \union (e + 1)..n
    BY <2>1, <2>2 DEF KeptUnits
  <2>3. ASSUME NEW u \in KeptUnits(c, k, e) PROVE u \in KeptUnits(c, k, n)
    BY <2>1, <2>3 DEF KeptUnits
  <2>4. ASSUME NEW u \in (e + 1)..n PROVE u \in KeptUnits(c, k, n)
    <3>1. u \in 1..n
      BY <2>1
    <3>2. \A i \in 1..k : u > c.matches[i].end
      BY <1>1, <2>1
    <3> QED
      BY <3>1, <3>2 DEF KeptUnits
  <2> QED
    BY <2>2, <2>3, <2>4
<1>7. Range(s \o t) = KeptUnits(c, k, n) \union PutIn(k)
  BY <1>2, <1>3, <1>5, <1>6
<1> QED
  BY <1>5, <1>7 DEF IsOutput, t, e

\* The text for the next match comes after all that is there.
LEMMA TextAdded ==
  ASSUME NEW c, IsCall(c), NEW k \in 1..Len(c.matches), NEW s,
         IsOutput(c, k - 1, c.matches[k].start, s)
  PROVE  IsOutput(c, k, EndOf(c, k), s \o <<-k>>)
<1> DEFINE n == c.matches[k].start
           e == c.matches[k].end
           t == <<-k>>
<1>1. /\ k \in Nat \ {0} /\ n \in Nat /\ e \in Nat /\ n <= e /\ EndOf(c, k) = e
      /\ \A i \in 1..k - 1 : c.matches[i].end \in Nat /\ c.matches[i].start <= n
                            /\ c.matches[i].start \in Nat /\ c.matches[i].end <= n
  <2>1. k \in Nat \ {0} /\ n \in Nat /\ e \in Nat /\ n <= e /\ EndOf(c, k) = e
    BY DEF IsCall, IsMatchList, EndOf
  <2>2. ASSUME NEW i \in 1..k - 1
        PROVE  /\ c.matches[i].end \in Nat /\ c.matches[i].start \in Nat
               /\ c.matches[i].start <= c.matches[i].end
    <3>1. i \in 1..Len(c.matches)
      BY <2>1 DEF IsCall, IsMatchList
    <3> QED
      BY <3>1 DEF IsCall, IsMatchList
  <2>3. \A i \in 1..k - 1 : c.matches[i].end <= n
    BY MatchesFollow
  <2>4. \A i \in 1..k - 1 : c.matches[i].start <= n
    <3> HIDE DEF n
    <3> QED
      BY <2>1, <2>2, <2>3
  <2> QED
    BY <2>1, <2>2, <2>3, <2>4
<1>2. t \in Seq(Int) /\ Range(t) = {-k} /\ IsOrdered(c, t)
  <2>1. t \in Seq(Int) /\ Len(t) = 1 /\ DOMAIN t = 1..1 /\ t[1] = -k
    BY <1>1
  <2> HIDE DEF t
  <2>2. Range(t) = {-k}
    BY <2>1 DEF Range
  <2> QED
    BY <2>1, <2>2 DEF IsOrdered
<1>3. s \in Seq(Int) /\ Range(s) = KeptUnits(c, k - 1, n) \union PutIn(k - 1) /\ IsOrdered(c, s)
  BY DEF IsOutput
<1> HIDE DEF t
<1>4. ASSUME NEW x \in Range(s), NEW y \in Range(t) PROVE Before(c, x, y)
  <2>1. y = -k /\ -y = k /\ y < 0
    BY <1>1, <1>2
  <2>2. CASE x \in KeptUnits(c, k - 1, n)
    <3>1. x \in 1..n
      BY <2>2 DEF KeptUnits
    <3>2. x > 0 /\ x <= c.matches[-y].start
      BY <1>1, <2>1, <3>1
    <3> QED
      BY <2>1, <3>2 DEF Before
  <2>3. CASE x \in PutIn(k - 1)
    <3>1. PICK i \in 1..k - 1 : x = -i
      BY <2>3 DEF PutIn
    <3>2. x < 0 /\ y < x
      BY <1>1, <2>1, <3>1
    <3> QED
      BY <2>1, <3>2 DEF Before
  <2> QED
    BY <1>3, <2>2, <2>3
<1>5. s \o t \in Seq(Int) /\ Range(s \o t) = Range(s) \union Range(t) /\ IsOrdered(c, s \o t)
  BY <1>2, <1>3, <1>4, OrderedJoined
<1>6. KeptUnits(c, k, e) = KeptUnits(c, k - 1, n)
  <2>1. ASSUME NEW u \in KeptUnits(c, k, e) PROVE u \in KeptUnits(c, k - 1, n)
    <3>1. u \in 1..e /\ (u <= n \/ u > e) /\ k \in 1..k
      BY <1>1, <2>1 DEF KeptUnits
    <3>2. \A i \in 1..k - 1 : i \in 1..k
      BY <1>1
    <3>3. \A i \in 1..k - 1 : u <= c.matches[i].start \/ u > c.matches[i].end
      BY <2>1, <3>2 DEF KeptUnits
    <3>4. u \in 1..n
      BY <1>1, <3>1
    <3> QED
      BY <3>3, <3>4 DEF KeptUnits
  <2>2. ASSUME NEW u \in KeptUnits(c, k - 1, n) PROVE u \in KeptUnits(c, k, e)
    <3>1. u \in 1..n /\ u \in 1..e
      BY <1>1, <2>2 DEF KeptUnits
    <3>2. ASSUME NEW i \in 1..k PROVE u <= c.matches[i].start \/ u > c.matches[i].end
      <4>1. CASE i = k
        BY <3>1, <4>1
      <4>2. CASE i # k
        <5>1. i \in 1..k - 1
          BY <1>1, <4>2
        <5> QED
          BY <2>2, <5>1 DEF KeptUnits
      <4> QED
        BY <4>1, <4>2
    <3> QED
      BY <3>1, <3>2 DEF KeptUnits
  <2> QED
    BY <2>1, <2>2
<1>7. PutIn(k) = PutIn(k - 1) \union {-k}
  <2>1. \A i : i \in 1..k <=> (i \in 1..k - 1 \/ i = k)
    BY <1>1
  <2> QED
    BY <2>1 DEF PutIn
<1>8. Range(s \o t) = KeptUnits(c, k, e) \union PutIn(k)
  BY <1>2, <1>3, <1>5, <1>6, <1>7
<1>9. IsOutput(c, k, e, s \o t)
  BY <1>5, <1>8 DEF IsOutput
<1> QED
  BY <1>1, <1>9 DEF t, e

LEMMA OutputIs ==
  ASSUME NEW c, IsCall(c), NEW a \in 0..Len(c.matches)
  PROVE  IsOutput(c, a, c.subject, OutputOf(c, a))
<1> DEFINE end(k) == IF k = 0 THEN 0 ELSE c.matches[k].end
           units(x, y) == [k \in 1..(y - x) |-> x + k]
           IsOut(f) == f = [k \in 0..a |->
             IF k = 0 THEN <<>> ELSE f[k - 1] \o units(end(k - 1), c.matches[k].start) \o <<-k>>]
           out == CHOOSE f : IsOut(f)
           more(k, v) == (v \o Units(EndOf(c, k - 1), c.matches[k].start)) \o <<-k>>
           step == [p \in (1..a) \X Seq(Int) |-> more(p[1], p[2])]
<1>1. OutputOf(c, a) = out[a] \o Units(EndOf(c, a), c.subject)
  BY Zenon DEF OutputOf, EndOf, Units
<1>2. a \in Nat /\ \A k \in 1..a : /\ k \in 1..Len(c.matches) /\ k - 1 \in 0..Len(c.matches)
                                  /\ k - 1 \in 0..a
  BY DEF IsCall, IsMatchList
<1>3. ASSUME NEW k \in 1..a
      PROVE  /\ EndOf(c, k - 1) \in Nat /\ c.matches[k].start \in Nat
             /\ EndOf(c, k - 1) <= c.matches[k].start
  <2>1. k \in 1..Len(c.matches) /\ k - 1 \in 0..Len(c.matches)
    BY <1>2
  <2>2. EndOf(c, k - 1) \in Nat
    BY <2>1, EndsAre DEF IsCall
  <2>3. c.matches[k].start \in Nat /\ EndOf(c, k - 1) <= c.matches[k].start
    BY <2>1 DEF IsCall, IsMatchList
  <2> QED
    BY <2>2, <2>3
<1>4. ASSUME NEW k \in 1..a, NEW v \in Seq(Int) PROVE more(k, v) \in Seq(Int)
  <2>1. Units(EndOf(c, k - 1), c.matches[k].start) \in Seq(Int) /\ <<-k>> \in Seq(Int)
    <3> DEFINE x == EndOf(c, k - 1)
               y == c.matches[k].start
    <3>1. x \in Nat /\ y \in Nat /\ x <= y
      BY <1>3
    <3>4. k \in Int
      BY <1>2
    <3> HIDE DEF x, y
    <3>2. Units(x, y) \in Seq(Int) /\ IsOrdered(c, Units(x, y))
      BY <3>1, UnitsAre
    <3>3. <<-k>> \in Seq(Int)
      BY <3>4
    <3> QED
      BY <3>2, <3>3 DEF x, y
  <2> QED
    BY <2>1, ConcatProperties
<1>5. step \in [(1..a) \X Seq(Int) -> Seq(Int)]
  <2> HIDE DEF more
  <2> QED
    BY <1>4
<1>6. \A k \in 1..a, v \in Seq(Int) : step[<<k, v>>] = more(k, v)
  <2> HIDE DEF more
  <2> QED
    OBVIOUS
<1>7. PICK f \in [0..a -> Seq(Int)] : IsUpward(f, a, <<>>, step)
  <2> DEFINE V == Seq(Int)
             base == <<>>
  <2>1. base \in V /\ step \in [(1..a) \X V -> V]
    BY <1>5
  <2> HIDE DEF V, base, step
  <2>2. \E f \in [0..a -> V] : IsUpward(f, a, base, step)
    BY ONLY <1>2, <2>1, UpwardRecursion
  <2> QED
    BY <2>2 DEF V, base
<1>8. ASSUME NEW k \in 1..a PROVE f[k] = more(k, f[k - 1])
  <2>1. f[k - 1] \in Seq(Int) /\ f[k] = step[<<k, f[k - 1]>>]
    <3> HIDE DEF step
    <3> QED
      BY <1>2, <1>7 DEF IsUpward
  <2> HIDE DEF step, more
  <2> QED
    BY <1>6, <2>1
<1>9. IsOut(f)
  <2> DEFINE g == [k \in 0..a |->
               IF k = 0 THEN <<>> ELSE f[k - 1] \o units(end(k - 1), c.matches[k].start) \o <<-k>>]
  <2>1. ASSUME NEW k \in 0..a PROVE g[k] = f[k]
    <3>1. CASE k = 0
      BY <1>7, <3>1 DEF IsUpward
    <3>2. CASE k # 0
      <4>1. k \in 1..a
        BY <1>2, <3>2
      <4>2. f[k] = more(k, f[k - 1])
        BY <1>8, <4>1
      <4>3. g[k] = f[k - 1] \o units(end(k - 1), c.matches[k].start) \o <<-k>>
        <5> HIDE DEF units, end
        <5> QED
          BY <3>2
      <4> QED
        BY Zenon, <4>2, <4>3 DEF EndOf, Units
    <3> QED
      BY <3>1, <3>2
  <2>2. g = f
    <3>1. g = [k \in 0..a |-> g[k]] /\ f = [k \in 0..a |-> f[k]]
      <4>1. f = [k \in 0..a |-> f[k]]
        BY ONLY <1>7
      <4>2. g = [k \in 0..a |-> g[k]]
        BY Zenon
      <4> QED
        BY <4>1, <4>2
    <3> HIDE DEF g
    <3> QED
      BY <2>1, <3>1
  <2> QED
    BY <2>2
<1>10. IsOut(out)
  <2> HIDE DEF IsOut
  <2> QED
    BY <1>9
<1>11. out[0] = <<>> /\ \A k \in 1..a : out[k] = more(k, out[k - 1])
  <2> DEFINE g == [k \in 0..a |->
               IF k = 0 THEN <<>>
               ELSE out[k - 1] \o units(end(k - 1), c.matches[k].start) \o <<-k>>]
  <2>1. out = g
    BY <1>10
  <2>2. g[0] = <<>>
    <3> HIDE DEF out, units, end
    <3>1. 0 \in 0..a
      BY <1>2
    <3> QED
      BY <3>1
  <2>3. ASSUME NEW k \in 1..a PROVE g[k] = more(k, out[k - 1])
    <3>1. k \in 0..a /\ k # 0
      BY <1>2
    <3> HIDE DEF out
    <3>2. g[k] = out[k - 1] \o units(end(k - 1), c.matches[k].start) \o <<-k>>
      <4> HIDE DEF units, end
      <4> QED
        BY <3>1
    <3> QED
      BY Zenon, <3>2 DEF EndOf, Units
  <2> HIDE DEF g, out, more
  <2> QED
    BY <2>1, <2>2, <2>3
<1> DEFINE S == {k \in 0..a : IsOutput(c, k, EndOf(c, k), out[k])}
<1> HIDE DEF out
<1>12. 0 \in S
  <2>1. /\ EndOf(c, 0) = 0 /\ KeptUnits(c, 0, 0) = {} /\ PutIn(0) = {} /\ Range(<<>>) = {}
    BY DEF EndOf, KeptUnits, PutIn, Range
  <2>2. <<>> \in Seq(Int) /\ IsOrdered(c, <<>>)
    BY DEF IsOrdered
  <2>3. IsOutput(c, 0, 0, <<>>)
    BY <2>1, <2>2 DEF IsOutput
  <2> QED
    BY <1>2, <1>11, <2>1, <2>3
<1>13. ASSUME NEW k \in 0..a - 1, k \in S PROVE k + 1 \in S
  <2> DEFINE m == k + 1
             n == c.matches[m].start
  <2>1. m \in 1..a /\ m \in 1..Len(c.matches) /\ m - 1 = k /\ k \in 0..Len(c.matches)
    BY <1>2
  <2>2. n \in Nat /\ EndOf(c, k) <= n
    BY <1>3, <2>1
  <2>3. out[m] = (out[k] \o Units(EndOf(c, k), n)) \o <<-m>>
    BY <1>11, <2>1
  <2>4. IsOutput(c, k, EndOf(c, k), out[k])
    BY <1>13
  <2> HIDE DEF m, n, S
  <2>5. IsOutput(c, k, n, out[k] \o Units(EndOf(c, k), n))
    BY <2>1, <2>2, <2>4, UnitsAdded
  <2>6. IsOutput(c, m, EndOf(c, m), (out[k] \o Units(EndOf(c, k), n)) \o <<-m>>)
    BY <2>1, <2>5, TextAdded DEF n
  <2>7. m \in 0..a /\ IsOutput(c, m, EndOf(c, m), out[m])
    BY <1>2, <2>1, <2>3, <2>6
  <2>8. m \in S
    BY <2>7 DEF S
  <2> QED
    BY <2>8 DEF m
<1>14. 0..a \subseteq S
  <2> HIDE DEF S
  <2> QED
    BY <1>2, <1>12, <1>13, StepsUp
<1>15. IsOutput(c, a, EndOf(c, a), out[a])
  BY <1>2, <1>14
<1>16. EndOf(c, a) <= c.subject /\ c.subject \in Nat
  BY EndsAre DEF IsCall
<1> QED
  BY <1>1, <1>15, <1>16, UnitsAdded

PlaceIn(out, u) == CHOOSE k \in DOMAIN out : out[k] = u

\* What is in the output is there once, and its places are in the order of Before.
LEMMA PlacesAre ==
  ASSUME NEW c, IsCall(c), NEW a \in 0..Len(c.matches), NEW n, NEW out, IsOutput(c, a, n, out)
  PROVE  /\ Len(out) = Cardinality(Range(out))
         /\ \A x, y \in Range(out) : Before(c, x, y) => PlaceIn(out, x) < PlaceIn(out, y)
         /\ \A x, y \in Range(out) : Before(c, x, y) => ~ (PlaceIn(out, y) < PlaceIn(out, x))
<1> DEFINE P == Range(out)
           m == Len(out)
<1>1. /\ out \in Seq(Int) /\ m \in Nat /\ DOMAIN out = 1..m
      /\ P = KeptUnits(c, a, n) \union PutIn(a)
      /\ \A i, j \in 1..m : i < j => Before(c, out[i], out[j])
  BY LenProperties DEF IsOutput, IsOrdered
<1>2. a \in Nat /\ \A i \in 1..a : c.matches[i].start \in Nat
  BY DEF IsCall, IsMatchList
<1>3. ASSUME NEW x \in P
      PROVE  x \in Int /\ (x < 0 => -x \in 1..a)
  <2>1. CASE x \in KeptUnits(c, a, n)
    <3>1. x \in 1..n
      BY <2>1 DEF KeptUnits
    <3> QED
      BY <3>1
  <2>2. CASE x \in PutIn(a)
    <3>1. PICK i \in 1..a : x = -i
      BY <2>2 DEF PutIn
    <3>2. x \in Int /\ -x = i
      BY <1>2, <3>1
    <3> QED
      BY <3>2
  <2> QED
    BY <1>1, <2>1, <2>2
<1>4. ASSUME NEW x \in P, NEW y \in P, Before(c, x, y) PROVE ~Before(c, y, x) /\ x # y
  <2>1. /\ x \in Int /\ y \in Int
        /\ x < 0 => c.matches[-x].start \in Nat
        /\ y < 0 => c.matches[-y].start \in Nat
    BY <1>2, <1>3
  <2> QED
    BY <1>4, <2>1 DEF Before
<1>5. \A k \in 1..m : out[k] \in P
  BY <1>1 DEF Range
<1>6. ASSUME NEW x \in P PROVE PlaceIn(out, x) \in 1..m /\ out[PlaceIn(out, x)] = x
  <2>1. \E k \in DOMAIN out : out[k] = x
    BY DEF Range
  <2>2. PlaceIn(out, x) \in DOMAIN out /\ out[PlaceIn(out, x)] = x
    BY <2>1 DEF PlaceIn
  <2> QED
    BY <1>1, <2>2
<1> HIDE DEF P, m
<1>7. ASSUME NEW i \in 1..m, NEW j \in 1..m, i # j PROVE out[i] # out[j]
  <2>1. i < j \/ j < i
    BY <1>1, <1>7
  <2>2. CASE i < j
    <3>1. Before(c, out[i], out[j])
      BY <1>1, <2>2
    <3> QED
      BY <1>4, <1>5, <3>1
  <2>3. CASE j < i
    <3>1. Before(c, out[j], out[i])
      BY <1>1, <2>3
    <3> QED
      BY <1>4, <1>5, <3>1
  <2> QED
    BY <2>1, <2>2, <2>3
<1>8. m = Cardinality(P)
  <2>1. out \in Surjection(1..m, P) /\ out \in Injection(1..m, P)
    <3>1. out \in [1..m -> P]
      <4>1. out = [k \in 1..m |-> out[k]]
        BY <1>1
      <4> QED
        BY <1>5, <4>1
    <3>2. \A x \in P : \E k \in 1..m : out[k] = x
      BY <1>6
    <3>3. IsInjective(out)
      BY <1>1, <1>7 DEF IsInjective
    <3> QED
      BY <3>1, <3>2, <3>3 DEF Surjection, Injection
  <2>2. IsFiniteSet(1..m) /\ Cardinality(1..m) = m
    <3>1. 1 \in Int /\ m \in Int
      BY <1>1
    <3>2. Cardinality(1..m) = IF 1 > m THEN 0 ELSE (m - 1) + 1
      BY <3>1, FS_Interval
    <3> QED
      BY <1>1, <3>1, <3>2, FS_Interval
  <2>3. Cardinality(P) = Cardinality(1..m)
    BY <2>1, <2>2, FS_Surjection
  <2> QED
    BY <2>2, <2>3
<1>9. ASSUME NEW x \in P, NEW y \in P, Before(c, x, y) PROVE PlaceIn(out, x) < PlaceIn(out, y)
  <2> DEFINE i == PlaceIn(out, x)
             j == PlaceIn(out, y)
  <2>1. i \in 1..m /\ j \in 1..m /\ out[i] = x /\ out[j] = y
    BY <1>6
  <2> HIDE DEF i, j
  <2>2. ~Before(c, y, x) /\ x # y
    BY <1>4, <1>9
  <2>3. i # j
    BY <2>1, <2>2
  <2>4. ~ (j < i)
    BY <1>1, <2>1, <2>2
  <2>5. i < j
    BY <1>1, <2>1, <2>3, <2>4
  <2> QED
    BY <2>5 DEF i, j
<1>10. \A x \in P : PlaceIn(out, x) \in Nat
  BY <1>1, <1>6
<1>11. \A x, y \in P : Before(c, x, y) => ~ (PlaceIn(out, y) < PlaceIn(out, x))
  BY <1>9, <1>10
<1> QED
  BY <1>8, <1>9, <1>11 DEF P, m

\* The text of SubstitutesAsRequested, for one call and its answer.
IsAnswerTo(c, out, count) ==
  LET kept == {u \in 1..c.subject :
                 \A i \in Wanted(c) : u <= c.matches[i].start \/ u > c.matches[i].end}
      present == kept \union {-i : i \in Wanted(c)}
  IN /\ count = Cardinality(Wanted(c))
     /\ \A i, j \in Wanted(c) : i < j => PlaceIn(out, -i) < PlaceIn(out, -j)
     /\ Range(out) = present /\ Len(out) = Cardinality(present)
     /\ \A u, v \in kept : u < v => PlaceIn(out, u) < PlaceIn(out, v)
     /\ \A i \in Wanted(c) : \A u \in kept :
          (u <= c.matches[i].start) <=> (PlaceIn(out, u) < PlaceIn(out, -i))

LEMMA OutputIsRight ==
  ASSUME NEW c, IsCall(c)
  PROVE  IsAnswerTo(c, OutputOf(c, Asked(c)), Asked(c))
<1> DEFINE a == Asked(c)
           out == OutputOf(c, a)
           kept == KeptUnits(c, a, c.subject)
<1>1. a \in 0..Len(c.matches) /\ Wanted(c) = 1..a /\ Cardinality(Wanted(c)) = a
  BY WantedAreFirst
<1>2. IsOutput(c, a, c.subject, out)
  BY <1>1, OutputIs
<1>3. /\ a \in Nat /\ \A i \in 1..a : c.matches[i].start \in Nat
  BY <1>1 DEF IsCall, IsMatchList
<1>4. Range(out) = kept \union PutIn(a)
  BY <1>2 DEF IsOutput
<1>5. /\ Len(out) = Cardinality(Range(out))
      /\ \A x, y \in Range(out) : Before(c, x, y) => PlaceIn(out, x) < PlaceIn(out, y)
      /\ \A x, y \in Range(out) : Before(c, x, y) => ~ (PlaceIn(out, y) < PlaceIn(out, x))
  BY <1>1, <1>2, PlacesAre
<1>6. /\ kept = {u \in 1..c.subject :
                 \A i \in Wanted(c) : u <= c.matches[i].start \/ u > c.matches[i].end}
      /\ PutIn(a) = {-i : i \in Wanted(c)}
  BY <1>1 DEF KeptUnits, PutIn
<1>7. \A u \in kept : u \in Range(out) /\ u \in Int /\ u > 0
  BY <1>4 DEF KeptUnits
<1>8. \A i \in 1..a : -i \in Range(out) /\ -i < 0 /\ -(-i) = i /\ i \in Int
  BY <1>3, <1>4 DEF PutIn
<1> HIDE DEF out, kept, a
<1>9. ASSUME NEW i \in 1..a, NEW j \in 1..a, i < j PROVE PlaceIn(out, -i) < PlaceIn(out, -j)
  <2>1. Before(c, -i, -j)
    BY <1>8, <1>9 DEF Before
  <2> QED
    BY <1>5, <1>8, <2>1
<1>10. ASSUME NEW u \in kept, NEW v \in kept, u < v PROVE PlaceIn(out, u) < PlaceIn(out, v)
  <2>1. Before(c, u, v)
    BY <1>7, <1>10 DEF Before
  <2> QED
    BY <1>5, <1>7, <2>1
<1>11. ASSUME NEW i \in 1..a, NEW u \in kept
       PROVE  (u <= c.matches[i].start) <=> (PlaceIn(out, u) < PlaceIn(out, -i))
  <2>1. c.matches[i].start \in Nat /\ u \in Int /\ u > 0
    BY <1>3, <1>7
  <2>2. CASE u <= c.matches[i].start
    <3>1. Before(c, u, -i)
      BY <1>8, <2>1, <2>2 DEF Before
    <3>2. PlaceIn(out, u) < PlaceIn(out, -i)
      BY <1>5, <1>7, <1>8, <3>1
    <3> QED
      BY <2>2, <3>2
  <2>3. CASE ~ (u <= c.matches[i].start)
    <3>1. Before(c, -i, u)
      BY <1>8, <2>1, <2>3 DEF Before
    <3>2. ~ (PlaceIn(out, u) < PlaceIn(out, -i))
      BY <1>5, <1>7, <1>8, <3>1
    <3> QED
      BY <2>3, <3>2
  <2> QED
    BY <2>2, <2>3
<1>12. Len(out) = Cardinality(kept \union PutIn(a))
  BY <1>4, <1>5
<1>13. IsAnswerTo(c, out, a)
  BY Zenon, <1>1, <1>4, <1>6, <1>9, <1>10, <1>11, <1>12 DEF IsAnswerTo
<1> QED
  BY <1>13 DEF out, a

LEMMA AnswerIsRight ==
  ASSUME IsAnswerTo(call, answer.out, answer.count)
  PROVE  SubstitutesAsRequested
BY Zenon DEF IsAnswerTo, SubstitutesAsRequested, PlaceIn

AnswersInv ==
  SubstitutionInv /\ (status = "returned" => IsAnswerTo(call, answer.out, answer.count))

LEMMA StepAnswersInv == AnswersInv /\ [SubstitutionNext]_subVars => AnswersInv'
<1> SUFFICES ASSUME AnswersInv, [SubstitutionNext]_subVars PROVE AnswersInv'
  OBVIOUS
<1>1. SubstitutionInv'
  BY StepSubstitutionInv DEF AnswersInv
<1>2. IsCall(call) /\ (status = "running" => ~NotTaken(call))
  BY CallsAre DEF AnswersInv, SubstitutionInv, SubstitutionTypes
<1>3. CASE Begin
  <2>1. status' # "returned"
    BY <1>3 DEF Begin
  <2> QED
    BY <1>1, <2>1 DEF AnswersInv
<1>4. CASE TooSmall \/ MatchFails
  <2>1. status' # "returned"
    BY <1>4 DEF TooSmall, MatchFails, OutOfRoom
  <2> QED
    BY <1>1, <2>1 DEF AnswersInv
<1>5. CASE Substitute
  <2>1. /\ status = "running" /\ call' = call
        /\ answer' = [out |-> OutputOf(call, Accepted(call)), count |-> CountReturned(call)]
    BY <1>5 DEF Substitute
  <2>2. call.count >= 0
    BY <1>2, <2>1 DEF NotTaken, IsCall
  <2>3. Accepted(call) = Asked(call) /\ CountReturned(call) = Asked(call)
    BY <1>2, <2>2, AcceptedAreAsked
  <2>4. answer'.out = OutputOf(call, Asked(call)) /\ answer'.count = Asked(call)
    BY <2>1, <2>3
  <2>5. IsAnswerTo(call, answer'.out, answer'.count)
    BY <1>2, <2>4, OutputIsRight
  <2>6. IsAnswerTo(call, answer.out, answer.count)'
    BY <2>1, <2>5
  <2> QED
    BY <1>1, <2>6 DEF AnswersInv
<1>6. CASE subn
  <2> DEFINE limit == normalise_count(call.count)
             done == IF limit = -1 THEN Len(call.matches) ELSE LowerOf(limit, Len(call.matches))
  <2>1. call' = call /\ answer' = [out |-> OutputOf(call, done), count |-> done]
    BY <1>6 DEF subn
  <2>2. done = Asked(call)
    <3>1. call.count \in Int /\ Len(call.matches) \in Nat
      BY <1>2 DEF IsCall, IsMatchList
    <3>2. CASE call.count = 0
      BY <3>1, <3>2 DEF normalise_count, Asked
    <3>3. CASE call.count < 0
      BY <3>1, <3>3 DEF normalise_count, Asked, LowerOf
    <3>4. CASE call.count > 0
      BY <3>1, <3>4 DEF normalise_count, Asked
    <3> QED
      BY <3>1, <3>2, <3>3, <3>4
  <2> HIDE DEF done, limit
  <2>4. answer'.out = OutputOf(call, Asked(call)) /\ answer'.count = Asked(call)
    BY <2>1, <2>2
  <2>5. IsAnswerTo(call, answer'.out, answer'.count)
    BY <1>2, <2>4, OutputIsRight
  <2>6. IsAnswerTo(call, answer.out, answer.count)'
    BY <2>1, <2>5
  <2> QED
    BY <1>1, <2>6 DEF AnswersInv
<1>7. CASE UNCHANGED subVars
  <2>1. call' = call /\ answer' = answer /\ status' = status
    BY <1>7 DEF subVars
  <2>2. IsAnswerTo(call, answer.out, answer.count) => IsAnswerTo(call, answer.out, answer.count)'
    BY <2>1
  <2> QED
    BY <1>1, <2>1, <2>2 DEF AnswersInv
<1> QED
  BY <1>3, <1>4, <1>5, <1>6, <1>7 DEF SubstitutionNext

\* A substitution that returns has replaced exactly the matches that were asked for,
\* with every unit of the subject outside of them there once and in its place, and
\* counts them: by PCRE2, in a buffer that grows and with a callout that stops it,
\* and by the loop over finditer, for every subject, list of matches and count.
THEOREM SubstitutionsReplaceWhatIsAskedFor == SubstitutionSpec => []SubstitutesAsRequested
<1>1. SubstitutionInit => AnswersInv
  <2>1. SubstitutionInit => status # "returned"
    BY DEF SubstitutionInit
  <2> QED
    BY <2>1, InitSubstitutionInv DEF AnswersInv
<1>2. AnswersInv => SubstitutesAsRequested
  <2>1. CASE status = "returned"
    BY <2>1, AnswerIsRight DEF AnswersInv
  <2>2. CASE status # "returned"
    BY <2>2 DEF SubstitutesAsRequested
  <2> QED
    BY <2>1, <2>2
<1> QED
  BY <1>1, <1>2, StepAnswersInv, PTL DEF SubstitutionSpec

-----------------------------------------------------------------------------
(* Texts. *)

\* f has the concatenations of the first parts of ss.
IsFlat(ss, f) == f[0] = <<>> /\ \A k \in 1..Len(ss) : f[k] = f[k - 1] \o ss[k]

Regroups(S) == \A a, b, c \in Seq(S) : (a \o b) \o c = a \o (b \o c)

LEMMA Regroup ==
  \A S : Regroups(S)
BY ConcatAssociative DEF Regroups

LEMMA Flat ==
  ASSUME NEW S, NEW ss \in Seq(Seq(S))
  PROVE  \E f \in [0..Len(ss) -> Seq(S)] : IsFlat(ss, f) /\ FlattenSeq(ss) = f[Len(ss)]
<1> DEFINE n == Len(ss)
           V == Seq(S)
           step == [p \in (1..n) \X V |-> p[2] \o ss[p[1]]]
<1>1. n \in Nat /\ \A k \in 1..n : ss[k] \in V
  OBVIOUS
<1>2. <<>> \in V
  OBVIOUS
<1>3. ASSUME NEW k \in 1..n, NEW s \in V PROVE step[<<k, s>>] = s \o ss[k] /\ s \o ss[k] \in V
  <2>1. ss[k] \in Seq(S) /\ s \in Seq(S)
    BY <1>1
  <2>2. s \o ss[k] \in Seq(S)
    BY <2>1, ConcatProperties
  <2> QED
    BY <2>2
<1>4. step \in [(1..n) \X V -> V]
  <2>1. step = [p \in (1..n) \X V |-> step[p]]
    OBVIOUS
  <2> HIDE DEF step, V, n
  <2>2. \A k \in 1..n, s \in V : step[<<k, s>>] \in V
    BY <1>3, Zenon
  <2>3. \A p \in (1..n) \X V : step[p] \in V
    BY ONLY <2>2
  <2> QED
    BY ONLY <2>1, <2>3
<1>5. PICK f \in [0..n -> V] : IsUpward(f, n, <<>>, step)
  <2> HIDE DEF n, V, step
  <2> QED
    BY <1>1, <1>2, <1>4, UpwardRecursion
<1>6. f[0] = <<>> /\ \A k \in 1..n : f[k] = f[k - 1] \o ss[k]
  <2>1. ASSUME NEW k \in 1..n PROVE f[k] = f[k - 1] \o ss[k]
    <3>1. k - 1 \in 0..n
      BY <1>1
    <3>2. f[k - 1] \in V
      BY <1>5, <3>1
    <3>3. f[k] = step[<<k, f[k - 1]>>]
      BY <1>5 DEF IsUpward
    <3> HIDE DEF V, step, n
    <3> QED
      BY <1>3, <3>2, <3>3
  <2> QED
    BY <1>5, <2>1 DEF IsUpward
<1>7. IsFlat(ss, f)
  BY <1>6 DEF IsFlat
<1>8. CASE n = 0
  <2>1. FlattenSeq(ss) = ss /\ ss = <<>>
    BY <1>8 DEF FlattenSeq
  <2> QED
    BY <1>5, <1>6, <1>7, <1>8, <2>1
<1>9. CASE n # 0
  <2> DEFINE ValueAt(g, i) == IF i = 1 THEN ss[i] ELSE g[i - 1] \o ss[i]
             h == [i \in 1..n |-> f[i]]
             g == CHOOSE g : g = [i \in 1..n |-> ValueAt(g, i)]
  <2>1. \A i \in 1..n : f[i] = ValueAt(h, i)
    <3> TAKE i \in 1..n
    <3>1. CASE i = 1
      <4>0. 1 \in 1..n /\ 1 - 1 = 0
        BY <1>1, <1>9
      <4>1. ss[1] \in Seq(S) /\ f[1] = <<>> \o ss[1]
        BY <1>1, <1>6, <4>0, Zenon
      <4>2. f[1] = ss[1]
        BY <4>1, ConcatEmptySeq
      <4> QED
        BY <3>1, <4>2
    <3>2. CASE i # 1
      <4>1. i - 1 \in 1..n
        BY <1>1, <3>2
      <4>2. h[i - 1] = f[i - 1]
        BY <4>1
      <4> QED
        BY <1>6, <3>2, <4>2
    <3> QED
      BY <3>1, <3>2
  <2>2. h = [i \in 1..n |-> ValueAt(h, i)]
    BY <2>1
  <2>3. g = [i \in 1..n |-> ValueAt(g, i)]
    <3> HIDE DEF h, ValueAt
    <3> QED
      BY <2>2
  <2>4. FlattenSeq(ss) = g[n]
    <3>1. Len(ss) # 0
      BY <1>9
    <3> QED
      BY <3>1, Zenon DEF FlattenSeq
  <2>5. \A i \in 1..n : g[i] = IF i = 1 THEN ss[i] ELSE g[i - 1] \o ss[i]
    BY <2>3
  <2> HIDE DEF g
  <2> DEFINE T == {k \in Nat : k \in 1..n => g[k] = f[k]}
  <2>6. 0 \in T
    OBVIOUS
  <2>7. ASSUME NEW k \in 0..n - 1, k \in T PROVE k + 1 \in T
    <3>1. k + 1 \in Nat /\ k + 1 \in 1..n /\ (k + 1) - 1 = k
      BY <1>1
    <3>2. CASE k = 0
      <4>0. k + 1 = 1 /\ 1 \in 1..n /\ 1 - 1 = 0
        BY <3>1, <3>2
      <4>1. ss[1] \in Seq(S) /\ f[1] = <<>> \o ss[1] /\ g[1] = ss[1]
        BY <1>1, <1>6, <2>5, <4>0, Zenon
      <4> QED
        BY <4>0, <4>1, ConcatEmptySeq
    <3>3. CASE k # 0
      <4>1. k \in 1..n /\ k + 1 # 1
        BY <1>1, <3>3
      <4>2. g[k] = f[k]
        BY <2>7, <4>1
      <4>3. g[k + 1] = g[k] \o ss[k + 1]
        BY <2>5, <3>1, <4>1
      <4>4. f[k + 1] = f[k] \o ss[k + 1]
        BY <1>6, <3>1
      <4> QED
        BY <3>1, <4>2, <4>3, <4>4, Zenon
    <3> QED
      BY <3>2, <3>3
  <2>8. 0..n \subseteq T
    <3> HIDE DEF T
    <3> QED
      BY <1>1, <2>6, <2>7, StepsUp
  <2>9. n \in T /\ n \in 1..n
    <3>1. n \in 0..n /\ n \in 1..n
      BY ONLY <1>1, <1>9
    <3> HIDE DEF T
    <3> QED
      BY <2>8, <3>1, Zenon
  <2>10. g[n] = f[n]
    BY <2>9
  <2> QED
    BY <1>5, <1>7, <2>4, <2>10
<1> QED
  BY <1>8, <1>9

LEMMA FlatAnyway ==
  ASSUME NEW S, NEW ss \in Seq(Seq(S)), NEW f \in [0..Len(ss) -> Seq(S)], IsFlat(ss, f)
  PROVE  FlattenSeq(ss) = f[Len(ss)]
<1>1. PICK g \in [0..Len(ss) -> Seq(S)] : IsFlat(ss, g) /\ FlattenSeq(ss) = g[Len(ss)]
  BY Flat
<1>0. Len(ss) \in Nat
  OBVIOUS
<1> DEFINE T == {k \in Nat : f[k] = g[k]}
<1>2. 0 \in T
  BY <1>1 DEF IsFlat
<1>3. ASSUME NEW k \in 0..Len(ss) - 1, k \in T PROVE k + 1 \in T
  <2>1. k + 1 \in Nat /\ k + 1 \in 1..Len(ss) /\ (k + 1) - 1 = k /\ f[k] = g[k]
    BY <1>3
  <2>2. f[k + 1] = f[k] \o ss[k + 1] /\ g[k + 1] = g[k] \o ss[k + 1]
    BY <1>1, <2>1, Zenon DEF IsFlat
  <2> QED
    BY <2>1, <2>2, Zenon
<1>4. 0..Len(ss) \subseteq T
  <2> HIDE DEF T
  <2> QED
    BY <1>0, <1>2, <1>3, StepsUp
<1>5. Len(ss) \in T
  <2> HIDE DEF T
  <2> QED
    BY <1>0, <1>4
<1> QED
  BY <1>1, <1>5

LEMMA FlattenType ==
  ASSUME NEW S, NEW ss \in Seq(Seq(S))
  PROVE  FlattenSeq(ss) \in Seq(S)
<1>1. PICK f \in [0..Len(ss) -> Seq(S)] : FlattenSeq(ss) = f[Len(ss)]
  BY Flat
<1> QED
  BY <1>1

LEMMA FlattenOne ==
  ASSUME NEW S, NEW s \in Seq(S)
  PROVE  FlattenSeq(<<s>>) = s
<1>1. <<s>> \in Seq(Seq(S)) /\ Len(<<s>>) = 1
  OBVIOUS
<1>2. PICK f \in [0..1 -> Seq(S)] : IsFlat(<<s>>, f) /\ FlattenSeq(<<s>>) = f[1]
  BY <1>1, Flat
<1>3. f[0] = <<>> /\ f[1] = f[0] \o s
  <2>1. 1 \in 1..Len(<<s>>) /\ 1 - 1 = 0 /\ <<s>>[1] = s
    OBVIOUS
  <2> QED
    BY <1>2, <2>1, Zenon DEF IsFlat
<1> QED
  BY <1>2, <1>3, ConcatEmptySeq, Zenon

LEMMA FlattenNone ==
  FlattenSeq(<<>>) = <<>>
BY DEF FlattenSeq

LEMMA FlattenConcat ==
  ASSUME NEW S, NEW ss \in Seq(Seq(S)), NEW tt \in Seq(Seq(S))
  PROVE  FlattenSeq(ss \o tt) = FlattenSeq(ss) \o FlattenSeq(tt)
<1> DEFINE n == Len(ss)
           k == Len(tt)
<1>0. n \in Nat /\ k \in Nat
  OBVIOUS
<1>1. /\ ss \o tt \in Seq(Seq(S)) /\ Len(ss \o tt) = n + k /\ n \in Nat /\ k \in Nat
      /\ \A i \in 1..n + k : (ss \o tt)[i] = IF i <= n THEN ss[i] ELSE tt[i - n]
  BY ConcatProperties
<1> HIDE DEF n, k
<1>2. PICK f \in [0..n -> Seq(S)] : IsFlat(ss, f) /\ FlattenSeq(ss) = f[n]
  BY Flat DEF n
<1>3. PICK g \in [0..k -> Seq(S)] : IsFlat(tt, g) /\ FlattenSeq(tt) = g[k]
  BY Flat DEF k
<1>4. f[n] \in Seq(S) /\ \A i \in 0..k : g[i] \in Seq(S)
  BY <1>1
<1> DEFINE h == [i \in 0..n + k |-> IF i <= n THEN f[i] ELSE f[n] \o g[i - n]]
<1>5. ASSUME NEW i \in 0..k PROVE h[n + i] = f[n] \o g[i] /\ f[n] \o g[i] \in Seq(S)
  <2>1. g[i] \in Seq(S)
    BY <1>4
  <2>2. f[n] \o g[i] \in Seq(S)
    BY <1>4, <2>1, ConcatProperties
  <2>3. n + i \in 0..n + k /\ (n + i <= n <=> i = 0) /\ (n + i) - n = i
    BY <1>1
  <2>4. g[0] = <<>> /\ f[n] \o <<>> = f[n]
    BY <1>3, <1>4, ConcatEmptySeq DEF IsFlat
  <2>5. CASE i = 0
    <3>1. n + i = n /\ n \in 0..n + k /\ n <= n
      BY <1>0, <2>5
    <3>2. h[n] = f[n]
      BY <3>1, Zenon
    <3> HIDE DEF h
    <3> QED
      BY <2>2, <2>4, <2>5, <3>1, <3>2, Zenon
  <2>6. CASE i # 0
    BY <2>2, <2>3, <2>6
  <2> QED
    BY <2>5, <2>6
<1>6. ASSUME NEW i \in 0..n PROVE h[i] = f[i] /\ f[i] \in Seq(S)
  <2>1. i \in 0..n + k /\ i <= n /\ f[i] \in Seq(S)
    BY <1>0
  <2> QED
    BY <2>1, Zenon
<1>7. h = [i \in 0..n + k |-> h[i]]
  OBVIOUS
<1> HIDE DEF h
<1>8. h \in [0..n + k -> Seq(S)]
  <2>1. ASSUME NEW i \in 0..n + k PROVE h[i] \in Seq(S)
    <3>1. CASE i <= n
      BY <1>1, <1>6, <3>1
    <3>2. CASE ~ (i <= n)
      <4>1. i - n \in 0..k /\ n + (i - n) = i
        BY <1>1, <3>2
      <4> QED
        BY <1>5, <4>1
    <3> QED
      BY <3>1, <3>2
  <2> QED
    BY <1>7, <2>1
<1>9. ASSUME NEW i \in 1..n + k PROVE h[i] = h[i - 1] \o (ss \o tt)[i]
  <2>1. CASE i <= n
    <3>1. i \in 1..n /\ i \in 0..n /\ i - 1 \in 0..n
      BY <1>1, <2>1
    <3>2. f[i] = f[i - 1] \o ss[i]
      BY <1>2, <3>1, Zenon DEF IsFlat, n
    <3>3. (ss \o tt)[i] = ss[i]
      BY <1>1, <2>1
    <3> QED
      BY <1>6, <3>1, <3>2, <3>3, Zenon
  <2>2. CASE ~ (i <= n)
    <3> DEFINE j == i - n
    <3>1. j \in 1..k /\ j \in 0..k /\ j - 1 \in 0..k /\ i = n + j /\ i - 1 = n + (j - 1)
      BY <1>1, <2>2
    <3>2. g[j] = g[j - 1] \o tt[j]
      BY <1>3, <3>1, Zenon DEF IsFlat, k
    <3>3. (f[n] \o g[j - 1]) \o tt[j] = f[n] \o (g[j - 1] \o tt[j])
      <4>1. g[j - 1] \in Seq(S) /\ tt[j] \in Seq(S)
        BY <1>4, <3>1 DEF k
      <4>2. \A a, b, c \in Seq(S) : (a \o b) \o c = a \o (b \o c)
        <5>1. Regroups(S)
          BY ONLY Regroup, Zenon
        <5> QED
          BY ONLY <5>1, Zenon DEF Regroups
      <4> HIDE DEF j
      <4> QED
        BY ONLY <1>4, <4>1, <4>2, Zenon
    <3>4. (ss \o tt)[i] = tt[j]
      BY <1>1, <2>2
    <3>5. h[i] = f[n] \o g[j] /\ h[i - 1] = f[n] \o g[j - 1]
      BY <1>5, <3>1
    <3> HIDE DEF j
    <3> QED
      BY <3>2, <3>3, <3>4, <3>5, Zenon
  <2> QED
    BY <2>1, <2>2
<1>10. h[0] = <<>>
  <2>1. 0 \in 0..n
    BY ONLY <1>1
  <2>2. f[0] = <<>>
    BY <1>2, Zenon DEF IsFlat
  <2> QED
    BY <1>6, <2>1, <2>2, Zenon
<1>11. IsFlat(ss \o tt, h)
  BY <1>1, <1>9, <1>10 DEF IsFlat
<1>12. FlattenSeq(ss \o tt) = h[n + k]
  <2>1. Len(ss \o tt) = n + k /\ ss \o tt \in Seq(Seq(S))
    BY <1>1
  <2> QED
    BY <1>8, <1>11, <2>1, FlatAnyway
<1>13. h[n + k] = f[n] \o g[k]
  BY <1>0, <1>5
<1> QED
  BY <1>2, <1>3, <1>12, <1>13

-----------------------------------------------------------------------------

LEMMA LeastIs ==
  ASSUME NEW S, S \subseteq Nat
  PROVE  /\ S # {} => Min(S) \in S /\ \A n \in S : Min(S) <= n
         /\ \A n \in S : (\A k \in S : n <= k) => Min(S) = n
<1>1. ASSUME NEW n \in S, \A k \in S : n <= k PROVE Min(S) \in S /\ \A k \in S : Min(S) <= k
  BY <1>1 DEF Min
<1>2. ASSUME NEW n \in S, \A k \in S : n <= k PROVE Min(S) = n
  <2>1. n \in Nat /\ Min(S) \in Nat /\ Min(S) <= n /\ n <= Min(S)
    BY <1>1, <1>2
  <2> QED
    BY <2>1
<1>3. S # {} => \E n \in S : \A k \in S : n <= k
  BY LeastNumber
<1> QED
  BY <1>1, <1>2, <1>3

\* The characters, and what stands for one.
Alphabet == STRING \cup Digits \cup {"", "bad", "error", "octal", "newline", "\\", "$", "{", "}"}

LEMMA AlphabetHas ==
  /\ Backslash \in Alphabet /\ "" \in Alphabet /\ "bad" \in Alphabet
  /\ "octal" \in Alphabet /\ "newline" \in Alphabet /\ "$" \in Alphabet
  /\ Opening \in Alphabet /\ Closing \in Alphabet /\ "error" \in Alphabet
BY Zenon DEF Alphabet, Backslash, Opening, Closing

LEMMA StringsAreTexts ==
  ASSUME NEW s \in Seq(STRING)
  PROVE  s \in Seq(Alphabet)
BY SeqMonotonic DEF Alphabet

LEMMA RegroupText ==
  \A a, b, c \in Seq(Alphabet) : (a \o b) \o c = a \o (b \o c)
<1>1. Regroups(Alphabet)
  BY ONLY Regroup, Zenon
<1> QED
  BY ONLY <1>1, Zenon DEF Regroups

\* Where FindChar finds a character.
LEMMA Found ==
  ASSUME NEW t \in Seq(Alphabet), NEW c, NEW i \in Nat \ {0}
  PROVE  \/ FindChar(t, c, i) = 0 /\ \A j \in i..Len(t) : t[j] # c
         \/ /\ FindChar(t, c, i) \in i..Len(t) /\ t[FindChar(t, c, i)] = c
            /\ \A j \in i..FindChar(t, c, i) - 1 : t[j] # c
<1> DEFINE spot == {j \in i..Len(t) : t[j] = c}
<1>1. FindChar(t, c, i) = IF spot = {} THEN 0 ELSE Min(spot)
  BY DEF FindChar
<1>2. CASE spot = {}
  BY <1>1, <1>2
<1>3. CASE spot # {}
  <2>1. spot \subseteq Nat
    OBVIOUS
  <2>2. Min(spot) \in spot /\ \A n \in spot : Min(spot) <= n
    <3> HIDE DEF spot
    <3> QED
      BY <1>3, <2>1, LeastIs
  <2>3. Min(spot) \in i..Len(t) /\ t[Min(spot)] = c
    BY <2>2
  <2>4. ASSUME NEW j \in i..Min(spot) - 1 PROVE t[j] # c
    <3>1. j \in i..Len(t) /\ ~ (Min(spot) <= j)
      BY <2>3
    <3>2. j \notin spot
      <4> HIDE DEF spot
      <4> QED
        BY <2>2, <3>1
    <3> QED
      BY <3>1, <3>2
  <2>5. FindChar(t, c, i) = Min(spot)
    BY <1>1, <1>3
  <2> HIDE DEF spot
  <2> QED
    BY <2>3, <2>4, <2>5
<1> QED
  BY <1>2, <1>3

LEMMA FoundNumber ==
  ASSUME NEW t \in Seq(Alphabet), NEW c, NEW i \in Nat \ {0}
  PROVE  FindChar(t, c, i) \in Nat
BY Found

\* The first entry of a name is that of its least group.
LEMMA FirstEntry ==
  ASSUME NEW m, IsNamedMatch(m), NEW name, NEW E, E \subseteq EntriesNamed(m, name), E # {}
  PROVE  /\ m.names[Min(E)].group = Min(GroupsAt(m, E))
         /\ m.names[Min(E)].group \in GroupsAt(m, E)
         /\ GroupsAt(m, E) \subseteq Groups(m)
         /\ \A g \in GroupsAt(m, E) : m.names[Min(E)].group <= g
<1>1. /\ DOMAIN m.names = 1..Len(m.names)
      /\ \A i \in DOMAIN m.names : m.names[i] \in [name : Seq(STRING), group : Groups(m)]
  <2> DEFINE R == [name : Seq(STRING), group : Groups(m)]
  <2>1. m.names \in Seq(R)
    BY DEF IsNamedMatch
  <2> HIDE DEF R
  <2>2. DOMAIN m.names = 1..Len(m.names) /\ \A i \in DOMAIN m.names : m.names[i] \in R
    BY <2>1, LenProperties, ElementOfSeq
  <2> QED
    BY <2>2 DEF R
<1>2. Groups(m) \subseteq Nat
  BY DEF IsNamedMatch, Groups
<1>3. E \subseteq DOMAIN m.names /\ E \subseteq Nat
  BY <1>1 DEF EntriesNamed
<1>4. \A i \in DOMAIN m.names : m.names[i].group \in Groups(m)
  BY <1>1
<1>5. Min(E) \in E /\ \A n \in E : Min(E) <= n
  BY <1>3, LeastIs
<1> DEFINE start == Min(E)
           G == GroupsAt(m, E)
<1>6. ASSUME NEW n \in E PROVE m.names[start].group <= m.names[n].group
  <2>1. m.names[start].name = m.names[n].name
    BY <1>5 DEF EntriesNamed
  <2>2. CASE start = n
    <3>1. m.names[n].group \in Nat
      BY <1>2, <1>3, <1>4
    <3> QED
      BY <2>2, <3>1
  <2>3. CASE start # n
    <3>1. start \in Nat /\ n \in Nat /\ start \in 1..Len(m.names) /\ n \in DOMAIN m.names
      BY <1>1, <1>3, <1>5
    <3>2. start \in 1..n - 1
      BY <1>5, <2>3, <3>1
    <3>3. m.names[start].group < m.names[n].group
      BY <2>1, <3>1, <3>2 DEF IsNamedMatch
    <3>4. m.names[start].group \in Nat /\ m.names[n].group \in Nat
      BY <1>1, <1>2, <1>4, <3>1
    <3> QED
      BY <3>3, <3>4
  <2> QED
    BY <2>2, <2>3
<1>7. m.names[start].group \in G
  BY <1>5 DEF GroupsAt
<1>8. \A g \in G : m.names[start].group <= g
  BY <1>6 DEF GroupsAt
<1>9. G \subseteq Groups(m) /\ G \subseteq Nat
  BY <1>2, <1>3, <1>4 DEF GroupsAt
<1>10. Min(G) = m.names[start].group
  <2> HIDE DEF G, start
  <2> QED
    BY <1>7, <1>8, <1>9, LeastIs
<1> QED
  BY <1>7, <1>8, <1>9, <1>10

LEMMA NamesStandForGroups ==
  ASSUME NEW m, IsNamedMatch(m), NEW name
  PROVE  /\ name \in DOMAIN groupindex(m) <=> EntriesNamed(m, name) # {}
         /\ match_expand_resolve_ascii_name(m, name) = GroupOf(m, name)
         /\ EntriesNamed(m, name) = {} => GroupOf(m, name) = -1
         /\ EntriesNamed(m, name) # {} => GroupOf(m, name) \in Groups(m)
         /\ EntriesNamed(m, name) # {} => resolve_group_key(m, name) = GroupOf(m, name)
         /\ EntriesNamed(m, name) # {} /\ UniqueNames(m) => groupindex(m)[name] = GroupOf(m, name)
<1> DEFINE E == EntriesNamed(m, name)
           taking == {i \in E : m.value[m.names[i].group] # Unset}
           named == GroupsAt(m, E)
           tookPart == {g \in named : m.value[g] # Unset}
<1>1. GroupOf(m, name) = IF named = {} THEN -1 ELSE IF tookPart = {} THEN Min(named) ELSE Min(tookPart)
  BY DEF GroupOf, GroupsAt, EntriesNamed
<1>2. tookPart = GroupsAt(m, taking)
  BY DEF GroupsAt
<1>3. (named = {} <=> E = {}) /\ (tookPart = {} <=> taking = {})
  BY <1>2 DEF GroupsAt
<1>4. /\ DOMAIN groupindex(m) = {entry.name : entry \in Range(m.names)}
      /\ \A n \in DOMAIN groupindex(m) : groupindex(m)[n] = Min(GroupsAt(m, EntriesNamed(m, n)))
  BY DEF groupindex
<1>5. name \in DOMAIN groupindex(m) <=> E # {}
  BY <1>4 DEF Range, EntriesNamed
<1>6. match_expand_resolve_ascii_name(m, name)
        = IF E = {} THEN -1 ELSE m.names[Min(IF taking = {} THEN E ELSE taking)].group
  BY DEF match_expand_resolve_ascii_name, FirstThatTookPart
<1>7. taking \subseteq EntriesNamed(m, name)
  OBVIOUS
<1>8. ASSUME E # {}
      PROVE  /\ m.names[Min(E)].group = Min(named) /\ Min(named) \in named
             /\ named \subseteq Groups(m) /\ \A g \in named : Min(named) <= g
  BY <1>8, FirstEntry
<1>9. ASSUME taking # {}
      PROVE  m.names[Min(taking)].group = Min(tookPart) /\ Min(tookPart) \in tookPart
  <2> HIDE DEF taking, tookPart
  <2> QED
    BY <1>2, <1>7, <1>9, FirstEntry
<1>10. Groups(m) \subseteq Nat
  BY DEF IsNamedMatch, Groups
<1>11. tookPart \subseteq named
  OBVIOUS
<1>12. match_expand_resolve_ascii_name(m, name) = GroupOf(m, name)
  <2> HIDE DEF E, taking, named, tookPart
  <2> QED
    BY <1>1, <1>3, <1>6, <1>8, <1>9
<1>13. ASSUME E # {} PROVE GroupOf(m, name) \in Groups(m)
  <2> HIDE DEF E, taking, named, tookPart
  <2> QED
    BY <1>1, <1>3, <1>8, <1>9, <1>11, <1>13
<1>14. ASSUME E # {}, m.value[Min(named)] # Unset PROVE GroupOf(m, name) = Min(named)
  <2>1. Min(named) \in tookPart
    BY <1>8, <1>14
  <2>2. tookPart \subseteq Nat /\ \A g \in tookPart : Min(named) <= g
    <3> HIDE DEF tookPart, named
    <3> QED
      BY <1>8, <1>10, <1>11, <1>14
  <2>3. Min(tookPart) = Min(named)
    <3> HIDE DEF tookPart, named
    <3> QED
      BY <2>1, <2>2, LeastIs
  <2> HIDE DEF E, taking, named, tookPart
  <2> QED
    BY <1>1, <2>1, <2>3, <1>8, <1>14
<1>15. ASSUME E # {} PROVE resolve_group_key(m, name) = GroupOf(m, name)
  <2>1. groupindex(m)[name] = Min(named)
    BY <1>4, <1>5, <1>15
  <2> HIDE DEF E, named
  <2> QED
    BY <1>5, <1>12, <1>14, <1>15, <2>1 DEF resolve_group_key
<1>16. ASSUME E # {}, UniqueNames(m) PROVE groupindex(m)[name] = GroupOf(m, name)
  <2>1. PICK i \in E : TRUE
    BY <1>16
  <2>2. E = {i}
    BY <1>16, <2>1 DEF EntriesNamed, UniqueNames
  <2>3. named = {m.names[i].group}
    BY <2>2 DEF GroupsAt
  <2>4. GroupOf(m, name) \in named
    <3> HIDE DEF E, named, tookPart
    <3> QED
      BY <1>1, <1>3, <1>8, <1>9, <1>11, <1>16
  <2>5. groupindex(m)[name] = Min(named) /\ Min(named) \in named
    BY <1>4, <1>5, <1>8, <1>16
  <2> HIDE DEF named
  <2> QED
    BY <2>3, <2>4, <2>5
<1> QED
  BY <1>1, <1>3, <1>5, <1>12, <1>13, <1>15, <1>16

-----------------------------------------------------------------------------
(* What the pieces of a template stand for. *)

Pieces(m) == [text : Alphabet, group : {-1} \cup DOMAIN m.value]

RenderedPiece(m, piece) == IF piece.group = -1 THEN <<piece.text>> ELSE ValueOf(m, piece.group)
EachRendered(m, pieces) == [i \in DOMAIN pieces |-> RenderedPiece(m, pieces[i])]
Rendered(m, pieces) == FlattenSeq(EachRendered(m, pieces))

Characters(u) == [i \in DOMAIN u |-> Character(u[i])]

LEMMA RenderIs ==
  ASSUME NEW m, NEW pieces
  PROVE  render_template(m, pieces) = IF Bad \in Range(pieces) THEN Failed ELSE Rendered(m, pieces)
BY Zenon DEF render_template, Rendered, EachRendered, RenderedPiece

LEMMA ValueType ==
  ASSUME NEW m, IsNamedMatch(m), NEW g \in DOMAIN m.value
  PROVE  ValueOf(m, g) \in Seq(Alphabet)
<1>1. m.value[g] \in Seq(STRING)
  BY DEF IsNamedMatch
<1>2. m.value[g] \in Seq(Alphabet) /\ <<>> \in Seq(Alphabet)
  BY <1>1, StringsAreTexts, EmptySeq
<1> QED
  BY <1>2, Zenon DEF ValueOf

LEMMA PieceType ==
  ASSUME NEW m, IsNamedMatch(m), NEW piece \in Pieces(m)
  PROVE  RenderedPiece(m, piece) \in Seq(Alphabet)
<1>1. piece.text \in Alphabet /\ piece.group \in {-1} \cup DOMAIN m.value
  BY DEF Pieces
<1>2. CASE piece.group = -1
  BY <1>1, <1>2 DEF RenderedPiece
<1>3. CASE piece.group # -1
  BY <1>1, <1>3, ValueType DEF RenderedPiece
<1> QED
  BY <1>2, <1>3

LEMMA EachType ==
  ASSUME NEW m, IsNamedMatch(m), NEW pieces \in Seq(Pieces(m))
  PROVE  /\ EachRendered(m, pieces) \in Seq(Seq(Alphabet)) /\ Len(EachRendered(m, pieces)) = Len(pieces)
         /\ \A i \in 1..Len(pieces) : EachRendered(m, pieces)[i] = RenderedPiece(m, pieces[i])
<1>1. Len(pieces) \in Nat /\ DOMAIN pieces = 1..Len(pieces) /\ \A i \in 1..Len(pieces) : pieces[i] \in Pieces(m)
  BY LenProperties, ElementOfSeq
<1> DEFINE S == Seq(Alphabet)
<1>2. \A i \in 1..Len(pieces) : RenderedPiece(m, pieces[i]) \in S
  BY <1>1, PieceType
<1>3. EachRendered(m, pieces) = [i \in 1..Len(pieces) |-> RenderedPiece(m, pieces[i])]
  BY <1>1 DEF EachRendered
<1> HIDE DEF S
<1>4. EachRendered(m, pieces) \in Seq(S) /\ Len(EachRendered(m, pieces)) = Len(pieces)
  BY <1>1, <1>2, <1>3
<1> QED
  BY <1>3, <1>4 DEF S

LEMMA RenderedType ==
  ASSUME NEW m, IsNamedMatch(m), NEW pieces \in Seq(Pieces(m))
  PROVE  Rendered(m, pieces) \in Seq(Alphabet)
<1>1. EachRendered(m, pieces) \in Seq(Seq(Alphabet))
  BY EachType
<1> QED
  BY <1>1, FlattenType DEF Rendered

LEMMA RenderedConcat ==
  ASSUME NEW m, IsNamedMatch(m), NEW a \in Seq(Pieces(m)), NEW b \in Seq(Pieces(m))
  PROVE  Rendered(m, a \o b) = Rendered(m, a) \o Rendered(m, b)
<1> DEFINE x == EachRendered(m, a)
           y == EachRendered(m, b)
           z == EachRendered(m, a \o b)
           S == Seq(Alphabet)
<1>0. Len(a) \in Nat /\ Len(b) \in Nat
  OBVIOUS
<1>1. /\ a \o b \in Seq(Pieces(m)) /\ Len(a \o b) = Len(a) + Len(b)
      /\ \A i \in 1..Len(a) + Len(b) : (a \o b)[i] = IF i <= Len(a) THEN a[i] ELSE b[i - Len(a)]
  BY ConcatProperties
<1>2. /\ x \in Seq(S) /\ y \in Seq(S) /\ z \in Seq(S)
      /\ Len(x) = Len(a) /\ Len(y) = Len(b) /\ Len(z) = Len(a) + Len(b)
  BY <1>1, EachType
<1>3. /\ \A i \in 1..Len(a) : x[i] = RenderedPiece(m, a[i])
      /\ \A i \in 1..Len(b) : y[i] = RenderedPiece(m, b[i])
      /\ \A i \in 1..Len(a) + Len(b) : z[i] = RenderedPiece(m, (a \o b)[i])
  BY <1>1, EachType
<1> HIDE DEF x, y, z, S
<1>4. /\ x \o y \in Seq(S) /\ Len(x \o y) = Len(a) + Len(b)
      /\ \A i \in 1..Len(a) + Len(b) : (x \o y)[i] = IF i <= Len(a) THEN x[i] ELSE y[i - Len(a)]
  <2>1. /\ x \o y \in Seq(S) /\ Len(x \o y) = Len(x) + Len(y)
        /\ \A i \in 1..Len(x) + Len(y) : (x \o y)[i] = IF i <= Len(x) THEN x[i] ELSE y[i - Len(x)]
    <3>1. x \in Seq(S) /\ y \in Seq(S)
      BY <1>2
    <3> QED
      BY ONLY <3>1, ConcatProperties
  <2> QED
    BY <1>2, <2>1, Zenon
<1>5. ASSUME NEW i \in 1..Len(a) + Len(b) PROVE z[i] = (x \o y)[i]
  <2>1. z[i] = RenderedPiece(m, (a \o b)[i])
    BY <1>3
  <2>2. CASE i <= Len(a)
    <3>1. i \in 1..Len(a)
      BY <1>0, <2>2
    <3>2. (a \o b)[i] = a[i] /\ (x \o y)[i] = x[i]
      BY <1>1, <1>4, <2>2
    <3> QED
      BY <1>3, <2>1, <3>1, <3>2, Zenon
  <2>3. CASE ~ (i <= Len(a))
    <3>1. i - Len(a) \in 1..Len(b)
      BY <1>0, <2>3
    <3>2. (a \o b)[i] = b[i - Len(a)] /\ (x \o y)[i] = y[i - Len(a)]
      BY <1>1, <1>4, <2>3, Zenon
    <3> QED
      BY <1>3, <2>1, <3>1, <3>2, Zenon
  <2> QED
    BY <2>2, <2>3
<1>6. z = x \o y
  BY <1>2, <1>4, <1>5, SeqEqual
<1>7. FlattenSeq(x \o y) = FlattenSeq(x) \o FlattenSeq(y)
  BY <1>2, FlattenConcat DEF S
<1> QED
  BY <1>6, <1>7, Zenon DEF Rendered, x, y, z

LEMMA RenderedOne ==
  ASSUME NEW m, IsNamedMatch(m), NEW piece \in Pieces(m)
  PROVE  <<piece>> \in Seq(Pieces(m)) /\ Rendered(m, <<piece>>) = RenderedPiece(m, piece)
<1>1. <<piece>> \in Seq(Pieces(m)) /\ Len(<<piece>>) = 1 /\ <<piece>>[1] = piece
  OBVIOUS
<1>2. RenderedPiece(m, piece) \in Seq(Alphabet)
  BY PieceType
<1>3. EachRendered(m, <<piece>>) = <<RenderedPiece(m, piece)>>
  BY DEF EachRendered
<1> QED
  BY <1>1, <1>2, <1>3, FlattenOne DEF Rendered

LEMMA FlattenCharacters ==
  ASSUME NEW u \in Seq(Alphabet)
  PROVE  FlattenSeq([i \in DOMAIN u |-> <<u[i]>>]) = u
<1> DEFINE n == Len(u)
           ss == [i \in DOMAIN u |-> <<u[i]>>]
           f == [k \in 0..n |-> SubSeq(u, 1, k)]
           S == Seq(Alphabet)
<1>1. n \in Nat /\ DOMAIN u = 1..n /\ \A i \in 1..n : u[i] \in Alphabet
  OBVIOUS
<1>2. \A i \in 1..n : <<u[i]>> \in S
  BY <1>1
<1>3. ss = [i \in 1..n |-> <<u[i]>>] /\ \A i \in 1..n : ss[i] = <<u[i]>>
  BY <1>1
<1>4. ss \in Seq(S) /\ Len(ss) = n
  <2> HIDE DEF S, n
  <2> QED
    BY <1>1, <1>2, <1>3
<1>5. \A k \in 0..n : SubSeq(u, 1, k) \in S
  BY <1>1, SubSeqProperties
<1>6. f \in [0..n -> S]
  BY <1>5
<1>7. f[0] = <<>>
  <2>1. 0 \in 0..n
    BY <1>1
  <2> QED
    BY <2>1, SubSeqEmpty
<1>8. ASSUME NEW k \in 1..n PROVE f[k] = f[k - 1] \o ss[k]
  <2>1. 1 \in 1..Len(u) /\ k \in 1..Len(u) /\ k \in 0..n /\ k - 1 \in 0..n
    BY <1>1
  <2>2. SubSeq(u, 1, k) = SubSeq(u, 1, k - 1) \o <<u[k]>>
    BY <2>1, SubSeqRecursiveSecond
  <2>3. f[k] = SubSeq(u, 1, k) /\ f[k - 1] = SubSeq(u, 1, k - 1)
    BY <2>1, Zenon
  <2> HIDE DEF f, ss
  <2> QED
    BY <1>3, <2>2, <2>3, Zenon
<1>9. f[n] = u
  <2>1. n \in 0..n
    BY <1>1
  <2> QED
    BY <2>1, SubSeqFull
<1>10. IsFlat(ss, f)
  BY <1>4, <1>7, <1>8, Zenon DEF IsFlat
<1>11. FlattenSeq(ss) = f[n]
  <2> HIDE DEF ss, f, n
  <2> QED
    BY <1>4, <1>6, <1>10, FlatAnyway DEF S
<1> QED
  BY <1>9, <1>11

LEMMA RenderedCharacters ==
  ASSUME NEW m, IsNamedMatch(m), NEW u \in Seq(Alphabet)
  PROVE  Characters(u) \in Seq(Pieces(m)) /\ Len(Characters(u)) = Len(u) /\ Rendered(m, Characters(u)) = u
<1>1. Len(u) \in Nat /\ DOMAIN u = 1..Len(u) /\ \A i \in 1..Len(u) : u[i] \in Alphabet
  OBVIOUS
<1>2. \A i \in 1..Len(u) : Character(u[i]) \in Pieces(m)
  BY <1>1 DEF Pieces, Character
<1>3. Characters(u) = [i \in 1..Len(u) |-> Character(u[i])]
  BY <1>1 DEF Characters
<1>4. Characters(u) \in Seq(Pieces(m)) /\ Len(Characters(u)) = Len(u)
  BY <1>1, <1>2, <1>3
<1>5. EachRendered(m, Characters(u)) = [i \in DOMAIN u |-> <<u[i]>>]
  <2>1. \A i \in 1..Len(u) : RenderedPiece(m, Character(u[i])) = <<u[i]>>
    BY DEF RenderedPiece, Character
  <2> QED
    BY <1>1, <1>3, <2>1 DEF EachRendered
<1> QED
  BY <1>4, <1>5, FlattenCharacters DEF Rendered

-----------------------------------------------------------------------------
(* The parser of re. *)

DigitAt(t, i) == i <= Len(t) /\ t[i] \in Digits
OctalAt(t, i) == i <= Len(t) /\ t[i] \in OctalDigits
GroupPiece(m, g) == IF g \in DOMAIN m.value THEN Group(g) ELSE Bad
NamedPiece(m, index, name) ==
  IF AllDigits(name) THEN GroupPiece(m, NumberOf(name))
  ELSE IF name \in DOMAIN index THEN GroupPiece(m, index[name])
  ELSE Bad

\* What parse_template makes of the template from place i on, p of the later places.
ParseAt(m, t, index, p, i) ==
  LET close == FindChar(t, ">", i + 3)
      name == SubSeq(t, i + 3, close - 1)
  IN IF i > Len(t) THEN <<>>
     ELSE IF t[i] # Backslash THEN <<Character(t[i])>> \o p[i + 1]
     ELSE IF i = Len(t) THEN <<Bad>>
     ELSE IF t[i + 1] = "g" THEN
            IF i + 2 > Len(t) \/ t[i + 2] # "<" \/ close = 0 \/ name = <<>> THEN <<Bad>>
            ELSE <<NamedPiece(m, index, name)>> \o p[close + 1]
     ELSE IF t[i + 1] = "0" THEN
            <<Character("octal")>>
              \o p[i + 2 + (IF ~OctalAt(t, i + 2) THEN 0 ELSE IF ~OctalAt(t, i + 3) THEN 1 ELSE 2)]
     ELSE IF OctalAt(t, i + 1) /\ OctalAt(t, i + 2) /\ OctalAt(t, i + 3) THEN
            IF Value[t[i + 1]] > 3 THEN <<Bad>> ELSE <<Character("octal")>> \o p[i + 4]
     ELSE IF t[i + 1] \in Digits /\ DigitAt(t, i + 2) THEN
            <<GroupPiece(m, NumberOf(<<t[i + 1], t[i + 2]>>))>> \o p[i + 3]
     ELSE IF t[i + 1] \in Digits THEN <<GroupPiece(m, Value[t[i + 1]])>> \o p[i + 2]
     ELSE IF t[i + 1] = Backslash THEN <<Character(Backslash)>> \o p[i + 2]
     ELSE IF t[i + 1] = "n" THEN <<Character("newline")>> \o p[i + 2]
     ELSE <<Character(Backslash), Character(t[i + 1])>> \o p[i + 2]

IsParse(m, t, index, p) ==
  /\ p \in [1..Len(t) + 3 -> Seq(Pieces(m))]
  /\ \A i \in 1..Len(t) + 3 : p[i] = ParseAt(m, t, index, p, i)

LEMMA PieceTypes ==
  ASSUME NEW m, NEW index
  PROVE  /\ \A c \in Alphabet : Character(c) \in Pieces(m)
         /\ Bad \in Pieces(m)
         /\ \A g : GroupPiece(m, g) \in Pieces(m)
         /\ \A name : NamedPiece(m, index, name) \in Pieces(m)
<1>1. \A c \in Alphabet : Character(c) \in Pieces(m)
  BY DEF Pieces, Character
<1>2. Bad \in Pieces(m)
  BY <1>1, AlphabetHas DEF Bad
<1>3. \A g \in DOMAIN m.value : Group(g) \in Pieces(m)
  <2>1. "" \in Alphabet
    BY AlphabetHas
  <2> QED
    BY <2>1 DEF Group, Pieces
<1>4. \A g : GroupPiece(m, g) \in Pieces(m)
  BY <1>2, <1>3 DEF GroupPiece
<1> QED
  BY <1>1, <1>2, <1>4 DEF NamedPiece

\* The parser ends or goes on from a later place.
ParseEnds(m, t, index, i) ==
  \E tail \in Seq(Pieces(m)) : \A p : ParseAt(m, t, index, p, i) = tail
ParseGoesOn(m, t, index, i) ==
  \E head \in Seq(Pieces(m)), next \in i + 1..Len(t) + 3 :
    \A p : ParseAt(m, t, index, p, i) = head \o p[next]

LEMMA ParseStep ==
  ASSUME NEW m, NEW t \in Seq(Alphabet), NEW index, NEW i \in 1..Len(t) + 3
  PROVE  ParseEnds(m, t, index, i) \/ ParseGoesOn(m, t, index, i)
<1> DEFINE close == FindChar(t, ">", i + 3)
           name == SubSeq(t, i + 3, close - 1)
           V == Seq(Pieces(m))
           Ends == \E tail \in V : \A p : ParseAt(m, t, index, p, i) = tail
           Proceeds == \E head \in V, next \in i + 1..Len(t) + 3 : \A p : ParseAt(m, t, index, p, i) = head \o p[next]
<1> SUFFICES Ends \/ Proceeds
  BY Zenon DEF ParseEnds, ParseGoesOn
<1>0. Len(t) \in Nat /\ i \in Nat /\ \A j \in 1..Len(t) : t[j] \in Alphabet
  OBVIOUS
<1>1. \A piece \in Pieces(m) : <<piece>> \in V
  OBVIOUS
<1>2. <<>> \in V
  OBVIOUS
<1> HIDE DEF V
<1>3. CASE i > Len(t)
  <2>1. \A p : ParseAt(m, t, index, p, i) = <<>>
    BY <1>3, Zenon DEF ParseAt
  <2> QED
    BY <1>2, <2>1, Zenon
<1>4. CASE ~ (i > Len(t)) /\ t[i] # Backslash
  <2>1. \A p : ParseAt(m, t, index, p, i) = <<Character(t[i])>> \o p[i + 1]
    BY <1>4, Zenon DEF ParseAt
  <2>2. <<Character(t[i])>> \in V /\ i + 1 \in i + 1..Len(t) + 3
    <3>1. t[i] \in Alphabet /\ i + 1 \in i + 1..Len(t) + 3
      BY <1>0, <1>4
    <3>2. Character(t[i]) \in Pieces(m)
      BY <3>1, PieceTypes
    <3> QED
      BY <1>1, <3>1, <3>2
  <2> QED
    BY <2>1, <2>2, Zenon
<1>5. CASE i = Len(t) /\ t[i] = Backslash
  <2>1. \A p : ParseAt(m, t, index, p, i) = <<Bad>>
    <3>1. ~ (i > Len(t))
      BY <1>0, <1>5
    <3> QED
      BY <1>5, <3>1, Zenon DEF ParseAt
  <2>2. <<Bad>> \in V
    BY <1>1, PieceTypes
  <2> QED
    BY <2>1, <2>2, Zenon
<1>6. CASE i < Len(t) /\ t[i] = Backslash
  <2> DEFINE Octals == OctalAt(t, i + 1) /\ OctalAt(t, i + 2) /\ OctalAt(t, i + 3)
  <2>0. ~ (i > Len(t)) /\ i # Len(t) /\ i + 1 \in 1..Len(t)
    BY <1>0, <1>6
  <2>1. CASE t[i + 1] = "g" /\ (i + 2 > Len(t) \/ t[i + 2] # "<" \/ close = 0 \/ name = <<>>)
    <3>1. \A p : ParseAt(m, t, index, p, i) = <<Bad>>
      BY <1>6, <2>0, <2>1, Zenon DEF ParseAt
    <3>2. <<Bad>> \in V
      BY <1>1, PieceTypes
    <3> QED
      BY <3>1, <3>2, Zenon
  <2>2. CASE t[i + 1] = "g" /\ ~ (i + 2 > Len(t) \/ t[i + 2] # "<" \/ close = 0 \/ name = <<>>)
    <3>1. \A p : ParseAt(m, t, index, p, i) = <<NamedPiece(m, index, name)>> \o p[close + 1]
      BY <1>6, <2>0, <2>2, Zenon DEF ParseAt
    <3>2. <<NamedPiece(m, index, name)>> \in V
      BY <1>1, PieceTypes
    <3>3. close + 1 \in i + 1..Len(t) + 3
      <4>1. i + 3 \in Nat \ {0} /\ close # 0
        BY <1>0, <2>2
      <4>2. close \in i + 3..Len(t)
        BY <4>1, Found
      <4> QED
        BY <1>0, <4>2
    <3> QED
      BY <3>1, <3>2, <3>3, Zenon
  <2>3. CASE t[i + 1] # "g" /\ t[i + 1] = "0"
    <3> DEFINE next == i + 2 + (IF ~OctalAt(t, i + 2) THEN 0 ELSE IF ~OctalAt(t, i + 3) THEN 1 ELSE 2)
    <3>1. \A p : ParseAt(m, t, index, p, i) = <<Character("octal")>> \o p[next]
      BY <1>6, <2>0, <2>3, Zenon DEF ParseAt
    <3>2. <<Character("octal")>> \in V
      <4>1. Character("octal") \in Pieces(m)
        BY PieceTypes, AlphabetHas
      <4> QED
        BY <1>1, <4>1
    <3>3. next \in i + 1..Len(t) + 3
      BY <1>0, <1>6 DEF OctalAt
    <3> HIDE DEF next
    <3> QED
      BY <3>1, <3>2, <3>3, Zenon
  <2>4. CASE t[i + 1] # "g" /\ t[i + 1] # "0" /\ Octals
    <3>1. CASE Value[t[i + 1]] > 3
      <4>1. \A p : ParseAt(m, t, index, p, i) = <<Bad>>
        BY <1>6, <2>0, <2>4, <3>1, Zenon DEF ParseAt
      <4>2. <<Bad>> \in V
        BY <1>1, PieceTypes
      <4> QED
        BY <4>1, <4>2, Zenon
    <3>2. CASE ~ (Value[t[i + 1]] > 3)
      <4>1. \A p : ParseAt(m, t, index, p, i) = <<Character("octal")>> \o p[i + 4]
        BY <1>6, <2>0, <2>4, <3>2, Zenon DEF ParseAt
      <4>2. <<Character("octal")>> \in V
        <5>1. Character("octal") \in Pieces(m)
          BY PieceTypes, AlphabetHas
        <5> QED
          BY <1>1, <5>1
      <4>3. i + 4 \in i + 1..Len(t) + 3
        BY <1>0, <2>4 DEF OctalAt
      <4> QED
        BY <4>1, <4>2, <4>3, Zenon
    <3> QED
      BY <3>1, <3>2
  <2>5. CASE t[i + 1] # "g" /\ t[i + 1] # "0" /\ ~Octals /\ t[i + 1] \in Digits /\ DigitAt(t, i + 2)
    <3>1. \A p : ParseAt(m, t, index, p, i) = <<GroupPiece(m, NumberOf(<<t[i + 1], t[i + 2]>>))>> \o p[i + 3]
      BY <1>6, <2>0, <2>5, Zenon DEF ParseAt
    <3>2. <<GroupPiece(m, NumberOf(<<t[i + 1], t[i + 2]>>))>> \in V
      BY <1>1, PieceTypes
    <3>3. i + 3 \in i + 1..Len(t) + 3
      BY <1>0, <2>0
    <3> QED
      BY <3>1, <3>2, <3>3, Zenon
  <2>6. CASE t[i + 1] # "g" /\ t[i + 1] # "0" /\ ~Octals /\ ~ (t[i + 1] \in Digits /\ DigitAt(t, i + 2))
    <3> DEFINE head == IF t[i + 1] \in Digits THEN <<GroupPiece(m, Value[t[i + 1]])>>
                       ELSE IF t[i + 1] = Backslash THEN <<Character(Backslash)>>
                       ELSE IF t[i + 1] = "n" THEN <<Character("newline")>>
                       ELSE <<Character(Backslash), Character(t[i + 1])>>
    <3>1. \A p : ParseAt(m, t, index, p, i) = head \o p[i + 2]
      BY <1>6, <2>0, <2>6, Zenon DEF ParseAt
    <3>2. head \in V
      <4>1. Backslash \in Alphabet /\ t[i + 1] \in Alphabet
        BY <1>0, <2>0, AlphabetHas
      <4>2. \A x, y \in Pieces(m) : <<x, y>> \in V
        BY DEF V
      <4>3. Character(Backslash) \in Pieces(m) /\ Character(t[i + 1]) \in Pieces(m)
        BY <4>1, PieceTypes
      <4>4. Character("newline") \in Pieces(m)
        BY AlphabetHas, PieceTypes
      <4>5. GroupPiece(m, Value[t[i + 1]]) \in Pieces(m)
        BY PieceTypes
      <4> QED
        BY <1>1, <4>2, <4>3, <4>4, <4>5, Zenon
    <3>3. i + 2 \in i + 1..Len(t) + 3
      BY <1>0, <2>0
    <3> HIDE DEF head
    <3> QED
      BY <3>1, <3>2, <3>3, Zenon
  <2> QED
    BY <2>1, <2>2, <2>3, <2>4, <2>5, <2>6, Zenon
<1>7. i > Len(t) \/ (~ (i > Len(t)) /\ (i = Len(t) \/ i < Len(t)))
  BY <1>0
<1> QED
  BY <1>3, <1>4, <1>5, <1>6, <1>7, Zenon

LEMMA Parsing ==
  ASSUME NEW m, NEW t \in Seq(Alphabet), NEW index
  PROVE  \E p : IsParse(m, t, index, p) /\ parse_template(m, t, index) = p[1]
<1> DEFINE D == 1..Len(t) + 3
           V == Seq(Pieces(m))
           N == Len(t) + 3
           measure == [i \in D |-> N - i]
           value == [x \in [D -> V] \X D |-> ParseAt(m, t, index, x[1], x[2])]
<1>0. Len(t) \in Nat /\ N \in Nat
  OBVIOUS
<1>1. V # {}
  <2>1. <<>> \in V
    OBVIOUS
  <2> QED
    BY <2>1
<1>2. \A f \in [D -> V], i \in D : value[<<f, i>>] = ParseAt(m, t, index, f, i)
  <2> DEFINE ValueAt(f, i) == ParseAt(m, t, index, f, i)
  <2> HIDE DEF ValueAt
  <2>1. \A f \in [D -> V], i \in D : [x \in [D -> V] \X D |-> ValueAt(x[1], x[2])][<<f, i>>] = ValueAt(f, i)
    <3> HIDE DEF D, V
    <3> QED
      OBVIOUS
  <2> QED
    BY <2>1, Zenon DEF ValueAt
<1> HIDE DEF value
<1>3. measure \in [D -> 0..N] /\ \A x, y \in D : measure[y] < measure[x] <=> y > x
  BY <1>0
<1>4. ASSUME NEW f \in [D -> V], NEW i \in D PROVE value[<<f, i>>] \in V
  <2>1. value[<<f, i>>] = ParseAt(m, t, index, f, i)
    BY <1>2
  <2>2. CASE ParseEnds(m, t, index, i)
    BY <2>1, <2>2, Zenon DEF ParseEnds
  <2>3. CASE ParseGoesOn(m, t, index, i)
    <3>1. PICK head \in V, next \in i + 1..N : \A p : ParseAt(m, t, index, p, i) = head \o p[next]
      BY <2>3, Zenon DEF ParseGoesOn
    <3>2. next \in D
      BY <1>0
    <3>3. f[next] \in Seq(Pieces(m)) /\ head \in Seq(Pieces(m))
      <4> HIDE DEF V
      <4>1. f[next] \in V /\ head \in V
        BY <3>2
      <4> QED
        BY <4>1 DEF V
    <3>4. head \o f[next] \in V
      BY <3>3, ConcatProperties
    <3> QED
      BY <2>1, <3>1, <3>4, Zenon
  <2> QED
    BY <2>2, <2>3, ParseStep
<1>5. ASSUME NEW f \in [D -> V], NEW g \in [D -> V], NEW i \in D,
             \A y \in D : measure[y] < measure[i] => f[y] = g[y]
      PROVE  value[<<f, i>>] = value[<<g, i>>]
  <2>1. value[<<f, i>>] = ParseAt(m, t, index, f, i) /\ value[<<g, i>>] = ParseAt(m, t, index, g, i)
    BY <1>2
  <2>2. CASE ParseEnds(m, t, index, i)
    BY <2>1, <2>2, Zenon DEF ParseEnds
  <2>3. CASE ParseGoesOn(m, t, index, i)
    <3>1. PICK head \in V, next \in i + 1..N : \A p : ParseAt(m, t, index, p, i) = head \o p[next]
      BY <2>3, Zenon DEF ParseGoesOn
    <3>2. next \in D /\ next > i
      BY <1>0
    <3>3. f[next] = g[next]
      <4> HIDE DEF measure, V
      <4> QED
        BY <1>3, <1>5, <3>2
    <3> QED
      BY <2>1, <3>1, <3>3, Zenon
  <2> QED
    BY <2>2, <2>3, ParseStep
<1>6. IsRecursive(D, V, N, measure, value)
  <2> HIDE DEF D, V, N, measure
  <2> QED
    BY <1>3, <1>4, <1>5, Zenon DEF IsRecursive
<1>7. PICK f \in [D -> V] : IsFixed(D, f, value)
  <2> HIDE DEF D, V, N, measure
  <2> QED
    BY <1>0, <1>1, <1>6, Recursion
<1>8. f = [i \in D |-> ParseAt(m, t, index, f, i)]
  <2>1. \A i \in D : f[i] = ParseAt(m, t, index, f, i)
    <3> HIDE DEF D, V
    <3> QED
      BY <1>2, <1>7 DEF IsFixed
  <2> HIDE DEF D, V
  <2> QED
    BY <2>1
<1> DEFINE p == CHOOSE p : p = [i \in D |-> ParseAt(m, t, index, p, i)]
<1>9. p = [i \in D |-> ParseAt(m, t, index, p, i)]
  <2> HIDE DEF D, V
  <2> QED
    BY <1>8
<1>10. parse_template(m, t, index) = p[1]
  BY Zenon DEF parse_template, ParseAt, NamedPiece, GroupPiece, DigitAt, OctalAt
<1> HIDE DEF p
<1>11. \A i \in D : p[i] = ParseAt(m, t, index, p, i)
  <2> HIDE DEF D
  <2> QED
    BY <1>9
<1> DEFINE T == {k \in Nat : k \in 0..N => \A i \in D : N - i = k => p[i] \in V}
<1>12. ASSUME NEW k \in 0..N, \A j \in 0..k - 1 : j \in T PROVE k \in T
  <2> SUFFICES ASSUME NEW i \in D, N - i = k PROVE p[i] \in V
    BY <1>0
  <2>1. p[i] = ParseAt(m, t, index, p, i)
    BY <1>11
  <2>2. CASE ParseEnds(m, t, index, i)
    BY <2>1, <2>2, Zenon DEF ParseEnds
  <2>3. CASE ParseGoesOn(m, t, index, i)
    <3>1. PICK head \in V, next \in i + 1..N : \A q : ParseAt(m, t, index, q, i) = head \o q[next]
      BY <2>3, Zenon DEF ParseGoesOn
    <3>2. next \in D /\ N - next \in 0..k - 1 /\ N - next \in 0..N
      BY <1>0
    <3>3. p[next] \in V
      <4>1. N - next \in T
        <5> HIDE DEF T
        <5> QED
          BY <1>12, <3>2
      <4> HIDE DEF V, D, N
      <4> QED
        BY <3>2, <4>1
    <3>4. head \o p[next] \in V
      BY <3>3, ConcatProperties
    <3> QED
      BY <2>1, <3>1, <3>4, Zenon
  <2> QED
    BY <2>2, <2>3, ParseStep
<1>13. 0..N \subseteq T
  <2> HIDE DEF T, N
  <2> QED
    BY <1>0, <1>12, NumbersIn
<1>14. ASSUME NEW i \in D PROVE p[i] \in V
  <2>1. N - i \in 0..N
    BY <1>0
  <2>2. N - i \in T
    <3> HIDE DEF T, N
    <3> QED
      BY <1>13, <2>1
  <2> HIDE DEF V, D, N
  <2> QED
    BY <2>1, <2>2
<1>15. IsParse(m, t, index, p)
  <2>1. p = [i \in D |-> p[i]]
    <3> HIDE DEF D
    <3> QED
      BY <1>9
  <2>2. p \in [D -> V]
    <3> HIDE DEF D, V
    <3> QED
      BY <1>14, <2>1
  <2> QED
    BY <1>11, <2>2 DEF IsParse
<1> QED
  BY <1>10, <1>15

-----------------------------------------------------------------------------
(* What the parser reads at a place. *)

LEMMA CharactersCons ==
  ASSUME NEW c \in Alphabet, NEW u \in Seq(Alphabet)
  PROVE  Characters(<<c>> \o u) = <<Character(c)>> \o Characters(u)
<1> DEFINE P == {Character(x) : x \in Alphabet}
<1>1. /\ <<c>> \in Seq(Alphabet) /\ Len(<<c>>) = 1 /\ <<c>>[1] = c
      /\ <<Character(c)>> \in Seq(P) /\ Len(<<Character(c)>>) = 1 /\ <<Character(c)>>[1] = Character(c)
  OBVIOUS
<1>2. /\ <<c>> \o u \in Seq(Alphabet) /\ Len(<<c>> \o u) = 1 + Len(u)
      /\ \A i \in 1..1 + Len(u) : (<<c>> \o u)[i] = IF i <= 1 THEN <<c>>[i] ELSE u[i - 1]
  BY <1>1, ConcatProperties
<1>3. \A v \in Seq(Alphabet) : /\ Characters(v) \in Seq(P) /\ Len(Characters(v)) = Len(v)
                               /\ \A i \in 1..Len(v) : Characters(v)[i] = Character(v[i])
  <2> TAKE v \in Seq(Alphabet)
  <2>1. Len(v) \in Nat /\ DOMAIN v = 1..Len(v) /\ \A i \in 1..Len(v) : Character(v[i]) \in P
    OBVIOUS
  <2>2. Characters(v) = [i \in 1..Len(v) |-> Character(v[i])]
    BY <2>1, Zenon DEF Characters
  <2> HIDE DEF P
  <2> QED
    BY <2>1, <2>2
<1> HIDE DEF P
<1>4. /\ <<Character(c)>> \o Characters(u) \in Seq(P) /\ Len(<<Character(c)>> \o Characters(u)) = 1 + Len(u)
      /\ \A i \in 1..1 + Len(u) : (<<Character(c)>> \o Characters(u))[i]
                                   = IF i <= 1 THEN <<Character(c)>>[i] ELSE Characters(u)[i - 1]
  <2>1. Characters(u) \in Seq(P) /\ Len(Characters(u)) = Len(u)
    BY <1>3
  <2> QED
    BY <1>1, <2>1, ConcatProperties
<1>5. ASSUME NEW i \in 1..1 + Len(u)
      PROVE  Characters(<<c>> \o u)[i] = (<<Character(c)>> \o Characters(u))[i]
  <2>1. Characters(<<c>> \o u)[i] = Character((<<c>> \o u)[i])
    BY <1>2, <1>3, Zenon
  <2>2. CASE i = 1
    <3>1. i <= 1
      BY <2>2
    <3>2. (<<c>> \o u)[i] = c /\ (<<Character(c)>> \o Characters(u))[i] = Character(c)
      BY <1>1, <1>2, <1>4, <2>2, <3>1, Zenon
    <3> QED
      BY <2>1, <3>2, Zenon
  <2>3. CASE i # 1
    <3>1. ~ (i <= 1) /\ i - 1 \in 1..Len(u)
      <4>1. Len(u) \in Nat
        OBVIOUS
      <4> QED
        BY <2>3, <4>1
    <3>2. (<<c>> \o u)[i] = u[i - 1] /\ (<<Character(c)>> \o Characters(u))[i] = Characters(u)[i - 1]
      BY <1>2, <1>4, <3>1, Zenon
    <3>3. Characters(u)[i - 1] = Character(u[i - 1])
      BY <1>3, <3>1, Zenon
    <3> QED
      BY <2>1, <3>2, <3>3, Zenon
  <2> QED
    BY <2>2, <2>3
<1>6. Characters(<<c>> \o u) \in Seq(P) /\ Len(Characters(<<c>> \o u)) = 1 + Len(u)
  BY <1>2, <1>3, Zenon
<1> QED
  BY <1>4, <1>5, <1>6, SeqEqual

\* The text up to the next backslash.
Plain(t, i, j) == \A k \in i..j - 1 : t[k] # Backslash
ReadsText(p, i, j, u) == u \in Seq(Alphabet) /\ p[i] = Characters(u) \o p[j]

LEMMA PlainText ==
  ASSUME NEW m, NEW t \in Seq(Alphabet), NEW index, NEW p, IsParse(m, t, index, p),
         NEW i \in 1..Len(t) + 1, NEW j \in i..Len(t) + 1, Plain(t, i, j)
  PROVE  ReadsText(p, i, j, SubSeq(t, i, j - 1))
<1>0. Len(t) \in Nat /\ i \in Nat /\ j \in Nat /\ \A k \in 1..Len(t) : t[k] \in Alphabet
  OBVIOUS
<1>1. \A k \in i..j : SubSeq(t, k, j - 1) \in Seq(Alphabet)
  <2> TAKE k \in i..j
  <2>1. \A x \in k..j - 1 : t[x] \in Alphabet
    BY <1>0
  <2> QED
    BY <1>0, <2>1, SubSeqProperties
<1>2. \A k \in 1..Len(t) + 3 : p[k] \in Seq(Pieces(m))
  BY DEF IsParse
<1> DEFINE Q(k) == p[j - k] = Characters(SubSeq(t, j - k, j - 1)) \o p[j]
           T == {k \in Nat : k \in 0..j - i => Q(k)}
<1>3. 0 \in T
  <2>1. j - 0 = j /\ j \in 1..Len(t) + 3 /\ j - 1 < j
    BY <1>0
  <2>2. SubSeq(t, j, j - 1) = <<>>
    BY <1>0, <2>1, SubSeqEmpty
  <2>3. Characters(<<>>) = <<>>
    BY DEF Characters
  <2>4. p[j] \in Seq(Pieces(m))
    BY <1>2, <2>1
  <2>5. <<>> \o p[j] = p[j]
    BY <2>4, ConcatEmptySeq
  <2>6. Q(0)
    BY <2>1, <2>2, <2>3, <2>5, Zenon
  <2> HIDE DEF Q
  <2> QED
    BY <2>6
<1>4. ASSUME NEW k \in 0..(j - i) - 1, k \in T PROVE k + 1 \in T
  <2> DEFINE x == j - (k + 1)
  <2>1. /\ x \in i..j - 1 /\ x \in 1..Len(t) /\ x \in 1..Len(t) + 3 /\ x + 1 = j - k /\ k \in 0..j - i
        /\ k + 1 \in Nat /\ j - 1 \in x..Len(t) /\ x + 1 \in i..j /\ x + 1 \in 1..Len(t) + 3
        /\ ~ (x > Len(t)) /\ j \in 1..Len(t) + 3
    BY <1>0
  <2>2. Q(k)
    <3> HIDE DEF Q
    <3> QED
      BY <1>4, <2>1
  <2> HIDE DEF x
  <2>3. t[x] # Backslash
    BY <2>1 DEF Plain
  <2>4. p[x] = <<Character(t[x])>> \o p[x + 1]
    BY <2>1, <2>3, Zenon DEF IsParse, ParseAt
  <2>5. p[x + 1] = Characters(SubSeq(t, x + 1, j - 1)) \o p[j]
    BY <2>1, <2>2, Zenon
  <2>6. SubSeq(t, x, j - 1) = <<t[x]>> \o SubSeq(t, x + 1, j - 1)
    BY <2>1, SubSeqRecursiveFirst
  <2>7. t[x] \in Alphabet /\ SubSeq(t, x + 1, j - 1) \in Seq(Alphabet)
    BY <1>0, <1>1, <2>1, Zenon
  <2>8. Characters(SubSeq(t, x, j - 1)) = <<Character(t[x])>> \o Characters(SubSeq(t, x + 1, j - 1))
    BY <2>6, <2>7, CharactersCons
  <2>9. /\ <<Character(t[x])>> \in Seq(Pieces(m)) /\ p[j] \in Seq(Pieces(m))
        /\ Characters(SubSeq(t, x + 1, j - 1)) \in Seq(Pieces(m))
    <3>1. \A c \in Alphabet : Character(c) \in Pieces(m)
      BY PieceTypes
    <3>2. Character(t[x]) \in Pieces(m)
      BY <2>7, <3>1
    <3>3. \A u \in Seq(Alphabet) : Characters(u) \in Seq(Pieces(m))
      <4> TAKE u \in Seq(Alphabet)
      <4>1. Len(u) \in Nat /\ DOMAIN u = 1..Len(u) /\ \A y \in 1..Len(u) : u[y] \in Alphabet
        OBVIOUS
      <4>2. \A y \in 1..Len(u) : Character(u[y]) \in Pieces(m)
        BY <3>1, <4>1
      <4>3. Characters(u) = [y \in 1..Len(u) |-> Character(u[y])]
        BY <4>1, Zenon DEF Characters
      <4> QED
        BY <4>1, <4>2, <4>3
    <3>4. \A y \in Pieces(m) : <<y>> \in Seq(Pieces(m))
      OBVIOUS
    <3> QED
      BY <1>2, <2>1, <2>7, <3>2, <3>3, <3>4, Zenon
  <2>10. \A a, b, c \in Seq(Pieces(m)) : (a \o b) \o c = a \o (b \o c)
    <3>1. Regroups(Pieces(m))
      BY ONLY Regroup, Zenon
    <3> QED
      BY ONLY <3>1, Zenon DEF Regroups
  <2>11. p[x] = Characters(SubSeq(t, x, j - 1)) \o p[j]
    <3>1. (<<Character(t[x])>> \o Characters(SubSeq(t, x + 1, j - 1))) \o p[j]
            = <<Character(t[x])>> \o (Characters(SubSeq(t, x + 1, j - 1)) \o p[j])
      BY ONLY <2>9, <2>10, Zenon
    <3> QED
      BY ONLY <2>4, <2>5, <2>8, <3>1, Zenon
  <2>12. Q(k + 1)
    BY <2>11, Zenon DEF x
  <2> HIDE DEF Q
  <2> QED
    BY <2>1, <2>12
<1>5. 0..j - i \subseteq T
  <2>1. j - i \in Nat
    BY <1>0
  <2> HIDE DEF T
  <2> QED
    BY <1>3, <1>4, <2>1, StepsUp
<1>6. Q(j - i)
  <2>1. j - i \in 0..j - i /\ j - i \in Nat
    BY <1>0
  <2> HIDE DEF Q
  <2> QED
    BY <1>5, <2>1
<1>7. j - (j - i) = i /\ i \in i..j
  BY <1>0
<1> QED
  BY <1>1, <1>6, <1>7, Zenon DEF ReadsText

\* At s the parser reads the piece, and goes on at end.
ReadsAs(p, s, piece, end) == p[s] = <<piece>> \o p[end]

LEMMA ReadsDigit ==
  ASSUME NEW m, NEW t \in Seq(Alphabet), NEW index, NEW p, IsParse(m, t, index, p),
         NEW s \in 1..Len(t) - 1, t[s] = Backslash, SingleDigit(t, s)
  PROVE  ReadsAs(p, s, GroupPiece(m, Value[t[s + 1]]), s + 2)
<1>1. Len(t) \in Nat /\ s \in 1..Len(t) + 3 /\ ~ (s > Len(t)) /\ s # Len(t)
  OBVIOUS
<1>2. t[s + 1] \in Digits /\ t[s + 1] # "0" /\ t[s + 1] # "g"
  BY DEF SingleDigit, Digits
<1>3. ~ DigitAt(t, s + 2) /\ ~ OctalAt(t, s + 2)
  BY DEF SingleDigit, DigitAt, OctalAt, OctalDigits
<1> QED
  BY <1>1, <1>2, <1>3, Zenon DEF IsParse, ParseAt, ReadsAs

LEMMA ReadsBackslash ==
  ASSUME NEW m, NEW t \in Seq(Alphabet), NEW index, NEW p, IsParse(m, t, index, p),
         NEW s \in 1..Len(t) - 1, t[s] = Backslash, t[s + 1] = Backslash
  PROVE  ReadsAs(p, s, Character(Backslash), s + 2)
<1>1. Len(t) \in Nat /\ s \in 1..Len(t) + 3 /\ ~ (s > Len(t)) /\ s # Len(t)
  OBVIOUS
<1>2. Backslash \notin Digits /\ Backslash # "0" /\ Backslash # "g"
  BY DEF Digits, Backslash
<1>3. ~ OctalAt(t, s + 1)
  BY <1>2 DEF OctalAt, OctalDigits
<1> QED
  BY <1>1, <1>2, <1>3, Zenon DEF IsParse, ParseAt, ReadsAs

LEMMA ReadsName ==
  ASSUME NEW m, NEW t \in Seq(Alphabet), NEW index, NEW p, IsParse(m, t, index, p),
         NEW s \in 1..Len(t), t[s] = Backslash, HasName(Bracketed(t, s))
  PROVE  /\ Bracketed(t, s).close \in s + 3..Len(t)
         /\ ReadsAs(p, s, NamedPiece(m, index, Bracketed(t, s).name), Bracketed(t, s).close + 1)
<1> DEFINE close == FindChar(t, ">", s + 3)
           name == SubSeq(t, s + 3, close - 1)
           Opens == Len(t) - s >= 4 /\ t[s + 1] = "g" /\ t[s + 2] = "<"
           spot == IF Opens THEN close ELSE 0
<1>1. Bracketed(t, s) = [close |-> spot, name |-> SubSeq(t, s + 3, spot - 1)]
  BY Zenon DEF Bracketed
<1>2. Opens /\ close # 0 /\ name # <<>>
  <2>1. spot # 0
    BY <1>1 DEF HasName
  <2>2. Opens /\ spot = close
    BY <2>1
  <2>3. Bracketed(t, s).name # <<>>
    BY DEF HasName
  <2> HIDE DEF Opens, close
  <2>4. spot = close
    BY <2>2
  <2> HIDE DEF spot
  <2> QED
    BY <1>1, <2>1, <2>2, <2>3, <2>4
<1>3. Bracketed(t, s).close = close /\ Bracketed(t, s).name = name
  <2>1. spot = close
    BY <1>2, Zenon
  <2> HIDE DEF spot, close, Opens
  <2> DEFINE inside == SubSeq(t, s + 3, spot - 1)
  <2>2. Bracketed(t, s) = [close |-> spot, name |-> inside]
    BY <1>1
  <2> HIDE DEF inside
  <2>3. Bracketed(t, s).close = spot /\ Bracketed(t, s).name = inside
    BY ONLY <2>2
  <2> QED
    BY <2>1, <2>3, Zenon DEF inside
<1>4. Len(t) \in Nat /\ s \in Nat /\ s + 3 \in Nat \ {0}
  OBVIOUS
<1>5. close \in s + 3..Len(t)
  BY <1>2, <1>4, Found
<1>6. s \in 1..Len(t) + 3 /\ ~ (s > Len(t)) /\ s # Len(t) /\ ~ (s + 2 > Len(t))
  BY <1>2, <1>4
<1>7. p[s] = ParseAt(m, t, index, p, s)
  BY <1>6, Zenon DEF IsParse
<1>8. p[s] = <<NamedPiece(m, index, name)>> \o p[close + 1]
  BY <1>2, <1>6, <1>7, Zenon DEF ParseAt
<1> HIDE DEF close, name
<1> QED
  BY <1>3, <1>5, <1>8, Zenon DEF ReadsAs

-----------------------------------------------------------------------------
(* Tokens. *)

Tokens(m) == [slash : Nat, end : Nat \ {0}, group : {-1} \cup DOMAIN m.value]
TokenText(m, token) == IF token.group = -1 THEN <<Backslash>> ELSE ValueOf(m, token.group)

\* Every name stands for the group GroupOf has it for.
IsIndex(m, index) ==
  DOMAIN index = DOMAIN groupindex(m) /\ \A name \in DOMAIN index : index[name] = GroupOf(m, name)

\* The parser reads the token as the piece it stands for.
Stands(m, t, p, token) ==
  /\ token \in Tokens(m) /\ token.slash \in 1..Len(t) /\ token.end \in token.slash + 1..Len(t) + 1
  /\ \E piece \in Pieces(m) : /\ piece # Bad /\ RenderedPiece(m, piece) = TokenText(m, token)
                              /\ ReadsAs(p, token.slash, piece, token.end)

LEMMA GroupsAreNumbers ==
  ASSUME NEW m, IsNamedMatch(m)
  PROVE  DOMAIN m.value \subseteq Nat /\ -1 \notin DOMAIN m.value
<1>1. DOMAIN m.value \subseteq Nat
  BY Zenon DEF IsNamedMatch
<1> QED
  BY ONLY <1>1

LEMMA GroupStands ==
  ASSUME NEW m, IsNamedMatch(m), NEW t, NEW p, NEW s \in 1..Len(t), NEW end \in s + 1..Len(t) + 1,
         Len(t) \in Nat, NEW g \in DOMAIN m.value, ReadsAs(p, s, GroupPiece(m, g), end)
  PROVE  Stands(m, t, p, Token(s, end, g))
<1> DEFINE token == Token(s, end, g)
<1>1. g \in Nat /\ g # -1
  BY GroupsAreNumbers
<1>2. token.slash = s /\ token.end = end /\ token.group = g /\ token \in Tokens(m)
  BY DEF Token, Tokens
<1>3. GroupPiece(m, g) = Group(g) /\ GroupPiece(m, g) \in Pieces(m)
  BY PieceTypes, Zenon DEF GroupPiece
<1>4. Group(g).group = g /\ Bad.group = -1
  BY DEF Group, Bad, Character
<1>5. Group(g) # Bad
  BY <1>1, <1>4
<1>6. RenderedPiece(m, Group(g)) = ValueOf(m, g) /\ TokenText(m, token) = ValueOf(m, g)
  BY <1>1, <1>2, <1>4, Zenon DEF RenderedPiece, TokenText
<1> HIDE DEF token
<1>7. \E piece \in Pieces(m) : /\ piece # Bad /\ RenderedPiece(m, piece) = TokenText(m, token)
                              /\ ReadsAs(p, token.slash, piece, token.end)
  BY <1>2, <1>3, <1>5, <1>6, Zenon
<1>8. token \in Tokens(m) /\ token.slash \in 1..Len(t) /\ token.end \in token.slash + 1..Len(t) + 1
  BY <1>2
<1>9. Stands(m, t, p, token)
  BY <1>7, <1>8, Zenon DEF Stands
<1> QED
  BY <1>9 DEF token

LEMMA BackslashStands ==
  ASSUME NEW m, NEW t, NEW p, NEW s \in 1..Len(t), NEW end \in s + 1..Len(t) + 1,
         Len(t) \in Nat, ReadsAs(p, s, Character(Backslash), end)
  PROVE  Stands(m, t, p, Token(s, end, -1))
<1> DEFINE token == Token(s, end, -1)
<1>1. token.slash = s /\ token.end = end /\ token.group = -1 /\ token \in Tokens(m)
  BY DEF Token, Tokens
<1>2. Character(Backslash) \in Pieces(m)
  BY PieceTypes, AlphabetHas
<1>3. Character(Backslash).text = Backslash /\ Character(Backslash).group = -1 /\ Bad.text = "bad"
  BY DEF Bad, Character
<1>4. Character(Backslash) # Bad
  BY <1>3 DEF Backslash
<1>5. RenderedPiece(m, Character(Backslash)) = <<Backslash>> /\ TokenText(m, token) = <<Backslash>>
  BY <1>1, <1>3, Zenon DEF RenderedPiece, TokenText
<1> HIDE DEF token
<1>6. \E piece \in Pieces(m) : /\ piece # Bad /\ RenderedPiece(m, piece) = TokenText(m, token)
                              /\ ReadsAs(p, token.slash, piece, token.end)
  BY <1>1, <1>2, <1>4, <1>5, Zenon
<1>7. token \in Tokens(m) /\ token.slash \in 1..Len(t) /\ token.end \in token.slash + 1..Len(t) + 1
  BY <1>1
<1>8. Stands(m, t, p, token)
  BY <1>6, <1>7, Zenon DEF Stands
<1> QED
  BY <1>8 DEF token

\* A name between brackets: the group it names is the one the parser finds.
LEMMA NamedIs ==
  ASSUME NEW m, IsNamedMatch(m), NEW index, IsIndex(m, index), NEW name
  PROVE  /\ AllDigits(name) => NamedPiece(m, index, name) = GroupPiece(m, NumberOf(name))
         /\ ~AllDigits(name) /\ match_expand_resolve_ascii_name(m, name) \in DOMAIN m.value =>
              NamedPiece(m, index, name) = GroupPiece(m, match_expand_resolve_ascii_name(m, name))
<1>1. AllDigits(name) => NamedPiece(m, index, name) = GroupPiece(m, NumberOf(name))
  BY Zenon DEF NamedPiece
<1>2. ASSUME ~AllDigits(name), match_expand_resolve_ascii_name(m, name) \in DOMAIN m.value
      PROVE  NamedPiece(m, index, name) = GroupPiece(m, match_expand_resolve_ascii_name(m, name))
  <2>1. match_expand_resolve_ascii_name(m, name) # -1
    BY <1>2, GroupsAreNumbers
  <2>2. EntriesNamed(m, name) # {}
    BY <2>1, NamesStandForGroups
  <2>3. name \in DOMAIN index /\ index[name] = match_expand_resolve_ascii_name(m, name)
    BY <2>2, NamesStandForGroups DEF IsIndex
  <2> QED
    BY <1>2, <2>3, Zenon DEF NamedPiece
<1> QED
  BY <1>1, <1>2

\* What a reader of one reference needs: brackets, or one digit.
LEMMA NameStands ==
  ASSUME NEW m, IsNamedMatch(m), NEW t \in Seq(Alphabet), NEW index, IsIndex(m, index),
         NEW p, IsParse(m, t, index, p), NEW s \in 1..Len(t), t[s] = Backslash, HasName(Bracketed(t, s)),
         NEW g \in DOMAIN m.value,
         g = IF AllDigits(Bracketed(t, s).name) THEN NumberOf(Bracketed(t, s).name)
             ELSE match_expand_resolve_ascii_name(m, Bracketed(t, s).name)
  PROVE  Stands(m, t, p, Token(s, Bracketed(t, s).close + 1, g))
<1> DEFINE close == Bracketed(t, s).close
           name == Bracketed(t, s).name
<1>1. close \in s + 3..Len(t) /\ ReadsAs(p, s, NamedPiece(m, index, name), close + 1)
  BY ReadsName
<1>2. NamedPiece(m, index, name) = GroupPiece(m, g)
  <2>1. /\ AllDigits(name) => NamedPiece(m, index, name) = GroupPiece(m, NumberOf(name))
        /\ ~AllDigits(name) /\ match_expand_resolve_ascii_name(m, name) \in DOMAIN m.value =>
              NamedPiece(m, index, name) = GroupPiece(m, match_expand_resolve_ascii_name(m, name))
    BY NamedIs
  <2> QED
    BY <2>1, Zenon
<1>3. Len(t) \in Nat
  OBVIOUS
<1> HIDE DEF close, name
<1>4. close + 1 \in s + 1..Len(t) + 1
  BY <1>1, <1>3
<1>5. ReadsAs(p, s, GroupPiece(m, g), close + 1)
  BY <1>1, <1>2, Zenon
<1>6. Stands(m, t, p, Token(s, close + 1, g))
  BY <1>3, <1>4, <1>5, GroupStands
<1> QED
  BY <1>6 DEF close

LEMMA DigitStands ==
  ASSUME NEW m, IsNamedMatch(m), NEW t \in Seq(Alphabet), NEW index,
         NEW p, IsParse(m, t, index, p), NEW s \in 1..Len(t) - 1, t[s] = Backslash, SingleDigit(t, s),
         Value[t[s + 1]] \in DOMAIN m.value
  PROVE  Stands(m, t, p, Token(s, s + 2, Value[t[s + 1]]))
<1>1. ReadsAs(p, s, GroupPiece(m, Value[t[s + 1]]), s + 2)
  BY ReadsDigit
<1>2. Len(t) \in Nat /\ s \in 1..Len(t) /\ s + 2 \in s + 1..Len(t) + 1
  OBVIOUS
<1> QED
  BY <1>1, <1>2, GroupStands

LEMMA ReferenceStands ==
  ASSUME NEW m, IsNamedMatch(m), NEW t \in Seq(Alphabet), NEW index, IsIndex(m, index),
         NEW p, IsParse(m, t, index, p), NEW s \in 1..Len(t), t[s] = Backslash,
         match_expand_parse_reference(m, t, s) # NoToken
  PROVE  /\ Stands(m, t, p, match_expand_parse_reference(m, t, s))
         /\ match_expand_parse_reference(m, t, s).slash = s
<1> DEFINE token == match_expand_parse_reference(m, t, s)
           b == Bracketed(t, s)
<1>1. Len(t) \in Nat /\ s \in Nat
  OBVIOUS
<1>2. \A end, g : Token(s, end, g).slash = s
  BY DEF Token
<1>3. ~ (s >= Len(t))
  BY Zenon DEF match_expand_parse_reference
<1>4. s \in 1..Len(t) - 1
  BY <1>1, <1>3
<1>5. CASE t[s + 1] = Backslash
  <2>1. token = Token(s, s + 2, -1)
    BY <1>3, <1>5, Zenon DEF match_expand_parse_reference
  <2>2. ReadsAs(p, s, Character(Backslash), s + 2)
    BY <1>4, <1>5, ReadsBackslash
  <2>3. s + 2 \in s + 1..Len(t) + 1
    BY <1>1, <1>4
  <2>4. Stands(m, t, p, Token(s, s + 2, -1))
    BY <1>1, <2>2, <2>3, BackslashStands
  <2> QED
    BY <1>2, <2>1, <2>4, Zenon
<1>6. CASE t[s + 1] # Backslash /\ t[s + 1] \in Digits
  <2>1. token = IF SingleDigit(t, s) THEN ReferenceToken(m, s, s + 2, Value[t[s + 1]]) ELSE NoToken
    BY <1>3, <1>6, Zenon DEF match_expand_parse_reference
  <2>2. SingleDigit(t, s) /\ Value[t[s + 1]] \in DOMAIN m.value /\ token = Token(s, s + 2, Value[t[s + 1]])
    BY <2>1, Zenon DEF ReferenceToken
  <2>3. Stands(m, t, p, Token(s, s + 2, Value[t[s + 1]]))
    BY <1>4, <2>2, DigitStands
  <2> QED
    BY <1>2, <2>2, <2>3, Zenon
<1>7. CASE t[s + 1] # Backslash /\ t[s + 1] \notin Digits
  <2> DEFINE g == IF AllDigits(b.name) THEN NumberOf(b.name) ELSE match_expand_resolve_ascii_name(m, b.name)
  <2>1. token = IF ~HasName(b) \/ Len(b.name) > NameLimit THEN NoToken ELSE ReferenceToken(m, s, b.close + 1, g)
    BY <1>3, <1>7, Zenon DEF match_expand_parse_reference
  <2>2. HasName(b) /\ g \in DOMAIN m.value /\ token = Token(s, b.close + 1, g)
    BY <2>1, Zenon DEF ReferenceToken
  <2>3. PICK x \in DOMAIN m.value : x = g
    BY <2>2
  <2>4. Stands(m, t, p, Token(s, b.close + 1, x))
    BY <2>2, <2>3, NameStands
  <2> QED
    BY <1>2, <2>2, <2>3, <2>4, Zenon
<1> QED
  BY <1>5, <1>6, <1>7, Zenon

-----------------------------------------------------------------------------
(* Folds from the left. *)

LEMMA GreatestIn ==
  ASSUME NEW n \in Nat, NEW S, S \subseteq 1..n, S # {}
  PROVE  Max(S) \in S /\ \A x \in S : x <= Max(S)
<1> DEFINE R == {n - x : x \in S}
<1>1. R \subseteq Nat /\ R # {}
  <2>1. \A x \in S : n - x \in Nat
    OBVIOUS
  <2> QED
    BY <2>1
<1>2. PICK y \in R : \A x \in R : y <= x
  <2> HIDE DEF R
  <2> QED
    BY <1>1, LeastNumber
<1>3. PICK z \in S : y = n - z
  OBVIOUS
<1>4. \A x \in S : x <= z
  <2> TAKE x \in S
  <2>1. n - x \in R
    OBVIOUS
  <2>2. n - z <= n - x
    <3> HIDE DEF R
    <3> QED
      BY <1>2, <1>3, <2>1
  <2>3. x \in Nat /\ z \in Nat
    OBVIOUS
  <2> QED
    BY ONLY <2>2, <2>3, n \in Nat
<1>5. \E x \in S : \A w \in S : x >= w
  <2>1. \A w \in S : w \in Nat /\ z \in Nat
    OBVIOUS
  <2>2. \A w \in S : z >= w
    BY <1>4, <2>1
  <2> QED
    BY <2>2
<1>6. Max(S) \in S /\ \A w \in S : Max(S) >= w
  BY <1>5 DEF Max
<1> QED
  BY <1>6

LEMMA GreatestUpTo ==
  ASSUME NEW n \in Nat, NEW k \in 1..n
  PROVE  Max(1..k) = k /\ (1..k) \ {Max(1..k)} = 1..k - 1 /\ 1..k \in SUBSET (1..n) /\ 1..k # {}
<1>1. 1..k \subseteq 1..n /\ 1..k # {} /\ k \in 1..k
  OBVIOUS
<1>2. Max(1..k) \in 1..k /\ k <= Max(1..k)
  BY <1>1, GreatestIn
<1>3. Max(1..k) = k
  BY <1>2
<1>4. (1..k) \ {k} = 1..k - 1
  OBVIOUS
<1> QED
  BY <1>1, <1>3, <1>4

\* f takes the members of a set from the greatest down.
IsFold(f, n, base, step) ==
  \A s \in SUBSET (1..n) : f[s] = IF s = {} THEN base ELSE step[<<Max(s), f[s \ {Max(s)}]>>]

LEMMA Folding ==
  ASSUME NEW n \in Nat, NEW V, NEW base \in V, NEW step \in [(1..n) \X V -> V]
  PROVE  \E f \in [SUBSET (1..n) -> V] : IsFold(f, n, base, step)
<1> DEFINE D == SUBSET (1..n)
           measure == [s \in D |-> IF s = {} THEN 0 ELSE Max(s)]
           bases == [s \in D |-> base]
           next == [s \in D |-> s \ {Max(s)}]
           add == [x \in D \X V |-> IF x[1] = {} THEN base ELSE step[<<Max(x[1]), x[2]>>]]
<1>1. \A s \in D : s # {} => Max(s) \in s /\ (\A x \in s : x <= Max(s)) /\ Max(s) \in 1..n
  BY GreatestIn
<1> HIDE DEF D
<1>2. measure \in [D -> 0..n]
  BY <1>1
<1>3. \A s \in D : s \notin {{}} => next[s] \in D /\ measure[next[s]] < measure[s]
  <2> TAKE s \in D
  <2> HAVE s \notin {{}}
  <2>1. s # {} /\ Max(s) \in s /\ Max(s) \in 1..n /\ \A x \in s : x <= Max(s)
    BY <1>1
  <2> DEFINE r == s \ {Max(s)}
  <2>2. r \in D /\ next[s] = r
    BY DEF D
  <2>3. measure[s] = Max(s)
    BY <2>1
  <2>4. CASE r = {}
    <3>1. measure[r] = 0
      BY <2>2, <2>4
    <3> HIDE DEF measure, r, next
    <3> QED
      BY <2>1, <2>2, <2>3, <3>1
  <2>5. CASE r # {}
    <3>1. measure[r] = Max(r) /\ Max(r) \in r /\ Max(r) \in 1..n
      BY <1>1, <2>2, <2>5
    <3>2. Max(r) \in s /\ Max(r) # Max(s)
      BY <3>1
    <3>3. Max(r) <= Max(s)
      BY <2>1, <3>2
    <3> HIDE DEF measure, r, next
    <3> QED
      BY <2>1, <2>2, <2>3, <3>1, <3>2, <3>3
  <2> QED
    BY <2>4, <2>5
<1>4. \A s \in D, v \in V : add[<<s, v>>] = IF s = {} THEN base ELSE step[<<Max(s), v>>]
  OBVIOUS
<1>5. \A s \in D, v \in V : s \notin {{}} => add[<<s, v>>] \in V
  <2> TAKE s \in D, v \in V
  <2> HAVE s \notin {{}}
  <2>1. Max(s) \in 1..n
    BY <1>1
  <2>2. step[<<Max(s), v>>] \in V
    BY <2>1
  <2> HIDE DEF add
  <2> QED
    BY <1>4, <2>2
<1>6. \A s \in D : s \in {{}} => bases[s] \in V
  OBVIOUS
<1>7. IsStepwise(D, V, n, measure, {{}}, bases, next, add)
  <2> HIDE DEF measure, bases, next, add
  <2> QED
    BY <1>2, <1>3, <1>5, <1>6 DEF IsStepwise
<1>8. PICK f \in [D -> V] : IsResult(D, f, {{}}, bases, next, add)
  <2> HIDE DEF measure, bases, next, add
  <2> QED
    BY <1>7, StepwiseRecursion
<1>9. ASSUME NEW s \in D PROVE f[s] = IF s = {} THEN base ELSE step[<<Max(s), f[s \ {Max(s)}]>>]
  <2>1. f[s] = IF s \in {{}} THEN bases[s] ELSE add[<<s, f[next[s]]>>]
    <3> HIDE DEF bases, next, add
    <3> QED
      BY <1>8 DEF IsResult
  <2>2. CASE s = {}
    BY <2>1, <2>2
  <2>3. CASE s # {}
    <3>1. next[s] = s \ {Max(s)} /\ next[s] \in D
      BY DEF D
    <3>2. f[next[s]] \in V
      <4> HIDE DEF next
      <4> QED
        BY <3>1
    <3>3. add[<<s, f[next[s]]>>] = step[<<Max(s), f[next[s]]>>]
      <4> HIDE DEF next, add
      <4> QED
        BY <1>4, <2>3, <3>2
    <3> HIDE DEF next, add, bases
    <3> QED
      BY <2>1, <2>3, <3>1, <3>3
  <2> QED
    BY <2>2, <2>3
<1> HIDE DEF measure, bases, next, add
<1> QED
  BY <1>8, <1>9 DEF D, IsFold

-----------------------------------------------------------------------------
(* The text with the tokens replaced. *)

NextAssembled(m, t, acc, token) ==
  [out |-> acc.out \o SubSeq(t, acc.from, token.slash - 1) \o TokenText(m, token), from |-> token.end]

Accumulates(m, t, tokens, a) ==
  /\ a \in [0..Len(tokens) -> [out : Seq(Alphabet), from : 1..Len(t) + 1]]
  /\ a[0] = [out |-> <<>>, from |-> 1]
  /\ \A k \in 1..Len(tokens) : a[k] = NextAssembled(m, t, a[k - 1], tokens[k])
  /\ Assembled(m, t, tokens) = a[Len(tokens)].out \o SubSeq(t, a[Len(tokens)].from, Len(t))

AllStand(m, t, p, tokens) ==
  tokens \in Seq(Tokens(m)) /\ \A k \in 1..Len(tokens) : Stands(m, t, p, tokens[k])

LEMMA Accumulation ==
  ASSUME NEW m, IsNamedMatch(m), NEW t \in Seq(Alphabet), NEW p, NEW tokens, AllStand(m, t, p, tokens)
  PROVE  \E a : Accumulates(m, t, tokens, a)
<1> DEFINE n == Len(tokens)
           V == [out : Seq(Alphabet), from : 1..Len(t) + 1]
           base == [out |-> <<>>, from |-> 1]
           step == [x \in (1..n) \X V |-> NextAssembled(m, t, x[2], tokens[x[1]])]
<1>0. n \in Nat /\ Len(t) \in Nat /\ DOMAIN tokens = 1..n /\ \A k \in 1..Len(t) : t[k] \in Alphabet
  BY DEF AllStand
<1>1. base \in V
  <2>1. 1 \in 1..Len(t) + 1 /\ <<>> \in Seq(Alphabet)
    BY <1>0
  <2> QED
    BY <2>1
<1>2. ASSUME NEW k \in 1..n, NEW v \in V PROVE NextAssembled(m, t, v, tokens[k]) \in V
  <2> DEFINE token == tokens[k]
  <2>1. token \in Tokens(m) /\ token.slash \in 1..Len(t) /\ token.end \in token.slash + 1..Len(t) + 1
    BY DEF AllStand, Stands
  <2>2. v.out \in Seq(Alphabet) /\ v.from \in 1..Len(t) + 1
    OBVIOUS
  <2> HIDE DEF token
  <2>3. SubSeq(t, v.from, token.slash - 1) \in Seq(Alphabet)
    <3>1. \A x \in v.from..token.slash - 1 : t[x] \in Alphabet
      BY <1>0, <2>1, <2>2
    <3>2. v.from \in Int /\ token.slash - 1 \in Int
      BY <2>1, <2>2
    <3> QED
      BY <3>1, <3>2, SubSeqProperties
  <2>4. TokenText(m, token) \in Seq(Alphabet)
    <3>1. token.group = -1 \/ token.group \in DOMAIN m.value
      BY <2>1 DEF Tokens
    <3>2. <<Backslash>> \in Seq(Alphabet)
      <4>1. Backslash \in Alphabet
        BY AlphabetHas
      <4> QED
        BY <4>1
    <3>3. token.group \in DOMAIN m.value => ValueOf(m, token.group) \in Seq(Alphabet)
      BY ValueType
    <3> QED
      BY <3>1, <3>2, <3>3, Zenon DEF TokenText
  <2>5. \A a, b, c \in Seq(Alphabet) : a \o b \o c \in Seq(Alphabet)
    <3>1. \A a, b \in Seq(Alphabet) : a \o b \in Seq(Alphabet)
      BY ConcatProperties
    <3> QED
      BY ONLY <3>1, Zenon
  <2>6. v.out \o SubSeq(t, v.from, token.slash - 1) \o TokenText(m, token) \in Seq(Alphabet)
    BY <2>2, <2>3, <2>4, <2>5, Zenon
  <2>7. token.end \in 1..Len(t) + 1
    BY <1>0, <2>1
  <2> DEFINE out == v.out \o SubSeq(t, v.from, token.slash - 1) \o TokenText(m, token)
  <2>8. NextAssembled(m, t, v, token) = [out |-> out, from |-> token.end]
    BY Zenon DEF NextAssembled
  <2> HIDE DEF out
  <2>9. [out |-> out, from |-> token.end] \in V
    BY <2>6, <2>7 DEF out
  <2> QED
    BY <2>8, <2>9 DEF token
<1>3. \A k \in 1..n, v \in V : step[<<k, v>>] = NextAssembled(m, t, v, tokens[k])
  <2> DEFINE ValueAt(v, k) == NextAssembled(m, t, v, tokens[k])
  <2> HIDE DEF ValueAt
  <2>1. \A k \in 1..n, v \in V : [x \in (1..n) \X V |-> ValueAt(x[2], x[1])][<<k, v>>] = ValueAt(v, k)
    <3> HIDE DEF V, n
    <3> QED
      OBVIOUS
  <2> QED
    BY <2>1, Zenon DEF ValueAt
<1>4. step = [x \in (1..n) \X V |-> step[x]]
  OBVIOUS
<1> HIDE DEF step, base, V, n
<1>5. step \in [(1..n) \X V -> V]
  <2>1. \A k \in 1..n, v \in V : step[<<k, v>>] \in V
    BY <1>2, <1>3, Zenon
  <2>2. \A x \in (1..n) \X V : step[x] \in V
    BY ONLY <2>1
  <2> QED
    BY ONLY <1>4, <2>2
<1>6. PICK f \in [SUBSET (1..n) -> V] : IsFold(f, n, base, step)
  BY <1>0, <1>1, <1>5, Folding
<1>7. PICK a \in [0..n -> V] : IsUpward(a, n, base, step)
  BY <1>0, <1>1, <1>5, UpwardRecursion
<1>8. a[0] = base /\ \A k \in 1..n : a[k] = NextAssembled(m, t, a[k - 1], tokens[k])
  <2>1. ASSUME NEW k \in 1..n PROVE a[k] = NextAssembled(m, t, a[k - 1], tokens[k])
    <3>1. k - 1 \in 0..n
      BY <1>0
    <3>2. a[k - 1] \in V /\ a[k] = step[<<k, a[k - 1]>>]
      BY <1>7, <3>1 DEF IsUpward
    <3> QED
      BY <1>3, <3>2, Zenon
  <2> QED
    BY <1>7, <2>1 DEF IsUpward
<1> DEFINE ValueAt(g, s) == IF s = {} THEN base ELSE NextAssembled(m, t, g[s \ {Max(s)}], tokens[Max(s)])
           g == CHOOSE g : g = [s \in SUBSET (1..n) |-> ValueAt(g, s)]
<1>9. Assembled(m, t, tokens) = g[1..n].out \o SubSeq(t, g[1..n].from, Len(t))
  BY <1>0, Zenon DEF Assembled, FoldLeft, MapThenFoldSet, NextAssembled, TokenText, base
<1>10. g = [s \in SUBSET (1..n) |-> ValueAt(g, s)]
  <2>1. \A s \in SUBSET (1..n) : f[s] = ValueAt(f, s)
    <3> TAKE s \in SUBSET (1..n)
    <3>1. CASE s = {}
      BY <1>6, <3>1, Zenon DEF IsFold
    <3>2. CASE s # {}
      <4>1. Max(s) \in 1..n
        BY <1>0, <3>2, GreatestIn
      <4>2. s \ {Max(s)} \in SUBSET (1..n)
        OBVIOUS
      <4>3. f[s \ {Max(s)}] \in V
        BY <1>6, <4>2
      <4>4. f[s] = step[<<Max(s), f[s \ {Max(s)}]>>]
        BY <1>6, <3>2, Zenon DEF IsFold
      <4> QED
        BY <1>3, <3>2, <4>1, <4>3, <4>4, Zenon
    <3> QED
      BY <3>1, <3>2
  <2> HIDE DEF ValueAt
  <2>2. f = [s \in SUBSET (1..n) |-> ValueAt(f, s)]
    BY <2>1
  <2> QED
    BY <2>2
<1>11. \A s \in SUBSET (1..n) : g[s] = ValueAt(g, s)
  <2> HIDE DEF ValueAt
  <2> QED
    BY <1>10
<1> HIDE DEF g
<1> DEFINE T == {k \in Nat : k \in 0..n => g[1..k] = a[k]}
<1>12. 0 \in T
  <2>1. 1..0 = {} /\ {} \in SUBSET (1..n)
    OBVIOUS
  <2>2. g[1..0] = base
    BY <1>11, <2>1, Zenon
  <2> QED
    BY <1>8, <2>2
<1>13. ASSUME NEW k \in 0..n - 1, k \in T PROVE k + 1 \in T
  <2> DEFINE s == 1..k + 1
  <2>1. k + 1 \in 1..n /\ (k + 1) - 1 = k /\ k \in 0..n /\ k + 1 \in Nat
    BY <1>0
  <2>2. Max(s) = k + 1 /\ s \ {Max(s)} = 1..(k + 1) - 1 /\ s \in SUBSET (1..n) /\ s # {}
    BY <1>0, <2>1, GreatestUpTo
  <2> HIDE DEF s
  <2>3. g[s] = NextAssembled(m, t, g[s \ {Max(s)}], tokens[Max(s)])
    BY <1>11, <2>2, Zenon
  <2>4. g[1..k] = a[k]
    BY <1>13, <2>1
  <2>5. a[k + 1] = NextAssembled(m, t, a[(k + 1) - 1], tokens[k + 1])
    BY <1>8, <2>1, Zenon
  <2>6. g[s] = a[k + 1]
    BY <2>1, <2>2, <2>3, <2>4, <2>5, Zenon
  <2> QED
    BY <2>1, <2>6 DEF s
<1>14. 0..n \subseteq T
  <2> HIDE DEF T
  <2> QED
    BY <1>0, <1>12, <1>13, StepsUp
<1>15. g[1..n] = a[n]
  <2>1. n \in 0..n
    BY <1>0
  <2> QED
    BY <1>14, <2>1
<1>16. Accumulates(m, t, tokens, a)
  BY <1>7, <1>8, <1>9, <1>15, Zenon DEF Accumulates, n, V, base
<1> QED
  BY <1>16

\* The parser has rendered out when it comes to place i, with no error.
Prefix(m, p, i, out) ==
  \E done \in Seq(Pieces(m)) :
    p[1] = done \o p[i] /\ Bad \notin Range(done) /\ Rendered(m, done) = out

LEMMA RangeConcat ==
  ASSUME NEW S, NEW a \in Seq(S), NEW b \in Seq(S), NEW x, x \notin Range(a), x \notin Range(b)
  PROVE  x \notin Range(a \o b)
<1>1. \A i \in 1..Len(a) : a[i] # x
  BY DEF Range
<1>2. \A i \in 1..Len(b) : b[i] # x
  BY DEF Range
<1>3. a \o b \in Seq(S) /\ Len(a \o b) = Len(a) + Len(b) /\ Len(a) \in Nat /\ Len(b) \in Nat
  BY ConcatProperties
<1>4. \A i \in 1..Len(a) + Len(b) : (a \o b)[i] = IF i <= Len(a) THEN a[i] ELSE b[i - Len(a)]
  BY ConcatProperties
<1>5. ASSUME NEW i \in 1..Len(a) + Len(b) PROVE (a \o b)[i] # x
  <2>1. CASE i <= Len(a)
    <3>1. i \in 1..Len(a)
      BY <1>3, <2>1
    <3> QED
      BY <1>1, <1>4, <2>1, <3>1, Zenon
  <2>2. CASE ~ (i <= Len(a))
    <3>1. i - Len(a) \in 1..Len(b)
      BY <1>3, <2>2
    <3> QED
      BY <1>2, <1>4, <2>2, <3>1, Zenon
  <2> QED
    BY <2>1, <2>2
<1> DEFINE c == a \o b
<1>6. DOMAIN c = 1..Len(a) + Len(b)
  <2> HIDE DEF c
  <2>1. c \in Seq(S) /\ Len(c) = Len(a) + Len(b)
    BY <1>3 DEF c
  <2> QED
    BY ONLY <2>1
<1>7. \A i \in DOMAIN c : c[i] # x
  BY <1>5, <1>6, Zenon
<1> HIDE DEF c
<1>8. x \notin Range(c)
  BY <1>7, Zenon DEF Range
<1> QED
  BY <1>8 DEF c

LEMMA PrefixGrows ==
  ASSUME NEW m, IsNamedMatch(m), NEW p, NEW i, NEW j, NEW out, Prefix(m, p, i, out),
         NEW head \in Seq(Pieces(m)), Bad \notin Range(head), p[i] = head \o p[j], p[j] \in Seq(Pieces(m))
  PROVE  Prefix(m, p, j, out \o Rendered(m, head))
<1>1. PICK done \in Seq(Pieces(m)) : p[1] = done \o p[i] /\ Bad \notin Range(done) /\ Rendered(m, done) = out
  BY Zenon DEF Prefix
<1>2. done \o head \in Seq(Pieces(m))
  BY ConcatProperties
<1>3. \A a, b, c \in Seq(Pieces(m)) : (a \o b) \o c = a \o (b \o c)
  <2>1. Regroups(Pieces(m))
    BY ONLY Regroup, Zenon
  <2> QED
    BY ONLY <2>1, Zenon DEF Regroups
<1>4. p[1] = (done \o head) \o p[j]
  <2>1. (done \o head) \o p[j] = done \o (head \o p[j])
    BY <1>3, Zenon
  <2> QED
    BY <1>1, <2>1, Zenon
<1>5. Bad \notin Range(done \o head)
  BY <1>1, RangeConcat
<1>6. Rendered(m, done \o head) = out \o Rendered(m, head)
  <2>1. Rendered(m, done \o head) = Rendered(m, done) \o Rendered(m, head)
    BY RenderedConcat
  <2> QED
    BY <1>1, <2>1, Zenon
<1> QED
  BY <1>2, <1>4, <1>5, <1>6, Zenon DEF Prefix

LEMMA CharactersFine ==
  ASSUME NEW u \in Seq(Alphabet), Bad.text \notin Range(u)
  PROVE  Bad \notin Range(Characters(u))
<1>1. \A i \in DOMAIN u : u[i] # Bad.text
  BY DEF Range
<1>2. \A c : Character(c).text = c
  BY DEF Character
<1>3. DOMAIN Characters(u) = DOMAIN u /\ \A i \in DOMAIN u : Characters(u)[i] = Character(u[i])
  BY Zenon DEF Characters
<1>4. \A i \in DOMAIN u : Characters(u)[i] # Bad
  BY <1>1, <1>2, <1>3, Zenon
<1> QED
  BY <1>3, <1>4, Zenon DEF Range

LEMMA PrefixToSlash ==
  ASSUME NEW m, IsNamedMatch(m), NEW t \in Seq(Alphabet), Bad.text \notin Range(t), NEW index,
         NEW p, IsParse(m, t, index, p), NEW i \in 1..Len(t) + 1, NEW j \in i..Len(t) + 1,
         Plain(t, i, j), NEW out, Prefix(m, p, i, out)
  PROVE  SubSeq(t, i, j - 1) \in Seq(Alphabet) /\ Prefix(m, p, j, out \o SubSeq(t, i, j - 1))
<1> DEFINE u == SubSeq(t, i, j - 1)
<1>1. Len(t) \in Nat /\ j \in 1..Len(t) + 3 /\ DOMAIN t = 1..Len(t)
  OBVIOUS
<1>2. u \in Seq(Alphabet) /\ p[i] = Characters(u) \o p[j]
  <2>1. ReadsText(p, i, j, u)
    BY PlainText
  <2> QED
    BY <2>1, Zenon DEF ReadsText
<1>3. Bad.text \notin Range(u)
  <2>1. \A k \in 1..Len(t) : t[k] # Bad.text
    BY <1>1 DEF Range
  <2>2. \A k \in DOMAIN u : k + i - 1 \in 1..Len(t) /\ u[k] = t[k + i - 1]
    <3>1. i \in Int /\ j - 1 \in Int /\ \A x \in i..j - 1 : t[x] \in Alphabet
      BY <1>1
    <3>2. Len(u) = (IF i <= j - 1 THEN (j - 1) - i + 1 ELSE 0) /\ \A k \in 1..(j - 1) - i + 1 : u[k] = t[i + k - 1]
      BY <3>1, SubSeqProperties
    <3> HIDE DEF u
    <3>3. DOMAIN u = 1..Len(u)
      BY <1>2
    <3>4. ASSUME NEW k \in DOMAIN u PROVE k + i - 1 \in 1..Len(t) /\ u[k] = t[k + i - 1]
      <4>1. k \in 1..(j - 1) - i + 1 /\ k + i - 1 \in 1..Len(t) /\ k + i - 1 = i + k - 1
        BY ONLY <1>1, <3>2, <3>3, k \in DOMAIN u, i \in 1..Len(t) + 1, j \in i..Len(t) + 1
      <4>2. u[k] = t[i + k - 1]
        BY <3>2, <4>1, Zenon
      <4> QED
        BY <4>1, <4>2, Zenon
    <3> QED
      BY <3>4, Zenon
  <2> QED
    BY <2>1, <2>2, Zenon DEF Range
<1> HIDE DEF u
<1>4. Characters(u) \in Seq(Pieces(m)) /\ Rendered(m, Characters(u)) = u
  BY <1>2, RenderedCharacters
<1>5. p[j] \in Seq(Pieces(m))
  BY <1>1 DEF IsParse
<1>6. Bad \notin Range(Characters(u))
  BY <1>2, <1>3, CharactersFine
<1>7. Prefix(m, p, j, out \o Rendered(m, Characters(u)))
  BY <1>2, <1>4, <1>5, <1>6, PrefixGrows
<1>8. Prefix(m, p, j, out \o u)
  BY <1>4, <1>7, Zenon
<1> QED
  BY <1>2, <1>8 DEF u

\* Where the text after the first k tokens starts; each of the tokens starts at
\* the next backslash, and no backslash is left.
From(tokens, k) == IF k = 0 THEN 1 ELSE tokens[k].end
Chained(t, tokens) ==
  /\ \A k \in 1..Len(tokens) : tokens[k].slash = FindChar(t, Backslash, From(tokens, k - 1))
  /\ FindChar(t, Backslash, From(tokens, Len(tokens))) = 0

LEMMA AssembledIsRendered ==
  ASSUME NEW m, IsNamedMatch(m), NEW t \in Seq(Alphabet), Bad.text \notin Range(t), NEW index,
         NEW p, IsParse(m, t, index, p), NEW tokens, AllStand(m, t, p, tokens), Chained(t, tokens)
  PROVE  Assembled(m, t, tokens) = render_template(m, p[1])
<1> DEFINE n == Len(tokens)
           N == Len(t)
<1>0. n \in Nat /\ N \in Nat /\ DOMAIN tokens = 1..n
  BY DEF AllStand
<1>1. PICK a : Accumulates(m, t, tokens, a)
  BY Accumulation
<1> DEFINE Good(k) == a[k].from = From(tokens, k) /\ From(tokens, k) \in 1..N + 1
                      /\ Prefix(m, p, From(tokens, k), a[k].out)
           T == {k \in Nat : k \in 0..n => Good(k)}
<1>2. \A k \in 1..N + 3 : p[k] \in Seq(Pieces(m))
  BY DEF IsParse
<1>3. 0 \in T
  <2>1. a[0].from = 1 /\ a[0].out = <<>> /\ From(tokens, 0) = 1 /\ 1 \in 1..N + 1 /\ 1 \in 1..N + 3
    <3>1. a[0] = [out |-> <<>>, from |-> 1]
      BY <1>1, Zenon DEF Accumulates
    <3>2. 1 \in 1..N + 1 /\ 1 \in 1..N + 3
      BY <1>0
    <3> QED
      BY <3>1, <3>2 DEF From
  <2>2. Prefix(m, p, 1, <<>>)
    <3>1. <<>> \in Seq(Pieces(m)) /\ Range(<<>>) = {}
      BY DEF Range
    <3>2. p[1] = <<>> \o p[1]
      BY <1>2, <2>1, ConcatEmptySeq
    <3>3. Rendered(m, <<>>) = <<>>
      BY FlattenNone DEF Rendered, EachRendered
    <3> QED
      BY <3>1, <3>2, <3>3, Zenon DEF Prefix
  <2>3. Good(0)
    BY <2>1, <2>2, Zenon
  <2> HIDE DEF Good
  <2> QED
    BY <2>3
<1>4. ASSUME NEW k \in 0..n - 1, k \in T PROVE k + 1 \in T
  <2> DEFINE token == tokens[k + 1]
             s == token.slash
             i == From(tokens, k)
  <2>1. k + 1 \in 1..n /\ k + 1 \in Nat /\ (k + 1) - 1 = k /\ k \in 0..n /\ k + 1 # 0
    BY <1>0
  <2>2. Good(k)
    <3> HIDE DEF Good
    <3> QED
      BY <1>4, <2>1
  <2>3. /\ token \in Tokens(m) /\ s \in 1..N /\ token.end \in s + 1..N + 1
        /\ \E piece \in Pieces(m) : /\ piece # Bad /\ RenderedPiece(m, piece) = TokenText(m, token)
                                    /\ ReadsAs(p, s, piece, token.end)
    BY <2>1, Zenon DEF AllStand, Stands
  <2>4. s = FindChar(t, Backslash, i)
    BY <2>1, Zenon DEF Chained
  <2>5. From(tokens, k + 1) = token.end
    BY <2>1, Zenon DEF From
  <2>6. a[k + 1] = NextAssembled(m, t, a[k], token)
    BY <1>1, <2>1, Zenon DEF Accumulates
  <2>7. a[k].out \in Seq(Alphabet) /\ i \in 1..N + 1 /\ a[k].from = i /\ Prefix(m, p, i, a[k].out)
    <3>1. a \in [0..n -> [out : Seq(Alphabet), from : 1..N + 1]]
      BY <1>1, Zenon DEF Accumulates
    <3>2. a[k].out \in Seq(Alphabet)
      BY <2>1, <3>1
    <3> QED
      BY <2>2, <3>2, Zenon
  <2> HIDE DEF token, i
  <2>8. s \in i..N /\ Plain(t, i, s)
    <3>1. i \in Nat \ {0} /\ s # 0
      BY <1>0, <2>3, <2>7
    <3> QED
      BY <2>4, <3>1, Found DEF Plain
  <2>9. s \in i..N + 1 /\ s \in 1..N + 3 /\ token.end \in 1..N + 3 /\ token.end \in 1..N + 1
    BY <1>0, <2>3, <2>8
  <2>10. SubSeq(t, i, s - 1) \in Seq(Alphabet) /\ Prefix(m, p, s, a[k].out \o SubSeq(t, i, s - 1))
    BY <2>7, <2>8, <2>9, PrefixToSlash
  <2>11. PICK piece \in Pieces(m) : /\ piece # Bad /\ RenderedPiece(m, piece) = TokenText(m, token)
                                    /\ ReadsAs(p, s, piece, token.end)
    BY <2>3
  <2>12. <<piece>> \in Seq(Pieces(m)) /\ Rendered(m, <<piece>>) = TokenText(m, token)
    <3>1. <<piece>> \in Seq(Pieces(m)) /\ Rendered(m, <<piece>>) = RenderedPiece(m, piece)
      BY RenderedOne
    <3> QED
      BY <2>11, <3>1, Zenon
  <2>13. Bad \notin Range(<<piece>>)
    BY <2>11 DEF Range
  <2>14. p[s] = <<piece>> \o p[token.end] /\ p[token.end] \in Seq(Pieces(m))
    BY <1>2, <2>9, <2>11, Zenon DEF ReadsAs
  <2> DEFINE before == a[k].out \o SubSeq(t, i, s - 1)
             head == <<piece>>
  <2>15. Prefix(m, p, token.end, before \o Rendered(m, head))
    <3> HIDE DEF before, head, s
    <3>1. Prefix(m, p, s, before) /\ head \in Seq(Pieces(m)) /\ Bad \notin Range(head)
      BY <2>10, <2>12, <2>13 DEF before, head
    <3>2. p[s] = head \o p[token.end]
      BY <2>14 DEF head
    <3> QED
      BY <2>14, <3>1, <3>2, PrefixGrows
  <2>16. a[k + 1] = [out |-> before \o TokenText(m, token), from |-> token.end]
    BY <2>6, <2>7, Zenon DEF NextAssembled
  <2>17. a[k + 1].out = before \o TokenText(m, token) /\ a[k + 1].from = token.end
    <3> DEFINE out == before \o TokenText(m, token)
    <3>1. a[k + 1] = [out |-> out, from |-> token.end]
      BY <2>16
    <3> HIDE DEF out
    <3>2. a[k + 1].out = out /\ a[k + 1].from = token.end
      BY ONLY <3>1
    <3> QED
      BY <3>2 DEF out
  <2>18. Prefix(m, p, token.end, a[k + 1].out)
    BY <2>12, <2>15, <2>17, Zenon
  <2>19. Good(k + 1)
    BY <2>5, <2>9, <2>17, <2>18, Zenon
  <2> HIDE DEF Good
  <2> QED
    BY <2>1, <2>19
<1>5. 0..n \subseteq T
  <2> HIDE DEF T
  <2> QED
    BY <1>0, <1>3, <1>4, StepsUp
<1>6. Good(n)
  <2>1. n \in 0..n
    BY <1>0
  <2> HIDE DEF Good
  <2> QED
    BY <1>0, <1>5, <2>1
<1> DEFINE i == From(tokens, n)
           tail == SubSeq(t, i, N)
<1>7. i \in 1..N + 1 /\ a[n].from = i /\ Prefix(m, p, i, a[n].out)
  BY <1>6
<1>8. \A x \in i..N : t[x] # Backslash
  <2>1. FindChar(t, Backslash, i) = 0
    BY Zenon DEF Chained
  <2> HIDE DEF i
  <2>2. i \in Nat \ {0}
    BY <1>0, <1>7
  <2>3. ~ (0 \in i..N)
    BY <2>2
  <2> QED
    BY <2>1, <2>2, <2>3, Found
<1> HIDE DEF i
<1>9. Prefix(m, p, N + 1, a[n].out \o tail)
  <2>1. N + 1 \in i..N + 1 /\ (N + 1) - 1 = N
    BY <1>0, <1>7
  <2>2. \A x \in i..(N + 1) - 1 : t[x] # Backslash
    BY <1>8, <2>1
  <2> DEFINE j == N + 1
  <2>3. j \in i..N + 1 /\ j - 1 = N /\ Plain(t, i, j)
    BY <2>1, <2>2 DEF Plain
  <2> HIDE DEF j
  <2>4. Prefix(m, p, j, a[n].out \o SubSeq(t, i, j - 1))
    BY <1>7, <2>3, PrefixToSlash
  <2> QED
    BY <2>3, <2>4, Zenon DEF j
<1>10. p[N + 1] = <<>>
  <2>1. N + 1 \in 1..N + 3 /\ N + 1 > N
    BY <1>0
  <2> QED
    BY <2>1, Zenon DEF IsParse, ParseAt
<1>11. Assembled(m, t, tokens) = a[n].out \o tail
  BY <1>1, <1>7, Zenon DEF Accumulates
<1> DEFINE out == a[n].out \o tail
<1>12. render_template(m, p[1]) = out
  <2> HIDE DEF out
  <2>1. PICK done \in Seq(Pieces(m)) : p[1] = done \o p[N + 1] /\ Bad \notin Range(done) /\ Rendered(m, done) = out
    BY <1>9, Zenon DEF Prefix, out
  <2>2. done \o <<>> = done
    BY ConcatEmptySeq
  <2>3. p[1] = done
    BY <1>10, <2>1, <2>2, Zenon
  <2> QED
    BY <2>1, <2>3, RenderIs, Zenon
<1> QED
  BY <1>11, <1>12

-----------------------------------------------------------------------------
(* The tokens of a template, one after the other. *)

\* Each token starts at the next backslash, the first at s, and the text after
\* the last one has none.
Linked(t, s, tokens) ==
  /\ s = 0 <=> tokens = <<>>
  /\ tokens # <<>> => tokens[1].slash = s /\ FindChar(t, Backslash, tokens[Len(tokens)].end) = 0
  /\ \A k \in 1..Len(tokens) - 1 : tokens[k + 1].slash = FindChar(t, Backslash, tokens[k].end)

LEMMA ConsIs ==
  ASSUME NEW S, NEW x \in S, NEW rest \in Seq(S)
  PROVE  /\ <<x>> \o rest \in Seq(S) /\ Len(<<x>> \o rest) = Len(rest) + 1 /\ (<<x>> \o rest)[1] = x
         /\ \A k \in 1..Len(rest) : (<<x>> \o rest)[k + 1] = rest[k]
         /\ <<x>> \o rest # <<>>
<1>1. <<x>> \in Seq(S) /\ Len(<<x>>) = 1 /\ <<x>>[1] = x /\ Len(rest) \in Nat
  OBVIOUS
<1>2. /\ <<x>> \o rest \in Seq(S) /\ Len(<<x>> \o rest) = 1 + Len(rest)
      /\ \A i \in 1..1 + Len(rest) : (<<x>> \o rest)[i] = IF i <= 1 THEN x ELSE rest[i - 1]
  <2> DEFINE y == <<x>>
  <2>1. y \in Seq(S) /\ Len(y) = 1 /\ y[1] = x
    BY <1>1
  <2> HIDE DEF y
  <2>2. /\ y \o rest \in Seq(S) /\ Len(y \o rest) = Len(y) + Len(rest)
        /\ \A i \in 1..Len(y) + Len(rest) : (y \o rest)[i] = IF i <= Len(y) THEN y[i] ELSE rest[i - Len(y)]
    BY <2>1, ConcatProperties
  <2>3. \A i \in 1..1 + Len(rest) : i <= 1 => i = 1
    BY <1>1
  <2>4. /\ y \o rest \in Seq(S) /\ Len(y \o rest) = 1 + Len(rest)
        /\ \A i \in 1..1 + Len(rest) : (y \o rest)[i] = IF i <= 1 THEN x ELSE rest[i - 1]
    <3>1. /\ y \o rest \in Seq(S) /\ Len(y \o rest) = 1 + Len(rest)
          /\ \A i \in 1..1 + Len(rest) : (y \o rest)[i] = IF i <= 1 THEN y[i] ELSE rest[i - 1]
      BY ONLY <2>1, <2>2, Zenon
    <3>2. ASSUME NEW i \in 1..1 + Len(rest) PROVE (y \o rest)[i] = IF i <= 1 THEN x ELSE rest[i - 1]
      <4>1. CASE i <= 1
        <5>1. (y \o rest)[i] = y[i] /\ i = 1
          BY <2>3, <3>1, <4>1, Zenon
        <5> QED
          BY <2>1, <4>1, <5>1, Zenon
      <4>2. CASE ~ (i <= 1)
        BY <3>1, <4>2, Zenon
      <4> QED
        BY <4>1, <4>2
    <3> QED
      BY <3>1, <3>2, Zenon
  <2> QED
    BY <2>4 DEF y
<1> DEFINE c == <<x>> \o rest
<1>3. c \in Seq(S) /\ Len(c) = 1 + Len(rest) /\ \A i \in 1..1 + Len(rest) : c[i] = IF i <= 1 THEN x ELSE rest[i - 1]
  BY <1>2
<1> HIDE DEF c
<1>4. c[1] = x /\ c # <<>> /\ Len(c) = Len(rest) + 1
  BY ONLY <1>1, <1>3
<1>5. \A k \in 1..Len(rest) : c[k + 1] = rest[k]
  <2> TAKE k \in 1..Len(rest)
  <2>1. k + 1 \in 1..1 + Len(rest) /\ ~ (k + 1 <= 1) /\ (k + 1) - 1 = k
    BY <1>1
  <2> QED
    BY <1>3, <2>1, Zenon
<1> QED
  BY <1>3, <1>4, <1>5 DEF c

LEMMA LinkedCons ==
  ASSUME NEW m, NEW t \in Seq(Alphabet), NEW p, NEW token, Stands(m, t, p, token),
         NEW rest, AllStand(m, t, p, rest), Linked(t, FindChar(t, Backslash, token.end), rest)
  PROVE  AllStand(m, t, p, <<token>> \o rest) /\ Linked(t, token.slash, <<token>> \o rest)
<1> DEFINE all == <<token>> \o rest
<1>1. token \in Tokens(m) /\ rest \in Seq(Tokens(m)) /\ token.slash \in 1..Len(t)
  BY Zenon DEF Stands, AllStand
<1>2. /\ all \in Seq(Tokens(m)) /\ Len(all) = Len(rest) + 1 /\ all[1] = token /\ all # <<>>
      /\ \A k \in 1..Len(rest) : all[k + 1] = rest[k]
  <2> DEFINE S == Tokens(m)
  <2>1. token \in S /\ rest \in Seq(S)
    BY <1>1
  <2> HIDE DEF S
  <2>2. /\ all \in Seq(S) /\ Len(all) = Len(rest) + 1 /\ all[1] = token /\ all # <<>>
        /\ \A k \in 1..Len(rest) : all[k + 1] = rest[k]
    BY <2>1, ConsIs
  <2> QED
    BY <2>2 DEF S
<1> HIDE DEF all
<1>3. Len(rest) \in Nat /\ (rest = <<>> <=> Len(rest) = 0)
  BY <1>1
<1>4. ASSUME NEW k \in 1..Len(all) PROVE Stands(m, t, p, all[k])
  <2>1. CASE k = 1
    BY <1>2, <2>1, Zenon
  <2>2. CASE k # 1
    <3>1. k - 1 \in 1..Len(rest) /\ (k - 1) + 1 = k
      BY <1>2, <1>3, <2>2
    <3>2. all[k] = rest[k - 1]
      BY <1>2, <3>1
    <3> QED
      BY <3>1, <3>2, Zenon DEF AllStand
  <2> QED
    BY <2>1, <2>2
<1>5. token.slash # 0
  BY <1>1
<1>6. FindChar(t, Backslash, all[Len(all)].end) = 0
  <2>1. CASE rest = <<>>
    <3>1. all[Len(all)] = token
      BY <1>2, <1>3, <2>1
    <3> QED
      BY <2>1, <3>1, Zenon DEF Linked
  <2>2. CASE rest # <<>>
    <3>1. Len(rest) \in 1..Len(rest)
      BY <1>3, <2>2
    <3>2. all[Len(all)] = rest[Len(rest)]
      BY <1>2, <3>1, Zenon
    <3> QED
      BY <2>2, <3>2, Zenon DEF Linked
  <2> QED
    BY <2>1, <2>2
<1>7. ASSUME NEW k \in 1..Len(all) - 1 PROVE all[k + 1].slash = FindChar(t, Backslash, all[k].end)
  <2>0. k \in 1..Len(rest) /\ all[k + 1] = rest[k]
    BY <1>2, <1>3
  <2>1. CASE k = 1
    <3>1. rest # <<>>
      BY <1>3, <2>0
    <3>2. rest[1].slash = FindChar(t, Backslash, token.end)
      BY <3>1, Zenon DEF Linked
    <3> QED
      BY <1>2, <2>0, <2>1, <3>2
  <2>2. CASE k # 1
    <3>1. k - 1 \in 1..Len(rest) /\ k - 1 \in 1..Len(rest) - 1 /\ (k - 1) + 1 = k
      BY <1>3, <2>0, <2>2
    <3>2. all[k] = rest[k - 1]
      BY <1>2, <3>1
    <3>3. rest[(k - 1) + 1].slash = FindChar(t, Backslash, rest[k - 1].end)
      BY <3>1, Zenon DEF Linked
    <3> QED
      BY <2>0, <3>1, <3>2, <3>3, Zenon
  <2> QED
    BY <2>1, <2>2
<1>8. AllStand(m, t, p, all)
  BY <1>2, <1>4, Zenon DEF AllStand
<1>9. Linked(t, token.slash, all)
  BY <1>2, <1>5, <1>6, <1>7, Zenon DEF Linked
<1> QED
  BY <1>8, <1>9 DEF all

\* Tokens linked from the first backslash are those of the template.
LEMMA LinkedFromStart ==
  ASSUME NEW t, NEW s, NEW tokens, NEW S, tokens \in Seq(S), s # 0, s = FindChar(t, Backslash, 1), Linked(t, s, tokens)
  PROVE  Chained(t, tokens)
<1>1. tokens # <<>> /\ tokens[1].slash = s /\ FindChar(t, Backslash, tokens[Len(tokens)].end) = 0
  BY Zenon DEF Linked
<1>2. Len(tokens) \in Nat /\ Len(tokens) # 0
  BY <1>1
<1>3. ASSUME NEW k \in 1..Len(tokens) PROVE tokens[k].slash = FindChar(t, Backslash, From(tokens, k - 1))
  <2>1. CASE k = 1
    <3>1. k - 1 = 0
      BY <2>1
    <3> QED
      BY <1>1, <2>1, <3>1, Zenon DEF From
  <2>2. CASE k # 1
    <3>1. k - 1 \in 1..Len(tokens) - 1 /\ (k - 1) + 1 = k /\ k - 1 # 0
      BY <1>2, <2>2
    <3>2. tokens[(k - 1) + 1].slash = FindChar(t, Backslash, tokens[k - 1].end)
      BY <3>1, Zenon DEF Linked
    <3> QED
      BY <3>1, <3>2, Zenon DEF From
  <2> QED
    BY <2>1, <2>2
<1>4. From(tokens, Len(tokens)) = tokens[Len(tokens)].end
  BY <1>2, Zenon DEF From
<1> QED
  BY <1>1, <1>3, <1>4, Zenon DEF Chained

\* A single token.
LEMMA OneToken ==
  ASSUME NEW m, IsNamedMatch(m), NEW t \in Seq(Alphabet), Bad.text \notin Range(t), NEW index,
         NEW p, IsParse(m, t, index, p), NEW token, Stands(m, t, p, token),
         token.slash = FindChar(t, Backslash, 1), NoMore(t, Backslash, token.end)
  PROVE  Assembled(m, t, <<token>>) = render_template(m, p[1])
<1> DEFINE none == <<>>
           all == <<token>> \o none
<1>1. token \in Tokens(m) /\ token.slash # 0
  <2>1. token \in Tokens(m) /\ token.slash \in 1..Len(t)
    BY Zenon DEF Stands
  <2> QED
    BY <2>1
<1>2. AllStand(m, t, p, none)
  BY DEF AllStand
<1>3. Linked(t, FindChar(t, Backslash, token.end), none)
  <2>1. FindChar(t, Backslash, token.end) = 0
    BY Zenon DEF NoMore
  <2>2. 1..Len(none) - 1 = {}
    OBVIOUS
  <2> QED
    BY <2>1, <2>2 DEF Linked
<1> HIDE DEF none
<1>4. AllStand(m, t, p, all) /\ Linked(t, token.slash, all)
  BY <1>2, <1>3, LinkedCons
<1> HIDE DEF all
<1>5. all \in Seq(Tokens(m))
  BY <1>4, Zenon DEF AllStand
<1>6. Chained(t, all)
  BY <1>1, <1>4, <1>5, LinkedFromStart
<1>7. Assembled(m, t, all) = render_template(m, p[1])
  BY <1>4, <1>6, AssembledIsRendered
<1>8. all = <<token>>
  BY <1>1 DEF all, none
<1> QED
  BY <1>7, <1>8, Zenon

LEMMA NameCloses ==
  ASSUME NEW t \in Seq(Alphabet), NEW s \in 1..Len(t), HasName(Bracketed(t, s))
  PROVE  Bracketed(t, s).close \in s + 3..Len(t)
<1> DEFINE close == FindChar(t, ">", s + 3)
           spot == IF Len(t) - s >= 4 /\ t[s + 1] = "g" /\ t[s + 2] = "<" THEN close ELSE 0
           name == SubSeq(t, s + 3, spot - 1)
<1>1. Bracketed(t, s) = [close |-> spot, name |-> name]
  BY Zenon DEF Bracketed
<1>2. Bracketed(t, s).close # 0
  BY Zenon DEF HasName
<1>3. Bracketed(t, s).close = spot
  <2> HIDE DEF spot, name
  <2> QED
    BY ONLY <1>1
<1>4. spot # 0
  BY <1>2, <1>3, Zenon
<1>5. spot = close
  BY <1>4, Zenon
<1>6. s + 3 \in Nat \ {0}
  OBVIOUS
<1> HIDE DEF spot
<1>7. close \in s + 3..Len(t)
  BY <1>4, <1>5, <1>6, Found
<1> QED
  BY <1>3, <1>5, <1>7, Zenon

LEMMA TokenEnds ==
  ASSUME NEW m, NEW t \in Seq(Alphabet), NEW s \in 1..Len(t), match_expand_parse_reference(m, t, s) # NoToken
  PROVE  /\ match_expand_parse_reference(m, t, s).end \in Nat \ {0}
         /\ match_expand_parse_reference(m, t, s).end > s
<1> DEFINE token == match_expand_parse_reference(m, t, s)
           b == Bracketed(t, s)
<1>1. s + 2 \in Nat \ {0} /\ s + 2 > s
  OBVIOUS
<1>2. \A end, g : Token(s, end, g).end = end
  BY DEF Token
<1>3. \A end, g : ReferenceToken(m, s, end, g) = Token(s, end, g) \/ ReferenceToken(m, s, end, g) = NoToken
  BY Zenon DEF ReferenceToken
<1>4. \/ \E g : token = Token(s, s + 2, g)
      \/ HasName(b) /\ \E g : token = Token(s, b.close + 1, g)
  BY <1>3, Zenon DEF match_expand_parse_reference
<1>5. CASE \E g : token = Token(s, s + 2, g)
  <2>1. token.end = s + 2
    BY <1>2, <1>5, Zenon
  <2> QED
    BY <1>1, <2>1, Zenon
<1>6. CASE HasName(b) /\ \E g : token = Token(s, b.close + 1, g)
  <2>1. token.end = b.close + 1
    BY <1>2, <1>6, Zenon
  <2>2. b.close \in s + 3..Len(t)
    BY <1>6, NameCloses
  <2> DEFINE close == b.close
  <2> HIDE DEF b, token
  <2>3. close + 1 \in Nat \ {0} /\ close + 1 > s
    <3>1. close \in s + 3..Len(t)
      BY <2>2
    <3> HIDE DEF close
    <3> QED
      BY <3>1
  <2>4. token.end \in Nat \ {0} /\ token.end > s
    BY <2>1, <2>3, Zenon
  <2> QED
    BY <2>4 DEF token
<1> QED
  BY <1>4, <1>5, <1>6

\* What the reader of several tokens finds from s on, f of the later places.
TokensFrom(m, t, f, s) ==
  LET token == match_expand_parse_reference(m, t, s)
  IN IF s = 0 THEN <<>>
     ELSE IF token = NoToken THEN <<NoToken>>
     ELSE <<token>> \o f[FindChar(t, Backslash, token.end)]

LEMMA Tokenizing ==
  ASSUME NEW m, NEW t \in Seq(Alphabet), NEW start
  PROVE  \E f : /\ \A s \in 0..Len(t) : f[s] = TokensFrom(m, t, f, s)
                /\ match_expand_multiple_tokens(m, t, start) =
                     IF /\ NoToken \notin Range(f[start])
                        /\ Len(f[start]) <= MaxTokens
                        /\ Len(f[start]) >= 2 \/ f[start][1].group = -1
                     THEN Assembled(m, t, f[start]) ELSE NotHandled
<1> DEFINE N == Len(t)
           D == 0..N
           ValueAt(s) == match_expand_parse_reference(m, t, s)
           S == {ValueAt(s) : s \in D} \cup {NoToken}
           measure == [s \in D |-> IF s = 0 THEN 0 ELSE (N - s) + 1]
           stop == {s \in D : s = 0 \/ ValueAt(s) = NoToken}
           tail == [s \in D |-> IF s = 0 THEN <<>> ELSE <<NoToken>>]
           head == [s \in D |-> <<ValueAt(s)>>]
           next == [s \in D |-> FindChar(t, Backslash, ValueAt(s).end)]
<1>0. N \in Nat
  OBVIOUS
<1>1. measure \in [D -> 0..N + 1] /\ \A s \in D : measure[s] = IF s = 0 THEN 0 ELSE (N - s) + 1
  BY <1>0
<1>2. tail \in [D -> Seq(S)] /\ head \in [D -> Seq(S)]
  <2> HIDE DEF D, ValueAt
  <2>1. \A s \in D : ValueAt(s) \in S
    OBVIOUS
  <2>2. NoToken \in S
    OBVIOUS
  <2> HIDE DEF S
  <2>3. \A x \in S : <<x>> \in Seq(S)
    OBVIOUS
  <2>4. <<>> \in Seq(S)
    OBVIOUS
  <2> QED
    BY <2>1, <2>2, <2>3, <2>4
<1>3. ASSUME NEW s \in D, s \notin stop PROVE next[s] \in D /\ measure[next[s]] < measure[s]
  <2>1. s \in 1..N /\ ValueAt(s) # NoToken /\ s # 0
    BY <1>0, <1>3
  <2> DEFINE end == ValueAt(s).end
  <2>2. end \in Nat \ {0} /\ end > s
    BY <2>1, TokenEnds
  <2>3. next[s] = FindChar(t, Backslash, end)
    OBVIOUS
  <2> HIDE DEF end, ValueAt, next, measure
  <2>4. FindChar(t, Backslash, end) = 0 \/ FindChar(t, Backslash, end) \in end..N
    BY <2>2, Found
  <2>5. next[s] = 0 \/ next[s] \in end..N
    BY <2>3, <2>4, Zenon
  <2> DEFINE x == next[s]
  <2> HIDE DEF x
  <2>6. x = 0 \/ x \in end..N
    BY <2>5 DEF x
  <2>7. x \in D /\ measure[x] < measure[s]
    <3>1. x \in D
      BY <1>0, <2>2, <2>6
    <3> QED
      BY <1>0, <1>1, <2>1, <2>2, <2>6, <3>1
  <2> QED
    BY <2>7 DEF x
<1>4. IsListwise(D, S, N + 1, measure, stop, tail, head, next)
  <2> HIDE DEF D, S, measure, stop, tail, head, next
  <2> QED
    BY <1>1, <1>2, <1>3, Zenon DEF IsListwise
<1>5. PICK f \in [D -> Seq(S)] : IsList(D, f, stop, tail, head, next)
  <2>1. N + 1 \in Nat
    BY <1>0
  <2> HIDE DEF D, S, measure, stop, tail, head, next, N
  <2> QED
    BY <1>4, <2>1, ListRecursion
<1>6. f = [s \in D |-> TokensFrom(m, t, f, s)]
  <2>1. ASSUME NEW s \in D PROVE f[s] = TokensFrom(m, t, f, s)
    <3>1. f[s] = IF s \in stop THEN tail[s] ELSE head[s] \o f[next[s]]
      <4> HIDE DEF D, stop, tail, head, next
      <4> QED
        BY <1>5 DEF IsList
    <3>2. tail[s] = (IF s = 0 THEN <<>> ELSE <<NoToken>>) /\ head[s] = <<ValueAt(s)>>
          /\ next[s] = FindChar(t, Backslash, ValueAt(s).end) /\ (s \in stop <=> s = 0 \/ ValueAt(s) = NoToken)
      <4> HIDE DEF ValueAt
      <4> QED
        BY Zenon
    <3> HIDE DEF D, stop, tail, head, next
    <3> QED
      BY <3>1, <3>2, Zenon DEF TokensFrom
  <2> HIDE DEF D, S
  <2> QED
    BY <2>1
<1> DEFINE g == CHOOSE g : g = [s \in D |-> TokensFrom(m, t, g, s)]
<1>7. g = [s \in D |-> TokensFrom(m, t, g, s)]
  <2> HIDE DEF D, S
  <2> QED
    BY <1>6
<1>8. match_expand_multiple_tokens(m, t, start) =
        IF /\ NoToken \notin Range(g[start])
           /\ Len(g[start]) <= MaxTokens
           /\ Len(g[start]) >= 2 \/ g[start][1].group = -1
        THEN Assembled(m, t, g[start]) ELSE NotHandled
  BY Zenon DEF match_expand_multiple_tokens, TokensFrom
<1>9. \A s \in D : g[s] = TokensFrom(m, t, g, s)
  <2> HIDE DEF D, g
  <2> QED
    BY <1>7
<1> HIDE DEF g
<1> QED
  BY <1>8, <1>9, Zenon

\* Where no token is refused, the tokens from a backslash on stand for what the
\* parser reads.
LEMMA TokensStand ==
  ASSUME NEW m, IsNamedMatch(m), NEW t \in Seq(Alphabet), NEW index, IsIndex(m, index),
         NEW p, IsParse(m, t, index, p), NEW f, \A s \in 0..Len(t) : f[s] = TokensFrom(m, t, f, s),
         NEW start \in 0..Len(t), start = 0 \/ t[start] = Backslash, NoToken \notin Range(f[start])
  PROVE  AllStand(m, t, p, f[start]) /\ Linked(t, start, f[start])
<1> DEFINE N == Len(t)
           ValueAt(s) == match_expand_parse_reference(m, t, s)
           Refused(s) == NoToken \in Range(f[s]) /\ \E S : f[s] \in Seq(S)
           Good(s) == (s = 0 \/ t[s] = Backslash) =>
                        (Refused(s) \/ (AllStand(m, t, p, f[s]) /\ Linked(t, s, f[s])))
           T == {k \in Nat : \A s \in 0..N : (s = 0 \/ N - s = k) => Good(s)}
<1>0. N \in Nat
  OBVIOUS
<1>1. Good(0)
  <2>1. f[0] = <<>>
    <3>1. 0 \in 0..N
      BY <1>0
    <3> QED
      BY <3>1, Zenon DEF TokensFrom
  <2>2. AllStand(m, t, p, <<>>)
    BY DEF AllStand
  <2>3. Linked(t, 0, <<>>)
    BY DEF Linked
  <2> QED
    BY <2>1, <2>2, <2>3, Zenon
<1>2. ASSUME NEW k \in 0..N, \A j \in 0..k - 1 : j \in T PROVE k \in T
  <2> SUFFICES ASSUME NEW s \in 1..N, N - s = k, t[s] = Backslash, ~Refused(s)
               PROVE  AllStand(m, t, p, f[s]) /\ Linked(t, s, f[s])
    <3>1. \A s \in 0..N : s # 0 => s \in 1..N
      BY <1>0
    <3>2. k \in Nat
      OBVIOUS
    <3> HIDE DEF Good
    <3>3. ASSUME NEW s \in 0..N, s = 0 \/ N - s = k PROVE Good(s)
      <4>1. CASE s = 0
        BY <1>1, <4>1
      <4>2. CASE s # 0
        <5>1. s \in 1..N /\ N - s = k
          BY <3>1, <3>3, <4>2
        <5> QED
          BY <5>1, <4>2, Zenon DEF Good
      <4> QED
        BY <4>1, <4>2
    <3> QED
      BY <3>2, <3>3
  <2>0. s \in 0..N /\ s # 0
    BY <1>0
  <2>1. ValueAt(s) # NoToken
    <3>1. ASSUME ValueAt(s) = NoToken PROVE FALSE
      <4>1. f[s] = <<NoToken>>
        BY <2>0, <3>1, Zenon DEF TokensFrom
      <4>2. NoToken \in Range(<<NoToken>>) /\ <<NoToken>> \in Seq({NoToken})
        BY DEF Range
      <4> QED
        BY <4>1, <4>2
    <3> QED
      BY <3>1
  <2> DEFINE token == ValueAt(s)
             next == FindChar(t, Backslash, token.end)
  <2>2. f[s] = <<token>> \o f[next]
    BY <2>0, <2>1, Zenon DEF TokensFrom
  <2>3. Stands(m, t, p, token) /\ token.slash = s
    BY <2>1, ReferenceStands
  <2>4. token.end \in Nat \ {0} /\ token.end > s
    BY <2>1, TokenEnds
  <2> HIDE DEF token
  <2>5. next = 0 \/ (next \in token.end..N /\ t[next] = Backslash)
    BY <2>4, Found
  <2>6. Good(next) /\ next \in 0..N
    <3>1. CASE next = 0
      BY <1>0, <1>1, <3>1
    <3>2. CASE next \in token.end..N
      <4> DEFINE x == next
                 e == token.end
      <4>1. x \in e..N /\ e \in Nat \ {0} /\ e > s
        BY <2>4, <3>2
      <4> HIDE DEF x, e
      <4>2. x \in 0..N /\ N - x \in 0..k - 1
        BY ONLY <1>0, <4>1, N - s = k, s \in 1..N, k \in 0..N
      <4>3. N - x \in T
        <5> HIDE DEF T
        <5> QED
          BY <1>2, <4>2
      <4>4. Good(x)
        <5> HIDE DEF Good
        <5> QED
          BY <4>2, <4>3
      <4> QED
        BY <4>2, <4>4 DEF x
    <3> QED
      BY <2>5, <3>1, <3>2
  <2> HIDE DEF next
  <2>7. CASE Refused(next)
    <3>1. PICK S : f[next] \in Seq(S)
      BY <2>7
    <3> DEFINE R == S \cup {token}
    <3>2. f[next] \in Seq(R) /\ token \in R
      BY <3>1, SeqMonotonic
    <3> HIDE DEF R
    <3>3. /\ <<token>> \o f[next] \in Seq(R)
          /\ Len(<<token>> \o f[next]) = Len(f[next]) + 1
          /\ \A i \in 1..Len(f[next]) : (<<token>> \o f[next])[i + 1] = f[next][i]
      BY <3>2, ConsIs
    <3>4. PICK i \in 1..Len(f[next]) : f[next][i] = NoToken
      BY <2>7, <3>1 DEF Range
    <3>5. f[s] \in Seq(R) /\ Len(f[s]) = Len(f[next]) + 1 /\ f[s][i + 1] = NoToken
      BY <2>2, <3>3, <3>4, Zenon
    <3>6. Len(f[next]) \in Nat
      BY <3>1
    <3>7. i + 1 \in DOMAIN f[s]
      BY ONLY <3>4, <3>5, <3>6
    <3>8. NoToken \in Range(f[s])
      BY <3>5, <3>7, Zenon DEF Range
    <3> QED
      BY <3>5, <3>8, Zenon
  <2>8. CASE ~Refused(next)
    <3>1. AllStand(m, t, p, f[next]) /\ Linked(t, next, f[next])
      BY <2>5, <2>6, <2>8
    <3>2. AllStand(m, t, p, <<token>> \o f[next]) /\ Linked(t, token.slash, <<token>> \o f[next])
      BY <2>3, <3>1, LinkedCons DEF next
    <3> QED
      BY <2>2, <2>3, <3>2, Zenon
  <2> QED
    BY <2>7, <2>8, Zenon
<1>3. 0..N \subseteq T
  <2> HIDE DEF T
  <2> QED
    BY <1>0, <1>2, NumbersIn
<1>4. Good(start)
  <2>1. N - start \in 0..N
    BY <1>0
  <2>2. N - start \in T
    <3> HIDE DEF T
    <3> QED
      BY <1>3, <2>1
  <2> HIDE DEF Good
  <2> QED
    BY <2>2
<1> QED
  BY <1>4

-----------------------------------------------------------------------------
(* Match.expand.                                                               *)

\* What a path of Match.expand returns, if anything, is right.
Follows(path, right) == path # NotHandled => path = right

LEMMA SinglesFollow ==
  ASSUME NEW m, IsNamedMatch(m), NEW t \in Seq(Alphabet), Bad.text \notin Range(t),
         NEW index, IsIndex(m, index), NEW p, IsParse(m, t, index, p),
         NEW s \in 1..Len(t), t[s] = Backslash, s = FindChar(t, Backslash, 1)
  PROVE  /\ Follows(match_expand_simple_numeric(m, t, s), render_template(m, p[1]))
         /\ Follows(match_expand_explicit_numeric(m, t, s), render_template(m, p[1]))
         /\ Follows(match_expand_explicit_named(m, t, s), render_template(m, p[1]))
<1> DEFINE right == render_template(m, p[1])
           b == Bracketed(t, s)
<1>1. \A end, g : Token(s, end, g).slash = s /\ Token(s, end, g).end = end /\ Token(s, end, g).group = g
  BY DEF Token
<1>2. \A end, g : Stands(m, t, p, Token(s, end, g)) /\ NoMore(t, Backslash, end) =>
                    Assembled(m, t, <<Token(s, end, g)>>) = right
  <2> TAKE end, g
  <2> HAVE Stands(m, t, p, Token(s, end, g)) /\ NoMore(t, Backslash, end)
  <2> DEFINE token == Token(s, end, g)
  <2>1. Stands(m, t, p, token) /\ token.slash = FindChar(t, Backslash, 1) /\ NoMore(t, Backslash, token.end)
    BY <1>1, Zenon
  <2> HIDE DEF token
  <2>2. Assembled(m, t, <<token>>) = right
    BY <2>1, OneToken
  <2> QED
    BY <2>2 DEF token
<1>3. \A end, g : match_expand_render_reference(m, t, Token(s, end, g)) # NotHandled =>
                    /\ g \in DOMAIN m.value
                    /\ match_expand_render_reference(m, t, Token(s, end, g)) = Assembled(m, t, <<Token(s, end, g)>>)
  BY <1>1, Zenon DEF match_expand_render_reference
<1> HIDE DEF right
<1>4. ASSUME match_expand_simple_numeric(m, t, s) # NotHandled
      PROVE  match_expand_simple_numeric(m, t, s) = right
  <2> DEFINE g == Value[t[s + 1]]
  <2>1. /\ s < Len(t) /\ SingleDigit(t, s) /\ NoMore(t, Backslash, s + 2)
        /\ match_expand_simple_numeric(m, t, s) = match_expand_render_reference(m, t, Token(s, s + 2, g))
    BY <1>4, Zenon DEF match_expand_simple_numeric
  <2>2. /\ g \in DOMAIN m.value
        /\ match_expand_simple_numeric(m, t, s) = Assembled(m, t, <<Token(s, s + 2, g)>>)
    BY <1>3, <1>4, <2>1, Zenon
  <2>3. s \in 1..Len(t) - 1
    BY <2>1
  <2>4. Stands(m, t, p, Token(s, s + 2, g))
    BY <2>1, <2>2, <2>3, DigitStands
  <2> QED
    BY <1>2, <2>1, <2>2, <2>4, Zenon
<1>5. ASSUME match_expand_explicit_numeric(m, t, s) # NotHandled
      PROVE  match_expand_explicit_numeric(m, t, s) = right
  <2> DEFINE g == NumberOf(b.name)
             end == b.close + 1
  <2>1. /\ HasName(b) /\ AllDigits(b.name) /\ NoMore(t, Backslash, end)
        /\ match_expand_explicit_numeric(m, t, s) = match_expand_render_reference(m, t, Token(s, end, g))
    BY <1>5, Zenon DEF match_expand_explicit_numeric
  <2>2. /\ g \in DOMAIN m.value
        /\ match_expand_explicit_numeric(m, t, s) = Assembled(m, t, <<Token(s, end, g)>>)
    BY <1>3, <1>5, <2>1, Zenon
  <2>3. g = IF AllDigits(b.name) THEN NumberOf(b.name) ELSE match_expand_resolve_ascii_name(m, b.name)
    BY <2>1, Zenon
  <2> HIDE DEF g
  <2>4. Stands(m, t, p, Token(s, end, g))
    BY <2>1, <2>2, <2>3, NameStands
  <2> HIDE DEF end
  <2> QED
    BY <1>2, <2>1, <2>2, <2>4, Zenon
<1>6. ASSUME match_expand_explicit_named(m, t, s) # NotHandled
      PROVE  match_expand_explicit_named(m, t, s) = right
  <2> DEFINE g == match_expand_resolve_ascii_name(m, b.name)
             end == b.close + 1
  <2>1. /\ HasName(b) /\ NoMore(t, Backslash, end)
        /\ match_expand_explicit_named(m, t, s) = match_expand_render_reference(m, t, Token(s, end, g))
    BY <1>6, Zenon DEF match_expand_explicit_named
  <2>2. /\ g \in DOMAIN m.value
        /\ match_expand_explicit_named(m, t, s) = Assembled(m, t, <<Token(s, end, g)>>)
    BY <1>3, <1>6, <2>1, Zenon
  <2>3. ~AllDigits(b.name)
    <3>1. g # -1
      BY <2>2, GroupsAreNumbers
    <3>2. EntriesNamed(m, b.name) # {}
      BY <3>1, NamesStandForGroups
    <3>3. PICK i \in DOMAIN m.names : m.names[i].name = b.name
      BY <3>2 DEF EntriesNamed
    <3>4. ~AllDigits(m.names[i].name)
      BY Zenon DEF IsNamedMatch
    <3> QED
      BY <3>3, <3>4, Zenon
  <2>4. g = IF AllDigits(b.name) THEN NumberOf(b.name) ELSE match_expand_resolve_ascii_name(m, b.name)
    BY <2>3, Zenon
  <2> HIDE DEF g
  <2>5. Stands(m, t, p, Token(s, end, g))
    BY <2>1, <2>2, <2>4, NameStands
  <2> HIDE DEF end
  <2> QED
    BY <1>2, <2>1, <2>2, <2>5, Zenon
<1> QED
  BY <1>4, <1>5, <1>6, Zenon DEF Follows, right

LEMMA SeveralFollow ==
  ASSUME NEW m, IsNamedMatch(m), NEW t \in Seq(Alphabet), Bad.text \notin Range(t),
         NEW index, IsIndex(m, index), NEW p, IsParse(m, t, index, p),
         NEW s \in 1..Len(t), t[s] = Backslash, s = FindChar(t, Backslash, 1)
  PROVE  Follows(match_expand_multiple_tokens(m, t, s), render_template(m, p[1]))
<1> SUFFICES ASSUME match_expand_multiple_tokens(m, t, s) # NotHandled
             PROVE  match_expand_multiple_tokens(m, t, s) = render_template(m, p[1])
  BY Zenon DEF Follows
<1>1. PICK f : /\ \A i \in 0..Len(t) : f[i] = TokensFrom(m, t, f, i)
               /\ match_expand_multiple_tokens(m, t, s) =
                    IF /\ NoToken \notin Range(f[s])
                       /\ Len(f[s]) <= MaxTokens
                       /\ Len(f[s]) >= 2 \/ f[s][1].group = -1
                    THEN Assembled(m, t, f[s]) ELSE NotHandled
  BY Tokenizing
<1>2. NoToken \notin Range(f[s]) /\ match_expand_multiple_tokens(m, t, s) = Assembled(m, t, f[s])
  BY <1>1, Zenon
<1>3. s \in 0..Len(t) /\ s # 0
  OBVIOUS
<1>4. AllStand(m, t, p, f[s]) /\ Linked(t, s, f[s])
  BY <1>1, <1>2, <1>3, TokensStand
<1> DEFINE tokens == f[s]
<1>5. tokens \in Seq(Tokens(m))
  BY <1>4, Zenon DEF AllStand
<1>6. AllStand(m, t, p, tokens) /\ Linked(t, s, tokens)
  BY <1>4
<1> HIDE DEF tokens
<1>7. Chained(t, tokens)
  BY <1>3, <1>5, <1>6, LinkedFromStart
<1>8. Assembled(m, t, tokens) = render_template(m, p[1])
  BY <1>6, <1>7, AssembledIsRendered
<1> QED
  BY <1>2, <1>8, Zenon DEF tokens

\* A template with no backslash is its own text.
LEMMA PlainFollows ==
  ASSUME NEW m, IsNamedMatch(m), NEW t \in Seq(Alphabet), Bad.text \notin Range(t),
         NEW index, NEW p, IsParse(m, t, index, p), FindChar(t, Backslash, 1) = 0
  PROVE  t = render_template(m, p[1])
<1>1. AllStand(m, t, p, <<>>)
  BY DEF AllStand
<1>2. Chained(t, <<>>)
  BY DEF Chained, From
<1>3. Assembled(m, t, <<>>) = render_template(m, p[1])
  BY <1>1, <1>2, AssembledIsRendered
<1>4. PICK a : Accumulates(m, t, <<>>, a)
  BY <1>1, Accumulation
<1>5. Assembled(m, t, <<>>) = a[0].out \o SubSeq(t, a[0].from, Len(t)) /\ a[0] = [out |-> <<>>, from |-> 1]
  <2>1. Len(<<>>) = 0
    OBVIOUS
  <2> QED
    BY <1>4, <2>1, Zenon DEF Accumulates
<1>6. a[0].out = <<>> /\ a[0].from = 1
  BY ONLY <1>5
<1>7. SubSeq(t, 1, Len(t)) = t /\ <<>> \o t = t
  BY SubSeqFull, ConcatEmptySeq
<1> QED
  BY <1>3, <1>5, <1>6, <1>7, Zenon

LEMMA NativelyFollows ==
  ASSUME NEW m, IsNamedMatch(m), NEW t \in Seq(Alphabet), Bad.text \notin Range(t),
         NEW index, IsIndex(m, index)
  PROVE  Follows(ExpandNatively(m, t), render_template(m, parse_template(m, t, index)))
<1>1. PICK p : IsParse(m, t, index, p) /\ parse_template(m, t, index) = p[1]
  BY Parsing
<1> DEFINE slash == FindChar(t, Backslash, 1)
           right == render_template(m, p[1])
           paths == <<match_expand_simple_numeric(m, t, slash), match_expand_explicit_numeric(m, t, slash),
                      match_expand_explicit_named(m, t, slash), match_expand_multiple_tokens(m, t, slash)>>
           handled == {i \in 1..4 : paths[i] # NotHandled}
<1>2. ExpandNatively(m, t) = IF slash = 0 THEN t
                             ELSE IF handled = {} THEN NotHandled
                             ELSE paths[Min(handled)]
  BY Zenon DEF ExpandNatively
<1>3. slash = 0 \/ (slash \in 1..Len(t) /\ t[slash] = Backslash)
  BY Found
<1>4. CASE slash = 0
  <2>1. t = right
    BY <1>1, <1>4, PlainFollows
  <2> HIDE DEF right, slash, paths, handled
  <2> QED
    BY <1>1, <1>2, <1>4, <2>1, Zenon DEF Follows, right
<1>5. CASE slash # 0
  <2> HIDE DEF slash
  <2>1. slash \in 1..Len(t) /\ t[slash] = Backslash /\ slash = FindChar(t, Backslash, 1)
    BY <1>3, <1>5 DEF slash
  <2>2. /\ Follows(match_expand_simple_numeric(m, t, slash), right)
        /\ Follows(match_expand_explicit_numeric(m, t, slash), right)
        /\ Follows(match_expand_explicit_named(m, t, slash), right)
        /\ Follows(match_expand_multiple_tokens(m, t, slash), right)
    BY <1>1, <2>1, SinglesFollow, SeveralFollow
  <2> HIDE DEF right
  <2>3. \A i \in 1..4 : paths[i] # NotHandled => paths[i] = right
    <3>1. \A i \in 1..4 : i = 1 \/ i = 2 \/ i = 3 \/ i = 4
      OBVIOUS
    <3>2. /\ paths[1] = match_expand_simple_numeric(m, t, slash)
          /\ paths[2] = match_expand_explicit_numeric(m, t, slash)
          /\ paths[3] = match_expand_explicit_named(m, t, slash)
          /\ paths[4] = match_expand_multiple_tokens(m, t, slash)
      OBVIOUS
    <3> HIDE DEF paths
    <3> QED
      BY <2>2, <3>1, <3>2, Zenon DEF Follows
  <2>4. CASE handled = {}
    <3> HIDE DEF handled, paths
    <3> QED
      BY <1>2, <1>5, <2>4, Zenon DEF Follows
  <2>5. CASE handled # {}
    <3>1. handled \subseteq Nat
      OBVIOUS
    <3> HIDE DEF paths
    <3>2. Min(handled) \in handled
      <4> HIDE DEF handled
      <4> QED
        BY <2>5, <3>1, LeastIs
    <3>3. paths[Min(handled)] = right
      BY <2>3, <3>2
    <3> HIDE DEF handled
    <3> QED
      BY <1>1, <1>2, <1>5, <2>5, <3>3, Zenon DEF Follows, right
  <2> QED
    BY <2>4, <2>5
<1> QED
  BY <1>4, <1>5

LEMMA ExpandsRight ==
  ASSUME NEW m, IsNamedMatch(m), NEW t \in Seq(Alphabet), Bad.text \notin Range(t),
         NEW index, index = [name \in DOMAIN groupindex(m) |-> GroupOf(m, name)]
  PROVE  /\ UniqueNames(m) => Match_expand(m, t) = expand_match_template(m, t)
         /\ ExpandNatively(m, t) # NotHandled =>
              ExpandNatively(m, t) = render_template(m, parse_template(m, t, index))
         /\ \A name \in DOMAIN groupindex(m) : resolve_group_key(m, name) = GroupOf(m, name)
<1>1. IsIndex(m, index)
  BY DEF IsIndex
<1>2. ExpandNatively(m, t) # NotHandled =>
        ExpandNatively(m, t) = render_template(m, parse_template(m, t, index))
  BY <1>1, NativelyFollows DEF Follows
<1>3. \A name \in DOMAIN groupindex(m) : resolve_group_key(m, name) = GroupOf(m, name)
  BY NamesStandForGroups
<1>4. ASSUME UniqueNames(m) PROVE Match_expand(m, t) = expand_match_template(m, t)
  <2>1. IsIndex(m, groupindex(m))
    <3>1. \A name \in DOMAIN groupindex(m) : groupindex(m)[name] = GroupOf(m, name)
      BY <1>4, NamesStandForGroups
    <3> QED
      BY <3>1, Zenon DEF IsIndex
  <2>2. Follows(ExpandNatively(m, t), render_template(m, parse_template(m, t, groupindex(m))))
    BY <2>1, NativelyFollows
  <2> QED
    BY <2>2, Zenon DEF Follows, Match_expand, expand_match_template
<1> QED
  BY <1>2, <1>3, <1>4

\* Texts are sequences of characters; the mark of an error is none of them.
TextsTypeInv ==
  /\ role \in {"template", "pattern"}
  /\ text \in Seq(STRING)
  /\ role = "template" => Bad.text \notin Range(text)

LEMMA TextsAreTexts == TextsSpec => []TextsTypeInv
<1>1. TextInit => TextsTypeInv
  BY DEF TextInit, TextsTypeInv, Range
<1>2. TextsTypeInv /\ [TextNext]_textVars => TextsTypeInv'
  <2> SUFFICES ASSUME TextsTypeInv, AddFragment PROVE TextsTypeInv'
    <3>1. TextsTypeInv /\ UNCHANGED textVars => TextsTypeInv'
      BY DEF TextsTypeInv, textVars
    <3> QED
      BY <3>1, Zenon DEF TextNext
  <2>1. PICK f \in (IF role = "template" THEN TemplateFragments ELSE PatternFragments) : text' = text \o f
    BY Zenon DEF AddFragment
  <2>2. f \in Seq(STRING) /\ (role = "template" => Bad.text \notin Range(f))
    BY TextsAssumption
  <2>3. text \in Seq(STRING) /\ role' = role
    BY DEF TextsTypeInv, AddFragment
  <2> HIDE DEF TextsTypeInv
  <2>4. text \o f \in Seq(STRING)
    BY <2>2, <2>3, ConcatProperties
  <2>5. ASSUME role = "template" PROVE Bad.text \notin Range(text \o f)
    <3>1. Bad.text \notin Range(text) /\ Bad.text \notin Range(f)
      BY <2>2, <2>5 DEF TextsTypeInv
    <3> DEFINE x == Bad.text
    <3> HIDE DEF x
    <3>2. x \notin Range(text) /\ x \notin Range(f)
      BY <3>1 DEF x
    <3>3. x \notin Range(text \o f)
      BY <2>2, <2>3, <3>2, RangeConcat
    <3> QED
      BY <3>3 DEF x
  <2> QED
    BY <2>1, <2>3, <2>4, <2>5, Zenon DEF TextsTypeInv
<1> QED
  BY <1>1, <1>2, PTL DEF TextsSpec

\* Match.expand, by whichever of its paths, gives what re's parser makes of the
\* template, and takes, as Match.group does, the group of a name that took part
\* in the match (Match_expand, pcre2.c:1905; resolve_group_key, pcre2.c:353).
THEOREM ExpandsAsReDoes == TextsSpec => []ExpandFollowsRe
<1>1. TextsTypeInv => ExpandFollowsRe
  <2> SUFFICES ASSUME TextsTypeInv, role = "template", NEW m \in Matches
               PROVE  LET index == [name \in DOMAIN groupindex(m) |-> GroupOf(m, name)]
                          native == ExpandNatively(m, text)
                      IN /\ UniqueNames(m) => Match_expand(m, text) = expand_match_template(m, text)
                         /\ native # NotHandled => native = render_template(m, parse_template(m, text, index))
                         /\ \A name \in DOMAIN groupindex(m) : resolve_group_key(m, name) = GroupOf(m, name)
    BY Zenon DEF ExpandFollowsRe
  <2>1. text \in Seq(STRING) /\ Bad.text \notin Range(text)
    BY DEF TextsTypeInv
  <2>2. text \in Seq(Alphabet)
    BY <2>1, StringsAreTexts
  <2>3. IsNamedMatch(m)
    BY TextsAssumption
  <2> QED
    BY <2>1, <2>2, <2>3, ExpandsRight
<1> QED
  BY <1>1, TextsAreTexts, PTL

-----------------------------------------------------------------------------
(* Numbers.                                                                    *)

LEMMA DigitValues ==
  /\ \A n \in 0..9 : Digit[n + 1] \in Digits /\ Value[Digit[n + 1]] = n
  /\ \A c \in Digits : Value[c] \in Nat
<1>1. \A c \in Digits : \E n \in 0..9 : Digit[n + 1] = c
  <2> TAKE c \in Digits
  <2>1. /\ Digit[1] = "0" /\ Digit[2] = "1" /\ Digit[3] = "2" /\ Digit[4] = "3" /\ Digit[5] = "4"
        /\ Digit[6] = "5" /\ Digit[7] = "6" /\ Digit[8] = "7" /\ Digit[9] = "8" /\ Digit[10] = "9"
    BY DEF Digit
  <2>2. \A x, y \in 0..9 : x + 1 = y + 1 => x = y
    OBVIOUS
  <2>3. \A n \in 0..9 : n + 1 \in 1..10
    OBVIOUS
  <2>4. \A k \in 1..10 : k - 1 \in 0..9 /\ (k - 1) + 1 = k
    OBVIOUS
  <2>5. \E k \in 1..10 : Digit[k] = c
    BY <2>1 DEF Digits
  <2> QED
    BY <2>4, <2>5
<1>2. \A x, y \in 1..10 : Digit[x] = Digit[y] => x = y
  BY DEF Digit
<1>3. \A k \in 1..10 : Digit[k] \in Digits
  BY DEF Digit, Digits
<1>4. ASSUME NEW c \in Digits PROVE Value[c] \in 0..9 /\ Digit[Value[c] + 1] = c
  <2>1. Value[c] = CHOOSE n \in 0..9 : Digit[n + 1] = c
    BY DEF Value
  <2> QED
    BY <1>1, <2>1
<1>5. ASSUME NEW n \in 0..9 PROVE Digit[n + 1] \in Digits /\ Value[Digit[n + 1]] = n
  <2>1. Digit[n + 1] \in Digits
    BY <1>3
  <2>2. Value[Digit[n + 1]] \in 0..9 /\ Digit[Value[Digit[n + 1]] + 1] = Digit[n + 1]
    BY <1>4, <2>1
  <2>3. Value[Digit[n + 1]] + 1 = n + 1
    BY <1>2, <2>2
  <2> QED
    BY <2>1, <2>2, <2>3
<1> QED
  BY <1>4, <1>5

\* a has the numbers the first digits of name stand for.
Numbers(name, a) ==
  a[0] = 0 /\ \A k \in 1..Len(name) : a[k] = 10 * a[k - 1] + Value[name[k]]

LEMMA Numbering ==
  ASSUME NEW name \in Seq(Digits)
  PROVE  \E a \in [0..Len(name) -> Nat] : Numbers(name, a) /\ NumberOf(name) = a[Len(name)]
<1> DEFINE n == Len(name)
           Stepped(v, k) == 10 * v + Value[name[k]]
           step == [x \in (1..n) \X Nat |-> Stepped(x[2], x[1])]
<1>0. n \in Nat /\ DOMAIN name = 1..n /\ \A k \in 1..n : Value[name[k]] \in Nat
  BY DigitValues
<1>1. \A k \in 1..n, v \in Nat : Stepped(v, k) \in Nat
  BY <1>0
<1> HIDE DEF n, Stepped
<1>2. \A k \in 1..n, v \in Nat : step[<<k, v>>] = Stepped(v, k)
  OBVIOUS
<1>3. step \in [(1..n) \X Nat -> Nat]
  <2>1. \A x \in (1..n) \X Nat : Stepped(x[2], x[1]) \in Nat
    BY <1>1
  <2> QED
    BY <2>1
<1> HIDE DEF step
<1>4. PICK f \in [SUBSET (1..n) -> Nat] : IsFold(f, n, 0, step)
  <2>1. 0 \in Nat
    OBVIOUS
  <2> QED
    BY <1>0, <1>3, <2>1, Folding
<1>5. PICK a \in [0..n -> Nat] : IsUpward(a, n, 0, step)
  <2>1. 0 \in Nat
    OBVIOUS
  <2> QED
    BY <1>0, <1>3, <2>1, UpwardRecursion
<1>6. a[0] = 0 /\ \A k \in 1..n : a[k] = Stepped(a[k - 1], k)
  <2>1. ASSUME NEW k \in 1..n PROVE a[k] = Stepped(a[k - 1], k)
    <3>1. k - 1 \in 0..n
      BY <1>0
    <3>2. a[k - 1] \in Nat /\ a[k] = step[<<k, a[k - 1]>>]
      BY <1>5, <3>1 DEF IsUpward
    <3> QED
      BY <1>2, <3>2, Zenon
  <2> QED
    BY <1>5, <2>1 DEF IsUpward
<1> DEFINE ValueAt(g, s) == IF s = {} THEN 0 ELSE Stepped(g[s \ {Max(s)}], Max(s))
           g == CHOOSE g : g = [s \in SUBSET (1..n) |-> ValueAt(g, s)]
<1>7. NumberOf(name) = g[1..n]
  BY <1>0, Zenon DEF NumberOf, FoldLeft, MapThenFoldSet, Stepped
<1>8. g = [s \in SUBSET (1..n) |-> ValueAt(g, s)]
  <2>1. \A s \in SUBSET (1..n) : f[s] = ValueAt(f, s)
    <3> TAKE s \in SUBSET (1..n)
    <3>1. CASE s = {}
      BY <1>4, <3>1, Zenon DEF IsFold
    <3>2. CASE s # {}
      <4>1. Max(s) \in 1..n
        BY <1>0, <3>2, GreatestIn
      <4>2. s \ {Max(s)} \in SUBSET (1..n)
        OBVIOUS
      <4>3. f[s \ {Max(s)}] \in Nat
        BY <1>4, <4>2
      <4>4. f[s] = step[<<Max(s), f[s \ {Max(s)}]>>]
        BY <1>4, <3>2, Zenon DEF IsFold
      <4> QED
        BY <1>2, <3>2, <4>1, <4>3, <4>4, Zenon
    <3> QED
      BY <3>1, <3>2
  <2> HIDE DEF ValueAt
  <2>2. f = [s \in SUBSET (1..n) |-> ValueAt(f, s)]
    BY <2>1
  <2> QED
    BY <2>2
<1>9. \A s \in SUBSET (1..n) : g[s] = ValueAt(g, s)
  <2> HIDE DEF ValueAt
  <2> QED
    BY <1>8
<1> HIDE DEF g
<1> DEFINE T == {k \in Nat : k \in 0..n => g[1..k] = a[k]}
<1>10. 0 \in T
  <2>1. 1..0 = {} /\ {} \in SUBSET (1..n)
    OBVIOUS
  <2>2. g[1..0] = 0
    BY <1>9, <2>1, Zenon
  <2> QED
    BY <1>6, <2>2
<1>11. ASSUME NEW k \in 0..n - 1, k \in T PROVE k + 1 \in T
  <2> DEFINE s == 1..k + 1
  <2>1. k + 1 \in 1..n /\ (k + 1) - 1 = k /\ k \in 0..n /\ k + 1 \in Nat
    BY <1>0
  <2>2. Max(s) = k + 1 /\ s \ {Max(s)} = 1..(k + 1) - 1 /\ s \in SUBSET (1..n) /\ s # {}
    BY <1>0, <2>1, GreatestUpTo
  <2> HIDE DEF s
  <2>3. g[s] = Stepped(g[s \ {Max(s)}], Max(s))
    BY <1>9, <2>2, Zenon
  <2>4. g[1..k] = a[k]
    BY <1>11, <2>1
  <2>5. a[k + 1] = Stepped(a[(k + 1) - 1], k + 1)
    BY <1>6, <2>1, Zenon
  <2>6. g[s] = a[k + 1]
    BY <2>1, <2>2, <2>3, <2>4, <2>5, Zenon
  <2> QED
    BY <2>1, <2>6 DEF s
<1>12. 0..n \subseteq T
  <2> HIDE DEF T
  <2> QED
    BY <1>0, <1>10, <1>11, StepsUp
<1>13. g[1..n] = a[n]
  <2>1. n \in 0..n
    BY <1>0
  <2> QED
    BY <1>12, <2>1
<1>14. Numbers(name, a)
  BY <1>6, Zenon DEF Numbers, Stepped, n
<1> QED
  BY <1>5, <1>7, <1>13, <1>14 DEF n

LEMMA NumberAppend ==
  ASSUME NEW name \in Seq(Digits), NEW c \in Digits
  PROVE  /\ NumberOf(name) \in Nat
         /\ NumberOf(Append(name, c)) = 10 * NumberOf(name) + Value[c]
<1> DEFINE n == Len(name)
           more == Append(name, c)
<1>0. n \in Nat /\ more \in Seq(Digits) /\ Len(more) = n + 1 /\ more[n + 1] = c /\ \A k \in 1..n : more[k] = name[k]
  OBVIOUS
<1>1. PICK a \in [0..n -> Nat] : Numbers(name, a) /\ NumberOf(name) = a[n]
  BY Numbering
<1> HIDE DEF more
<1>2. PICK b \in [0..n + 1 -> Nat] : Numbers(more, b) /\ NumberOf(more) = b[n + 1]
  BY <1>0, Numbering
<1> HIDE DEF n
<1> DEFINE T == {k \in Nat : k \in 0..n => a[k] = b[k]}
<1>3. 0 \in T
  BY <1>1, <1>2 DEF Numbers
<1>4. ASSUME NEW k \in 0..n - 1, k \in T PROVE k + 1 \in T
  <2>1. k + 1 \in 1..n /\ (k + 1) - 1 = k /\ k \in 0..n /\ k + 1 \in Nat /\ k + 1 \in 1..n + 1
    BY <1>0
  <2>2. a[k] = b[k]
    BY <1>4, <2>1
  <2>3. a[k + 1] = 10 * a[(k + 1) - 1] + Value[name[k + 1]]
    BY <1>1, <2>1, Zenon DEF Numbers, n
  <2>4. b[k + 1] = 10 * b[(k + 1) - 1] + Value[more[k + 1]]
    BY <1>0, <1>2, <2>1, Zenon DEF Numbers
  <2>5. more[k + 1] = name[k + 1]
    BY <1>0, <2>1
  <2>6. a[k + 1] = b[k + 1]
    BY <2>1, <2>2, <2>3, <2>4, <2>5, Zenon
  <2> QED
    BY <2>1, <2>6
<1>5. 0..n \subseteq T
  <2> HIDE DEF T
  <2> QED
    BY <1>0, <1>3, <1>4, StepsUp
<1>6. a[n] = b[n] /\ n \in 0..n
  <2>1. n \in 0..n
    BY <1>0
  <2> QED
    BY <1>5, <2>1
<1>7. b[n + 1] = 10 * b[n] + Value[c]
  <2>1. n + 1 \in 1..n + 1 /\ (n + 1) - 1 = n
    BY <1>0
  <2> QED
    BY <1>0, <1>2, <2>1, Zenon DEF Numbers
<1>8. NumberOf(name) \in Nat
  BY <1>1, <1>6
<1>9. NumberOf(more) = 10 * NumberOf(name) + Value[c]
  BY <1>1, <1>2, <1>6, <1>7, Zenon
<1> QED
  BY <1>8, <1>9 DEF more

LEMMA NumberOfOne ==
  ASSUME NEW c \in Digits
  PROVE  <<c>> \in Seq(Digits) /\ NumberOf(<<c>>) = Value[c]
<1>1. <<>> \in Seq(Digits) /\ Append(<<>>, c) = <<c>> /\ <<c>> \in Seq(Digits) /\ Len(<<>>) = 0
  OBVIOUS
<1>2. NumberOf(<<>>) = 0
  <2>1. PICK a \in [0..0 -> Nat] : Numbers(<<>>, a) /\ NumberOf(<<>>) = a[0]
    BY <1>1, Numbering
  <2> QED
    BY <2>1 DEF Numbers
<1>3. NumberOf(Append(<<>>, c)) = 10 * NumberOf(<<>>) + Value[c]
  BY <1>1, NumberAppend
<1>4. Value[c] \in Nat
  BY DigitValues
<1>5. 10 * 0 + Value[c] = Value[c]
  BY <1>4
<1> QED
  BY <1>1, <1>2, <1>3, <1>5, Zenon

LEMMA Halving ==
  ASSUME NEW k \in Nat, k >= 10
  PROVE  k \div 10 \in Nat /\ k \div 10 < k /\ k % 10 \in 0..9 /\ k = 10 * (k \div 10) + (k % 10)
OBVIOUS

\* A numeral stands for the number it is made of.
LEMMA DecimalIs ==
  ASSUME NEW n \in Nat
  PROVE  Decimal(n) \in Seq(Digits) /\ NumberOf(Decimal(n)) = n
<1> DEFINE D == 0..n
           V == Seq(Digits)
           First(k) == <<Digit[k + 1]>>
           WithLast(v, k) == v \o <<Digit[(k % 10) + 1]>>
           measure == [k \in D |-> k]
           stop == {k \in D : k < 10}
           base == [k \in D |-> First(k)]
           next == [k \in D |-> k \div 10]
           add == [x \in D \X V |-> WithLast(x[2], x[1])]
<1>0. \A k \in 0..9 : <<Digit[k + 1]>> \in V
  BY DigitValues
<1>1. \A k \in D : k < 10 => k \in 0..9
  OBVIOUS
<1>2. \A k \in D : k < 10 => First(k) \in V
  BY <1>0, <1>1
<1>3. \A k \in D : k \notin stop => k \div 10 \in D /\ k \div 10 < k /\ k % 10 \in 0..9
  <2> TAKE k \in D
  <2> HAVE k \notin stop
  <2>1. k \in Nat /\ k >= 10 /\ k <= n
    OBVIOUS
  <2>2. k \div 10 \in Nat /\ k \div 10 < k /\ k % 10 \in 0..9
    BY <2>1, Halving
  <2> DEFINE q == k \div 10
  <2>3. q \in Nat /\ q < k
    BY <2>2
  <2> HIDE DEF q
  <2>4. q \in D
    BY <2>1, <2>3
  <2> QED
    BY <2>2, <2>4 DEF q
<1>4. \A k \in D, v \in V : k \notin stop => WithLast(v, k) \in V
  <2> TAKE k \in D, v \in V
  <2> HAVE k \notin stop
  <2>1. <<Digit[(k % 10) + 1]>> \in V
    BY <1>0, <1>3
  <2> QED
    BY <2>1, ConcatProperties
<1> HIDE DEF First, WithLast
<1>5. \A k \in D, v \in V : add[<<k, v>>] = WithLast(v, k)
  <2> HIDE DEF D, V
  <2> QED
    OBVIOUS
<1>6. /\ \A k \in D : measure[k] = k /\ base[k] = First(k) /\ next[k] = k \div 10
      /\ \A k \in D : k \in stop <=> k < 10
  BY Zenon
<1>7. IsStepwise(D, V, n, measure, stop, base, next, add)
  <2>1. measure \in [D -> 0..n]
    OBVIOUS
  <2>2. \A k \in D : k \notin stop => next[k] \in D /\ measure[next[k]] < measure[k]
    <3> TAKE k \in D
    <3> HAVE k \notin stop
    <3> HIDE DEF measure, next, stop
    <3>1. k \div 10 \in D /\ k \div 10 < k
      BY <1>3
    <3> QED
      BY <1>6, <3>1, Zenon
  <2>3. \A k \in D : k \in stop => base[k] \in V
    <3> HIDE DEF base, stop, V, D
    <3> QED
      BY <1>2, <1>6, Zenon
  <2>4. \A k \in D, v \in V : k \notin stop => add[<<k, v>>] \in V
    <3> HIDE DEF stop, add, V, D
    <3> QED
      BY <1>4, <1>5, Zenon
  <2> HIDE DEF D, V, measure, stop, base, next, add
  <2> QED
    BY <2>1, <2>2, <2>3, <2>4, Zenon DEF IsStepwise
<1>8. V # {}
  <2>1. <<>> \in V
    OBVIOUS
  <2> QED
    BY <2>1
<1>9. PICK f \in [D -> V] : IsResult(D, f, stop, base, next, add)
  <2> HIDE DEF D, V, measure, stop, base, next, add
  <2> QED
    BY <1>7, <1>8, StepwiseRecursion
<1> DEFINE ValueAt(f_1, k) == IF k < 10 THEN First(k) ELSE WithLast(f_1[k \div 10], k)
<1>10. \A k \in D : f[k] = ValueAt(f, k)
  <2> TAKE k \in D
  <2>1. f[k] = IF k \in stop THEN base[k] ELSE add[<<k, f[next[k]]>>]
    <3> HIDE DEF D, V, measure, stop, base, next, add
    <3> QED
      BY <1>9 DEF IsResult
  <2>2. CASE k \in stop
    <3> HIDE DEF D, V, measure, stop, base, next, add
    <3> QED
      BY <1>6, <2>1, <2>2, Zenon
  <2>3. CASE k \notin stop
    <3>1. k \div 10 \in D
      BY <1>3, <2>3
    <3> HIDE DEF D, V, measure, stop, base, next, add
    <3>2. f[k \div 10] \in V
      BY <3>1
    <3> QED
      BY <1>5, <1>6, <2>1, <2>3, <3>2, Zenon
  <2> QED
    BY <2>2, <2>3
<1> DEFINE g == CHOOSE g : g = [k \in D |-> ValueAt(g, k)]
<1>11. Decimal(n) = g[n]
  BY Zenon DEF Decimal, First, WithLast
<1>12. g = [k \in D |-> ValueAt(g, k)]
  <2> HIDE DEF D, V, ValueAt
  <2>1. f = [k \in D |-> ValueAt(f, k)]
    BY <1>10
  <2> QED
    BY <2>1
<1>13. \A k \in D : g[k] = ValueAt(g, k)
  <2> HIDE DEF D, ValueAt
  <2> QED
    BY <1>12
<1> HIDE DEF g
<1> DEFINE T == {k \in Nat : k \in D => g[k] \in V /\ NumberOf(g[k]) = k}
<1>14. ASSUME NEW k \in 0..n, \A j \in 0..k - 1 : j \in T PROVE k \in T
  <2>1. k \in D /\ k \in Nat
    OBVIOUS
  <2>2. CASE k < 10
    <3>1. k \in 0..9 /\ g[k] = <<Digit[k + 1]>>
      BY <1>1, <1>13, <2>1, <2>2 DEF First
    <3>2. Digit[k + 1] \in Digits /\ Value[Digit[k + 1]] = k
      BY <3>1, DigitValues
    <3>3. <<Digit[k + 1]>> \in Seq(Digits) /\ NumberOf(<<Digit[k + 1]>>) = Value[Digit[k + 1]]
      BY <3>2, NumberOfOne
    <3> QED
      BY <2>1, <3>1, <3>2, <3>3
  <2>3. CASE ~ (k < 10)
    <3> DEFINE q == k \div 10
               r == k % 10
               c == Digit[r + 1]
    <3>1. k \in Nat /\ k >= 10
      BY <2>1, <2>3
    <3>2. q \in Nat /\ q < k /\ r \in 0..9 /\ k = 10 * q + r
      BY <3>1, Halving
    <3>3. g[k] = g[q] \o <<c>>
      BY <1>13, <2>1, <2>3, Zenon DEF WithLast
    <3> HIDE DEF q, r
    <3>4. q \in 0..k - 1 /\ q \in D
      BY <2>1, <3>2
    <3>5. q \in T
      <4> HIDE DEF T
      <4> QED
        BY <1>14, <3>4
    <3>6. g[q] \in V /\ NumberOf(g[q]) = q
      BY <3>4, <3>5
    <3>7. c \in Digits /\ Value[c] = r
      BY <3>2, DigitValues
    <3> HIDE DEF c
    <3>8. g[q] \o <<c>> = Append(g[q], c) /\ Append(g[q], c) \in V
      BY <3>6, <3>7, AppendIsConcat
    <3>9. NumberOf(Append(g[q], c)) = 10 * NumberOf(g[q]) + Value[c]
      BY <3>6, <3>7, NumberAppend
    <3>10. NumberOf(g[k]) = k /\ g[k] \in V
      BY <3>2, <3>3, <3>6, <3>7, <3>8, <3>9, Zenon
    <3> QED
      BY <2>1, <3>10
  <2> QED
    BY <2>2, <2>3
<1>15. 0..n \subseteq T
  <2> HIDE DEF T
  <2> QED
    BY <1>14, NumbersIn
<1>16. n \in T /\ n \in D
  <2>1. n \in 0..n
    OBVIOUS
  <2> QED
    BY <1>15, <2>1
<1> QED
  BY <1>11, <1>16

-----------------------------------------------------------------------------
(* PCRE2's reading of a replacement.                                           *)

NamedGroup(m, name) ==
  IF AllDigits(name) THEN NumberOf(name) ELSE match_expand_resolve_ascii_name(m, name)

\* What it reads from place i on, g of the later places.
ReadAt(m, r, g, i) ==
  LET close == FindChar(r, Closing, i)
      group == NamedGroup(m, SubSeq(r, i + 2, close - 1))
  IN IF i > Len(r) THEN <<>>
     ELSE IF r[i] \notin {Backslash, "$"} THEN <<r[i]>> \o g[i + 1]
     ELSE IF i = Len(r) THEN Failed
     ELSE IF r[i] = Backslash THEN <<r[i + 1]>> \o g[i + 2]
     ELSE IF r[i + 1] = "$" THEN <<"$">> \o g[i + 2]
     ELSE IF r[i + 1] # Opening \/ close = 0 \/ group \notin DOMAIN m.value THEN Failed
     ELSE ValueOf(m, group) \o g[close + 1]

IsReading(m, r, g) == \A i \in 1..Len(r) + 2 : g[i] = ReadAt(m, r, g, i)

LEMMA Reading ==
  ASSUME NEW m, IsNamedMatch(m), NEW r \in Seq(Alphabet)
  PROVE  \E g : IsReading(m, r, g) /\ ReplacedBy(m, r) = g[1]
<1> DEFINE L == Len(r)
           D == 1..L + 2
           close(i) == FindChar(r, Closing, i)
           group(i) == NamedGroup(m, SubSeq(r, i + 2, close(i) - 1))
           Text(i) == r[i] \notin {Backslash, "$"}
           Wrong(i) == r[i + 1] # Opening \/ close(i) = 0 \/ group(i) \notin DOMAIN m.value
           Stops(i) == i > L \/ (~Text(i) /\ (i = L \/ (r[i] # Backslash /\ r[i + 1] # "$" /\ Wrong(i))))
           TailOf(i) == IF i > L THEN <<>> ELSE Failed
           HeadOf(i) == IF Text(i) THEN <<r[i]>>
                      ELSE IF r[i] = Backslash THEN <<r[i + 1]>>
                      ELSE IF r[i + 1] = "$" THEN <<"$">>
                      ELSE ValueOf(m, group(i))
           Later(i) == IF Text(i) THEN i + 1
                       ELSE IF r[i] = Backslash \/ r[i + 1] = "$" THEN i + 2
                       ELSE close(i) + 1
           measure == [i \in D |-> (L + 2) - i]
           stop == {i \in D : Stops(i)}
           tail == [i \in D |-> TailOf(i)]
           head == [i \in D |-> IF Stops(i) THEN <<>> ELSE HeadOf(i)]
           next == [i \in D |-> Later(i)]
<1>0. L \in Nat /\ \A i \in 1..L : r[i] \in Alphabet
  OBVIOUS
<1>1. /\ <<>> \in Seq(Alphabet) /\ \A c \in Alphabet : <<c>> \in Seq(Alphabet)
      /\ "$" \in Alphabet /\ "error" \in Alphabet
  <2>1. "$" \in Alphabet /\ "error" \in Alphabet
    BY AlphabetHas
  <2> QED
    BY <2>1
<1>2. ASSUME NEW i \in D PROVE TailOf(i) \in Seq(Alphabet)
  BY <1>1 DEF Failed
<1>3. ASSUME NEW i \in D, ~Stops(i) PROVE HeadOf(i) \in Seq(Alphabet) /\ Later(i) \in i + 1..L + 2
  <2>1. i \in 1..L
    <3>1. ~ (i > L)
      BY <1>3
    <3> QED
      BY <1>0, <3>1
  <2>2. CASE Text(i)
    <3>1. <<r[i]>> \in Seq(Alphabet) /\ i + 1 \in i + 1..L + 2
      BY <1>0, <1>1, <2>1
    <3> QED
      BY <2>2, <3>1, Zenon
  <2>3. CASE ~Text(i) /\ (r[i] = Backslash \/ r[i + 1] = "$")
    <3>1. i # L
      BY <1>3, <2>3
    <3>2. i + 1 \in 1..L /\ i + 2 \in i + 1..L + 2
      BY <1>0, <2>1, <3>1
    <3>3. <<r[i + 1]>> \in Seq(Alphabet)
      BY <1>0, <1>1, <3>2
    <3>4. <<"$">> \in Seq(Alphabet)
      BY <1>1
    <3> QED
      BY <2>3, <3>2, <3>3, <3>4, Zenon
  <2>4. CASE ~Text(i) /\ r[i] # Backslash /\ r[i + 1] # "$"
    <3>1. ~Wrong(i)
      BY <1>3, <2>4, Zenon
    <3>2. close(i) # 0 /\ group(i) \in DOMAIN m.value
      BY <3>1, Zenon
    <3> DEFINE end == close(i)
               g == group(i)
    <3>3. HeadOf(i) = ValueOf(m, g) /\ Later(i) = end + 1
      BY <2>4, Zenon
    <3> HIDE DEF HeadOf, Later, g
    <3>4. ValueOf(m, g) \in Seq(Alphabet)
      BY <3>2, ValueType DEF g
    <3>5. end \in i..L
      <4>1. i \in Nat \ {0}
        BY <2>1
      <4> QED
        BY <3>2, <4>1, Found
    <3> HIDE DEF end
    <3>6. end + 1 \in i + 1..L + 2
      BY <1>0, <2>1, <3>5
    <3> QED
      BY <3>3, <3>4, <3>6, Zenon
  <2> QED
    BY <2>2, <2>3, <2>4, Zenon
<1>4. \A g, i : ReadAt(m, r, g, i) = IF Stops(i) THEN TailOf(i) ELSE HeadOf(i) \o g[Later(i)]
  <2> TAKE g, i
  <2>1. CASE i > L
    BY <2>1, Zenon DEF ReadAt
  <2>2. CASE ~ (i > L) /\ Text(i)
    BY <2>2, Zenon DEF ReadAt
  <2>3. CASE ~ (i > L) /\ ~Text(i) /\ i = L
    BY <2>3, Zenon DEF ReadAt
  <2>4. CASE ~ (i > L) /\ ~Text(i) /\ i # L /\ r[i] = Backslash
    BY <2>4, Zenon DEF ReadAt
  <2>5. CASE ~ (i > L) /\ ~Text(i) /\ i # L /\ r[i] # Backslash /\ r[i + 1] = "$"
    BY <2>5, Zenon DEF ReadAt
  <2>6. CASE ~ (i > L) /\ ~Text(i) /\ i # L /\ r[i] # Backslash /\ r[i + 1] # "$" /\ Wrong(i)
    BY <2>6, Zenon DEF ReadAt
  <2>7. CASE ~ (i > L) /\ ~Text(i) /\ i # L /\ r[i] # Backslash /\ r[i + 1] # "$" /\ ~Wrong(i)
    BY <2>7, Zenon DEF ReadAt
  <2> QED
    BY <2>1, <2>2, <2>3, <2>4, <2>5, <2>6, <2>7, Zenon
<1> HIDE DEF Stops, TailOf, HeadOf, Later
<1>5. /\ \A i \in D : measure[i] = (L + 2) - i /\ tail[i] = TailOf(i) /\ next[i] = Later(i)
      /\ \A i \in D : ~Stops(i) => head[i] = HeadOf(i)
      /\ \A i \in D : i \in stop <=> Stops(i)
  <2> HIDE DEF D
  <2> QED
    BY Zenon
<1>6. IsListwise(D, Alphabet, L + 2, measure, stop, tail, head, next)
  <2>1. measure \in [D -> 0..L + 2]
    BY <1>0
  <2>2. tail \in [D -> Seq(Alphabet)]
    <3> HIDE DEF D
    <3> QED
      BY <1>2
  <2>3. head \in [D -> Seq(Alphabet)]
    <3> HIDE DEF D
    <3> QED
      BY <1>1, <1>3
  <2>4. \A i \in D : i \notin stop => next[i] \in D /\ measure[next[i]] < measure[i]
    <3> TAKE i \in D
    <3> HAVE i \notin stop
    <3> DEFINE x == next[i]
    <3> HIDE DEF measure, stop, tail, head, next
    <3>1. x \in i + 1..L + 2
      BY <1>3, <1>5, Zenon
    <3> HIDE DEF x
    <3>2. x \in D
      BY <1>0, <3>1
    <3>3. measure[x] < measure[i]
      BY <1>0, <1>5, <3>1, <3>2
    <3> QED
      BY <3>2, <3>3 DEF x
  <2> HIDE DEF D, measure, stop, tail, head, next
  <2> QED
    BY <2>1, <2>2, <2>3, <2>4, Zenon DEF IsListwise
<1>7. PICK f \in [D -> Seq(Alphabet)] : IsList(D, f, stop, tail, head, next)
  <2>1. L + 2 \in Nat
    BY <1>0
  <2> HIDE DEF D, L, measure, stop, tail, head, next
  <2> QED
    BY <1>6, <2>1, ListRecursion
<1>8. \A i \in D : f[i] = ReadAt(m, r, f, i)
  <2> TAKE i \in D
  <2>1. f[i] = IF i \in stop THEN tail[i] ELSE head[i] \o f[next[i]]
    <3> HIDE DEF D, stop, tail, head, next
    <3> QED
      BY <1>7 DEF IsList
  <2>2. ReadAt(m, r, f, i) = IF Stops(i) THEN TailOf(i) ELSE HeadOf(i) \o f[Later(i)]
    BY <1>4
  <2>3. tail[i] = TailOf(i) /\ next[i] = Later(i) /\ (~Stops(i) => head[i] = HeadOf(i)) /\ (i \in stop <=> Stops(i))
    BY <1>5
  <2> HIDE DEF D, measure, stop, tail, head, next
  <2>4. CASE Stops(i)
    BY <2>1, <2>2, <2>3, <2>4, Zenon
  <2>5. CASE ~Stops(i)
    BY <2>1, <2>2, <2>3, <2>5, Zenon
  <2> QED
    BY <2>4, <2>5
<1> DEFINE g == CHOOSE g : g = [i \in D |-> ReadAt(m, r, g, i)]
<1>9. ReplacedBy(m, r) = g[1]
  BY Zenon DEF ReplacedBy, ReadAt, NamedGroup
<1>10. g = [i \in D |-> ReadAt(m, r, g, i)]
  <2> HIDE DEF D
  <2>1. f = [i \in D |-> ReadAt(m, r, f, i)]
    BY <1>7, <1>8
  <2> QED
    BY <2>1
<1>11. IsReading(m, r, g)
  <2> HIDE DEF g
  <2>1. \A i \in D : g[i] = ReadAt(m, r, g, i)
    <3> HIDE DEF D
    <3> QED
      BY <1>10
  <2> QED
    BY <2>1, Zenon DEF IsReading
<1> HIDE DEF g
<1> QED
  BY <1>9, <1>11

\* r has u from place i on.
Stretch(r, i, u) == i + Len(u) - 1 <= Len(r) /\ \A k \in 1..Len(u) : r[(i - 1) + k] = u[k]

\* Wherever a replacement has u, u is read as out and nothing else.
IsUnit(m, u, out) ==
  /\ u \in Seq(Alphabet) /\ out \in Seq(Alphabet) /\ Len(u) > 0
  /\ \A r \in Seq(Alphabet), i \in Nat \ {0} : \A g :
       IsReading(m, r, g) /\ Stretch(r, i, u) => g[i] = out \o g[i + Len(u)]

LEMMA CharacterUnit ==
  ASSUME NEW m, NEW c \in Alphabet, c \notin {Backslash, "$"}
  PROVE  IsUnit(m, <<c>>, <<c>>)
<1>1. <<c>> \in Seq(Alphabet) /\ Len(<<c>>) = 1 /\ <<c>>[1] = c
  OBVIOUS
<1> DEFINE u == <<c>>
<1>2. u \in Seq(Alphabet) /\ Len(u) = 1 /\ u[1] = c /\ Len(u) > 0
  BY <1>1
<1> HIDE DEF u
<1>3. ASSUME NEW r \in Seq(Alphabet), NEW g, NEW i \in Nat \ {0}, IsReading(m, r, g), Stretch(r, i, u)
      PROVE  g[i] = u \o g[i + 1]
  <2>1. Len(r) \in Nat
    OBVIOUS
  <2>2. i \in 1..Len(r) /\ i \in 1..Len(r) + 2 /\ ~ (i > Len(r)) /\ (i - 1) + 1 = i
    BY <1>2, <1>3, <2>1 DEF Stretch
  <2>3. r[(i - 1) + 1] = c
    BY <1>2, <1>3 DEF Stretch
  <2>4. r[i] = c
    BY <2>2, <2>3, Zenon
  <2>5. g[i] = <<r[i]>> \o g[i + 1]
    BY <1>3, <2>2, <2>4, Zenon DEF IsReading, ReadAt
  <2> QED
    BY <2>4, <2>5, Zenon DEF u
<1>4. IsUnit(m, u, u)
  BY <1>2, <1>3, Zenon DEF IsUnit
<1> QED
  BY <1>4 DEF u

LEMMA EscapeUnit ==
  ASSUME NEW m, NEW c \in {Backslash, "$"}
  PROVE  IsUnit(m, <<c, c>>, <<c>>)
<1>1. c \in Alphabet
  BY AlphabetHas
<1>2. <<c, c>> \in Seq(Alphabet) /\ <<c>> \in Seq(Alphabet) /\ Len(<<c, c>>) = 2 /\ <<c, c>>[1] = c /\ <<c, c>>[2] = c
  BY <1>1
<1> DEFINE u == <<c, c>>
<1>3. u \in Seq(Alphabet) /\ Len(u) = 2 /\ u[1] = c /\ u[2] = c /\ Len(u) > 0
  BY <1>2
<1> HIDE DEF u
<1>4. Backslash # "$"
  BY DEF Backslash
<1>5. ASSUME NEW r \in Seq(Alphabet), NEW g, NEW i \in Nat \ {0}, IsReading(m, r, g), Stretch(r, i, u)
      PROVE  g[i] = <<c>> \o g[i + 2]
  <2>1. Len(r) \in Nat
    OBVIOUS
  <2>2. /\ i \in 1..Len(r) /\ i \in 1..Len(r) + 2 /\ ~ (i > Len(r)) /\ i # Len(r) /\ (i - 1) + 1 = i
        /\ (i - 1) + 2 = i + 1
    BY <1>3, <1>5, <2>1 DEF Stretch
  <2>3. r[(i - 1) + 1] = c /\ r[(i - 1) + 2] = c
    BY <1>3, <1>5 DEF Stretch
  <2>4. r[i] = c /\ r[i + 1] = c
    BY <2>2, <2>3, Zenon
  <2>5. g[i] = ReadAt(m, r, g, i)
    BY <1>5, <2>2, Zenon DEF IsReading
  <2>6. CASE c = Backslash
    BY <1>4, <2>2, <2>4, <2>5, <2>6, Zenon DEF ReadAt
  <2>7. CASE c = "$"
    BY <1>4, <2>2, <2>4, <2>5, <2>7, Zenon DEF ReadAt
  <2> QED
    BY <2>6, <2>7
<1>6. IsUnit(m, u, <<c>>)
  BY <1>2, <1>3, <1>5, Zenon DEF IsUnit
<1> QED
  BY <1>6 DEF u

\* A reference.
Referring(name) == <<"$", Opening>> \o name \o <<Closing>>

LEMMA ReferringIs ==
  ASSUME NEW name \in Seq(Alphabet)
  PROVE  /\ Referring(name) \in Seq(Alphabet) /\ Len(Referring(name)) = Len(name) + 3
         /\ Referring(name)[1] = "$" /\ Referring(name)[2] = Opening
         /\ \A k \in 1..Len(name) : Referring(name)[k + 2] = name[k]
         /\ Referring(name)[Len(name) + 3] = Closing
<1> DEFINE open == <<"$", Opening>>
           end == <<Closing>>
           n == Len(name)
<1>1. "$" \in Alphabet /\ Opening \in Alphabet /\ Closing \in Alphabet
  BY AlphabetHas
<1>2. /\ open \in Seq(Alphabet) /\ Len(open) = 2 /\ open[1] = "$" /\ open[2] = Opening
      /\ end \in Seq(Alphabet) /\ Len(end) = 1 /\ end[1] = Closing /\ n \in Nat
  BY <1>1
<1> HIDE DEF open, end
<1> DEFINE a == open \o name
<1>3. /\ a \in Seq(Alphabet) /\ Len(a) = Len(open) + n
      /\ \A i \in 1..Len(open) + n : a[i] = IF i <= Len(open) THEN open[i] ELSE name[i - Len(open)]
  BY <1>2, ConcatProperties
<1> HIDE DEF a, n
<1> DEFINE b == a \o end
<1>4. /\ b \in Seq(Alphabet) /\ Len(b) = Len(a) + Len(end)
      /\ \A i \in 1..Len(a) + Len(end) : b[i] = IF i <= Len(a) THEN a[i] ELSE end[i - Len(a)]
  <2>1. a \in Seq(Alphabet) /\ end \in Seq(Alphabet)
    BY <1>2, <1>3
  <2> QED
    BY ONLY <2>1, ConcatProperties
<1>5. Referring(name) = b
  BY DEF Referring, open, end, a
<1> HIDE DEF b
<1>6. Len(a) = n + 2 /\ Len(b) = n + 3
  BY ONLY <1>2, <1>3, <1>4
<1>7. a[1] = "$" /\ a[2] = Opening
  <2>1. 1 \in 1..Len(open) + n /\ 2 \in 1..Len(open) + n /\ 1 <= Len(open) /\ 2 <= Len(open)
    BY ONLY <1>2
  <2> QED
    BY <1>2, <1>3, <2>1, Zenon
<1>8. ASSUME NEW k \in 1..n PROVE a[k + 2] = name[k]
  <2>1. k + 2 \in 1..Len(open) + n /\ ~ (k + 2 <= Len(open)) /\ (k + 2) - Len(open) = k
    BY ONLY <1>2, k \in 1..n
  <2> QED
    BY <1>3, <2>1, Zenon
<1>9. \A i \in 1..n + 2 : b[i] = a[i]
  <2> TAKE i \in 1..n + 2
  <2>1. i \in 1..Len(a) + Len(end) /\ i <= Len(a)
    BY ONLY <1>2, <1>6, i \in 1..n + 2
  <2> QED
    BY <1>4, <2>1, Zenon
<1>10. b[n + 3] = Closing
  <2>1. n + 3 \in 1..Len(a) + Len(end) /\ ~ (n + 3 <= Len(a)) /\ (n + 3) - Len(a) = 1
    BY ONLY <1>2, <1>6
  <2> QED
    BY <1>2, <1>4, <2>1, Zenon
<1>11. 1 \in 1..n + 2 /\ 2 \in 1..n + 2 /\ \A k \in 1..n : k + 2 \in 1..n + 2
  BY ONLY <1>2
<1> QED
  BY <1>4, <1>5, <1>6, <1>7, <1>8, <1>9, <1>10, <1>11, Zenon DEF n

LEMMA ReferenceUnit ==
  ASSUME NEW m, IsNamedMatch(m), NEW name \in Seq(Alphabet), Closing \notin Range(name),
         NamedGroup(m, name) \in DOMAIN m.value
  PROVE  IsUnit(m, Referring(name), ValueOf(m, NamedGroup(m, name)))
<1> DEFINE u == Referring(name)
           n == Len(name)
           out == ValueOf(m, NamedGroup(m, name))
<1>1. /\ u \in Seq(Alphabet) /\ Len(u) = n + 3 /\ u[1] = "$" /\ u[2] = Opening
      /\ \A k \in 1..n : u[k + 2] = name[k]
      /\ u[n + 3] = Closing
  BY ReferringIs
<1>2. out \in Seq(Alphabet)
  BY ValueType
<1>3. n \in Nat /\ \A k \in 1..n : name[k] # Closing /\ name[k] \in Alphabet
  BY DEF Range
<1> HIDE DEF u, n, out
<1>4. Backslash # "$" /\ Opening # "$" /\ "$" # Closing /\ Opening # Closing
  BY Zenon DEF Backslash, Opening, Closing
<1>5. ASSUME NEW r \in Seq(Alphabet), NEW g, NEW i \in Nat \ {0}, IsReading(m, r, g), Stretch(r, i, u)
      PROVE  g[i] = out \o g[i + Len(u)]
  <2> DEFINE L == Len(r)
             close == i + n + 2
  <2>1. L \in Nat /\ \A k \in 1..L : r[k] \in Alphabet
    OBVIOUS
  <2>2. i + n + 2 <= L /\ \A k \in 1..n + 3 : r[(i - 1) + k] = u[k]
    <3>1. i + (n + 3) - 1 <= L /\ \A k \in 1..n + 3 : r[(i - 1) + k] = u[k]
      BY <1>1, <1>5, Zenon DEF Stretch
    <3> QED
      BY <1>3, <2>1, <3>1
  <2> HIDE DEF L
  <2>3. /\ i \in 1..L /\ i \in 1..L + 2 /\ ~ (i > L) /\ i # L /\ close \in i + 2..L /\ close # 0 /\ close \in Nat
        /\ i + (n + 3) = close + 1 /\ close = (i - 1) + (n + 3)
    BY ONLY <1>3, <2>1, <2>2, i \in Nat \ {0}
  <2>4. r[i] = "$" /\ r[i + 1] = Opening /\ r[close] = Closing
    <3>1. 1 \in 1..n + 3 /\ 2 \in 1..n + 3 /\ n + 3 \in 1..n + 3
      BY ONLY <1>3
    <3>2. (i - 1) + 1 = i /\ (i - 1) + 2 = i + 1
      BY ONLY i \in Nat \ {0}
    <3> HIDE DEF close
    <3> QED
      BY <1>1, <2>2, <2>3, <3>1, <3>2, Zenon
  <2>5. ASSUME NEW k \in 1..n PROVE r[(i + 1) + k] = name[k]
    <3>1. k + 2 \in 1..n + 3 /\ (i - 1) + (k + 2) = (i + 1) + k
      BY ONLY <1>3, k \in 1..n, i \in Nat \ {0}
    <3> QED
      BY <1>1, <2>2, <3>1, Zenon
  <2> HIDE DEF close
  <2>6. \A k \in i..close - 1 : r[k] # Closing
    <3> TAKE k \in i..close - 1
    <3>1. k = i \/ k = i + 1 \/ (k - (i + 1) \in 1..n /\ (i + 1) + (k - (i + 1)) = k)
      BY ONLY <1>3, <2>3, i \in Nat \ {0}, k \in i..close - 1
    <3> QED
      BY <1>3, <1>4, <2>4, <2>5, <3>1, Zenon
  <2>7. FindChar(r, Closing, i) = close
    <3> DEFINE spot == FindChar(r, Closing, i)
    <3>1. \/ spot = 0 /\ \A j \in i..L : r[j] # Closing
          \/ /\ spot \in i..L /\ r[spot] = Closing
             /\ \A j \in i..spot - 1 : r[j] # Closing
      BY Found DEF L
    <3> HIDE DEF spot
    <3>2. close \in i..L
      BY ONLY <2>3, i \in Nat \ {0}
    <3>3. spot \in i..L /\ r[spot] = Closing /\ \A j \in i..spot - 1 : r[j] # Closing
      BY <2>4, <3>1, <3>2, Zenon
    <3>4. spot \notin i..close - 1 /\ close \notin i..spot - 1
      BY <2>4, <2>6, <3>3, Zenon
    <3>5. spot = close
      BY ONLY <3>2, <3>3, <3>4, i \in Nat \ {0}, <2>1
    <3> QED
      BY <3>5 DEF spot
  <2>8. SubSeq(r, i + 2, close - 1) = name
    <3> DEFINE inside == SubSeq(r, i + 2, close - 1)
    <3>1. i + 2 \in Int /\ close - 1 \in Int /\ (close - 1) - (i + 2) + 1 = n /\ (i + 2 <= close - 1 \/ n = 0)
      BY ONLY <1>3, <2>3, i \in Nat \ {0}
    <3>2. \A x \in i + 2..close - 1 : r[x] \in Alphabet
      <4>1. \A x \in i + 2..close - 1 : x \in 1..L
        BY ONLY <2>1, <2>3, i \in Nat \ {0}
      <4> QED
        BY <2>1, <4>1
    <3>3. /\ inside \in Seq(Alphabet)
          /\ Len(inside) = (IF i + 2 <= close - 1 THEN (close - 1) - (i + 2) + 1 ELSE 0)
          /\ \A k \in 1..(close - 1) - (i + 2) + 1 : inside[k] = r[(i + 2) + k - 1]
      BY <3>1, <3>2, SubSeqProperties
    <3> HIDE DEF inside
    <3>4. Len(inside) = n
      BY <3>1, <3>3, Zenon
    <3>5. \A k \in 1..n : inside[k] = name[k]
      <4> TAKE k \in 1..n
      <4>1. (i + 2) + k - 1 = (i + 1) + k
        BY ONLY k \in 1..n, i \in Nat \ {0}, <1>3
      <4>2. inside[k] = r[(i + 2) + k - 1]
        BY <3>1, <3>3, Zenon
      <4> QED
        BY <2>5, <4>1, <4>2, Zenon
    <3>6. inside = name
      BY <3>3, <3>4, <3>5, SeqEqual DEF n
    <3> QED
      BY <3>6 DEF inside
  <2>9. g[i] = ReadAt(m, r, g, i)
    BY <1>5, <2>3, Zenon DEF IsReading, L
  <2>10. ReadAt(m, r, g, i) = ValueOf(m, NamedGroup(m, name)) \o g[close + 1]
    BY <1>4, <2>3, <2>4, <2>7, <2>8, Zenon DEF ReadAt, L
  <2> QED
    BY <1>1, <2>3, <2>9, <2>10, Zenon DEF out
<1>6. Len(u) > 0
  BY ONLY <1>1, <1>3
<1>7. IsUnit(m, u, out)
  BY <1>1, <1>2, <1>5, <1>6, Zenon DEF IsUnit
<1> QED
  BY <1>7 DEF u, out

\* The first parts of a concatenation stand at its beginning.
Begins(a, b) == Len(a) <= Len(b) /\ \A x \in 1..Len(a) : b[x] = a[x]

LEMMA ConcatBegins ==
  ASSUME NEW S, NEW a \in Seq(S), NEW b \in Seq(S)
  PROVE  /\ a \o b \in Seq(S) /\ Len(a \o b) = Len(a) + Len(b) /\ Begins(a, a \o b)
         /\ \A x \in 1..Len(b) : (a \o b)[Len(a) + x] = b[x]
<1> DEFINE c == a \o b
<1>1. /\ c \in Seq(S) /\ Len(c) = Len(a) + Len(b)
      /\ \A i \in 1..Len(a) + Len(b) : c[i] = IF i <= Len(a) THEN a[i] ELSE b[i - Len(a)]
  BY ConcatProperties
<1> HIDE DEF c
<1>2. Len(a) \in Nat /\ Len(b) \in Nat
  OBVIOUS
<1>3. Begins(a, c)
  <2>1. Len(a) <= Len(c)
    BY ONLY <1>1, <1>2
  <2>2. \A x \in 1..Len(a) : x \in 1..Len(a) + Len(b) /\ x <= Len(a)
    BY ONLY <1>2
  <2> QED
    BY <1>1, <2>1, <2>2, Zenon DEF Begins
<1>4. \A x \in 1..Len(b) : c[Len(a) + x] = b[x]
  <2> TAKE x \in 1..Len(b)
  <2>1. Len(a) + x \in 1..Len(a) + Len(b) /\ ~ (Len(a) + x <= Len(a)) /\ (Len(a) + x) - Len(a) = x
    BY ONLY <1>2, x \in 1..Len(b)
  <2> QED
    BY <1>1, <2>1, Zenon
<1> QED
  BY <1>1, <1>3, <1>4 DEF c

LEMMA FlatBegins ==
  ASSUME NEW S, NEW ss \in Seq(Seq(S)), NEW f \in [0..Len(ss) -> Seq(S)], IsFlat(ss, f), NEW k \in 0..Len(ss)
  PROVE  Begins(f[k], f[Len(ss)])
<1> DEFINE n == Len(ss)
           T == {d \in Nat : d \in 0..n => Begins(f[n - d], f[n])}
<1>0. n \in Nat /\ \A j \in 1..n : ss[j] \in Seq(S)
  OBVIOUS
<1>1. 0 \in T
  <2>1. n - 0 = n
    BY <1>0
  <2>2. f[n] \in Seq(S)
    BY <1>0
  <2>3. Len(f[n]) <= Len(f[n])
    BY <2>2
  <2>4. Begins(f[n], f[n])
    BY <2>3, Zenon DEF Begins
  <2> QED
    BY <2>1, <2>4
<1>2. ASSUME NEW d \in 0..n - 1, d \in T PROVE d + 1 \in T
  <2> DEFINE j == n - (d + 1)
             x == f[j]
             y == f[n - d]
             z == f[n]
  <2>1. j + 1 \in 1..n /\ (j + 1) - 1 = j /\ j + 1 = n - d /\ d \in 0..n /\ d + 1 \in Nat /\ j \in 0..n /\ n \in 0..n /\ n - d \in 0..n
    BY <1>0
  <2>2. Begins(y, z)
    BY <1>2, <2>1
  <2>3. f[j + 1] = f[(j + 1) - 1] \o ss[j + 1]
    BY <2>1, Zenon DEF IsFlat
  <2>4. x \in Seq(S) /\ y \in Seq(S) /\ z \in Seq(S) /\ ss[j + 1] \in Seq(S)
    BY <1>0, <2>1
  <2>5. y = x \o ss[j + 1]
    BY <2>1, <2>3, Zenon
  <2>6. Begins(x, x \o ss[j + 1])
    <3> DEFINE b == ss[j + 1]
    <3>1. x \in Seq(S) /\ b \in Seq(S)
      BY <2>4
    <3> HIDE DEF x, b
    <3>2. Begins(x, x \o b)
      BY <3>1, ConcatBegins
    <3> QED
      BY <3>2 DEF b
  <2>7. Begins(x, y)
    BY <2>5, <2>6, Zenon
  <2> HIDE DEF x, y, z
  <2>8. Begins(x, z)
    <3>1. Len(x) \in Nat /\ Len(y) \in Nat /\ Len(z) \in Nat
      BY <2>4
    <3>2. Len(x) <= Len(y) /\ Len(y) <= Len(z)
      BY <2>2, <2>7 DEF Begins
    <3>3. Len(x) <= Len(z) /\ \A w \in 1..Len(x) : w \in 1..Len(y)
      BY ONLY <3>1, <3>2
    <3> QED
      BY <2>2, <2>7, <3>3, Zenon DEF Begins
  <2> QED
    BY <2>1, <2>8 DEF x, z
<1>3. 0..n \subseteq T
  <2> HIDE DEF T
  <2> QED
    BY <1>0, <1>1, <1>2, StepsUp
<1>4. n - k \in 0..n /\ n - (n - k) = k
  BY <1>0
<1>5. n - k \in T
  <2> HIDE DEF T
  <2> QED
    BY <1>3, <1>4
<1> QED
  BY <1>4, <1>5

LEMMA FlatStretch ==
  ASSUME NEW S, NEW ss \in Seq(Seq(S)), NEW f \in [0..Len(ss) -> Seq(S)], IsFlat(ss, f), NEW k \in 1..Len(ss)
  PROVE  /\ Stretch(f[Len(ss)], Len(f[k - 1]) + 1, ss[k])
         /\ Len(f[k]) = Len(f[k - 1]) + Len(ss[k])
<1> DEFINE n == Len(ss)
           r == f[n]
           x == f[k - 1]
           y == f[k]
           u == ss[k]
<1>0. n \in Nat /\ k - 1 \in 0..n /\ k \in 0..n /\ n \in 0..n
  OBVIOUS
<1>1. r \in Seq(S) /\ x \in Seq(S) /\ y \in Seq(S) /\ u \in Seq(S)
  <2> DEFINE V == Seq(S)
  <2>1. ss \in Seq(V) /\ f \in [0..n -> V]
    OBVIOUS
  <2> HIDE DEF V
  <2>2. ss[k] \in V
    BY <2>1
  <2>3. f[n] \in V /\ f[k - 1] \in V /\ f[k] \in V
    <3> HIDE DEF n
    <3> QED
      BY <1>0, <2>1
  <2> QED
    BY <2>2, <2>3 DEF V
<1>2. y = x \o u
  BY Zenon DEF IsFlat
<1>3. Begins(y, r)
  BY <1>0, FlatBegins
<1> HIDE DEF r, x, y, u
<1>4. Len(x \o u) = Len(x) + Len(u) /\ \A z \in 1..Len(u) : (x \o u)[Len(x) + z] = u[z]
  BY <1>1, ConcatBegins
<1>5. Len(y) = Len(x) + Len(u) /\ \A z \in 1..Len(u) : y[Len(x) + z] = u[z]
  BY <1>2, <1>4, Zenon
<1>6. Len(y) <= Len(r) /\ \A z \in 1..Len(y) : r[z] = y[z]
  BY <1>3, Zenon DEF Begins
<1>7. Len(x) \in Nat /\ Len(u) \in Nat /\ Len(r) \in Nat
  BY <1>1
<1>8. (Len(x) + 1) + Len(u) - 1 <= Len(r)
  BY ONLY <1>5, <1>6, <1>7
<1>9. ASSUME NEW z \in 1..Len(u) PROVE r[((Len(x) + 1) - 1) + z] = u[z]
  <2>1. ((Len(x) + 1) - 1) + z = Len(x) + z /\ Len(x) + z \in 1..Len(y)
    BY ONLY <1>5, <1>7, z \in 1..Len(u)
  <2> QED
    BY <1>5, <1>6, <2>1, Zenon
<1>10. Stretch(r, Len(x) + 1, u)
  BY <1>8, <1>9, Zenon DEF Stretch
<1> QED
  BY <1>5, <1>10 DEF r, x, y, u

\* A replacement made of units is read as what they are read as.
AllUnits(m, us, outs) ==
  /\ us \in Seq(Seq(Alphabet)) /\ outs \in Seq(Seq(Alphabet)) /\ Len(outs) = Len(us)
  /\ \A k \in 1..Len(us) : IsUnit(m, us[k], outs[k])

LEMMA ReadsUnits ==
  ASSUME NEW m, IsNamedMatch(m), NEW us, NEW outs, AllUnits(m, us, outs)
  PROVE  ReplacedBy(m, FlattenSeq(us)) = FlattenSeq(outs)
<1> DEFINE n == Len(us)
           r == FlattenSeq(us)
           S == Seq(Alphabet)
<1>0. /\ us \in Seq(S) /\ outs \in Seq(S) /\ Len(outs) = n /\ n \in Nat
      /\ \A k \in 1..n : us[k] \in S /\ outs[k] \in S
  <2>1. us \in Seq(S) /\ outs \in Seq(S) /\ Len(outs) = n
    BY DEF AllUnits
  <2> HIDE DEF S
  <2> QED
    BY <2>1
<1>1. PICK f \in [0..n -> S] : IsFlat(us, f) /\ r = f[n]
  BY <1>0, Flat
<1>2. PICK h \in [0..n -> S] : IsFlat(outs, h) /\ FlattenSeq(outs) = h[n]
  <2>1. \E h \in [0..Len(outs) -> S] : IsFlat(outs, h) /\ FlattenSeq(outs) = h[Len(outs)]
    BY <1>0, Flat
  <2> QED
    BY <1>0, <2>1
<1>3. r \in S
  <2>1. n \in 0..n
    BY ONLY <1>0
  <2>2. r = f[n]
    BY <1>1
  <2> HIDE DEF S, r
  <2> QED
    BY <1>1, <2>1, <2>2
<1>4. PICK g : IsReading(m, r, g) /\ ReplacedBy(m, r) = g[1]
  BY <1>3, Reading
<1> HIDE DEF r, n
<1> DEFINE ValueAt(k) == Len(f[k]) + 1
           Good(k) == \E rest \in S : g[ValueAt(k)] = rest /\ h[n] = h[k] \o rest
           T == {d \in Nat : d \in 0..n => Good(n - d)}
<1>5. \A k \in 0..n : f[k] \in S /\ h[k] \in S /\ ValueAt(k) \in Nat \ {0}
  <2> TAKE k \in 0..n
  <2>1. f[k] \in S /\ h[k] \in S
    BY <1>1, <1>2
  <2> QED
    BY <2>1
<1>6. 0 \in T
  <2>1. n - 0 = n /\ n \in 0..n
    BY <1>0
  <2>2. g[ValueAt(n)] = <<>>
    <3>1. Len(r) \in Nat
      BY <1>3
    <3>2. Len(r) + 1 \in 1..Len(r) + 2 /\ Len(r) + 1 > Len(r)
      BY <3>1
    <3>3. g[Len(r) + 1] = <<>>
      BY <1>4, <3>2, Zenon DEF IsReading, ReadAt
    <3> QED
      BY <1>1, <3>3
  <2>3. h[n] = h[n] \o <<>>
    BY <1>5, <2>1, ConcatEmptySeq
  <2>4. <<>> \in S
    OBVIOUS
  <2>5. Good(n)
    BY <2>2, <2>3, <2>4, Zenon
  <2> HIDE DEF Good
  <2> QED
    BY <2>1, <2>5
<1>7. ASSUME NEW d \in 0..n - 1, d \in T PROVE d + 1 \in T
  <2> DEFINE k == n - d
             i == ValueAt(k - 1)
  <2>1. k \in 1..n /\ k - 1 = n - (d + 1) /\ d \in 0..n /\ d + 1 \in Nat /\ k - 1 \in 0..n /\ k \in 0..n
    BY <1>0
  <2>2. Good(k)
    <3> HIDE DEF Good
    <3> QED
      BY <1>7, <2>1
  <2> HIDE DEF k
  <2>3. PICK rest \in S : g[ValueAt(k)] = rest /\ h[n] = h[k] \o rest
    BY <2>2
  <2>4. IsUnit(m, us[k], outs[k])
    BY <2>1, Zenon DEF AllUnits, n
  <2>5. Stretch(r, i, us[k]) /\ Len(f[k]) = Len(f[k - 1]) + Len(us[k])
    <3>1. Stretch(f[n], Len(f[k - 1]) + 1, us[k]) /\ Len(f[k]) = Len(f[k - 1]) + Len(us[k])
      BY <1>0, <1>1, <2>1, FlatStretch DEF n
    <3> QED
      BY <1>1, <3>1, Zenon
  <2>6. i \in Nat \ {0} /\ h[k - 1] \in S
    BY <1>5, <2>1
  <2>7. i + Len(us[k]) = ValueAt(k)
    <3> DEFINE p == f[k - 1]
               q == us[k]
    <3>1. p \in S /\ q \in S
      BY <1>0, <1>5, <2>1, Zenon
    <3> HIDE DEF p, q
    <3>2. Len(p) \in Nat /\ Len(q) \in Nat
      BY <3>1
    <3>3. (Len(p) + 1) + Len(q) = (Len(p) + Len(q)) + 1
      BY ONLY <3>2
    <3> QED
      BY <2>5, <3>3, Zenon DEF p, q
  <2> HIDE DEF i, ValueAt
  <2>8. g[i] = outs[k] \o g[i + Len(us[k])]
    <3>1. \A v \in Seq(Alphabet), j \in Nat \ {0} : \A w :
            IsReading(m, v, w) /\ Stretch(v, j, us[k]) => w[j] = outs[k] \o w[j + Len(us[k])]
      BY <2>4, Zenon DEF IsUnit
    <3>2. r \in Seq(Alphabet)
      BY <1>3
    <3> HIDE DEF S
    <3> QED
      BY <1>4, <2>5, <2>6, <3>1, <3>2, Zenon
  <2>9. g[i] = outs[k] \o rest
    BY <2>3, <2>7, <2>8, Zenon
  <2>10. h[k] = h[k - 1] \o outs[k]
    BY <1>0, <1>2, <2>1, Zenon DEF IsFlat
  <2>11. outs[k] \in S /\ outs[k] \o rest \in S
    BY <1>0, <2>1, ConcatProperties
  <2>12. (h[k - 1] \o outs[k]) \o rest = h[k - 1] \o (outs[k] \o rest)
    <3>1. \A a, b, c \in S : (a \o b) \o c = a \o (b \o c)
      BY RegroupText, Zenon
    <3> HIDE DEF S
    <3> QED
      BY <2>6, <2>11, <3>1, Zenon
  <2>13. Good(k - 1)
    BY <2>3, <2>9, <2>10, <2>11, <2>12, Zenon DEF i
  <2> HIDE DEF Good
  <2> QED
    BY <2>1, <2>13
<1>8. 0..n \subseteq T
  <2> HIDE DEF T
  <2> QED
    BY <1>0, <1>6, <1>7, StepsUp
<1>9. Good(0)
  <2>1. n \in 0..n /\ n - n = 0
    BY <1>0
  <2> HIDE DEF Good
  <2> QED
    BY <1>8, <2>1
<1>10. f[0] = <<>> /\ h[0] = <<>>
  BY <1>1, <1>2, Zenon DEF IsFlat
<1>11. ValueAt(0) = 1
  BY <1>10
<1>12. PICK rest \in S : g[1] = rest /\ h[n] = h[0] \o rest
  BY <1>9, <1>11
<1>13. <<>> \o rest = rest
  BY ConcatEmptySeq
<1> QED
  BY <1>2, <1>4, <1>10, <1>12, <1>13, Zenon DEF r

\* What a piece is written as is read as the piece.
LEMMA PieceUnit ==
  ASSUME NEW m, IsNamedMatch(m), NEW piece \in Pieces(m)
  PROVE  IsUnit(m, ReplacementOf(piece), RenderedPiece(m, piece))
<1>1. piece.text \in Alphabet /\ (piece.group = -1 \/ piece.group \in DOMAIN m.value)
  BY DEF Pieces
<1>2. CASE piece.group # -1
  <2> DEFINE g == piece.group
             name == Decimal(g)
  <2>1. g \in DOMAIN m.value
    BY <1>1, <1>2
  <2>2. g \in Nat
    BY <2>1, GroupsAreNumbers
  <2>3. name \in Seq(Digits) /\ NumberOf(name) = g
    BY <2>2, DecimalIs
  <2>4. ReplacementOf(piece) = Referring(name)
    BY <1>2, Zenon DEF ReplacementOf, Referring
  <2>5. RenderedPiece(m, piece) = ValueOf(m, g)
    BY <1>2, Zenon DEF RenderedPiece
  <2> HIDE DEF name
  <2>6. Range(name) \subseteq Digits
    BY <2>3 DEF Range
  <2>7. Closing \notin Digits
    BY Zenon DEF Closing, Digits
  <2>8. Digits \subseteq Alphabet
    BY Zenon DEF Alphabet
  <2>9. name \in Seq(Alphabet)
    BY <2>3, <2>8
  <2>10. Closing \notin Range(name)
    BY <2>6, <2>7, Zenon
  <2>11. NamedGroup(m, name) = g
    BY <2>3, <2>6, Zenon DEF NamedGroup, AllDigits
  <2>12. IsUnit(m, Referring(name), ValueOf(m, NamedGroup(m, name)))
    BY <2>1, <2>9, <2>10, <2>11, ReferenceUnit
  <2> QED
    BY <2>4, <2>5, <2>11, <2>12, Zenon
<1>3. CASE piece.group = -1 /\ piece.text \in {Backslash, "$"}
  <2>1. ReplacementOf(piece) = <<piece.text, piece.text>>
    BY <1>3 DEF ReplacementOf
  <2>2. RenderedPiece(m, piece) = <<piece.text>>
    BY <1>3, Zenon DEF RenderedPiece
  <2> QED
    BY <1>3, <2>1, <2>2, EscapeUnit
<1>4. CASE piece.group = -1 /\ piece.text \notin {Backslash, "$"}
  <2>1. ReplacementOf(piece) = <<piece.text>>
    BY <1>4 DEF ReplacementOf
  <2>2. RenderedPiece(m, piece) = <<piece.text>>
    BY <1>4, Zenon DEF RenderedPiece
  <2> QED
    BY <1>1, <1>4, <2>1, <2>2, CharacterUnit
<1> QED
  BY <1>2, <1>3, <1>4

LEMMA ParsedIsRead ==
  ASSUME NEW m, IsNamedMatch(m), NEW parsed \in Seq(Pieces(m))
  PROVE  ReplacedBy(m, _pcre2_replacement_from_parsed(parsed)) = Rendered(m, parsed)
<1> DEFINE us == [i \in DOMAIN parsed |-> ReplacementOf(parsed[i])]
           outs == EachRendered(m, parsed)
           n == Len(parsed)
<1>1. /\ outs \in Seq(Seq(Alphabet)) /\ Len(outs) = n
      /\ \A i \in 1..n : outs[i] = RenderedPiece(m, parsed[i])
  BY EachType
<1>2. n \in Nat /\ DOMAIN parsed = 1..n
  OBVIOUS
<1>3. \A i \in 1..n : parsed[i] \in Pieces(m)
  <2> DEFINE S == Pieces(m)
  <2>1. parsed \in Seq(S)
    OBVIOUS
  <2> HIDE DEF S
  <2>2. \A i \in 1..n : parsed[i] \in S
    BY <2>1
  <2> QED
    BY <2>2 DEF S
<1> HIDE DEF n
<1>4. us = [i \in 1..n |-> ReplacementOf(parsed[i])]
  BY <1>2
<1> HIDE DEF us, outs
<1>5. \A i \in 1..n : IsUnit(m, us[i], outs[i])
  <2> TAKE i \in 1..n
  <2>1. us[i] = ReplacementOf(parsed[i])
    BY <1>4, Zenon
  <2>2. IsUnit(m, ReplacementOf(parsed[i]), RenderedPiece(m, parsed[i]))
    BY <1>3, PieceUnit
  <2> QED
    BY <1>1, <2>1, <2>2, Zenon
<1>6. us \in Seq(Seq(Alphabet)) /\ Len(us) = n
  <2> DEFINE V == Seq(Alphabet)
  <2>1. \A i \in 1..n : us[i] \in V
    BY <1>5, Zenon DEF IsUnit
  <2> HIDE DEF V
  <2>2. us \in Seq(V) /\ Len(us) = n
    BY ONLY <1>2, <1>4, <2>1
  <2> QED
    BY <2>2 DEF V
<1>7. AllUnits(m, us, outs)
  BY <1>1, <1>5, <1>6, Zenon DEF AllUnits
<1>8. ReplacedBy(m, FlattenSeq(us)) = FlattenSeq(outs)
  BY <1>7, ReadsUnits
<1> QED
  BY <1>8, Zenon DEF us, outs, _pcre2_replacement_from_parsed, Rendered

\* A replacement that is read as out.
Means(m, r, out) ==
  \E us, outs : AllUnits(m, us, outs) /\ r = FlattenSeq(us) /\ out = FlattenSeq(outs)

LEMMA MeansIsRead ==
  ASSUME NEW m, IsNamedMatch(m), NEW r, NEW out, Means(m, r, out)
  PROVE  r \in Seq(Alphabet) /\ out \in Seq(Alphabet) /\ ReplacedBy(m, r) = out
<1>1. PICK us, outs : AllUnits(m, us, outs) /\ r = FlattenSeq(us) /\ out = FlattenSeq(outs)
  BY Zenon DEF Means
<1>2. us \in Seq(Seq(Alphabet)) /\ outs \in Seq(Seq(Alphabet))
  BY <1>1, Zenon DEF AllUnits
<1>3. FlattenSeq(us) \in Seq(Alphabet) /\ FlattenSeq(outs) \in Seq(Alphabet)
  BY <1>2, FlattenType
<1>4. ReplacedBy(m, FlattenSeq(us)) = FlattenSeq(outs)
  BY <1>1, ReadsUnits
<1> QED
  BY <1>1, <1>3, <1>4, Zenon

LEMMA MeansUnit ==
  ASSUME NEW m, NEW u, NEW out, IsUnit(m, u, out)
  PROVE  Means(m, u, out)
<1> DEFINE us == <<u>>
           outs == <<out>>
<1>1. u \in Seq(Alphabet) /\ out \in Seq(Alphabet)
  BY Zenon DEF IsUnit
<1>2. FlattenSeq(us) = u /\ FlattenSeq(outs) = out
  BY <1>1, FlattenOne
<1>3. AllUnits(m, us, outs)
  <2> DEFINE V == Seq(Alphabet)
  <2>1. u \in V /\ out \in V
    BY <1>1
  <2> HIDE DEF V
  <2>2. us \in Seq(V) /\ outs \in Seq(V) /\ Len(outs) = Len(us) /\ 1..Len(us) = {1} /\ us[1] = u /\ outs[1] = out
    BY ONLY <2>1
  <2> HIDE DEF us, outs
  <2>3. \A k \in 1..Len(us) : IsUnit(m, us[k], outs[k])
    BY <2>2, Zenon
  <2>4. us \in Seq(Seq(Alphabet)) /\ outs \in Seq(Seq(Alphabet))
    BY <2>2 DEF V
  <2> QED
    BY <2>2, <2>3, <2>4, Zenon DEF AllUnits
<1> HIDE DEF us, outs
<1> QED
  BY <1>2, <1>3, Zenon DEF Means

LEMMA MeansConcat ==
  ASSUME NEW m, NEW r1, NEW out1, Means(m, r1, out1), NEW r2, NEW out2, Means(m, r2, out2)
  PROVE  Means(m, r1 \o r2, out1 \o out2)
<1> DEFINE V == Seq(Alphabet)
<1>1. PICK u1, o1 : AllUnits(m, u1, o1) /\ r1 = FlattenSeq(u1) /\ out1 = FlattenSeq(o1)
  BY Zenon DEF Means
<1>2. PICK u2, o2 : AllUnits(m, u2, o2) /\ r2 = FlattenSeq(u2) /\ out2 = FlattenSeq(o2)
  BY Zenon DEF Means
<1>3. u1 \in Seq(V) /\ o1 \in Seq(V) /\ u2 \in Seq(V) /\ o2 \in Seq(V) /\ Len(o1) = Len(u1) /\ Len(o2) = Len(u2)
  BY <1>1, <1>2, Zenon DEF AllUnits
<1> DEFINE us == u1 \o u2
           outs == o1 \o o2
<1>4. FlattenSeq(us) = r1 \o r2 /\ FlattenSeq(outs) = out1 \o out2
  <2>1. FlattenSeq(us) = FlattenSeq(u1) \o FlattenSeq(u2)
    BY <1>3, FlattenConcat
  <2>2. FlattenSeq(outs) = FlattenSeq(o1) \o FlattenSeq(o2)
    BY <1>3, FlattenConcat
  <2> QED
    BY <1>1, <1>2, <2>1, <2>2, Zenon
<1> HIDE DEF V
<1>5. /\ us \in Seq(V) /\ Len(us) = Len(u1) + Len(u2)
      /\ \A i \in 1..Len(u1) + Len(u2) : us[i] = IF i <= Len(u1) THEN u1[i] ELSE u2[i - Len(u1)]
  BY <1>3, ConcatProperties
<1>6. /\ outs \in Seq(V) /\ Len(outs) = Len(o1) + Len(o2)
      /\ \A i \in 1..Len(o1) + Len(o2) : outs[i] = IF i <= Len(o1) THEN o1[i] ELSE o2[i - Len(o1)]
  BY <1>3, ConcatProperties
<1>7. Len(u1) \in Nat /\ Len(u2) \in Nat
  BY <1>3
<1> HIDE DEF us, outs
<1>8. ASSUME NEW k \in 1..Len(us) PROVE IsUnit(m, us[k], outs[k])
  <2>1. k \in 1..Len(u1) + Len(u2)
    BY <1>5
  <2>2. CASE k <= Len(u1)
    <3>1. k \in 1..Len(u1)
      BY ONLY <1>7, <2>1, <2>2
    <3>2. us[k] = u1[k] /\ outs[k] = o1[k]
      BY <1>3, <1>5, <1>6, <2>1, <2>2, Zenon
    <3>3. IsUnit(m, u1[k], o1[k])
      BY <1>1, <3>1, Zenon DEF AllUnits
    <3> QED
      BY <3>2, <3>3, Zenon
  <2>3. CASE ~ (k <= Len(u1))
    <3>1. k - Len(u1) \in 1..Len(u2)
      BY ONLY <1>7, <2>1, <2>3
    <3>2. us[k] = u2[k - Len(u1)] /\ outs[k] = o2[k - Len(u1)]
      BY <1>3, <1>5, <1>6, <2>1, <2>3, Zenon
    <3>3. IsUnit(m, u2[k - Len(u1)], o2[k - Len(u1)])
      BY <1>2, <3>1, Zenon DEF AllUnits
    <3> QED
      BY <3>2, <3>3, Zenon
  <2> QED
    BY <2>2, <2>3
<1>9. AllUnits(m, us, outs)
  BY <1>3, <1>5, <1>6, <1>8, Zenon DEF AllUnits, V
<1> QED
  BY <1>4, <1>9, Zenon DEF Means

\* A text without backslashes and dollars is read as itself.
LEMMA MeansItself ==
  ASSUME NEW m, NEW u \in Seq(Alphabet), \A k \in 1..Len(u) : u[k] \notin {Backslash, "$"}
  PROVE  Means(m, u, u)
<1> DEFINE us == [i \in DOMAIN u |-> <<u[i]>>]
           n == Len(u)
<1>1. FlattenSeq(us) = u
  BY FlattenCharacters
<1>2. n \in Nat /\ DOMAIN u = 1..n /\ \A k \in 1..n : u[k] \in Alphabet
  OBVIOUS
<1>3. us = [i \in 1..n |-> <<u[i]>>]
  BY <1>2
<1> HIDE DEF us, n
<1>4. \A k \in 1..n : IsUnit(m, us[k], us[k])
  <2> TAKE k \in 1..n
  <2> DEFINE c == u[k]
  <2>1. c \in Alphabet /\ c \notin {Backslash, "$"}
    BY <1>2 DEF n
  <2> HIDE DEF c
  <2>2. IsUnit(m, <<c>>, <<c>>)
    BY <2>1, CharacterUnit
  <2>3. us[k] = <<c>>
    BY <1>3, Zenon DEF c
  <2> QED
    BY <2>2, <2>3, Zenon
<1>5. us \in Seq(Seq(Alphabet)) /\ Len(us) = n
  <2> DEFINE V == Seq(Alphabet)
  <2>1. \A k \in 1..n : us[k] \in V
    BY <1>4, Zenon DEF IsUnit
  <2> HIDE DEF V
  <2>2. us \in Seq(V) /\ Len(us) = n
    BY ONLY <1>2, <1>3, <2>1
  <2> QED
    BY <2>2 DEF V
<1>6. AllUnits(m, us, us)
  BY <1>4, <1>5, Zenon DEF AllUnits
<1> QED
  BY <1>1, <1>6, Zenon DEF Means

\* A reference between two texts.
Rewriting(t, s, name, end) ==
  SubSeq(t, 1, s - 1) \o <<"$", Opening>> \o name \o <<Closing>> \o SubSeq(t, end, Len(t))

\* The text with v for what stands from s to end.
Between(t, s, end, v) == (SubSeq(t, 1, s - 1) \o v) \o SubSeq(t, end, Len(t))

LEMMA PartOf ==
  ASSUME NEW t \in Seq(Alphabet), NEW i \in Nat \ {0}, NEW j \in 0..Len(t), i <= j + 1, NEW P, \A k \in i..j : t[k] \notin P
  PROVE  /\ SubSeq(t, i, j) \in Seq(Alphabet)
         /\ \A k \in 1..Len(SubSeq(t, i, j)) : SubSeq(t, i, j)[k] \notin P
<1> DEFINE u == SubSeq(t, i, j)
<1>1. i \in Int /\ j \in Int /\ Len(t) \in Nat
  OBVIOUS
<1>2. \A x \in i..j : t[x] \in Alphabet
  <2>1. \A x \in i..j : x \in 1..Len(t)
    BY <1>1
  <2> QED
    BY <2>1
<1>3. /\ u \in Seq(Alphabet) /\ Len(u) = (IF i <= j THEN j - i + 1 ELSE 0)
      /\ \A k \in 1..j - i + 1 : u[k] = t[i + k - 1]
  BY <1>1, <1>2, SubSeqProperties
<1> HIDE DEF u
<1>4. \A k \in 1..Len(u) : k \in 1..j - i + 1 /\ i + k - 1 \in i..j
  BY ONLY <1>1, <1>3, i \in Nat \ {0}, j \in 0..Len(t)
<1>5. \A k \in 1..Len(u) : u[k] \notin P
  BY <1>3, <1>4, Zenon
<1> QED
  BY <1>3, <1>5 DEF u

LEMMA RewritingIsRead ==
  ASSUME NEW m, IsNamedMatch(m), NEW t \in Seq(Alphabet), NEW s \in 1..Len(t), NEW end \in s + 1..Len(t) + 1,
         NoMore(t, "$", 1), s = FindChar(t, Backslash, 1), NoMore(t, Backslash, end),
         NEW name \in Seq(Alphabet), Closing \notin Range(name), NEW g \in DOMAIN m.value, NamedGroup(m, name) = g
  PROVE  ReplacedBy(m, Rewriting(t, s, name, end)) = Between(t, s, end, ValueOf(m, g))
<1> DEFINE a == SubSeq(t, 1, s - 1)
           b == SubSeq(t, end, Len(t))
           P == {Backslash, "$"}
           V == Seq(Alphabet)
<1>1. Len(t) \in Nat /\ s - 1 \in 0..Len(t) /\ 1 \in Nat \ {0} /\ end \in Nat \ {0} /\ Len(t) \in 0..Len(t)
      /\ end <= Len(t) + 1 /\ 1 <= (s - 1) + 1
  OBVIOUS
<1>2. \A k \in 1..Len(t) : t[k] # "$"
  <2>1. FindChar(t, "$", 1) = 0
    BY Zenon DEF NoMore
  <2>2. 0 \notin 1..Len(t)
    OBVIOUS
  <2> QED
    BY <1>1, <2>1, <2>2, Found
<1>3. \A k \in 1..s - 1 : t[k] # Backslash
  <2>1. s # 0
    OBVIOUS
  <2> QED
    BY <1>1, <2>1, Found
<1>4. \A k \in end..Len(t) : t[k] # Backslash
  <2>1. FindChar(t, Backslash, end) = 0
    BY Zenon DEF NoMore
  <2>2. 0 \notin end..Len(t)
    BY <1>1
  <2> QED
    BY <1>1, <2>1, <2>2, Found
<1>5. a \in Seq(Alphabet) /\ \A k \in 1..Len(a) : a[k] \notin P
  <2>1. \A k \in 1..s - 1 : t[k] \notin P
    <3>1. \A k \in 1..s - 1 : k \in 1..Len(t)
      BY <1>1
    <3> QED
      BY <1>2, <1>3, <3>1, Zenon
  <2> HIDE DEF P
  <2> QED
    BY <1>1, <2>1, PartOf
<1>6. b \in Seq(Alphabet) /\ \A k \in 1..Len(b) : b[k] \notin P
  <2>1. \A k \in end..Len(t) : t[k] \notin P
    <3>1. \A k \in end..Len(t) : k \in 1..Len(t)
      BY <1>1
    <3> QED
      BY <1>2, <1>4, <3>1, Zenon
  <2> HIDE DEF P
  <2> QED
    BY <1>1, <2>1, PartOf
<1> HIDE DEF a, b
<1>7. Means(m, a, a) /\ Means(m, b, b)
  BY <1>5, <1>6, MeansItself
<1> DEFINE v == ValueOf(m, g)
           u == Referring(name)
<1>8. Means(m, u, v)
  <2>1. IsUnit(m, Referring(name), ValueOf(m, NamedGroup(m, name)))
    BY ReferenceUnit
  <2>2. IsUnit(m, u, v)
    BY <2>1, Zenon
  <2> HIDE DEF u, v
  <2> QED
    BY <2>2, MeansUnit
<1>9. u \in V
  BY ReferringIs
<1> HIDE DEF v
<1>10. Means(m, (a \o u) \o b, (a \o v) \o b)
  <2> HIDE DEF u
  <2> DEFINE au == a \o u
             av == a \o v
  <2>1. Means(m, au, av)
    BY <1>7, <1>8, MeansConcat
  <2> HIDE DEF au, av
  <2>2. Means(m, au \o b, av \o b)
    BY <1>7, <2>1, MeansConcat
  <2> QED
    BY <2>2 DEF au, av
<1>11. Rewriting(t, s, name, end) = (a \o u) \o b
  <2> DEFINE x == <<"$", Opening>>
             c == <<Closing>>
  <2>1. x \in V /\ c \in V
    <3>1. "$" \in Alphabet /\ Opening \in Alphabet /\ Closing \in Alphabet
      BY AlphabetHas, Zenon
    <3> QED
      BY ONLY <3>1
  <2>2. a \in V /\ b \in V /\ name \in V
    BY <1>5, <1>6
  <2> HIDE DEF x, c
  <2>3. \A p, q, w \in V : (p \o q) \o w = p \o (q \o w)
    BY RegroupText, Zenon
  <2>4. x \o name \in V
    BY <2>1, <2>2, ConcatProperties
  <2> HIDE DEF V
  <2>5. u = (x \o name) \o c
    BY Zenon DEF Referring, x, c
  <2>6. Rewriting(t, s, name, end) = (((a \o x) \o name) \o c) \o b
    BY Zenon DEF Rewriting, a, b, x, c
  <2>7. (a \o x) \o name = a \o (x \o name)
    <3>1. a \in V /\ x \in V /\ name \in V
      BY <2>1, <2>2
    <3> QED
      BY ONLY <2>3, <3>1, Zenon
  <2>8. (a \o (x \o name)) \o c = a \o ((x \o name) \o c)
    <3> DEFINE w == x \o name
    <3>1. w \in V /\ a \in V /\ c \in V
      BY <2>1, <2>2, <2>4
    <3> HIDE DEF w
    <3>2. (a \o w) \o c = a \o (w \o c)
      BY <2>3, <3>1, Zenon
    <3> QED
      BY <3>2 DEF w
  <2>9. (a \o u) \o b = (a \o ((x \o name) \o c)) \o b
    BY <2>5, Zenon
  <2> QED
    BY <2>6, <2>7, <2>8, <2>9, Zenon
<1> DEFINE r == (a \o u) \o b
           out == (a \o v) \o b
<1>12. ReplacedBy(m, r) = out
  <2>1. Means(m, r, out)
    BY <1>10
  <2> HIDE DEF r, out
  <2> QED
    BY <2>1, MeansIsRead
<1> QED
  BY <1>11, <1>12, Zenon DEF a, b, v, Between

LEMMA OneAssembled ==
  ASSUME NEW m, IsNamedMatch(m), NEW t \in Seq(Alphabet), NEW p, NEW s, NEW end, NEW g \in DOMAIN m.value,
         Stands(m, t, p, Token(s, end, g))
  PROVE  Assembled(m, t, <<Token(s, end, g)>>) = Between(t, s, end, ValueOf(m, g))
<1> DEFINE token == Token(s, end, g)
           tokens == <<token>>
           prefix == SubSeq(t, 1, s - 1)
           rest == SubSeq(t, end, Len(t))
<1>1. token \in Tokens(m) /\ token.slash \in 1..Len(t)
  BY Zenon DEF Stands
<1>2. token.slash = s /\ token.end = end /\ token.group = g
  BY DEF Token
<1> HIDE DEF token
<1>3. tokens \in Seq(Tokens(m)) /\ Len(tokens) = 1 /\ tokens[1] = token /\ 1..Len(tokens) = {1}
  BY <1>1
<1> HIDE DEF tokens
<1>4. AllStand(m, t, p, tokens)
  <2>1. \A k \in 1..Len(tokens) : Stands(m, t, p, tokens[k])
    BY <1>3, Zenon DEF token
  <2> QED
    BY <1>3, <2>1, Zenon DEF AllStand
<1>5. PICK acc : Accumulates(m, t, tokens, acc)
  BY <1>4, Accumulation
<1>6. /\ acc[0] = [out |-> <<>>, from |-> 1]
      /\ acc[1] = NextAssembled(m, t, acc[0], token)
      /\ Assembled(m, t, tokens) = acc[1].out \o SubSeq(t, acc[1].from, Len(t))
  <2>1. /\ acc[0] = [out |-> <<>>, from |-> 1]
        /\ \A k \in 1..Len(tokens) : acc[k] = NextAssembled(m, t, acc[k - 1], tokens[k])
        /\ Assembled(m, t, tokens) = acc[Len(tokens)].out \o SubSeq(t, acc[Len(tokens)].from, Len(t))
    BY <1>5, Zenon DEF Accumulates
  <2>2. 1 - 1 = 0
    OBVIOUS
  <2>3. acc[1] = NextAssembled(m, t, acc[1 - 1], tokens[1])
    BY <1>3, <2>1, Zenon
  <2> QED
    BY <1>3, <2>1, <2>2, <2>3, Zenon
<1>7. TokenText(m, token) = ValueOf(m, g)
  <2>1. g # -1
    BY GroupsAreNumbers
  <2> QED
    BY <1>2, <2>1, Zenon DEF TokenText
<1> DEFINE joined == (<<>> \o prefix) \o ValueOf(m, g)
<1>8. acc[1].out = joined /\ acc[1].from = end
  <2>1. acc[0].out = <<>> /\ acc[0].from = 1
    BY <1>6
  <2>2. acc[1] = [out |-> (acc[0].out \o SubSeq(t, acc[0].from, token.slash - 1)) \o TokenText(m, token), from |-> token.end]
    BY <1>6, Zenon DEF NextAssembled
  <2>3. (acc[0].out \o SubSeq(t, acc[0].from, token.slash - 1)) \o TokenText(m, token) = joined
    BY <1>2, <1>7, <2>1, Zenon
  <2> HIDE DEF joined
  <2>4. acc[1] = [out |-> joined, from |-> end]
    BY <1>2, <2>2, <2>3, Zenon
  <2> QED
    BY ONLY <2>4
<1>9. <<>> \o prefix = prefix
  <2>1. prefix \in Seq(Alphabet)
    <3>1. 1 \in Int /\ s - 1 \in Int /\ \A x \in 1..s - 1 : t[x] \in Alphabet
      BY <1>1, <1>2
    <3> QED
      BY <3>1, SubSeqProperties
  <2> QED
    BY <2>1, ConcatEmptySeq
<1>10. acc[1].out = prefix \o ValueOf(m, g) /\ acc[1].from = end
  <2>1. joined = prefix \o ValueOf(m, g)
    BY <1>9, Zenon
  <2> QED
    BY <1>8, <2>1, Zenon
<1> QED
  BY <1>6, <1>10, Zenon DEF tokens, token, Between

\* A name the rewriting takes over has no brace in it.
LEMMA NameFits ==
  ASSUME NEW m, IsNamedMatch(m), NEW t \in Seq(Alphabet), NEW s \in 1..Len(t), HasName(Bracketed(t, s)),
         AllDigits(Bracketed(t, s).name) \/ EntriesNamed(m, Bracketed(t, s).name) # {}
  PROVE  Bracketed(t, s).name \in Seq(Alphabet) /\ Closing \notin Range(Bracketed(t, s).name)
<1> DEFINE close == Bracketed(t, s).close
           name == Bracketed(t, s).name
<1>1. close \in s + 3..Len(t)
  BY NameCloses
<1>2. name = SubSeq(t, s + 3, close - 1)
  BY Zenon DEF Bracketed
<1> HIDE DEF close, name
<1>3. name \in Seq(Alphabet)
  <2>1. s + 3 \in Int /\ close - 1 \in Int /\ \A x \in s + 3..close - 1 : t[x] \in Alphabet
    <3>1. Len(t) \in Nat /\ \A x \in 1..Len(t) : t[x] \in Alphabet
      OBVIOUS
    <3>2. s + 3 \in Int /\ close - 1 \in Int /\ \A x \in s + 3..close - 1 : x \in 1..Len(t)
      BY <1>1, <3>1
    <3> QED
      BY <3>1, <3>2, Zenon
  <2> QED
    BY <1>2, <2>1, SubSeqProperties
<1>4. CASE AllDigits(name)
  <2>1. Closing \notin Digits
    BY Zenon DEF Closing, Digits
  <2>2. Range(name) \subseteq Digits
    BY <1>4, Zenon DEF AllDigits
  <2> QED
    BY <1>3, <2>1, <2>2, Zenon DEF name
<1>5. CASE EntriesNamed(m, name) # {}
  <2>1. PICK k \in DOMAIN m.names : m.names[k].name = name
    BY <1>5, Zenon DEF EntriesNamed
  <2>2. Closing \notin Range(m.names[k].name)
    BY <2>1, Zenon DEF IsNamedMatch
  <2> QED
    BY <1>3, <2>1, <2>2, Zenon DEF name
<1> QED
  BY <1>4, <1>5, Zenon DEF name

LEMMA OneRewritten ==
  ASSUME NEW m, IsNamedMatch(m), NEW t \in Seq(Alphabet), Bad.text \notin Range(t), NEW index,
         NEW p, IsParse(m, t, index, p), NEW s \in 1..Len(t), s = FindChar(t, Backslash, 1), NoMore(t, "$", 1),
         NEW end, NoMore(t, Backslash, end), NEW g \in DOMAIN m.value, Stands(m, t, p, Token(s, end, g)),
         NEW name \in Seq(Alphabet), Closing \notin Range(name), NamedGroup(m, name) = g
  PROVE  ReplacedBy(m, Rewriting(t, s, name, end)) = render_template(m, p[1])
<1> DEFINE token == Token(s, end, g)
<1>1. token.slash = s /\ token.end = end
  BY DEF Token
<1>2. Stands(m, t, p, token)
  OBVIOUS
<1> HIDE DEF token
<1>3. end \in s + 1..Len(t) + 1
  BY <1>1, <1>2, Zenon DEF Stands
<1>4. token.slash = FindChar(t, Backslash, 1) /\ NoMore(t, Backslash, token.end)
  BY <1>1, Zenon
<1>5. Assembled(m, t, <<token>>) = render_template(m, p[1])
  BY <1>2, <1>4, OneToken
<1>6. Assembled(m, t, <<token>>) = Between(t, s, end, ValueOf(m, g))
  BY OneAssembled DEF token
<1>7. ReplacedBy(m, Rewriting(t, s, name, end)) = Between(t, s, end, ValueOf(m, g))
  BY <1>3, RewritingIsRead
<1> QED
  BY <1>5, <1>6, <1>7, Zenon

LEMMA RewrittenRight ==
  ASSUME NEW m, IsNamedMatch(m), NEW t \in Seq(Alphabet), Bad.text \notin Range(t),
         NEW index, IsIndex(m, index), NEW p, IsParse(m, t, index, p),
         pattern_translate_single_replacement(m, t) # NotHandled
  PROVE  ReplacedBy(m, pattern_translate_single_replacement(m, t)) = render_template(m, p[1])
<1> DEFINE s == FindChar(t, Backslash, 1)
           b == Bracketed(t, s)
           named == IF AllDigits(b.name) THEN NumberOf(b.name) \in DOMAIN m.value
                    ELSE EntriesNamed(m, b.name) # {}
           digit == /\ t[s + 1] \in Digits \ {"0"} /\ Value[t[s + 1]] \in Groups(m)
                    /\ SingleDigit(t, s) /\ NoMore(t, Backslash, s + 2)
           bracket == HasName(b) /\ NoMore(t, Backslash, b.close + 1) /\ named
           rewritten == pattern_translate_single_replacement(m, t)
<1>1. /\ s # 0 /\ s # Len(t) /\ NoMore(t, "$", 1)
      /\ \/ digit /\ rewritten = Rewriting(t, s, <<t[s + 1]>>, s + 2)
         \/ bracket /\ rewritten = Rewriting(t, s, b.name, b.close + 1)
  BY Zenon DEF pattern_translate_single_replacement, Rewriting
<1>2. s \in 1..Len(t) /\ t[s] = Backslash /\ s = FindChar(t, Backslash, 1)
  BY <1>1, Found
<1> HIDE DEF s, rewritten
<1>3. ASSUME digit, rewritten = Rewriting(t, s, <<t[s + 1]>>, s + 2)
      PROVE  ReplacedBy(m, rewritten) = render_template(m, p[1])
  <2> DEFINE c == t[s + 1]
             name == <<c>>
             g == Value[c]
  <2>1. c \in Digits /\ SingleDigit(t, s) /\ NoMore(t, Backslash, s + 2)
    BY <1>3
  <2>2. g \in DOMAIN m.value
    BY <1>3 DEF Groups
  <2>3. s \in 1..Len(t) - 1
    BY <1>1, <1>2
  <2>4. Stands(m, t, p, Token(s, s + 2, g))
    BY <1>2, <2>1, <2>2, <2>3, DigitStands
  <2> HIDE DEF c
  <2>5. name \in Seq(Digits) /\ NumberOf(name) = g
    BY <2>1, NumberOfOne
  <2> HIDE DEF name
  <2>6. Range(name) \subseteq Digits
    BY <2>5 DEF Range
  <2>7. Closing \notin Digits
    BY Zenon DEF Closing, Digits
  <2>8. Digits \subseteq Alphabet
    BY Zenon DEF Alphabet
  <2>9. name \in Seq(Alphabet)
    BY <2>5, <2>8
  <2>10. Closing \notin Range(name)
    BY <2>6, <2>7, Zenon
  <2>11. NamedGroup(m, name) = g
    BY <2>5, <2>6, Zenon DEF NamedGroup, AllDigits
  <2> DEFINE end == s + 2
  <2> HIDE DEF end, g
  <2>12. NoMore(t, Backslash, end) /\ Stands(m, t, p, Token(s, end, g))
    BY <2>1, <2>4 DEF end
  <2>13. ReplacedBy(m, Rewriting(t, s, name, end)) = render_template(m, p[1])
    BY <1>1, <1>2, <2>2, <2>9, <2>10, <2>11, <2>12, OneRewritten
  <2> QED
    BY <1>3, <2>13, Zenon DEF name, c, end
<1>4. ASSUME bracket, rewritten = Rewriting(t, s, b.name, b.close + 1)
      PROVE  ReplacedBy(m, rewritten) = render_template(m, p[1])
  <2> DEFINE name == b.name
             end == b.close + 1
             g == NamedGroup(m, name)
  <2>1. HasName(b) /\ NoMore(t, Backslash, end) /\ named
    BY <1>4, Zenon
  <2>2. g = IF AllDigits(name) THEN NumberOf(name) ELSE match_expand_resolve_ascii_name(m, name)
    BY Zenon DEF NamedGroup
  <2>3. g \in DOMAIN m.value
    <3>1. CASE AllDigits(name)
      BY <2>1, <2>2, <3>1, Zenon
    <3>2. CASE ~AllDigits(name)
      <4>1. EntriesNamed(m, name) # {}
        BY <2>1, <3>2, Zenon
      <4>2. match_expand_resolve_ascii_name(m, name) \in Groups(m)
        BY <4>1, NamesStandForGroups
      <4>3. Groups(m) \subseteq DOMAIN m.value
        BY DEF Groups
      <4> QED
        BY <2>2, <3>2, <4>2, <4>3, Zenon
    <3> QED
      BY <3>1, <3>2
  <2>4. AllDigits(name) \/ EntriesNamed(m, name) # {}
    BY <2>1, Zenon
  <2>5. name \in Seq(Alphabet) /\ Closing \notin Range(name)
    BY <1>2, <2>1, <2>4, NameFits
  <2> HIDE DEF g
  <2>6. Stands(m, t, p, Token(s, end, g))
    BY <1>2, <2>1, <2>2, <2>3, NameStands
  <2>7. NamedGroup(m, name) = g
    BY DEF g
  <2> HIDE DEF name, end, b
  <2>8. ReplacedBy(m, Rewriting(t, s, name, end)) = render_template(m, p[1])
    BY <1>1, <1>2, <2>1, <2>3, <2>5, <2>6, <2>7, OneRewritten
  <2> QED
    BY <1>4, <2>8, Zenon DEF name, end, b
<1> QED
  BY <1>1, <1>3, <1>4, Zenon DEF rewritten

LEMMA ReplacementsRight ==
  ASSUME NEW m, IsNamedMatch(m), UniqueNames(m), NEW t \in Seq(Alphabet), Bad.text \notin Range(t),
         NEW parsed, parsed = parse_template(m, t, groupindex(m))
  PROVE  /\ pattern_translate_single_replacement(m, t) # NotHandled =>
              ReplacedBy(m, pattern_translate_single_replacement(m, t)) = render_template(m, parsed)
         /\ Bad \notin Range(parsed) =>
              ReplacedBy(m, _pcre2_replacement_from_parsed(parsed)) = render_template(m, parsed)
<1> DEFINE index == groupindex(m)
<1>1. IsIndex(m, index)
  <2>1. \A name \in DOMAIN groupindex(m) : groupindex(m)[name] = GroupOf(m, name)
    BY NamesStandForGroups
  <2> QED
    BY <2>1, Zenon DEF IsIndex
<1> HIDE DEF index
<1>2. PICK p : IsParse(m, t, index, p) /\ parse_template(m, t, index) = p[1]
  BY Parsing
<1>3. parsed = p[1]
  BY <1>2, Zenon DEF index
<1>4. parsed \in Seq(Pieces(m))
  <2> DEFINE V == Seq(Pieces(m))
             n == Len(t) + 3
  <2>1. p \in [1..n -> V]
    BY <1>2, Zenon DEF IsParse
  <2>2. 1 \in 1..n
    OBVIOUS
  <2> HIDE DEF V, n
  <2>3. p[1] \in V
    BY <2>1, <2>2
  <2> QED
    BY <1>3, <2>3, Zenon DEF V
<1>5. ASSUME pattern_translate_single_replacement(m, t) # NotHandled
      PROVE  ReplacedBy(m, pattern_translate_single_replacement(m, t)) = render_template(m, parsed)
  <2>1. ReplacedBy(m, pattern_translate_single_replacement(m, t)) = render_template(m, p[1])
    BY <1>1, <1>2, <1>5, RewrittenRight
  <2> QED
    BY <1>3, <2>1, Zenon
<1>6. ASSUME Bad \notin Range(parsed)
      PROVE  ReplacedBy(m, _pcre2_replacement_from_parsed(parsed)) = render_template(m, parsed)
  <2>1. ReplacedBy(m, _pcre2_replacement_from_parsed(parsed)) = Rendered(m, parsed)
    BY <1>4, ParsedIsRead
  <2>2. render_template(m, parsed) = Rendered(m, parsed)
    BY <1>6, RenderIs
  <2> QED
    BY <2>1, <2>2, Zenon
<1> QED
  BY <1>5, <1>6, Zenon

\* A template that Pattern.sub and subn hand to pcre2_substitute in PCRE2's
\* syntax, with its one reference rewritten in C
\* (pattern_translate_single_replacement, pcre2.c:5151) or written from the
\* parsed template (_pcre2_replacement_from_parsed, pcre.py:303), is replaced by
\* what the parser of re makes of it.
THEOREM ReplacesAsReDoes == TextsSpec => []ReplacementsMeanTheTemplate
<1>1. TextsTypeInv => ReplacementsMeanTheTemplate
  <2> SUFFICES ASSUME TextsTypeInv, role = "template", NEW m \in Matches, UniqueNames(m)
               PROVE  LET parsed == parse_template(m, text, groupindex(m))
                          rewritten == pattern_translate_single_replacement(m, text)
                      IN /\ rewritten # NotHandled => ReplacedBy(m, rewritten) = render_template(m, parsed)
                         /\ Bad \notin Range(parsed) =>
                              ReplacedBy(m, _pcre2_replacement_from_parsed(parsed)) = render_template(m, parsed)
    BY Zenon DEF ReplacementsMeanTheTemplate
  <2>1. text \in Seq(STRING) /\ Bad.text \notin Range(text)
    BY DEF TextsTypeInv
  <2>2. text \in Seq(Alphabet)
    BY <2>1, StringsAreTexts
  <2>3. IsNamedMatch(m)
    BY TextsAssumption
  <2> QED
    BY <2>1, <2>2, <2>3, ReplacementsRight
<1> QED
  BY <1>1, TextsAreTexts, PTL

-----------------------------------------------------------------------------
(* Escapes.                                                                    *)

\* What holds at each place where it holds at all later ones holds at all.
LEMMA FromTheEnd ==
  ASSUME NEW N \in Nat, NEW S, \A i \in 1..N : (\A j \in i + 1..N : j \in S) => i \in S
  PROVE  1..N \subseteq S
<1> DEFINE T == {d \in Nat : N - d \in 1..N => N - d \in S}
<1>1. ASSUME NEW d \in 0..N, \A e \in 0..d - 1 : e \in T PROVE d \in T
  <2>1. ASSUME N - d \in 1..N, NEW j \in (N - d) + 1..N PROVE j \in S
    <3>1. N - j \in 0..d - 1 /\ N - (N - j) = j /\ j \in 1..N
      OBVIOUS
    <3>2. N - j \in T
      <4> HIDE DEF T
      <4> QED
        BY <1>1, <3>1
    <3>3. N - (N - j) \in 1..N => N - (N - j) \in S
      BY <3>2
    <3> QED
      BY <3>1, <3>3, Zenon
  <2>2. N - d \in 1..N => N - d \in S
    BY <2>1, Zenon
  <2> QED
    BY <2>2
<1>2. 0..N \subseteq T
  <2> HIDE DEF T
  <2> QED
    BY <1>1, NumbersIn
<1>3. ASSUME NEW i \in 1..N PROVE i \in S
  <2>1. N - i \in 0..N /\ N - (N - i) = i
    OBVIOUS
  <2>2. N - i \in T
    <3> HIDE DEF T
    <3> QED
      BY <1>2, <2>1
  <2>3. N - (N - i) \in 1..N => N - (N - i) \in S
    BY <2>2
  <2> QED
    BY <2>1, <2>3, Zenon
<1> QED
  BY <1>3

\* The characters of a pattern and of its translation.
Marks == Alphabet \cup {"x"}

\* An escape starts at i, of a character or of more than there are.
EscapeAt(t, i) == t[i] = Slash /\ UnicodeAt(t, i + 1)
OutOfRangeAt(t, i) == EscapeAt(t, i) /\ TooLarge(t, i + 1)

LEMMA MarksHave ==
  /\ Slash \in Marks /\ "x" \in Marks /\ "error" \in Marks /\ "{" \in Marks /\ "}" \in Marks
BY Zenon DEF Marks, Alphabet, Slash

LEMMA HexLengths ==
  ASSUME NEW c
  PROVE  HexLength(c) \in Nat /\ HexLength(c) > 0
BY DEF HexLength

LEMMA CommentIs ==
  ASSUME NEW t \in Seq(Marks), NEW i \in 1..Len(t), CommentAt(t, i)
  PROVE  /\ t[i] = "(" /\ t[i] # Slash /\ i + 1 \in 1..Len(t) /\ t[i + 1] = "?"
         /\ CommentEnd(t, i) \in i..Len(t)
<1> DEFINE close == {k \in i + 3 .. Len(t) : t[k] = ")"}
           s == SubSeq(t, i, i + 2)
<1>0. i \in Nat /\ Len(t) \in Nat /\ i + 2 <= Len(t) /\ s = <<"(", "?", "#">>
  BY DEF CommentAt
<1>1. s[1] = t[i] /\ s[2] = t[i + 1]
  <2>1. i \in 1..Len(t) + 1 /\ i + 2 \in i - 1..Len(t)
    BY <1>0
  <2>2. s = [k \in 1..(i + 2) - i + 1 |-> t[i + k - 1]]
    BY DEF SubSeq
  <2>3. 1 \in 1..(i + 2) - i + 1 /\ 2 \in 1..(i + 2) - i + 1 /\ i + 1 - 1 = i /\ i + 2 - 1 = i + 1
    BY <1>0
  <2> HIDE DEF s
  <2> QED
    BY <2>2, <2>3, Zenon
<1>2. s[1] = "(" /\ s[2] = "?"
  <2>1. <<"(", "?", "#">>[1] = "(" /\ <<"(", "?", "#">>[2] = "?"
    OBVIOUS
  <2> HIDE DEF s
  <2> QED
    BY <1>0, <2>1, Zenon
<1>3. CommentEnd(t, i) \in i..Len(t)
  <2>1. CommentEnd(t, i) = IF close = {} THEN Len(t) ELSE Min(close)
    BY Zenon DEF CommentEnd
  <2>2. CASE close = {}
    BY <1>0, <2>1, <2>2
  <2>3. CASE close # {}
    <3>1. close \subseteq Nat /\ close \subseteq i..Len(t)
      BY <1>0
    <3>2. Min(close) \in close
      <4> HIDE DEF close
      <4> QED
        BY <2>3, <3>1, LeastIs
    <3> HIDE DEF close
    <3> QED
      BY <2>1, <2>3, <3>1, <3>2
  <2> QED
    BY <2>2, <2>3
<1> HIDE DEF s
<1>4. "(" # Slash
  BY DEF Slash
<1>5. i + 1 \in 1..Len(t)
  BY <1>0
<1> QED
  BY <1>1, <1>2, <1>3, <1>4, <1>5, Zenon

\* r is where the backslashes from i on end.
IsRunEnd(t, i, r) ==
  /\ r \in i + 1..Len(t) + 1
  /\ \A k \in i..r - 1 : t[k] = Slash
  /\ r <= Len(t) => t[r] # Slash

LEMMA RunEndIs ==
  ASSUME NEW t \in Seq(Marks), NEW i \in 1..Len(t), t[i] = Slash
  PROVE  IsRunEnd(t, i, RunEnd(t, i))
<1> DEFINE n == Len(t)
           ends == {k \in i .. n + 1 : k > n \/ t[k] # Slash}
           r == Min(ends)
<1>0. i \in Nat /\ n \in Nat
  OBVIOUS
<1>1. RunEnd(t, i) = r
  BY Zenon DEF RunEnd
<1>2. ends \subseteq Nat /\ n + 1 \in ends
  BY <1>0
<1>3. r \in ends /\ \A k \in ends : r <= k
  <2> HIDE DEF ends
  <2> QED
    BY <1>2, LeastIs
<1>4. r \in i..n + 1 /\ (r > n \/ t[r] # Slash)
  BY <1>3
<1> HIDE DEF r
<1>5. r # i
  BY <1>0, <1>4
<1>6. r \in i + 1..n + 1 /\ (r <= n => t[r] # Slash)
  BY <1>0, <1>4, <1>5
<1>7. ASSUME NEW k \in i..r - 1 PROVE t[k] = Slash
  <2>1. k \in i..n + 1 /\ ~ (r <= k)
    BY <1>0, <1>4
  <2>2. k \notin ends
    <3> HIDE DEF ends
    <3> QED
      BY <1>3, <2>1
  <2> QED
    BY <2>1, <2>2
<1> QED
  BY <1>1, <1>6, <1>7, Zenon DEF IsRunEnd, n

LEMMA OneRunEnd ==
  ASSUME NEW t \in Seq(Marks), NEW i \in 1..Len(t), NEW r, NEW s, IsRunEnd(t, i, r), IsRunEnd(t, i, s)
  PROVE  r = s
<1>1. Len(t) \in Nat /\ r \in Nat /\ s \in Nat /\ i < r /\ i < s /\ r <= Len(t) + 1 /\ s <= Len(t) + 1
  BY DEF IsRunEnd
<1>2. ~ (r < s)
  <2> SUFFICES ASSUME r < s PROVE FALSE
    OBVIOUS
  <2>1. r \in i..s - 1 /\ r <= Len(t)
    BY <1>1
  <2> QED
    BY <2>1, Zenon DEF IsRunEnd
<1>3. ~ (s < r)
  <2> SUFFICES ASSUME s < r PROVE FALSE
    OBVIOUS
  <2>1. s \in i..r - 1 /\ s <= Len(t)
    BY <1>1
  <2> QED
    BY <2>1, Zenon DEF IsRunEnd
<1> QED
  BY <1>1, <1>2, <1>3

\* The backslashes from i on and those from a later one of them on end together.
LEMMA SameRunEnd ==
  ASSUME NEW t \in Seq(Marks), NEW i \in 1..Len(t), t[i] = Slash, NEW k \in i..RunEnd(t, i) - 1
  PROVE  k \in 1..Len(t) /\ t[k] = Slash /\ RunEnd(t, k) = RunEnd(t, i)
<1> DEFINE r == RunEnd(t, i)
<1>1. IsRunEnd(t, i, r)
  BY RunEndIs
<1> HIDE DEF r
<1>2. Len(t) \in Nat /\ r \in i + 1..Len(t) + 1 /\ k \in i..r - 1
  BY <1>1 DEF IsRunEnd, r
<1>3. k \in 1..Len(t) /\ r \in k + 1..Len(t) + 1 /\ \A j \in k..r - 1 : j \in i..r - 1
  BY <1>2
<1>4. t[k] = Slash
  BY <1>1, <1>2, Zenon DEF IsRunEnd
<1>5. IsRunEnd(t, k, r)
  BY <1>1, <1>3, Zenon DEF IsRunEnd
<1>6. IsRunEnd(t, k, RunEnd(t, k))
  BY <1>3, <1>4, RunEndIs
<1>7. RunEnd(t, k) = r
  BY <1>3, <1>5, <1>6, OneRunEnd
<1> QED
  BY <1>3, <1>4, <1>7 DEF r

\* What the translation makes of a pattern from place i on, f of the later places.
TranslationAt(t, f, i) ==
  LET run == RunEnd(t, i)
  IN IF i > Len(t) THEN <<>>
     ELSE IF CommentAt(t, i) THEN
            SubSeq(t, i, CommentEnd(t, i)) \o f[CommentEnd(t, i) + 1]
     ELSE IF t[i] = Slash /\ OpensEscape(run - i) /\ UnicodeAt(t, run) THEN
            IF TooLarge(t, run) THEN <<"error">>
            ELSE SubSeq(t, i, run - 2) \o Braced(t, run) \o f[run + HexLength(t[run]) + 1]
     ELSE IF t[i] = Slash THEN SubSeq(t, i, run - 1) \o f[run]
     ELSE <<t[i]>> \o f[i + 1]

IsTranslation(t, f) ==
  \A i \in 1..Len(t) + 1 : f[i] \in Seq(Marks) /\ f[i] = TranslationAt(t, f, i)

LEMMA BracedType ==
  ASSUME NEW t \in Seq(Marks), NEW i \in 1..Len(t), UnicodeAt(t, i)
  PROVE  Braced(t, i) \in Seq(Marks) /\ i + HexLength(t[i]) \in i + 1..Len(t)
<1> DEFINE open == <<Slash, "x", "{">>
           close == <<"}">>
           end == i + HexLength(t[i])
           digits == SubSeq(t, i + 1, end)
<1>1. end \in Nat /\ end \in i + 1..Len(t)
  <2>1. HexLength(t[i]) \in Nat /\ HexLength(t[i]) > 0
    BY HexLengths
  <2>2. i + HexLength(t[i]) <= Len(t)
    BY DEF UnicodeAt
  <2> QED
    BY <2>1, <2>2
<1>2. open \in Seq(Marks) /\ close \in Seq(Marks)
  <2>1. \A p, q, r \in Marks : <<p, q, r>> \in Seq(Marks) /\ <<r>> \in Seq(Marks)
    OBVIOUS
  <2> QED
    BY <2>1, MarksHave, Zenon
<1>3. digits \in Seq(Marks)
  <2> HIDE DEF end
  <2> QED
    BY <1>1, SubSeqProperties
<1>4. Braced(t, i) = (open \o digits) \o close
  BY Zenon DEF Braced
<1> HIDE DEF open, close, digits
<1>5. open \o digits \in Seq(Marks)
  BY <1>2, <1>3, ConcatProperties
<1>6. (open \o digits) \o close \in Seq(Marks)
  BY <1>2, <1>5, ConcatProperties
<1> QED
  BY <1>1, <1>4, <1>6

LEMMA Translating ==
  ASSUME NEW t \in Seq(Marks)
  PROVE  \E f : IsTranslation(t, f) /\ module_translate_unicode_escapes(t) = f[1]
<1> DEFINE L == Len(t)
           D == 1..L + 1
           run(i) == RunEnd(t, i)
           Escaping(i) == t[i] = Slash /\ OpensEscape(run(i) - i) /\ UnicodeAt(t, run(i))
           Refusing(i) == ~CommentAt(t, i) /\ Escaping(i) /\ TooLarge(t, run(i))
           Stops(i) == i > L \/ Refusing(i)
           TailOf(i) == IF i > L THEN <<>> ELSE <<"error">>
           HeadOf(i) == IF CommentAt(t, i) THEN SubSeq(t, i, CommentEnd(t, i))
                        ELSE IF Escaping(i) THEN SubSeq(t, i, run(i) - 2) \o Braced(t, run(i))
                        ELSE IF t[i] = Slash THEN SubSeq(t, i, run(i) - 1)
                        ELSE <<t[i]>>
           Later(i) == IF CommentAt(t, i) THEN CommentEnd(t, i) + 1
                       ELSE IF Escaping(i) THEN run(i) + HexLength(t[run(i)]) + 1
                       ELSE IF t[i] = Slash THEN run(i)
                       ELSE i + 1
           measure == [i \in D |-> (L + 1) - i]
           stop == {i \in D : Stops(i)}
           tail == [i \in D |-> TailOf(i)]
           head == [i \in D |-> IF Stops(i) THEN <<>> ELSE HeadOf(i)]
           next == [i \in D |-> Later(i)]
<1>0. L \in Nat /\ \A i \in 1..L : t[i] \in Marks
  OBVIOUS
<1>1. <<>> \in Seq(Marks) /\ \A c \in Marks : <<c>> \in Seq(Marks)
  OBVIOUS
<1>2. ASSUME NEW i \in D PROVE TailOf(i) \in Seq(Marks)
  BY <1>1, MarksHave
<1>3. ASSUME NEW i \in D, ~Stops(i) PROVE HeadOf(i) \in Seq(Marks) /\ Later(i) \in i + 1..L + 1
  <2>1. i \in 1..L
    <3>1. ~ (i > L)
      BY <1>3
    <3> QED
      BY <1>0, <3>1
  <2>2. CASE CommentAt(t, i)
    <3> DEFINE end == CommentEnd(t, i)
    <3>1. end \in i..L
      BY <2>1, <2>2, CommentIs
    <3>2. HeadOf(i) = SubSeq(t, i, end) /\ Later(i) = end + 1
      BY <2>2, Zenon
    <3> HIDE DEF HeadOf, Later, end
    <3>3. SubSeq(t, i, end) \in Seq(Marks)
      BY <2>1, <3>1, SubSeqProperties
    <3>4. end + 1 \in i + 1..L + 1
      BY <1>0, <2>1, <3>1
    <3> QED
      BY <3>2, <3>3, <3>4, Zenon
  <2>3. CASE ~CommentAt(t, i) /\ t[i] = Slash
    <3> DEFINE r == run(i)
    <3>1. r \in i + 1..L + 1
      BY <2>1, <2>3, RunEndIs DEF IsRunEnd
    <3>2. CASE Escaping(i)
      <4>1. HeadOf(i) = SubSeq(t, i, r - 2) \o Braced(t, r) /\ Later(i) = r + HexLength(t[r]) + 1
        BY <2>3, <3>2, Zenon
      <4>2. UnicodeAt(t, r)
        BY <3>2, Zenon
      <4> HIDE DEF HeadOf, Later, r
      <4>3. r \in 1..L
        <5>1. r <= L
          BY <4>2 DEF UnicodeAt
        <5> QED
          BY <1>0, <2>1, <3>1, <5>1
      <4>4. Braced(t, r) \in Seq(Marks) /\ r + HexLength(t[r]) \in r + 1..L
        BY <4>2, <4>3, BracedType
      <4>5. SubSeq(t, i, r - 2) \in Seq(Marks)
        <5>1. r - 2 \in i - 1..L
          BY <1>0, <2>1, <3>1
        <5> QED
          BY <2>1, <5>1, SubSeqProperties
      <4>6. SubSeq(t, i, r - 2) \o Braced(t, r) \in Seq(Marks)
        BY <4>4, <4>5, ConcatProperties
      <4>7. r + HexLength(t[r]) + 1 \in i + 1..L + 1
        BY <1>0, <2>1, <3>1, <4>4
      <4> QED
        BY <4>1, <4>6, <4>7, Zenon
    <3>3. CASE ~Escaping(i)
      <4>1. HeadOf(i) = SubSeq(t, i, r - 1) /\ Later(i) = r
        BY <2>3, <3>3, Zenon
      <4> HIDE DEF HeadOf, Later, r
      <4>2. SubSeq(t, i, r - 1) \in Seq(Marks)
        <5>1. r - 1 \in i - 1..L
          BY <1>0, <2>1, <3>1
        <5> QED
          BY <2>1, <5>1, SubSeqProperties
      <4> QED
        BY <3>1, <4>1, <4>2, Zenon
    <3> QED
      BY <3>2, <3>3
  <2>4. CASE ~CommentAt(t, i) /\ t[i] # Slash
    <3>1. HeadOf(i) = <<t[i]>> /\ Later(i) = i + 1
      BY <2>4, Zenon
    <3> HIDE DEF HeadOf, Later
    <3>2. <<t[i]>> \in Seq(Marks) /\ i + 1 \in i + 1..L + 1
      BY <1>0, <1>1, <2>1
    <3> QED
      BY <3>1, <3>2, Zenon
  <2> QED
    BY <2>2, <2>3, <2>4, Zenon
<1>4. \A f, i : TranslationAt(t, f, i) = IF Stops(i) THEN TailOf(i) ELSE HeadOf(i) \o f[Later(i)]
  <2> TAKE f, i
  <2>1. CASE i > L
    BY <2>1, Zenon DEF TranslationAt
  <2>2. CASE ~ (i > L) /\ CommentAt(t, i)
    BY <2>2, Zenon DEF TranslationAt
  <2>3. CASE ~ (i > L) /\ ~CommentAt(t, i) /\ Escaping(i) /\ TooLarge(t, run(i))
    BY <2>3, Zenon DEF TranslationAt
  <2>4. CASE ~ (i > L) /\ ~CommentAt(t, i) /\ Escaping(i) /\ ~TooLarge(t, run(i))
    BY <2>4, Zenon DEF TranslationAt
  <2>5. CASE ~ (i > L) /\ ~CommentAt(t, i) /\ ~Escaping(i) /\ t[i] = Slash
    BY <2>5, Zenon DEF TranslationAt
  <2>6. CASE ~ (i > L) /\ ~CommentAt(t, i) /\ ~Escaping(i) /\ t[i] # Slash
    BY <2>6, Zenon DEF TranslationAt
  <2> QED
    BY <2>1, <2>2, <2>3, <2>4, <2>5, <2>6, Zenon
<1> HIDE DEF Stops, TailOf, HeadOf, Later
<1>5. /\ \A i \in D : measure[i] = (L + 1) - i /\ tail[i] = TailOf(i) /\ next[i] = Later(i)
      /\ \A i \in D : ~Stops(i) => head[i] = HeadOf(i)
      /\ \A i \in D : i \in stop <=> Stops(i)
  <2> HIDE DEF D
  <2> QED
    BY Zenon
<1>6. IsListwise(D, Marks, L + 1, measure, stop, tail, head, next)
  <2>1. measure \in [D -> 0..L + 1]
    BY <1>0
  <2>2. tail \in [D -> Seq(Marks)]
    <3> HIDE DEF D
    <3> QED
      BY <1>2
  <2>3. head \in [D -> Seq(Marks)]
    <3> HIDE DEF D
    <3> QED
      BY <1>1, <1>3
  <2>4. \A i \in D : i \notin stop => next[i] \in D /\ measure[next[i]] < measure[i]
    <3> TAKE i \in D
    <3> HAVE i \notin stop
    <3> DEFINE x == next[i]
    <3> HIDE DEF measure, stop, tail, head, next
    <3>1. x \in i + 1..L + 1
      BY <1>3, <1>5, Zenon
    <3> HIDE DEF x
    <3>2. x \in D
      BY <1>0, <3>1
    <3>3. measure[x] < measure[i]
      BY <1>0, <1>5, <3>1, <3>2
    <3> QED
      BY <3>2, <3>3 DEF x
  <2> HIDE DEF D, measure, stop, tail, head, next
  <2> QED
    BY <2>1, <2>2, <2>3, <2>4, Zenon DEF IsListwise
<1>7. PICK f \in [D -> Seq(Marks)] : IsList(D, f, stop, tail, head, next)
  <2>1. L + 1 \in Nat
    BY <1>0
  <2> HIDE DEF D, L, measure, stop, tail, head, next
  <2> QED
    BY <1>6, <2>1, ListRecursion
<1>8. \A i \in D : f[i] = TranslationAt(t, f, i)
  <2> TAKE i \in D
  <2>1. f[i] = IF i \in stop THEN tail[i] ELSE head[i] \o f[next[i]]
    <3> HIDE DEF D, stop, tail, head, next
    <3> QED
      BY <1>7 DEF IsList
  <2>2. TranslationAt(t, f, i) = IF Stops(i) THEN TailOf(i) ELSE HeadOf(i) \o f[Later(i)]
    BY <1>4
  <2>3. tail[i] = TailOf(i) /\ next[i] = Later(i) /\ (~Stops(i) => head[i] = HeadOf(i)) /\ (i \in stop <=> Stops(i))
    BY <1>5
  <2> HIDE DEF D, measure, stop, tail, head, next
  <2>4. CASE Stops(i)
    BY <2>1, <2>2, <2>3, <2>4, Zenon
  <2>5. CASE ~Stops(i)
    BY <2>1, <2>2, <2>3, <2>5, Zenon
  <2> QED
    BY <2>4, <2>5
<1> DEFINE g == CHOOSE g : g = [i \in D |-> TranslationAt(t, g, i)]
<1>9. module_translate_unicode_escapes(t) = g[1]
  BY Zenon DEF module_translate_unicode_escapes, TranslationAt
<1>10. f = [i \in D |-> TranslationAt(t, f, i)]
  <2> HIDE DEF D
  <2> QED
    BY <1>7, <1>8
<1>11. g = [i \in D |-> TranslationAt(t, g, i)]
  <2> HIDE DEF D
  <2> QED
    BY <1>10
<1> HIDE DEF g
<1>12. \A i \in D : g[i] = TranslationAt(t, g, i)
  <2> HIDE DEF D
  <2> QED
    BY <1>11
<1> DEFINE Typed == {i \in D : g[i] \in Seq(Marks)}
<1>13. ASSUME NEW i \in D, \A j \in i + 1..L + 1 : j \in Typed PROVE i \in Typed
  <2>1. g[i] = IF Stops(i) THEN TailOf(i) ELSE HeadOf(i) \o g[Later(i)]
    BY <1>4, <1>12, Zenon
  <2>2. CASE Stops(i)
    <3>1. g[i] \in Seq(Marks)
      BY <1>2, <2>1, <2>2
    <3> QED
      BY <3>1
  <2>3. CASE ~Stops(i)
    <3> DEFINE j == Later(i)
    <3>1. HeadOf(i) \in Seq(Marks) /\ j \in i + 1..L + 1
      BY <1>3, <2>3
    <3>2. g[i] = HeadOf(i) \o g[j]
      BY <2>1, <2>3, Zenon
    <3> HIDE DEF j
    <3>3. j \in Typed
      BY <1>13, <3>1, Zenon
    <3>4. g[j] \in Seq(Marks)
      BY <3>3, Zenon
    <3>5. g[i] \in Seq(Marks)
      BY <3>1, <3>2, <3>4, ConcatProperties
    <3> QED
      BY <3>5
  <2> QED
    BY <2>2, <2>3
<1>14. D \subseteq Typed
  <2>1. L + 1 \in Nat
    BY <1>0
  <2> HIDE DEF Typed, L
  <2> QED
    BY <1>13, <2>1, FromTheEnd
<1>15. \A i \in D : g[i] \in Seq(Marks)
  <2> HIDE DEF D
  <2> QED
    BY <1>14
<1>16. IsTranslation(t, g)
  BY <1>12, <1>15, Zenon DEF IsTranslation
<1> QED
  BY <1>9, <1>16, Zenon

LEMMA ItemEnds ==
  ASSUME NEW t \in Seq(Marks), NEW i \in 1..Len(t)
  PROVE  ItemEnd(t, i) \in i..Len(t)
<1>0. Len(t) \in Nat
  OBVIOUS
<1>1. CASE CommentAt(t, i)
  <2>1. ItemEnd(t, i) = CommentEnd(t, i)
    BY <1>1, Zenon DEF ItemEnd
  <2> QED
    BY <1>1, <2>1, CommentIs
<1>2. CASE ~CommentAt(t, i) /\ EscapeAt(t, i)
  <2>1. ItemEnd(t, i) = i + 1 + HexLength(t[i + 1])
    BY <1>2, Zenon DEF ItemEnd, EscapeAt
  <2>2. i + 1 \in 1..Len(t) /\ UnicodeAt(t, i + 1)
    <3>1. UnicodeAt(t, i + 1)
      BY <1>2, Zenon DEF EscapeAt
    <3>2. i + 1 <= Len(t)
      BY <3>1, Zenon DEF UnicodeAt
    <3> QED
      BY <3>1, <3>2
  <2>3. i + 1 + HexLength(t[i + 1]) \in i + 1 + 1..Len(t)
    BY <2>2, BracedType
  <2> QED
    BY <2>1, <2>3
<1>3. CASE ~CommentAt(t, i) /\ ~EscapeAt(t, i) /\ t[i] = Slash /\ i < Len(t)
  <2>1. ItemEnd(t, i) = i + 1
    BY <1>3, Zenon DEF ItemEnd, EscapeAt
  <2> QED
    BY <1>0, <1>3, <2>1
<1>4. CASE ~CommentAt(t, i) /\ ~EscapeAt(t, i) /\ ~ (t[i] = Slash /\ i < Len(t))
  <2>1. ItemEnd(t, i) = i
    BY <1>4, Zenon DEF ItemEnd, EscapeAt
  <2> QED
    BY <1>0, <2>1
<1> QED
  BY <1>1, <1>2, <1>3, <1>4

\* The items from place i on, g of the later places.
ItemsAt(t, g, i) == IF i > Len(t) THEN <<>> ELSE <<i>> \o g[ItemEnd(t, i) + 1]

IsItems(t, g) ==
  \A i \in 1..Len(t) + 1 : g[i] \in Seq(1..Len(t)) /\ g[i] = ItemsAt(t, g, i)

LEMMA Itemizing ==
  ASSUME NEW t \in Seq(Marks)
  PROVE  \E g : IsItems(t, g) /\ Items(t) = g[1]
<1> DEFINE L == Len(t)
           D == 1..L + 1
           P == 1..L
           measure == [i \in D |-> (L + 1) - i]
           stop == {i \in D : i > L}
           tail == [i \in D |-> <<>>]
           head == [i \in D |-> IF i > L THEN <<>> ELSE <<i>>]
           Later(i) == ItemEnd(t, i) + 1
           next == [i \in D |-> Later(i)]
<1>0. L \in Nat
  OBVIOUS
<1>1. ASSUME NEW i \in D, ~ (i > L) PROVE i \in P /\ <<i>> \in Seq(P) /\ Later(i) \in i + 1..L + 1
  <2>1. i \in P
    BY <1>0, <1>1
  <2>2. ItemEnd(t, i) \in i..L
    BY <2>1, ItemEnds
  <2>3. ItemEnd(t, i) + 1 \in i + 1..L + 1
    BY <1>0, <2>1, <2>2
  <2> QED
    BY <2>1, <2>3
<1>2. <<>> \in Seq(P)
  OBVIOUS
<1> HIDE DEF Later, P
<1>3. /\ \A i \in D : measure[i] = (L + 1) - i /\ tail[i] = <<>> /\ next[i] = Later(i)
      /\ \A i \in D : ~ (i > L) => head[i] = <<i>>
      /\ \A i \in D : i \in stop <=> i > L
  <2> HIDE DEF D
  <2> QED
    BY Zenon
<1>4. IsListwise(D, P, L + 1, measure, stop, tail, head, next)
  <2>1. measure \in [D -> 0..L + 1]
    BY <1>0
  <2>2. tail \in [D -> Seq(P)]
    <3> HIDE DEF D
    <3> QED
      BY <1>2
  <2>3. head \in [D -> Seq(P)]
    <3> HIDE DEF D
    <3> QED
      BY <1>1, <1>2
  <2>4. \A i \in D : i \notin stop => next[i] \in D /\ measure[next[i]] < measure[i]
    <3> TAKE i \in D
    <3> HAVE i \notin stop
    <3> DEFINE x == next[i]
    <3> HIDE DEF measure, stop, tail, head, next
    <3>1. x \in i + 1..L + 1
      BY <1>1, <1>3, Zenon
    <3> HIDE DEF x
    <3>2. x \in D
      BY <1>0, <3>1
    <3>3. measure[x] < measure[i]
      BY <1>0, <1>3, <3>1, <3>2
    <3> QED
      BY <3>2, <3>3 DEF x
  <2> HIDE DEF D, measure, stop, tail, head, next
  <2> QED
    BY <2>1, <2>2, <2>3, <2>4, Zenon DEF IsListwise
<1>5. PICK f \in [D -> Seq(P)] : IsList(D, f, stop, tail, head, next)
  <2>1. L + 1 \in Nat
    BY <1>0
  <2> HIDE DEF D, L, measure, stop, tail, head, next
  <2> QED
    BY <1>4, <2>1, ListRecursion
<1>6. \A i \in D : f[i] = ItemsAt(t, f, i)
  <2> TAKE i \in D
  <2>1. f[i] = IF i \in stop THEN tail[i] ELSE head[i] \o f[next[i]]
    <3> HIDE DEF D, stop, tail, head, next
    <3> QED
      BY <1>5 DEF IsList
  <2>2. tail[i] = <<>> /\ next[i] = Later(i) /\ (~ (i > L) => head[i] = <<i>>) /\ (i \in stop <=> i > L)
    BY <1>3
  <2> HIDE DEF D, measure, stop, tail, head, next
  <2>3. CASE i > L
    BY <2>1, <2>2, <2>3, Zenon DEF ItemsAt
  <2>4. CASE ~ (i > L)
    BY <2>1, <2>2, <2>4, Zenon DEF ItemsAt, Later
  <2> QED
    BY <2>3, <2>4
<1> DEFINE g == CHOOSE g : g = [i \in D |-> ItemsAt(t, g, i)]
<1>7. Items(t) = g[1]
  BY Zenon DEF Items, ItemsAt
<1>8. f = [i \in D |-> ItemsAt(t, f, i)]
  <2> HIDE DEF D
  <2> QED
    BY <1>5, <1>6
<1>9. g = [i \in D |-> ItemsAt(t, g, i)]
  <2> HIDE DEF D
  <2> QED
    BY <1>8
<1> HIDE DEF g
<1>10. \A i \in D : g[i] = ItemsAt(t, g, i)
  <2> HIDE DEF D
  <2> QED
    BY <1>9
<1> DEFINE Typed == {i \in D : g[i] \in Seq(P)}
<1>11. ASSUME NEW i \in D, \A j \in i + 1..L + 1 : j \in Typed PROVE i \in Typed
  <2>1. g[i] = ItemsAt(t, g, i)
    BY <1>10, Zenon
  <2>2. CASE i > L
    <3>1. g[i] = <<>>
      BY <2>1, <2>2, Zenon DEF ItemsAt
    <3> QED
      BY <1>2, <3>1
  <2>3. CASE ~ (i > L)
    <3> DEFINE j == Later(i)
               h == <<i>>
    <3>1. h \in Seq(P) /\ j \in i + 1..L + 1
      BY <1>1, <2>3
    <3>2. g[i] = h \o g[j]
      BY <2>1, <2>3, Zenon DEF ItemsAt, Later
    <3> HIDE DEF j, h
    <3>3. j \in Typed
      BY <1>11, <3>1, Zenon
    <3>4. g[j] \in Seq(P)
      BY <3>3, Zenon
    <3>5. g[i] \in Seq(P)
      BY <3>1, <3>2, <3>4, ConcatProperties
    <3> QED
      BY <3>5
  <2> QED
    BY <2>2, <2>3
<1>12. D \subseteq Typed
  <2>1. L + 1 \in Nat
    BY <1>0
  <2> HIDE DEF Typed, L
  <2> QED
    BY <1>11, <2>1, FromTheEnd
<1>13. \A i \in D : g[i] \in Seq(P)
  <2> HIDE DEF D
  <2> QED
    BY <1>12
<1>14. IsItems(t, g)
  BY <1>10, <1>13, Zenon DEF IsItems, P
<1> QED
  BY <1>7, <1>14, Zenon

LEMMA PartOne ==
  ASSUME NEW t \in Seq(Marks), NEW i \in 1..Len(t)
  PROVE  /\ SubSeq(t, i, i) = <<t[i]>> /\ SubSeq(t, i, i - 1) = <<>> /\ SubSeq(t, i + 1, i) = <<>>
         /\ <<t[i]>> \in Seq(Marks)
<1>0. i \in Int /\ i + 1 \in Int /\ i - 1 \in Int /\ i - 1 < i /\ i < i + 1 /\ i \in i..Len(t)
  OBVIOUS
<1>1. SubSeq(t, i, i - 1) = <<>> /\ SubSeq(t, i + 1, i) = <<>>
  BY ONLY <1>0, SubSeqEmpty
<1>2. SubSeq(t, i, i) = <<t[i]>> \o SubSeq(t, i + 1, i)
  BY <1>0, SubSeqRecursiveFirst
<1>3. <<t[i]>> \in Seq(Marks) /\ <<t[i]>> \o <<>> = <<t[i]>>
  BY ConcatEmptySeq
<1> QED
  BY <1>1, <1>2, <1>3, Zenon

LEMMA PartTwo ==
  ASSUME NEW t \in Seq(Marks), NEW i \in 1..Len(t), NEW b \in i + 1..Len(t)
  PROVE  /\ SubSeq(t, i, b) = SubSeq(t, i, i + 1) \o SubSeq(t, i + 2, b)
         /\ SubSeq(t, i, i + 1) = <<t[i]>> \o <<t[i + 1]>>
         /\ SubSeq(t, i, i + 1) \in Seq(Marks) /\ SubSeq(t, i + 2, b) \in Seq(Marks)
<1> DEFINE x == <<t[i]>>
           y == <<t[i + 1]>>
           z == SubSeq(t, i + 2, b)
<1>0. /\ i + 1 \in 1..Len(t) /\ (i + 1) + 1 = i + 2 /\ b \in i + 1..Len(t) /\ b \in i..Len(t)
      /\ i + 1 \in i..Len(t) /\ i + 1 \in i + 1..Len(t)
  OBVIOUS
<1>1. SubSeq(t, i, b) = x \o SubSeq(t, i + 1, b)
  BY <1>0, SubSeqRecursiveFirst
<1>2. SubSeq(t, i + 1, b) = y \o SubSeq(t, (i + 1) + 1, b)
  BY <1>0, SubSeqRecursiveFirst
<1>3. SubSeq(t, i, i + 1) = x \o SubSeq(t, i + 1, i + 1)
  BY <1>0, SubSeqRecursiveFirst
<1>4. SubSeq(t, i + 1, i + 1) = y
  BY <1>0, PartOne
<1>5. x \in Seq(Marks) /\ y \in Seq(Marks)
  BY <1>0, PartOne
<1>6. z \in Seq(Marks)
  <2>1. \A k \in i + 2..b : t[k] \in Marks
    BY <1>0
  <2>2. i + 2 \in Int /\ b \in Int
    OBVIOUS
  <2> QED
    BY <2>1, <2>2, SubSeqProperties
<1>7. x \o y \in Seq(Marks)
  <2> HIDE DEF x, y
  <2> QED
    BY <1>5, ConcatProperties
<1>8. (x \o y) \o z = x \o (y \o z)
  <2>1. Regroups(Marks)
    BY ONLY Regroup, Zenon
  <2> HIDE DEF x, y, z
  <2> QED
    BY ONLY <1>5, <1>6, <2>1, Zenon DEF Regroups
<1> HIDE DEF x, y
<1>9. SubSeq(t, i, i + 1) = x \o y
  BY <1>3, <1>4, Zenon
<1>10. SubSeq(t, i, b) = x \o (y \o z)
  BY <1>0, <1>1, <1>2, Zenon
<1> QED
  BY <1>6, <1>7, <1>8, <1>9, <1>10, Zenon DEF x, y

\* What an item is translated into.
ItemText(t, i) == IF EscapeAt(t, i) THEN Braced(t, i + 1) ELSE SubSeq(t, i, ItemEnd(t, i))
ItemTexts(t, s) == [k \in DOMAIN s |-> ItemText(t, s[k])]
Rest(t, s) == FlattenSeq(ItemTexts(t, s))

LEMMA ItemTextType ==
  ASSUME NEW t \in Seq(Marks), NEW i \in 1..Len(t)
  PROVE  ItemText(t, i) \in Seq(Marks)
<1>1. CASE EscapeAt(t, i)
  <2>1. UnicodeAt(t, i + 1)
    BY <1>1, Zenon DEF EscapeAt
  <2>2. i + 1 <= Len(t)
    BY <2>1, Zenon DEF UnicodeAt
  <2>3. i + 1 \in 1..Len(t)
    BY <2>2
  <2>4. Braced(t, i + 1) \in Seq(Marks)
    BY <2>1, <2>3, BracedType
  <2> QED
    BY <1>1, <2>4, Zenon DEF ItemText
<1>2. CASE ~EscapeAt(t, i)
  <2> DEFINE end == ItemEnd(t, i)
  <2>1. end \in i..Len(t)
    BY ItemEnds
  <2> HIDE DEF end
  <2>2. \A k \in i..end : t[k] \in Marks
    BY <2>1
  <2>3. i \in Int /\ end \in Int
    BY <2>1
  <2>4. SubSeq(t, i, end) \in Seq(Marks)
    BY <2>2, <2>3, SubSeqProperties
  <2> QED
    BY <1>2, <2>4, Zenon DEF ItemText, end
<1> QED
  BY <1>1, <1>2

\* An item more.
OneItemMore(t, i, s) ==
  /\ Rest(t, <<i>> \o s) = ItemText(t, i) \o Rest(t, s)
  /\ Range(<<i>> \o s) = {i} \cup Range(s)

LEMMA RestCons ==
  ASSUME NEW t \in Seq(Marks), NEW i \in 1..Len(t), NEW s \in Seq(1..Len(t))
  PROVE  OneItemMore(t, i, s)
<1> DEFINE P == 1..Len(t)
           V == Seq(Marks)
           c == <<i>> \o s
           x == ItemText(t, i)
           d == <<x>> \o ItemTexts(t, s)
<1>1. i \in P /\ s \in Seq(P)
  OBVIOUS
<1>2. \A k \in P : ItemText(t, k) \in V
  BY ItemTextType
<1> HIDE DEF P, V
<1>3. c \in Seq(P) /\ Len(c) = Len(s) + 1 /\ c[1] = i /\ \A k \in 1..Len(s) : c[k + 1] = s[k]
  BY <1>1, ConsIs
<1> HIDE DEF c
<1>4. ASSUME NEW u \in Seq(P)
      PROVE  /\ ItemTexts(t, u) \in Seq(V) /\ Len(ItemTexts(t, u)) = Len(u)
             /\ ItemTexts(t, u) = [k \in 1..Len(u) |-> ItemText(t, u[k])]
             /\ \A k \in 1..Len(u) : ItemTexts(t, u)[k] = ItemText(t, u[k])
  <2>1. Len(u) \in Nat /\ DOMAIN u = 1..Len(u) /\ \A k \in 1..Len(u) : u[k] \in P
    OBVIOUS
  <2>2. ItemTexts(t, u) = [k \in 1..Len(u) |-> ItemText(t, u[k])]
    BY <2>1, Zenon DEF ItemTexts
  <2>3. \A k \in 1..Len(u) : ItemText(t, u[k]) \in V
    BY <1>2, <2>1, Zenon
  <2> QED
    BY <2>1, <2>2, <2>3
<1>5. ItemTexts(t, c) \in Seq(V) /\ ItemTexts(t, s) \in Seq(V) /\ x \in V
  BY <1>1, <1>2, <1>3, <1>4
<1>6. d \in Seq(V) /\ Len(d) = Len(s) + 1 /\ d[1] = x /\ \A k \in 1..Len(s) : d[k + 1] = ItemTexts(t, s)[k]
  <2> DEFINE e == ItemTexts(t, s)
  <2>1. e \in Seq(V) /\ Len(e) = Len(s)
    BY <1>1, <1>4
  <2> HIDE DEF e, x
  <2>2. <<x>> \o e \in Seq(V) /\ Len(<<x>> \o e) = Len(e) + 1 /\ (<<x>> \o e)[1] = x
        /\ \A k \in 1..Len(e) : (<<x>> \o e)[k + 1] = e[k]
    BY <1>5, <2>1, ConsIs
  <2> QED
    BY <2>1, <2>2, Zenon DEF e
<1> HIDE DEF d
<1>7. Len(s) \in Nat /\ Len(c) = Len(s) + 1
  BY <1>1, <1>3
<1>8. ASSUME NEW k \in 1..Len(s) + 1 PROVE ItemTexts(t, c)[k] = d[k]
  <2>1. ItemTexts(t, c)[k] = ItemText(t, c[k])
    BY <1>3, <1>4, Zenon
  <2>2. CASE k = 1
    BY <1>3, <1>6, <2>1, <2>2, Zenon
  <2>3. CASE k # 1
    <3> DEFINE j == k - 1
    <3>1. j \in 1..Len(s) /\ k = j + 1
      BY <1>7, <2>3
    <3> HIDE DEF j
    <3>2. ItemTexts(t, s)[j] = ItemText(t, s[j])
      BY <1>1, <1>4, <3>1, Zenon
    <3> QED
      BY <1>3, <1>6, <2>1, <3>1, <3>2, Zenon
  <2> QED
    BY <2>2, <2>3
<1>9. ItemTexts(t, c) = d
  <2> DEFINE e == ItemTexts(t, c)
  <2>1. e \in Seq(V) /\ Len(e) = Len(s) + 1 /\ d \in Seq(V) /\ Len(d) = Len(s) + 1
    BY <1>3, <1>4, <1>6
  <2>2. \A k \in 1..Len(s) + 1 : e[k] = d[k]
    BY <1>8
  <2> HIDE DEF e
  <2>3. e = d
    BY ONLY <1>7, <2>1, <2>2
  <2> QED
    BY <2>3 DEF e
<1>10. FlattenSeq(d) = x \o Rest(t, s)
  <2> DEFINE e == ItemTexts(t, s)
             o == <<x>>
  <2>1. o \in Seq(V) /\ e \in Seq(V)
    BY <1>5
  <2>2. FlattenSeq(o) = x
    <3> HIDE DEF x
    <3> QED
      BY <1>5, FlattenOne DEF V
  <2>3. d = o \o e
    BY Zenon DEF d
  <2> HIDE DEF o, e
  <2>4. FlattenSeq(o \o e) = FlattenSeq(o) \o FlattenSeq(e)
    BY <2>1, FlattenConcat DEF V
  <2> QED
    BY <2>2, <2>3, <2>4, Zenon DEF Rest, e
<1>12. Range(c) = {i} \cup Range(s)
  <2>1. DOMAIN c = 1..Len(s) + 1 /\ DOMAIN s = 1..Len(s)
    BY <1>1, <1>3
  <2>2. \A k \in 1..Len(s) + 1 : k = 1 \/ \E j \in 1..Len(s) : k = j + 1
    <3> TAKE k \in 1..Len(s) + 1
    <3>1. CASE k # 1
      <4>1. k - 1 \in 1..Len(s) /\ k = (k - 1) + 1
        BY <1>7, <3>1
      <4> QED
        BY <4>1
    <3> QED
      BY <3>1
  <2>3. 1 \in 1..Len(s) + 1 /\ \A j \in 1..Len(s) : j + 1 \in 1..Len(s) + 1
    BY <1>7
  <2>4. ASSUME NEW y \in Range(c) PROVE y = i \/ y \in Range(s)
    <3>1. PICK k \in 1..Len(s) + 1 : y = c[k]
      BY <2>1, Zenon DEF Range
    <3>2. ASSUME NEW j \in 1..Len(s), k = j + 1 PROVE y \in Range(s)
      BY <1>3, <2>1, <3>1, <3>2, Zenon DEF Range
    <3> QED
      BY <1>3, <2>2, <3>1, <3>2, Zenon
  <2>5. i \in Range(c)
    BY <1>3, <2>1, <2>3, Zenon DEF Range
  <2>6. ASSUME NEW y \in Range(s) PROVE y \in Range(c)
    <3>1. PICK j \in 1..Len(s) : y = s[j]
      BY <2>1, Zenon DEF Range
    <3> QED
      BY <1>3, <2>1, <2>3, <3>1, Zenon DEF Range
  <2> QED
    BY <2>4, <2>5, <2>6, Zenon
<1>13. Rest(t, c) = x \o Rest(t, s)
  BY <1>9, <1>10, Zenon DEF Rest
<1> QED
  BY <1>12, <1>13, Zenon DEF OneItemMore, c

\* The translation gives up at i, at the escape out of range that the backslashes
\* from i on end in.
Refuses(t, i) ==
  /\ i <= Len(t) /\ t[i] = Slash
  /\ OpensEscape(RunEnd(t, i) - i) /\ UnicodeAt(t, RunEnd(t, i)) /\ TooLarge(t, RunEnd(t, i))

\* The item at i and what follows is what the translation makes of the text from i on.
Continues(t, f, i) == ~Refuses(t, i) /\ f[i] = ItemText(t, i) \o f[ItemEnd(t, i) + 1]

\* Or it gives up at i and at the next item.
GivesUp(t, f, i) == Refuses(t, i) /\ f[i] = <<"error">> /\ Refuses(t, ItemEnd(t, i) + 1)

LEMMA Parity ==
  /\ OpensEscape(1) /\ ~OpensEscape(2)
  /\ \A d \in Nat : OpensEscape(d + 2) <=> OpensEscape(d)
BY DEF OpensEscape

LEMMA EscapeStep ==
  ASSUME NEW t \in Seq(Marks), NEW f, IsTranslation(t, f), NEW i \in 1..Len(t), EscapeAt(t, i)
  PROVE  IF TooLarge(t, i + 1) THEN f[i] = <<"error">> ELSE Continues(t, f, i)
<1> DEFINE r == i + 1
           end == r + HexLength(t[r])
<1>1. t[i] = Slash /\ UnicodeAt(t, r)
  BY Zenon DEF EscapeAt
<1>2. r \in 1..Len(t) /\ t[r] # Slash
  <2>1. r <= Len(t) /\ t[r] \in {"u", "U"}
    BY <1>1, Zenon DEF UnicodeAt
  <2>2. t[r] # Slash
    BY <2>1 DEF Slash
  <2> QED
    BY <2>1, <2>2
<1>3. RunEnd(t, i) = r
  <2>1. IsRunEnd(t, i, r)
    <3>1. r \in i + 1..Len(t) + 1 /\ \A k \in i..r - 1 : k = i
      BY <1>2
    <3> QED
      BY <1>1, <1>2, <3>1, Zenon DEF IsRunEnd
  <2>2. IsRunEnd(t, i, RunEnd(t, i))
    BY <1>1, RunEndIs
  <2> HIDE DEF r
  <2> QED
    BY <2>1, <2>2, OneRunEnd
<1>4. ~CommentAt(t, i)
  BY <1>1, CommentIs
<1>5. r - i = 1 /\ r - 2 = i - 1 /\ ~ (i > Len(t))
  BY <1>2
<1>6. OpensEscape(r - i)
  BY <1>5, Parity, Zenon
<1>7. f[i] \in Seq(Marks) /\ f[i] = TranslationAt(t, f, i)
  <2>1. i \in 1..Len(t) + 1
    OBVIOUS
  <2> QED
    BY <2>1, Zenon DEF IsTranslation
<1>8. ItemEnd(t, i) = end /\ ItemText(t, i) = Braced(t, r)
  BY <1>1, <1>4, Zenon DEF ItemEnd, ItemText, EscapeAt
<1> HIDE DEF r, end
<1>9. CASE TooLarge(t, r)
  <2>1. f[i] = <<"error">>
    BY <1>1, <1>3, <1>4, <1>5, <1>6, <1>7, <1>9, Zenon DEF TranslationAt
  <2> QED
    BY <1>9, <2>1 DEF r
<1>10. CASE ~TooLarge(t, r)
  <2>1. f[i] = (SubSeq(t, i, r - 2) \o Braced(t, r)) \o f[end + 1]
    BY <1>1, <1>3, <1>4, <1>5, <1>6, <1>7, <1>10, Zenon DEF TranslationAt, end
  <2>2. SubSeq(t, i, r - 2) = <<>>
    BY <1>5, PartOne
  <2>3. <<>> \o Braced(t, r) = Braced(t, r)
    <3>1. Braced(t, r) \in Seq(Marks)
      BY <1>1, <1>2, BracedType
    <3> QED
      BY <3>1, ConcatEmptySeq
  <2>4. f[i] = Braced(t, r) \o f[end + 1]
    BY <2>1, <2>2, <2>3, Zenon
  <2>5. ~Refuses(t, i)
    BY <1>3, <1>10, Zenon DEF Refuses
  <2>6. Continues(t, f, i)
    BY <1>8, <2>4, <2>5, Zenon DEF Continues
  <2> QED
    BY <1>10, <2>6 DEF r
<1> QED
  BY <1>9, <1>10

LEMMA PlainStep ==
  ASSUME NEW t \in Seq(Marks), NEW f, IsTranslation(t, f), NEW i \in 1..Len(t),
         CommentAt(t, i) \/ t[i] # Slash \/ (i = Len(t) /\ ~EscapeAt(t, i))
  PROVE  Continues(t, f, i)
<1>1. i \in 1..Len(t) + 1 /\ ~ (i > Len(t))
  OBVIOUS
<1>2. f[i] \in Seq(Marks) /\ f[i] = TranslationAt(t, f, i)
  BY <1>1, Zenon DEF IsTranslation
<1>3. CASE CommentAt(t, i)
  <2>1. t[i] # Slash
    BY <1>3, CommentIs
  <2>2. ItemEnd(t, i) = CommentEnd(t, i) /\ ItemText(t, i) = SubSeq(t, i, CommentEnd(t, i))
    BY <1>3, <2>1, Zenon DEF ItemEnd, ItemText, EscapeAt
  <2>3. f[i] = SubSeq(t, i, CommentEnd(t, i)) \o f[CommentEnd(t, i) + 1]
    BY <1>1, <1>2, <1>3, Zenon DEF TranslationAt
  <2>4. ~Refuses(t, i)
    BY <2>1, Zenon DEF Refuses
  <2> QED
    BY <2>2, <2>3, <2>4, Zenon DEF Continues
<1>4. CASE ~CommentAt(t, i) /\ t[i] # Slash
  <2>1. ItemEnd(t, i) = i /\ ItemText(t, i) = SubSeq(t, i, i)
    BY <1>4, Zenon DEF ItemEnd, ItemText, EscapeAt
  <2>2. f[i] = <<t[i]>> \o f[i + 1]
    BY <1>1, <1>2, <1>4, Zenon DEF TranslationAt
  <2>3. SubSeq(t, i, i) = <<t[i]>>
    BY PartOne
  <2>4. ~Refuses(t, i)
    BY <1>4, Zenon DEF Refuses
  <2> QED
    BY <2>1, <2>2, <2>3, <2>4, Zenon DEF Continues
<1>5. CASE ~CommentAt(t, i) /\ t[i] = Slash /\ i = Len(t) /\ ~EscapeAt(t, i)
  <2> DEFINE r == RunEnd(t, i)
  <2>1. r = i + 1
    <3>1. IsRunEnd(t, i, r)
      BY <1>5, RunEndIs
    <3>2. r \in i + 1..Len(t) + 1
      BY <3>1, Zenon DEF IsRunEnd
    <3> HIDE DEF r
    <3> QED
      BY <1>5, <3>2
  <2>2. ~UnicodeAt(t, r) /\ r - 1 = i
    <3> HIDE DEF r
    <3>1. ~ (r <= Len(t)) /\ r - 1 = i
      BY <1>5, <2>1
    <3> QED
      BY <3>1, Zenon DEF UnicodeAt
  <2>3. f[i] = SubSeq(t, i, r - 1) \o f[r]
    BY <1>1, <1>2, <1>5, <2>2, Zenon DEF TranslationAt
  <2>4. ~ (i < Len(t))
    BY <1>5
  <2>5. ItemEnd(t, i) = i /\ ItemText(t, i) = SubSeq(t, i, i)
    BY <1>5, <2>4, Zenon DEF ItemEnd, ItemText, EscapeAt
  <2>6. ~Refuses(t, i)
    BY <2>2, Zenon DEF Refuses
  <2> QED
    BY <2>1, <2>2, <2>3, <2>5, <2>6, Zenon DEF Continues
<1> QED
  BY <1>3, <1>4, <1>5

\* A backslash and what it escapes, where no escape of the kind translated starts.
LEMMA PairStep ==
  ASSUME NEW t \in Seq(Marks), NEW f, IsTranslation(t, f), NEW i \in 1..Len(t),
         t[i] = Slash, ~EscapeAt(t, i), i < Len(t), ~CommentAt(t, i + 1)
  PROVE  Continues(t, f, i) \/ GivesUp(t, f, i)
<1> DEFINE r == RunEnd(t, i)
           n == Len(t)
           x == <<t[i]>>
           y == <<t[i + 1]>>
           pair == SubSeq(t, i, i + 1)
<1>0. n \in Nat /\ i \in 1..n /\ i \in 1..n + 1 /\ ~ (i > n) /\ i + 1 \in 1..n /\ i + 2 \in 1..n + 1 /\ i + 1 \in 1..n + 1
  OBVIOUS
<1>1. r \in i + 1..n + 1 /\ (\A k \in i..r - 1 : t[k] = Slash) /\ (r <= n => t[r] # Slash)
  BY RunEndIs DEF IsRunEnd
<1>2. ~CommentAt(t, i)
  BY CommentIs
<1>3. \A k \in 1..n + 1 : f[k] \in Seq(Marks) /\ f[k] = TranslationAt(t, f, k)
  BY Zenon DEF IsTranslation
<1>4. ItemEnd(t, i) = i + 1 /\ ItemText(t, i) = pair
  BY <1>2, Zenon DEF ItemEnd, ItemText, EscapeAt
<1>5. pair = x \o y /\ i + 1 \in i + 1..n
  <2>1. i + 1 \in i + 1..n
    BY <1>0
  <2> QED
    BY <2>1, PartTwo
<1> HIDE DEF r
<1>6. CASE r = i + 1
  <2>1. r - i = 1 /\ r - 1 = i /\ ~ (i + 1 > n) /\ r <= n
    BY <1>0, <1>6
  <2>2. ~UnicodeAt(t, r)
    BY <1>6, Zenon DEF EscapeAt
  <2>3. f[i] = x \o f[i + 1]
    <3>1. f[i] = SubSeq(t, i, r - 1) \o f[r]
      BY <1>0, <1>2, <1>3, <2>2, Zenon DEF TranslationAt, r
    <3>2. SubSeq(t, i, i) = x
      BY PartOne
    <3> QED
      BY <1>6, <2>1, <3>1, <3>2, Zenon
  <2>4. f[i + 1] = y \o f[(i + 1) + 1]
    <3>1. t[i + 1] # Slash
      BY <1>1, <1>6, <2>1, Zenon
    <3> QED
      BY <1>0, <1>3, <2>1, <3>1, Zenon DEF TranslationAt
  <2>5. x \o (y \o f[(i + 1) + 1]) = (x \o y) \o f[(i + 1) + 1]
    <3> DEFINE z == f[(i + 1) + 1]
    <3>1. x \in Seq(Marks) /\ y \in Seq(Marks)
      BY <1>0, PartOne
    <3>2. z \in Seq(Marks)
      <4>1. (i + 1) + 1 \in 1..n + 1
        BY <1>0
      <4> QED
        BY <1>3, <4>1, Zenon
    <3>3. Regroups(Marks)
      BY ONLY Regroup, Zenon
    <3> HIDE DEF x, y, z
    <3>4. x \o (y \o z) = (x \o y) \o z
      BY ONLY <3>1, <3>2, <3>3, Zenon DEF Regroups
    <3> QED
      BY <3>4, Zenon DEF z
  <2>6. ~Refuses(t, i)
    BY <2>2, Zenon DEF Refuses, r
  <2> HIDE DEF x, y
  <2>7. f[i] = (x \o y) \o f[(i + 1) + 1]
    BY <2>3, <2>4, <2>5, Zenon
  <2>8. Continues(t, f, i)
    BY <1>4, <1>5, <2>6, <2>7, Zenon DEF Continues
  <2> QED
    BY <2>8
<1>7. CASE r = i + 2
  <2>1. r - i = 2 /\ r - 1 = i + 1 /\ (i + 1) + 1 = r
    BY <1>0, <1>7
  <2>2. ~OpensEscape(r - i)
    BY <2>1, Parity, Zenon
  <2>3. f[i] = SubSeq(t, i, r - 1) \o f[r]
    BY <1>0, <1>2, <1>3, <2>2, Zenon DEF TranslationAt, r
  <2>4. ~Refuses(t, i)
    BY <2>2, Zenon DEF Refuses, r
  <2>5. Continues(t, f, i)
    BY <1>4, <2>1, <2>3, <2>4, Zenon DEF Continues
  <2> QED
    BY <2>5
<1>8. CASE r > i + 2
  <2> DEFINE j == i + 2
  <2>1. /\ j \in i..r - 1 /\ r - 2 \in i + 1..n /\ r - 1 \in i + 1..n /\ r - j \in Nat /\ r - i = (r - j) + 2
        /\ (i + 1) + 1 = j
    BY <1>0, <1>1, <1>8
  <2>2. j \in 1..n /\ t[j] = Slash /\ RunEnd(t, j) = r
    BY <2>1, SameRunEnd DEF r
  <2>3. j \in 1..n + 1 /\ ~ (j > n) /\ j <= n /\ i <= n
    BY <1>0, <2>2
  <2>4. ~CommentAt(t, j)
    BY <2>2, CommentIs
  <2>5. OpensEscape(r - i) <=> OpensEscape(r - j)
    BY <2>1, Parity, Zenon
  <2>6. f[i] = TranslationAt(t, f, i) /\ f[j] = TranslationAt(t, f, j) /\ f[j] \in Seq(Marks) /\ RunEnd(t, i) = r
    BY <1>0, <1>3, <2>3, Zenon DEF r
  <2> HIDE DEF j, pair
  <2>7. CASE OpensEscape(r - i) /\ UnicodeAt(t, r) /\ TooLarge(t, r)
    <3>1. f[i] = <<"error">>
      BY <1>0, <1>2, <2>6, <2>7, Zenon DEF TranslationAt
    <3>2. Refuses(t, i) /\ Refuses(t, j)
      BY <2>2, <2>3, <2>5, <2>6, <2>7, Zenon DEF Refuses
    <3> QED
      BY <1>4, <2>1, <3>1, <3>2, Zenon DEF GivesUp
  <2>8. CASE OpensEscape(r - i) /\ UnicodeAt(t, r) /\ ~TooLarge(t, r)
    <3> DEFINE a == SubSeq(t, j, r - 2)
               b == Braced(t, r)
               c == f[r + HexLength(t[r]) + 1]
    <3>1. f[i] = (SubSeq(t, i, r - 2) \o b) \o c
      BY <1>0, <1>2, <2>6, <2>8, Zenon DEF TranslationAt
    <3>2. f[j] = (a \o b) \o c
      BY <2>2, <2>3, <2>4, <2>5, <2>6, <2>8, Zenon DEF TranslationAt
    <3>3. SubSeq(t, i, r - 2) = pair \o a /\ pair \in Seq(Marks) /\ a \in Seq(Marks)
      BY <2>1, PartTwo DEF pair, j
    <3>4. r \in 1..n
      <4>1. r <= n
        BY <2>8, Zenon DEF UnicodeAt
      <4> QED
        BY <1>0, <1>1, <4>1
    <3>5. b \in Seq(Marks) /\ c \in Seq(Marks)
      <4>1. b \in Seq(Marks) /\ r + HexLength(t[r]) \in r + 1..n
        BY <2>8, <3>4, BracedType
      <4>2. r + HexLength(t[r]) + 1 \in 1..n + 1
        BY <1>0, <3>4, <4>1
      <4> QED
        BY <1>3, <4>1, <4>2, Zenon
    <3> HIDE DEF a, b, c
    <3>6. ((pair \o a) \o b) \o c = pair \o ((a \o b) \o c)
      <4>1. Regroups(Marks)
        BY ONLY Regroup, Zenon
      <4>2. a \o b \in Seq(Marks)
        BY <3>3, <3>5, ConcatProperties
      <4>3. (pair \o a) \o b = pair \o (a \o b)
        BY ONLY <3>3, <3>5, <4>1, Zenon DEF Regroups
      <4>4. (pair \o (a \o b)) \o c = pair \o ((a \o b) \o c)
        <5> DEFINE d == a \o b
        <5>1. pair \in Seq(Marks) /\ d \in Seq(Marks) /\ c \in Seq(Marks)
          BY ONLY <3>3, <3>5, <4>2
        <5> HIDE DEF d
        <5>2. (pair \o d) \o c = pair \o (d \o c)
          BY ONLY <4>1, <5>1, Zenon DEF Regroups
        <5> QED
          BY <5>2, Zenon DEF d
      <4> QED
        BY <4>3, <4>4, Zenon
    <3>7. f[i] = pair \o f[j]
      BY <3>1, <3>2, <3>3, <3>6, Zenon
    <3>8. ~Refuses(t, i)
      BY <2>6, <2>8, Zenon DEF Refuses
    <3> QED
      BY <1>4, <2>1, <3>7, <3>8, Zenon DEF Continues
  <2>9. CASE ~ (OpensEscape(r - i) /\ UnicodeAt(t, r))
    <3> DEFINE a == SubSeq(t, j, r - 1)
               c == f[r]
    <3>1. f[i] = SubSeq(t, i, r - 1) \o c
      BY <1>0, <1>2, <2>6, <2>9, Zenon DEF TranslationAt
    <3>2. f[j] = a \o c
      BY <2>2, <2>3, <2>4, <2>5, <2>6, <2>9, Zenon DEF TranslationAt
    <3>3. SubSeq(t, i, r - 1) = pair \o a /\ pair \in Seq(Marks) /\ a \in Seq(Marks)
      BY <2>1, PartTwo DEF pair, j
    <3>4. c \in Seq(Marks)
      <4>1. r \in 1..n + 1
        BY <1>0, <1>1
      <4> QED
        BY <1>3, <4>1, Zenon
    <3> HIDE DEF a, c
    <3>5. (pair \o a) \o c = pair \o (a \o c)
      <4>1. Regroups(Marks)
        BY ONLY Regroup, Zenon
      <4> QED
        BY ONLY <3>3, <3>4, <4>1, Zenon DEF Regroups
    <3>6. f[i] = pair \o f[j]
      BY <3>1, <3>2, <3>3, <3>5, Zenon
    <3>7. ~Refuses(t, i)
      BY <2>6, <2>9, Zenon DEF Refuses
    <3> QED
      BY <1>4, <2>1, <3>6, <3>7, Zenon DEF Continues
  <2> QED
    BY <2>7, <2>8, <2>9
<1>9. r = i + 1 \/ r = i + 2 \/ r > i + 2
  BY <1>0, <1>1
<1> QED
  BY <1>6, <1>7, <1>8, <1>9

\* From item to item: an escape out of range ends the translation, any other item
\* is translated into its text, unless what follows it ends the translation.
LEMMA ItemStep ==
  ASSUME NEW t \in Seq(Marks), NEW f, IsTranslation(t, f), NEW i \in 1..Len(t), ~ (CommentAt(t, i + 1) /\ t[i] = Slash)
  PROVE  IF OutOfRangeAt(t, i) THEN f[i] = <<"error">> ELSE Continues(t, f, i) \/ GivesUp(t, f, i)
<1>1. CASE EscapeAt(t, i)
  <2>1. IF TooLarge(t, i + 1) THEN f[i] = <<"error">> ELSE Continues(t, f, i)
    BY <1>1, EscapeStep
  <2> QED
    BY <1>1, <2>1, Zenon DEF OutOfRangeAt
<1>2. CASE ~EscapeAt(t, i) /\ (CommentAt(t, i) \/ t[i] # Slash \/ i = Len(t))
  <2>1. Continues(t, f, i)
    BY <1>2, PlainStep
  <2> QED
    BY <1>2, <2>1, Zenon DEF OutOfRangeAt
<1>3. CASE ~EscapeAt(t, i) /\ t[i] = Slash /\ i # Len(t)
  <2>1. i < Len(t)
    BY <1>3
  <2>2. Continues(t, f, i) \/ GivesUp(t, f, i)
    BY <1>3, <2>1, PairStep
  <2> QED
    BY <1>3, <2>2, Zenon DEF OutOfRangeAt
<1> QED
  BY <1>1, <1>2, <1>3

EndsInError(u) == u # <<>> /\ u[Len(u)] = "error"

LEMMA ErrorEnds ==
  /\ EndsInError(<<"error">>)
  /\ \A a, b \in Seq(Marks) : EndsInError(b) => EndsInError(a \o b)
<1>1. EndsInError(<<"error">>)
  <2> DEFINE e == "error"
  <2> HIDE DEF e
  <2>1. <<e>> # <<>> /\ <<e>>[Len(<<e>>)] = e
    OBVIOUS
  <2> QED
    BY <2>1, Zenon DEF EndsInError, e
<1>2. ASSUME NEW a \in Seq(Marks), NEW b \in Seq(Marks), EndsInError(b) PROVE EndsInError(a \o b)
  <2> DEFINE c == a \o b
  <2>1. /\ c \in Seq(Marks) /\ Len(c) = Len(a) + Len(b)
        /\ \A k \in 1..Len(a) + Len(b) : c[k] = IF k <= Len(a) THEN a[k] ELSE b[k - Len(a)]
    BY ConcatProperties
  <2> HIDE DEF c
  <2>2. Len(a) \in Nat /\ Len(b) \in Nat /\ Len(b) # 0
    BY <1>2 DEF EndsInError
  <2>3. /\ Len(c) \in 1..Len(a) + Len(b) /\ ~ (Len(c) <= Len(a)) /\ Len(c) - Len(a) = Len(b) /\ Len(c) # 0
    BY <2>1, <2>2
  <2>4. c[Len(c)] = b[Len(b)]
    BY <2>1, <2>3, Zenon
  <2>5. c # <<>>
    BY <2>3
  <2>6. EndsInError(c)
    BY <1>2, <2>4, <2>5, Zenon DEF EndsInError
  <2> QED
    BY <2>6 DEF c
<1> QED
  BY <1>1, <1>2

\* Some item among those of s is an escape out of range.
HasOutOfRange(t, s) == \E k \in Range(s) : OutOfRangeAt(t, k)

NoEscapedComment(t) == \A i \in 2..Len(t) : CommentAt(t, i) => t[i - 1] # Slash

\* What the translation makes of the text from place i on, g its items: an error if
\* one of them is out of range, else what they are translated into.
TranslatedFrom(t, f, g, i) ==
  /\ Refuses(t, i) => HasOutOfRange(t, g[i])
  /\ IF HasOutOfRange(t, g[i]) THEN EndsInError(f[i]) ELSE f[i] = Rest(t, g[i])

LEMMA TranslatesItem ==
  ASSUME NEW t \in Seq(Marks), NoEscapedComment(t), NEW f, IsTranslation(t, f), NEW g, IsItems(t, g),
         NEW i \in 1..Len(t) + 1, \A j \in i + 1..Len(t) + 1 : TranslatedFrom(t, f, g, j)
  PROVE  TranslatedFrom(t, f, g, i)
<1> DEFINE n == Len(t)
<1>0. n \in Nat /\ i \in 1..n + 1
  OBVIOUS
<1>1. CASE i > n
  <2>1. g[i] = <<>> /\ f[i] = <<>>
    BY <1>1, Zenon DEF IsItems, ItemsAt, IsTranslation, TranslationAt
  <2>2. ~ (i <= n)
    BY <1>0, <1>1
  <2>3. ~HasOutOfRange(t, <<>>)
    BY DEF HasOutOfRange, Range
  <2>4. Rest(t, <<>>) = <<>>
    <3>1. ItemTexts(t, <<>>) = <<>>
      BY DEF ItemTexts
    <3> QED
      BY <3>1, FlattenNone, Zenon DEF Rest
  <2> QED
    BY <2>1, <2>2, <2>3, <2>4, Zenon DEF TranslatedFrom, Refuses
<1>2. CASE ~ (i > n)
  <2> DEFINE j == ItemEnd(t, i) + 1
             x == ItemText(t, i)
  <2>1. i \in 1..n
    BY <1>0, <1>2
  <2>2. j \in i + 1..n + 1 /\ j \in 1..n + 1
    <3>1. ItemEnd(t, i) \in i..n
      BY <2>1, ItemEnds
    <3> QED
      BY <1>0, <2>1, <3>1
  <2> HIDE DEF j
  <2>3. TranslatedFrom(t, f, g, j)
    BY <2>2
  <2>4. g[i] = <<i>> \o g[j] /\ g[j] \in Seq(1..n)
    BY <1>2, <2>2, Zenon DEF IsItems, ItemsAt, j
  <2>5. f[j] \in Seq(Marks)
    BY <2>2, Zenon DEF IsTranslation
  <2>6. x \in Seq(Marks)
    BY <2>1, ItemTextType
  <2>7. Rest(t, <<i>> \o g[j]) = x \o Rest(t, g[j]) /\ Range(<<i>> \o g[j]) = {i} \cup Range(g[j])
    <3>1. OneItemMore(t, i, g[j])
      BY <2>1, <2>4, RestCons
    <3> QED
      BY <3>1, Zenon DEF OneItemMore
  <2> HIDE DEF x
  <2>8. HasOutOfRange(t, g[i]) <=> OutOfRangeAt(t, i) \/ HasOutOfRange(t, g[j])
    <3>1. Range(g[i]) = {i} \cup Range(g[j])
      BY <2>4, <2>7, Zenon
    <3> QED
      BY <3>1, Zenon DEF HasOutOfRange
  <2>9. ~ (CommentAt(t, i + 1) /\ t[i] = Slash)
    <3> SUFFICES ASSUME CommentAt(t, i + 1), t[i] = Slash PROVE FALSE
      OBVIOUS
    <3>1. i + 1 \in 2..n /\ (i + 1) - 1 = i
      <4>1. (i + 1) + 2 <= n
        BY Zenon DEF CommentAt
      <4> QED
        BY <1>0, <2>1, <4>1
    <3> QED
      BY <3>1, Zenon DEF NoEscapedComment
  <2>10. CASE OutOfRangeAt(t, i)
    <3>1. f[i] = <<"error">>
      BY <2>1, <2>9, <2>10, ItemStep
    <3> QED
      BY <2>8, <2>10, <3>1, ErrorEnds, Zenon DEF TranslatedFrom
  <2>11. CASE ~OutOfRangeAt(t, i)
    <3>1. Continues(t, f, i) \/ GivesUp(t, f, i)
      BY <2>1, <2>9, <2>11, ItemStep
    <3>2. CASE Continues(t, f, i)
      <4>1. ~Refuses(t, i) /\ f[i] = x \o f[j]
        BY <3>2, Zenon DEF Continues, x, j
      <4>2. CASE HasOutOfRange(t, g[j])
        <5>1. EndsInError(f[j])
          BY <2>3, <4>2, Zenon DEF TranslatedFrom
        <5>2. EndsInError(x \o f[j])
          BY <2>5, <2>6, <5>1, ErrorEnds, Zenon
        <5> QED
          BY <2>8, <4>1, <4>2, <5>2, Zenon DEF TranslatedFrom
      <4>3. CASE ~HasOutOfRange(t, g[j])
        <5>1. f[j] = Rest(t, g[j])
          BY <2>3, <4>3, Zenon DEF TranslatedFrom
        <5>2. f[i] = Rest(t, g[i])
          BY <2>4, <2>7, <4>1, <5>1, Zenon
        <5> QED
          BY <2>8, <2>11, <4>1, <4>3, <5>2, Zenon DEF TranslatedFrom
      <4> QED
        BY <4>2, <4>3
    <3>3. CASE GivesUp(t, f, i)
      <4>1. f[i] = <<"error">> /\ Refuses(t, j)
        BY <3>3, Zenon DEF GivesUp, j
      <4>2. HasOutOfRange(t, g[i])
        BY <2>3, <2>8, <4>1, Zenon DEF TranslatedFrom
      <4> QED
        BY <4>1, <4>2, ErrorEnds, Zenon DEF TranslatedFrom
    <3> QED
      BY <3>1, <3>2, <3>3
  <2> QED
    BY <2>10, <2>11
<1> QED
  BY <1>1, <1>2

LEMMA TranslatesItems ==
  ASSUME NEW t \in Seq(Marks), NoEscapedComment(t)
  PROVE  IF HasOutOfRange(t, Items(t)) THEN EndsInError(module_translate_unicode_escapes(t))
         ELSE module_translate_unicode_escapes(t) = Rest(t, Items(t))
<1>1. PICK f : IsTranslation(t, f) /\ module_translate_unicode_escapes(t) = f[1]
  BY Translating
<1>2. PICK g : IsItems(t, g) /\ Items(t) = g[1]
  BY Itemizing
<1> DEFINE N == Len(t) + 1
           T == {i \in 1..N : TranslatedFrom(t, f, g, i)}
<1>3. N \in Nat /\ 1 \in 1..N
  OBVIOUS
<1>4. ASSUME NEW i \in 1..N, \A j \in i + 1..N : j \in T PROVE i \in T
  <2>1. \A j \in i + 1..N : TranslatedFrom(t, f, g, j)
    BY <1>4, Zenon
  <2>2. TranslatedFrom(t, f, g, i)
    BY <1>1, <1>2, <2>1, TranslatesItem
  <2> QED
    BY <2>2
<1>5. 1..N \subseteq T
  <2> HIDE DEF T, N
  <2> QED
    BY <1>3, <1>4, FromTheEnd
<1>6. TranslatedFrom(t, f, g, 1)
  <2>1. 1 \in T
    <3> HIDE DEF T, N
    <3> QED
      BY <1>3, <1>5
  <2> QED
    BY <2>1
<1> QED
  BY <1>1, <1>2, <1>6, Zenon DEF TranslatedFrom

LEMMA TranslatedIs ==
  ASSUME NEW t \in Seq(Marks)
  PROVE  /\ Translated(t) = Rest(t, Items(t))
         /\ HasOutOfRange(t, Items(t)) <=> {i \in EscapeItems(t) : TooLarge(t, i + 1)} # {}
<1>1. PICK g : IsItems(t, g) /\ Items(t) = g[1]
  BY Itemizing
<1>2. EscapeItems(t) = {i \in Range(Items(t)) : EscapeAt(t, i)}
  BY Zenon DEF EscapeItems, EscapeAt
<1>3. ASSUME NEW i \in Range(Items(t)) PROVE TranslatedItem(t, i) = ItemText(t, i)
  BY <1>2, Zenon DEF TranslatedItem, ItemText
<1>4. \A k \in DOMAIN Items(t) : Items(t)[k] \in Range(Items(t))
  BY Zenon DEF Range
<1>5. [k \in DOMAIN Items(t) |-> TranslatedItem(t, Items(t)[k])] = ItemTexts(t, Items(t))
  BY <1>3, <1>4, Zenon DEF ItemTexts
<1>6. Translated(t) = Rest(t, Items(t))
  BY <1>5, Zenon DEF Translated, Rest
<1>7. HasOutOfRange(t, Items(t)) <=> {i \in EscapeItems(t) : TooLarge(t, i + 1)} # {}
  BY <1>2, Zenon DEF HasOutOfRange, OutOfRangeAt
<1> QED
  BY <1>6, <1>7

\* v is made of characters that escape leaves alone and of characters it escapes,
\* each after its backslash; B has the places where they start.
IsEscaped(v, B) ==
  /\ 1 \in B /\ B \subseteq 1..Len(v) + 1
  /\ \A i \in B : i <= Len(v) =>
       \/ v[i] \notin Special /\ i + 1 \in B
       \/ v[i] = Slash /\ i + 1 <= Len(v) /\ v[i + 1] \in Special /\ i + 2 \in B

LEMMA SpecialHas ==
  /\ Slash \in Special /\ "(" \in Special /\ "?" \in Special
  /\ "?" # Slash /\ "u" \notin Special /\ "U" \notin Special
BY DEF Special, Slash

\* Nothing is escaped twice: the translation finds no escape and no comment in it.
LEMMA EscapedStays ==
  ASSUME NEW v \in Seq(Marks), NEW B, IsEscaped(v, B)
  PROVE  module_translate_unicode_escapes(v) = v
<1> DEFINE n == Len(v)
<1>0. n \in Nat /\ n + 1 \in Nat /\ 1 \in 1..n + 1
  OBVIOUS
<1>1. PICK f : IsTranslation(v, f) /\ module_translate_unicode_escapes(v) = f[1]
  BY Translating
<1> DEFINE Stays(i) == ~Refuses(v, i) /\ f[i] = SubSeq(v, i, n)
           T == {i \in 1..n + 1 : i \in B => Stays(i)}
<1>2. ASSUME NEW i \in 1..n + 1, \A j \in i + 1..n + 1 : j \in T, i \in B PROVE Stays(i)
  <2>1. CASE i > n
    <3>1. f[i] = <<>>
      BY <1>1, <2>1, Zenon DEF IsTranslation, TranslationAt
    <3>2. i \in Int /\ n \in Int /\ n < i /\ ~ (i <= n)
      BY <1>0, <2>1
    <3>3. SubSeq(v, i, n) = <<>>
      BY <3>2, SubSeqEmpty
    <3> QED
      BY <3>1, <3>2, <3>3, Zenon DEF Refuses
  <2>2. CASE ~ (i > n)
    <3>1. i \in 1..n /\ i <= n
      BY <1>0, <2>2
    <3>2. CASE v[i] \notin Special /\ i + 1 \in B
      <4>1. v[i] # Slash
        BY <3>2, SpecialHas, Zenon
      <4>2. ~CommentAt(v, i)
        BY <3>1, <3>2, CommentIs, SpecialHas
      <4>3. Continues(v, f, i)
        BY <1>1, <3>1, <4>1, PlainStep
      <4>4. ItemEnd(v, i) = i /\ ItemText(v, i) = SubSeq(v, i, i)
        BY <4>1, <4>2, Zenon DEF ItemEnd, ItemText, EscapeAt
      <4>5. i + 1 \in T
        <5>1. i + 1 \in i + 1..n + 1
          BY <1>0, <3>1
        <5> QED
          BY <1>2, <5>1, Zenon
      <4>6. f[i + 1] = SubSeq(v, i + 1, n)
        BY <3>2, <4>5, Zenon
      <4>7. SubSeq(v, i, n) = <<v[i]>> \o SubSeq(v, i + 1, n)
        <5>1. n \in i..n
          BY <1>0, <3>1
        <5> QED
          BY <3>1, <5>1, SubSeqRecursiveFirst
      <4>8. SubSeq(v, i, i) = <<v[i]>>
        BY <3>1, PartOne
      <4> QED
        BY <4>3, <4>4, <4>6, <4>7, <4>8, Zenon DEF Continues
    <3>3. CASE v[i] = Slash /\ i + 1 <= n /\ v[i + 1] \in Special /\ i + 2 \in B
      <4>1. i + 1 \in 1..n /\ i < n /\ (i + 1) + 1 = i + 2 /\ i + 2 \in i + 1..n + 1 /\ n \in i + 1..n
        BY <1>0, <3>1, <3>3
      <4>2. ~CommentAt(v, i)
        BY <3>1, <3>3, CommentIs
      <4>3. ~EscapeAt(v, i)
        <5>1. v[i + 1] \notin {"u", "U"}
          BY <3>3, SpecialHas, Zenon
        <5> QED
          BY <5>1, Zenon DEF EscapeAt, UnicodeAt
      <4>4. ~CommentAt(v, i + 1)
        <5> SUFFICES ASSUME CommentAt(v, i + 1) PROVE FALSE
          OBVIOUS
        <5>1. (i + 1) + 1 \in 1..n /\ v[(i + 1) + 1] = "?"
          BY <4>1, CommentIs
        <5>2. i + 2 <= n /\ v[i + 2] = "?"
          BY <4>1, <5>1
        <5>3. v[i + 2] \notin Special \/ v[i + 2] = Slash
          BY <3>3, <5>2, Zenon DEF IsEscaped
        <5> QED
          BY <5>2, <5>3, SpecialHas, Zenon
      <4>5. Continues(v, f, i) \/ GivesUp(v, f, i)
        BY <1>1, <3>1, <3>3, <4>1, <4>3, <4>4, PairStep
      <4>6. ItemEnd(v, i) = i + 1 /\ ItemText(v, i) = SubSeq(v, i, i + 1)
        BY <3>3, <4>1, <4>2, <4>3, Zenon DEF ItemEnd, ItemText, EscapeAt
      <4>7. Stays(i + 2)
        <5>1. i + 2 \in T
          BY <1>2, <4>1, Zenon
        <5> QED
          BY <3>3, <5>1, Zenon
      <4>8. SubSeq(v, i, n) = SubSeq(v, i, i + 1) \o SubSeq(v, i + 2, n)
        BY <3>1, <4>1, PartTwo
      <4>9. ~GivesUp(v, f, i)
        BY <4>1, <4>6, <4>7, Zenon DEF GivesUp
      <4> QED
        BY <4>1, <4>5, <4>6, <4>7, <4>8, <4>9, Zenon DEF Continues
    <3> QED
      BY <1>2, <3>1, <3>2, <3>3, Zenon DEF IsEscaped
  <2> QED
    BY <2>1, <2>2
<1>3. 1..n + 1 \subseteq T
  <2>1. ASSUME NEW i \in 1..n + 1, \A j \in i + 1..n + 1 : j \in T PROVE i \in T
    <3>1. i \in B => Stays(i)
      <4> HIDE DEF Stays, T
      <4> QED
        BY <1>2, <2>1
    <3> QED
      BY <3>1
  <2> HIDE DEF T, n
  <2> QED
    BY <1>0, <2>1, FromTheEnd
<1>4. Stays(1)
  <2>1. 1 \in T
    <3> HIDE DEF T
    <3> QED
      BY <1>0, <1>3
  <2>2. 1 \in B
    BY Zenon DEF IsEscaped
  <2> QED
    BY <2>1, <2>2, Zenon
<1>5. SubSeq(v, 1, n) = v
  BY SubSeqFull
<1> QED
  BY <1>1, <1>4, <1>5, Zenon

\* A character, after its backslash if escape gives it one.
EscapeUnits(t) == [i \in DOMAIN t |-> IF t[i] \in Special THEN <<Slash, t[i]>> ELSE <<t[i]>>]

LEMMA EscapedIs ==
  ASSUME NEW t \in Seq(Marks)
  PROVE  module_escape(t) \in Seq(Marks) /\ \E B : IsEscaped(module_escape(t), B)
<1> DEFINE n == Len(t)
           us == EscapeUnits(t)
           V == Seq(Marks)
           v == module_escape(t)
<1>0. n \in Nat /\ DOMAIN t = 1..n /\ \A k \in 1..n : t[k] \in Marks
  OBVIOUS
<1>1. v = FlattenSeq(us)
  BY Zenon DEF module_escape, EscapeUnits
<1>2. us = [k \in 1..n |-> IF t[k] \in Special THEN <<Slash, t[k]>> ELSE <<t[k]>>]
  BY <1>0, Zenon DEF EscapeUnits
<1>3. ASSUME NEW k \in 1..n
      PROVE  /\ us[k] \in V
             /\ \/ t[k] \notin Special /\ Len(us[k]) = 1 /\ us[k][1] = t[k]
                \/ t[k] \in Special /\ Len(us[k]) = 2 /\ us[k][1] = Slash /\ us[k][2] = t[k]
  <2>1. t[k] \in Marks /\ Slash \in Marks
    BY <1>0, MarksHave
  <2>2. CASE t[k] \in Special
    <3>1. us[k] = <<Slash, t[k]>>
      BY <1>2, <2>2
    <3> HIDE DEF us
    <3> QED
      BY <2>1, <2>2, <3>1
  <2>3. CASE t[k] \notin Special
    <3>1. us[k] = <<t[k]>>
      BY <1>2, <2>3
    <3> HIDE DEF us
    <3> QED
      BY <2>1, <2>3, <3>1
  <2> QED
    BY <2>2, <2>3
<1>4. us \in Seq(V) /\ Len(us) = n
  <2>1. us = [k \in 1..n |-> us[k]]
    BY <1>2
  <2> HIDE DEF us, V
  <2> QED
    BY <1>0, <1>3, <2>1
<1> HIDE DEF us, v
<1>5. PICK f \in [0..Len(us) -> V] : IsFlat(us, f) /\ FlattenSeq(us) = f[Len(us)]
  BY <1>4, Flat
<1> DEFINE B == {Len(f[k]) + 1 : k \in 0..n}
<1>6. v = f[n] /\ f[0] = <<>>
  BY <1>1, <1>4, <1>5, Zenon DEF IsFlat
<1>7. f \in [0..n -> V] /\ \A k \in 0..n : f[k] \in V /\ Len(f[k]) \in Nat
  <2>1. f \in [0..n -> V]
    BY <1>4, <1>5
  <2>2. \A u \in V : Len(u) \in Nat
    OBVIOUS
  <2> HIDE DEF V
  <2> QED
    BY <2>1, <2>2
<1>8. v \in V /\ Len(v) \in Nat
  <2>1. n \in 0..n
    BY ONLY <1>0
  <2> QED
    BY <1>6, <1>7, <2>1, Zenon
<1>9. ASSUME NEW k \in 1..n
      PROVE  /\ Stretch(v, Len(f[k - 1]) + 1, us[k])
             /\ Len(f[k]) = Len(f[k - 1]) + Len(us[k])
  <2>1. k \in 1..Len(us)
    BY <1>4
  <2>2. /\ Stretch(f[Len(us)], Len(f[k - 1]) + 1, us[k])
        /\ Len(f[k]) = Len(f[k - 1]) + Len(us[k])
    BY <1>4, <1>5, <2>1, FlatStretch
  <2> QED
    BY <1>4, <1>6, <2>2, Zenon
<1> HIDE DEF V
<1>10. 1 \in B
  <2>1. Len(f[0]) + 1 = 1 /\ 0 \in 0..n
    BY <1>0, <1>6
  <2> QED
    BY <2>1, Zenon
<1>11. ASSUME NEW k \in 0..n - 1
       PROVE  /\ Len(f[k]) + 1 \in 1..Len(v) + 1
              /\ \/ v[Len(f[k]) + 1] \notin Special /\ (Len(f[k]) + 1) + 1 \in B
                 \/ /\ v[Len(f[k]) + 1] = Slash /\ (Len(f[k]) + 1) + 1 <= Len(v)
                    /\ v[(Len(f[k]) + 1) + 1] \in Special /\ (Len(f[k]) + 1) + 2 \in B
  <2> DEFINE i == Len(f[k]) + 1
             q == k + 1
             u == us[q]
  <2>1. q \in 1..n /\ q \in 0..n /\ q - 1 = k /\ k \in 0..n
    BY <1>0
  <2>2. Stretch(v, i, u) /\ Len(f[q]) = Len(f[k]) + Len(u)
    BY <1>9, <2>1, Zenon
  <2>3. i + Len(u) - 1 <= Len(v) /\ \A z \in 1..Len(u) : v[(i - 1) + z] = u[z]
    BY <2>2, Zenon DEF Stretch
  <2>4. Len(f[q]) + 1 \in B
    BY <2>1
  <2>5. /\ u \in V
        /\ \/ t[q] \notin Special /\ Len(u) = 1 /\ u[1] = t[q]
           \/ t[q] \in Special /\ Len(u) = 2 /\ u[1] = Slash /\ u[2] = t[q]
    BY <1>3, <2>1
  <2>6. i \in Nat \ {0} /\ i = Len(f[k]) + 1 /\ Len(f[k]) \in Nat
    BY <1>7, <2>1
  <2> HIDE DEF i, q, u, B
  <2>7. CASE t[q] \notin Special /\ Len(u) = 1 /\ u[1] = t[q]
    <3>1. i <= Len(v) /\ (i - 1) + 1 = i /\ 1 \in 1..Len(u) /\ Len(f[q]) + 1 = i + 1
      BY <1>8, <2>2, <2>3, <2>6, <2>7
    <3>2. v[i] = t[q] /\ i + 1 \in B
      BY <2>3, <2>4, <2>7, <3>1, Zenon
    <3>3. i \in 1..Len(v) + 1
      BY <1>8, <2>6, <3>1
    <3> QED
      BY <2>7, <3>2, <3>3, Zenon DEF i
  <2>8. CASE t[q] \in Special /\ Len(u) = 2 /\ u[1] = Slash /\ u[2] = t[q]
    <3>1. /\ i + 1 <= Len(v) /\ (i - 1) + 1 = i /\ (i - 1) + 2 = i + 1
          /\ 1 \in 1..Len(u) /\ 2 \in 1..Len(u) /\ Len(f[q]) + 1 = i + 2
      BY <1>8, <2>2, <2>3, <2>6, <2>8
    <3>2. v[i] = Slash /\ v[i + 1] = t[q] /\ i + 2 \in B
      BY <2>3, <2>4, <2>8, <3>1, Zenon
    <3>3. i \in 1..Len(v) + 1
      BY <1>8, <2>6, <3>1
    <3>4. v[i + 1] \in Special
      BY <2>8, <3>2, Zenon
    <3> QED
      BY <3>1, <3>2, <3>3, <3>4, Zenon DEF i
  <2> QED
    BY <2>5, <2>7, <2>8, Zenon
<1>12. ASSUME NEW i \in B
       PROVE  /\ i \in 1..Len(v) + 1
              /\ i <= Len(v) =>
                   \/ v[i] \notin Special /\ i + 1 \in B
                   \/ v[i] = Slash /\ i + 1 <= Len(v) /\ v[i + 1] \in Special /\ i + 2 \in B
  <2>1. PICK k \in 0..n : i = Len(f[k]) + 1
    OBVIOUS
  <2> HIDE DEF B
  <2>2. CASE k = n
    <3>1. i = Len(v) + 1
      BY <1>6, <2>1, <2>2, Zenon
    <3>2. i \in 1..Len(v) + 1 /\ ~ (i <= Len(v))
      BY <1>8, <3>1
    <3> QED
      BY <3>2
  <2>3. CASE k # n
    <3> HIDE DEF n
    <3>1. k \in 0..n - 1
      BY ONLY <1>0, <2>3, k \in 0..n
    <3> QED
      BY <1>11, <2>1, <3>1, Zenon
  <2> QED
    BY <2>2, <2>3
<1>13. IsEscaped(v, B)
  <2> HIDE DEF B
  <2>1. B \subseteq 1..Len(v) + 1
    BY <1>12
  <2> QED
    BY <1>10, <1>12, <2>1, Zenon DEF IsEscaped
<1> QED
  BY <1>8, <1>13 DEF v, V

\* The translation of \u and \U finds every escape that a parser of the pattern
\* meets and nothing else, refuses what is out of range, and leaves alone what
\* escape has made (module_translate_unicode_escapes, string_helpers.c:457).
THEOREM TranslatesTheEscapes == TextsSpec => []EscapesTranslated
<1>1. TextsTypeInv => EscapesTranslated
  <2> SUFFICES ASSUME TextsTypeInv
               PROVE  LET outOfRange == {i \in EscapeItems(text) : TooLarge(text, i + 1)}
                          result == module_translate_unicode_escapes(text)
                      IN /\ (\A i \in 2..Len(text) : CommentAt(text, i) => text[i - 1] # Slash) =>
                              IF outOfRange # {} THEN result[Len(result)] = "error" ELSE result = Translated(text)
                         /\ module_translate_unicode_escapes(module_escape(text)) = module_escape(text)
    BY Zenon DEF EscapesTranslated
  <2> DEFINE t == text
             result == module_translate_unicode_escapes(t)
             outOfRange == {i \in EscapeItems(t) : TooLarge(t, i + 1)}
  <2>1. t \in Seq(Marks)
    <3>1. t \in Seq(Alphabet)
      BY StringsAreTexts DEF TextsTypeInv
    <3> QED
      BY <3>1, SeqMonotonic DEF Marks
  <2>2. ASSUME NoEscapedComment(t)
        PROVE  IF outOfRange # {} THEN result[Len(result)] = "error" ELSE result = Translated(t)
    <3>1. IF HasOutOfRange(t, Items(t)) THEN EndsInError(result) ELSE result = Rest(t, Items(t))
      BY <2>1, <2>2, TranslatesItems
    <3>2. Translated(t) = Rest(t, Items(t)) /\ (HasOutOfRange(t, Items(t)) <=> outOfRange # {})
      BY <2>1, TranslatedIs
    <3> QED
      BY <3>1, <3>2, Zenon DEF EndsInError
  <2>3. module_translate_unicode_escapes(module_escape(t)) = module_escape(t)
    <3> DEFINE v == module_escape(t)
    <3>1. PICK B : v \in Seq(Marks) /\ IsEscaped(v, B)
      BY <2>1, EscapedIs
    <3> HIDE DEF v
    <3>2. module_translate_unicode_escapes(v) = v
      BY <3>1, EscapedStays
    <3> QED
      BY <3>2 DEF v
  <2> QED
    BY <2>2, <2>3, Zenon DEF NoEscapedComment
<1> QED
  BY <1>1, TextsAreTexts, PTL
================================================================================
