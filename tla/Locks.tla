--------------------------------- MODULE Locks --------------------------------
(* The locks a call into the extension takes: the interpreter lock it comes    *)
(* with, the lock of the iterator it advances, and jit_serial_lock, which      *)
(* covers every look at a JIT flag and every run of JIT code where             *)
(* PYPCRE_FORCE_JIT_LOCK is set.                                               *)
(*                                                                             *)
(* None of them is reentrant.  A thread that waits for the interpreter lock    *)
(* holds none of the others but that of the iterator.  PyMutex, the            *)
(* iterator's lock from Python 3.13 on, gives up the interpreter lock to wait  *)
(* as the code for older versions does itself.                                 *)
EXTENDS Naturals

CONSTANTS Threads, NoThread,
          MaxCalls             \* bound on the calls made in all

ASSUME LocksAssumption == NoThread \notin Threads /\ MaxCalls \in Nat

VARIABLES interpreter,   \* the thread with the interpreter lock
          iterator,      \* the thread with FindIterObject.lock
          guard,         \* the thread with jit_serial_lock
          serial,        \* jit_serial_lock # NULL
          jit,           \* the pattern's jit_enabled
          pc, at,        \* of a thread: where it is, and what its call is
          calls          \* the calls made

lockVars == <<interpreter, iterator, guard, serial, jit, pc, at, calls>>

Kinds == {"execute", "next", "substitute"}
NoCall == [kind |-> "none", long |-> FALSE]

LocksInit ==
  /\ interpreter = NoThread /\ iterator = NoThread /\ guard = NoThread
  /\ serial \in BOOLEAN /\ jit \in BOOLEAN
  /\ pc = [t \in Threads |-> "outside"]
  /\ at = [t \in Threads |-> NoCall]
  /\ calls = 0

Goto(t, label) == pc' = [pc EXCEPT ![t] = label]

\* Mutant: jit_guard_acquire goes on where the lock is another thread's.
GuardTakenAnyway(t) == IF serial THEN guard' = t ELSE UNCHANGED guard

\* jit_guard_acquire: nothing to take where there is no lock.
GuardTaken(t) == IF serial THEN guard = NoThread /\ guard' = t ELSE UNCHANGED guard
GuardLeft(t)  == guard' = IF serial THEN NoThread ELSE guard

\* Back in Python, by PyEval_RestoreThread or in the turn of the thread.
TakeInterpreter(t, from, to) ==
  /\ pc[t] = from /\ interpreter = NoThread
  /\ interpreter' = t
  /\ Goto(t, to)

Resume(t) ==
  /\ \/ TakeInterpreter(t, "outside", "python")
     \/ TakeInterpreter(t, "iterator taken", "locked")
     \/ TakeInterpreter(t, "matched", "returned")
  /\ UNCHANGED <<iterator, guard, serial, jit, at, calls>>

\* A call begins; a subject is long or short of PCRE2_GIL_RELEASE_THRESHOLD.
Call(t) ==
  /\ pc[t] = "python" /\ calls < MaxCalls
  /\ \E kind \in Kinds, long \in BOOLEAN : at' = [at EXCEPT ![t] = [kind |-> kind, long |-> long]]
  /\ calls' = calls + 1
  /\ Goto(t, IF at'[t].kind = "next" THEN "advance" ELSE "locked")
  /\ UNCHANGED <<interpreter, iterator, guard, serial, jit>>

\* Mutant: it waits for the iterator with the interpreter lock in hand.
WaitInside(t) ==
  /\ pc[t] = "advance" /\ iterator # NoThread
  /\ Goto(t, "wait")
  /\ UNCHANGED <<interpreter, iterator, guard, serial, jit, at, calls>>

\* Py_BEGIN_ALLOW_THREADS, where the lock is not to be had at once.
Wait(t) ==
  /\ pc[t] = "advance" /\ iterator # NoThread
  /\ interpreter' = NoThread
  /\ Goto(t, "wait")
  /\ UNCHANGED <<iterator, guard, serial, jit, at, calls>>

TakeIterator(t) ==
  /\ iterator = NoThread
  /\ \/ pc[t] = "advance" /\ Goto(t, "locked")
     \/ pc[t] = "wait"    /\ Goto(t, "iterator taken")
  /\ iterator' = t
  /\ UNCHANGED <<interpreter, guard, serial, jit, at, calls>>

\* pattern_jit_get, under the guard.
ReadFlag(t) ==
  /\ pc[t] = "locked"
  /\ GuardTaken(t)
  /\ Goto(t, "reading")
  /\ UNCHANGED <<interpreter, iterator, serial, jit, at, calls>>

\* What runs next, of what the flag says.  A substitution keeps the interpreter,
\* and looks for JIT code itself where the flag has been taken back.
FlagRead(t) ==
  /\ pc[t] = "reading"
  /\ GuardLeft(t)
  /\ IF at[t].long /\ at[t].kind # "substitute"
     THEN Goto(t, IF jit THEN "detach for jit" ELSE "detach")
     ELSE \E jitCode \in IF at[t].kind = "substitute" THEN {TRUE, jit} ELSE {jit} :
            Goto(t, IF jitCode THEN "jit attached" ELSE "interpret attached")
  /\ UNCHANGED <<interpreter, iterator, serial, jit, at, calls>>

\* PyEval_SaveThread, around a match of a long subject.
Detach(t) ==
  /\ \/ pc[t] = "detach for jit" /\ Goto(t, "jit detached")
     \/ pc[t] = "detach"         /\ Goto(t, "matched")
  /\ interpreter' = NoThread
  /\ UNCHANGED <<iterator, guard, serial, jit, at, calls>>

JitCall(t) ==
  /\ GuardTaken(t)
  /\ \/ pc[t] = "jit detached" /\ Goto(t, "running detached")
     \/ pc[t] = "jit attached" /\ Goto(t, "running")
  /\ UNCHANGED <<interpreter, iterator, serial, jit, at, calls>>

\* Mutant: the interpreter lock is awaited before the guard is left.
RestoreUnderGuard(t) ==
  /\ pc[t] \in {"running", "running detached"}
  /\ pc[t] = "running detached" => interpreter = NoThread
  /\ interpreter' = t
  /\ GuardLeft(t)
  /\ Goto(t, "returned")
  /\ UNCHANGED <<iterator, serial, jit, at, calls>>

\* The guard is left before the interpreter lock is awaited again.
JitReturns(t) ==
  /\ \/ pc[t] = "running detached" /\ Goto(t, "matched")
     \/ pc[t] = "running"          /\ Goto(t, "returned")
  /\ GuardLeft(t)
  /\ UNCHANGED <<interpreter, iterator, serial, jit, at, calls>>

\* pcre2_match on a short subject, and pcre2_substitute of code without JIT.
Interpret(t) ==
  /\ pc[t] = "interpret attached"
  /\ Goto(t, "returned")
  /\ UNCHANGED <<interpreter, iterator, guard, serial, jit, at, calls>>

\* PCRE2_ERROR_JIT_BADOPTION: pattern_jit_set, under the guard, and once more
\* with the interpreter.  A substitution goes on with what PCRE2 falls back to.
BadOption(t) ==
  /\ pc[t] = "returned" /\ jit /\ at[t].kind # "substitute"
  /\ GuardTaken(t)
  /\ Goto(t, "clearing")
  /\ UNCHANGED <<interpreter, iterator, serial, jit, at, calls>>

FlagCleared(t) ==
  /\ pc[t] = "clearing"
  /\ jit' = FALSE
  /\ GuardLeft(t)
  /\ Goto(t, IF at[t].long THEN "detach" ELSE "interpret attached")
  /\ UNCHANGED <<interpreter, iterator, serial, at, calls>>

\* The call returns; the thread goes on, or another one gets its turn.
Return(t) ==
  /\ pc[t] = "returned"
  /\ iterator' = IF at[t].kind = "next" THEN NoThread ELSE iterator
  /\ \/ interpreter' = t /\ Goto(t, "python")
     \/ interpreter' = NoThread /\ Goto(t, "outside")
  /\ at' = [at EXCEPT ![t] = NoCall]
  /\ UNCHANGED <<guard, serial, jit, calls>>

End(t) ==
  /\ pc[t] = "python"
  /\ interpreter' = NoThread
  /\ Goto(t, "done")
  /\ UNCHANGED <<iterator, guard, serial, jit, at, calls>>

Step(t) ==
  \/ Resume(t) \/ Call(t) \/ Wait(t) \/ TakeIterator(t) \/ ReadFlag(t) \/ FlagRead(t)
  \/ Detach(t) \/ JitCall(t) \/ JitReturns(t) \/ Interpret(t) \/ BadOption(t)
  \/ FlagCleared(t) \/ Return(t) \/ End(t)

LocksNext == \E t \in Threads : Step(t)

LocksSpec == LocksInit /\ [][LocksNext]_lockVars

\* A thread that can go on does so in the end; no lock is fair to those waiting.
LocksFairness == \A t \in Threads : WF_lockVars(Step(t))

-----------------------------------------------------------------------------

\* Where a thread has the interpreter, advances the iterator, or is between
\* jit_guard_acquire and jit_guard_release.
Attached == {"python", "advance", "locked", "reading", "detach", "detach for jit", "jit attached",
             "interpret attached", "running", "returned", "clearing"}
Advancing == {"iterator taken", "locked", "reading", "detach", "detach for jit", "jit attached",
              "jit detached", "interpret attached", "running", "running detached", "matched",
              "returned", "clearing"}
Guarded == {"reading", "running", "running detached", "clearing"}

Advances(t) == at[t].kind = "next" /\ pc[t] \in Advancing

\* No two threads are in the interpreter at once, none advances an iterator that
\* another advances, and with PYPCRE_FORCE_JIT_LOCK no thread looks at a JIT flag,
\* changes it or runs JIT code while another does, the interpreter given up in
\* between or not (jit_guard_acquire, jit_support.c:60;
\* PCRE2_JIT_CALL_MAYBE_RELEASE_GIL, pcre2.c:107; FindIter_iternext, pcre2.c:2621).
SectionsAreExclusive ==
  \A s, t \in Threads : s # t =>
    /\ ~ (pc[s] \in Attached /\ pc[t] \in Attached)
    /\ ~ (Advances(s) /\ Advances(t))
    /\ serial => ~ (pc[s] \in Guarded /\ pc[t] \in Guarded)

\* A thread stands still only over a lock it waits for.
CanGoOn(t) ==
  /\ pc[t] # "done"
  /\ pc[t] \in {"outside", "iterator taken", "matched"} => interpreter = NoThread
  /\ pc[t] = "wait" => iterator = NoThread
  /\ pc[t] \in {"locked", "jit attached", "jit detached"} => ~serial \/ guard = NoThread

\* As long as a thread has not ended one can go on: the waits for the interpreter,
\* the iterator and the guard never close a circle, since the guard is left before
\* the interpreter is awaited and the interpreter before the iterator is
\* (jit_guard_release, pcre2.c:107; FindIter_iternext, pcre2.c:2621).
SomeThreadCanGoOn == (\E t \in Threads : pc[t] # "done") => \E t \in Threads : CanGoOn(t)

\* Every call comes back and every thread ends, in whichever order the threads
\* take the interpreter, the iterator and the guard: no thread holds one of
\* them over a wait for another that is only left with its help
\* (jit_guard_acquire, jit_support.c:60; PCRE2_JIT_CALL_MAYBE_RELEASE_GIL,
\* pcre2.c:107; FindIter_iternext, pcre2.c:2621).
ThreadsEnd == <>(\A t \in Threads : pc[t] = "done")
==============================================================================
