---------------------------- MODULE MatchResources ----------------------------
(* The match data, match contexts and JIT stacks that calls into PCRE2 borrow  *)
(* from the caches of pcre_ext/cache.c: Pattern_execute, findall, split and    *)
(* substitute hold them for the length of a call, a finditer object from its   *)
(* creation to its deallocation, which may happen on another thread.           *)
(*                                                                             *)
(* Objects are numbers; the lowest free number is the next one allocated.  The *)
(* slot of a cache is read and written under the lock (global strategy) or by  *)
(* its own thread, with no Python code in between, so an acquire and a release *)
(* are one step each.  A thread is in a stack of calls: Python code that runs  *)
(* in the middle of one (finalizers, subclasses) makes nested calls.           *)
EXTENDS Naturals, FiniteSets

CONSTANTS
  Threads,
  Shared,          \* the home of the slots under the global strategy
  Strategies,      \* the strategies to start with: "thread-local", "global"
  ContextCache,    \* the values of context_cache_enabled to start with
  Iters,           \* finditer objects
  Kinds,           \* the calls made: a subset of AllKinds
  MaxPairs,        \* ovector pairs a pattern needs, at most
  MaxObjects,      \* bounds of the model: objects of a kind alive at once,
  Depth            \* calls of a thread at once

AllKinds == {"execute", "scan", "substitute", "finditer"}

ASSUME ResourceAssumption ==
  /\ Kinds \subseteq AllKinds
  /\ Shared \notin Threads
  /\ Strategies \subseteq {"thread-local", "global"} /\ ContextCache \subseteq BOOLEAN
  /\ MaxPairs \in Nat \ {0} /\ MaxObjects \in Nat \ {0} /\ Depth \in Nat \ {0}

\* A pattern is known by the ovector pairs it needs, its capture_count + 1.
Patterns == 1..MaxPairs
Objects == 1..MaxObjects
Null == 0
Handle == {Null} \cup Objects

Homes == Threads \cup {Shared}
Slots == {"plain", "offset"}

VARIABLES
  config,      \* cache_strategy and context_cache_enabled, set once by module_exec
  pairs,       \* ovector pairs of each match data, 0 when it is not allocated
  stacks,      \* JIT stacks allocated
  contexts,    \* match contexts allocated
  assigned,    \* the JIT stack assigned to each context
  dirty,       \* contexts with an offset limit or a callout set
  jitOn,       \* the jit_enabled flag of each pattern
  state,       \* threads that have a ThreadCacheState
  matchSlot, matchCap, \* match_cached and match_capacity of each home
  jitSlot, jitCap,     \* jit_cached and jit_capacity
  ctxSlot,     \* match_context and offset_match_context of each thread
  depth,       \* how many calls each thread is in
  call,        \* the calls of each thread, innermost last
  iter         \* the finditer objects

objects == <<pairs, stacks, contexts, assigned, dirty>>
caches == <<state, matchSlot, matchCap, jitSlot, jitCap, ctxSlot>>
vars == <<config, objects, caches, jitOn, depth, call, iter>>

Global == config.strategy = "global"
Home(t) == IF Global THEN Shared ELSE t

Activations == Threads \X (1..Depth)

Phases == {"context", "stack", "run", "result", "stack out", "context out", "data out"}

\* jit: attempt_jit; limit: an offset limit is set on the context; callout: so is
\* the callout that counts substitutions.
Calls == [kind : AllKinds, pc : Phases, pattern : Patterns, jit : BOOLEAN, limit : BOOLEAN,
          callout : BOOLEAN, data : Handle, ctx : Handle, stack : Handle]

NoCall == [kind |-> "execute", pc |-> "context", pattern |-> 1, jit |-> FALSE,
           limit |-> FALSE, callout |-> FALSE, data |-> Null, ctx |-> Null, stack |-> Null]

NoIter == [pattern |-> 1, data |-> Null, ctx |-> Null, stack |-> Null]
IterRecord == [pattern : Patterns, data : Handle, ctx : Handle, stack : Handle]

Configs == [strategy : Strategies, contextCache : ContextCache]

TypeOK ==
  /\ config \in Configs
  /\ pairs \in [Objects -> 0..MaxPairs]
  /\ stacks \subseteq Objects /\ contexts \subseteq Objects
  /\ assigned \in [Objects -> Handle]
  /\ dirty \subseteq Objects
  /\ jitOn \in [Patterns -> BOOLEAN]
  /\ state \subseteq Threads
  /\ matchSlot \in [Homes -> Handle] /\ matchCap \in [Homes -> 0..1]
  /\ jitSlot \in [Homes -> Handle] /\ jitCap \in [Homes -> 0..1]
  /\ ctxSlot \in [Threads -> [Slots -> Handle]]
  /\ depth \in [Threads -> 0..Depth]
  /\ call \in [Activations -> Calls]
  /\ iter \in [Iters -> IterRecord]

NoContexts == [k \in Slots |-> Null]

Init ==
  /\ config \in Configs
  /\ pairs = [d \in Objects |-> 0] /\ stacks = {} /\ contexts = {}
  /\ assigned = [c \in Objects |-> Null] /\ dirty = {}
  /\ jitOn \in [Patterns -> BOOLEAN]
  /\ state = {}
  /\ matchSlot = [h \in Homes |-> Null] /\ matchCap = [h \in Homes |-> 1]
  /\ jitSlot = [h \in Homes |-> Null] /\ jitCap = [h \in Homes |-> 1]
  /\ ctxSlot = [t \in Threads |-> NoContexts]
  /\ depth = [t \in Threads |-> 0]
  /\ call = [a \in Activations |-> NoCall]
  /\ iter = [i \in Iters |-> NoIter]
-----------------------------------------------------------------------------
(* The allocator.                                                              *)

LowestOutside(used) == CHOOSE o \in Objects \ used : \A u \in Objects \ used : o <= u

Allocated(sizes) == {d \in Objects : sizes[d] # 0}

-----------------------------------------------------------------------------
(* The caches.  Each operator is one acquire or release of pcre_ext/cache.c by  *)
(* thread t; o is the object it hands out or takes back.                        *)

\* thread_cache_state_get_or_create, where the strategy needs the thread's state
EnsureState(t) == state' = IF Global THEN state ELSE state \cup {t}

\* thread_cache_state_get
HasSlots(t) == Global \/ t \in state

Cached(t) == IF matchCap[Home(t)] = 0 THEN Null ELSE matchSlot[Home(t)]

\* Mutant: the cached match data is handed out whatever its size.
FitsAny(d, p) == d # Null

Fits(d, p) == d # Null /\ pairs[d] >= p

\* match_data_cache_acquire: the cached match data if it has enough pairs; one
\* that is too small is freed and a new one created.
AcquireData(t, p, o) ==
  LET d == Cached(t)
      kept == IF d = Null THEN pairs ELSE [pairs EXCEPT ![d] = 0]
  IN  /\ EnsureState(t)
      /\ matchSlot' = [matchSlot EXCEPT ![Home(t)] = IF d = Null THEN @ ELSE Null]
      /\ \/ Fits(d, p) /\ o = d /\ UNCHANGED pairs
         \/ /\ ~Fits(d, p)
            /\ Allocated(kept) # Objects /\ o = LowestOutside(Allocated(kept))
            /\ pairs' = [kept EXCEPT ![o] = p]

\* Mutant: match data is put back into a cache of size 0.
KeepsDataAnyCap(t) == HasSlots(t) /\ matchSlot[Home(t)] = Null

KeepsData(t) == HasSlots(t) /\ matchCap[Home(t)] # 0 /\ matchSlot[Home(t)] = Null

\* match_data_cache_release: into an empty slot of a cache in use, or freed.
ReleaseData(t, o) ==
  IF o # Null /\ KeepsData(t)
  THEN matchSlot' = [matchSlot EXCEPT ![Home(t)] = o] /\ UNCHANGED pairs
  ELSE pairs' = (IF o = Null THEN pairs ELSE [pairs EXCEPT ![o] = 0]) /\ UNCHANGED matchSlot

\* Mutant: the stack stays in the slot it is handed out from.
AcquireStackResident(t, o) ==
  /\ EnsureState(t)
  /\ IF jitCap[Home(t)] # 0 /\ jitSlot[Home(t)] # Null
     THEN o = jitSlot[Home(t)] /\ UNCHANGED <<jitSlot, stacks>>
     ELSE /\ stacks # Objects /\ o = LowestOutside(stacks)
          /\ stacks' = stacks \cup {o} /\ UNCHANGED jitSlot

\* jit_stack_cache_acquire
AcquireStack(t, o) ==
  /\ EnsureState(t)
  /\ IF jitCap[Home(t)] # 0 /\ jitSlot[Home(t)] # Null
     THEN o = jitSlot[Home(t)] /\ jitSlot' = [jitSlot EXCEPT ![Home(t)] = Null] /\ UNCHANGED stacks
     ELSE /\ stacks # Objects /\ o = LowestOutside(stacks)
          /\ stacks' = stacks \cup {o} /\ UNCHANGED jitSlot

KeepsStack(t) == HasSlots(t) /\ jitCap[Home(t)] # 0 /\ jitSlot[Home(t)] = Null

\* jit_stack_cache_release
ReleaseStack(t, o) ==
  IF o # Null /\ KeepsStack(t)
  THEN jitSlot' = [jitSlot EXCEPT ![Home(t)] = o] /\ UNCHANGED stacks
  ELSE stacks' = stacks \ {o} /\ UNCHANGED jitSlot

CreateContext(o) ==
  /\ contexts # Objects /\ o = LowestOutside(contexts)
  /\ contexts' = contexts \cup {o}

\* Mutant: the context stays in its slot.
AcquireContextResident(t, use_offset_limit, o) ==
  LET k == IF use_offset_limit THEN "offset" ELSE "plain"
  IN  IF ~config.contextCache
      THEN CreateContext(o) /\ UNCHANGED <<state, ctxSlot>>
      ELSE /\ state' = state \cup {t}
           /\ UNCHANGED ctxSlot
           /\ IF ctxSlot[t][k] # Null
              THEN o = ctxSlot[t][k] /\ UNCHANGED contexts
              ELSE CreateContext(o)

\* match_context_cache_acquire: detached from the slot for its use, or created.
AcquireContext(t, use_offset_limit, o) ==
  LET k == IF use_offset_limit THEN "offset" ELSE "plain"
  IN  IF ~config.contextCache
      THEN CreateContext(o) /\ UNCHANGED <<state, ctxSlot>>
      ELSE /\ state' = state \cup {t}
           /\ ctxSlot' = [ctxSlot EXCEPT ![t][k] = Null]
           /\ IF ctxSlot[t][k] # Null
              THEN o = ctxSlot[t][k] /\ UNCHANGED contexts
              ELSE CreateContext(o)

Cleaned(o, had_offset_limit) == IF had_offset_limit THEN dirty \ {o} ELSE dirty

\* match_context_cache_release: the stack is unassigned and the limit unset; then
\* into the preferred slot, the other one, or freed.
ReleaseContext(t, o, had_offset_limit) ==
  LET preferred == IF had_offset_limit THEN "offset" ELSE "plain"
      fallback == IF had_offset_limit THEN "plain" ELSE "offset"
      free == {k \in Slots : ctxSlot[t][k] = Null}
      k == IF preferred \in free THEN preferred ELSE fallback
  IN  /\ assigned' = [assigned EXCEPT ![o] = Null]
      /\ dirty' = Cleaned(o, had_offset_limit)
      /\ IF config.contextCache /\ t \in state /\ free # {}
         THEN ctxSlot' = [ctxSlot EXCEPT ![t][k] = o] /\ UNCHANGED contexts
         ELSE contexts' = contexts \ {o} /\ UNCHANGED ctxSlot

\* pcre2_match_context_free
FreeContext(o) ==
  /\ contexts' = contexts \ {o}
  /\ assigned' = IF o = Null THEN assigned ELSE [assigned EXCEPT ![o] = Null]
  /\ dirty' = dirty \ {o}

-----------------------------------------------------------------------------
(* The calls.                                                                  *)

Inner(t) == <<t, depth[t]>>
At(t, pc) == depth[t] > 0 /\ call[Inner(t)].pc = pc

\* Python code runs on t: between calls, where a scan builds its results or a match
\* object is made, and where a thread's first context makes its state.
RunsPython(t) ==
  \/ depth[t] = 0
  \/ At(t, "run") /\ call[Inner(t)].kind # "execute"
  \/ At(t, "result") /\ call[Inner(t)].kind = "execute"
  \/ At(t, "context") /\ Global /\ config.contextCache /\ t \notin state

MayCall(t) == RunsPython(t) /\ depth[t] < Depth

Enter(t, c) ==
  /\ depth' = [depth EXCEPT ![t] = @ + 1]
  /\ call' = [call EXCEPT ![<<t, depth[t] + 1>>] = c]

Update(t, c) == call' = [call EXCEPT ![Inner(t)] = c] /\ UNCHANGED depth

Leave(t) ==
  /\ depth' = [depth EXCEPT ![t] = @ - 1]
  /\ call' = [call EXCEPT ![Inner(t)] = NoCall]

\* The call takes its match data and reads the flag of the pattern.  An execute
\* over a part of a subject may have to do without JIT.
Begin(t, kind, p, limit, callout) ==
  /\ MayCall(t)
  /\ kind = "substitute" => ~limit
  /\ kind # "substitute" => ~callout
  /\ kind = "finditer" => \E i \in Iters : iter[i] = NoIter
  /\ \E o \in Objects, jit \in {jitOn[p]} \cup (IF kind = "execute" /\ limit THEN {FALSE} ELSE {}) :
       /\ AcquireData(t, p, o)
       /\ Enter(t, [NoCall EXCEPT !.kind = kind, !.pattern = p, !.jit = jit, !.limit = limit,
                                  !.callout = callout, !.data = o])
  /\ UNCHANGED <<config, stacks, contexts, assigned, dirty, matchCap, jitSlot, jitCap, ctxSlot, jitOn, iter>>

NeedsContext(c) == c.jit \/ c.limit \/ c.callout

\* The context, with the limit or the callout set on it; a finditer creates its own.
TakeContext(t) ==
  LET c == call[Inner(t)]
  IN  /\ At(t, "context")
      /\ \/ /\ ~NeedsContext(c)
            /\ Update(t, [c EXCEPT !.pc = "stack"])
            /\ UNCHANGED <<contexts, state, ctxSlot, dirty>>
         \/ /\ NeedsContext(c)
            /\ \E o \in Objects :
                 /\ IF c.kind = "finditer" THEN CreateContext(o) /\ UNCHANGED <<state, ctxSlot>>
                                           ELSE AcquireContext(t, c.limit, o)
                 /\ dirty' = IF c.limit \/ c.callout THEN dirty \cup {o} ELSE dirty
                 /\ Update(t, [c EXCEPT !.pc = "stack", !.ctx = o])
      /\ UNCHANGED <<config, pairs, stacks, assigned, matchSlot, matchCap, jitSlot, jitCap, jitOn, iter>>

\* Mutant: a substitution takes a stack because of what it read of the flag before
\* it waited for the context, and the others read it again.
WantsStackReread(c) == IF c.kind = "substitute" THEN c.jit ELSE jitOn[c.pattern]

\* Pattern_substitute reads the flag a second time.
WantsStack(c) == IF c.kind = "substitute" THEN jitOn[c.pattern] ELSE c.jit

Running(c) == [c EXCEPT !.pc = IF c.kind = "finditer" THEN "result" ELSE "run"]

\* The stack, assigned to the context.
TakeStack(t) ==
  LET c == call[Inner(t)]
  IN  /\ At(t, "stack")
      /\ \/ /\ ~WantsStack(c)
            /\ Update(t, Running(c))
            /\ UNCHANGED <<state, jitSlot, stacks, assigned>>
         \/ /\ WantsStack(c)
            /\ \E o \in Objects :
                 /\ AcquireStack(t, o)
                 /\ assigned' = IF c.ctx = Null THEN assigned ELSE [assigned EXCEPT ![c.ctx] = o]
                 /\ Update(t, [Running(c) EXCEPT !.stack = o])
      /\ UNCHANGED <<config, pairs, contexts, dirty, matchSlot, matchCap, jitCap, ctxSlot, jitOn, iter>>

\* An allocation fails: the call cleans up and raises MemoryError.
Fail(t) ==
  LET c == call[Inner(t)]
  IN  /\ \/ At(t, "context") /\ NeedsContext(c)
         \/ At(t, "stack") /\ WantsStack(c)
      /\ Update(t, [c EXCEPT !.pc = "stack out"])
      /\ UNCHANGED <<config, objects, caches, jitOn, iter>>

Unassign(c) == IF c = Null THEN assigned ELSE [assigned EXCEPT ![c] = Null]

\* Pattern_execute gives the stack back as soon as the JIT code has run; an option
\* the JIT code does not support turns JIT off for the pattern.
ExecuteRun(t) ==
  LET c == call[Inner(t)]
  IN  /\ At(t, "run") /\ c.kind = "execute"
      /\ assigned' = Unassign(c.ctx)
      /\ ReleaseStack(t, c.stack)
      /\ \/ UNCHANGED jitOn
         \/ c.jit /\ jitOn' = [jitOn EXCEPT ![c.pattern] = FALSE]
      /\ Update(t, [c EXCEPT !.pc = "result", !.stack = Null])
      /\ UNCHANGED <<config, pairs, contexts, dirty, state, matchSlot, matchCap, jitCap, ctxSlot, iter>>

\* The same option met by a scan, which goes on with the interpreter.
ScanBadOption(t) ==
  LET c == call[Inner(t)]
  IN  /\ At(t, "run") /\ c.kind = "scan" /\ c.jit
      /\ jitOn' = [jitOn EXCEPT ![c.pattern] = FALSE]
      /\ assigned' = Unassign(c.ctx)
      /\ ReleaseStack(t, c.stack)
      /\ Update(t, [c EXCEPT !.jit = FALSE, !.stack = Null])
      /\ UNCHANGED <<config, pairs, contexts, dirty, state, matchSlot, matchCap, jitCap, ctxSlot, iter>>

-----------------------------------------------------------------------------
(* The end of a call: the stack, the context, the match data.                  *)

\* Mutant: the callout is left on the context.
CalloutLeft(c) == dirty

CalloutCleared(c) == IF c.callout THEN dirty \ {c.ctx} ELSE dirty

StackOut(t) ==
  LET c == call[Inner(t)]
  IN  /\ \/ At(t, "stack out")
         \/ At(t, "run") /\ c.kind # "execute"
      /\ dirty' = CalloutCleared(c)
      /\ assigned' = Unassign(c.ctx)
      /\ ReleaseStack(t, c.stack)
      /\ Update(t, [c EXCEPT !.pc = "context out", !.stack = Null])
      /\ UNCHANGED <<config, pairs, contexts, state, matchSlot, matchCap, jitCap, ctxSlot, jitOn, iter>>

ContextOut(t) ==
  LET c == call[Inner(t)]
  IN  /\ \/ At(t, "context out")
         \/ At(t, "result") /\ c.kind = "execute"
      /\ CASE c.ctx = Null -> UNCHANGED <<contexts, assigned, dirty, ctxSlot>>
           [] c.ctx # Null /\ c.kind = "finditer" -> FreeContext(c.ctx) /\ UNCHANGED ctxSlot
           [] OTHER -> ReleaseContext(t, c.ctx, c.limit)
      /\ Update(t, [c EXCEPT !.pc = "data out", !.ctx = Null])
      /\ UNCHANGED <<config, pairs, stacks, state, matchSlot, matchCap, jitSlot, jitCap, jitOn, iter>>

DataOut(t) ==
  /\ At(t, "data out")
  /\ ReleaseData(t, call[Inner(t)].data)
  /\ Leave(t)
  /\ UNCHANGED <<config, stacks, contexts, assigned, dirty, state, matchCap, jitSlot, jitCap, ctxSlot,
                 jitOn, iter>>

-----------------------------------------------------------------------------
(* Finditer objects.                                                           *)

\* Pattern_create_finditer returns: what the call held is the object's.
IterCreated(t, i) ==
  LET c == call[Inner(t)]
  IN  /\ At(t, "result") /\ c.kind = "finditer"
      /\ iter[i] = NoIter
      /\ iter' = [iter EXCEPT ![i] = [pattern |-> c.pattern, data |-> c.data,
                                      ctx |-> c.ctx, stack |-> c.stack]]
      /\ Leave(t)
      /\ UNCHANGED <<config, objects, caches, jitOn>>

\* FindIter_iternext on whatever thread comes to an option its JIT code does not
\* support.  Nothing else in it changes what the object holds: a context without
\* a stack never meets a pattern with JIT on, see RunsOnWhatItNeeds.
IterBadOption(t, i) ==
  /\ RunsPython(t)
  /\ iter[i].data # Null /\ jitOn[iter[i].pattern]
  /\ jitOn' = [jitOn EXCEPT ![iter[i].pattern] = FALSE]
  /\ assigned' = Unassign(iter[i].ctx)
  /\ ReleaseStack(t, iter[i].stack)
  /\ iter' = [iter EXCEPT ![i].stack = Null]
  /\ UNCHANGED <<config, pairs, contexts, dirty, state, matchSlot, matchCap, jitCap, ctxSlot, depth, call>>

\* FindIter_dealloc: the match data, the context, and then the stack.
IterDealloc(t, i) ==
  /\ MayCall(t)
  /\ iter[i].data # Null
  /\ ReleaseData(t, iter[i].data)
  /\ FreeContext(iter[i].ctx)
  /\ iter' = [iter EXCEPT ![i] = NoIter]
  /\ Enter(t, [NoCall EXCEPT !.kind = "finditer", !.pc = "stack out", !.stack = iter[i].stack])
  /\ UNCHANGED <<config, stacks, state, matchCap, jitSlot, jitCap, ctxSlot, jitOn>>

-----------------------------------------------------------------------------
(* The settings of the caches, and the end of a thread.                        *)

\* Mutant: the size is stored as it is given.
ClampNot(n) == n

\* clamp_cache_capacity
Clamp(n) == IF n = 0 THEN 0 ELSE 1

SetMatchSize(t, n) ==
  /\ RunsPython(t) /\ EnsureState(t)
  /\ matchCap' = [matchCap EXCEPT ![Home(t)] = Clamp(n)]
  /\ IF n = 0
     THEN /\ pairs' = IF matchSlot[Home(t)] = Null THEN pairs ELSE [pairs EXCEPT ![matchSlot[Home(t)]] = 0]
          /\ matchSlot' = [matchSlot EXCEPT ![Home(t)] = Null]
     ELSE UNCHANGED <<pairs, matchSlot>>
  /\ UNCHANGED <<config, stacks, contexts, assigned, dirty, jitSlot, jitCap, ctxSlot, jitOn, depth, call, iter>>

ClearMatch(t) ==
  /\ RunsPython(t) /\ EnsureState(t)
  /\ pairs' = IF matchSlot[Home(t)] = Null THEN pairs ELSE [pairs EXCEPT ![matchSlot[Home(t)]] = 0]
  /\ matchSlot' = [matchSlot EXCEPT ![Home(t)] = Null]
  /\ UNCHANGED <<config, stacks, contexts, assigned, dirty, matchCap, jitSlot, jitCap, ctxSlot, jitOn, depth,
                 call, iter>>

SetJitSize(t, n) ==
  /\ RunsPython(t) /\ EnsureState(t)
  /\ jitCap' = [jitCap EXCEPT ![Home(t)] = Clamp(n)]
  /\ IF n = 0
     THEN stacks' = stacks \ {jitSlot[Home(t)]} /\ jitSlot' = [jitSlot EXCEPT ![Home(t)] = Null]
     ELSE UNCHANGED <<stacks, jitSlot>>
  /\ UNCHANGED <<config, pairs, contexts, assigned, dirty, matchSlot, matchCap, ctxSlot, jitOn, depth, call, iter>>

\* clear_jit_stack_cache, and set_jit_stack_limits, whose limits are left out.
ClearJit(t) ==
  /\ RunsPython(t) /\ EnsureState(t)
  /\ stacks' = stacks \ {jitSlot[Home(t)]}
  /\ jitSlot' = [jitSlot EXCEPT ![Home(t)] = Null]
  /\ UNCHANGED <<config, pairs, contexts, assigned, dirty, matchSlot, matchCap, jitCap, ctxSlot, jitOn, depth,
                 call, iter>>

ContextsOf(t) == {ctxSlot[t][k] : k \in Slots} \ {Null}

\* thread_cache_capsule_destructor; a state made anew starts from the defaults.
ThreadExit(t) ==
  /\ t \in state /\ depth[t] = 0
  /\ state' = state \ {t}
  /\ contexts' = contexts \ ContextsOf(t)
  /\ ctxSlot' = [ctxSlot EXCEPT ![t] = NoContexts]
  /\ IF Global
     THEN UNCHANGED <<pairs, stacks, matchSlot, matchCap, jitSlot, jitCap>>
     ELSE /\ pairs' = IF matchSlot[t] = Null THEN pairs ELSE [pairs EXCEPT ![matchSlot[t]] = 0]
          /\ stacks' = stacks \ {jitSlot[t]}
          /\ matchSlot' = [matchSlot EXCEPT ![t] = Null]
          /\ jitSlot' = [jitSlot EXCEPT ![t] = Null]
          /\ matchCap' = [matchCap EXCEPT ![t] = 1]
          /\ jitCap' = [jitCap EXCEPT ![t] = 1]
  /\ UNCHANGED <<config, assigned, dirty, jitOn, depth, call, iter>>

Step(t) ==
  \/ TakeContext(t) \/ TakeStack(t) \/ Fail(t) \/ ExecuteRun(t) \/ ScanBadOption(t)
  \/ StackOut(t) \/ ContextOut(t) \/ DataOut(t)

Settings(t) ==
  \/ \E n \in 0..2 : SetMatchSize(t, n) \/ SetJitSize(t, n)
  \/ ClearMatch(t) \/ ClearJit(t) \/ ThreadExit(t)

Next ==
  \E t \in Threads :
    \/ \E kind \in Kinds, p \in Patterns, limit, callout \in BOOLEAN : Begin(t, kind, p, limit, callout)
    \/ Step(t)
    \/ \E i \in Iters : IterCreated(t, i) \/ IterBadOption(t, i) \/ IterDealloc(t, i)
    \/ Settings(t)

Spec == Init /\ [][Next]_vars

-----------------------------------------------------------------------------
(* Properties.                                                                 *)

\* Who may hold an object: a call, a finditer object, a slot of a cache.
CallsDeep == {a \in Activations : a[2] <= depth[a[1]]}
DataOwners == {<<"call", a>> : a \in CallsDeep} \cup {<<"iter", i>> : i \in Iters}
              \cup {<<"slot", h>> : h \in Homes}
HeldData(w) == CASE w[1] = "call" -> call[w[2]].data
                 [] w[1] = "iter" -> iter[w[2]].data
                 [] OTHER -> matchSlot[w[2]]
HeldStack(w) == CASE w[1] = "call" -> call[w[2]].stack
                  [] w[1] = "iter" -> iter[w[2]].stack
                  [] OTHER -> jitSlot[w[2]]
ContextOwners == {<<"call", a>> : a \in CallsDeep} \cup {<<"iter", i>> : i \in Iters}
                 \cup {<<"slot", t, k>> : t \in Threads, k \in Slots}
HeldContext(w) == CASE w[1] = "call" -> call[w[2]].ctx
                    [] w[1] = "iter" -> iter[w[2]].ctx
                    [] OTHER -> ctxSlot[w[2]][w[3]]

\* "handed out with exclusive ownership" (pcre_ext/cache.c:620): no object is held
\* twice, whatever threads, nested calls, iterators, toggles and exits do.
OwnedOnceAndLive ==
  /\ \A v, w \in DataOwners : v # w => HeldData(v) = Null \/ HeldData(v) # HeldData(w)
  /\ \A v, w \in DataOwners : v # w => HeldStack(v) = Null \/ HeldStack(v) # HeldStack(w)
  /\ \A v, w \in ContextOwners : v # w => HeldContext(v) = Null \/ HeldContext(v) # HeldContext(w)
  \* What is held is allocated, and what is allocated is held: nothing is used
  \* after it is freed, freed twice or leaked.
  /\ Allocated(pairs) = {HeldData(w) : w \in DataOwners} \ {Null}
  /\ stacks = {HeldStack(w) : w \in DataOwners} \ {Null}
  /\ contexts = {HeldContext(w) : w \in ContextOwners} \ {Null}

\* A context waiting in a slot has nothing left of the call it comes from: no
\* stack, offset limit or callout.
SlotContextsAreClean ==
  \A t \in Threads, k \in Slots :
    LET c == ctxSlot[t][k] IN c # Null => c \notin dirty /\ assigned[c] = Null

\* No match is made with fewer ovector pairs than the pattern has groups; the
\* stack assigned to a context belongs to whoever holds the context, and JIT code
\* is never run without one, although the flag of the pattern is read, and turned
\* off, at any time (pcre_ext/cache.c:364; pcre_ext/pcre2.c:3392, 4327).
RunsOnWhatItNeeds ==
  /\ \A a \in CallsDeep :
       LET c == call[a]
       IN  /\ c.ctx # Null => assigned[c.ctx] = c.stack
           /\ c.pc = "run" /\ c.jit /\ c.kind # "substitute" => c.stack # Null
           /\ c.stack # Null /\ c.pc # "stack out" => c.ctx # Null
           /\ c.data # Null => pairs[c.data] >= c.pattern
  /\ \A i \in Iters :
       LET c == iter[i]
       IN  /\ c.ctx # Null => assigned[c.ctx] = c.stack
           /\ c.data # Null /\ jitOn[c.pattern] => c.stack # Null /\ c.ctx # Null
           /\ c.data # Null => pairs[c.data] >= c.pattern

\* A cache of size 0 keeps nothing, not even what was out when it was set.
DisabledCachesAreEmpty ==
  \A h \in Homes :
    /\ matchCap[h] = 0 => matchSlot[h] = Null
    /\ jitCap[h] = 0 => jitSlot[h] = Null
================================================================================
