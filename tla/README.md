# A verification project for PyPcre

PyPcre is a Python package over PCRE2. `pcre/` holds the Python side: a drop-in
`re`-style interface, a compile cache, helper caches in front of it and a shared
thread pool. `pcre_ext/` holds the C extension: patterns, matches, iterators, and
the caches of the resources PCRE2 needs to run. The package is meant for
free-threaded interpreters as much as for those with an interpreter lock, so most
of what can go wrong in it is an order of steps that no test runs.

The modules here model that part of it: who may see which cache entry after which
invalidation, who owns which executor, match data, context or stack, and who waits
for whom. Beside it they model what the extension computes on its own account, where a
test set is small and the inputs are many: the scans over a subject, the conversions
of positions, templates, escapes and the sizes of buffers.

- [The system](#the-system): its parts, their state, what is hard about each
- [The modules](#the-modules): what each models, and how it corresponds to the code
- [What is checked](#what-is-checked): the runs, their bounds, fairness
- [Findings](#findings): the places where code and its docs disagree
- [What is proved](#what-is-proved)
- [What is not modelled](#what-is-not-modelled)
- [Plan](#plan)

## The system

| part | state it keeps | operations | hard because | correct when |
|---|---|---|---|---|
| Compile cache, `pcre/cache.py` | `_CACHE_EPOCH`; a dictionary, a limit and a stamp per thread (`thread-local`) or one dictionary, limit and lock (`global`) | `cached_compile`, `clear_cache`, `set_cache_limit` | the compile between the lookup and the insertion runs without a lock, and clears and limit changes overtake it | limits hold, no fill crosses a clear, no stale pattern is returned |
| Native pattern cache, `pcre_ext/pattern_cache.c` | a map and an order list, in thread-specific storage or shared | lookup, store with eviction, clear | two containers kept in step while allocation can run other code | bounded, each key once |
| Module-level helper caches, `pcre/pcre.py` | per thread: snapshot cache, lru, hot entry, effective limit, epoch; shared: `_DEFAULT_CONFIG`, `_MODULE_CACHE_EPOCH` | `_module_compile`, `configure`, `configure_threads`, `clear_cache`, `set_cache_limit` | entries are stamped with values read apart from those they were made with | a call returns a wrapper of a configuration in force, never one from before a clear |
| Shared thread pool, `pcre/threads.py` and `parallel_map` | the executor, its size twice, a reentrant lock; a thread-local worker flag | `ensure_thread_pool`, `configure_thread_pool`, `shutdown_thread_pool`, the submission lease, `parallel_map` | replacement and shutdown race submissions; chunks call back into the pool; threads join threads | no submission is refused, no executor is forgotten, no call waits forever |
| Match resources, `pcre_ext/cache.c` | a slot and a size for match data and JIT stacks per thread or shared; two context slots per thread | acquire, release, sizes, clears, thread exit | objects travel between threads, calls nest, toggles and failures come midway | every object is held once, is live while held and fits what it is used for |
| Pattern methods and iterators, `pcre_ext/pcre2.c` | the pattern's `jit_enabled`; a finditer object's position, data, context, stack and lock | execute, findall, split, substitute, finditer | zero-width matches, offsets between characters and bytes, an interpreter that lets others run midway | the matches of a subject in order, none twice, none missed |
| Match objects and templates, `pcre_ext/pcre2.c` | ovector, `lastindex` and `regs` filled on demand | group, span, expand | values published without a lock | the same value whoever asks first |
| JIT guard, `pcre_ext/jit_support.c` | a serial lock beside the interpreter lock | guard around `pcre2_jit_match` | two locks taken by many threads | never each waiting for the other |
| Allocator selection, `pcre_ext/memory.c` | the chosen allocator, a spin lock | first use, teardown | one-time initialisation under races | one allocator frees what it allocated |
| Module initialisation and teardown, `module_exec` | everything above | import, failed import, unload | a step of several fails | a second import starts clean |
| Compatibility and flags, `pcre/re_compat.py`, `pcre/flags.py` | none | conversions | template syntax | pure functions |
| Errors, strings, `error.c`, `util.c`, `string_helpers.c` | interned names, offset caches | conversions | offsets | pure functions |
| Build, packaging, benchmarks | none at run time | | | |

How they interact: a module-level call (`search`, `compile`...) goes through the
hot entry, the lru and the snapshot cache of its thread, then `cached_compile`, then
the native cache, then `pcre2_compile`. `clear_cache` walks the same chain the other
way and announces itself by two counters, `_CACHE_EPOCH` and `_MODULE_CACHE_EPOCH`,
that the other threads compare with their stamps. A compiled pattern's methods borrow
from the match resource caches; `parallel_map` runs them in chunks on the shared pool.

`PROJECT.json` lists under "hazards" each place where this can go wrong, with the
properties that watch it or the reason none does yet.

## The modules

| module | models | composes |
|---|---|---|
| `FifoCache` | insertion-ordered dictionaries: lookup, assignment, trimming from the oldest | |
| `CompileCache` | `cached_compile`, `clear_cache`, `set_cache_limit` of both strategies, over the native cache | `FifoCache` twice: the Python dictionary and the native cache below it |
| `ModuleCache` | `_module_compile` and the announcements that invalidate what it keeps | `FifoCache`; relies on what `CompileCache` shows of a compile |
| `ThreadPool` | the shared executor, the calls that use it, and their chunks | |
| `MatchResources` | match data, contexts and stacks, the calls and iterators that borrow them | |
| `Subjects` | subjects, positions in characters and in bytes, an abstract PCRE2, the reference: the matches of a subject | |
| `PatternMethods` | match, search, fullmatch, findall and split as functions, the fast splits of a literal | `Subjects` |
| `MatchSequence` | the abstract iterator: the matches, each once, in order, then the end | |
| `FindIter` | a finditer object that threads share, step by step; it implements `MatchSequence` | `PatternMethods`, `MatchSequence` |
| `Templates` | `Match.expand` with its fast paths, the translations of replacements, re's parser of templates | |
| `Escapes` | `escape`, `translate_unicode_escapes`, and a parser of items as their reference | |
| `Texts` | templates and patterns made of fragments, the inputs of the two | `Templates`, `Escapes` |
| `Substitution` | `Pattern_substitute` and its buffer, the loop of `Pattern.subn` | |
| `Locks` | the interpreter lock, an iterator's lock, the guard of JIT code | |
| `MatchFields` | `lastindex`, `regs` and the replay code, published by whoever comes first | |
| `Runtime` | `module_exec`: imports, their failures and repetitions | |
| `MCParts` | `Texts`, `Substitution`, `Locks`, `MatchFields` and `Runtime`, which share no state, side by side | these five |
| `ThreadPool_proofs`, `CompileCache_proofs`, `ModuleCache_proofs`, `MatchResources_proofs`, `FindIter_proofs` | the theorems about the module of that name | that module |
| `Lemmas` | lemmas: induction over numbers, the existence of recursive functions, what a lookup, an assignment and a trim keep of a dictionary | `FifoCache` |
| `Subjects_proofs` | lemmas: positions, chunks, the matches of a subject | `PatternMethods`, `Lemmas` |
| `Parts_proofs` | the theorems about `Locks`, `MatchFields`, `Runtime`, `Substitution` and `Texts` | these five, `Lemmas` |
| the other `MC...` | symmetry of the threads, sets of inputs, for TLC (two runs are of `ThreadPool` and `Substitution` themselves) | |

Each module has the step size of the code: a block under a lock that makes no call
out is one action; without a lock, every access to state another thread can touch is
an action. State that one thread alone can reach is updated together with the shared
access before it. This is the interleaving of a free-threaded build; under an
interpreter lock the switches are some of these.

Actions whose comment begins with "Mutant:" belong to no specification. They are
plausible slips in the definition they stand before, and each property is
shown to notice at least one. The same holds of operators so marked.

**CompileCache.** `Begin...` is the code of `_cached_compile_*` up to its call of
`_pcre2.compile`; `NativeLookup`, `NativeCreate`, `NativeFails` and `NativeStore` are
`Pattern_compile_cached`; `Insert...` is the second half, with its second look at the
epoch and the limit. `ClearBump`, `ClearShared` and `ClearNative` are the three steps
of the global `clear_cache`; the thread-local one has one shared access, the bump, and
is one action. A pattern is known by the epoch in which it was compiled, an entry also
by the epoch its fill was stamped with: that is all the properties tell apart. `cleared`
and `op.floor` are history: the last clear that had finished when a call began.
`MayReenter` lets the wrapper callback of a compile clear the caches it is about to
insert into. An unhashable key takes the path that caches nothing and is left out.

**ModuleCache.** One action per shared read of `_module_compile`: the check of the hot
entry (`Begin`, `CheckHot`), the threading default (`ReadMode`), the configuration
(`ReadConfig`), `_synchronize_local_caches` in its two reads (`Sync`, `SyncLimit`), the
lru, the snapshot cache, the compile, and the two reads that stamp the hot entry
(`ReadHotConfig`, `StoreHot`). `configure` publishes a tuple; `configure_threads`,
`clear_cache` and `set_cache_limit` change their own state and go through
`_cache_configuration_changed`, `clear_cache` twice as in the code. That handler reads the
limit anew for each trim (`pcre/pcre.py:151`) and once more for `effective_limit` (175), and another
thread may write it in between: `BumpModuleEpoch`, a synchronisation, `Trim` of the snapshot
cache, another synchronisation (of the `_local_cache("flagged_cache")` that follows in the loop)
and `Resync` are steps of their own. The synchronisation of line 164 is one with
that of the first `_local_cache`: no read of the limit lies between them. `late` is history: the
limit read by `Resync` was below the one the cache had been trimmed to. `Compile` returns a pattern that is as
old as `CompileCache` allows: under the thread-local strategy not older than the epoch
at its start (`NoStaleReturn`), under the global one of any age. `ret` is history: how
the last call was served, and whether what it returned was of a configuration in force
during the call.

**ThreadPool.** The functions of `pcre/threads.py` are cut where they take and leave
`_THREAD_POOL_LOCK` and where they call the executor. Executors are external:
`submit` appends to a queue or is refused, workers take chunks in order, `shutdown`
closes the queue and joins the threads one by one, in no particular order; joining
oneself raises. A call comes from a thread of the program or from the code a chunk
runs (subjects and finalizers may be anything), which is what makes chunks that shut
their own executor down part of the model. A nested `parallel_map` runs inline
(`_PARALLEL_TLS.in_worker`).

**MatchResources.** An acquire or release of `pcre_ext/cache.c` touches one slot, under
the lock or by its own thread, and runs no Python code in between: it is one operator,
used in the one action of the call that performs it. A call goes through `Begin`
(match data), `TakeContext`, `TakeStack`, the run, `StackOut`, `ContextOut` and `DataOut`,
the order of `Pattern_execute`, findall, split and substitute; `Fail` is an allocation
that fails, `ScanBadOption` and `IterBadOption` the option JIT does not support.
A finditer object keeps its three objects from `IterCreated` to `IterDealloc`, which any
thread may run. `RunsPython` says where the interpreter may run other code, and so where
nested calls, settings and deallocations come in.

**Subjects, PatternMethods.** A subject is a text of characters one, two or three bytes
wide and one of four kinds: bytes, bytes under `PCRE2_UTF`, an ASCII `str`, another
`str`; `at[i]` is the byte where character `i` ends. A compiled pattern is what it can match
at each position, in order of preference, a list of lengths. `pcre2_match` takes offsets
in bytes and picks the first position and length the options allow; an offset inside a
character is an error, and undefined under `PCRE2_NO_UTF_CHECK`. The JIT
code of a pattern works, refuses an option, ignores the anchors (`jit_anchor_fixup_needed`
is there for such builds), or there is none. The conversions count starters chunk by
chunk as `util.c` does with `uint64_t`s; `Chunk` is the size of a chunk. The methods are
functions of the arguments: the window in characters and bytes, the scan for the first code unit,
the JIT call and what is made of its result, the interpreter, the loop with its retry
after an empty match. `PCRE2_USE_OFFSET_LIMIT` is a compile option in every PCRE2, so the probe
of `detect_offset_limit_support` (`pcre2.c:6103`) never finds it supported and
the subject is cut at `endpos` instead; that is the path modelled. Options given by the caller and
`\K` are left out.

**FindIter.** `Enter` and `Leave` are the lock of the object. Between them `Match` is the call
of PCRE2, which may run without the interpreter lock, `Yield` makes the match object
and moves the position, `YieldFails` is `create_match_object` running out of memory after the
cache of positions has moved, `Missed` is `no_match` with its step over a character, and
`StopHere` the checks at `retry`. `all`, `yielded` and `failures` are history. `Sequence` is
`MatchSequence` with `over <- iter.exhausted`, the other variables under their own names:
`Yield` implements its `Yield`, setting `exhausted` its `End`, and all else stutters.

**Templates, Escapes, Texts.** A text is a sequence of characters, of which a handful are told
apart: the backslash, the digits (0, 1 and 7 in the run), `g`, `<`, `>`, `$`, a name, an escape letter; for patterns
parentheses, `?#`, `u`, `U` and two hexadecimal digits, F and one that is small. A match gives
the values of its groups and the name table. `ExpandNatively` tries the fast paths in the
order of `Match_expand`; what none handles goes to `parse_template`, the standard
library's parser as `re_compat.py` uses it: octal escapes, references of two digits, bad ones.
`ReplacedBy` is PCRE2's reading of a replacement, an error where it has none.
`Texts` adds fragment after fragment, so a run checks every text up to a length.

**Substitution.** Lengths decide what happens, so a match is a span and a replacement a
length. `Begin` checks the sizes and takes the first buffer, `TooSmall` and `MatchFails` are the
two ways to `PCRE2_ERROR_NOMEMORY`, `Substitute` the result. PCRE2 writes the text for a match
before the callout is asked about it (`Written`, `Needed`). `subn` is the loop over
finditer for the counts and shapes that the extension does not take.

**Locks.** `pc` says where a thread is: without the interpreter, with it, waiting for the
iterator, with the guard. `Wait` gives the interpreter up and `TakeIterator` does not give it
back; `Resume` does. On Python 3.13 and later the lock of an iterator is a `PyMutex`,
which gives up the interpreter to wait in the same way. A substitution takes the guard where the
code block has a JIT translation, whatever the flag says, so it may take it either way.

**MatchFields.** The first reader of `lastindex` compiles the replay code, publishes it by
compare-and-exchange (as built with atomics), replays the match, and publishes the
result in a critical section; others may be anywhere in between. `ReplayFails` is
any failure of compile or replay.

**Runtime.** One action per step of `module_exec`, with what the environment says at that moment;
`Fail` is the failure of the step that is due and jumps to the label of the code.
`first` is history: the settings the first successful import left. An import that is
not the first comes from a program that took the module out of `sys.modules`.

## What is checked

All runs check for deadlock except those of `ThreadPool`, `Parts_each` and
`Substitution_ceiling`: there the system rests once the calls, texts or imports of the
bound are made. In the others a call can always begin or a setting be changed.

| run | instance | properties | states |
|---|---|---|---|
| `CompileCache_races` | both strategies, 2 threads, 3 keys (one too large to cache), limits 0 and none over a hard limit of 2, 1 at the start, native limit 1, 2 invalidations | `LimitRespected`, `NoStaleReturnThreadLocal`, `GenerationPure`, `FillsOutliveNoClear`, `PublishedOnce` | 1.6 million |
| `CompileCache_stale` | global, 2 keys | `NoStaleReturn`, violated | |
| `ModuleCache_hot` | thread-local, 2 threads, one pattern, 1 clear, 3 announcements, 1 `configure` | `SlowPathIsCurrent`, `CoherentHotIsCurrent` | 3.7 million |
| `ModuleCache_limits` | both strategies, a pattern and one too large to cache, limits 0 to 2, 1 clear, 2 announcements | `LocalCachesBounded`, `EffectiveLimitFollowsThreadLocal` | 3.0 million |
| `ModuleCache_hotstale` | as `ModuleCache_hot` | `HotFollowsConfiguration`, violated | |
| `ModuleCache_limit` | global, limits 0 and 1 | `EffectiveLimitFollows`, violated | |
| `ThreadPool_calls` | a caller and the workers of up to 4 executors of up to 2 threads, 2 chunks a map, 3 calls | `TypeOK`, `NoSubmissionRefused`, `OpenPoolsAreOwned`, `LockHeldByLease`, `WaitsPointForward`, `CallsReturn`, `AcceptedChunksRun` | 49,601 |
| `MatchResources_nested` | both strategies, context cache on and off, 1 thread, calls two deep, execute, scan, substitute | `TypeOK`, `OwnedOnceAndLive`, `SlotContextsAreClean`, `RunsOnWhatItNeeds` | 499,170 |
| `MatchResources_iters` | both strategies, 2 threads and a finditer object between them, patterns of 1 and 2 ovector pairs | `OwnedOnceAndLive`, `RunsOnWhatItNeeds`, `DisabledCachesAreEmpty` | 258,860 |
| `FindIter_threads` | 2 threads, the subjects and ranges below, JIT in four states, 1 match object that cannot be made | `PositionsAgree`, `CallsAreDefined`, `ExecuteFindsTheMatch`, `FindallFindsAll`, `SplitCutsAtMatches`, `ConversionsAgree`, `IteratesMatches` | 718,914 |
| `Parts_each` | texts of 5 fragments, subjects of up to 2 units with up to 4 matches, 3 threads with 3 calls, 2 readers of 2 matches with 2 reads, 3 imports by 2 interpreters | `ExpandFollowsRe`, `ReplacementsMeanTheTemplate`, `EscapesTranslated`, `SubstitutesAsRequested`, `FailsOnlyWhenItMust`, `FieldsAgree`, `RuntimeStaysWhole`, `SectionsAreExclusive`, `SomeThreadCanGoOn`, `ThreadsEnd` | 250,197 |
| `Substitution_ceiling` | subjects of up to 3 units, replacements of 40, count 2 | `CeilingSuffices`, violated | |

What the properties of the newer modules say:

- `IteratesMatches` is the refinement: whichever threads call `next`, and whatever match
  object could not be made, the iterator hands out the matches of the subject, each once and in
  order, and ends after the last. The matches of a subject are a definition in characters, without
  retry flags, caches, JIT or bytes (`Matches` of `Subjects`).
- `PositionsAgree` and `ConversionsAgree`: a position in characters and its byte are the same place, in the
  iterator and its two caches, and for each of the conversions.
- `CallsAreDefined`: neither `PCRE2_NO_UTF_CHECK` nor JIT code ever meets an offset inside a character.
- `ExecuteFindsTheMatch`, `FindallFindsAll`, `SplitCutsAtMatches`: the other methods, in the
  same instance, against the same reference. A range of UTF-8 bytes that cuts a character finds nothing
  or raises.
- `ExpandFollowsRe`, `ReplacementsMeanTheTemplate`, `EscapesTranslated`: each way a text can go gives
  what the reference parser makes of it.
- `SubstitutesAsRequested`: exactly the matches asked for are replaced, whatever was tried before in a
  smaller buffer, in PCRE2 and in the loop; `FailsOnlyWhenItMust` says when a substitution may fail for
  want of memory, the case of the finding included.
- `FieldsAgree`: one answer for each field of each match, no freed code is run, none is lost.
- `RuntimeStaysWhole`: after a successful import no other, failed or not, changes a setting
  or takes a subsystem down; after a failed first one nothing but the allocator is left.
- `SectionsAreExclusive`: one thread at a time is in the interpreter, advances the iterator, reads
  the JIT flag or runs JIT code under the guard.
- `SomeThreadCanGoOn`: while a thread has not ended, one of them waits for nobody: the three
  locks are never waited for in a circle.
- `ThreadsEnd`: every thread comes to its end under the three locks.

`TypeOK` of `CompileCache` and `ModuleCache` is not among the runs' properties: it is proved.

The strategy is a variable that no step changes: a run of both strategies checks two
systems side by side.

Why these bounds:

- Two threads, since every property relates two: the one that fills, holds or serves
  and the one that clears, replaces or frees. A third would do again what the second
  does. The pool's run has up to nine: the caller and the workers, which make calls of
  their own from the chunks they run.
- Two invalidations in `CompileCache`: one may overtake a compile and one may come after
  it, so stamps equal to, one behind and two behind the epoch all occur. Three
  announcements in `ModuleCache_hot`: a `clear_cache` makes two, a `configure_threads` one.
- The limits include 0 (caching off), 1 (every insertion evicts), and one that holds all
  the keys; `Unbounded` meets the hard limit. With a native limit of 1 every store of
  another key evicts.
- Three calls on the pool: one holds a lease, one replaces or shuts down, one comes from
  a chunk. Four executors are as many as three calls of one caller and its chunks
  create, so the bound never blocks a call and makes it look stuck: if it did,
  `CallsReturn` would fail.
- Slots of the real caches hold one object (`clamp_cache_capacity`), so one or two calls
  fill and overflow them; sizes up to 2 are asked for, to see the clamp. Seven objects of
  a kind, five in the run of the iterators, are more than the owners of an instance, so the
  bound never refuses one.
- `MatchResources_iters` has a pattern of one pair and a larger one, to see match data that is too
  small. Its constraint `LargeIsInterpreted` leaves out the large pattern with JIT on, and beside
  the thread-local slots: JIT flags and sizes of match data meet nowhere in the code, and either
  strategy checks the size in the same way.
- Calls two deep are the call that runs Python code midway and the one that code makes. The
  second deepens to no new case: it finds the slots as any other call does.

- `FindIter_threads` has subjects of zero to three characters that put one, two and three bytes next
  to each other and each at the start and the end; positions from -1 to 3, so before, inside (of
  bytes), at and past the end; patterns that at each position match nothing, one character, empty
  or one, two or empty, as far as the text goes (so that the end offers the empty match alone):
  every choice of these for every position. A chunk of
  3 bytes is whole, partial, cut inside a character and cut between two. A second empty match at
  a place, a match that ends at the end and one cut by `endpos` all occur. Two threads: one
  in a step and one that comes in between.
- Texts of five fragments hold a reference with text on both sides, two references and more than
  `MaxTokens`, an octal escape, a bracketed name with what follows, a run of backslashes of
  either parity, a comment that opens and closes. `MaxTokens` and `NameLimit` are scaled down to 2 and 1.
- Substitutions: with up to four matches, three counts and a `MaxSize` of 90, a bounded
  one stops at, before and after the last match, meets its ceiling, grows twice, and comes to every
  check of the sizes. Literals of 20 and 40 are longer than the slack, 0 and 1 shorter.
- Locks: three threads are one for each lock; a fourth could only wait for one that somebody
  waits for already.
- Reads: two of one field race in every step. Three imports: one that fails, one that
  succeeds, one after it.

Symmetry is used over the threads; the runs that have liveness use none.

**Fairness.** `FairSpec` of `ThreadPool` is `Spec /\ WF_vars(Progress)`, where `Progress`
is any step of a call under way or of a worker; the beginning of a new call is not in it.
It says that the process as a whole keeps running when some thread can: threads are
scheduled and the code of a chunk terminates. No fairness between threads is assumed, nor
is it needed: with a bounded number of calls every chain of steps is finite, so a
behaviour that never rests has taken all of them. What is left to go wrong is exactly
everybody waiting for somebody, and that is what the run shows impossible.
The code's lock makes no promise of order, and none is used.

`LocksFairness` is weak fairness of each thread's steps: a thread that can go on without
anybody else does so. A lock that is free time and again but taken by others first is not
promised to it; that a thread gets it in the end is because the calls are bounded. So `ThreadsEnd` too
says that nobody waits for somebody who waits for him, and nothing about starvation.

## Findings

Four runs end in a violation. Each states what a comment, a docstring or a test
of the repository says; the counterexample of the first three is an order of steps of two
threads, that of the fourth a single call.

1. `CompileCache_stale`: under the global strategy the store into the native cache
   (`pcre_ext/pattern_cache.c:366`) looks at no epoch. A compile that missed, was overtaken by
   a whole `clear_cache()` and stores afterwards leaves a pattern from before the
   clear where a compile that begins after it finds it. The epoch check of
   `pcre/cache.py:219` guards the Python dictionary alone. `FillsOutliveNoClear` is the
   part of the promise that holds, and `NoStaleReturnThreadLocal` shows that the
   thread-local strategy keeps all of it.
2. `ModuleCache_hotstale`: `_module_compile` stamps the hot entry with a second read of
   `_DEFAULT_CONFIG` (`pcre/pcre.py:1723`) and of `_MODULE_CACHE_EPOCH` (1725). A `configure(jit=...)`
   between the two reads leaves a wrapper of the old default under the stamp of the new one, a
   `configure_threads` one of the old threading default; the check that compares `get_thread_default`
   with itself cannot notice. A `clear_cache` at that place is overlooked for the same
   reason, and the pattern from before it is served from the hot entry.
3. `ModuleCache_limit`: the global `set_cache_limit` bumps the epoch before it writes the
   limit (`pcre/cache.py:291-293`). A thread that synchronises in between is at the current
   epoch with the old limit, and nothing makes it look again. Under the thread-local
   strategy the limit follows (`EffectiveLimitFollowsThreadLocal`).
4. `Substitution_ceiling`: a substitution with a count from 2 to 8 sizes the ceiling of its buffer for
   that many replacements (`pcre_ext/pcre2.c:4362-4382`), but PCRE2 writes the text for the next match too
   before the callout rejects it. `pcre.compile("[ab]").sub("x" * 40, "aaa", count=2)` raises
   `MemoryError`. `FailsOnlyWhenItMust` shows that this is the only way in which a bounded
   substitution fails that need not.

`LocalCachesBounded` states a related weakness of the global strategy as the exception it makes.
`_cache_configuration_changed` trims the snapshot cache to one reading of the limit
(`pcre/pcre.py:151`) and takes `effective_limit` from a later one (175). A `set_cache_limit` of
another thread that has bumped the epoch already and writes a lower limit in between leaves more
entries than `effective_limit` allows. They stay until the thread next inserts an
entry, handles a change of its own or meets a new epoch; with a limit of 0 nothing is
inserted, nor is what stays looked up. No document or test speaks of this
interleaving, so there is no run that refutes one. Under the thread-local strategy, and for
the lru under both, the bound has no exception.

`CoherentHotIsCurrent` shows that 2 is the whole of what is wrong with the hot
entry: one whose stamps were still those of what it was compiled from is never served late.

Three more places where code and documents, or two paths of the code, differ; no run is about
them, and the properties leave them out by name:

- An escaped parenthesis that `?#` follows, as in `\(?#\u0041`, is taken for the start of a comment by
  `module_translate_unicode_escapes`, and so is `[(?#]`: what follows is not translated.
  `EscapesTranslated` asks about texts without such a parenthesis.
- Where a name stands for several groups, the fast paths of `expand` and `Match.group` take the
  one that took part, while the fallback through `groupindex` takes the lowest. `ExpandFollowsRe` compares the fast
  paths with the former, and the two with each other where names are unique.
- A second import into a fresh module object finds the error classes registered already
  (`pcre_ext/error.c:1339`) and returns before it adds them: that module lacks the subclasses of
  `PcreError` and the constants. `Runtime` is about the process, not about the attributes of a module.

## What is proved

The bounds of the runs above are there for TLC. The theorems hold for every value of the
constants that the assumption of the module admits: every number of threads, callers, readers
and nested calls, every set of keys, patterns and subjects, all limits and every bound. The
assumptions say what the code gives: limits are numbers or none, a chunk
has a size, markers such as `Shared`, `Nobody`, `NoThread` and `"none"` are no threads, there is at least
one key or pattern. `ModuleCache` assumes that its threads are finitely many, since `Owed` counts the
announcements they have yet to make; `MatchFields` that a match has finitely many groups; `Texts` that
the entries of one name stand in the order of their groups (as PCRE2 keeps its table), that a name has no
brace and is no number, and that the mark of an error is no character of a template. The pool, the
caches and the resources keep the caps on their counters that TLC needs (`MaxEpoch`, `MaxCalls`, `MaxObjects`...),
for arbitrary values.

| theorem | of | says |
|---|---|---|
| `TypeCorrect` | pool | `TypeOK` |
| `SubmissionsAccepted` | pool | `NoSubmissionRefused`: the executor a lease is on stays open until the batch is in it |
| `NoExecutorForgotten` | pool | `OpenPoolsAreOwned`: an open executor is the shared one or exactly one call has yet to shut it down |
| `LockIsTheLease` | pool | `LockHeldByLease`: the lock is never held over a join or the wait for a batch |
| `NoCircleOfJoins` | pool | `WaitsPointForward`: a worker shuts down its own executor or younger ones |
| `CacheTypes` | compile cache | `TypeOK` |
| `CachesStayWithinTheirLimits` | compile cache | `LimitRespected` |
| `ThreadsNeverGetStalePatterns` | compile cache | `NoStaleReturnThreadLocal` |
| `ThreadCachesAreOfOneGeneration` | compile cache | `GenerationPure` |
| `SharedFillsAreOfTheLastClear` | compile cache | `FillsOutliveNoClear` |
| `SharedWrappersAreNotReplaced` | compile cache | `PublishedOnce`, an action property |
| `HelperCacheTypes` | helper caches | `TypeOK` |
| `HelperCachesStayBounded` | helper caches | `LocalCachesBounded`, with its one exception under the global strategy |
| `ThreadsGoByTheirLimits` | helper caches | `EffectiveLimitFollowsThreadLocal` |
| `ModuleCallsAreCurrent` | helper caches | `SlowPathIsCurrent` |
| `CoherentHotEntriesAreCurrent` | helper caches | `CoherentHotIsCurrent` |
| `ResourceTypes` | match resources | `TypeOK` |
| `ResourcesAreOwnedOnce` | match resources | `OwnedOnceAndLive`: no use after free, no double free, no leak |
| `CallsRunOnWhatTheyNeed` | match resources | `RunsOnWhatItNeeds` |
| `SlotContextsStayClean` | match resources | `SlotContextsAreClean` |
| `DisabledCachesStayEmpty` | match resources | `DisabledCachesAreEmpty` |
| `IterationImplementsTheSequence` | finditer | `IteratesMatches`: the refinement of `MatchSequence` |
| `PositionsStayAgreed` | finditer | `PositionsAgree` |
| `CallsStayDefined` | finditer | `CallsAreDefined` |
| `ConversionsStayAgreed` | conversions | `ConversionsAgree` |
| `ExecutionsFindTheMatch` | match, search, fullmatch | `ExecuteFindsTheMatch` |
| `FindallFindsTheMatches` | findall | `FindallFindsAll` |
| `SplitsCutAtTheMatches` | split | `SplitCutsAtMatches`, with the built-in split that stands in for a literal |
| `LocksExclude` | locks | `SectionsAreExclusive` |
| `LocksNeverDeadlock` | locks | `SomeThreadCanGoOn` |
| `MatchFieldsAgree` | match fields | `FieldsAgree` |
| `ExpandsAsReDoes` | templates | `ExpandFollowsRe`: fast paths and parser agree, for every template |
| `ReplacesAsReDoes` | templates | `ReplacementsMeanTheTemplate`: both translations to PCRE2's syntax mean what `re` means |
| `TranslatesTheEscapes` | escapes | `EscapesTranslated`: the translation of `\u` and `\U` finds the escapes that a parser finds, for every pattern without an escaped `(` before `?#` |
| `ImportsKeepTheRuntimeWhole` | module initialisation | `RuntimeStaysWhole` |
| `SubstitutionsReplaceWhatIsAskedFor` | substitutions | `SubstitutesAsRequested` |
| `SubstitutionsFailOnlyWhenTheyMust` | substitutions | `FailsOnlyWhenItMust` |

`SpecIInv` of the pool, not in the table, is its inductive invariant. The last nine are about the
specifications of the parts, `LocksSpec`, `MatchFieldsSpec`, `TextsSpec`, `RuntimeSpec` and `SubstitutionSpec`;
TLC runs them side by side in `MCParts`.

Few of these properties are inductive. Each module of proofs has an invariant that is, a
conjunction of named parts, with a lemma for each action or group of actions. TLC checks the
parts that are properties of the runs. What the others add, and why they are needed:

**ThreadPool.**

- `LeaseOnCurrent`: the executor leased is the shared one and open. Replacing, detaching
  and shutting down need the lock the lease holds, or concern an executor that is detached already.
- `CurrentIsNewest`: the shared executor is the last one created. A detached executor is
  therefore older than any created later.
- `Unborn`: executors not yet created are closed and have no threads.
- `OldIsRetired`: an executor a call is to shut down is not the shared one.
- `WorkersAreBorn`: a worker that runs a chunk or is in a call belongs to an executor
  that was created. With `CurrentIsNewest` this gives `WaitsPointForward`: what a worker
  detaches is the newest executor, hence its own or a younger one.
- `ChunksHaveABatch`: a map with chunks to submit has its number, which keeps the queues typed.

**CompileCache.** `OwnState` orders four epochs: the end of the last clear, the start of the call, the stamp
of the thread and the epoch, and says that what the thread holds or has cached is not older than the
stamp. It is what makes the second look at the epoch in `_cached_compile_thread_local` sufficient: a
pattern compiled before a clear is in the hand of a thread whose stamp is behind.
`SharedState` says the same of fills in the shared dictionary, with a clear
that has emptied the dictionary counted from its own bump on, so that the clear may end while others are under way.
`PublishedOnce` needs that the dictionary has each key once, which trimming and assigning keep
(`Lemmas`).

**ModuleCache.** A property of one thread's call speaks of what others do while it runs. `World` is
what the threads share as one of them sees it; `Later` how it can move on in a step of
somebody else: counters grow, a tuple is published once, and while the generation stands the
announced threading defaults stay and no further clear is announced. `CompileOK` says of each
point of `_module_compile` what is true of the call's copies while its stamps still equal the shared
counters, `HotOK` the same of a hot entry. Both survive any later world, so only a thread's own
steps need an argument. `LimitsAgree` says that the limit a thread goes by is the one that
is set, unless it is about to announce a change, and that the one it has trimmed to (`op.lim`) is;
under the thread-local strategy nobody else writes it, so `Resync` reads the same limit as
`Trim` did. Under the global one `late` is the case where it reads a lower one. `Owed` counts announcements that are under way: the model's
bound on the counter never cuts one short.

**MatchResources.** `Owned` is about any function from holders to objects: no two hold one object, and
what is allocated is what is held. It has its lemmas once, for an object that moves, is made or is
freed; data, stacks and contexts are three uses. `CallInv` says what a call has at each point,
in the order of taking and giving back, and that the stack on its context is its own; `IterInv` what a
finditer object has. That the objects not in use are clean (no stack, limit or callout
left) makes a context that is allocated again as good as one from a slot. The choice of
the lowest free object needs that there is one: the least-number principle, `WFMin`.

**FindIter.** `Stands(c, e)`: the position of the iterator in characters and bytes is character `c`, that of the end is
`e`, and the matches yielded so far followed by the matches from `c` on are the matches of
the subject. `CachesArePlaces` says that each of the two caches is a place of the subject. The steps rest on
what `Subjects_proofs` shows of the data: a conversion counts the starters of the whole chunks and of the rest,
PCRE2 called at a place finds what the reference finds there, and the retry after an empty
match, anchored and not empty, either finds the next match at the same place or there is none before
the next character.
A range that cuts a character finds nothing and yields nothing (`NothingDone`).

**match, search, fullmatch.** What a call finds is a function of the character it begins at, the one it ends at and two options
(`Finds`). A call of PCRE2 in a range that cuts no character returns it; JIT code that ignores
the anchors returns what a search returns, and `AnchorsIgnored` says what that tells about the
anchored match: a match elsewhere means none here, a match here is it, and for `fullmatch` only if it
reaches the end. These are the cases of `jit_anchor_fixup_needed`. Where PCRE2 reports a first unit, the
scan for it fails only where no match begins.

**findall and split.** Both scan from a place to the end and put what each call finds before what the rest
gives. By what is left of the subject (`Left`, `LeftToCut`: twice the bytes, and one if an empty match is
allowed), less at each step, the scans exist and satisfy their equations. From each character on, findall finds
the matches there are from it on (`FindallScanFinds`). For split there is more to carry: how many
matches are done, where the last of them ended (`LastEnd`), and that what is to come is the rest of all matches
(`IsRest`); then the scan gives the pieces from the done-th match on (`SplitScanCuts`), whether it ends at
the end of the matches or at `maxsplit` (`UsedAre`). The built-in split goes from character to
character; its pieces are those of a pattern that is one character (`LiteralScanCuts`), and the list with what the
groups take put between them is the list of `Pattern_split` (`WithGroupsGoesOn`, for one to eight groups).

**Locks.** Each lock is held exactly where the code of its holder has it (`HeldWhereUsed`). From there the absence of
deadlock is an order: the holder of the guard waits for nothing; with the guard free the holder of
the interpreter waits for nothing; with both free, the holder of the iterator.

**MatchFields.** `CodesOwned` gives each replay code one owner: the pattern, or the one reader about to offer
it; `NoLateFailure` relates answers to earlier ones.

**Runtime.** `FirstImport` says step by step what a first import has set up, which is what a failure
at that step takes down; `LaterImportKeeps` that no other import changes anything.

**Substitution.** While no match has run out of memory, a bounded substitution has doubled its buffer as often as it
tried, or is at the ceiling (`RoomSoFar`); as the ceiling is at most sixteen times the first length, the
ceiling comes before the last attempt. The products of lengths and counts are related to the checks of their
factors for each count from 2 to 8 (`FactorsAndProducts`). What is written for the first i matches is at most
the subject up to there and i texts (`WrittenIsBounded`), so that what is asked for fits under the ceiling
(`CeilingIsEnough`), and only a text that is taken out again does not. What the output holds has an order, of units
and inserted texts (`Before`): each step of `OutputOf` appends what comes after all that is there
(`UnitsAdded`, `TextAdded`), so an output is in that order, holds nothing twice, and its places are those
asked for (`PlacesAre`).

**Texts.** A template is read from the left by the parser (`ParseAt`) and by the reader of tokens (`TokensFrom`).
`Stands` says that the parser reads a token as the piece it is: a digit, a backslash, a name in brackets, with
`GroupOf` for the group of a name. Between two tokens the parser reads characters (`PlainText`), so what it has
read when it comes to a place (`Prefix`) is what the tokens before it are rendered to (`AssembledIsRendered`);
a single reference is one token. A replacement in PCRE2's syntax is made of units. A unit (`IsUnit`) is
read as one thing, wherever it stands: a character as itself, a doubled backslash or dollar as
one, a reference as the value of its group; `Decimal` and `NumberOf` are inverse (`DecimalIs`). So
a replacement of units is read as what its units are read as (`ReadsUnits`). Both translations produce units: one for
each piece (`ParsedIsRead`), or the text around a reference, which has neither backslash nor dollar
(`RewritingIsRead`).

A pattern is read in two ways: the translator takes the backslashes of a run at once and counts them, the
parser takes items (`Items`), a backslash with what it escapes. `ItemStep` makes one
of the two: at an item that is out of range the translator stops with the error; at any other it writes
what the item is translated into and goes on behind it (`Continues`), or both it and the next item belong to a run
of backslashes that ends in an escape out of range (`Refuses`, `GivesUp`). So, from the end of the text to its start
(`FromTheEnd`), what the translator makes of the rest of the text is an error if one of the items left is out of
range, and else what they are translated into (`TranslatedFrom`). The case of `GivesUp` needs the
first part of `TranslatedFrom`: that the run ends in an item that is out of range. What escape has made is a sequence of plain
characters and escaped ones (`IsEscaped`), and at none of the places where they start is there a comment or an escape.

The prover has no induction over data: the theorems of the library take the induction formula as a
parameter. What recursive functions compute is proved here without it. `WFMin` gives
a least counterexample of any set of numbers that is written out, and so an induction for each
formula that needs one; `StepwiseRecursion` of `Lemmas` makes of it that a
recursive function over finitely many stages exists, and is the only one to satisfy its equation; `ListRecursion`
does so for lists made from the left. For this the model has its recursions as functions of one argument
(`ScanChunks` and `MatchesFrom` over pairs, `at` of `Subject` over characters, the scans of findall over
`ScanPlaces` and of split over `SplitPlaces`, `PiecesBetween` from the end, `Written` and `OutputOf` from the
first match on), as recursive functions and not as RECURSIVE operators, the parsers of `Templates` and `Escapes` over places of the text,
and conditions as chains
of IF where CASE would leave open which of two arms is taken.

Only model-checked are the liveness properties, `CallsReturn`, `AcceptedChunksRun` and `ThreadsEnd`: the prover cannot
reason about ENABLED, hence about fairness.

## What is not modelled

- The limits of JIT stacks: stacks that are out while `set_jit_stack_limits` runs keep
  the old ones. `ClearJit` stands for its effect on the slot.
- `cached_match_data` and `cached_match_context` of a pattern object: nothing fills them, so the
  branches that use them are dead. Likewise the branch of `FindIter_iternext` that makes a
  context: `RunsOnWhatItNeeds` shows that an iterator without one never meets a
  pattern with JIT on.
- `flagged_cache` and the replacement caches of `pcre/pcre.py`: they follow the protocol
  of the snapshot cache.
- Calls made from finalizers that run inside a block under the reentrant lock, and from
  there into the helper caches of the same thread.
- Finalisation of the interpreter.
- What the scans borrow and give back while they run: that is `MatchResources`. Match options of
  the caller, `\K`, partial matches and the matching itself: `pcre2_match` is abstract. A match list
  in which findall fails midway is dropped with the error.
- `Match.span`, `groups`, `groupdict` and the other readers of the ovector: no state, no control.
- The direct paths of `sub` for plain literals (`_literal_replace`), which use `str.replace`; callables as
  replacements, which run in the loop of `subn` like templates.
- The build without atomics: the replay code and the JIT flags go through a lock there.
- Which shared library an allocator comes from, flags, error tables and messages, views of buffers,
  build and benchmarks: conversions, tables and I/O, or nothing of the running package.

## Plan

In the order of what matters most:

1. `NativePatternCache`: the map and the order list as two containers, the critical
   sections and what may run when one is suspended, the thread-specific storage from creation to
   thread exit; shown to implement the FIFO cache `CompileCache` puts below the dictionary.
2. An abstract pool (a map returns once its chunks have run, whatever executor they ran
   on) that `ThreadPool` implements, and an abstract cache that `CompileCache` implements under the
   thread-local strategy.
3. The limits of JIT stacks, and reentrancy of a thread into its own helper caches.
