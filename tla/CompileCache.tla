----------------------------- MODULE CompileCache -----------------------------
(* The process-wide compile cache (pcre/cache.py) over the native pattern     *)
(* cache that pcre_ext_c.compile keeps below it (Pattern_compile_cached).     *)
(*                                                                            *)
(* The strategy is fixed at import.  A scope is what owns a cache: each       *)
(* thread its own one under "thread-local", the process (Shared) under        *)
(* "global".                                                                  *)
(* Every step of the model is one access to state another thread can touch,   *)
(* or one block held under _GLOBAL_STATE.lock: the state of a thread-local    *)
(* scope is reached by its owner alone, so what the owner does to it between  *)
(* two shared accesses is part of the same step.                              *)
EXTENDS FifoCache, FiniteSets

CONSTANTS
  Threads,       \* the threads calling the package
  Shared,        \* the scope of the global strategy
  Keys,          \* (pattern, flags, jit) cache keys
  Oversized,     \* the keys above _MAX_CACHE_INPUT_UNITS
  Strategies,    \* the strategies to start with: "thread-local", "global"
  Unbounded,     \* set_cache_limit(None)
  Limits,        \* the limits callers ask for
  DefaultLimit,  \* the limit of a fresh scope
  HardLimit,     \* _HARD_CACHE_ENTRY_LIMIT
  NativeLimit,   \* MODULE_COMPILE_CACHE_LIMIT
  MaxEpoch       \* bound of the model on invalidations

ASSUME CacheAssumption ==
  /\ Shared \notin Threads
  /\ Keys # {} /\ Oversized \subseteq Keys
  /\ Strategies \subseteq {"thread-local", "global"}
  /\ Limits \subseteq Nat \cup {Unbounded}
  /\ Unbounded \notin Nat
  /\ DefaultLimit \in Nat
  /\ HardLimit \in Nat \ {0}
  /\ NativeLimit \in Nat \ {0}
  /\ MaxEpoch \in Nat

VARIABLES
  strategy, \* _CACHE_STRATEGY, fixed at import
  epoch,    \* _CACHE_EPOCH
  limit,    \* cache_limit of each scope
  cache,    \* pattern_cache of each scope
  stamp,    \* _THREAD_LOCAL.epoch of each scope (unused by Shared)
  native,   \* the C pattern cache of each scope
  op,       \* the call each thread is in
  cleared   \* history: the latest epoch whose clear_cache has finished

vars == <<strategy, epoch, limit, cache, stamp, native, op, cleared>>

Scopes == Threads \cup {Shared}
ScopeOf(t) == IF strategy = "global" THEN Shared ELSE t

Bounded(l) ==
  IF l = Unbounded THEN HardLimit ELSE IF l < HardLimit THEN l ELSE HardLimit

Allowed(k) == k \notin Oversized

\* A compiled pattern is known by the epoch it was born in; an entry of the
\* Python caches also by the epoch its fill was stamped with.
Wrapper == [born : 0..MaxEpoch, fill : 0..MaxEpoch]

Phases == {"ready", "compile", "lookup", "create", "store", "insert",
           "clear", "clearNative", "limit"}

\* key: being compiled; keep: the result may be cached; start: current_epoch or
\* compile_epoch; born: the pattern in hand, or returned last; floor: cleared
\* when that call began; lim: the argument of set_cache_limit.
Op == [pc : Phases, key : Keys, keep : BOOLEAN, start : 0..MaxEpoch,
       born : 0..MaxEpoch, floor : 0..MaxEpoch, lim : Limits \cup {DefaultLimit}]

SeqOver(K, V) == Seq([key : K, val : V])

TypeOK ==
  /\ strategy \in Strategies
  /\ epoch \in 0..MaxEpoch
  /\ limit \in [Scopes -> Limits \cup {DefaultLimit}]
  /\ cache \in [Scopes -> SeqOver(Keys, Wrapper)]
  /\ stamp \in [Scopes -> 0..MaxEpoch]
  /\ native \in [Scopes -> SeqOver(Keys, 0..MaxEpoch)]
  /\ op \in [Threads -> Op]
  /\ cleared \in 0..MaxEpoch

Init ==
  /\ strategy \in Strategies
  /\ epoch = 0
  /\ limit = [s \in Scopes |-> DefaultLimit]
  /\ cache = [s \in Scopes |-> Empty]
  /\ stamp = [s \in Scopes |-> 0]
  /\ native = [s \in Scopes |-> Empty]
  /\ op = [t \in Threads |-> [pc |-> "ready", key |-> CHOOSE k \in Keys : TRUE,
                              keep |-> FALSE, start |-> 0, born |-> 0, floor |-> 0,
                              lim |-> DefaultLimit]]
  /\ cleared = 0

-----------------------------------------------------------------------------
(* cached_compile: the lookup in the Python cache.                            *)

\* Mutant: the stale thread drops its Python cache and forgets the native one.
BeginKeepsNative(t, k) ==
  LET stale == stamp[t] # epoch
      found == IF stale THEN Empty ELSE cache[t]
      keep == Allowed(k) /\ Bounded(limit[t]) # 0
      hit == keep /\ Has(found, k)
  IN /\ strategy = "thread-local"
     /\ op[t].pc = "ready"
     /\ cache' = [cache EXCEPT ![t] = found]
     /\ stamp' = [stamp EXCEPT ![t] = epoch]
     /\ op' = [op EXCEPT ![t] =
                 [@ EXCEPT !.pc = IF hit THEN "ready" ELSE "lookup",
                           !.key = k, !.keep = keep, !.start = epoch, !.floor = cleared,
                           !.born = IF hit THEN Lookup(found, k).born ELSE op[t].born]]
     /\ UNCHANGED <<strategy, epoch, limit, native, cleared>>

\* _cached_compile_thread_local up to the call of _pcre2.compile: resynchronise
\* with the epoch, then look the key up.
BeginThreadLocal(t, k) ==
  LET stale == stamp[t] # epoch
      found == IF stale THEN Empty ELSE cache[t]
      keep == Allowed(k) /\ Bounded(limit[t]) # 0
      hit == keep /\ Has(found, k)
  IN /\ strategy = "thread-local"
     /\ op[t].pc = "ready"
     /\ cache' = [cache EXCEPT ![t] = found]
     /\ stamp' = [stamp EXCEPT ![t] = epoch]
     /\ native' = [native EXCEPT ![t] = IF stale THEN Empty ELSE @]
     /\ op' = [op EXCEPT ![t] =
                 [@ EXCEPT !.pc = IF hit THEN "ready" ELSE "lookup",
                           !.key = k, !.keep = keep, !.start = epoch, !.floor = cleared,
                           !.born = IF hit THEN Lookup(found, k).born ELSE op[t].born]]
     /\ UNCHANGED <<strategy, epoch, limit, cleared>>

\* _cached_compile_global up to the end of its first "with lock".
BeginGlobal(t, k) ==
  LET keep == Allowed(k) /\ Bounded(limit[Shared]) # 0
      hit == keep /\ Has(cache[Shared], k)
  IN /\ strategy = "global"
     /\ op[t].pc = "ready"
     /\ op' = [op EXCEPT ![t] =
                 [@ EXCEPT !.pc = CASE hit -> "ready"
                                    [] keep /\ ~hit -> "compile"
                                    [] OTHER -> "lookup",
                           !.key = k, !.keep = keep, !.floor = cleared,
                           !.born = IF hit THEN Lookup(cache[Shared], k).born ELSE op[t].born]]
     /\ UNCHANGED <<strategy, epoch, limit, cache, stamp, native, cleared>>

\* compile_epoch = get_cache_epoch()
ReadCompileEpoch(t) ==
  /\ op[t].pc = "compile"
  /\ op' = [op EXCEPT ![t].pc = "lookup", ![t].start = epoch]
  /\ UNCHANGED <<strategy, epoch, limit, cache, stamp, native, cleared>>

-----------------------------------------------------------------------------
(* Pattern_compile_cached: the native cache, per thread or shared.            *)

\* Where a call goes once it holds its pattern: to the insertion into the
\* Python cache, or straight back to the caller.
AfterNative(t) == IF op[t].keep THEN "insert" ELSE "ready"

NativeLookup(t) ==
  LET n == native[ScopeOf(t)]
      hit == Allowed(op[t].key) /\ Has(n, op[t].key)
  IN /\ op[t].pc = "lookup"
     /\ op' = [op EXCEPT ![t] =
                 [@ EXCEPT !.pc = IF hit THEN AfterNative(t) ELSE "create",
                           !.born = IF hit THEN Lookup(n, op[t].key) ELSE op[t].born]]
     /\ UNCHANGED <<strategy, epoch, limit, cache, stamp, native, cleared>>

\* Pattern_create: pcre2_compile runs here.
NativeCreate(t) ==
  /\ op[t].pc = "create"
  /\ op' = [op EXCEPT ![t].pc = IF Allowed(op[t].key) THEN "store" ELSE AfterNative(t),
                      ![t].born = epoch]
  /\ UNCHANGED <<strategy, epoch, limit, cache, stamp, native, cleared>>

\* Pattern_create raises (a pattern PCRE2 rejects): nothing is cached, and
\* nothing is returned that floor could be about.
NativeFails(t) ==
  /\ op[t].pc = "create"
  /\ op' = [op EXCEPT ![t].pc = "ready", ![t].floor = 0]
  /\ UNCHANGED <<strategy, epoch, limit, cache, stamp, native, cleared>>

\* pattern_cache_store, with the eviction that ends it.
NativeStore(t) ==
  /\ op[t].pc = "store"
  /\ native' = [native EXCEPT ![ScopeOf(t)] =
                  LET stored == Assign(@, op[t].key, op[t].born)
                  IN IF Has(@, op[t].key) THEN stored ELSE TrimTo(stored, NativeLimit)]
  /\ op' = [op EXCEPT ![t].pc = AfterNative(t)]
  /\ UNCHANGED <<strategy, epoch, limit, cache, stamp, cleared>>

-----------------------------------------------------------------------------
(* cached_compile: the insertion into the Python cache.                       *)

\* Mutant: the thread's own stamp is compared with itself.
FillNeverStale(t) == TRUE

\* A fill is kept only while the epoch it was stamped with still stands.
FillIsCurrent(t) == op[t].start = epoch

Entry(t) == [born |-> op[t].born, fill |-> op[t].start]

\* Mutant: the limit read before the compile decides the eviction.
InsertWithoutRoom(t) ==
  /\ strategy = "thread-local"
  /\ op[t].pc = "insert"
  /\ cache' = [cache EXCEPT ![t] =
                 IF FillIsCurrent(t) /\ Bounded(limit[t]) # 0
                 THEN Assign(MakeRoom(@, HardLimit), op[t].key, Entry(t))
                 ELSE @]
  /\ op' = [op EXCEPT ![t].pc = "ready"]
  /\ UNCHANGED <<strategy, epoch, limit, stamp, native, cleared>>

InsertThreadLocal(t) ==
  LET active == Bounded(limit[t])
  IN /\ strategy = "thread-local"
     /\ op[t].pc = "insert"
     /\ cache' = [cache EXCEPT ![t] =
                    IF FillIsCurrent(t) /\ active # 0
                    THEN Assign(MakeRoom(@, active), op[t].key, Entry(t))
                    ELSE @]
     /\ op' = [op EXCEPT ![t].pc = "ready"]
     /\ UNCHANGED <<strategy, epoch, limit, stamp, native, cleared>>

\* Mutant: the second lookup is gone and the last fill wins.
InsertLastWins(t) ==
  /\ strategy = "global"
  /\ op[t].pc = "insert"
  /\ cache' = [cache EXCEPT ![Shared] =
                 IF FillIsCurrent(t) /\ limit[Shared] # 0
                 THEN Assign(MakeRoom(@, Bounded(limit[Shared])), op[t].key, Entry(t))
                 ELSE @]
  /\ op' = [op EXCEPT ![t].pc = "ready"]
  /\ UNCHANGED <<strategy, epoch, limit, stamp, native, cleared>>

\* The second "with lock": another thread may have filled the key meanwhile,
\* and then its wrapper is the one returned.
InsertGlobal(t) ==
  LET c == cache[Shared]
      keeps == FillIsCurrent(t) /\ limit[Shared] # 0
      lost == keeps /\ Has(c, op[t].key)
  IN /\ strategy = "global"
     /\ op[t].pc = "insert"
     /\ cache' = [cache EXCEPT ![Shared] =
                    IF keeps /\ ~lost
                    THEN Assign(MakeRoom(c, Bounded(limit[Shared])), op[t].key, Entry(t))
                    ELSE c]
     /\ op' = [op EXCEPT ![t].pc = "ready",
                         ![t].born = IF lost THEN Lookup(c, op[t].key).born ELSE @]
     /\ UNCHANGED <<strategy, epoch, limit, stamp, native, cleared>>

-----------------------------------------------------------------------------
(* clear_cache and set_cache_limit.                                           *)

MaxOf(a, b) == IF a > b THEN a ELSE b

\* Between two calls, or (thread-local scopes) from code that runs inside the
\* wrapper callback of the thread's own compile.
MayReenter(t) == op[t].pc \in {"ready", "insert"}

\* Only the epoch is shared here: the rest is the caller's own state.
ClearThreadLocal(t) ==
  /\ strategy = "thread-local"
  /\ MayReenter(t)
  /\ epoch < MaxEpoch
  /\ epoch' = epoch + 1
  /\ cache' = [cache EXCEPT ![t] = Empty]
  /\ stamp' = [stamp EXCEPT ![t] = epoch + 1]
  /\ native' = [native EXCEPT ![t] = Empty]
  /\ cleared' = epoch + 1
  /\ UNCHANGED <<strategy, limit, op>>

\* current_epoch = _bump_cache_epoch()
ClearBump(t) ==
  /\ strategy = "global"
  /\ op[t].pc = "ready"
  /\ epoch < MaxEpoch
  /\ epoch' = epoch + 1
  /\ op' = [op EXCEPT ![t].pc = "clear", ![t].start = epoch + 1]
  /\ UNCHANGED <<strategy, limit, cache, stamp, native, cleared>>

\* with _GLOBAL_STATE.lock: pattern_cache.clear()
ClearShared(t) ==
  /\ op[t].pc = "clear"
  /\ cache' = [cache EXCEPT ![Shared] = Empty]
  /\ op' = [op EXCEPT ![t].pc = "clearNative"]
  /\ UNCHANGED <<strategy, epoch, limit, stamp, native, cleared>>

\* _pcre2.clear_pattern_cache(), the last clear a later compile can notice
ClearNative(t) ==
  /\ op[t].pc = "clearNative"
  /\ native' = [native EXCEPT ![Shared] = Empty]
  /\ cleared' = MaxOf(cleared, op[t].start)
  /\ op' = [op EXCEPT ![t].pc = "ready"]
  /\ UNCHANGED <<strategy, epoch, limit, cache, stamp>>

SetLimitThreadLocal(t, l) ==
  /\ strategy = "thread-local"
  /\ MayReenter(t)
  /\ limit' = [limit EXCEPT ![t] = l]
  /\ cache' = [cache EXCEPT ![t] = TrimTo(@, Bounded(l))]
  /\ native' = [native EXCEPT ![t] = IF Bounded(l) = 0 THEN Empty ELSE @]
  /\ UNCHANGED <<strategy, epoch, stamp, op, cleared>>

SetLimitBump(t, l) ==
  /\ strategy = "global"
  /\ op[t].pc = "ready"
  /\ epoch < MaxEpoch
  /\ epoch' = epoch + 1
  /\ op' = [op EXCEPT ![t].pc = "limit", ![t].lim = l]
  /\ UNCHANGED <<strategy, limit, cache, stamp, native, cleared>>

\* with _GLOBAL_STATE.lock: write the limit and trim to it
SetLimitApply(t) ==
  /\ op[t].pc = "limit"
  /\ limit' = [limit EXCEPT ![Shared] = op[t].lim]
  /\ cache' = [cache EXCEPT ![Shared] = TrimTo(@, Bounded(op[t].lim))]
  /\ op' = [op EXCEPT ![t].pc = "ready"]
  /\ UNCHANGED <<strategy, epoch, stamp, native, cleared>>

-----------------------------------------------------------------------------
Next ==
  \E t \in Threads :
    \/ \E k \in Keys : BeginThreadLocal(t, k) \/ BeginGlobal(t, k)
    \/ ReadCompileEpoch(t)
    \/ NativeLookup(t) \/ NativeCreate(t) \/ NativeFails(t) \/ NativeStore(t)
    \/ InsertThreadLocal(t) \/ InsertGlobal(t)
    \/ ClearThreadLocal(t)
    \/ ClearBump(t) \/ ClearShared(t) \/ ClearNative(t)
    \/ \E l \in Limits : SetLimitThreadLocal(t, l) \/ SetLimitBump(t, l)
    \/ SetLimitApply(t)

Spec == Init /\ [][Next]_vars

-----------------------------------------------------------------------------
(* Properties.                                                                *)

\* No cache ever holds more entries than the limit in force for its scope
\* allows, whatever limit change or nested call runs while a compile is under
\* way (the limit is read again before the insertion: pcre/cache.py:172, 224);
\* and no native cache outgrows MODULE_COMPILE_CACHE_LIMIT, although a store
\* appends before it evicts (pcre_ext/pattern_cache.c:322-363).
LimitRespected ==
  \A s \in Scopes : Len(cache[s]) <= Bounded(limit[s]) /\ Len(native[s]) <= NativeLimit

\* clear_cache is process wide: a compile that begins after a clear_cache has
\* finished never returns a pattern compiled before that clear
\* (pcre/cache.py:173-175, 252).
NoStaleReturn ==
  \A t \in Threads : op[t].pc = "ready" => op[t].born >= op[t].floor

\* The same of the caches of one thread, where the stamp is compared before the
\* native cache is asked (pcre/cache.py:150-160).
NoStaleReturnThreadLocal == strategy = "thread-local" => NoStaleReturn

\* Every entry of a thread's cache was filled in the generation the cache is
\* stamped with, even when the wrapper callback cleared the cache midway: the
\* next comparison of the stamp with the epoch judges all entries at once.
GenerationPure ==
  strategy = "thread-local" =>
    \A t \in Threads : \A i \in DOMAIN cache[t] : cache[t][i].val.fill = stamp[t]

\* A fill that was looked up before a clear_cache never lands in the shared
\* cache after it: the entries there were all stamped at or after the last
\* clear that finished (the epoch check of pcre/cache.py:219).
FillsOutliveNoClear ==
  strategy = "global" =>
    \A i \in DOMAIN cache[Shared] : cache[Shared][i].val.fill >= cleared

\* The wrapper the shared cache holds for a key is never exchanged for another
\* while the key stays cached: the thread that loses the race to fill it takes
\* the winner's (pcre/cache.py:221-231).
PublishedOnce ==
  [][strategy = "global" =>
       \A i \in DOMAIN cache[Shared] :
         LET e == cache[Shared][i]
         IN Has(cache'[Shared], e.key) => Lookup(cache'[Shared], e.key) = e.val]_vars
=============================================================================
