------------------------------ MODULE ModuleCache ------------------------------
(* The caches the module-level calls (search, match, compile with default     *)
(* flags) keep per thread above cached_compile: the snapshot cache            *)
(* (_DEFAULT_COMPILE_LOCAL.cache), the lru in front of it (module_lru) and    *)
(* the single hot entry (module_hot); and the process-wide defaults they must *)
(* follow: _DEFAULT_CONFIG, _THREAD_CONFIG, _CACHE_EPOCH, _MODULE_CACHE_EPOCH.*)
(*                                                                            *)
(* Every step makes at most one access to state another thread can touch.     *)
(* cached_compile itself is what CompileCache shows of it: under the          *)
(* thread-local strategy the pattern it returns is not older than the epoch   *)
(* at its start; the global strategy promises nothing of the kind.            *)
EXTENDS FifoCache, FiniteSets, Integers

CONSTANTS
  Threads,
  Shared,      \* the scope of the global strategy
  Patterns,    \* pattern texts
  Oversized,   \* the texts above _MAX_CACHE_INPUT_UNITS
  Strategies,  \* the strategies to start with: "thread-local", "global"
  Limits,      \* effective limits set_cache_limit is called for
  FirstLimit,  \* the effective limit at import
  NoEntry,     \* module_hot is None
  MaxEpoch,    \* bounds of the model on _CACHE_EPOCH,
  MaxModule,   \* on _MODULE_CACHE_EPOCH and
  MaxVersion   \* on the tuples configure() publishes

ASSUME ModuleAssumption ==
  /\ IsFiniteSet(Threads) /\ Shared \notin Threads
  /\ Patterns # {} /\ Oversized \subseteq Patterns
  /\ Strategies \subseteq {"thread-local", "global"}
  /\ Limits \subseteq Nat
  /\ FirstLimit \in Limits
  /\ MaxEpoch \in Nat /\ MaxModule \in Nat /\ MaxVersion \in Nat

VARIABLES
  strategy, \* cache_strategy(), fixed at import
  epoch,    \* _CACHE_EPOCH
  mepoch,   \* _MODULE_CACHE_EPOCH
  config,   \* _DEFAULT_CONFIG: its jit and, for "is", which tuple it is
  auto,     \* _THREAD_CONFIG[0], get_thread_default()
  limit,    \* the bounded cache limit of each scope
  loc,      \* _DEFAULT_COMPILE_LOCAL of each thread
  op,       \* the call each thread is in
  cleared,  \* history: the latest epoch whose clear_cache has returned
  ret       \* history: what the last module call of each thread returned

shared == <<strategy, epoch, mepoch, config, auto, limit, cleared>>
vars == <<strategy, epoch, mepoch, config, auto, limit, loc, op, cleared, ret>>

ScopeOf(t) == IF strategy = "global" THEN Shared ELSE t
Scopes == Threads \cup {Shared}

Modes == BOOLEAN     \* auto or disabled threading of a wrapper
Config == [version : 0..MaxVersion, jit : BOOLEAN]
Key == [pat : Patterns, jit : BOOLEAN, mode : Modes]
\* A compiled wrapper: what it was made from and the epoch it was made in.
Compiled == [key : Key, born : 0..MaxEpoch]
\* coherent is history: the stamps still stood for what the call had read.
Hot == [version : 0..MaxVersion, mepoch : 0..MaxModule, got : Compiled,
        coherent : BOOLEAN]
Cache == Seq([key : Key, val : Compiled])
\* late is history: the limit was lowered between the last trim and the reading of eff.
Local == [epoch : -1..MaxEpoch, eff : Limits, cache : Cache, lru : Cache,
          hot : Hot \cup {NoEntry}, late : BOOLEAN]

Phases == {"ready", "hot", "mode", "config", "sync", "syncLimit", "lru",
           "snapshot", "compile", "hotConfig", "hotEpoch",
           "bump", "trim", "resync", "limit"}

\* then: where _synchronize_local_caches returns to; seen: the epoch it read, or
\* the one a clear_cache set; again: clear_cache notifies twice; lim: the limit to set
\* or the one last trimmed to; old: a threading default replaced but not yet
\* announced; the fields from floor on are history.
Op == [pc : Phases, key : Key, version : 0..MaxVersion, got : Compiled,
       orphan : BOOLEAN, steady : BOOLEAN,
       then : {"lru", "snapshot", "trim", "resync"}, seen : 0..MaxEpoch,
       again : BOOLEAN, lim : Limits, clears : BOOLEAN, old : SUBSET Modes,
       floor : 0..MaxEpoch, stamp : 0..MaxModule,
       jits : SUBSET BOOLEAN, modes : SUBSET Modes]

Verdict == [path : {"none", "hot", "slow"}, jit : BOOLEAN, mode : BOOLEAN,
            generation : BOOLEAN, coherent : BOOLEAN]

TypeOK ==
  /\ strategy \in Strategies
  /\ epoch \in 0..MaxEpoch /\ mepoch \in 0..MaxModule /\ cleared \in 0..MaxEpoch
  /\ config \in Config /\ auto \in Modes
  /\ limit \in [Scopes -> Limits]
  /\ loc \in [Threads -> Local]
  /\ op \in [Threads -> Op]
  /\ ret \in [Threads -> Verdict]

SomeKey == [pat |-> CHOOSE p \in Patterns : TRUE, jit |-> FALSE, mode |-> FALSE]

\* No call: every field of a finished call is back at its first value.
Idle == [pc |-> "ready", key |-> SomeKey, version |-> 0,
         got |-> [key |-> SomeKey, born |-> 0],
         orphan |-> FALSE, steady |-> FALSE, then |-> "lru", seen |-> 0, again |-> FALSE,
         lim |-> FirstLimit, clears |-> FALSE, old |-> {},
         floor |-> 0, stamp |-> 0, jits |-> {}, modes |-> {}]

NoVerdict == [path |-> "none", jit |-> TRUE, mode |-> TRUE, generation |-> TRUE,
              coherent |-> TRUE]

Init ==
  /\ strategy \in Strategies
  /\ epoch = 0 /\ mepoch = 0 /\ cleared = 0
  /\ config = [version |-> 0, jit |-> TRUE]
  /\ auto = FALSE
  /\ limit = [s \in Scopes |-> FirstLimit]
  /\ loc = [t \in Threads |-> [epoch |-> -1, eff |-> FirstLimit, cache |-> Empty,
                               lru |-> Empty, hot |-> NoEntry, late |-> FALSE]]
  /\ op = [t \in Threads |-> Idle]
  /\ ret = [t \in Threads |-> NoVerdict]

Goto(t, pc) == op' = [op EXCEPT ![t].pc = pc]

-----------------------------------------------------------------------------
(* _module_compile: the hot entry.                                            *)

\* The threading defaults a call that begins now may find in force: a change
\* stands once configure_threads has announced it.
ModesInForce == {auto} \cup UNION {op[u].old : u \in Threads}

\* hot is not None and pattern is hot[0] and hot[3] == _MODULE_CACHE_EPOCH
HotIsFor(t, p) ==
  /\ loc[t].hot # NoEntry
  /\ loc[t].hot.got.key.pat = p
  /\ loc[t].hot.mepoch = mepoch

Begin(t, p) ==
  /\ op[t].pc = "ready"
  /\ op' = [op EXCEPT ![t] =
              [Idle EXCEPT !.pc = IF HotIsFor(t, p) THEN "hot" ELSE "mode",
                           !.key.pat = p, !.floor = cleared,
                           !.jits = {config.jit}, !.modes = ModesInForce]]
  /\ ret' = [ret EXCEPT ![t] = NoVerdict]
  /\ UNCHANGED <<shared, loc>>

\* The call returns got: what it promised is judged and the call forgotten.
Return(t, got, path, coherent) ==
  /\ op' = [op EXCEPT ![t] = Idle]
  /\ ret' = [ret EXCEPT ![t] =
               [path |-> path, coherent |-> coherent,
                jit |-> got.key.jit \in op[t].jits,
                mode |-> got.key.mode \in op[t].modes,
                generation |-> got.born >= op[t].floor]]

\* Mutant: configure() is not noticed.
HotConfigIgnored(t) == TRUE

\* hot[1] is _DEFAULT_CONFIG ("hot[2] is get_thread_default" is the identity of
\* a function that never changes).
HotConfigStands(t) == loc[t].hot.version = config.version

CheckHot(t) ==
  /\ op[t].pc = "hot"
  /\ IF HotConfigStands(t)
     THEN Return(t, loc[t].hot.got, "hot", loc[t].hot.coherent)
     ELSE Goto(t, "mode") /\ UNCHANGED ret
  /\ UNCHANGED <<shared, loc>>

\* thread_default = get_thread_default()
ReadMode(t) ==
  /\ op[t].pc = "mode"
  /\ op' = [op EXCEPT ![t].pc = "config", ![t].key.mode = auto, ![t].stamp = mepoch]
  /\ UNCHANGED <<shared, loc, ret>>

\* default_jit, default_compat = _DEFAULT_CONFIG
ReadConfig(t) ==
  /\ op[t].pc = "config"
  /\ op' = [op EXCEPT ![t].pc = "sync", ![t].then = "lru",
                      ![t].key.jit = config.jit, ![t].version = config.version]
  /\ UNCHANGED <<shared, loc, ret>>

-----------------------------------------------------------------------------
(* _synchronize_local_caches: the epoch is read first, the limit last.        *)

Sync(t) ==
  /\ op[t].pc = "sync"
  /\ op' = [op EXCEPT ![t] =
              IF loc[t].epoch = epoch
              THEN [op[t] EXCEPT !.pc = op[t].then]
              ELSE [op[t] EXCEPT !.pc = "syncLimit", !.seen = epoch]]
  /\ UNCHANGED <<shared, loc, ret>>

\* Mutant: the lru survives a new epoch.
SyncKeepsLru(t) ==
  /\ op[t].pc = "syncLimit"
  /\ loc' = [loc EXCEPT ![t] = [epoch |-> op[t].seen, eff |-> limit[ScopeOf(t)],
                                cache |-> Empty, lru |-> @.lru, hot |-> NoEntry,
                                late |-> FALSE]]
  /\ op' = [op EXCEPT ![t].pc = op[t].then]
  /\ UNCHANGED <<shared, ret>>

\* An lru a call still holds while the thread drops it keeps the call's result
\* to itself (orphan).
SyncLimit(t) ==
  /\ op[t].pc = "syncLimit"
  /\ loc' = [loc EXCEPT ![t] = [epoch |-> op[t].seen, eff |-> limit[ScopeOf(t)],
                                cache |-> Empty, lru |-> Empty, hot |-> NoEntry,
                                late |-> FALSE]]
  /\ op' = [op EXCEPT ![t].pc = op[t].then, ![t].orphan = (op[t].then = "snapshot")]
  /\ UNCHANGED <<shared, ret>>

-----------------------------------------------------------------------------
(* _cached_module_pattern, _compile_default_snapshot, cached_compile.         *)

Cacheable(t) == loc[t].eff > 0 /\ op[t].key.pat \notin Oversized

\* An lru hit makes the entry the newest one.
Touch(c, k) ==
  LET i == CHOOSE j \in DOMAIN c : c[j].key = k
  IN  Append(SubSeq(c, 1, i - 1) \o SubSeq(c, i + 1, Len(c)), c[i])

LookupLru(t) ==
  LET k == op[t].key
      hit == Cacheable(t) /\ Has(loc[t].lru, k)
  IN /\ op[t].pc = "lru"
     /\ loc' = [loc EXCEPT ![t].lru = IF hit THEN Touch(@, k) ELSE @]
     /\ op' = [op EXCEPT ![t] =
                 IF hit THEN [op[t] EXCEPT !.pc = "hotConfig", !.got = Lookup(loc[t].lru, k)]
                        ELSE [op[t] EXCEPT !.pc = "sync", !.then = "snapshot"]]
     /\ UNCHANGED <<shared, ret>>

\* What lru_cache keeps of a call it made, unless it was dropped meanwhile.
KeepInLru(t, got) ==
  IF op[t].orphan \/ ~Cacheable(t) THEN loc[t].lru
  ELSE Assign(MakeRoom(loc[t].lru, loc[t].eff), op[t].key, got)

\* cached_compile begins by reading the epoch.
LookupSnapshot(t) ==
  LET k == op[t].key
      hit == loc[t].eff > 0 /\ Has(loc[t].cache, k)
      got == Lookup(loc[t].cache, k)
  IN /\ op[t].pc = "snapshot"
     /\ IF hit
        THEN /\ loc' = [loc EXCEPT ![t].lru = KeepInLru(t, got)]
             /\ op' = [op EXCEPT ![t].pc = "hotConfig", ![t].got = got]
        ELSE /\ op' = [op EXCEPT ![t].pc = "compile", ![t].seen = epoch]
             /\ UNCHANGED loc
     /\ UNCHANGED <<shared, ret>>

Oldest(t) == IF strategy = "global" THEN 0 ELSE op[t].seen

Compile(t) ==
  /\ op[t].pc = "compile"
  /\ \E born \in Oldest(t)..epoch :
       LET got == [key |-> op[t].key, born |-> born]
       IN /\ loc' = [loc EXCEPT
                       ![t].cache = IF Cacheable(t)
                                    THEN TrimTo(Assign(@, op[t].key, got), loc[t].eff)
                                    ELSE @,
                       ![t].late = @ /\ ~Cacheable(t),
                       ![t].lru = KeepInLru(t, got)]
          /\ op' = [op EXCEPT ![t].pc = "hotConfig", ![t].got = got]
  /\ UNCHANGED <<shared, ret>>

\* cached_compile raises: nothing is kept and nothing returned.
CompileFails(t) ==
  /\ op[t].pc = "compile"
  /\ op' = [op EXCEPT ![t] = Idle]
  /\ UNCHANGED <<shared, loc, ret>>

\* The hot entry is stamped with the configuration and the generation that
\* stand now, read one after the other.
ReadHotConfig(t) ==
  /\ op[t].pc = "hotConfig"
  /\ IF Cacheable(t)
     THEN /\ op' = [op EXCEPT ![t].pc = "hotEpoch", ![t].version = config.version,
                              ![t].steady = (op[t].version = config.version)]
          /\ UNCHANGED ret
     ELSE Return(t, op[t].got, "slow", TRUE)
  /\ UNCHANGED <<shared, loc>>

StoreHot(t) ==
  /\ op[t].pc = "hotEpoch"
  /\ loc' = [loc EXCEPT ![t].hot =
               [version |-> op[t].version, mepoch |-> mepoch, got |-> op[t].got,
                coherent |-> op[t].steady /\ op[t].stamp = mepoch]]
  /\ Return(t, op[t].got, "slow", TRUE)
  /\ UNCHANGED shared

-----------------------------------------------------------------------------
(* configure, configure_threads, clear_cache and set_cache_limit.             *)

\* A configuration published during a module call is one the call may use.
Widen(o, j, m) == IF o.jits = {} THEN o
                  ELSE [o EXCEPT !.jits = @ \cup j, !.modes = @ \cup m]

\* The bumps of _MODULE_CACHE_EPOCH that calls under way still have to make, to
\* keep the bound on it from stopping one of them midway.
Owed == Cardinality({u \in Threads : op[u].pc \in {"bump", "limit"}})
        + Cardinality({u \in Threads : op[u].again})

MayAnnounce(n) == mepoch + Owed + n <= MaxModule

\* Under _DEFAULT_CONFIG_LOCK; readers see the tuple alone.  No cache is told.
Configure(t, j) ==
  /\ op[t].pc = "ready"
  /\ config.version < MaxVersion
  /\ config' = [version |-> config.version + 1, jit |-> j]
  /\ op' = [u \in Threads |-> Widen(op[u], {j}, {})]
  /\ UNCHANGED <<strategy, epoch, mepoch, auto, limit, cleared, loc, ret>>

\* Under _THREAD_POOL_LOCK; _notify_thread_control follows.
ConfigureThreads(t, m) ==
  /\ op[t].pc = "ready"
  /\ MayAnnounce(1)
  /\ auto' = m
  /\ op' = [u \in Threads |-> IF u = t THEN [Idle EXCEPT !.pc = "bump", !.old = {auto}]
                              ELSE Widen(op[u], {}, {m})]
  /\ UNCHANGED <<strategy, epoch, mepoch, config, limit, cleared, loc, ret>>

\* cache.clear_cache up to _notify_cache_control: the clears of the compile
\* caches themselves are CompileCache's.
ClearCache(t) ==
  /\ op[t].pc = "ready"
  /\ epoch < MaxEpoch
  /\ MayAnnounce(2)
  /\ epoch' = epoch + 1
  /\ op' = [op EXCEPT ![t] = [Idle EXCEPT !.pc = "bump", !.again = TRUE,
                                          !.clears = TRUE, !.floor = epoch + 1]]
  /\ UNCHANGED <<strategy, mepoch, config, auto, limit, cleared, loc, ret>>

\* The global strategy bumps the epoch, then writes the limit under the lock.
SetLimitGlobal(t, l) ==
  /\ strategy = "global"
  /\ op[t].pc = "ready"
  /\ epoch < MaxEpoch /\ MayAnnounce(1)
  /\ epoch' = epoch + 1
  /\ op' = [op EXCEPT ![t] = [Idle EXCEPT !.pc = "limit", !.lim = l]]
  /\ UNCHANGED <<strategy, mepoch, config, auto, limit, cleared, loc, ret>>

SetLimitThreadLocal(t, l) ==
  /\ strategy = "thread-local"
  /\ op[t].pc = "ready"
  /\ MayAnnounce(1)
  /\ limit' = [limit EXCEPT ![t] = l]
  /\ op' = [op EXCEPT ![t] = [Idle EXCEPT !.pc = "bump"]]
  /\ UNCHANGED <<strategy, epoch, mepoch, config, auto, cleared, loc, ret>>

WriteLimit(t) ==
  /\ op[t].pc = "limit"
  /\ limit' = [limit EXCEPT ![Shared] = op[t].lim]
  /\ Goto(t, "bump")
  /\ UNCHANGED <<strategy, epoch, mepoch, config, auto, cleared, loc, ret>>

\* _cache_configuration_changed: the generation first, under its lock.
BumpModuleEpoch(t) ==
  /\ op[t].pc = "bump"
  /\ mepoch' = mepoch + 1
  /\ op' = [op EXCEPT ![t].pc = "sync", ![t].then = "trim", ![t].old = {}]
  /\ UNCHANGED <<strategy, epoch, config, auto, limit, cleared, loc, ret>>

\* Mutant: trimmed to the limit the thread went by so far.
TrimByOldLimit(t) ==
  /\ op[t].pc = "trim"
  /\ loc' = [loc EXCEPT ![t].cache = TrimTo(@, loc[t].eff)]
  /\ op' = [op EXCEPT ![t].pc = "sync", ![t].then = "resync", ![t].lim = limit[ScopeOf(t)]]
  /\ UNCHANGED <<shared, ret>>

\* The caller's own cache is trimmed to the limit that stands now, or dropped.
\* _local_cache synchronises before every trim: before this one, which makes one
\* with the call before the loop, and before that of flagged_cache.
Trim(t) ==
  /\ op[t].pc = "trim"
  /\ loc' = [loc EXCEPT ![t].cache = TrimTo(@, limit[ScopeOf(t)])]
  /\ op' = [op EXCEPT ![t].pc = "sync", ![t].then = "resync", ![t].lim = limit[ScopeOf(t)]]
  /\ UNCHANGED <<shared, ret>>

\* The second notification of clear_cache starts over; the last one ends the call.
EndNotification(t) ==
  /\ op' = [op EXCEPT ![t] = IF op[t].again THEN [op[t] EXCEPT !.pc = "bump", !.again = FALSE]
                             ELSE Idle]
  /\ cleared' = IF op[t].clears /\ ~op[t].again /\ op[t].floor > cleared
                THEN op[t].floor ELSE cleared
  /\ UNCHANGED <<strategy, epoch, mepoch, config, auto, limit, ret>>

\* Mutant: the thread keeps going by the limit it had.
ResyncKeepsLimit(t) ==
  /\ op[t].pc = "resync"
  /\ loc' = [loc EXCEPT ![t].lru = Empty, ![t].hot = NoEntry]
  /\ EndNotification(t)

\* The lru and the hot entry are dropped and the limit is read once more: under the
\* global strategy another one may have been written since the trim.
Resync(t) ==
  /\ op[t].pc = "resync"
  /\ loc' = [loc EXCEPT ![t].lru = Empty, ![t].hot = NoEntry, ![t].eff = limit[ScopeOf(t)],
                        ![t].late = (op[t].lim > limit[ScopeOf(t)])]
  /\ EndNotification(t)

-----------------------------------------------------------------------------
Next ==
  \E t \in Threads :
    \/ \E p \in Patterns : Begin(t, p)
    \/ CheckHot(t) \/ ReadMode(t) \/ ReadConfig(t)
    \/ Sync(t) \/ SyncLimit(t)
    \/ LookupLru(t) \/ LookupSnapshot(t) \/ Compile(t) \/ CompileFails(t)
    \/ ReadHotConfig(t) \/ StoreHot(t)
    \/ \E j \in BOOLEAN : Configure(t, j)
    \/ \E m \in Modes : ConfigureThreads(t, m)
    \/ ClearCache(t)
    \/ \E l \in Limits : SetLimitGlobal(t, l) \/ SetLimitThreadLocal(t, l)
    \/ WriteLimit(t)
    \/ BumpModuleEpoch(t) \/ Trim(t) \/ Resync(t)

Spec == Init /\ [][Next]_vars

-----------------------------------------------------------------------------
(* Properties.                                                                *)

\* Of a configuration in force during the call and, where the strategy promises it,
\* of no earlier generation than the call.
Current(v) == v.jit /\ v.mode /\ (strategy = "thread-local" => v.generation)

\* A module call that compiles or goes through the lru or the snapshot cache
\* returns a wrapper of a configuration in force while it ran, and (under the
\* thread-local strategy) never one compiled before a clear_cache that had
\* returned when it began.
SlowPathIsCurrent ==
  \A t \in Threads : ret[t].path = "slow" => Current(ret[t])

\* The checks of the hot entry are sufficient when its stamps were still those
\* of the configuration it was compiled under: such an entry is never served
\* after configure, configure_threads or (thread-local) clear_cache has returned.
CoherentHotIsCurrent ==
  \A t \in Threads : ret[t].path = "hot" /\ ret[t].coherent => Current(ret[t])

\* "module hot cache tracks configured jit default", and "tracks thread default
\* across threads" (tests/test_cache_scope_safety.py:123, 80): a call served from
\* the hot entry has the jit and the threading default that are in force.
HotFollowsConfiguration ==
  \A t \in Threads : ret[t].path = "hot" => ret[t].jit /\ ret[t].mode

\* The lru never holds more than the limit the thread goes by, nor does the snapshot
\* cache, though that limit is replaced while entries stay; but under the global
\* strategy set_cache_limit of another thread may lower it between the trim and the
\* second reading (pcre.py:151, 175), and the entries stay until the next trim.
LocalCachesBounded ==
  \A t \in Threads :
    /\ Len(loc[t].lru) <= loc[t].eff
    /\ Len(loc[t].cache) <= loc[t].eff \/ (strategy = "global" /\ loc[t].late)

\* The limit a thread's helper caches go by is the one in force, once the thread
\* is synchronised and nobody is in the middle of changing it.
EffectiveLimitFollows ==
  \A t \in Threads :
    /\ loc[t].epoch = epoch
    /\ \A u \in Threads : op[u].pc = "ready"
    => loc[t].eff = limit[ScopeOf(t)]

\* The same where every thread has its own limit and no epoch announces it.
EffectiveLimitFollowsThreadLocal == strategy = "thread-local" => EffectiveLimitFollows
================================================================================
