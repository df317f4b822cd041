--------------------------- MODULE CompileCache_proofs ---------------------------
(* The safety of the compile cache, for every number of threads, keys and       *)
(* invalidations and every limit.                                                *)
EXTENDS CompileCache, Lemmas

Entries == [key : Keys, val : Wrapper]
NativeEntries == [key : Keys, val : 0..MaxEpoch]

\* What the caches of a thread whose stamp is n may hold.
CachedAt(n) == {e \in Entries : e.val.fill = n /\ e.val.born >= n}
NativeFrom(n) == {e \in NativeEntries : e.val >= n}

\* What the shared cache may hold once the clear of epoch n has emptied it.
FilledFrom(n) == {e \in Entries : e.val.fill >= n}

\* The stamp of a thread lags the epoch and leads its call; the pattern in its
\* hand, and those in its caches, are not older than the stamp.
OwnState(t) ==
  /\ op[t].pc \in {"ready", "lookup", "create", "store", "insert"}
  /\ stamp[t] <= epoch
  /\ cache[t] \in Seq(CachedAt(stamp[t]))
  /\ native[t] \in Seq(NativeFrom(stamp[t]))
  /\ op[t].pc = "ready" => op[t].born >= op[t].floor
  /\ op[t].pc # "ready" => op[t].floor <= op[t].start /\ op[t].start <= stamp[t]
  /\ op[t].pc = "store" => op[t].born >= stamp[t]
  /\ op[t].pc = "insert" => op[t].born >= op[t].start

\* No thread sees another's caches; the epoch is all they share.
ThreadLocalInv ==
  strategy = "thread-local" => cleared = epoch /\ \A t \in Threads : OwnState(t)

\* The shared cache is a dictionary; what it holds was filled since the last clear
\* that finished, and since those that have emptied it and not yet finished.
SharedState ==
  /\ cleared <= epoch
  /\ Distinct(cache[Shared])
  /\ cache[Shared] \in Seq(FilledFrom(cleared))
  /\ \A t \in Threads :
       /\ op[t].start <= epoch
       /\ op[t].pc = "clearNative" => cache[Shared] \in Seq(FilledFrom(op[t].start))

GlobalInv == strategy = "global" => SharedState

IInv == TypeOK /\ LimitRespected /\ ThreadLocalInv /\ GlobalInv

-----------------------------------------------------------------------------
(* Facts about limits, scopes and phases.                                       *)

\* Every limit is a number of entries, and none is 0 but 0 itself.
LEMMA BoundedLimit ==
  ASSUME NEW l \in Limits \cup {DefaultLimit}
  PROVE  Bounded(l) \in Nat /\ (l # 0 => Bounded(l) # 0)
BY CacheAssumption DEF Bounded

\* A thread has a scope of its own under either strategy.
LEMMA ScopeIsScope == \A t \in Threads : ScopeOf(t) \in Scopes /\ t \in Scopes /\ t # Shared
BY CacheAssumption DEF ScopeOf, Scopes

\* A dictionary whose entries are in a smaller set is one whose entries are in a larger.
LEMMA SeqOfMore == \A S, T : S \subseteq T => Seq(S) \subseteq Seq(T)
BY SeqMonotonic

\* What a call that finished looks like does not matter to the next one: a step of
\* one thread leaves the state of the others what it was, as long as the epoch grows.
LEMMA OthersKeepOwnState ==
  ASSUME TypeOK, NEW t \in Threads, epoch' \in Nat, epoch' >= epoch,
         \A u \in Threads \ {t} : UNCHANGED <<op[u], stamp[u], cache[u], native[u]>>,
         NEW u \in Threads \ {t}, OwnState(u)
  PROVE  OwnState(u)'
<1>1. stamp[u] \in Nat /\ epoch \in Nat
  BY ScopeIsScope, CacheAssumption DEF TypeOK
<1> QED
  BY <1>1 DEF OwnState

\* The program starts with empty caches and idle threads.
LEMMA InitIInv == Init => IInv
<1> SUFFICES ASSUME Init PROVE IInv
  OBVIOUS
<1> USE CacheAssumption DEF Init
<1>1. TypeOK
  <2>1. op \in [Threads -> Op]
    <3> DEFINE k == CHOOSE k \in Keys : TRUE
               r == [pc |-> "ready", key |-> k, keep |-> FALSE, start |-> 0,
                     born |-> 0, floor |-> 0, lim |-> DefaultLimit]
    <3>1. k \in Keys
      OBVIOUS
    <3>2. r \in Op
      BY <3>1 DEF Op, Phases
    <3>3. op = [t \in Threads |-> r]
      OBVIOUS
    <3> HIDE DEF r
    <3> QED
      BY <3>2, <3>3
  <2>2. cache \in [Scopes -> SeqOver(Keys, Wrapper)] /\ native \in [Scopes -> SeqOver(Keys, 0..MaxEpoch)]
    BY EmptyCache DEF SeqOver
  <2> QED
    BY <2>1, <2>2 DEF TypeOK, Scopes
<1>2. LimitRespected
  BY EmptyCache, BoundedLimit DEF LimitRespected, Scopes
<1>3. ThreadLocalInv
  <2> SUFFICES ASSUME NEW t \in Threads PROVE OwnState(t)
    BY DEF ThreadLocalInv
  <2>1. op[t].pc = "ready" /\ op[t].born = 0 /\ op[t].floor = 0
    OBVIOUS
  <2>2. stamp[t] = 0 /\ cache[t] = Empty /\ native[t] = Empty
    BY ScopeIsScope
  <2> QED
    BY <2>1, <2>2, EmptyCache DEF OwnState
<1>4. GlobalInv
  <2>1. cache[Shared] = Empty
    BY DEF Scopes
  <2>2. \A t \in Threads : op[t].pc = "ready" /\ op[t].start = 0
    OBVIOUS
  <2> QED
    BY <2>1, <2>2, EmptyCache DEF GlobalInv, SharedState
<1> QED
  BY <1>1, <1>2, <1>3, <1>4 DEF IInv
-----------------------------------------------------------------------------
(* What most steps have in common.                                              *)

\* A step of one call leaves the other calls alone.
LEMMA OpUpdate ==
  ASSUME TypeOK, NEW t \in Threads, NEW r \in Op, op' = [op EXCEPT ![t] = r]
  PROVE  /\ op' \in [Threads -> Op] /\ op'[t] = r
         /\ \A u \in Threads \ {t} : op'[u] = op[u]
BY DEF TypeOK

\* A step that does not touch the shared cache, under the global strategy.
LEMMA SharedStateKept ==
  ASSUME IInv, NEW t \in Threads, NEW r \in Op,
         op' = [op EXCEPT ![t] = r],
         UNCHANGED <<strategy, cache, cleared>>,
         epoch' \in 0..MaxEpoch, epoch' >= epoch,
         strategy = "global" => r.start <= epoch' /\ r.pc # "clearNative"
  PROVE  GlobalInv'
<1> SUFFICES ASSUME strategy = "global" PROVE SharedState'
  BY DEF GlobalInv
<1> USE CacheAssumption
<1>1. op'[t] = r /\ \A u \in Threads \ {t} : op'[u] = op[u]
  BY OpUpdate DEF IInv
<1>2. SharedState
  BY DEF IInv, GlobalInv
<1>3. \A u \in Threads : op'[u].start <= epoch'
  <2> TAKE u \in Threads
  <2>1. CASE u = t
    BY <1>1, <2>1
  <2>2. CASE u # t
    <3>1. op[u].start \in Nat /\ op[u].start <= epoch /\ epoch \in Nat
      BY <1>2 DEF SharedState, IInv, TypeOK, Op
    <3> QED
      BY <1>1, <2>2, <3>1
  <2> QED
    BY <2>1, <2>2
<1>4. \A u \in Threads : op'[u].pc = "clearNative" => cache[Shared] \in Seq(FilledFrom(op'[u].start))
  BY <1>1, <1>2 DEF SharedState
<1>5. cleared <= epoch'
  BY <1>2 DEF SharedState, IInv, TypeOK
<1> QED
  BY <1>2, <1>3, <1>4, <1>5 DEF SharedState

\* A step of a call that leaves the caches and the epoch alone, under the
\* thread-local strategy.
LEMMA OwnStatesKept ==
  ASSUME IInv, NEW t \in Threads, NEW r \in Op,
         op' = [op EXCEPT ![t] = r],
         UNCHANGED <<strategy, epoch, cache, stamp, cleared>>,
         \A u \in Threads \ {t} : native'[u] = native[u],
         strategy = "thread-local" => OwnState(t)'
  PROVE  ThreadLocalInv'
<1> SUFFICES ASSUME strategy = "thread-local" PROVE cleared' = epoch' /\ \A u \in Threads : OwnState(u)'
  BY DEF ThreadLocalInv
<1>1. cleared = epoch /\ \A u \in Threads : OwnState(u)
  BY DEF IInv, ThreadLocalInv
<1>2. ASSUME NEW u \in Threads \ {t} PROVE OwnState(u)'
  <2>1. op'[u] = op[u]
    BY OpUpdate DEF IInv
  <2> QED
    BY <1>1, <1>2, <2>1 DEF OwnState
<1> QED
  BY <1>1, <1>2

-----------------------------------------------------------------------------
(* cached_compile, the lookups.                                                 *)

LEMMA BeginThreadLocalStep ==
  ASSUME IInv, NEW t \in Threads, NEW k \in Keys, BeginThreadLocal(t, k)
  PROVE  IInv'
<1> USE CacheAssumption
<1> DEFINE stale == stamp[t] # epoch
           found == IF stale THEN Empty ELSE cache[t]
           keep == Allowed(k) /\ Bounded(limit[t]) # 0
           hit == keep /\ Has(found, k)
           r == [op[t] EXCEPT !.pc = IF hit THEN "ready" ELSE "lookup",
                              !.key = k, !.keep = keep, !.start = epoch, !.floor = cleared,
                              !.born = IF hit THEN Lookup(found, k).born ELSE op[t].born]
<1>1. /\ strategy = "thread-local" /\ op[t].pc = "ready"
      /\ cache' = [cache EXCEPT ![t] = found]
      /\ stamp' = [stamp EXCEPT ![t] = epoch]
      /\ native' = [native EXCEPT ![t] = IF stale THEN Empty ELSE native[t]]
      /\ op' = [op EXCEPT ![t] = r]
      /\ UNCHANGED <<strategy, epoch, limit, cleared>>
  BY DEF BeginThreadLocal
<1>2. TypeOK /\ OwnState(t) /\ cleared = epoch /\ t \in Scopes
  BY <1>1, ScopeIsScope DEF IInv, ThreadLocalInv
<1>3. found \in Seq(CachedAt(epoch)) /\ Len(found) <= Bounded(limit[t])
  <2>1. Len(cache[t]) <= Bounded(limit[t]) /\ Bounded(limit[t]) \in Nat
    BY <1>2, BoundedLimit DEF IInv, LimitRespected, TypeOK
  <2> QED
    BY <1>2, <2>1, EmptyCache DEF OwnState
<1>4. native'[t] \in Seq(NativeFrom(epoch)) /\ Len(native'[t]) <= NativeLimit
  <2>1. Len(native[t]) <= NativeLimit
    BY <1>2 DEF IInv, LimitRespected
  <2> QED
    BY <1>1, <1>2, <2>1, EmptyCache DEF OwnState, TypeOK
<1>5. hit => Lookup(found, k).born \in 0..MaxEpoch /\ Lookup(found, k).born >= epoch
  <2> SUFFICES ASSUME hit PROVE Lookup(found, k).born \in 0..MaxEpoch /\ Lookup(found, k).born >= epoch
    OBVIOUS
  <2>1. PICK i \in DOMAIN found : Lookup(found, k) = found[i].val
    BY LookupFindsEntry
  <2>2. found[i] \in CachedAt(epoch)
    BY <1>3, <2>1, ElementOfSeq, LenProperties
  <2> QED
    BY <2>1, <2>2 DEF CachedAt, Entries, Wrapper
<1>6. r \in Op
  <2>1. keep \in BOOLEAN
    BY DEF Allowed
  <2>2. op[t] \in Op /\ epoch \in 0..MaxEpoch /\ cleared \in 0..MaxEpoch
    BY <1>2 DEF TypeOK
  <2>3. (IF hit THEN Lookup(found, k).born ELSE op[t].born) \in 0..MaxEpoch
    BY <1>5, <2>2 DEF Op
  <2>4. (IF hit THEN "ready" ELSE "lookup") \in Phases
    BY DEF Phases
  <2> HIDE DEF keep, hit
  <2> QED
    BY <2>1, <2>2, <2>3, <2>4 DEF Op
<1>7. /\ r.pc \in {"ready", "lookup"} /\ r.start = epoch /\ r.floor = cleared
      /\ r.pc = "ready" => r.born >= epoch
  BY <1>2, <1>5 DEF TypeOK, Op
<1> HIDE DEF r, found, stale, hit, keep
<1>8. /\ op' \in [Threads -> Op] /\ op'[t] = r /\ \A u \in Threads \ {t} : op'[u] = op[u]
  BY <1>1, <1>2, <1>6, OpUpdate
<1>9. TypeOK'
  <2>1. CachedAt(epoch) \subseteq Entries /\ NativeFrom(epoch) \subseteq NativeEntries
    BY DEF CachedAt, NativeFrom
  <2>2. found \in SeqOver(Keys, Wrapper) /\ native'[t] \in SeqOver(Keys, 0..MaxEpoch)
    BY ZenonT(30), <1>3, <1>4, <2>1, SeqOfMore DEF SeqOver, Entries, NativeEntries
  <2> QED
    BY <1>1, <1>2, <1>8, <2>2 DEF TypeOK
<1>10. LimitRespected'
  BY <1>1, <1>2, <1>3, <1>4 DEF LimitRespected, IInv, TypeOK
<1>11. ThreadLocalInv'
  <2>1. OwnState(t)'
    BY <1>1, <1>2, <1>3, <1>4, <1>7, <1>8 DEF OwnState, TypeOK
  <2>2. ASSUME NEW u \in Threads \ {t} PROVE OwnState(u)'
    <3>1. UNCHANGED <<op[u], stamp[u], cache[u], native[u]>> /\ OwnState(u)
      BY <1>1, <1>2, <1>8, ScopeIsScope DEF IInv, ThreadLocalInv, TypeOK
    <3> QED
      BY <1>1, <3>1 DEF OwnState
  <2> QED
    BY <1>1, <1>2, <2>1, <2>2 DEF ThreadLocalInv
<1>12. GlobalInv'
  BY <1>1 DEF GlobalInv
<1> QED
  BY <1>9, <1>10, <1>11, <1>12 DEF IInv

LEMMA BeginGlobalStep ==
  ASSUME IInv, NEW t \in Threads, NEW k \in Keys, BeginGlobal(t, k)
  PROVE  IInv'
<1> USE CacheAssumption
<1> DEFINE c == cache[Shared]
           keep == Allowed(k) /\ Bounded(limit[Shared]) # 0
           hit == keep /\ Has(c, k)
           pc == CASE hit -> "ready" [] keep /\ ~hit -> "compile" [] OTHER -> "lookup"
           born == IF hit THEN Lookup(c, k).born ELSE op[t].born
           r == [op[t] EXCEPT !.pc = pc, !.key = k, !.keep = keep, !.floor = cleared, !.born = born]
<1>1. /\ strategy = "global" /\ op' = [op EXCEPT ![t] = r]
      /\ UNCHANGED <<strategy, epoch, limit, cache, stamp, native, cleared>>
  BY DEF BeginGlobal
<1>2. /\ TypeOK /\ op[t] \in Op /\ epoch \in 0..MaxEpoch /\ cleared \in 0..MaxEpoch
      /\ c \in Seq(Entries) /\ op[t].start <= epoch
  <2>1. c \in Seq(Entries)
    BY DEF IInv, TypeOK, Scopes, SeqOver, Entries
  <2> QED
    BY <1>1, <2>1 DEF IInv, TypeOK, GlobalInv, SharedState
<1>3. hit => Lookup(c, k).born \in 0..MaxEpoch
  <2> SUFFICES ASSUME hit PROVE Lookup(c, k).born \in 0..MaxEpoch
    OBVIOUS
  <2>1. PICK i \in DOMAIN c : Lookup(c, k) = c[i].val
    BY LookupFindsEntry
  <2>2. c[i] \in Entries
    BY <1>2, <2>1, ElementOfSeq, LenProperties
  <2> QED
    BY <2>1, <2>2 DEF Entries, Wrapper
<1>4. keep \in BOOLEAN /\ born \in 0..MaxEpoch /\ pc \in {"ready", "compile", "lookup"}
  <2>1. keep \in BOOLEAN
    BY DEF Allowed
  <2>2. born \in 0..MaxEpoch
    BY <1>2, <1>3 DEF Op
  <2>3. pc \in {"ready", "compile", "lookup"}
    OBVIOUS
  <2> QED
    BY <2>1, <2>2, <2>3
<1> HIDE DEF keep, hit, pc, born, c
<1>5. r \in Op /\ r.start = op[t].start /\ r.pc # "clearNative"
  BY <1>2, <1>4 DEF Op, Phases
<1> HIDE DEF r
<1>6. TypeOK'
  BY <1>1, <1>2, <1>5, OpUpdate DEF TypeOK
<1>7. LimitRespected' /\ ThreadLocalInv'
  BY <1>1 DEF IInv, LimitRespected, ThreadLocalInv
<1>8. GlobalInv'
  <2>1. UNCHANGED <<strategy, cache, cleared>> /\ epoch' \in 0..MaxEpoch /\ epoch' >= epoch
    BY <1>1, <1>2
  <2>2. r.start <= epoch' /\ r.pc # "clearNative"
    BY <1>1, <1>2, <1>5
  <2> QED
    BY <1>1, <1>5, <2>1, <2>2, SharedStateKept
<1> QED
  BY <1>6, <1>7, <1>8 DEF IInv

\* What the call holds is judged under the thread-local strategy alone.
LEMMA ReadCompileEpochStep ==
  ASSUME IInv, NEW t \in Threads, ReadCompileEpoch(t)
  PROVE  IInv'
<1> USE CacheAssumption
<1> DEFINE r == [op[t] EXCEPT !.pc = "lookup", !.start = epoch]
<1>1. /\ op[t].pc = "compile" /\ op' = [op EXCEPT ![t] = r]
      /\ UNCHANGED <<strategy, epoch, limit, cache, stamp, native, cleared>>
  BY DEF ReadCompileEpoch
<1>2. TypeOK /\ op[t] \in Op /\ epoch \in 0..MaxEpoch
  BY DEF IInv, TypeOK
<1>3. r \in Op /\ r.start = epoch /\ r.pc = "lookup"
  BY <1>2 DEF Op, Phases
<1> HIDE DEF r
<1>4. TypeOK' /\ LimitRespected'
  BY <1>1, <1>2, <1>3, OpUpdate DEF TypeOK, IInv, LimitRespected
<1>5. ThreadLocalInv'
  BY <1>1 DEF IInv, ThreadLocalInv, OwnState
<1>6. GlobalInv'
  <2>1. UNCHANGED <<strategy, cache, cleared>> /\ epoch' \in 0..MaxEpoch /\ epoch' >= epoch
    BY <1>1, <1>2
  <2>2. r.start <= epoch' /\ r.pc # "clearNative"
    BY <1>1, <1>2, <1>3
  <2> QED
    BY <1>1, <1>3, <2>1, <2>2, SharedStateKept
<1> QED
  BY <1>4, <1>5, <1>6 DEF IInv

-----------------------------------------------------------------------------
(* Pattern_compile_cached.                                                      *)

\* A step of the native cache that leaves every cache alone, and goes on with a
\* pattern of the right age.
LEMMA NativeStepKeeps ==
  ASSUME IInv, NEW t \in Threads, NEW r \in Op,
         op' = [op EXCEPT ![t] = r],
         UNCHANGED <<strategy, epoch, limit, cache, stamp, native, cleared>>,
         r.start = op[t].start,
         strategy = "global" => r.pc # "clearNative",
         strategy = "thread-local" =>
           /\ r.pc \in {"ready", "create", "store", "insert"}
           /\ r.pc = "ready" => r.born >= r.floor
           /\ r.pc # "ready" => r.floor <= r.start /\ r.start <= stamp[t]
           /\ r.pc = "store" => r.born >= stamp[t]
           /\ r.pc = "insert" => r.born >= r.start
  PROVE  IInv'
<1>1. TypeOK /\ op'[t] = r /\ epoch \in 0..MaxEpoch
  BY OpUpdate DEF IInv, TypeOK
<1>2. TypeOK' /\ LimitRespected'
  BY <1>1, OpUpdate DEF TypeOK, IInv, LimitRespected
<1>3. strategy = "thread-local" => OwnState(t)'
  BY <1>1 DEF IInv, ThreadLocalInv, OwnState
<1>4. ThreadLocalInv'
  BY <1>3, OwnStatesKept
<1>5. strategy = "global" => r.start <= epoch' /\ r.pc # "clearNative"
  BY DEF IInv, GlobalInv, SharedState
<1>6. GlobalInv'
  <2>1. UNCHANGED <<strategy, cache, cleared>> /\ epoch' \in 0..MaxEpoch /\ epoch' >= epoch
    BY <1>1, CacheAssumption
  <2> QED
    BY <1>5, <2>1, SharedStateKept
<1> QED
  BY <1>2, <1>4, <1>6 DEF IInv

LEMMA NativeLookupStep ==
  ASSUME IInv, NEW t \in Threads, NativeLookup(t)
  PROVE  IInv'
<1> USE CacheAssumption
<1> DEFINE n == native[ScopeOf(t)]
           k == op[t].key
           hit == Allowed(k) /\ Has(n, k)
           pc == IF hit THEN AfterNative(t) ELSE "create"
           born == IF hit THEN Lookup(n, k) ELSE op[t].born
           r == [op[t] EXCEPT !.pc = pc, !.born = born]
<1>1. /\ op[t].pc = "lookup" /\ op' = [op EXCEPT ![t] = r]
      /\ UNCHANGED <<strategy, epoch, limit, cache, stamp, native, cleared>>
  BY DEF NativeLookup
<1>2. TypeOK /\ op[t] \in Op /\ n \in Seq(NativeEntries)
  BY ScopeIsScope DEF IInv, TypeOK, SeqOver, NativeEntries
<1>3. ASSUME hit
      PROVE  /\ Lookup(n, k) \in 0..MaxEpoch
             /\ strategy = "thread-local" => Lookup(n, k) >= stamp[t]
  <2>1. PICK i \in DOMAIN n : Lookup(n, k) = n[i].val
    BY <1>3, LookupFindsEntry
  <2>2. n[i] \in NativeEntries
    BY <1>2, <2>1, ElementOfSeq, LenProperties
  <2>3. ASSUME strategy = "thread-local" PROVE n[i] \in NativeFrom(stamp[t])
    <3>1. n \in Seq(NativeFrom(stamp[t]))
      BY <2>3 DEF IInv, ThreadLocalInv, OwnState, ScopeOf
    <3> QED
      BY <2>1, <3>1, ElementOfSeq, LenProperties
  <2> QED
    BY <2>1, <2>2, <2>3 DEF NativeEntries, NativeFrom
<1>4. born \in 0..MaxEpoch /\ pc \in {"ready", "create", "insert"} /\ (pc # "create" => hit)
  BY <1>2, <1>3 DEF Op, AfterNative
<1>5. r \in Op /\ r.pc = pc /\ r.born = born /\ r.start = op[t].start /\ r.floor = op[t].floor
  <2> HIDE DEF pc, born
  <2> QED
    BY <1>2, <1>4 DEF Op, Phases
<1>6. ASSUME strategy = "thread-local"
      PROVE  /\ op[t].floor <= op[t].start /\ op[t].start <= stamp[t]
             /\ pc # "create" => born >= op[t].start /\ born >= op[t].floor
  <2>1. op[t].floor <= op[t].start /\ op[t].start <= stamp[t]
    BY <1>1, <1>6 DEF IInv, ThreadLocalInv, OwnState
  <2>2. op[t].floor \in Nat /\ op[t].start \in Nat /\ stamp[t] \in Nat
    BY <1>2, ScopeIsScope DEF TypeOK, Op
  <2>3. pc # "create" => born >= stamp[t]
    BY <1>3, <1>4, <1>6
  <2> QED
    BY <1>4, <2>1, <2>2, <2>3
<1> HIDE DEF r, pc, born, hit, n, k
<1> QED
  BY <1>1, <1>4, <1>5, <1>6, NativeStepKeeps

LEMMA NativeCreateStep ==
  ASSUME IInv, NEW t \in Threads, NativeCreate(t)
  PROVE  IInv'
<1> USE CacheAssumption
<1> DEFINE pc == IF Allowed(op[t].key) THEN "store" ELSE AfterNative(t)
           r == [op[t] EXCEPT !.pc = pc, !.born = epoch]
<1>1. /\ op[t].pc = "create" /\ op' = [op EXCEPT ![t] = r]
      /\ UNCHANGED <<strategy, epoch, limit, cache, stamp, native, cleared>>
  BY DEF NativeCreate
<1>2. TypeOK /\ op[t] \in Op /\ epoch \in 0..MaxEpoch
  BY DEF IInv, TypeOK
<1>3. pc \in {"ready", "store", "insert"}
  BY DEF AfterNative
<1> HIDE DEF pc
<1>4. r \in Op /\ r.pc = pc /\ r.born = epoch /\ r.start = op[t].start /\ r.floor = op[t].floor
  BY <1>2, <1>3 DEF Op, Phases
<1>5. ASSUME strategy = "thread-local"
      PROVE  /\ op[t].floor <= op[t].start /\ op[t].start <= stamp[t] /\ stamp[t] <= epoch
             /\ op[t].floor <= epoch /\ op[t].start <= epoch
  <2>1. op[t].floor <= op[t].start /\ op[t].start <= stamp[t] /\ stamp[t] <= epoch
    BY <1>1, <1>5 DEF IInv, ThreadLocalInv, OwnState
  <2>2. op[t].floor \in Nat /\ op[t].start \in Nat /\ stamp[t] \in Nat /\ epoch \in Nat
    BY <1>2, ScopeIsScope DEF TypeOK, Op
  <2> QED
    BY <2>1, <2>2
<1>6. epoch >= op[t].floor <=> op[t].floor <= epoch
  BY <1>2 DEF Op
<1> HIDE DEF r
<1>7. strategy = "thread-local" =>
           /\ r.pc \in {"ready", "create", "store", "insert"}
           /\ r.pc = "ready" => r.born >= r.floor
           /\ r.pc # "ready" => r.floor <= r.start /\ r.start <= stamp[t]
           /\ r.pc = "store" => r.born >= stamp[t]
           /\ r.pc = "insert" => r.born >= r.start
  <2>1. op[t].floor \in Nat /\ op[t].start \in Nat /\ stamp[t] \in Nat /\ epoch \in Nat
    BY <1>2, ScopeIsScope DEF TypeOK, Op
  <2> QED
    BY <1>3, <1>4, <1>5, <2>1
<1> QED
  BY <1>1, <1>3, <1>4, <1>7, NativeStepKeeps

LEMMA NativeFailsStep ==
  ASSUME IInv, NEW t \in Threads, NativeFails(t)
  PROVE  IInv'
<1> USE CacheAssumption
<1> DEFINE r == [op[t] EXCEPT !.pc = "ready", !.floor = 0]
<1>1. /\ op' = [op EXCEPT ![t] = r]
      /\ UNCHANGED <<strategy, epoch, limit, cache, stamp, native, cleared>>
  BY DEF NativeFails
<1>2. op[t] \in Op
  BY DEF IInv, TypeOK
<1>3. r \in Op /\ r.pc = "ready" /\ r.floor = 0 /\ r.born = op[t].born /\ r.start = op[t].start
  <2>1. 0 \in 0..MaxEpoch
    OBVIOUS
  <2> QED
    BY <1>2, <2>1 DEF Op, Phases
<1>4. op[t].born \in Nat /\ op[t].born >= 0
  BY <1>2 DEF Op
<1> HIDE DEF r
<1> QED
  BY <1>1, <1>3, <1>4, NativeStepKeeps

LEMMA NativeStoreStep ==
  ASSUME IInv, NEW t \in Threads, NativeStore(t)
  PROVE  IInv'
<1> USE CacheAssumption
<1> DEFINE s == ScopeOf(t)
           n == native[s]
           stored == Assign(n, op[t].key, op[t].born)
           kept == IF Has(n, op[t].key) THEN stored ELSE TrimTo(stored, NativeLimit)
           r == [op[t] EXCEPT !.pc = AfterNative(t)]
<1>1. /\ op[t].pc = "store" /\ op' = [op EXCEPT ![t] = r]
      /\ native' = [native EXCEPT ![s] = kept]
      /\ UNCHANGED <<strategy, epoch, limit, cache, stamp, cleared>>
  BY DEF NativeStore
<1>2. /\ TypeOK /\ op[t] \in Op /\ s \in Scopes /\ n \in Seq(NativeEntries)
      /\ Len(n) <= NativeLimit /\ epoch \in 0..MaxEpoch
  BY ScopeIsScope DEF IInv, TypeOK, SeqOver, NativeEntries, LimitRespected
<1>3. ASSUME NEW S, n \in Seq(S), [key |-> op[t].key, val |-> op[t].born] \in S
      PROVE  kept \in Seq(S) /\ Len(kept) <= NativeLimit
  <2>1. stored \in Seq(S) /\ (Has(n, op[t].key) => Len(stored) = Len(n))
    BY <1>3, AssignProperties
  <2>2. TrimTo(stored, NativeLimit) \in Seq(S) /\ Len(TrimTo(stored, NativeLimit)) <= NativeLimit
    BY <2>1, TrimToProperties
  <2> QED
    BY <1>2, <2>1, <2>2
<1>4. r \in Op /\ r.pc = AfterNative(t) /\ r.pc \in {"ready", "insert"}
      /\ r.start = op[t].start /\ r.floor = op[t].floor /\ r.born = op[t].born
  BY <1>2 DEF Op, Phases, AfterNative
<1> HIDE DEF r, kept, stored
<1>5. kept \in Seq(NativeEntries) /\ Len(kept) <= NativeLimit
  BY <1>2, <1>3 DEF NativeEntries, Op
<1>6. op' \in [Threads -> Op] /\ op'[t] = r
  BY <1>1, <1>2, <1>4, OpUpdate
<1>7. TypeOK'
  BY <1>1, <1>2, <1>5, <1>6 DEF TypeOK, SeqOver, NativeEntries
<1>8. LimitRespected'
  BY <1>1, <1>2, <1>5 DEF LimitRespected, IInv, TypeOK
<1>9. ThreadLocalInv'
  <2>1. ASSUME strategy = "thread-local" PROVE OwnState(t)'
    <3>1. s = t /\ OwnState(t)
      BY <2>1 DEF ScopeOf, IInv, ThreadLocalInv
    <3>2. op[t].floor \in Nat /\ op[t].start \in Nat /\ stamp[t] \in Nat /\ op[t].born \in 0..MaxEpoch
      BY <1>2, ScopeIsScope DEF TypeOK, Op
    <3>3. op[t].born >= stamp[t] /\ op[t].floor <= op[t].start /\ op[t].start <= stamp[t]
      BY <1>1, <3>1 DEF OwnState
    <3>4. kept \in Seq(NativeFrom(stamp[t]))
      <4>1. n \in Seq(NativeFrom(stamp[t]))
        BY <3>1 DEF OwnState
      <4>2. [key |-> op[t].key, val |-> op[t].born] \in NativeFrom(stamp[t])
        BY <1>2, <3>2, <3>3 DEF NativeFrom, NativeEntries, Op
      <4> QED
        BY <1>3, <4>1, <4>2
    <3>5. native'[t] = kept /\ stamp'[t] = stamp[t] /\ cache'[t] = cache[t]
      BY <1>1, <1>2, <3>1 DEF TypeOK
    <3>6. r.born >= r.floor /\ r.born >= r.start
      BY <1>4, <3>2, <3>3
    <3> QED
      BY <1>1, <1>4, <1>6, <3>1, <3>3, <3>4, <3>5, <3>6 DEF OwnState
  <2>2. ASSUME strategy = "thread-local", NEW u \in Threads \ {t} PROVE native'[u] = native[u]
    BY <1>1, <1>2, <2>2, ScopeIsScope DEF TypeOK, ScopeOf
  <2>3. CASE strategy = "thread-local"
    BY <1>1, <1>4, <2>1, <2>2, <2>3, OwnStatesKept
  <2>4. CASE strategy # "thread-local"
    BY <1>1, <2>4 DEF ThreadLocalInv
  <2> QED
    BY <2>3, <2>4
<1>10. GlobalInv'
  <2>1. strategy = "global" => r.start <= epoch' /\ r.pc # "clearNative"
    BY <1>1, <1>4 DEF IInv, GlobalInv, SharedState
  <2>2. UNCHANGED <<strategy, cache, cleared>> /\ epoch' \in 0..MaxEpoch /\ epoch' >= epoch
    BY <1>1, <1>2
  <2> QED
    BY <1>1, <1>4, <2>1, <2>2, SharedStateKept
<1> QED
  BY <1>7, <1>8, <1>9, <1>10 DEF IInv


-----------------------------------------------------------------------------
(* cached_compile, the insertions.                                              *)

LEMMA InsertThreadLocalStep ==
  ASSUME IInv, NEW t \in Threads, InsertThreadLocal(t)
  PROVE  IInv'
<1> USE CacheAssumption
<1> DEFINE active == Bounded(limit[t])
           c == cache[t]
           kept == IF FillIsCurrent(t) /\ active # 0
                   THEN Assign(MakeRoom(c, active), op[t].key, Entry(t)) ELSE c
           r == [op[t] EXCEPT !.pc = "ready"]
<1>1. /\ strategy = "thread-local" /\ op[t].pc = "insert"
      /\ op' = [op EXCEPT ![t] = r]
      /\ cache' = [cache EXCEPT ![t] = kept]
      /\ UNCHANGED <<strategy, epoch, limit, stamp, native, cleared>>
  BY DEF InsertThreadLocal
<1>2. TypeOK /\ OwnState(t) /\ cleared = epoch /\ t \in Scopes
  BY <1>1, ScopeIsScope DEF IInv, ThreadLocalInv
<1>3. /\ op[t] \in Op /\ active \in Nat /\ Len(c) <= active
      /\ op[t].floor \in Nat /\ op[t].start \in 0..MaxEpoch /\ op[t].born \in 0..MaxEpoch
      /\ stamp[t] \in 0..MaxEpoch /\ epoch \in 0..MaxEpoch
  <2>1. limit[t] \in Limits \cup {DefaultLimit} /\ op[t] \in Op
        /\ stamp[t] \in 0..MaxEpoch /\ epoch \in 0..MaxEpoch
    BY <1>2 DEF TypeOK
  <2>2. Len(c) <= active
    BY <1>2 DEF IInv, LimitRespected
  <2>3. active \in Nat
    BY <2>1, BoundedLimit
  <2>4. op[t].floor \in Nat /\ op[t].start \in 0..MaxEpoch /\ op[t].born \in 0..MaxEpoch
    BY <2>1 DEF Op
  <2> QED
    BY <2>1, <2>2, <2>3, <2>4
<1>4. kept \in Seq(CachedAt(stamp[t])) /\ Len(kept) <= active
  <2>1. c \in Seq(CachedAt(stamp[t]))
    BY <1>2 DEF OwnState
  <2>2. CASE FillIsCurrent(t) /\ active # 0
    <3>1. op[t].start = stamp[t] /\ op[t].born >= stamp[t]
      BY <1>1, <1>2, <1>3, <2>2 DEF OwnState, FillIsCurrent
    <3>2. [key |-> op[t].key, val |-> Entry(t)] \in CachedAt(stamp[t])
      BY <1>3, <3>1 DEF CachedAt, Entries, Wrapper, Entry, Op
    <3> HIDE DEF c, active
    <3> QED
      BY <1>3, <2>1, <2>2, <3>2, InsertProperties
  <2>3. CASE ~(FillIsCurrent(t) /\ active # 0)
    BY <1>3, <2>1, <2>3
  <2> QED
    BY <2>2, <2>3
<1>5. r \in Op /\ r.pc = "ready" /\ r.born >= r.floor
  <2>1. r \in Op /\ r.pc = "ready" /\ r.born = op[t].born /\ r.floor = op[t].floor
    BY <1>3 DEF Op, Phases
  <2>2. op[t].floor <= op[t].start /\ op[t].born >= op[t].start
    BY <1>1, <1>2 DEF OwnState
  <2>3. op[t].born >= op[t].floor
    BY <1>3, <2>2
  <2> QED
    BY <2>1, <2>3
<1> HIDE DEF r, kept, c
<1>6. op' \in [Threads -> Op] /\ op'[t] = r /\ \A u \in Threads \ {t} : op'[u] = op[u]
  BY <1>1, <1>2, <1>5, OpUpdate
<1>7. TypeOK'
  <2>1. CachedAt(stamp[t]) \subseteq Entries
    BY DEF CachedAt
  <2>2. kept \in SeqOver(Keys, Wrapper)
    BY <1>4, <2>1, SeqOfMore DEF SeqOver, Entries
  <2> QED
    BY <1>1, <1>2, <1>6, <2>2 DEF TypeOK
<1>8. LimitRespected'
  BY <1>1, <1>2, <1>4 DEF LimitRespected, IInv, TypeOK
<1>9. ThreadLocalInv'
  <2>1. OwnState(t)'
    BY <1>1, <1>2, <1>4, <1>5, <1>6 DEF OwnState, TypeOK
  <2>2. ASSUME NEW u \in Threads \ {t} PROVE OwnState(u)'
    <3>1. UNCHANGED <<op[u], stamp[u], cache[u], native[u]>> /\ OwnState(u)
      BY <1>1, <1>2, <1>6, ScopeIsScope DEF IInv, ThreadLocalInv, TypeOK
    <3> QED
      BY <1>1, <3>1 DEF OwnState
  <2> QED
    BY <1>1, <1>2, <2>1, <2>2 DEF ThreadLocalInv
<1>10. GlobalInv'
  BY <1>1 DEF GlobalInv
<1> QED
  BY <1>7, <1>8, <1>9, <1>10 DEF IInv

LEMMA InsertGlobalStep ==
  ASSUME IInv, NEW t \in Threads, InsertGlobal(t)
  PROVE  IInv'
<1> USE CacheAssumption
<1> DEFINE c == cache[Shared]
           keeps == FillIsCurrent(t) /\ limit[Shared] # 0
           lost == keeps /\ Has(c, op[t].key)
           kept == IF keeps /\ ~lost
                   THEN Assign(MakeRoom(c, Bounded(limit[Shared])), op[t].key, Entry(t)) ELSE c
           born == IF lost THEN Lookup(c, op[t].key).born ELSE op[t].born
           r == [op[t] EXCEPT !.pc = "ready", !.born = born]
<1>1. /\ strategy = "global" /\ op' = [op EXCEPT ![t] = r]
      /\ cache' = [cache EXCEPT ![Shared] = kept]
      /\ UNCHANGED <<strategy, epoch, limit, stamp, native, cleared>>
  BY DEF InsertGlobal
<1>2. TypeOK /\ SharedState /\ Shared \in Scopes /\ op[t] \in Op
  BY <1>1 DEF IInv, GlobalInv, Scopes, TypeOK
<1>3. /\ c \in Seq(Entries) /\ Distinct(c) /\ Len(c) <= Bounded(limit[Shared])
      /\ epoch \in 0..MaxEpoch /\ op[t].start \in 0..MaxEpoch /\ op[t].born \in 0..MaxEpoch
      /\ Bounded(limit[Shared]) \in Nat /\ (limit[Shared] # 0 => Bounded(limit[Shared]) # 0)
  BY <1>2, BoundedLimit DEF TypeOK, SeqOver, Entries, Op, IInv, LimitRespected, SharedState
<1>4. born \in 0..MaxEpoch
  <2> SUFFICES ASSUME lost PROVE Lookup(c, op[t].key).born \in 0..MaxEpoch
    BY <1>3
  <2>1. PICK i \in DOMAIN c : Lookup(c, op[t].key) = c[i].val
    BY LookupFindsEntry
  <2>2. c[i] \in Entries
    BY <1>3, <2>1, ElementOfSeq, LenProperties
  <2> QED
    BY <2>1, <2>2 DEF Entries, Wrapper
<1>5. ASSUME NEW n \in Nat, n <= epoch, c \in Seq(FilledFrom(n))
      PROVE  kept \in Seq(FilledFrom(n)) /\ Len(kept) <= Bounded(limit[Shared]) /\ Distinct(kept)
  <2>1. CASE keeps /\ ~lost
    <3>1. op[t].start = epoch
      BY <2>1 DEF FillIsCurrent
    <3>2. [key |-> op[t].key, val |-> Entry(t)] \in FilledFrom(n)
      BY <1>2, <1>3, <1>5, <3>1 DEF FilledFrom, Entries, Wrapper, Entry, Op
    <3> HIDE DEF c
    <3> QED
      BY <1>3, <1>5, <2>1, <3>2, InsertProperties
  <2>2. CASE ~(keeps /\ ~lost)
    BY <1>3, <1>5, <2>2
  <2> QED
    BY <2>1, <2>2
<1> HIDE DEF lost, keeps, kept, born, c
<1>6. r \in Op /\ r.pc = "ready" /\ r.start = op[t].start
  BY <1>2, <1>4 DEF Op, Phases
<1> HIDE DEF r
<1>7. op' \in [Threads -> Op] /\ op'[t] = r /\ \A u \in Threads \ {t} : op'[u] = op[u]
  BY <1>1, <1>2, <1>6, OpUpdate
<1>8. /\ kept \in Seq(FilledFrom(cleared)) /\ Len(kept) <= Bounded(limit[Shared]) /\ Distinct(kept)
  <2>1. cleared \in Nat /\ cleared <= epoch /\ c \in Seq(FilledFrom(cleared))
    BY <1>2 DEF SharedState, TypeOK, c
  <2> QED
    BY <1>5, <2>1
<1>9. TypeOK'
  <2>1. FilledFrom(cleared) \subseteq Entries
    BY DEF FilledFrom
  <2>2. kept \in SeqOver(Keys, Wrapper)
    BY <1>8, <2>1, SeqOfMore DEF SeqOver, Entries
  <2> QED
    BY <1>1, <1>2, <1>7, <2>2 DEF TypeOK
<1>10. LimitRespected'
  BY <1>1, <1>2, <1>8 DEF LimitRespected, IInv, TypeOK
<1>11. ThreadLocalInv'
  BY <1>1 DEF ThreadLocalInv
<1>12. GlobalInv'
  <2>1. cache'[Shared] = kept
    BY <1>1, <1>2 DEF TypeOK
  <2>2. ASSUME NEW u \in Threads
        PROVE  /\ op'[u].start <= epoch
               /\ op'[u].pc = "clearNative" => kept \in Seq(FilledFrom(op'[u].start))
    <3>1. CASE u = t
      BY <1>2, <1>6, <1>7, <3>1 DEF SharedState
    <3>2. CASE u # t
      <4>1. op'[u] = op[u] /\ op[u].start \in Nat /\ op[u].start <= epoch
        BY <1>2, <1>7, <3>2 DEF SharedState, TypeOK, Op
      <4>2. op[u].pc = "clearNative" => c \in Seq(FilledFrom(op[u].start))
        BY <1>2 DEF SharedState, c
      <4> QED
        BY <1>5, <4>1, <4>2
    <3> QED
      BY <3>1, <3>2
  <2> QED
    BY <1>1, <1>2, <1>8, <2>1, <2>2 DEF GlobalInv, SharedState
<1> QED
  BY <1>9, <1>10, <1>11, <1>12 DEF IInv


-----------------------------------------------------------------------------
(* clear_cache and set_cache_limit.                                             *)

\* What a thread does to its own caches between two calls or inside the callback
\* of its own compile is right if what it leaves there suits the new stamp.
LEMMA OwnCachesStep ==
  ASSUME IInv, NEW t \in Threads, strategy = "thread-local", MayReenter(t),
         NEW e \in epoch..MaxEpoch, NEW n \in stamp[t]..e,
         NEW c \in Seq(CachedAt(n)), NEW p \in Seq(NativeFrom(n)),
         NEW l \in Limits \cup {DefaultLimit},
         Len(c) <= Bounded(l), Len(p) <= NativeLimit,
         UNCHANGED <<strategy, op>>,
         epoch' = e, cleared' = e,
         cache' = [cache EXCEPT ![t] = c], stamp' = [stamp EXCEPT ![t] = n],
         native' = [native EXCEPT ![t] = p], limit' = [limit EXCEPT ![t] = l]
  PROVE  IInv'
<1> USE CacheAssumption
<1>1. TypeOK /\ OwnState(t) /\ cleared = epoch /\ t \in Scopes /\ stamp[t] \in 0..MaxEpoch
      /\ epoch \in 0..MaxEpoch /\ e \in 0..MaxEpoch /\ n \in 0..MaxEpoch /\ e >= epoch /\ e >= n
  <2>1. TypeOK /\ OwnState(t) /\ cleared = epoch /\ t \in Scopes
    BY ScopeIsScope DEF IInv, ThreadLocalInv
  <2> QED
    BY <2>1 DEF TypeOK
<1>2. TypeOK'
  <2>1. CachedAt(n) \subseteq Entries /\ NativeFrom(n) \subseteq NativeEntries
    BY DEF CachedAt, NativeFrom
  <2>2. c \in SeqOver(Keys, Wrapper) /\ p \in SeqOver(Keys, 0..MaxEpoch)
    BY <2>1, SeqOfMore DEF SeqOver, Entries, NativeEntries
  <2> QED
    BY <1>1, <2>2 DEF TypeOK
<1>3. LimitRespected'
  BY <1>1 DEF LimitRespected, IInv, TypeOK
<1>4. OwnState(t)'
  <2>1. /\ op'[t] = op[t] /\ stamp'[t] = n /\ cache'[t] = c /\ native'[t] = p
        /\ op[t].pc \in {"ready", "insert"}
    BY <1>1 DEF TypeOK, MayReenter
  <2>2. op[t].pc # "ready" => op[t].floor <= op[t].start /\ op[t].start <= n
    <3>1. op[t].start \in Nat /\ op[t].pc # "ready" => op[t].start <= stamp[t]
      BY <1>1 DEF TypeOK, Op, OwnState
    <3>2. op[t].start \in Nat
      BY <1>1 DEF TypeOK, Op
    <3> QED
      BY <1>1, <3>1, <3>2 DEF OwnState
  <2> QED
    BY <1>1, <2>1, <2>2 DEF OwnState
<1>5. ASSUME NEW u \in Threads \ {t} PROVE OwnState(u)'
  <2>1. UNCHANGED <<op[u], stamp[u], cache[u], native[u]>> /\ OwnState(u)
    BY <1>1, ScopeIsScope DEF IInv, ThreadLocalInv, TypeOK
  <2>2. stamp[u] <= e
    <3>1. stamp[u] \in Nat /\ stamp[u] <= epoch
      BY <1>1, <2>1, ScopeIsScope DEF TypeOK, OwnState
    <3> QED
      BY <1>1, <3>1
  <2> QED
    BY <2>1, <2>2 DEF OwnState
<1>6. ThreadLocalInv' /\ GlobalInv'
  BY <1>4, <1>5 DEF ThreadLocalInv, GlobalInv
<1> QED
  BY <1>2, <1>3, <1>6 DEF IInv

LEMMA ClearThreadLocalStep ==
  ASSUME IInv, NEW t \in Threads, ClearThreadLocal(t)
  PROVE  IInv'
<1> USE CacheAssumption
<1>1. /\ strategy = "thread-local" /\ MayReenter(t) /\ epoch < MaxEpoch
      /\ epoch' = epoch + 1 /\ cleared' = epoch + 1
      /\ cache' = [cache EXCEPT ![t] = Empty]
      /\ stamp' = [stamp EXCEPT ![t] = epoch + 1]
      /\ native' = [native EXCEPT ![t] = Empty]
      /\ UNCHANGED <<strategy, op, limit>>
  BY DEF ClearThreadLocal
<1>2. TypeOK /\ OwnState(t) /\ t \in Scopes
  BY <1>1, ScopeIsScope DEF IInv, ThreadLocalInv
<1>3. epoch + 1 \in epoch..MaxEpoch /\ epoch + 1 \in stamp[t]..(epoch + 1)
  BY <1>1, <1>2 DEF TypeOK, OwnState
<1>4. limit[t] \in Limits \cup {DefaultLimit} /\ limit' = [limit EXCEPT ![t] = limit[t]]
  BY <1>1, <1>2 DEF TypeOK
<1>5. Empty \in Seq(CachedAt(epoch + 1)) /\ Empty \in Seq(NativeFrom(epoch + 1))
      /\ Len(Empty) <= Bounded(limit[t]) /\ Len(Empty) <= NativeLimit
  BY <1>4, BoundedLimit, EmptyCache
<1>6. UNCHANGED <<strategy, op>>
  BY <1>1
<1> QED
  BY <1>1, <1>3, <1>4, <1>5, <1>6, OwnCachesStep

LEMMA SetLimitThreadLocalStep ==
  ASSUME IInv, NEW t \in Threads, NEW l \in Limits, SetLimitThreadLocal(t, l)
  PROVE  IInv'
<1> USE CacheAssumption
<1> DEFINE c == TrimTo(cache[t], Bounded(l))
           p == IF Bounded(l) = 0 THEN Empty ELSE native[t]
<1>1. /\ strategy = "thread-local" /\ MayReenter(t)
      /\ cache' = [cache EXCEPT ![t] = c]
      /\ native' = [native EXCEPT ![t] = p]
      /\ limit' = [limit EXCEPT ![t] = l]
      /\ UNCHANGED <<strategy, op, epoch, stamp, cleared>>
  BY DEF SetLimitThreadLocal
<1>2. TypeOK /\ OwnState(t) /\ t \in Scopes /\ cleared = epoch
  BY <1>1, ScopeIsScope DEF IInv, ThreadLocalInv
<1>3. epoch \in epoch..MaxEpoch /\ stamp[t] \in stamp[t]..epoch /\ l \in Limits \cup {DefaultLimit}
  BY <1>2 DEF TypeOK, OwnState
<1>4. c \in Seq(CachedAt(stamp[t])) /\ Len(c) <= Bounded(l)
  <2>1. cache[t] \in Seq(CachedAt(stamp[t])) /\ Bounded(l) \in Nat
    BY <1>2, <1>3, BoundedLimit DEF OwnState
  <2> QED
    BY <2>1, TrimToProperties
<1>5. p \in Seq(NativeFrom(stamp[t])) /\ Len(p) <= NativeLimit
  BY <1>2, EmptyCache DEF OwnState, IInv, LimitRespected
<1>6. stamp' = [stamp EXCEPT ![t] = stamp[t]] /\ epoch' = epoch /\ cleared' = epoch
  BY <1>1, <1>2 DEF TypeOK
<1> HIDE DEF c, p
<1>7. UNCHANGED <<strategy, op>>
  BY <1>1
<1> QED
  BY <1>1, <1>3, <1>4, <1>5, <1>6, <1>7, OwnCachesStep

\* A step that only moves the epoch on and one call to its next phase.
LEMMA BumpKeeps ==
  ASSUME IInv, NEW t \in Threads, NEW r \in Op, strategy = "global", epoch < MaxEpoch,
         op' = [op EXCEPT ![t] = r], epoch' = epoch + 1,
         UNCHANGED <<strategy, limit, cache, stamp, native, cleared>>,
         r.start <= epoch + 1, r.pc # "clearNative"
  PROVE  IInv'
<1> USE CacheAssumption
<1>1. TypeOK /\ epoch \in 0..MaxEpoch /\ epoch' \in 0..MaxEpoch /\ epoch' >= epoch
  BY DEF IInv, TypeOK
<1>2. TypeOK' /\ LimitRespected'
  BY <1>1, OpUpdate DEF TypeOK, IInv, LimitRespected
<1>3. ThreadLocalInv'
  BY DEF ThreadLocalInv
<1>4. GlobalInv'
  <2>1. UNCHANGED <<strategy, cache, cleared>> /\ r.start <= epoch'
    OBVIOUS
  <2> QED
    BY <1>1, <2>1, SharedStateKept
<1> QED
  BY <1>2, <1>3, <1>4 DEF IInv

LEMMA ClearBumpStep ==
  ASSUME IInv, NEW t \in Threads, ClearBump(t)
  PROVE  IInv'
<1> USE CacheAssumption
<1> DEFINE r == [op[t] EXCEPT !.pc = "clear", !.start = epoch + 1]
<1>1. /\ strategy = "global" /\ epoch < MaxEpoch /\ epoch' = epoch + 1
      /\ op' = [op EXCEPT ![t] = r]
      /\ UNCHANGED <<strategy, limit, cache, stamp, native, cleared>>
  BY DEF ClearBump
<1>2. op[t] \in Op /\ epoch + 1 \in 0..MaxEpoch /\ epoch + 1 <= epoch + 1
  BY <1>1 DEF IInv, TypeOK
<1>3. r \in Op /\ r.start = epoch + 1 /\ r.pc # "clearNative"
  BY <1>2 DEF Op, Phases
<1>4. r.start <= epoch + 1
  BY <1>2, <1>3
<1> HIDE DEF r
<1> QED
  BY <1>1, <1>3, <1>4, BumpKeeps

LEMMA SetLimitBumpStep ==
  ASSUME IInv, NEW t \in Threads, NEW l \in Limits, SetLimitBump(t, l)
  PROVE  IInv'
<1> USE CacheAssumption
<1> DEFINE r == [op[t] EXCEPT !.pc = "limit", !.lim = l]
<1>1. /\ strategy = "global" /\ epoch < MaxEpoch /\ epoch' = epoch + 1
      /\ op' = [op EXCEPT ![t] = r]
      /\ UNCHANGED <<strategy, limit, cache, stamp, native, cleared>>
  BY DEF SetLimitBump
<1>2. op[t] \in Op /\ op[t].start <= epoch + 1
  <2>1. op[t] \in Op /\ epoch \in Nat
    BY DEF IInv, TypeOK
  <2>2. op[t].start <= epoch /\ op[t].start \in Nat
    BY <1>1, <2>1 DEF IInv, GlobalInv, SharedState, Op
  <2> QED
    BY <2>1, <2>2
<1>3. r \in Op /\ r.start = op[t].start /\ r.pc # "clearNative"
  BY <1>2 DEF Op, Phases
<1> HIDE DEF r
<1> QED
  BY <1>1, <1>2, <1>3, BumpKeeps


\* Only the process-wide clear and limit change take more than one step, and they
\* belong to the global strategy.
LEMMA LongCallsAreGlobal ==
  ASSUME IInv, NEW t \in Threads, op[t].pc \in {"clear", "clearNative", "limit"}
  PROVE  strategy = "global" /\ SharedState
BY CacheAssumption DEF IInv, TypeOK, ThreadLocalInv, OwnState, GlobalInv

LEMMA ClearSharedStep ==
  ASSUME IInv, NEW t \in Threads, ClearShared(t)
  PROVE  IInv'
<1> USE CacheAssumption
<1> DEFINE r == [op[t] EXCEPT !.pc = "clearNative"]
<1>1. /\ op[t].pc = "clear" /\ op' = [op EXCEPT ![t] = r]
      /\ cache' = [cache EXCEPT ![Shared] = Empty]
      /\ UNCHANGED <<strategy, epoch, limit, stamp, native, cleared>>
  BY DEF ClearShared
<1>2. TypeOK /\ strategy = "global" /\ SharedState /\ Shared \in Scopes /\ op[t] \in Op
  BY <1>1, LongCallsAreGlobal DEF IInv, TypeOK, Scopes
<1>3. r \in Op /\ r.start = op[t].start
  BY <1>2 DEF Op, Phases
<1> HIDE DEF r
<1>4. op' \in [Threads -> Op] /\ op'[t] = r /\ \A u \in Threads \ {t} : op'[u] = op[u]
  BY <1>1, <1>2, <1>3, OpUpdate
<1>5. cache'[Shared] = Empty /\ \A S : Empty \in Seq(S)
  BY <1>1, <1>2, EmptyCache DEF TypeOK
<1>6. TypeOK'
  BY <1>1, <1>2, <1>4, <1>5 DEF TypeOK, SeqOver
<1>7. LimitRespected'
  <2>1. limit[Shared] \in Limits \cup {DefaultLimit}
    BY <1>2 DEF TypeOK
  <2>2. Empty \in Seq({}) /\ Len(Empty) = 0
    BY EmptyCache
  <2>3. Bounded(limit[Shared]) \in Nat
    BY <2>1, BoundedLimit
  <2>4. Len(Empty) <= Bounded(limit[Shared])
    BY <2>2, <2>3
  <2> QED
    BY <1>1, <1>2, <2>4 DEF LimitRespected, IInv, TypeOK
<1>8. ThreadLocalInv'
  BY <1>1, <1>2 DEF ThreadLocalInv
<1>9. GlobalInv'
  <2>1. \A u \in Threads : op'[u].start <= epoch
    BY <1>2, <1>3, <1>4 DEF SharedState
  <2> QED
    BY <1>1, <1>2, <1>5, <2>1, EmptyCache DEF GlobalInv, SharedState
<1> QED
  BY <1>6, <1>7, <1>8, <1>9 DEF IInv

LEMMA ClearNativeStep ==
  ASSUME IInv, NEW t \in Threads, ClearNative(t)
  PROVE  IInv'
<1> USE CacheAssumption
<1> DEFINE r == [op[t] EXCEPT !.pc = "ready"]
<1>1. /\ op[t].pc = "clearNative" /\ op' = [op EXCEPT ![t] = r]
      /\ native' = [native EXCEPT ![Shared] = Empty]
      /\ cleared' = MaxOf(cleared, op[t].start)
      /\ UNCHANGED <<strategy, epoch, limit, cache, stamp>>
  BY DEF ClearNative
<1>2. TypeOK /\ strategy = "global" /\ SharedState /\ Shared \in Scopes /\ op[t] \in Op
  BY <1>1, LongCallsAreGlobal DEF IInv, TypeOK, Scopes
<1>3. r \in Op /\ r.start = op[t].start /\ r.pc = "ready"
  BY <1>2 DEF Op, Phases
<1> HIDE DEF r
<1>4. op' \in [Threads -> Op] /\ op'[t] = r /\ \A u \in Threads \ {t} : op'[u] = op[u]
  BY <1>1, <1>2, <1>3, OpUpdate
<1>5. /\ cleared' \in 0..MaxEpoch /\ cleared' <= epoch
      /\ cache[Shared] \in Seq(FilledFrom(cleared'))
  BY <1>1, <1>2 DEF TypeOK, SharedState, Op, MaxOf
<1>6. TypeOK'
  BY <1>1, <1>2, <1>4, <1>5, EmptyCache DEF TypeOK, SeqOver
<1>7. LimitRespected'
  BY <1>1, <1>2, EmptyCache DEF LimitRespected, IInv, TypeOK
<1>8. ThreadLocalInv'
  BY <1>1, <1>2 DEF ThreadLocalInv
<1>9. GlobalInv'
  <2>1. \A u \in Threads : /\ op'[u].start <= epoch
                           /\ op'[u].pc = "clearNative" => cache[Shared] \in Seq(FilledFrom(op'[u].start))
    BY <1>2, <1>3, <1>4 DEF SharedState
  <2> QED
    BY <1>1, <1>2, <1>5, <2>1 DEF GlobalInv, SharedState
<1> QED
  BY <1>6, <1>7, <1>8, <1>9 DEF IInv

LEMMA SetLimitApplyStep ==
  ASSUME IInv, NEW t \in Threads, SetLimitApply(t)
  PROVE  IInv'
<1> USE CacheAssumption
<1> DEFINE c == cache[Shared]
           kept == TrimTo(c, Bounded(op[t].lim))
           r == [op[t] EXCEPT !.pc = "ready"]
<1>1. /\ op[t].pc = "limit" /\ op' = [op EXCEPT ![t] = r]
      /\ limit' = [limit EXCEPT ![Shared] = op[t].lim]
      /\ cache' = [cache EXCEPT ![Shared] = kept]
      /\ UNCHANGED <<strategy, epoch, stamp, native, cleared>>
  BY DEF SetLimitApply
<1>2. TypeOK /\ strategy = "global" /\ SharedState /\ Shared \in Scopes /\ op[t] \in Op
  BY <1>1, LongCallsAreGlobal DEF IInv, TypeOK, Scopes
<1>3. r \in Op /\ r.start = op[t].start /\ r.pc = "ready" /\ op[t].lim \in Limits \cup {DefaultLimit}
  BY <1>2 DEF Op, Phases
<1>4. ASSUME NEW S, c \in Seq(S)
      PROVE  kept \in Seq(S) /\ Len(kept) <= Bounded(op[t].lim) /\ (Distinct(c) => Distinct(kept))
  <2>1. Bounded(op[t].lim) \in Nat
    BY <1>3, BoundedLimit
  <2> QED
    BY <1>4, <2>1, TrimToProperties
<1> HIDE DEF r, kept
<1>5. op' \in [Threads -> Op] /\ op'[t] = r /\ \A u \in Threads \ {t} : op'[u] = op[u]
  BY <1>1, <1>2, <1>3, OpUpdate
<1>6. cache'[Shared] = kept
  BY <1>1, <1>2 DEF TypeOK
<1>7. c \in Seq(Entries) /\ Distinct(c)
  BY <1>2 DEF TypeOK, SeqOver, Entries, SharedState
<1>8. TypeOK'
  <2>1. kept \in SeqOver(Keys, Wrapper)
    BY <1>4, <1>7 DEF SeqOver, Entries
  <2> QED
    BY <1>1, <1>2, <1>3, <1>5, <2>1 DEF TypeOK
<1>9. LimitRespected'
  <2>1. Len(kept) <= Bounded(op[t].lim)
    BY <1>4, <1>7
  <2> QED
    BY <1>1, <1>2, <2>1 DEF LimitRespected, IInv, TypeOK
<1>10. ThreadLocalInv'
  BY <1>1, <1>2 DEF ThreadLocalInv
<1>11. GlobalInv'
  <2>1. kept \in Seq(FilledFrom(cleared)) /\ Distinct(kept)
    BY <1>2, <1>4, <1>7 DEF SharedState
  <2>2. ASSUME NEW u \in Threads
        PROVE  /\ op'[u].start <= epoch
               /\ op'[u].pc = "clearNative" => kept \in Seq(FilledFrom(op'[u].start))
    <3>1. op'[u].start = op[u].start /\ (op'[u].pc = "clearNative" => op[u].pc = "clearNative")
      BY <1>3, <1>5
    <3>2. op[u].pc = "clearNative" => kept \in Seq(FilledFrom(op[u].start))
      BY <1>2, <1>4 DEF SharedState
    <3> QED
      BY <1>2, <3>1, <3>2 DEF SharedState
  <2> QED
    BY <1>1, <1>2, <1>6, <2>1, <2>2 DEF GlobalInv, SharedState
<1> QED
  BY <1>8, <1>9, <1>10, <1>11 DEF IInv

-----------------------------------------------------------------------------
(* The theorems.                                                                *)

\* Every step keeps the inductive invariant.
LEMMA NextIInv == IInv /\ [Next]_vars => IInv'
<1> SUFFICES ASSUME IInv, [Next]_vars PROVE IInv'
  OBVIOUS
<1>1. ASSUME NEW t \in Threads, NEW k \in Keys, BeginThreadLocal(t, k) PROVE IInv'
  BY <1>1, BeginThreadLocalStep
<1>2. ASSUME NEW t \in Threads, NEW k \in Keys, BeginGlobal(t, k) PROVE IInv'
  BY <1>2, BeginGlobalStep
<1>3. ASSUME NEW t \in Threads, ReadCompileEpoch(t) PROVE IInv'
  BY <1>3, ReadCompileEpochStep
<1>4. ASSUME NEW t \in Threads, NativeLookup(t) PROVE IInv'
  BY <1>4, NativeLookupStep
<1>5. ASSUME NEW t \in Threads, NativeCreate(t) PROVE IInv'
  BY <1>5, NativeCreateStep
<1>6. ASSUME NEW t \in Threads, NativeFails(t) PROVE IInv'
  BY <1>6, NativeFailsStep
<1>7. ASSUME NEW t \in Threads, NativeStore(t) PROVE IInv'
  BY <1>7, NativeStoreStep
<1>8. ASSUME NEW t \in Threads, InsertThreadLocal(t) PROVE IInv'
  BY <1>8, InsertThreadLocalStep
<1>9. ASSUME NEW t \in Threads, InsertGlobal(t) PROVE IInv'
  BY <1>9, InsertGlobalStep
<1>10. ASSUME NEW t \in Threads, ClearThreadLocal(t) PROVE IInv'
  BY <1>10, ClearThreadLocalStep
<1>11. ASSUME NEW t \in Threads, ClearBump(t) PROVE IInv'
  BY <1>11, ClearBumpStep
<1>12. ASSUME NEW t \in Threads, ClearShared(t) PROVE IInv'
  BY <1>12, ClearSharedStep
<1>13. ASSUME NEW t \in Threads, ClearNative(t) PROVE IInv'
  BY <1>13, ClearNativeStep
<1>14. ASSUME NEW t \in Threads, NEW l \in Limits, SetLimitThreadLocal(t, l) PROVE IInv'
  BY <1>14, SetLimitThreadLocalStep
<1>15. ASSUME NEW t \in Threads, NEW l \in Limits, SetLimitBump(t, l) PROVE IInv'
  BY <1>15, SetLimitBumpStep
<1>16. ASSUME NEW t \in Threads, SetLimitApply(t) PROVE IInv'
  BY <1>16, SetLimitApplyStep
<1>17. CASE UNCHANGED vars
  BY <1>17 DEF vars, IInv, TypeOK, LimitRespected, ThreadLocalInv, OwnState, GlobalInv, SharedState
<1> QED
  BY <1>1, <1>2, <1>3, <1>4, <1>5, <1>6, <1>7, <1>8, <1>9, <1>10, <1>11, <1>12, <1>13, <1>14,
     <1>15, <1>16, <1>17 DEF Next

LEMMA AlwaysIInv == Spec => []IInv
BY InitIInv, NextIInv, PTL DEF Spec

\* Every variable keeps its type, with as many threads, keys and clears as there are.
THEOREM CacheTypes == Spec => []TypeOK
<1>1. IInv => TypeOK
  BY DEF IInv
<1> QED
  BY <1>1, AlwaysIInv, PTL

\* No cache ever outgrows its limit, whatever limit change, clear or nested call
\* lands between the steps of a compile (pcre/cache.py:172, 224,
\* pcre_ext/pattern_cache.c:322-363).
THEOREM CachesStayWithinTheirLimits == Spec => []LimitRespected
<1>1. IInv => LimitRespected
  BY DEF IInv
<1> QED
  BY <1>1, AlwaysIInv, PTL

\* Under the thread-local strategy no compile returns a pattern older than the last
\* clear_cache that finished before it began, in any thread (pcre/cache.py:150-160).
THEOREM ThreadsNeverGetStalePatterns == Spec => []NoStaleReturnThreadLocal
<1>1. IInv => NoStaleReturnThreadLocal
  BY DEF IInv, ThreadLocalInv, OwnState, NoStaleReturnThreadLocal, NoStaleReturn
<1> QED
  BY <1>1, AlwaysIInv, PTL

\* The entries of a thread's cache are all of the generation of its stamp, although
\* callbacks clear the cache in the middle of a compile (pcre/cache.py:173-175).
THEOREM ThreadCachesAreOfOneGeneration == Spec => []GenerationPure
<1>1. IInv => GenerationPure
  <2> SUFFICES ASSUME IInv, strategy = "thread-local", NEW t \in Threads, NEW i \in DOMAIN cache[t]
               PROVE  cache[t][i].val.fill = stamp[t]
    BY DEF GenerationPure
  <2>1. cache[t] \in Seq(CachedAt(stamp[t]))
    BY DEF IInv, ThreadLocalInv, OwnState
  <2>2. cache[t][i] \in CachedAt(stamp[t])
    BY <2>1, ElementOfSeq, LenProperties
  <2> QED
    BY <2>2 DEF CachedAt
<1> QED
  BY <1>1, AlwaysIInv, PTL

\* Nothing that was looked up before a clear_cache lands in the shared cache once that
\* clear has finished, whichever threads clear and fill at once (pcre/cache.py:219).
THEOREM SharedFillsAreOfTheLastClear == Spec => []FillsOutliveNoClear
<1>1. IInv => FillsOutliveNoClear
  <2> SUFFICES ASSUME IInv, strategy = "global", NEW i \in DOMAIN cache[Shared]
               PROVE  cache[Shared][i].val.fill >= cleared
    BY DEF FillsOutliveNoClear
  <2>1. cache[Shared] \in Seq(FilledFrom(cleared))
    BY DEF IInv, GlobalInv, SharedState
  <2>2. cache[Shared][i] \in FilledFrom(cleared)
    BY <2>1, ElementOfSeq, LenProperties
  <2> QED
    BY <2>2 DEF FilledFrom
<1> QED
  BY <1>1, AlwaysIInv, PTL


\* No step of any thread gives a key of the shared cache another wrapper: it keeps the
\* one it has until it is evicted, trimmed or cleared (pcre/cache.py:221-231).
THEOREM SharedWrappersAreNotReplaced == Spec => PublishedOnce
<1> DEFINE Kept == \A i \in DOMAIN cache[Shared] :
                     LET e == cache[Shared][i]
                     IN Has(cache'[Shared], e.key) => Lookup(cache'[Shared], e.key) = e.val
<1>1. ASSUME IInv, strategy = "global", [Next]_vars PROVE Kept
  <2> USE CacheAssumption
  <2> DEFINE c == cache[Shared]
  <2>1. TypeOK /\ Shared \in Scopes /\ SharedState
    BY <1>1 DEF IInv, GlobalInv, Scopes
  <2>2. c \in Seq(Entries) /\ Distinct(c)
    BY <2>1 DEF TypeOK, SeqOver, Entries, SharedState
  <2>3. CASE cache' = cache
    BY <2>2, <2>3, EntryIsFound
  <2>4. ASSUME NEW t \in Threads, InsertGlobal(t) PROVE Kept
    <3> DEFINE k == op[t].key
               n == Bounded(limit[Shared])
    <3>1. CASE cache'[Shared] = c
      BY <2>2, <3>1, EntryIsFound
    <3>2. CASE FillIsCurrent(t) /\ limit[Shared] # 0 /\ ~Has(c, k)
      <4>1. n \in Nat \ {0}
        BY <2>1, <3>2, BoundedLimit DEF TypeOK
      <4>2. cache'[Shared] = Assign(MakeRoom(c, n), k, Entry(t))
        BY <2>1, <2>4, <3>2 DEF InsertGlobal, TypeOK
      <4> DEFINE r == MakeRoom(c, n)
      <4>3. r \in Seq(Entries) /\ Distinct(r) /\ NewestOf(r, c)
        BY <2>2, <4>1, MakeRoomProperties
      <4> HIDE DEF r, n
      <4>4. [key |-> k, val |-> Entry(t)] \in Entries
        BY <2>1 DEF Entries, Entry, Wrapper, TypeOK, Op
      <4>5. ~Has(r, k)
        BY <2>2, <3>2, <4>3, NewestAddsNoKey
      <4> DEFINE a == Assign(r, k, Entry(t))
      <4>6. /\ a \in Seq(Entries) /\ Len(a) = Len(r) + 1 /\ Distinct(a)
            /\ \A i \in 1..Len(r) : a[i] = r[i]
            /\ a[Len(r) + 1].key = k
        BY <4>3, <4>4, <4>5, AssignProperties
      <4> HIDE DEF a
      <4>7. ASSUME NEW i \in DOMAIN c, Has(a, c[i].key) PROVE Lookup(a, c[i].key) = c[i].val
        <5>1. PICK j \in DOMAIN a : a[j].key = c[i].key
          BY <4>7 DEF Has
        <5>2. /\ DOMAIN a = 1..(Len(r) + 1) /\ DOMAIN r = 1..Len(r) /\ Len(r) \in Nat
          BY <4>3, <4>6, LenProperties
        <5>3. j # Len(r) + 1
          BY <3>2, <4>6, <4>7, <5>1 DEF Has
        <5>4. j \in DOMAIN r /\ a[j] = r[j]
          BY <4>6, <5>2, <5>3
        <5>5. Has(r, c[i].key)
          BY <5>1, <5>4 DEF Has
        <5>6. Lookup(r, c[i].key) = c[i].val
          BY <2>2, <4>3, <4>7, <5>5, NewestKeepsValues
        <5>7. Lookup(a, a[j].key) = a[j].val
          BY <4>6, EntryIsFound
        <5>8. Lookup(r, r[j].key) = r[j].val
          BY <4>3, <5>4, EntryIsFound
        <5> QED
          BY <5>1, <5>4, <5>6, <5>7, <5>8
      <4> QED
        BY <4>2, <4>7 DEF a, r
    <3>3. (FillIsCurrent(t) /\ limit[Shared] # 0 /\ ~Has(c, k)) \/ cache'[Shared] = c
      BY <2>1, <2>4 DEF InsertGlobal, TypeOK
    <3> QED
      BY <3>1, <3>2, <3>3
  <2>5. ASSUME NEW t \in Threads, ClearShared(t) PROVE Kept
    <3>1. cache'[Shared] = <<>>
      BY <2>1, <2>5 DEF ClearShared, TypeOK, Empty
    <3> QED
      BY <3>1 DEF Has
  <2>6. ASSUME NEW t \in Threads, SetLimitApply(t) PROVE Kept
    <3> DEFINE n == Bounded(op[t].lim)
               r == TrimTo(c, n)
    <3>1. n \in Nat
      BY <2>1, BoundedLimit DEF TypeOK, Op
    <3>2. r \in Seq(Entries) /\ Distinct(r) /\ NewestOf(r, c)
      BY <2>2, <3>1, TrimToProperties
    <3>3. cache'[Shared] = r
      BY <2>1, <2>6 DEF SetLimitApply, TypeOK
    <3> HIDE DEF r, n
    <3> QED
      BY <2>2, <3>2, <3>3, NewestKeepsValues
  <2>7. cache' = cache \/ \E t \in Threads : InsertGlobal(t) \/ ClearShared(t) \/ SetLimitApply(t)
    BY ZenonT(30), <1>1 DEF Next, vars, BeginThreadLocal, BeginGlobal, ReadCompileEpoch, NativeLookup,
       NativeCreate, NativeFails, NativeStore, InsertThreadLocal, ClearThreadLocal, ClearBump,
       ClearNative, SetLimitThreadLocal, SetLimitBump
  <2> HIDE DEF Kept
  <2> QED
    BY <2>3, <2>4, <2>5, <2>6, <2>7
<1>2. IInv /\ [Next]_vars => [strategy = "global" => Kept]_vars
  BY <1>1
<1> QED
  BY <1>2, AlwaysIInv, PTL DEF Spec, PublishedOnce
================================================================================
