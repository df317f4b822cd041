--------------------------- MODULE ModuleCache_proofs ---------------------------
(* What the helper caches above cached_compile serve is current, for every      *)
(* number of threads, patterns, limits and changes of the configuration.        *)
EXTENDS ModuleCache, Lemmas, FiniteSetTheorems

-----------------------------------------------------------------------------
(* What the threads share, as one of them sees it.                             *)

\* Clears of the caches that have been announced: a clear_cache announces itself
\* twice, and counts from the first time.
Announced(o) == o.clears /\ ~(o.pc = "bump" /\ o.again)
Floors == {cleared} \cup {op[u].floor : u \in {v \in Threads : Announced(op[v])}}

World == [strategy |-> strategy, config |-> config, auto |-> auto, epoch |-> epoch, mepoch |-> mepoch,
          modes |-> ModesInForce, floors |-> Floors]
Worlds == [strategy : Strategies, config : Config, auto : Modes, epoch : 0..MaxEpoch,
           mepoch : 0..MaxModule, modes : SUBSET Modes, floors : SUBSET (0..MaxEpoch)]

\* v comes after w: the counters grow, a tuple of configure() is published once,
\* and while the generation stands a threading default stays announced or in force
\* and no clear is announced.
Later(w, v) ==
  /\ v.strategy = w.strategy /\ v.epoch >= w.epoch /\ v.mepoch >= w.mepoch
  /\ v.config.version >= w.config.version
  /\ v.config.version = w.config.version => v.config = w.config
  /\ v.mepoch = w.mepoch => w.modes \subseteq v.modes /\ v.floors \subseteq w.floors

-----------------------------------------------------------------------------
(* The invariant.                                                              *)

\* An entry is under the key it was compiled for and, under the thread-local
\* strategy, not older than the epoch n its cache goes by.
Entries == [key : Key, val : Compiled]
Fresh(n, w) == {e \in Entries : e.val.key = e.key /\ (w.strategy = "thread-local" => e.val.born >= n)}

\* What a coherent hot entry says of the wrapper, while its stamps stand.
HotOK(h, w) ==
  /\ h.version <= w.config.version /\ h.mepoch <= w.mepoch
  /\ h.coherent /\ h.version = w.config.version => h.got.key.jit = w.config.jit
  /\ h.coherent /\ h.mepoch = w.mepoch =>
       /\ h.got.key.mode \in w.modes
       /\ w.strategy = "thread-local" => \A n \in w.floors : h.got.born >= n

LocalOK(l, w) ==
  /\ l.epoch <= w.epoch
  /\ l.cache \in Seq(Fresh(l.epoch, w))
  /\ Len(l.cache) <= l.eff \/ (w.strategy = "global" /\ l.late)
  /\ l.lru \in Seq(Fresh(l.epoch, w)) /\ Len(l.lru) <= l.eff
  /\ l.hot # NoEntry => HotOK(l.hot, w)

\* The two kinds of calls share _synchronize_local_caches.
Synchronises(o) == o.pc \in {"sync", "syncLimit"}
Announces(o) ==
  o.pc \in {"bump", "limit", "trim", "resync"} \/ (Synchronises(o) /\ o.then \in {"trim", "resync"})
Compiles(o) ==
  o.pc \in {"hot", "mode", "config", "lru", "snapshot", "compile", "hotConfig", "hotEpoch"}
  \/ (Synchronises(o) /\ o.then \in {"lru", "snapshot"})

\* A notification has trimmed the snapshot cache and not yet read the limit again.
Trimmed(o) == o.pc = "resync" \/ (Synchronises(o) /\ o.then = "resync")

\* How old what a module call returns may be, seen from where it is.
NotOlder(o, l, n, w) ==
  /\ o.pc = "syncLimit" => o.seen >= n
  /\ o.pc \in {"lru", "snapshot", "compile"} \/ (o.pc = "sync" /\ o.then = "snapshot") => l.epoch >= n
  /\ o.pc \in {"hotConfig", "hotEpoch"} /\ w.strategy = "thread-local" => o.got.born >= n

\* A module call keeps track of what is in force while it runs; the mode it has
\* read is one of those as long as the generation it read first stands, and so is
\* the flag for JIT as long as the tuple it read stands.
CompileOK(o, l, w) ==
  /\ w.config.jit \in o.jits /\ w.auto \in o.modes
  /\ ~o.clears /\ ~o.again /\ o.old = {}
  /\ NotOlder(o, l, o.floor, w)
  /\ o.pc = "hot" =>
       /\ l.hot # NoEntry
       /\ l.hot.coherent => l.hot.got.key.mode \in o.modes
                            /\ (w.strategy = "thread-local" => l.hot.got.born >= o.floor)
  /\ o.pc \notin {"hot", "mode"} =>
       /\ o.key.mode \in o.modes /\ o.stamp <= w.mepoch
       /\ o.stamp = w.mepoch => o.key.mode \in w.modes /\ \A n \in w.floors : NotOlder(o, l, n, w)
  /\ o.pc \notin {"hot", "mode", "config"} => o.key.jit \in o.jits /\ o.version <= w.config.version
  /\ o.pc \notin {"hot", "mode", "config", "hotEpoch"} /\ o.version = w.config.version =>
       o.key.jit = w.config.jit
  /\ o.pc = "hotEpoch" /\ o.steady /\ o.version = w.config.version => o.key.jit = w.config.jit
  /\ o.pc \in {"hotConfig", "hotEpoch"} => o.got.key = o.key

CallOK(o, l, w) ==
  /\ o.pc = "ready" => o = Idle
  /\ Trimmed(o) => Len(l.cache) <= o.lim
  /\ o.old # {} => o.pc = "bump"
  /\ o.pc = "limit" => ~o.clears /\ ~o.again
  /\ o.floor <= w.epoch /\ o.seen <= w.epoch
  /\ o.pc = "compile" => o.seen >= l.epoch
  /\ Compiles(o) => CompileOK(o, l, w)

\* The limit of a thread's helper caches is the one set, but while it is set.
\* So is the one its snapshot cache was trimmed to.
LimitsAgree(o, l, n) == (l.eff # n => Announces(o)) /\ (Trimmed(o) => o.lim = n)
LimitFollows(t) == strategy = "thread-local" => LimitsAgree(op[t], loc[t], limit[t])

IInv ==
  /\ TypeOK
  /\ cleared <= epoch
  /\ mepoch + Owed <= MaxModule
  /\ \A t \in Threads : LocalOK(loc[t], World) /\ CallOK(op[t], loc[t], World) /\ LimitFollows(t)
  /\ SlowPathIsCurrent /\ CoherentHotIsCurrent


-----------------------------------------------------------------------------
(* Lemmas.                                                                     *)

\* A part of a sequence.
LEMMA PartOf ==
  ASSUME NEW S, NEW c \in Seq(S), NEW m \in Int, NEW n \in Int, m >= 1, n <= Len(c), m <= n + 1
  PROVE  SubSeq(c, m, n) \in Seq(S) /\ Len(SubSeq(c, m, n)) = n - m + 1
<1>1. Len(c) \in Nat
  BY LenProperties
<1>2. \A j \in m..n : c[j] \in S
  <2>1. TAKE j \in m..n
  <2>2. j \in 1..Len(c)
    BY <1>1
  <2> QED
    BY <2>2, ElementOfSeq
<1>3. SubSeq(c, m, n) \in Seq(S) /\ Len(SubSeq(c, m, n)) = IF m <= n THEN n - m + 1 ELSE 0
  BY <1>2, SubSeqProperties
<1> QED
  BY <1>3

\* Two sequences and one element more.
LEMMA PartsAndOne ==
  ASSUME NEW S, NEW a \in Seq(S), NEW b \in Seq(S), NEW e \in S
  PROVE  Append(a \o b, e) \in Seq(S) /\ Len(Append(a \o b, e)) = Len(a) + Len(b) + 1
<1>1. PICK d \in Seq(S) : d = a \o b /\ Len(d) = Len(a) + Len(b)
  BY ConcatProperties
<1>2. Append(d, e) \in Seq(S) /\ Len(Append(d, e)) = Len(d) + 1
  BY AppendProperties
<1> QED
  BY <1>1, <1>2

\* A hit of the lru keeps its entries and how many they are.
LEMMA TouchProperties ==
  ASSUME NEW S, NEW c \in Seq(S), NEW k, Has(c, k)
  PROVE  Touch(c, k) \in Seq(S) /\ Len(Touch(c, k)) = Len(c)
<1> DEFINE i == CHOOSE j \in DOMAIN c : c[j].key = k
<1>1. i \in DOMAIN c
  BY DEF Has
<1>2. DOMAIN c = 1..Len(c) /\ Len(c) \in Nat
  BY LenProperties
<1>3. PICK n \in 1..Len(c) : n = i
  BY <1>1, <1>2
<1>4. PICK e \in S : e = c[n]
  BY ElementOfSeq
<1> DEFINE a == SubSeq(c, 1, n - 1)
           b == SubSeq(c, n + 1, Len(c))
<1>5. a \in Seq(S) /\ Len(a) = n - 1 - 1 + 1
  <2>1. 1 \in Int /\ n - 1 \in Int /\ 1 >= 1 /\ n - 1 <= Len(c) /\ 1 <= n - 1 + 1
    BY <1>2
  <2> QED
    BY <2>1, PartOf
<1>6. b \in Seq(S) /\ Len(b) = Len(c) - (n + 1) + 1
  <2>1. n + 1 \in Int /\ Len(c) \in Int /\ n + 1 >= 1 /\ Len(c) <= Len(c) /\ n + 1 <= Len(c) + 1
    BY <1>2
  <2> QED
    BY <2>1, PartOf
<1>7. Touch(c, k) = Append(a \o b, e)
  BY <1>3, <1>4 DEF Touch
<1> HIDE DEF a, b, i
<1>8. Append(a \o b, e) \in Seq(S) /\ Len(Append(a \o b, e)) = Len(a) + Len(b) + 1
  BY <1>5, <1>6, PartsAndOne
<1>9. Len(a) + Len(b) + 1 = Len(c)
  BY <1>2, <1>5, <1>6
<1> QED
  BY <1>7, <1>8, <1>9

\* Trimming makes a cache no longer.
LEMMA TrimIsNoLonger ==
  ASSUME NEW S, NEW c \in Seq(S), NEW n \in Nat
  PROVE  Len(TrimTo(c, n)) <= Len(c)
<1>1. Len(c) \in Nat /\ Len(TrimTo(c, n)) <= n
  BY LenProperties, TrimToProperties
<1>2. Len(c) > n \/ TrimTo(c, n) = c
  BY DEF TrimTo
<1>3. TrimTo(c, n) \in Seq(S) /\ Len(TrimTo(c, n)) \in Nat
  BY TrimToProperties, LenProperties
<1> QED
  BY <1>1, <1>2, <1>3

\* A set that gains or loses at most t gains or loses at most one element.
LEMMA OneMoreOrLess ==
  ASSUME NEW T, IsFiniteSet(T), NEW t \in T, NEW P, P \subseteq T, NEW Q, Q \subseteq T,
         P \ {t} = Q \ {t}
  PROVE  /\ Cardinality(P) \in Nat /\ Cardinality(Q) \in Nat
         /\ Cardinality(Q) = Cardinality(P) + (IF t \in Q THEN 1 ELSE 0) - (IF t \in P THEN 1 ELSE 0)
<1>1. IsFiniteSet(P) /\ IsFiniteSet(Q) /\ IsFiniteSet(P \ {t})
  BY FS_Subset
<1>2. Cardinality(P) \in Nat /\ Cardinality(Q) \in Nat /\ Cardinality(P \ {t}) \in Nat
  BY <1>1, FS_CardinalityType
<1>3. Cardinality(P \ {t}) = IF t \in P THEN Cardinality(P) - 1 ELSE Cardinality(P)
  BY <1>1, FS_RemoveElement
<1>4. Cardinality(Q \ {t}) = IF t \in Q THEN Cardinality(Q) - 1 ELSE Cardinality(Q)
  BY <1>1, FS_RemoveElement
<1> QED
  BY <1>2, <1>3, <1>4

\* The bumps a call still owes.
Owes(o) == (IF o.pc \in {"bump", "limit"} THEN 1 ELSE 0) + (IF o.again THEN 1 ELSE 0)

LEMMA OwedChanges ==
  ASSUME NEW t \in Threads, \A u \in Threads \ {t} : op'[u].pc = op[u].pc /\ op'[u].again = op[u].again
  PROVE  /\ Owed \in Nat /\ Owed' \in Nat
         /\ Owed' = Owed + Owes(op'[t]) - Owes(op[t])
<1> DEFINE P == {u \in Threads : op[u].pc \in {"bump", "limit"}}
           Q == {u \in Threads : op'[u].pc \in {"bump", "limit"}}
           A == {u \in Threads : op[u].again}
           B == {u \in Threads : op'[u].again}
<1>1. IsFiniteSet(Threads)
  BY ModuleAssumption
<1>2. /\ Cardinality(P) \in Nat /\ Cardinality(Q) \in Nat
      /\ Cardinality(Q) = Cardinality(P) + (IF t \in Q THEN 1 ELSE 0) - (IF t \in P THEN 1 ELSE 0)
  <2>1. P \subseteq Threads /\ Q \subseteq Threads /\ P \ {t} = Q \ {t}
    OBVIOUS
  <2> HIDE DEF P, Q
  <2> QED
    BY <1>1, <2>1, OneMoreOrLess
<1>3. /\ Cardinality(A) \in Nat /\ Cardinality(B) \in Nat
      /\ Cardinality(B) = Cardinality(A) + (IF t \in B THEN 1 ELSE 0) - (IF t \in A THEN 1 ELSE 0)
  <2>1. A \subseteq Threads /\ B \subseteq Threads /\ A \ {t} = B \ {t}
    OBVIOUS
  <2> HIDE DEF A, B
  <2> QED
    BY <1>1, <2>1, OneMoreOrLess
<1>4. /\ t \in P <=> op[t].pc \in {"bump", "limit"}
      /\ t \in Q <=> op'[t].pc \in {"bump", "limit"}
      /\ t \in A <=> op[t].again
      /\ t \in B <=> op'[t].again
  OBVIOUS
<1>5. Owed = Cardinality(P) + Cardinality(A) /\ Owed' = Cardinality(Q) + Cardinality(B)
  BY DEF Owed
<1> HIDE DEF P, Q, A, B
<1> QED
  BY <1>2, <1>3, <1>4, <1>5 DEF Owes

LEMMA WorldIsWorld ==
  ASSUME TypeOK
  PROVE  World \in Worlds
<1>1. ModesInForce \subseteq Modes
  BY DEF TypeOK, ModesInForce, Op
<1>2. Floors \subseteq 0..MaxEpoch
  BY DEF TypeOK, Floors, Op
<1> QED
  BY <1>1, <1>2 DEF TypeOK, World, Worlds

-----------------------------------------------------------------------------
(* What a later world leaves of the invariant.                                 *)

\* A call that has learned of what others published.
Wider(o, p) ==
  /\ p = [o EXCEPT !.jits = p.jits, !.modes = p.modes]
  /\ o.jits \subseteq p.jits /\ o.modes \subseteq p.modes
  /\ o.pc = "ready" => p = o

LEMMA WidenIsWider ==
  ASSUME NEW o \in Op, NEW j, j \subseteq BOOLEAN, NEW m, m \subseteq Modes, o.pc = "ready" => o = Idle
  PROVE  /\ Widen(o, j, m) \in Op /\ Wider(o, Widen(o, j, m))
         /\ o.jits # {} => j \subseteq Widen(o, j, m).jits /\ m \subseteq Widen(o, j, m).modes
<1>1. CASE o.jits = {}
  BY <1>1 DEF Widen, Wider, Op
<1>2. CASE o.jits # {}
  <2>1. Widen(o, j, m) = [o EXCEPT !.jits = o.jits \cup j, !.modes = o.modes \cup m]
    BY <1>2 DEF Widen
  <2>2. PICK a \in SUBSET BOOLEAN : a = o.jits \cup j
    BY DEF Op
  <2>3. PICK b \in SUBSET Modes : b = o.modes \cup m
    BY DEF Op
  <2>4. PICK p : p = [o EXCEPT !.jits = a, !.modes = b]
    OBVIOUS
  <2>5. p \in Op /\ p.jits = a /\ p.modes = b
    BY <2>4 DEF Op
  <2>6. p = [o EXCEPT !.jits = p.jits, !.modes = p.modes]
    BY <2>4, <2>5
  <2>7. o.pc # "ready"
    BY <1>2 DEF Idle
  <2>8. Wider(o, p)
    BY <2>2, <2>3, <2>5, <2>6, <2>7 DEF Wider
  <2>9. p = Widen(o, j, m)
    BY <2>1, <2>2, <2>3, <2>4
  <2> QED
    BY <2>2, <2>3, <2>5, <2>8, <2>9
<1> QED
  BY <1>1, <1>2

LEMMA WiderFields ==
  ASSUME NEW o \in Op, NEW p \in Op, Wider(o, p)
  PROVE  /\ p.pc = o.pc /\ p.key = o.key /\ p.version = o.version /\ p.got = o.got
         /\ p.orphan = o.orphan /\ p.steady = o.steady /\ p.then = o.then /\ p.seen = o.seen
         /\ p.again = o.again /\ p.lim = o.lim /\ p.clears = o.clears /\ p.old = o.old
         /\ p.floor = o.floor /\ p.stamp = o.stamp
         /\ o.jits \subseteq p.jits /\ o.modes \subseteq p.modes
         /\ o.pc = "ready" => p = o
BY DEF Wider, Op

LEMMA SelfIsWider ==
  ASSUME NEW o \in Op
  PROVE  Wider(o, o)
BY DEF Wider, Op

LEMMA LaterKeepsLocal ==
  ASSUME NEW w \in Worlds, NEW v \in Worlds, Later(w, v), NEW l \in Local, LocalOK(l, w)
  PROVE  LocalOK(l, v)
<1>1. Fresh(l.epoch, v) = Fresh(l.epoch, w)
  BY DEF Fresh, Later
<1>2. l.epoch <= v.epoch
  BY DEF LocalOK, Later, Local, Worlds
<1>3. ASSUME l.hot # NoEntry PROVE HotOK(l.hot, v)
  <2> DEFINE h == l.hot
  <2>1. h \in Hot /\ HotOK(h, w)
    BY <1>3 DEF LocalOK, Local
  <2> HIDE DEF h
  <2>2. /\ h.version \in Nat /\ h.mepoch \in Nat
        /\ w.mepoch \in Nat /\ v.mepoch \in Nat /\ w.config.version \in Nat /\ v.config.version \in Nat
    BY <2>1, ModuleAssumption DEF Hot, Worlds, Config
  <2>3. /\ h.version <= v.config.version /\ h.mepoch <= v.mepoch
        /\ h.version = v.config.version => h.version = w.config.version /\ v.config = w.config
        /\ h.mepoch = v.mepoch => h.mepoch = w.mepoch /\ w.modes \subseteq v.modes /\ v.floors \subseteq w.floors
        /\ v.strategy = w.strategy
    BY <2>1, <2>2 DEF HotOK, Later
  <2>4. h.coherent /\ h.version = v.config.version => h.got.key.jit = v.config.jit
    BY <2>1, <2>3 DEF HotOK
  <2>5. h.coherent /\ h.mepoch = v.mepoch =>
          /\ h.got.key.mode \in v.modes
          /\ v.strategy = "thread-local" => \A n \in v.floors : h.got.born >= n
    BY <2>1, <2>3 DEF HotOK
  <2>6. HotOK(h, v)
    BY <2>3, <2>4, <2>5 DEF HotOK
  <2> QED
    BY <2>6 DEF h
<1>4. v.strategy = w.strategy
  BY DEF Later
<1> QED
  BY <1>1, <1>2, <1>3, <1>4 DEF LocalOK

LEMMA LaterKeepsCall ==
  ASSUME NEW w \in Worlds, NEW v \in Worlds, Later(w, v), NEW l \in Local,
         NEW o \in Op, NEW p \in Op, Wider(o, p), CallOK(o, l, w),
         Compiles(o) => v.config.jit \in p.jits /\ v.auto \in p.modes
  PROVE  CallOK(p, l, v)
<1>1. /\ p.pc = o.pc /\ p.key = o.key /\ p.version = o.version /\ p.got = o.got
      /\ p.steady = o.steady /\ p.then = o.then /\ p.seen = o.seen
      /\ p.again = o.again /\ p.clears = o.clears /\ p.old = o.old
      /\ p.floor = o.floor /\ p.stamp = o.stamp /\ p.lim = o.lim
      /\ o.jits \subseteq p.jits /\ o.modes \subseteq p.modes
      /\ o.pc = "ready" => p = o
  BY WiderFields
<1>2. /\ w.mepoch \in Nat /\ v.mepoch \in Nat /\ w.config.version \in Nat /\ v.config.version \in Nat
      /\ w.epoch \in Nat /\ v.epoch \in Nat /\ o.stamp \in Nat /\ o.version \in Nat
      /\ o.floor \in Nat /\ o.seen \in Nat
  BY ModuleAssumption DEF Worlds, Config, Op
<1>3. /\ v.strategy = w.strategy /\ v.epoch >= w.epoch /\ v.mepoch >= w.mepoch
      /\ v.config.version >= w.config.version
      /\ v.config.version = w.config.version => v.config = w.config
      /\ v.mepoch = w.mepoch => w.modes \subseteq v.modes /\ v.floors \subseteq w.floors
  BY DEF Later
<1>4. /\ o.pc = "ready" => o = Idle
      /\ Trimmed(o) => Len(l.cache) <= o.lim
      /\ o.old # {} => o.pc = "bump"
      /\ o.pc = "limit" => ~o.clears /\ ~o.again
      /\ o.floor <= w.epoch /\ o.seen <= w.epoch
      /\ o.pc = "compile" => o.seen >= l.epoch
      /\ Compiles(o) => CompileOK(o, l, w)
  BY DEF CallOK
<1>5. /\ p.pc = "ready" => p = Idle
      /\ Trimmed(p) => Len(l.cache) <= p.lim
      /\ p.old # {} => p.pc = "bump"
      /\ p.pc = "limit" => ~p.clears /\ ~p.again
  BY <1>1, <1>4 DEF Trimmed, Synchronises
<1>6. p.floor <= v.epoch /\ p.seen <= v.epoch /\ (p.pc = "compile" => p.seen >= l.epoch)
  BY <1>1, <1>2, <1>3, <1>4
<1>7. ASSUME Compiles(p) PROVE CompileOK(p, l, v)
  <2>1. Compiles(o) /\ CompileOK(o, l, w)
    BY <1>1, <1>4, <1>7 DEF Compiles, Synchronises
  <2>2. \A n : NotOlder(o, l, n, w) => NotOlder(p, l, n, v)
    BY <1>1, <1>3 DEF NotOlder
  <2>3. /\ v.config.jit \in p.jits /\ v.auto \in p.modes
        /\ ~p.clears /\ ~p.again /\ p.old = {}
        /\ NotOlder(p, l, p.floor, v)
    BY <1>1, <2>1, <2>2 DEF CompileOK
  <2>4. p.pc = "hot" =>
          /\ l.hot # NoEntry
          /\ l.hot.coherent => l.hot.got.key.mode \in p.modes
                               /\ (v.strategy = "thread-local" => l.hot.got.born >= p.floor)
    BY <1>1, <1>3, <2>1 DEF CompileOK
  <2>5. ASSUME p.pc \notin {"hot", "mode"}
        PROVE  /\ p.key.mode \in p.modes /\ p.stamp <= v.mepoch
               /\ p.stamp = v.mepoch => p.key.mode \in v.modes /\ \A n \in v.floors : NotOlder(p, l, n, v)
    <3>1. /\ o.key.mode \in o.modes /\ o.stamp <= w.mepoch
          /\ o.stamp = w.mepoch => o.key.mode \in w.modes /\ \A n \in w.floors : NotOlder(o, l, n, w)
      BY <1>1, <2>1, <2>5 DEF CompileOK
    <3>2. p.stamp = v.mepoch => o.stamp = w.mepoch /\ v.mepoch = w.mepoch
      BY <1>1, <1>2, <1>3, <3>1
    <3>3. p.key.mode \in p.modes /\ p.stamp <= v.mepoch
      BY <1>1, <1>2, <1>3, <3>1
    <3> QED
      BY <1>1, <1>3, <2>2, <3>1, <3>2, <3>3
  <2>6. /\ p.pc \notin {"hot", "mode", "config"} => p.key.jit \in p.jits /\ p.version <= v.config.version
        /\ p.pc \notin {"hot", "mode", "config", "hotEpoch"} /\ p.version = v.config.version =>
             p.key.jit = v.config.jit
    <3>1. SUFFICES ASSUME p.pc \notin {"hot", "mode", "config"}
                   PROVE  /\ p.key.jit \in p.jits /\ p.version <= v.config.version
                          /\ p.pc # "hotEpoch" /\ p.version = v.config.version => p.key.jit = v.config.jit
      OBVIOUS
    <3>2. /\ o.key.jit \in o.jits /\ o.version <= w.config.version
          /\ o.pc # "hotEpoch" /\ o.version = w.config.version => o.key.jit = w.config.jit
      BY <1>1, <2>1, <3>1 DEF CompileOK
    <3>3. /\ p.version <= v.config.version
          /\ p.version = v.config.version => o.version = w.config.version /\ v.config = w.config
      BY <1>1, <1>2, <1>3, <3>2
    <3> QED
      BY <1>1, <3>2, <3>3
  <2>7. p.pc = "hotEpoch" /\ p.steady /\ p.version = v.config.version => p.key.jit = v.config.jit
    <3>1. SUFFICES ASSUME p.pc = "hotEpoch", p.steady, p.version = v.config.version
                   PROVE  p.key.jit = v.config.jit
      OBVIOUS
    <3>2. o.version <= w.config.version /\ (o.version = w.config.version => o.key.jit = w.config.jit)
      BY <1>1, <2>1, <3>1 DEF CompileOK
    <3>3. o.version = w.config.version /\ v.config = w.config
      BY <1>1, <1>2, <1>3, <3>1, <3>2
    <3> QED
      BY <1>1, <3>2, <3>3
  <2>8. p.pc \in {"hotConfig", "hotEpoch"} => p.got.key = p.key
    BY <1>1, <2>1 DEF CompileOK
  <2> QED
    BY <2>3, <2>4, <2>5, <2>6, <2>7, <2>8 DEF CompileOK
<1> QED
  BY <1>5, <1>6, <1>7 DEF CallOK

LEMMA NextWorldIsWorld ==
  ASSUME TypeOK'
  PROVE  World' \in Worlds
<1>1. ModesInForce' \subseteq Modes
  BY DEF TypeOK, ModesInForce, Op
<1>2. Floors' \subseteq 0..MaxEpoch
  BY DEF TypeOK, Floors, Op
<1> QED
  BY <1>1, <1>2 DEF TypeOK, World, Worlds

VerdictOK(q) == q.path = "slow" \/ (q.path = "hot" /\ q.coherent) => Current(q)

LEMMA Verdicts == (\A t \in Threads : VerdictOK(ret[t])) <=> SlowPathIsCurrent /\ CoherentHotIsCurrent
<1>1. ASSUME NEW t \in Threads
      PROVE  VerdictOK(ret[t]) <=> /\ ret[t].path = "slow" => Current(ret[t])
                                   /\ ret[t].path = "hot" /\ ret[t].coherent => Current(ret[t])
  BY DEF VerdictOK
<1> QED
  BY <1>1 DEF SlowPathIsCurrent, CoherentHotIsCurrent

LEMMA NextVerdicts ==
  (\A t \in Threads : VerdictOK(ret[t])') => SlowPathIsCurrent' /\ CoherentHotIsCurrent'
<1>1. ASSUME NEW t \in Threads, VerdictOK(ret[t])'
      PROVE  /\ ret'[t].path = "slow" => Current(ret[t])'
             /\ ret'[t].path = "hot" /\ ret'[t].coherent => Current(ret[t])'
  BY <1>1 DEF VerdictOK
<1> QED
  BY <1>1 DEF SlowPathIsCurrent, CoherentHotIsCurrent

\* What a step of t leaves of the other threads.
LeavesOthers(t) ==
  /\ strategy' = strategy
  /\ \A u \in Threads \ {t} :
       /\ loc'[u] = loc[u] /\ ret'[u] = ret[u] /\ Wider(op[u], op'[u])
       /\ Compiles(op[u]) => config'.jit \in op'[u].jits /\ auto' \in op'[u].modes
       /\ strategy = "thread-local" => limit'[u] = limit[u]

LEMMA OthersKept ==
  ASSUME IInv, NEW t \in Threads, TypeOK', LeavesOthers(t), Later(World, World'),
         cleared' <= epoch', mepoch' + Owed' <= MaxModule,
         LocalOK(loc'[t], World'), CallOK(op'[t], loc'[t], World'), LimitFollows(t)',
         VerdictOK(ret[t])'
  PROVE  IInv'
<1>1. PICK w \in Worlds : w = World
  BY WorldIsWorld DEF IInv
<1>2. PICK v \in Worlds : v = World'
  BY NextWorldIsWorld
<1>3. ASSUME NEW u \in Threads, u # t
      PROVE  LocalOK(loc'[u], v) /\ CallOK(op'[u], loc'[u], v) /\ LimitFollows(u)' /\ VerdictOK(ret[u])'
  <2>1. /\ loc[u] \in Local /\ op[u] \in Op /\ op'[u] \in Op
        /\ LocalOK(loc[u], w) /\ CallOK(op[u], loc[u], w) /\ LimitFollows(u)
    BY <1>1 DEF IInv, TypeOK
  <2>2. /\ loc'[u] = loc[u] /\ ret'[u] = ret[u] /\ Wider(op[u], op'[u]) /\ strategy' = strategy
        /\ Compiles(op[u]) => config'.jit \in op'[u].jits /\ auto' \in op'[u].modes
        /\ strategy = "thread-local" => limit'[u] = limit[u]
    BY <1>3 DEF LeavesOthers
  <2>3. Later(w, v) /\ v.config = config' /\ v.auto = auto'
    BY <1>1, <1>2 DEF World
  <2>4. LocalOK(loc[u], v)
    BY <2>1, <2>3, LaterKeepsLocal
  <2>5. CallOK(op'[u], loc[u], v)
    <3>1. Compiles(op[u]) => v.config.jit \in op'[u].jits /\ v.auto \in op'[u].modes
      BY <2>2, <2>3
    <3> QED
      BY <2>1, <2>2, <2>3, <3>1, LaterKeepsCall
  <2>6. LimitFollows(u)'
    <3>1. op'[u].pc = op[u].pc /\ op'[u].then = op[u].then /\ op'[u].lim = op[u].lim
      BY <2>1, <2>2, WiderFields
    <3> QED
      BY <2>1, <2>2, <3>1 DEF LimitFollows, LimitsAgree, Announces, Trimmed, Synchronises
  <2>7. VerdictOK(ret[u])'
    <3>1. VerdictOK(ret[u])
      BY Verdicts DEF IInv
    <3> QED
      BY <2>2, <3>1 DEF VerdictOK, Current
  <2> QED
    BY <2>2, <2>4, <2>5, <2>6, <2>7
<1>4. \A u \in Threads : LocalOK(loc'[u], v) /\ CallOK(op'[u], loc'[u], v) /\ LimitFollows(u)' /\ VerdictOK(ret[u])'
  BY <1>2, <1>3
<1>5. SlowPathIsCurrent' /\ CoherentHotIsCurrent'
  BY <1>4, NextVerdicts
<1> QED
  BY <1>2, <1>4, <1>5 DEF IInv

-----------------------------------------------------------------------------
(* A step that changes its own thread alone.                                   *)

OpBecomes(t, r) ==
  /\ op' \in [Threads -> Op] /\ op'[t] = r
  /\ \A u \in Threads \ {t} : op'[u] = op[u]
LocBecomes(t, l) ==
  /\ loc' \in [Threads -> Local] /\ loc'[t] = l
  /\ \A u \in Threads \ {t} : loc'[u] = loc[u]
RetBecomes(t, q) ==
  /\ ret' \in [Threads -> Verdict] /\ ret'[t] = q
  /\ \A u \in Threads \ {t} : ret'[u] = ret[u]

\* A call that announces nothing new and has nothing more to announce.
AsAnnounced(o, r) ==
  /\ r.old = o.old
  /\ Announced(r) <=> Announced(o)
  /\ Announced(o) => r.floor = o.floor

LEMMA AnnouncedStays ==
  ASSUME \A u \in Threads : AsAnnounced(op[u], op'[u])
  PROVE  /\ {op'[u].old : u \in Threads} = {op[u].old : u \in Threads}
         /\ UNCHANGED cleared => Floors' = Floors
<1>1. \A u \in Threads : op'[u].old = op[u].old
  BY DEF AsAnnounced
<1>2. {op'[u].old : u \in Threads} = {op[u].old : u \in Threads}
  BY <1>1
<1>3. {v \in Threads : Announced(op'[v])} = {v \in Threads : Announced(op[v])}
  BY DEF AsAnnounced
<1> DEFINE A == {v \in Threads : Announced(op[v])}
<1>4. \A u \in A : op'[u].floor = op[u].floor
  BY DEF AsAnnounced
<1>5. {op'[u].floor : u \in A} = {op[u].floor : u \in A}
  BY <1>4
<1> QED
  BY <1>2, <1>3, <1>5 DEF Floors

LEMMA OnlyItself ==
  ASSUME NEW t \in Threads, NEW r, OpBecomes(t, r), AsAnnounced(op[t], r)
  PROVE  \A u \in Threads : AsAnnounced(op[u], op'[u])
BY DEF OpBecomes, AsAnnounced

LEMMA WorldStays ==
  ASSUME NEW t \in Threads, NEW r, OpBecomes(t, r), AsAnnounced(op[t], r), UNCHANGED shared
  PROVE  World' = World
<1>1. {op'[u].old : u \in Threads} = {op[u].old : u \in Threads} /\ Floors' = Floors
  BY OnlyItself, AnnouncedStays DEF shared
<1>2. ModesInForce' = ModesInForce
  BY <1>1 DEF ModesInForce, shared
<1> QED
  BY <1>1, <1>2 DEF World, shared

LEMMA StepKeeps ==
  ASSUME IInv, NEW t \in Threads,
         NEW r \in Op, OpBecomes(t, r), NEW l \in Local, LocBecomes(t, l),
         NEW q \in Verdict, RetBecomes(t, q), UNCHANGED shared,
         AsAnnounced(op[t], r), Owes(r) <= Owes(op[t]),
         LocalOK(l, World), CallOK(r, l, World),
         strategy = "thread-local" => LimitsAgree(r, l, limit[t]),
         VerdictOK(q)
  PROVE  IInv'
<1>1. World' = World
  BY WorldStays DEF IInv
<1>2. TypeOK'
  BY DEF IInv, TypeOK, OpBecomes, LocBecomes, RetBecomes, shared
<1>3. LeavesOthers(t)
  <2>1. ASSUME NEW u \in Threads, u # t
        PROVE  /\ loc'[u] = loc[u] /\ ret'[u] = ret[u] /\ Wider(op[u], op'[u])
               /\ Compiles(op[u]) => config'.jit \in op'[u].jits /\ auto' \in op'[u].modes
               /\ limit'[u] = limit[u]
    <3>1. loc'[u] = loc[u] /\ ret'[u] = ret[u] /\ op'[u] = op[u] /\ op[u] \in Op
      BY <2>1 DEF OpBecomes, LocBecomes, RetBecomes, IInv, TypeOK
    <3>2. Wider(op[u], op'[u])
      BY <3>1, SelfIsWider
    <3>3. Compiles(op[u]) => config.jit \in op[u].jits /\ auto \in op[u].modes
      BY DEF IInv, CallOK, CompileOK, World
    <3> QED
      BY <3>1, <3>2, <3>3 DEF shared
  <2> QED
    BY <2>1 DEF LeavesOthers, shared
<1>4. Later(World, World')
  <2>1. PICK w \in Worlds : w = World
    BY WorldIsWorld DEF IInv
  <2>2. Later(w, w)
    BY ModuleAssumption DEF Later, Worlds, Config
  <2> QED
    BY <1>1, <2>1, <2>2
<1>5. cleared' <= epoch'
  BY DEF IInv, shared
<1>6. mepoch' + Owed' <= MaxModule
  <2>1. \A u \in Threads \ {t} : op'[u].pc = op[u].pc /\ op'[u].again = op[u].again
    BY DEF OpBecomes
  <2>2. Owed \in Nat /\ Owed' \in Nat /\ Owed' = Owed + Owes(op'[t]) - Owes(op[t])
    BY <2>1, OwedChanges
  <2>3. Owes(op[t]) \in Nat /\ Owes(r) \in Nat
    BY DEF Owes
  <2> QED
    BY <2>2, <2>3, ModuleAssumption DEF IInv, TypeOK, OpBecomes, shared
<1>7. LocalOK(loc'[t], World') /\ CallOK(op'[t], loc'[t], World')
  BY <1>1 DEF OpBecomes, LocBecomes
<1>8. LimitFollows(t)'
  BY DEF LimitFollows, OpBecomes, LocBecomes, shared
<1>9. VerdictOK(ret[t])'
  BY DEF RetBecomes, VerdictOK, Current, shared
<1> QED
  BY <1>2, <1>3, <1>4, <1>5, <1>6, <1>7, <1>8, <1>9, OthersKept

\* What the invariant says of one thread.
LEMMA OfThread ==
  ASSUME IInv, NEW t \in Threads
  PROVE  /\ op[t] \in Op /\ loc[t] \in Local /\ ret[t] \in Verdict /\ World \in Worlds
         /\ LocalOK(loc[t], World) /\ CallOK(op[t], loc[t], World) /\ LimitFollows(t)
         /\ VerdictOK(ret[t])
<1>1. World \in Worlds
  BY WorldIsWorld DEF IInv
<1>2. VerdictOK(ret[t])
  BY Verdicts DEF IInv
<1> QED
  BY <1>1, <1>2 DEF IInv, TypeOK

LEMMA WorldFields ==
  ASSUME IInv
  PROVE  /\ World.strategy = strategy /\ World.config = config /\ World.auto = auto
         /\ World.epoch = epoch /\ World.mepoch = mepoch /\ World.modes = ModesInForce
         /\ World.floors = Floors
         /\ epoch \in Nat /\ mepoch \in Nat /\ config.version \in Nat /\ cleared \in Nat
         /\ epoch \in 0..MaxEpoch /\ mepoch \in 0..MaxModule /\ config \in Config /\ auto \in Modes
         /\ config.version \in 0..MaxVersion /\ config.jit \in BOOLEAN
BY ModuleAssumption DEF IInv, TypeOK, World, Config

LEMMA FirstValues ==
  /\ SomeKey \in Key /\ Idle \in Op /\ NoVerdict \in Verdict
  /\ Idle.pc = "ready" /\ Idle.old = {} /\ Idle.again = FALSE /\ Idle.clears = FALSE /\ Idle.floor = 0
  /\ Idle.seen = 0 /\ Idle.jits = {}
<1>1. (CHOOSE p \in Patterns : TRUE) \in Patterns
  BY ModuleAssumption
<1>2. PICK p \in Patterns : p = CHOOSE x \in Patterns : TRUE
  BY <1>1
<1>3. PICK k \in Key : k = SomeKey
  BY <1>2 DEF SomeKey, Key, Modes
<1>4. [key |-> k, born |-> 0] \in Compiled
  BY ModuleAssumption DEF Compiled
<1>5. PICK g \in Compiled : g = [key |-> k, born |-> 0]
  BY <1>4
<1>6. Idle \in Op
  BY <1>3, <1>5, ModuleAssumption DEF Idle, Op, Phases
<1>7. NoVerdict \in Verdict
  BY DEF NoVerdict, Verdict
<1> QED
  BY <1>3, <1>6, <1>7 DEF Idle

LEMMA OpSet ==
  ASSUME TypeOK, NEW t \in Threads, NEW r \in Op, op' = [op EXCEPT ![t] = r]
  PROVE  OpBecomes(t, r)
BY DEF TypeOK, OpBecomes

LEMMA LocSet ==
  ASSUME TypeOK, NEW t \in Threads, NEW l \in Local, loc' = [loc EXCEPT ![t] = l]
  PROVE  LocBecomes(t, l)
BY DEF TypeOK, LocBecomes

LEMMA RetSet ==
  ASSUME TypeOK, NEW t \in Threads, NEW q \in Verdict, ret' = [ret EXCEPT ![t] = q]
  PROVE  RetBecomes(t, q)
BY DEF TypeOK, RetBecomes

LEMMA Kept ==
  ASSUME TypeOK, NEW t \in Threads
  PROVE  /\ UNCHANGED loc => LocBecomes(t, loc[t])
         /\ UNCHANGED ret => RetBecomes(t, ret[t])
BY DEF TypeOK, LocBecomes, RetBecomes

\* A module call sets nothing that others follow.
LEMMA CompilesIsNotAnnouncing ==
  ASSUME NEW o \in Op, Compiles(o)
  PROVE  ~Announces(o) /\ ~Trimmed(o) /\ o.pc # "ready"
BY DEF Compiles, Announces, Trimmed, Synchronises

\* A step of a module call within it.
LEMMA CompileStep ==
  ASSUME IInv, NEW t \in Threads, Compiles(op[t]),
         NEW r \in Op, OpBecomes(t, r), Compiles(r), r.floor = op[t].floor,
         NEW l \in Local, LocBecomes(t, l), LocalOK(l, World),
         strategy = "thread-local" => l.eff \in {loc[t].eff, limit[t]},
         UNCHANGED <<shared, ret>>,
         r.seen <= epoch, r.pc = "compile" => r.seen >= l.epoch,
         CompileOK(r, l, World)
  PROVE  IInv'
<1> DEFINE o == op[t]
<1>1. /\ o \in Op /\ loc[t] \in Local /\ ret[t] \in Verdict /\ LimitFollows(t) /\ VerdictOK(ret[t])
      /\ CallOK(o, loc[t], World)
  BY OfThread
<1>2. World.epoch = epoch /\ epoch \in Nat
  BY WorldFields
<1>3. ~o.clears /\ ~o.again /\ o.old = {} /\ o.floor <= epoch
  BY <1>1, <1>2 DEF CallOK, CompileOK
<1>4. ~r.clears /\ ~r.again /\ r.old = {}
  BY DEF CompileOK
<1>5. AsAnnounced(o, r)
  BY <1>3, <1>4 DEF AsAnnounced, Announced
<1>6. r.pc \notin {"bump", "limit", "ready"} /\ ~Trimmed(r)
  BY CompilesIsNotAnnouncing DEF Compiles, Synchronises
<1>7. Owes(r) <= Owes(o)
  BY <1>3, <1>4, <1>6 DEF Owes
<1>8. CallOK(r, l, World)
  BY <1>2, <1>3, <1>4, <1>6 DEF CallOK
<1>9. ~Announces(o)
  BY <1>1, CompilesIsNotAnnouncing
<1>10. strategy = "thread-local" => LimitsAgree(r, l, limit[t])
  BY <1>1, <1>6, <1>9 DEF LimitFollows, LimitsAgree
<1>11. RetBecomes(t, ret[t])
  BY Kept DEF IInv
<1> QED
  BY <1>1, <1>5, <1>7, <1>8, <1>10, <1>11, StepKeeps DEF shared

\* A module call returns, or raises.
LEMMA IdleIsOK ==
  ASSUME NEW w \in Worlds, NEW l
  PROVE  CallOK(Idle, l, w)
<1>1. Idle.pc = "ready" /\ Idle.old = {} /\ Idle.floor <= w.epoch /\ Idle.seen <= w.epoch
  BY FirstValues DEF Worlds
<1> QED
  BY <1>1 DEF CallOK, Compiles, Trimmed, Synchronises

LEMMA LeaveStep ==
  ASSUME IInv, NEW t \in Threads, Compiles(op[t]), op' = [op EXCEPT ![t] = Idle],
         NEW l \in Local, LocBecomes(t, l), LocalOK(l, World), l.eff = loc[t].eff,
         NEW q \in Verdict, RetBecomes(t, q), VerdictOK(q), UNCHANGED shared
  PROVE  IInv'
<1> DEFINE o == op[t]
<1>1. o \in Op /\ LimitFollows(t) /\ CallOK(o, loc[t], World)
  BY OfThread
<1>2. ~o.clears /\ ~o.again /\ o.old = {}
  BY <1>1 DEF CallOK, CompileOK
<1>3. Idle \in Op /\ OpBecomes(t, Idle)
  BY FirstValues, OpSet DEF IInv
<1>4. AsAnnounced(o, Idle)
  BY <1>2, FirstValues DEF AsAnnounced, Announced
<1>5. Owes(Idle) <= Owes(o)
  BY FirstValues DEF Owes
<1>6. CallOK(Idle, l, World)
  BY OfThread, IdleIsOK
<1>7. ~Announces(o)
  BY <1>1, CompilesIsNotAnnouncing
<1>8. strategy = "thread-local" => LimitsAgree(Idle, l, limit[t])
  BY <1>1, <1>7, FirstValues DEF LimitFollows, LimitsAgree, Trimmed, Synchronises
<1> QED
  BY <1>3, <1>4, <1>5, <1>6, <1>8, StepKeeps

LEMMA ReturnStep ==
  ASSUME IInv, NEW t \in Threads, Compiles(op[t]),
         NEW got \in Compiled, NEW coherent \in BOOLEAN, NEW path \in {"hot", "slow"},
         Return(t, got, path, coherent),
         NEW l \in Local, LocBecomes(t, l), LocalOK(l, World), l.eff = loc[t].eff, UNCHANGED shared,
         coherent => /\ got.key.jit \in op[t].jits /\ got.key.mode \in op[t].modes
                     /\ strategy = "thread-local" => got.born >= op[t].floor,
         path = "slow" => coherent
  PROVE  IInv'
<1> DEFINE q == [path |-> path, coherent |-> coherent,
                 jit |-> got.key.jit \in op[t].jits,
                 mode |-> got.key.mode \in op[t].modes,
                 generation |-> got.born >= op[t].floor]
<1>1. q \in Verdict
  BY DEF Verdict
<1>2. VerdictOK(q)
  BY DEF VerdictOK, Current
<1>3. op' = [op EXCEPT ![t] = Idle] /\ ret' = [ret EXCEPT ![t] = q]
  BY DEF Return
<1> HIDE DEF q
<1>4. RetBecomes(t, q)
  BY <1>1, <1>3, RetSet DEF IInv
<1> QED
  BY <1>1, <1>2, <1>3, <1>4, LeaveStep

-----------------------------------------------------------------------------
(* The steps of a module call.                                                 *)

\* A call that compiles, where it is.
LEMMA OfCompile ==
  ASSUME IInv, NEW t \in Threads, Compiles(op[t])
  PROVE  /\ op[t] \in Op /\ loc[t] \in Local /\ LocalOK(loc[t], World)
         /\ CompileOK(op[t], loc[t], World)
         /\ op[t].floor <= epoch /\ op[t].seen <= epoch
         /\ op[t].pc = "compile" => op[t].seen >= loc[t].epoch
BY OfThread, WorldFields DEF CallOK

LEMMA FloorsArePast ==
  ASSUME IInv
  PROVE  \A n \in World.floors : n \in Nat /\ n <= epoch
<1>1. ASSUME NEW u \in Threads PROVE op[u].floor \in Nat /\ op[u].floor <= epoch
  <2>1. op[u] \in Op /\ CallOK(op[u], loc[u], World) /\ World.epoch = epoch
    BY OfThread, WorldFields
  <2> QED
    BY <2>1 DEF CallOK, Op
<1>2. cleared \in Nat /\ cleared <= epoch /\ World.floors = Floors
  BY WorldFields DEF IInv
<1> QED
  BY <1>1, <1>2 DEF Floors

LEMMA BeginKeeps ==
  ASSUME IInv, NEW t \in Threads, NEW p \in Patterns, Begin(t, p)
  PROVE  IInv'
<1>1. PICK l \in Local : l = loc[t] /\ LocalOK(l, World) /\ LimitFollows(t)
  BY OfThread
<1>2. op[t] = Idle
  BY OfThread DEF Begin, CallOK
<1>3. PICK c \in {"hot", "mode"} : c = IF HotIsFor(t, p) THEN "hot" ELSE "mode"
  OBVIOUS
<1>4. PICK m \in SUBSET Modes : m = ModesInForce
  BY WorldIsWorld DEF IInv, World, Worlds
<1>5. cleared \in 0..MaxEpoch /\ config.jit \in BOOLEAN /\ cleared <= epoch
  BY WorldFields DEF IInv, TypeOK
<1> DEFINE r == [Idle EXCEPT !.pc = c, !.key.pat = p, !.floor = cleared,
                             !.jits = {config.jit}, !.modes = m]
<1>6. r \in Op
  BY <1>5, FirstValues DEF Op, Phases, Key
<1>7. /\ r.pc = c /\ r.floor = cleared /\ r.jits = {config.jit} /\ r.modes = m /\ r.old = {}
      /\ r.clears = FALSE /\ r.again = FALSE /\ r.seen = 0
  BY FirstValues DEF Op
<1>8. op' = [op EXCEPT ![t] = r]
  BY <1>3, <1>4 DEF Begin
<1> HIDE DEF r
<1>9. OpBecomes(t, r)
  BY <1>6, <1>8, OpSet DEF IInv
<1>10. LocBecomes(t, l)
  BY <1>1, Kept DEF IInv, Begin
<1>11. RetBecomes(t, NoVerdict)
  BY FirstValues, RetSet DEF IInv, Begin
<1>12. AsAnnounced(op[t], r) /\ Owes(r) <= Owes(op[t])
  BY <1>2, <1>7, FirstValues DEF AsAnnounced, Announced, Owes
<1>13. /\ World.config = config /\ World.auto = auto /\ World.modes = m /\ cleared \in World.floors
       /\ auto \in m /\ World.mepoch = mepoch /\ World.strategy = strategy /\ World.epoch = epoch
       /\ epoch \in Nat
  BY <1>4, WorldFields DEF ModesInForce, Floors
<1>14. c = "hot" => /\ l.hot # NoEntry
                    /\ l.hot.coherent => l.hot.got.key.mode \in m
                                         /\ (strategy = "thread-local" => l.hot.got.born >= cleared)
  <2>1. SUFFICES ASSUME c = "hot"
                 PROVE  /\ l.hot # NoEntry
                        /\ l.hot.coherent => l.hot.got.key.mode \in m
                                             /\ (strategy = "thread-local" => l.hot.got.born >= cleared)
    OBVIOUS
  <2>2. l.hot # NoEntry /\ l.hot.mepoch = mepoch
    BY <1>1, <1>3, <2>1 DEF HotIsFor
  <2>3. HotOK(l.hot, World)
    BY <1>1, <2>2 DEF LocalOK
  <2> QED
    BY <1>13, <2>2, <2>3 DEF HotOK
<1>15. CompileOK(r, l, World)
  BY <1>7, <1>13, <1>14 DEF CompileOK, NotOlder
<1>16. CallOK(r, l, World)
  BY <1>5, <1>7, <1>13, <1>15 DEF CallOK, Trimmed, Synchronises
<1>17. strategy = "thread-local" => LimitsAgree(r, l, limit[t])
  BY <1>1, <1>2, <1>7, FirstValues DEF LimitFollows, LimitsAgree, Announces, Trimmed, Synchronises
<1>18. VerdictOK(NoVerdict) /\ UNCHANGED shared
  BY DEF VerdictOK, NoVerdict, Begin
<1> QED
  BY <1>1, <1>6, <1>9, <1>10, <1>11, <1>12, <1>16, <1>17, <1>18, FirstValues, StepKeeps

LEMMA CheckHotKeeps ==
  ASSUME IInv, NEW t \in Threads, CheckHot(t)
  PROVE  IInv'
<1>1. op[t].pc = "hot" /\ Compiles(op[t]) /\ UNCHANGED <<shared, loc>>
  BY DEF CheckHot, Compiles
<1>2. PICK o \in Op : o = op[t] /\ CompileOK(o, loc[t], World) /\ o.pc = "hot" /\ o.seen <= epoch
  BY <1>1, OfCompile
<1>3. PICK l \in Local : l = loc[t] /\ LocalOK(l, World) /\ LocBecomes(t, l)
  BY <1>1, OfCompile, Kept DEF IInv
<1>4. /\ World.config.jit \in o.jits /\ World.config = config /\ World.strategy = strategy
      /\ l.hot # NoEntry
      /\ l.hot.coherent => l.hot.got.key.mode \in o.modes
                           /\ (strategy = "thread-local" => l.hot.got.born >= o.floor)
  BY <1>2, <1>3, WorldFields DEF CompileOK
<1>5. PICK h \in Hot : h = l.hot /\ HotOK(h, World)
  BY <1>3, <1>4 DEF LocalOK, Local
<1>6. CASE HotConfigStands(t)
  <2>1. Return(t, h.got, "hot", h.coherent)
    BY <1>3, <1>5, <1>6 DEF CheckHot
  <2>2. h.coherent => h.got.key.jit \in o.jits
    BY <1>3, <1>4, <1>5, <1>6 DEF HotOK, HotConfigStands
  <2>3. h.got \in Compiled /\ h.coherent \in BOOLEAN
    BY DEF Hot
  <2> QED
    BY <1>1, <1>2, <1>3, <1>4, <1>5, <2>1, <2>2, <2>3, ReturnStep
<1>7. CASE ~HotConfigStands(t)
  <2> DEFINE r == [o EXCEPT !.pc = "mode"]
  <2>1. r \in Op
    BY DEF Op, Phases
  <2>2. /\ r.pc = "mode" /\ r.jits = o.jits /\ r.modes = o.modes /\ r.clears = o.clears
        /\ r.again = o.again /\ r.old = o.old /\ r.floor = o.floor /\ r.seen = o.seen
    BY DEF Op
  <2>3. op' = [op EXCEPT ![t] = r] /\ UNCHANGED ret
    BY <1>2, <1>7 DEF CheckHot, Goto, IInv, TypeOK
  <2> HIDE DEF r
  <2>4. OpBecomes(t, r)
    BY <2>1, <2>3, OpSet DEF IInv
  <2>5. CompileOK(r, l, World)
    BY <1>2, <1>3, <2>2 DEF CompileOK, NotOlder
  <2>6. Compiles(r)
    BY <2>2 DEF Compiles
  <2> QED
    BY <1>1, <1>2, <1>3, <2>1, <2>2, <2>3, <2>4, <2>5, <2>6, CompileStep
<1> QED
  BY <1>6, <1>7

LEMMA ReadModeKeeps ==
  ASSUME IInv, NEW t \in Threads, ReadMode(t)
  PROVE  IInv'
<1>1. op[t].pc = "mode" /\ Compiles(op[t]) /\ UNCHANGED <<shared, loc, ret>>
  BY DEF ReadMode, Compiles
<1>2. PICK o \in Op : o = op[t] /\ CompileOK(o, loc[t], World) /\ o.pc = "mode" /\ o.seen <= epoch
  BY <1>1, OfCompile
<1>3. PICK l \in Local : l = loc[t] /\ LocalOK(l, World) /\ LocBecomes(t, l)
  BY <1>1, OfCompile, Kept DEF IInv
<1> DEFINE r == [o EXCEPT !.pc = "config", !.key.mode = auto, !.stamp = mepoch]
<1>4. /\ World.auto = auto /\ World.mepoch = mepoch /\ mepoch \in 0..MaxModule /\ mepoch \in Nat
      /\ auto \in Modes /\ auto \in World.modes
  BY WorldFields DEF ModesInForce
<1>5. r \in Op
  BY <1>4 DEF Op, Phases, Key
<1>6. /\ r.pc = "config" /\ r.key.mode = auto /\ r.stamp = mepoch
      /\ r.jits = o.jits /\ r.modes = o.modes /\ r.clears = o.clears
      /\ r.again = o.again /\ r.old = o.old /\ r.floor = o.floor /\ r.seen = o.seen
  BY DEF Op, Key
<1>7. op' = [op EXCEPT ![t] = r]
  BY <1>2 DEF ReadMode, IInv, TypeOK
<1> HIDE DEF r
<1>8. OpBecomes(t, r)
  BY <1>5, <1>7, OpSet DEF IInv
<1>9. CompileOK(r, l, World)
  BY <1>2, <1>3, <1>4, <1>6 DEF CompileOK, NotOlder
<1>10. Compiles(r)
  BY <1>6 DEF Compiles
<1> QED
  BY <1>1, <1>2, <1>3, <1>5, <1>6, <1>8, <1>9, <1>10, CompileStep

LEMMA ReadConfigKeeps ==
  ASSUME IInv, NEW t \in Threads, ReadConfig(t)
  PROVE  IInv'
<1>1. op[t].pc = "config" /\ Compiles(op[t]) /\ UNCHANGED <<shared, loc, ret>>
  BY DEF ReadConfig, Compiles
<1>2. PICK o \in Op : o = op[t] /\ CompileOK(o, loc[t], World) /\ o.pc = "config" /\ o.seen <= epoch
  BY <1>1, OfCompile
<1>3. PICK l \in Local : l = loc[t] /\ LocalOK(l, World) /\ LocBecomes(t, l)
  BY <1>1, OfCompile, Kept DEF IInv
<1> DEFINE r == [o EXCEPT !.pc = "sync", !.then = "lru", !.key.jit = config.jit,
                          !.version = config.version]
<1>4. World.config = config /\ config.jit \in BOOLEAN /\ config.version \in 0..MaxVersion /\ config.version \in Nat
  BY WorldFields
<1>5. r \in Op
  BY <1>4 DEF Op, Phases, Key
<1>6. /\ r.pc = "sync" /\ r.then = "lru" /\ r.key.jit = config.jit /\ r.version = config.version
      /\ r.key.mode = o.key.mode /\ r.stamp = o.stamp
      /\ r.jits = o.jits /\ r.modes = o.modes /\ r.clears = o.clears
      /\ r.again = o.again /\ r.old = o.old /\ r.floor = o.floor /\ r.seen = o.seen
  BY DEF Op, Key
<1>7. op' = [op EXCEPT ![t] = r]
  BY ZenonT(30), <1>2 DEF ReadConfig, IInv, TypeOK
<1> HIDE DEF r
<1>8. OpBecomes(t, r)
  BY <1>5, <1>7, OpSet DEF IInv
<1>9. CompileOK(r, l, World)
  BY <1>2, <1>3, <1>4, <1>6 DEF CompileOK, NotOlder
<1>10. Compiles(r)
  BY <1>6 DEF Compiles, Synchronises
<1> QED
  BY <1>1, <1>2, <1>3, <1>5, <1>6, <1>8, <1>9, <1>10, CompileStep

\* Of the entries of a cache one stands for a key it has.
LEMMA FoundIsFresh ==
  ASSUME NEW n, NEW c \in Seq(Fresh(n, World)), NEW k, Has(c, k)
  PROVE  /\ Lookup(c, k) \in Compiled /\ Lookup(c, k).key = k
         /\ World.strategy = "thread-local" => Lookup(c, k).born >= n
<1>1. PICK i \in DOMAIN c : c[i].key = k /\ Lookup(c, k) = c[i].val
  BY LookupFindsEntry
<1>2. i \in 1..Len(c)
  BY LenProperties
<1>3. c[i] \in Fresh(n, World)
  BY <1>2, ElementOfSeq
<1> QED
  BY <1>1, <1>3 DEF Fresh, Entries

\* _synchronize_local_caches, the epoch.
LEMMA SyncKeeps ==
  ASSUME IInv, NEW t \in Threads, Sync(t)
  PROVE  IInv'
<1>1. op[t].pc = "sync" /\ UNCHANGED <<shared, loc, ret>>
  BY DEF Sync
<1>2. PICK o \in Op : o = op[t] /\ CallOK(o, loc[t], World) /\ o.pc = "sync" /\ LimitFollows(t)
  BY <1>1, OfThread
<1>3. PICK l \in Local : l = loc[t] /\ LocalOK(l, World) /\ LocBecomes(t, l)
  BY <1>1, OfThread, Kept DEF IInv
<1>4. /\ World.epoch = epoch /\ epoch \in Nat /\ epoch \in 0..MaxEpoch /\ World.mepoch = mepoch
      /\ World.config = config /\ o.floor \in Nat /\ o.floor <= epoch /\ o.seen <= epoch
  BY <1>2, WorldFields, ModuleAssumption DEF CallOK, Op
<1> DEFINE r == IF l.epoch = epoch THEN [o EXCEPT !.pc = o.then]
                ELSE [o EXCEPT !.pc = "syncLimit", !.seen = epoch]
<1>5. r \in Op
  BY <1>4 DEF Op, Phases
<1>6. /\ r.then = o.then /\ r.key = o.key /\ r.version = o.version /\ r.stamp = o.stamp
      /\ r.jits = o.jits /\ r.modes = o.modes /\ r.clears = o.clears
      /\ r.again = o.again /\ r.old = o.old /\ r.floor = o.floor /\ r.lim = o.lim
      /\ l.epoch = epoch => r.pc = o.then /\ r.seen = o.seen
      /\ l.epoch # epoch => r.pc = "syncLimit" /\ r.seen = epoch
      /\ o.then \in {"lru", "snapshot", "trim", "resync"}
  BY DEF Op
<1>7. op' = [op EXCEPT ![t] = r]
  BY <1>2, <1>3 DEF Sync
<1> HIDE DEF r
<1>8. OpBecomes(t, r)
  BY <1>5, <1>7, OpSet DEF IInv
<1>9. r.seen <= epoch
  BY <1>4, <1>6
<1>10. CASE o.then \in {"trim", "resync"}
  <2>1. AsAnnounced(o, r) /\ Owes(r) <= Owes(o)
    BY <1>2, <1>6, <1>10 DEF AsAnnounced, Announced, Owes
  <2>2. CallOK(r, l, World)
    <3>1. Trimmed(r) => Len(l.cache) <= r.lim
      BY <1>2, <1>3, <1>6 DEF CallOK, Trimmed, Synchronises
    <3> QED
      BY <1>2, <1>4, <1>6, <1>9, <1>10, <3>1 DEF CallOK, Compiles, Synchronises
  <2>3. strategy = "thread-local" => LimitsAgree(r, l, limit[t])
    BY <1>2, <1>3, <1>6, <1>10 DEF LimitFollows, LimitsAgree, Announces, Trimmed, Synchronises
  <2>4. ret[t] \in Verdict /\ VerdictOK(ret[t]) /\ RetBecomes(t, ret[t])
    BY <1>1, OfThread, Kept DEF IInv
  <2> QED
    BY <1>1, <1>2, <1>3, <1>5, <1>8, <2>1, <2>2, <2>3, <2>4, StepKeeps
<1>11. CASE o.then \in {"lru", "snapshot"}
  <2>1. Compiles(o) /\ Compiles(r)
    BY <1>2, <1>6, <1>11 DEF Compiles, Synchronises
  <2>2. CompileOK(o, l, World)
    BY <1>2, <1>3, <2>1 DEF CallOK
  <2>3. ASSUME NEW n \in Nat, n <= epoch, NotOlder(o, l, n, World)
        PROVE  NotOlder(r, l, n, World)
    BY <1>2, <1>4, <1>6, <1>11, <2>3 DEF NotOlder
  <2>4. NotOlder(r, l, r.floor, World)
    BY <1>4, <1>6, <2>2, <2>3 DEF CompileOK
  <2>5. (\A n \in World.floors : NotOlder(o, l, n, World)) => \A n \in World.floors : NotOlder(r, l, n, World)
    BY <2>3, FloorsArePast
  <2>6. CompileOK(r, l, World)
    BY <1>2, <1>4, <1>6, <1>11, <2>2, <2>4, <2>5 DEF CompileOK
  <2>7. r.pc # "compile"
    BY <1>6
  <2> QED
    BY <1>1, <1>2, <1>3, <1>5, <1>6, <1>8, <1>9, <2>1, <2>6, <2>7, CompileStep
<1> QED
  BY <1>6, <1>10, <1>11

\* _synchronize_local_caches, the limit.
LEMMA SyncLimitKeeps ==
  ASSUME IInv, NEW t \in Threads, SyncLimit(t)
  PROVE  IInv'
<1>1. op[t].pc = "syncLimit" /\ UNCHANGED <<shared, ret>>
  BY DEF SyncLimit
<1>2. PICK o \in Op : o = op[t] /\ CallOK(o, loc[t], World) /\ o.pc = "syncLimit" /\ LimitFollows(t)
  BY <1>1, OfThread
<1>3. /\ World.epoch = epoch /\ epoch \in Nat /\ World.mepoch = mepoch /\ World.config = config
      /\ World.strategy = strategy
      /\ o.floor \in Nat /\ o.floor <= epoch /\ o.seen <= epoch /\ o.seen \in 0..MaxEpoch /\ o.seen \in Nat
  BY <1>2, WorldFields, ModuleAssumption DEF CallOK, Op
<1>4. PICK e \in Limits : e = limit[ScopeOf(t)] /\ (strategy = "thread-local" => e = limit[t])
  BY DEF IInv, TypeOK, ScopeOf, Scopes
<1> DEFINE l == [epoch |-> o.seen, eff |-> e, cache |-> Empty, lru |-> Empty, hot |-> NoEntry,
               late |-> FALSE]
<1>5. l \in Local
  BY <1>3, EmptyCache DEF Local, Cache
<1>6. /\ l.epoch = o.seen /\ l.eff = e /\ l.cache = Empty /\ l.lru = Empty /\ l.hot = NoEntry
      /\ l.late = FALSE
  OBVIOUS
<1>7. loc' = [loc EXCEPT ![t] = l]
  BY <1>2, <1>4 DEF SyncLimit
<1> HIDE DEF l
<1>8. LocBecomes(t, l)
  BY <1>5, <1>7, LocSet DEF IInv
<1>9. LocalOK(l, World)
  <2>1. e \in Nat
    BY ModuleAssumption
  <2> QED
    BY <1>3, <1>6, <2>1, EmptyCache DEF LocalOK
<1> DEFINE r == [o EXCEPT !.pc = o.then, !.orphan = (o.then = "snapshot")]
<1>10. r \in Op
  BY DEF Op, Phases
<1>11. /\ r.pc = o.then /\ r.then = o.then /\ r.key = o.key /\ r.version = o.version /\ r.stamp = o.stamp
       /\ r.jits = o.jits /\ r.modes = o.modes /\ r.clears = o.clears
       /\ r.again = o.again /\ r.old = o.old /\ r.floor = o.floor /\ r.seen = o.seen /\ r.lim = o.lim
       /\ o.then \in {"lru", "snapshot", "trim", "resync"}
  BY DEF Op
<1>12. op' = [op EXCEPT ![t] = r]
  BY <1>2 DEF SyncLimit, IInv, TypeOK
<1> HIDE DEF r
<1>13. OpBecomes(t, r)
  BY <1>10, <1>12, OpSet DEF IInv
<1>14. CASE o.then \in {"trim", "resync"}
  <2>1. AsAnnounced(o, r) /\ Owes(r) <= Owes(o)
    BY <1>2, <1>11, <1>14 DEF AsAnnounced, Announced, Owes
  <2>2. CallOK(r, l, World)
    <3>1. Len(l.cache) <= r.lim
      <4>1. Len(l.cache) = 0 /\ r.lim = o.lim
        BY <1>6, <1>11, EmptyCache
      <4>2. o.lim \in Nat
        BY ModuleAssumption DEF Op
      <4> QED
        BY <4>1, <4>2
    <3> QED
      BY <1>2, <1>3, <1>11, <1>14, <3>1 DEF CallOK, Compiles, Synchronises
  <2>3. strategy = "thread-local" => LimitsAgree(r, l, limit[t])
    BY <1>2, <1>4, <1>6, <1>11 DEF LimitFollows, LimitsAgree, Trimmed, Synchronises
  <2>4. ret[t] \in Verdict /\ VerdictOK(ret[t]) /\ RetBecomes(t, ret[t])
    BY <1>1, OfThread, Kept DEF IInv
  <2> QED
    BY <1>1, <1>2, <1>5, <1>8, <1>9, <1>10, <1>13, <2>1, <2>2, <2>3, <2>4, StepKeeps
<1>15. CASE o.then \in {"lru", "snapshot"}
  <2>1. Compiles(o) /\ Compiles(r)
    BY <1>2, <1>11, <1>15 DEF Compiles, Synchronises
  <2>2. CompileOK(o, loc[t], World)
    BY <1>2, <2>1 DEF CallOK
  <2>3. \A n : NotOlder(o, loc[t], n, World) => NotOlder(r, l, n, World)
    BY <1>2, <1>6, <1>11, <1>15 DEF NotOlder
  <2>4. CompileOK(r, l, World)
    BY <1>2, <1>11, <1>15, <2>2, <2>3 DEF CompileOK
  <2>5. r.pc # "compile" /\ (strategy = "thread-local" => l.eff \in {loc[t].eff, limit[t]})
    BY <1>4, <1>6, <1>11
  <2> QED
    BY <1>1, <1>2, <1>3, <1>5, <1>8, <1>9, <1>10, <1>11, <1>13, <2>1, <2>4, <2>5, CompileStep
<1> QED
  BY <1>11, <1>14, <1>15

\* A call finds or makes its wrapper and keeps what it knows of its own state.
LEMMA FoundKeeps ==
  ASSUME IInv, NEW t \in Threads, op[t].pc \in {"lru", "snapshot", "compile"},
         NEW g \in Compiled, g.key = op[t].key, strategy = "thread-local" => g.born >= loc[t].epoch,
         op' = [op EXCEPT ![t] = [op[t] EXCEPT !.pc = "hotConfig", !.got = g]],
         NEW m \in Local, loc' = [loc EXCEPT ![t] = m], LocalOK(m, World),
         m.epoch = loc[t].epoch, m.eff = loc[t].eff, UNCHANGED <<shared, ret>>
  PROVE  IInv'
<1>1. Compiles(op[t])
  BY DEF Compiles
<1>2. PICK o \in Op : /\ o = op[t] /\ CompileOK(o, loc[t], World) /\ o.seen <= epoch
                      /\ o.pc \in {"lru", "snapshot", "compile"}
  BY <1>1, OfCompile
<1>3. PICK l \in Local : l = loc[t]
  BY OfThread
<1>4. World.config = config /\ World.strategy = strategy
  BY WorldFields
<1> DEFINE r == [o EXCEPT !.pc = "hotConfig", !.got = g]
<1>5. r \in Op
  BY DEF Op, Phases
<1>6. /\ r.pc = "hotConfig" /\ r.got = g /\ r.key = o.key /\ r.version = o.version /\ r.stamp = o.stamp
      /\ r.jits = o.jits /\ r.modes = o.modes /\ r.clears = o.clears
      /\ r.again = o.again /\ r.old = o.old /\ r.floor = o.floor /\ r.seen = o.seen
  BY DEF Op
<1>7. op' = [op EXCEPT ![t] = r]
  BY <1>2
<1> HIDE DEF r
<1>8. OpBecomes(t, r) /\ LocBecomes(t, m)
  BY <1>5, <1>7, OpSet, LocSet DEF IInv
<1>9. \A n : n \in Nat /\ NotOlder(o, l, n, World) => NotOlder(r, m, n, World)
  <2>1. l.epoch \in Int /\ g.born \in Int
    BY DEF Local, Compiled
  <2> QED
    BY <1>2, <1>3, <1>4, <1>6, <2>1 DEF NotOlder
<1>10. /\ NotOlder(r, m, r.floor, World)
       /\ (\A n \in World.floors : NotOlder(o, l, n, World)) => \A n \in World.floors : NotOlder(r, m, n, World)
  <2>1. o.floor \in Nat
    BY ModuleAssumption DEF Op
  <2> QED
    BY <1>2, <1>3, <1>6, <1>9, <2>1, FloorsArePast DEF CompileOK
<1>11. CompileOK(r, m, World)
  BY <1>2, <1>3, <1>6, <1>10 DEF CompileOK
<1>12. Compiles(r)
  BY <1>6 DEF Compiles
<1> QED
  BY <1>1, <1>2, <1>5, <1>6, <1>8, <1>11, <1>12, CompileStep

LEMMA LookupLruKeeps ==
  ASSUME IInv, NEW t \in Threads, LookupLru(t)
  PROVE  IInv'
<1>1. op[t].pc = "lru" /\ Compiles(op[t]) /\ UNCHANGED <<shared, ret>>
  BY DEF LookupLru, Compiles
<1>2. PICK o \in Op : o = op[t] /\ CompileOK(o, loc[t], World) /\ o.pc = "lru" /\ o.seen <= epoch
  BY <1>1, OfCompile
<1>3. PICK l \in Local : l = loc[t] /\ LocalOK(l, World)
  BY <1>1, OfCompile
<1>4. World.config = config /\ World.strategy = strategy
  BY WorldFields
<1>5. PICK hit \in BOOLEAN : hit <=> Cacheable(t) /\ Has(l.lru, o.key)
  OBVIOUS
<1>6. CASE hit
  <2>1. PICK g \in Compiled : /\ g = Lookup(l.lru, o.key) /\ g.key = o.key
                              /\ strategy = "thread-local" => g.born >= l.epoch
    BY <1>3, <1>4, <1>5, <1>6, FoundIsFresh DEF LocalOK
  <2> DEFINE m == [l EXCEPT !.lru = Touch(l.lru, o.key)]
  <2>2. op' = [op EXCEPT ![t] = [op[t] EXCEPT !.pc = "hotConfig", !.got = g]]
    BY <1>2, <1>3, <1>5, <1>6, <2>1 DEF LookupLru
  <2>3. /\ Touch(l.lru, o.key) \in Cache
        /\ Touch(l.lru, o.key) \in Seq(Fresh(l.epoch, World)) /\ Len(Touch(l.lru, o.key)) = Len(l.lru)
    <3>1. l.lru \in Cache /\ l.lru \in Seq(Fresh(l.epoch, World))
      BY <1>3 DEF LocalOK, Local
    <3> QED
      BY <1>5, <1>6, <3>1, TouchProperties DEF Cache
  <2>4. m \in Local
    BY <2>3 DEF Local
  <2>5. /\ m.epoch = l.epoch /\ m.eff = l.eff /\ m.cache = l.cache /\ m.hot = l.hot
        /\ m.late = l.late /\ m.lru = Touch(l.lru, o.key)
    BY DEF Local
  <2>6. loc' = [loc EXCEPT ![t] = m]
    BY <1>2, <1>3, <1>5, <1>6 DEF LookupLru, IInv, TypeOK
  <2> HIDE DEF m
  <2>7. LocalOK(m, World)
    BY <1>3, <2>3, <2>5 DEF LocalOK
  <2> QED
    BY <1>1, <1>2, <1>3, <2>1, <2>2, <2>4, <2>5, <2>6, <2>7, FoundKeeps
<1>7. CASE ~hit
  <2> DEFINE r == [o EXCEPT !.pc = "sync", !.then = "snapshot"]
  <2>1. r \in Op
    BY DEF Op, Phases
  <2>2. /\ r.pc = "sync" /\ r.then = "snapshot" /\ r.key = o.key /\ r.version = o.version /\ r.stamp = o.stamp
        /\ r.jits = o.jits /\ r.modes = o.modes /\ r.clears = o.clears
        /\ r.again = o.again /\ r.old = o.old /\ r.floor = o.floor /\ r.seen = o.seen
    BY DEF Op
  <2>3. op' = [op EXCEPT ![t] = r]
    BY <1>2, <1>3, <1>5, <1>7 DEF LookupLru
  <2>4. loc' = loc
    BY <1>2, <1>3, <1>5, <1>7 DEF LookupLru, IInv, TypeOK, Local
  <2> HIDE DEF r
  <2>5. OpBecomes(t, r) /\ LocBecomes(t, l)
    BY <1>3, <2>1, <2>3, <2>4, OpSet, Kept DEF IInv
  <2>6. CompileOK(r, l, World)
    BY <1>2, <1>3, <2>2 DEF CompileOK, NotOlder
  <2>7. Compiles(r)
    BY <2>2 DEF Compiles, Synchronises
  <2> QED
    BY <1>1, <1>2, <1>3, <2>1, <2>2, <2>5, <2>6, <2>7, CompileStep
<1> QED
  BY <1>6, <1>7

LEMMA EntryIsFresh ==
  ASSUME NEW k \in Key, NEW g \in Compiled, g.key = k, NEW n, World.strategy = "thread-local" => g.born >= n
  PROVE  /\ [key |-> k, val |-> g] \in [key : Key, val : Compiled]
         /\ [key |-> k, val |-> g] \in Fresh(n, World)
BY DEF Fresh, Entries

\* What lru_cache keeps.
LEMMA LruStaysFresh ==
  ASSUME IInv, NEW t \in Threads, NEW g \in Compiled, g.key = op[t].key,
         strategy = "thread-local" => g.born >= loc[t].epoch
  PROVE  /\ KeepInLru(t, g) \in Cache
         /\ KeepInLru(t, g) \in Seq(Fresh(loc[t].epoch, World))
         /\ Len(KeepInLru(t, g)) <= loc[t].eff
<1>1. PICK l \in Local : l = loc[t] /\ LocalOK(l, World)
  BY OfThread
<1>2. PICK k \in Key : k = op[t].key
  BY OfThread DEF Op
<1>3. l.lru \in Cache /\ l.lru \in Seq(Fresh(l.epoch, World)) /\ Len(l.lru) <= l.eff /\ l.eff \in Nat
  BY <1>1, ModuleAssumption DEF LocalOK, Local
<1>4. CASE op[t].orphan \/ ~Cacheable(t)
  BY <1>1, <1>3, <1>4 DEF KeepInLru
<1>5. CASE ~(op[t].orphan \/ ~Cacheable(t))
  <2>1. l.eff \in Nat \ {0}
    BY <1>1, <1>3, <1>5 DEF Cacheable
  <2>2. /\ [key |-> k, val |-> g] \in [key : Key, val : Compiled]
        /\ [key |-> k, val |-> g] \in Fresh(l.epoch, World)
    BY <1>1, <1>2, EntryIsFresh, WorldFields
  <2>3. Assign(MakeRoom(l.lru, l.eff), k, g) \in Seq([key : Key, val : Compiled])
    BY <1>3, <2>1, <2>2, InsertProperties DEF Cache
  <2>4. /\ Assign(MakeRoom(l.lru, l.eff), k, g) \in Seq(Fresh(l.epoch, World))
        /\ Len(Assign(MakeRoom(l.lru, l.eff), k, g)) <= l.eff
    BY <1>3, <2>1, <2>2, InsertProperties
  <2> QED
    BY <1>1, <1>2, <1>5, <2>3, <2>4 DEF KeepInLru, Cache
<1> QED
  BY <1>4, <1>5

LEMMA LookupSnapshotKeeps ==
  ASSUME IInv, NEW t \in Threads, LookupSnapshot(t)
  PROVE  IInv'
<1>1. op[t].pc = "snapshot" /\ Compiles(op[t]) /\ UNCHANGED <<shared, ret>>
  BY DEF LookupSnapshot, Compiles
<1>2. PICK o \in Op : o = op[t] /\ CompileOK(o, loc[t], World) /\ o.pc = "snapshot" /\ o.seen <= epoch
  BY <1>1, OfCompile
<1>3. PICK l \in Local : l = loc[t] /\ LocalOK(l, World)
  BY <1>1, OfCompile
<1>4. World.config = config /\ World.strategy = strategy /\ World.epoch = epoch /\ epoch \in 0..MaxEpoch /\ epoch \in Nat
  BY WorldFields
<1>5. PICK hit \in BOOLEAN : hit <=> l.eff > 0 /\ Has(l.cache, o.key)
  OBVIOUS
<1>6. CASE hit
  <2>1. PICK g \in Compiled : /\ g = Lookup(l.cache, o.key) /\ g.key = o.key
                              /\ strategy = "thread-local" => g.born >= l.epoch
    BY <1>3, <1>4, <1>5, <1>6, FoundIsFresh DEF LocalOK
  <2>2. PICK c \in Cache : /\ c = KeepInLru(t, g) /\ c \in Seq(Fresh(l.epoch, World)) /\ Len(c) <= l.eff
    BY <1>2, <1>3, <2>1, LruStaysFresh
  <2> DEFINE m == [l EXCEPT !.lru = c]
  <2>3. op' = [op EXCEPT ![t] = [op[t] EXCEPT !.pc = "hotConfig", !.got = g]]
    BY <1>2, <1>3, <1>5, <1>6, <2>1 DEF LookupSnapshot, IInv, TypeOK
  <2>4. m \in Local
    BY DEF Local
  <2>5. m.epoch = l.epoch /\ m.eff = l.eff /\ m.cache = l.cache /\ m.hot = l.hot /\ m.lru = c /\ m.late = l.late
    BY DEF Local
  <2>6. loc' = [loc EXCEPT ![t] = m]
    BY <1>2, <1>3, <1>5, <1>6, <2>1, <2>2 DEF LookupSnapshot, IInv, TypeOK
  <2> HIDE DEF m
  <2>7. LocalOK(m, World)
    BY <1>3, <2>2, <2>5 DEF LocalOK
  <2> QED
    BY <1>1, <1>2, <1>3, <2>1, <2>3, <2>4, <2>5, <2>6, <2>7, FoundKeeps
<1>7. CASE ~hit
  <2> DEFINE r == [o EXCEPT !.pc = "compile", !.seen = epoch]
  <2>1. r \in Op
    BY <1>4 DEF Op, Phases
  <2>2. /\ r.pc = "compile" /\ r.seen = epoch /\ r.key = o.key /\ r.version = o.version /\ r.stamp = o.stamp
        /\ r.jits = o.jits /\ r.modes = o.modes /\ r.clears = o.clears
        /\ r.again = o.again /\ r.old = o.old /\ r.floor = o.floor
    BY DEF Op
  <2>3. op' = [op EXCEPT ![t] = r] /\ loc' = loc
    BY <1>2, <1>3, <1>5, <1>7 DEF LookupSnapshot, IInv, TypeOK
  <2> HIDE DEF r
  <2>4. OpBecomes(t, r) /\ LocBecomes(t, l)
    BY <1>3, <2>1, <2>3, OpSet, Kept DEF IInv
  <2>5. \A n : NotOlder(o, l, n, World) => NotOlder(r, l, n, World)
    BY <1>2, <2>2 DEF NotOlder
  <2>6. CompileOK(r, l, World)
    BY <1>2, <1>3, <2>2, <2>5 DEF CompileOK
  <2>7. Compiles(r)
    BY <2>2 DEF Compiles
  <2>8. l.epoch <= epoch /\ epoch >= l.epoch /\ epoch <= epoch
    BY <1>3, <1>4 DEF LocalOK, Local
  <2> QED
    BY <1>1, <1>2, <1>3, <2>1, <2>2, <2>4, <2>6, <2>7, <2>8, CompileStep
<1> QED
  BY <1>6, <1>7

LEMMA CompileKeeps ==
  ASSUME IInv, NEW t \in Threads, Compile(t)
  PROVE  IInv'
<1>1. op[t].pc = "compile" /\ Compiles(op[t]) /\ UNCHANGED <<shared, ret>>
  BY DEF Compile, Compiles
<1>2. PICK o \in Op : /\ o = op[t] /\ CompileOK(o, loc[t], World) /\ o.pc = "compile" /\ o.seen <= epoch
                      /\ o.seen >= loc[t].epoch
  BY <1>1, OfCompile
<1>3. PICK l \in Local : l = loc[t] /\ LocalOK(l, World)
  BY <1>1, OfCompile
<1>4. World.config = config /\ World.strategy = strategy /\ World.epoch = epoch /\ epoch \in 0..MaxEpoch /\ epoch \in Nat
  BY WorldFields
<1>5. PICK born \in Oldest(t)..epoch :
        LET got == [key |-> op[t].key, born |-> born]
        IN /\ loc' = [loc EXCEPT
                       ![t].cache = IF Cacheable(t)
                                    THEN TrimTo(Assign(@, op[t].key, got), loc[t].eff)
                                    ELSE @,
                       ![t].late = @ /\ ~Cacheable(t),
                       ![t].lru = KeepInLru(t, got)]
           /\ op' = [op EXCEPT ![t].pc = "hotConfig", ![t].got = got]
  BY DEF Compile
<1>6. PICK k \in Key : k = o.key
  BY DEF Op
<1>7. born \in 0..MaxEpoch /\ (strategy = "thread-local" => born >= l.epoch)
  <2>1. o.seen \in Nat /\ l.epoch \in Int
    BY ModuleAssumption DEF Op, Local
  <2> QED
    BY <1>2, <1>3, <1>4, <2>1, ModuleAssumption DEF Oldest
<1>8. PICK g \in Compiled : /\ g = [key |-> k, born |-> born] /\ g.key = k
                            /\ strategy = "thread-local" => g.born >= l.epoch
  <2>1. [key |-> k, born |-> born] \in Compiled
    BY <1>7 DEF Compiled
  <2>2. PICK g \in Compiled : g = [key |-> k, born |-> born]
    BY <2>1
  <2>3. g.key = k /\ g.born = born
    BY <2>2
  <2> QED
    BY <1>7, <2>2, <2>3
<1>9. PICK c \in Cache : /\ c = KeepInLru(t, g) /\ c \in Seq(Fresh(l.epoch, World)) /\ Len(c) <= l.eff
  BY <1>2, <1>3, <1>6, <1>8, LruStaysFresh
<1>10. l.cache \in Cache /\ l.cache \in Seq(Fresh(l.epoch, World)) /\ l.eff \in Nat
  BY <1>3, ModuleAssumption DEF LocalOK, Local
<1>11. PICK d \in Cache : /\ d = IF Cacheable(t) THEN TrimTo(Assign(l.cache, k, g), l.eff) ELSE l.cache
                          /\ d \in Seq(Fresh(l.epoch, World))
                          /\ Cacheable(t) => Len(d) <= l.eff
  <2>1. /\ [key |-> k, val |-> g] \in [key : Key, val : Compiled]
        /\ [key |-> k, val |-> g] \in Fresh(l.epoch, World)
    BY <1>4, <1>8, EntryIsFresh
  <2>2. Assign(l.cache, k, g) \in Seq([key : Key, val : Compiled])
    BY <1>10, <2>1, AssignProperties DEF Cache
  <2>3. Assign(l.cache, k, g) \in Seq(Fresh(l.epoch, World))
    BY <1>10, <2>1, AssignProperties
  <2>4. TrimTo(Assign(l.cache, k, g), l.eff) \in Seq([key : Key, val : Compiled])
    BY <1>10, <2>2, TrimToProperties
  <2>5. TrimTo(Assign(l.cache, k, g), l.eff) \in Seq(Fresh(l.epoch, World))
        /\ Len(TrimTo(Assign(l.cache, k, g), l.eff)) <= l.eff
    BY <1>10, <2>3, TrimToProperties
  <2> QED
    BY <1>10, <2>4, <2>5 DEF Cache
<1>12. PICK b \in BOOLEAN : b = (l.late /\ ~Cacheable(t))
  OBVIOUS
<1> DEFINE m == [l EXCEPT !.cache = d, !.late = b, !.lru = c]
<1>13. op' = [op EXCEPT ![t] = [op[t] EXCEPT !.pc = "hotConfig", !.got = g]]
  BY <1>2, <1>5, <1>6, <1>8 DEF IInv, TypeOK
<1>14. m \in Local
  BY DEF Local
<1>15. m.epoch = l.epoch /\ m.eff = l.eff /\ m.cache = d /\ m.hot = l.hot /\ m.lru = c /\ m.late = b
  BY DEF Local
<1>16. loc' = [loc EXCEPT ![t] = m]
  BY <1>2, <1>3, <1>5, <1>6, <1>8, <1>9, <1>11, <1>12 DEF IInv, TypeOK
<1> HIDE DEF m
<1>17. LocalOK(m, World)
  BY <1>3, <1>9, <1>11, <1>15, <1>12 DEF LocalOK
<1> QED
  BY <1>1, <1>2, <1>3, <1>6, <1>8, <1>13, <1>14, <1>15, <1>16, <1>17, FoundKeeps

LEMMA CompileFailsKeeps ==
  ASSUME IInv, NEW t \in Threads, CompileFails(t)
  PROVE  IInv'
<1>1. op[t].pc = "compile" /\ Compiles(op[t]) /\ UNCHANGED <<shared, loc, ret>>
      /\ op' = [op EXCEPT ![t] = Idle]
  BY DEF CompileFails, Compiles
<1>2. /\ loc[t] \in Local /\ LocalOK(loc[t], World) /\ LocBecomes(t, loc[t])
      /\ ret[t] \in Verdict /\ VerdictOK(ret[t]) /\ RetBecomes(t, ret[t])
  BY <1>1, OfThread, Kept DEF IInv
<1> QED
  BY <1>1, <1>2, LeaveStep

LEMMA ReadHotConfigKeeps ==
  ASSUME IInv, NEW t \in Threads, ReadHotConfig(t)
  PROVE  IInv'
<1>1. op[t].pc = "hotConfig" /\ Compiles(op[t]) /\ UNCHANGED <<shared, loc>>
  BY DEF ReadHotConfig, Compiles
<1>2. PICK o \in Op : o = op[t] /\ CompileOK(o, loc[t], World) /\ o.pc = "hotConfig" /\ o.seen <= epoch
  BY <1>1, OfCompile
<1>3. PICK l \in Local : l = loc[t] /\ LocalOK(l, World) /\ LocBecomes(t, l)
  BY <1>1, OfCompile, Kept DEF IInv
<1>4. /\ World.config = config /\ World.strategy = strategy
      /\ config.version \in 0..MaxVersion /\ config.version \in Nat /\ config.version <= config.version
  BY WorldFields
<1>5. CASE ~Cacheable(t)
  <2>1. Return(t, o.got, "slow", TRUE) /\ o.got \in Compiled
    BY <1>2, <1>5 DEF ReadHotConfig, Op
  <2>2. /\ o.got.key.jit \in o.jits /\ o.got.key.mode \in o.modes
        /\ strategy = "thread-local" => o.got.born >= o.floor
    BY <1>2, <1>4 DEF CompileOK, NotOlder
  <2> QED
    BY <1>1, <1>2, <1>3, <2>1, <2>2, ReturnStep
<1>6. CASE Cacheable(t)
  <2> DEFINE r == [o EXCEPT !.pc = "hotEpoch", !.version = config.version,
                            !.steady = (o.version = config.version)]
  <2>1. r \in Op
    BY ZenonT(30), <1>4 DEF Op, Phases
  <2>2. /\ r.pc = "hotEpoch" /\ r.got = o.got /\ r.key = o.key /\ r.stamp = o.stamp
        /\ r.version = config.version /\ (r.steady <=> o.version = config.version)
        /\ r.jits = o.jits /\ r.modes = o.modes /\ r.clears = o.clears
        /\ r.again = o.again /\ r.old = o.old /\ r.floor = o.floor /\ r.seen = o.seen
    BY DEF Op
  <2>3. op' = [op EXCEPT ![t] = r] /\ ret' = ret
    BY <1>2, <1>6 DEF ReadHotConfig, IInv, TypeOK
  <2> HIDE DEF r
  <2>4. OpBecomes(t, r)
    BY <2>1, <2>3, OpSet DEF IInv
  <2>5. \A n : NotOlder(o, l, n, World) => NotOlder(r, l, n, World)
    BY <1>2, <2>2 DEF NotOlder
  <2>6. CompileOK(r, l, World)
    BY <1>2, <1>3, <1>4, <2>2, <2>5 DEF CompileOK
  <2>7. Compiles(r)
    BY <2>2 DEF Compiles
  <2> QED
    BY <1>1, <1>2, <1>3, <2>1, <2>2, <2>3, <2>4, <2>6, <2>7, CompileStep
<1> QED
  BY <1>5, <1>6

\* The stamps of a hot entry are read after its wrapper was made: coherent says
\* that they had not changed.
LEMMA StoreHotKeeps ==
  ASSUME IInv, NEW t \in Threads, StoreHot(t)
  PROVE  IInv'
<1>1. op[t].pc = "hotEpoch" /\ Compiles(op[t]) /\ UNCHANGED shared
  BY DEF StoreHot, Compiles
<1>2. PICK o \in Op : o = op[t] /\ CompileOK(o, loc[t], World) /\ o.pc = "hotEpoch"
  BY <1>1, OfCompile
<1>3. PICK l \in Local : l = loc[t] /\ LocalOK(l, World)
  BY <1>1, OfCompile
<1>4. /\ World.config = config /\ World.strategy = strategy /\ World.mepoch = mepoch
      /\ mepoch \in 0..MaxModule /\ mepoch \in Nat
  BY WorldFields
<1>5. PICK h \in Hot : /\ h.version = o.version /\ h.mepoch = mepoch /\ h.got = o.got
                       /\ h.coherent <=> o.steady /\ o.stamp = mepoch
                       /\ h = [version |-> o.version, mepoch |-> mepoch, got |-> o.got,
                               coherent |-> o.steady /\ o.stamp = mepoch]
  <2> DEFINE h == [version |-> o.version, mepoch |-> mepoch, got |-> o.got,
                   coherent |-> o.steady /\ o.stamp = mepoch]
  <2>1. h \in Hot
    BY <1>4 DEF Op, Hot
  <2>2. /\ h.version = o.version /\ h.mepoch = mepoch /\ h.got = o.got
        /\ h.coherent <=> o.steady /\ o.stamp = mepoch
    OBVIOUS
  <2>3. PICK g \in Hot : g = h
    BY <2>1
  <2> HIDE DEF h
  <2> QED
    BY <2>2, <2>3 DEF h
<1> DEFINE m == [l EXCEPT !.hot = h]
<1>6. m \in Local
  BY DEF Local
<1>7. m.epoch = l.epoch /\ m.eff = l.eff /\ m.cache = l.cache /\ m.hot = h /\ m.lru = l.lru /\ m.late = l.late
  BY DEF Local
<1>8. loc' = [loc EXCEPT ![t] = m]
  BY <1>2, <1>3, <1>5 DEF StoreHot, IInv, TypeOK
<1> HIDE DEF m
<1>9. LocBecomes(t, m)
  BY <1>6, <1>8, LocSet DEF IInv
<1>10. HotOK(h, World)
  BY <1>2, <1>4, <1>5 DEF CompileOK, NotOlder, HotOK
<1>11. LocalOK(m, World)
  BY <1>3, <1>7, <1>10 DEF LocalOK
<1>12. Return(t, o.got, "slow", TRUE) /\ o.got \in Compiled
  BY <1>2 DEF StoreHot, Op
<1>13. /\ o.got.key.jit \in o.jits /\ o.got.key.mode \in o.modes
       /\ strategy = "thread-local" => o.got.born >= o.floor
  BY <1>2, <1>4 DEF CompileOK, NotOlder
<1> QED
  BY <1>1, <1>2, <1>3, <1>6, <1>7, <1>9, <1>11, <1>12, <1>13, ReturnStep

-----------------------------------------------------------------------------
(* The steps of configure, configure_threads, clear_cache and set_cache_limit. *)

\* A call that announces a change, but for the defaults that change with it.
LEMMA AnnouncingStep ==
  ASSUME IInv, NEW t \in Threads, NEW r \in Op, OpBecomes(t, r), Announces(r), ~Compiles(r),
         UNCHANGED <<strategy, config, auto, cleared, loc, ret>>,
         epoch' \in 0..MaxEpoch, epoch' >= epoch, mepoch' \in Nat, mepoch' >= mepoch,
         limit' \in [Scopes -> Limits],
         \A u \in Threads \ {t} : strategy = "thread-local" => limit'[u] = limit[u],
         mepoch' = mepoch => AsAnnounced(op[t], r),
         mepoch' + Owed + Owes(r) - Owes(op[t]) <= MaxModule,
         r.old # {} => r.pc = "bump", r.floor <= epoch', r.seen <= epoch',
         r.pc = "limit" => ~r.clears /\ ~r.again, ~Trimmed(r)
  PROVE  IInv'
<1>1. mepoch' + Owed' <= MaxModule /\ Owed' \in Nat
  <2>1. \A u \in Threads \ {t} : op'[u].pc = op[u].pc /\ op'[u].again = op[u].again
    BY DEF OpBecomes
  <2>2. Owed \in Nat /\ Owed' \in Nat /\ Owed' = Owed + Owes(op'[t]) - Owes(op[t])
    BY <2>1, OwedChanges
  <2>3. Owes(op[t]) \in Nat /\ Owes(r) \in Nat /\ op'[t] = r
    BY DEF Owes, OpBecomes
  <2> QED
    BY <2>2, <2>3
<1>2. mepoch' \in 0..MaxModule
  BY <1>1, ModuleAssumption
<1>3. TypeOK'
  BY <1>2 DEF IInv, TypeOK, OpBecomes
<1>4. PICK w \in Worlds : w = World
  BY WorldIsWorld DEF IInv
<1>5. PICK v \in Worlds : v = World'
  BY <1>3, NextWorldIsWorld
<1>6. Later(w, v)
  <2>1. /\ w.strategy = v.strategy /\ w.epoch = epoch /\ v.epoch = epoch' /\ w.mepoch = mepoch
        /\ v.mepoch = mepoch' /\ w.config = v.config /\ w.modes = ModesInForce /\ v.modes = ModesInForce'
        /\ w.floors = Floors /\ v.floors = Floors' /\ w.config.version \in Nat
    BY <1>4, <1>5, ModuleAssumption DEF World, Worlds, Config
  <2>2. ASSUME mepoch' = mepoch PROVE ModesInForce' = ModesInForce /\ Floors' = Floors
    <3>1. {op'[u].old : u \in Threads} = {op[u].old : u \in Threads} /\ Floors' = Floors
      BY <2>2, OnlyItself, AnnouncedStays
    <3> QED
      BY <3>1 DEF ModesInForce
  <2> QED
    BY <2>1, <2>2 DEF Later
<1>7. LeavesOthers(t)
  <2>1. ASSUME NEW u \in Threads, u # t
        PROVE  /\ loc'[u] = loc[u] /\ ret'[u] = ret[u] /\ Wider(op[u], op'[u])
               /\ Compiles(op[u]) => config'.jit \in op'[u].jits /\ auto' \in op'[u].modes
               /\ strategy = "thread-local" => limit'[u] = limit[u]
    <3>1. op'[u] = op[u] /\ op[u] \in Op
      BY <2>1 DEF OpBecomes, IInv, TypeOK
    <3>2. Wider(op[u], op'[u])
      BY <3>1, SelfIsWider
    <3>3. Compiles(op[u]) => config.jit \in op[u].jits /\ auto \in op[u].modes
      BY DEF IInv, CallOK, CompileOK, World
    <3> QED
      BY <2>1, <3>1, <3>2, <3>3
  <2> QED
    BY <2>1 DEF LeavesOthers
<1>8. cleared' <= epoch'
  BY WorldFields, ModuleAssumption DEF IInv
<1>9. PICK l \in Local : l = loc[t] /\ LocalOK(l, w)
  BY <1>4, OfThread
<1>10. LocalOK(l, v)
  BY <1>6, <1>9, LaterKeepsLocal
<1>11. CallOK(r, l, v)
  <2>1. v.epoch = epoch' /\ r.pc # "ready" /\ r.pc # "compile"
    BY <1>5 DEF World, Announces, Synchronises
  <2> QED
    BY <2>1 DEF CallOK
<1>12. LimitFollows(t)'
  BY DEF LimitFollows, LimitsAgree, OpBecomes
<1>13. VerdictOK(ret[t])'
  <2>1. VerdictOK(ret[t])
    BY OfThread
  <2> QED
    BY <2>1 DEF VerdictOK, Current
<1>14. LocalOK(loc'[t], World') /\ CallOK(op'[t], loc'[t], World')
  BY <1>5, <1>9, <1>10, <1>11 DEF OpBecomes
<1> QED
  BY <1>1, <1>3, <1>4, <1>5, <1>6, <1>7, <1>8, <1>12, <1>13, <1>14, OthersKept

\* A thread that is in no call.
LEMMA ReadyIsIdle ==
  ASSUME IInv, NEW t \in Threads, op[t].pc = "ready"
  PROVE  op[t] = Idle
BY OfThread DEF CallOK

LEMMA MayAnnounceMeans ==
  ASSUME IInv, NEW n \in Nat, MayAnnounce(n)
  PROVE  mepoch + Owed + n <= MaxModule
BY DEF MayAnnounce

LEMMA OwedIsANumber ==
  ASSUME IInv
  PROVE  Owed \in Nat
<1> DEFINE P == {u \in Threads : op[u].pc \in {"bump", "limit"}}
           A == {u \in Threads : op[u].again}
<1>1. IsFiniteSet(Threads) /\ P \subseteq Threads /\ A \subseteq Threads
  BY ModuleAssumption
<1>2. Cardinality(P) \in Nat /\ Cardinality(A) \in Nat
  BY <1>1, FS_Subset, FS_CardinalityType
<1>3. Owed = Cardinality(P) + Cardinality(A)
  BY DEF Owed
<1> HIDE DEF P, A
<1> QED
  BY <1>2, <1>3

LEMMA ClearCacheKeeps ==
  ASSUME IInv, NEW t \in Threads, ClearCache(t)
  PROVE  IInv'
<1>1. /\ op[t] = Idle /\ epoch < MaxEpoch /\ epoch' = epoch + 1 /\ mepoch + Owed + 2 <= MaxModule
      /\ UNCHANGED <<strategy, mepoch, config, auto, limit, cleared, loc, ret>>
  BY ReadyIsIdle DEF ClearCache, MayAnnounce
<1>2. epoch \in Nat /\ mepoch \in Nat /\ Owed \in Nat /\ epoch + 1 \in 0..MaxEpoch
  BY <1>1, WorldFields, OwedIsANumber, ModuleAssumption
<1>3. PICK e \in 0..MaxEpoch : e = epoch + 1
  BY <1>2
<1> DEFINE r == [Idle EXCEPT !.pc = "bump", !.again = TRUE, !.clears = TRUE, !.floor = e]
<1>4. r \in Op
  BY FirstValues DEF Op, Phases
<1>5. r.pc = "bump" /\ r.again /\ r.clears /\ r.floor = e /\ r.old = {} /\ r.seen = 0
  BY FirstValues DEF Op
<1>6. op' = [op EXCEPT ![t] = r]
  BY <1>3 DEF ClearCache
<1> HIDE DEF r
<1>7. OpBecomes(t, r)
  BY <1>4, <1>6, OpSet DEF IInv
<1>8. AsAnnounced(op[t], r) /\ Owes(r) = 2 /\ Owes(op[t]) = 0
  BY <1>1, <1>5, FirstValues DEF AsAnnounced, Announced, Owes
<1>9. Announces(r) /\ ~Compiles(r) /\ ~Trimmed(r)
  BY <1>5 DEF Announces, Compiles, Trimmed, Synchronises
<1>10. limit' \in [Scopes -> Limits]
  BY <1>1 DEF IInv, TypeOK
<1>11. mepoch' + Owed + Owes(r) - Owes(op[t]) <= MaxModule /\ epoch' \in 0..MaxEpoch /\ epoch' >= epoch
       /\ mepoch' \in Nat /\ mepoch' >= mepoch /\ r.floor <= epoch' /\ r.seen <= epoch'
  BY <1>1, <1>2, <1>3, <1>5, <1>8
<1> QED
  BY <1>1, <1>4, <1>5, <1>7, <1>8, <1>9, <1>10, <1>11, AnnouncingStep

LEMMA SetLimitGlobalKeeps ==
  ASSUME IInv, NEW t \in Threads, NEW x \in Limits, SetLimitGlobal(t, x)
  PROVE  IInv'
<1>1. /\ op[t] = Idle /\ epoch < MaxEpoch /\ epoch' = epoch + 1 /\ mepoch + Owed + 1 <= MaxModule
      /\ UNCHANGED <<strategy, mepoch, config, auto, limit, cleared, loc, ret>>
  BY ReadyIsIdle DEF SetLimitGlobal, MayAnnounce
<1>2. epoch \in Nat /\ mepoch \in Nat /\ Owed \in Nat /\ epoch + 1 \in 0..MaxEpoch
  BY <1>1, WorldFields, OwedIsANumber, ModuleAssumption
<1> DEFINE r == [Idle EXCEPT !.pc = "limit", !.lim = x]
<1>3. r \in Op
  BY FirstValues DEF Op, Phases
<1>4. r.pc = "limit" /\ r.again = FALSE /\ r.clears = FALSE /\ r.floor = 0 /\ r.old = {} /\ r.seen = 0
  BY FirstValues DEF Op
<1>5. op' = [op EXCEPT ![t] = r]
  BY DEF SetLimitGlobal
<1> HIDE DEF r
<1>6. OpBecomes(t, r)
  BY <1>3, <1>5, OpSet DEF IInv
<1>7. AsAnnounced(op[t], r) /\ Owes(r) = 1 /\ Owes(op[t]) = 0
  BY <1>1, <1>4, FirstValues DEF AsAnnounced, Announced, Owes
<1>8. Announces(r) /\ ~Compiles(r) /\ ~Trimmed(r)
  BY <1>4 DEF Announces, Compiles, Trimmed, Synchronises
<1>9. limit' \in [Scopes -> Limits]
  BY <1>1 DEF IInv, TypeOK
<1>10. mepoch' + Owed + Owes(r) - Owes(op[t]) <= MaxModule /\ epoch' \in 0..MaxEpoch /\ epoch' >= epoch
       /\ mepoch' \in Nat /\ mepoch' >= mepoch /\ r.floor <= epoch' /\ r.seen <= epoch'
  BY <1>1, <1>2, <1>4, <1>7
<1> QED
  BY <1>1, <1>3, <1>4, <1>6, <1>7, <1>8, <1>9, <1>10, AnnouncingStep

LEMMA SetLimitThreadLocalKeeps ==
  ASSUME IInv, NEW t \in Threads, NEW x \in Limits, SetLimitThreadLocal(t, x)
  PROVE  IInv'
<1>1. /\ op[t] = Idle /\ mepoch + Owed + 1 <= MaxModule /\ limit' = [limit EXCEPT ![t] = x]
      /\ UNCHANGED <<strategy, epoch, mepoch, config, auto, cleared, loc, ret>>
  BY ReadyIsIdle DEF SetLimitThreadLocal, MayAnnounce
<1>2. epoch \in Nat /\ mepoch \in Nat /\ Owed \in Nat /\ epoch \in 0..MaxEpoch
  BY WorldFields, OwedIsANumber
<1> DEFINE r == [Idle EXCEPT !.pc = "bump"]
<1>3. r \in Op
  BY FirstValues DEF Op, Phases
<1>4. r.pc = "bump" /\ r.again = FALSE /\ r.clears = FALSE /\ r.floor = 0 /\ r.old = {} /\ r.seen = 0
  BY FirstValues DEF Op
<1>5. op' = [op EXCEPT ![t] = r]
  BY DEF SetLimitThreadLocal
<1> HIDE DEF r
<1>6. OpBecomes(t, r)
  BY <1>3, <1>5, OpSet DEF IInv
<1>7. AsAnnounced(op[t], r) /\ Owes(r) = 1 /\ Owes(op[t]) = 0
  BY <1>1, <1>4, FirstValues DEF AsAnnounced, Announced, Owes
<1>8. Announces(r) /\ ~Compiles(r) /\ ~Trimmed(r)
  BY <1>4 DEF Announces, Compiles, Trimmed, Synchronises
<1>9. limit' \in [Scopes -> Limits] /\ \A u \in Threads \ {t} : limit'[u] = limit[u]
  BY <1>1 DEF IInv, TypeOK, Scopes
<1>10. mepoch' + Owed + Owes(r) - Owes(op[t]) <= MaxModule /\ epoch' \in 0..MaxEpoch /\ epoch' >= epoch
       /\ mepoch' \in Nat /\ mepoch' >= mepoch /\ r.floor <= epoch' /\ r.seen <= epoch'
  BY <1>1, <1>2, <1>4, <1>7
<1> QED
  BY <1>1, <1>3, <1>4, <1>6, <1>7, <1>8, <1>9, <1>10, AnnouncingStep

LEMMA WriteLimitKeeps ==
  ASSUME IInv, NEW t \in Threads, WriteLimit(t)
  PROVE  IInv'
<1>1. op[t].pc = "limit" /\ UNCHANGED <<strategy, epoch, mepoch, config, auto, cleared, loc, ret>>
  BY DEF WriteLimit
<1>2. PICK o \in Op : o = op[t] /\ CallOK(o, loc[t], World) /\ o.pc = "limit"
  BY <1>1, OfThread
<1>3. /\ epoch \in Nat /\ mepoch \in Nat /\ Owed \in Nat /\ epoch \in 0..MaxEpoch /\ World.epoch = epoch
      /\ mepoch + Owed <= MaxModule
  BY WorldFields, OwedIsANumber DEF IInv
<1> DEFINE r == [o EXCEPT !.pc = "bump"]
<1>4. r \in Op
  BY DEF Op, Phases
<1>5. /\ r.pc = "bump" /\ r.again = o.again /\ r.clears = o.clears /\ r.floor = o.floor
      /\ r.old = o.old /\ r.seen = o.seen /\ o.lim \in Limits
  BY DEF Op
<1>6. op' = [op EXCEPT ![t] = r]
  BY <1>2 DEF WriteLimit, Goto, IInv, TypeOK
<1> HIDE DEF r
<1>7. OpBecomes(t, r)
  BY <1>4, <1>6, OpSet DEF IInv
<1>8. ~o.clears /\ ~o.again /\ o.floor <= epoch /\ o.seen <= epoch
  BY <1>2, <1>3 DEF CallOK
<1>9. AsAnnounced(o, r) /\ Owes(r) = 1 /\ Owes(o) = 1
  BY <1>2, <1>5, <1>8 DEF AsAnnounced, Announced, Owes
<1>10. Announces(r) /\ ~Compiles(r) /\ ~Trimmed(r)
  BY <1>5 DEF Announces, Compiles, Trimmed, Synchronises
<1>11. limit' = [limit EXCEPT ![Shared] = o.lim]
  BY <1>2 DEF WriteLimit
<1>12. limit' \in [Scopes -> Limits] /\ \A u \in Threads \ {t} : limit'[u] = limit[u]
  BY <1>5, <1>11, ModuleAssumption DEF IInv, TypeOK, Scopes
<1>13. mepoch' + Owed + Owes(r) - Owes(o) <= MaxModule /\ epoch' \in 0..MaxEpoch /\ epoch' >= epoch
       /\ mepoch' \in Nat /\ mepoch' >= mepoch /\ r.floor <= epoch' /\ r.seen <= epoch'
  BY <1>1, <1>3, <1>5, <1>8, <1>9
<1> QED
  BY <1>1, <1>2, <1>4, <1>5, <1>7, <1>9, <1>10, <1>12, <1>13, AnnouncingStep

LEMMA BumpModuleEpochKeeps ==
  ASSUME IInv, NEW t \in Threads, BumpModuleEpoch(t)
  PROVE  IInv'
<1>1. /\ op[t].pc = "bump" /\ mepoch' = mepoch + 1
      /\ UNCHANGED <<strategy, epoch, config, auto, limit, cleared, loc, ret>>
  BY DEF BumpModuleEpoch
<1>2. PICK o \in Op : o = op[t] /\ CallOK(o, loc[t], World) /\ o.pc = "bump"
  BY <1>1, OfThread
<1>3. /\ epoch \in Nat /\ mepoch \in Nat /\ Owed \in Nat /\ epoch \in 0..MaxEpoch /\ World.epoch = epoch
      /\ mepoch + Owed <= MaxModule
  BY WorldFields, OwedIsANumber DEF IInv
<1> DEFINE r == [o EXCEPT !.pc = "sync", !.then = "trim", !.old = {}]
<1>4. r \in Op
  BY DEF Op, Phases
<1>5. /\ r.pc = "sync" /\ r.then = "trim" /\ r.again = o.again /\ r.clears = o.clears
      /\ r.floor = o.floor /\ r.old = {} /\ r.seen = o.seen
  BY DEF Op
<1>6. op' = [op EXCEPT ![t] = r]
  BY <1>2 DEF BumpModuleEpoch, IInv, TypeOK
<1> HIDE DEF r
<1>7. OpBecomes(t, r)
  BY <1>4, <1>6, OpSet DEF IInv
<1>8. Owes(r) + 1 = Owes(o) /\ Owes(r) \in Nat
  BY <1>2, <1>5 DEF Owes
<1>9. Announces(r) /\ ~Compiles(r) /\ ~Trimmed(r)
  BY <1>5 DEF Announces, Compiles, Trimmed, Synchronises
<1>10. limit' \in [Scopes -> Limits] /\ mepoch' # mepoch
  BY <1>1, <1>3 DEF IInv, TypeOK
<1>11. mepoch' + Owed + Owes(r) - Owes(o) <= MaxModule /\ epoch' \in 0..MaxEpoch /\ epoch' >= epoch
       /\ mepoch' \in Nat /\ mepoch' >= mepoch /\ r.floor <= epoch' /\ r.seen <= epoch'
  BY <1>1, <1>2, <1>3, <1>5, <1>8, ModuleAssumption DEF CallOK
<1> QED
  BY <1>1, <1>2, <1>4, <1>5, <1>7, <1>9, <1>10, <1>11, AnnouncingStep

LEMMA ConfigureKeeps ==
  ASSUME IInv, NEW t \in Threads, NEW j \in BOOLEAN, Configure(t, j)
  PROVE  IInv'
<1>1. /\ op[t] = Idle /\ config.version < MaxVersion
      /\ config' = [version |-> config.version + 1, jit |-> j]
      /\ op' = [u \in Threads |-> Widen(op[u], {j}, {})]
      /\ UNCHANGED <<strategy, epoch, mepoch, auto, limit, cleared, loc, ret>>
  BY ReadyIsIdle DEF Configure
<1>2. /\ config.version \in Nat /\ mepoch \in Nat /\ mepoch + Owed <= MaxModule /\ cleared <= epoch
      /\ epoch \in Nat
  BY WorldFields DEF IInv
<1>3. config' \in Config /\ config'.version = config.version + 1 /\ config'.jit = j
  BY <1>1, <1>2, ModuleAssumption DEF Config
<1>4. ASSUME NEW u \in Threads
      PROVE  /\ op'[u] \in Op /\ Wider(op[u], op'[u]) /\ AsAnnounced(op[u], op'[u])
             /\ op'[u].pc = op[u].pc /\ op'[u].again = op[u].again
             /\ Compiles(op[u]) => config'.jit \in op'[u].jits /\ auto' \in op'[u].modes
  <2>1. PICK o \in Op : o = op[u] /\ CallOK(o, loc[u], World)
    BY OfThread
  <2>2. PICK p : p = op'[u] /\ p = Widen(o, {j}, {})
    BY <1>1, <2>1
  <2>3. p \in Op /\ Wider(o, p) /\ (o.jits # {} => j \in p.jits)
    <3>1. PICK a : a = {j}
      OBVIOUS
    <3>2. PICK b : b = {}
      OBVIOUS
    <3>3. a \subseteq BOOLEAN /\ b \subseteq Modes /\ (o.pc = "ready" => o = Idle)
      BY <2>1, <3>1, <3>2 DEF CallOK
    <3>4. /\ Widen(o, a, b) \in Op /\ Wider(o, Widen(o, a, b))
          /\ o.jits # {} => a \subseteq Widen(o, a, b).jits
      BY <3>3, WidenIsWider
    <3>5. p = Widen(o, a, b)
      BY <2>2, <3>1, <3>2
    <3> QED
      BY <3>1, <3>4, <3>5
  <2>4. /\ p.pc = o.pc /\ p.again = o.again /\ p.clears = o.clears /\ p.old = o.old /\ p.floor = o.floor
        /\ o.modes \subseteq p.modes
    BY <2>3, WiderFields
  <2>5. AsAnnounced(o, p)
    BY <2>4 DEF AsAnnounced, Announced
  <2>6. Compiles(o) => o.jits # {} /\ auto \in o.modes
    BY <2>1, WorldFields DEF CallOK, CompileOK
  <2> QED
    BY <1>1, <1>3, <2>1, <2>2, <2>3, <2>4, <2>5, <2>6
<1>5. TypeOK'
  <2>1. op' \in [Threads -> Op]
    BY <1>1, <1>4
  <2> QED
    BY <1>1, <1>3, <2>1 DEF IInv, TypeOK
<1>6. op'[t] = Idle
  BY <1>1, FirstValues DEF Widen
<1>7. PICK w \in Worlds : w = World
  BY WorldIsWorld DEF IInv
<1>8. PICK v \in Worlds : v = World'
  BY <1>5, NextWorldIsWorld
<1>9. Later(w, v)
  <2>1. {op'[u].old : u \in Threads} = {op[u].old : u \in Threads} /\ Floors' = Floors
    BY <1>1, <1>4, AnnouncedStays
  <2>2. ModesInForce' = ModesInForce
    BY <1>1, <2>1 DEF ModesInForce
  <2>3. /\ w.strategy = v.strategy /\ w.epoch = v.epoch /\ v.epoch = epoch /\ w.mepoch = v.mepoch
        /\ v.mepoch = mepoch
        /\ w.config = config /\ v.config = config' /\ w.modes = v.modes /\ w.floors = v.floors
    BY <1>1, <1>7, <1>8, <2>1, <2>2 DEF World
  <2> QED
    BY <1>2, <1>3, <2>3 DEF Later
<1>10. LeavesOthers(t)
  BY <1>1, <1>4 DEF LeavesOthers
<1>11. mepoch' + Owed' <= MaxModule /\ cleared' <= epoch'
  <2>1. Owed' = Owed
    <3>1. Owed \in Nat /\ Owed' = Owed + Owes(op'[t]) - Owes(op[t])
      BY <1>4, OwedChanges
    <3>2. Owes(op[t]) \in Nat /\ op'[t] = op[t]
      BY <1>1, <1>6 DEF Owes
    <3> QED
      BY <3>1, <3>2
  <2> QED
    BY <1>1, <1>2, <2>1
<1>12. PICK l \in Local : l = loc[t] /\ LocalOK(l, w) /\ LimitFollows(t)
  BY <1>7, OfThread
<1>13. LocalOK(l, v) /\ CallOK(Idle, l, v)
  BY <1>9, <1>12, LaterKeepsLocal, IdleIsOK
<1>14. LimitFollows(t)'
  BY <1>1, <1>6, <1>12 DEF LimitFollows
<1>15. VerdictOK(ret[t])'
  <2>1. VerdictOK(ret[t])
    BY OfThread
  <2> QED
    BY <1>1, <2>1 DEF VerdictOK, Current
<1> QED
  BY <1>1, <1>5, <1>6, <1>7, <1>8, <1>9, <1>10, <1>11, <1>12, <1>13, <1>14, <1>15, OthersKept

LEMMA ConfigureThreadsKeeps ==
  ASSUME IInv, NEW t \in Threads, NEW m \in Modes, ConfigureThreads(t, m)
  PROVE  IInv'
<1>1. /\ op[t] = Idle /\ mepoch + Owed + 1 <= MaxModule /\ auto' = m
      /\ op' = [u \in Threads |-> IF u = t THEN [Idle EXCEPT !.pc = "bump", !.old = {auto}]
                                  ELSE Widen(op[u], {}, {m})]
      /\ UNCHANGED <<strategy, epoch, mepoch, config, limit, cleared, loc, ret>>
  BY ReadyIsIdle DEF ConfigureThreads, MayAnnounce
<1>2. /\ config.version \in Nat /\ mepoch \in Nat /\ cleared <= epoch /\ epoch \in Nat /\ auto \in Modes
      /\ Owed \in Nat
  BY WorldFields, OwedIsANumber DEF IInv
<1> DEFINE r == [Idle EXCEPT !.pc = "bump", !.old = {auto}]
<1>3. r \in Op /\ op'[t] = r
  BY ZenonT(30), <1>1, <1>2, FirstValues DEF Op, Phases
<1>4. r.pc = "bump" /\ r.again = FALSE /\ r.clears = FALSE /\ r.floor = 0 /\ r.old = {auto} /\ r.seen = 0
  BY FirstValues DEF Op
<1> HIDE DEF r
<1>5. ASSUME NEW u \in Threads, u # t
      PROVE  /\ op'[u] \in Op /\ Wider(op[u], op'[u])
             /\ op'[u].pc = op[u].pc /\ op'[u].again = op[u].again /\ op'[u].clears = op[u].clears
             /\ op'[u].floor = op[u].floor /\ op'[u].old = op[u].old
             /\ Compiles(op[u]) => config'.jit \in op'[u].jits /\ auto' \in op'[u].modes
  <2>1. PICK o \in Op : o = op[u] /\ CallOK(o, loc[u], World)
    BY OfThread
  <2>2. PICK p : p = op'[u] /\ p = Widen(o, {}, {m})
    BY <1>1, <1>5, <2>1
  <2>3. p \in Op /\ Wider(o, p) /\ (o.jits # {} => m \in p.modes)
    <3>1. PICK a : a = {}
      OBVIOUS
    <3>2. PICK b : b = {m}
      OBVIOUS
    <3>3. a \subseteq BOOLEAN /\ b \subseteq Modes /\ (o.pc = "ready" => o = Idle)
      BY <2>1, <3>1, <3>2 DEF CallOK
    <3>4. /\ Widen(o, a, b) \in Op /\ Wider(o, Widen(o, a, b))
          /\ o.jits # {} => b \subseteq Widen(o, a, b).modes
      BY <3>3, WidenIsWider
    <3>5. p = Widen(o, a, b)
      BY <2>2, <3>1, <3>2
    <3> QED
      BY <3>2, <3>4, <3>5
  <2>4. /\ p.pc = o.pc /\ p.again = o.again /\ p.clears = o.clears /\ p.old = o.old /\ p.floor = o.floor
        /\ o.jits \subseteq p.jits
    BY <2>3, WiderFields
  <2>5. Compiles(o) => o.jits # {} /\ config.jit \in o.jits
    BY <2>1, WorldFields DEF CallOK, CompileOK
  <2> QED
    BY <1>1, <2>1, <2>2, <2>3, <2>4, <2>5
<1>6. TypeOK'
  <2>1. op' \in [Threads -> Op]
    BY <1>1, <1>3, <1>5
  <2> QED
    BY <1>1, <2>1 DEF IInv, TypeOK
<1>7. PICK w \in Worlds : w = World
  BY WorldIsWorld DEF IInv
<1>8. PICK v \in Worlds : v = World'
  BY <1>6, NextWorldIsWorld
<1>9. Later(w, v)
  <2>1. ModesInForce \subseteq ModesInForce'
    <3>1. ASSUME NEW x \in ModesInForce PROVE x \in ModesInForce'
      <4>1. CASE x = auto
        BY <1>3, <1>4, <4>1 DEF ModesInForce
      <4>2. CASE x # auto
        <5>1. PICK u \in Threads : x \in op[u].old
          BY <4>2 DEF ModesInForce
        <5>2. u # t
          BY <1>1, <5>1, FirstValues
        <5> QED
          BY <1>5, <5>1, <5>2 DEF ModesInForce
      <4> QED
        BY <4>1, <4>2
    <3> QED
      BY <3>1
  <2>2. Floors' \subseteq Floors
    <3>1. ASSUME NEW u \in Threads, Announced(op'[u])
          PROVE  Announced(op[u]) /\ op'[u].floor = op[u].floor
      <4>1. u # t
        BY <1>3, <1>4, <3>1 DEF Announced
      <4> QED
        BY <1>5, <3>1, <4>1 DEF Announced
    <3> QED
      BY <1>1, <3>1 DEF Floors
  <2>3. /\ w.strategy = v.strategy /\ w.epoch = v.epoch /\ v.epoch = epoch /\ w.mepoch = v.mepoch
        /\ v.mepoch = mepoch /\ w.config = config /\ v.config = config
        /\ w.modes = ModesInForce /\ v.modes = ModesInForce' /\ w.floors = Floors /\ v.floors = Floors'
    BY <1>1, <1>7, <1>8 DEF World
  <2> QED
    BY <1>2, <2>1, <2>2, <2>3 DEF Later
<1>10. LeavesOthers(t)
  BY <1>1, <1>5 DEF LeavesOthers
<1>11. mepoch' + Owed' <= MaxModule /\ cleared' <= epoch'
  <2>1. Owed' = Owed + 1
    <3>1. Owed' = Owed + Owes(op'[t]) - Owes(op[t])
      BY <1>5, OwedChanges
    <3>2. Owes(op[t]) = 0 /\ Owes(op'[t]) = 1
      BY <1>1, <1>3, <1>4, FirstValues DEF Owes
    <3> QED
      BY <1>2, <3>1, <3>2
  <2> QED
    BY <1>1, <1>2, <2>1
<1>12. PICK l \in Local : l = loc[t] /\ LocalOK(l, w)
  BY <1>7, OfThread
<1>13. LocalOK(l, v)
  BY <1>9, <1>12, LaterKeepsLocal
<1>14. CallOK(r, l, v)
  <2>1. v.epoch \in Nat
    BY ModuleAssumption DEF Worlds
  <2> QED
    BY <1>4, <2>1 DEF CallOK, Compiles, Trimmed, Synchronises
<1>15. LimitFollows(t)'
  BY <1>3, <1>4 DEF LimitFollows, LimitsAgree, Announces, Trimmed, Synchronises
<1>16. VerdictOK(ret[t])'
  <2>1. VerdictOK(ret[t])
    BY OfThread
  <2> QED
    BY <1>1, <2>1 DEF VerdictOK, Current
<1> QED
  BY <1>1, <1>3, <1>6, <1>7, <1>8, <1>9, <1>10, <1>11, <1>12, <1>13, <1>14, <1>15, <1>16, OthersKept

\* The snapshot cache is trimmed to the limit that stands now.
LEMMA TrimKeeps ==
  ASSUME IInv, NEW t \in Threads, Trim(t)
  PROVE  IInv'
<1>1. op[t].pc = "trim" /\ UNCHANGED <<shared, ret>>
  BY DEF Trim
<1>2. PICK o \in Op : o = op[t] /\ CallOK(o, loc[t], World) /\ o.pc = "trim"
  BY <1>1, OfThread
<1>3. PICK l \in Local : l = loc[t] /\ LocalOK(l, World) /\ LimitFollows(t)
  BY OfThread
<1>4. PICK e \in Limits : e = limit[ScopeOf(t)] /\ (strategy = "thread-local" => e = limit[t]) /\ e \in Nat
  BY ModuleAssumption DEF IInv, TypeOK, ScopeOf, Scopes
<1>5. PICK c \in Cache : /\ c = TrimTo(l.cache, e) /\ c \in Seq(Fresh(l.epoch, World))
                         /\ Len(c) <= e /\ Len(c) <= Len(l.cache)
  <2>1. l.cache \in Cache /\ l.cache \in Seq(Fresh(l.epoch, World))
    BY <1>3 DEF LocalOK, Local
  <2>2. TrimTo(l.cache, e) \in Cache
    BY <1>4, <2>1, TrimToProperties DEF Cache
  <2>3. TrimTo(l.cache, e) \in Seq(Fresh(l.epoch, World)) /\ Len(TrimTo(l.cache, e)) <= e
    BY <1>4, <2>1, TrimToProperties
  <2>4. Len(TrimTo(l.cache, e)) <= Len(l.cache)
    BY <1>4, <2>1, TrimIsNoLonger
  <2> QED
    BY <2>2, <2>3, <2>4
<1> DEFINE m == [l EXCEPT !.cache = c]
<1>6. m \in Local
  BY DEF Local
<1>7. m.epoch = l.epoch /\ m.eff = l.eff /\ m.cache = c /\ m.hot = l.hot /\ m.lru = l.lru /\ m.late = l.late
  BY DEF Local
<1>8. loc' = [loc EXCEPT ![t] = m]
  BY <1>3, <1>4, <1>5 DEF Trim, IInv, TypeOK
<1> HIDE DEF m
<1>9. LocBecomes(t, m)
  BY <1>6, <1>8, LocSet DEF IInv
<1>10. LocalOK(m, World)
  <2>1. Len(l.cache) \in Nat /\ Len(c) \in Nat /\ l.eff \in Nat
    BY <1>5, LenProperties, ModuleAssumption DEF Local, Cache
  <2> QED
    BY <1>3, <1>5, <1>7, <2>1 DEF LocalOK
<1> DEFINE r == [o EXCEPT !.pc = "sync", !.then = "resync", !.lim = e]
<1>11. r \in Op
  BY DEF Op, Phases
<1>12. /\ r.pc = "sync" /\ r.then = "resync" /\ r.lim = e /\ r.again = o.again /\ r.clears = o.clears
       /\ r.floor = o.floor /\ r.old = o.old /\ r.seen = o.seen
  BY DEF Op
<1>13. op' = [op EXCEPT ![t] = r]
  BY <1>2, <1>4 DEF Trim, IInv, TypeOK
<1> HIDE DEF r
<1>14. OpBecomes(t, r)
  BY <1>11, <1>13, OpSet DEF IInv
<1>15. AsAnnounced(o, r) /\ Owes(r) <= Owes(o)
  BY <1>2, <1>12 DEF AsAnnounced, Announced, Owes
<1>16. CallOK(r, m, World)
  BY <1>2, <1>5, <1>7, <1>12 DEF CallOK, Compiles, Synchronises
<1>17. strategy = "thread-local" => LimitsAgree(r, m, limit[t])
  BY <1>4, <1>12 DEF LimitsAgree, Announces, Synchronises
<1>18. ret[t] \in Verdict /\ VerdictOK(ret[t]) /\ RetBecomes(t, ret[t])
  BY <1>1, OfThread, Kept DEF IInv
<1> QED
  BY <1>1, <1>2, <1>6, <1>9, <1>10, <1>11, <1>14, <1>15, <1>16, <1>17, <1>18, StepKeeps

\* The caller goes by the limit it reads last, and the call goes on or ends.
LEMMA ResyncKeeps ==
  ASSUME IInv, NEW t \in Threads, Resync(t)
  PROVE  IInv'
<1>1. op[t].pc = "resync" /\ UNCHANGED <<strategy, epoch, mepoch, config, auto, limit, ret>>
  BY DEF Resync, EndNotification
<1>2. PICK o \in Op : o = op[t] /\ CallOK(o, loc[t], World) /\ o.pc = "resync"
  BY <1>1, OfThread
<1>3. PICK l \in Local : l = loc[t] /\ LocalOK(l, World) /\ LimitFollows(t)
  BY OfThread
<1>4. /\ World.epoch = epoch /\ o.floor <= epoch /\ o.seen <= epoch /\ o.old = {}
      /\ o.floor \in Nat /\ o.lim \in Nat /\ Len(l.cache) <= o.lim
  <2>1. Trimmed(o) /\ o.pc # "bump" /\ World.epoch = epoch
    BY <1>2, WorldFields DEF Trimmed
  <2>2. o.floor \in Nat /\ o.lim \in Nat
    <3>1. o.floor \in 0..MaxEpoch /\ o.lim \in Limits
      BY Zenon DEF Op
    <3>2. 0..MaxEpoch \subseteq Nat /\ Limits \subseteq Nat
      BY ONLY ModuleAssumption DEF ModuleAssumption
    <3> QED
      BY <3>1, <3>2, Zenon
  <2> QED
    BY <1>2, <1>3, <2>1, <2>2 DEF CallOK
<1>5. ret[t] \in Verdict /\ VerdictOK(ret[t]) /\ RetBecomes(t, ret[t])
  BY <1>1, OfThread, Kept DEF IInv
<1>6. PICK e \in Limits : e = limit[ScopeOf(t)] /\ (strategy = "thread-local" => e = limit[t]) /\ e \in Nat
  BY ModuleAssumption DEF IInv, TypeOK, ScopeOf, Scopes
<1>7. (o.lim > e) \in BOOLEAN
  BY <1>4, <1>6
<1>8. PICK b \in BOOLEAN : b = (o.lim > e)
  BY <1>7, Zenon
<1>9. b <=> o.lim > e
  BY <1>8, Zenon
<1> DEFINE m == [l EXCEPT !.lru = Empty, !.hot = NoEntry, !.eff = e, !.late = b]
<1>10. m \in Local
  BY EmptyCache DEF Local, Cache
<1>11. m.epoch = l.epoch /\ m.eff = e /\ m.cache = l.cache /\ m.hot = NoEntry /\ m.lru = Empty /\ m.late = b
  BY DEF Local
<1>12. loc' = [loc EXCEPT ![t] = m]
  BY <1>2, <1>3, <1>6, <1>8, Zenon DEF Resync, IInv, TypeOK
<1> HIDE DEF m
<1>13. LocBecomes(t, m)
  BY <1>10, <1>12, LocSet DEF IInv
<1>14. strategy = "thread-local" => ~b
  BY <1>2, <1>3, <1>4, <1>6, <1>9 DEF LimitFollows, LimitsAgree, Trimmed
<1>15. LocalOK(m, World)
  <2>1. Len(l.cache) <= e \/ b
    <3>1. Len(l.cache) \in Nat
      BY LenProperties DEF Local, Cache
    <3> QED
      BY <1>4, <1>6, <1>9, <3>1
  <2>2. World.strategy = strategy /\ strategy \in {"thread-local", "global"}
    BY WorldFields, ModuleAssumption DEF IInv, TypeOK
  <2> QED
    BY <1>3, <1>6, <1>11, <1>14, <2>1, <2>2, EmptyCache DEF LocalOK
<1>16. ASSUME NEW r, ~Trimmed(r)
       PROVE  strategy = "thread-local" => LimitsAgree(r, m, limit[t])
  BY <1>6, <1>11, <1>16 DEF LimitsAgree
<1>17. CASE o.again
  <2> DEFINE r == [o EXCEPT !.pc = "bump", !.again = FALSE]
  <2>1. r \in Op
    BY DEF Op, Phases
  <2>2. /\ r.pc = "bump" /\ r.again = FALSE /\ r.clears = o.clears
        /\ r.floor = o.floor /\ r.old = o.old /\ r.seen = o.seen
    BY DEF Op
  <2>3. op' = [op EXCEPT ![t] = r] /\ UNCHANGED shared
    BY <1>1, <1>2, <1>3, <1>17 DEF Resync, EndNotification, shared
  <2> HIDE DEF r
  <2>4. OpBecomes(t, r)
    BY <2>1, <2>3, OpSet DEF IInv
  <2>5. AsAnnounced(o, r) /\ Owes(r) <= Owes(o)
    BY <1>2, <1>17, <2>2 DEF AsAnnounced, Announced, Owes
  <2>6. CallOK(r, m, World) /\ ~Trimmed(r)
    BY <1>4, <2>2 DEF CallOK, Compiles, Trimmed, Synchronises
  <2> QED
    BY <1>2, <1>5, <1>10, <1>13, <1>15, <1>16, <2>1, <2>3, <2>4, <2>5, <2>6, StepKeeps
<1>18. CASE ~o.again
  <2>1. op' = [op EXCEPT ![t] = Idle]
    BY <1>2, <1>3, <1>18 DEF Resync, EndNotification
  <2>2. OpBecomes(t, Idle)
    BY <2>1, FirstValues, OpSet DEF IInv
  <2>3. cleared' = IF o.clears /\ o.floor > cleared THEN o.floor ELSE cleared
    BY <1>2, <1>3, <1>18 DEF Resync, EndNotification
  <2>4. cleared \in Nat /\ cleared <= epoch /\ cleared \in 0..MaxEpoch /\ o.floor \in 0..MaxEpoch
    BY WorldFields DEF IInv, TypeOK, Op
  <2>5. cleared' \in 0..MaxEpoch /\ cleared' <= epoch
    BY <1>4, <2>3, <2>4
  <2>6. TypeOK'
    BY <1>1, <1>13, <2>2, <2>5 DEF IInv, TypeOK, LocBecomes, OpBecomes
  <2>7. PICK w \in Worlds : w = World
    BY WorldIsWorld DEF IInv
  <2>8. PICK v \in Worlds : v = World'
    BY <2>6, NextWorldIsWorld
  <2>9. Later(w, v)
    <3>1. ModesInForce' = ModesInForce
      <4>1. \A u \in Threads : op'[u].old = op[u].old
        BY <1>2, <1>4, <2>2, FirstValues DEF OpBecomes
      <4>2. {op'[u].old : u \in Threads} = {op[u].old : u \in Threads}
        BY <4>1
      <4> QED
        BY <1>1, <4>2 DEF ModesInForce
    <3>2. Floors' \subseteq Floors
      <4>1. cleared' \in Floors
        BY <1>2, <2>3 DEF Floors, Announced
      <4>2. ASSUME NEW u \in Threads, Announced(op'[u])
            PROVE  Announced(op[u]) /\ op'[u].floor = op[u].floor
        <5>1. u # t
          BY <2>2, <4>2, FirstValues DEF Announced, OpBecomes
        <5> QED
          BY <2>2, <4>2, <5>1 DEF OpBecomes
      <4> QED
        BY <4>1, <4>2 DEF Floors
    <3>3. /\ w.strategy = v.strategy /\ w.epoch = v.epoch /\ v.epoch = epoch /\ w.mepoch = v.mepoch
          /\ v.mepoch = mepoch /\ w.config = config /\ v.config = config
          /\ w.modes = ModesInForce /\ v.modes = ModesInForce' /\ w.floors = Floors /\ v.floors = Floors'
      BY <1>1, <2>7, <2>8 DEF World
    <3> QED
      BY <3>1, <3>2, <3>3, WorldFields DEF Later
  <2>10. LeavesOthers(t)
    <3>1. ASSUME NEW u \in Threads, u # t
          PROVE  /\ loc'[u] = loc[u] /\ ret'[u] = ret[u] /\ Wider(op[u], op'[u])
                 /\ Compiles(op[u]) => config'.jit \in op'[u].jits /\ auto' \in op'[u].modes
                 /\ limit'[u] = limit[u]
      <4>1. op'[u] = op[u] /\ op[u] \in Op /\ loc'[u] = loc[u]
        BY <1>13, <2>2, <3>1 DEF OpBecomes, LocBecomes, IInv, TypeOK
      <4>2. Wider(op[u], op'[u])
        BY <4>1, SelfIsWider
      <4>3. Compiles(op[u]) => config.jit \in op[u].jits /\ auto \in op[u].modes
        BY DEF IInv, CallOK, CompileOK, World
      <4> QED
        BY <1>1, <4>1, <4>2, <4>3
    <3> QED
      BY <1>1, <3>1 DEF LeavesOthers
  <2>11. mepoch' + Owed' <= MaxModule /\ cleared' <= epoch'
    <3>1. \A u \in Threads \ {t} : op'[u].pc = op[u].pc /\ op'[u].again = op[u].again
      BY <2>2 DEF OpBecomes
    <3>2. Owed \in Nat /\ Owed' \in Nat /\ Owed' = Owed + Owes(op'[t]) - Owes(op[t])
      BY <3>1, OwedChanges
    <3>3. Owes(op'[t]) = 0 /\ Owes(op[t]) \in Nat
      BY <2>2, FirstValues DEF Owes, OpBecomes
    <3>4. mepoch \in Nat /\ mepoch + Owed <= MaxModule /\ MaxModule \in Nat
      BY WorldFields, ModuleAssumption DEF IInv
    <3> QED
      BY <1>1, <2>5, <3>2, <3>3, <3>4
  <2>12. LocalOK(m, v) /\ CallOK(Idle, m, v)
    BY <1>10, <1>15, <2>7, <2>9, LaterKeepsLocal, IdleIsOK
  <2>13. LocalOK(loc'[t], World') /\ CallOK(op'[t], loc'[t], World')
    BY <1>13, <2>2, <2>8, <2>12 DEF OpBecomes, LocBecomes
  <2>14. LimitFollows(t)'
    BY <1>1, <1>13, <1>16, <2>2, FirstValues DEF LimitFollows, LocBecomes, OpBecomes, Trimmed, Synchronises
  <2>15. VerdictOK(ret[t])'
    BY <1>1, <1>5 DEF VerdictOK, Current
  <2> QED
    BY <2>6, <2>7, <2>8, <2>9, <2>10, <2>11, <2>13, <2>14, <2>15, OthersKept
<1> QED
  BY <1>17, <1>18

-----------------------------------------------------------------------------
(* The theorems.                                                               *)

LEMMA InitIInv == Init => IInv
<1> SUFFICES ASSUME Init PROVE IInv
  OBVIOUS
<1> DEFINE l == [epoch |-> -1, eff |-> FirstLimit, cache |-> Empty, lru |-> Empty, hot |-> NoEntry,
               late |-> FALSE]
<1>1. l \in Local
  BY EmptyCache, ModuleAssumption DEF Local, Cache
<1>2. l.epoch = -1 /\ l.eff = FirstLimit /\ l.cache = Empty /\ l.lru = Empty /\ l.hot = NoEntry
  OBVIOUS
<1>3. loc = [t \in Threads |-> l]
  BY DEF Init
<1> HIDE DEF l
<1>4. TypeOK
  <2>1. epoch \in 0..MaxEpoch /\ mepoch \in 0..MaxModule /\ cleared \in 0..MaxEpoch /\ strategy \in Strategies
    BY ModuleAssumption DEF Init
  <2>2. config \in Config /\ auto \in Modes
    <3>1. 0 \in 0..MaxVersion
      BY ModuleAssumption
    <3>2. config = [version |-> 0, jit |-> TRUE] /\ auto = FALSE
      BY DEF Init
    <3>3. config \in Config
      BY <3>1, <3>2 DEF Config
    <3> QED
      BY <3>2, <3>3 DEF Modes
  <2>3. limit \in [Scopes -> Limits]
    BY ModuleAssumption DEF Init
  <2>4. loc \in [Threads -> Local]
    BY <1>1, <1>3
  <2>5. op \in [Threads -> Op] /\ ret \in [Threads -> Verdict]
    BY FirstValues DEF Init
  <2> QED
    BY <2>1, <2>2, <2>3, <2>4, <2>5 DEF TypeOK
<1>5. Owed = 0
  <2> DEFINE P == {u \in Threads : op[u].pc \in {"bump", "limit"}}
             A == {u \in Threads : op[u].again}
  <2>1. \A u \in Threads : op[u].pc = "ready" /\ op[u].again = FALSE
    BY FirstValues DEF Init
  <2>2. P = {} /\ A = {}
    BY <2>1
  <2>3. Owed = Cardinality(P) + Cardinality(A)
    BY DEF Owed
  <2> HIDE DEF P, A
  <2>4. Cardinality(P) = 0 /\ Cardinality(A) = 0
    BY <2>2, FS_EmptySet
  <2> QED
    BY <2>3, <2>4
<1>6. PICK w \in Worlds : w = World /\ w.epoch = 0
  BY <1>4, WorldIsWorld DEF Init, World
<1>7. ASSUME NEW t \in Threads
      PROVE  LocalOK(loc[t], World) /\ CallOK(op[t], loc[t], World) /\ LimitFollows(t)
  <2>1. LocalOK(l, w)
    BY <1>2, <1>6, EmptyCache, ModuleAssumption DEF LocalOK
  <2>2. CallOK(Idle, l, w)
    BY IdleIsOK
  <2>3. limit[t] = FirstLimit
    BY DEF Init, Scopes
  <2> QED
    BY <1>2, <1>3, <1>6, <2>1, <2>2, <2>3, FirstValues DEF Init, LimitFollows, LimitsAgree, Trimmed, Synchronises
<1>8. SlowPathIsCurrent /\ CoherentHotIsCurrent
  BY DEF Init, NoVerdict, SlowPathIsCurrent, CoherentHotIsCurrent
<1>9. cleared <= epoch /\ mepoch + Owed <= MaxModule
  BY <1>5, ModuleAssumption DEF Init
<1> QED
  BY <1>4, <1>7, <1>8, <1>9 DEF IInv

LEMMA NextIInv == IInv /\ [Next]_vars => IInv'
<1> SUFFICES ASSUME IInv, [Next]_vars PROVE IInv'
  OBVIOUS
<1>1. ASSUME UNCHANGED vars PROVE IInv'
  <2>1. World' = World /\ Owed' = Owed
    BY <1>1 DEF vars, World, ModesInForce, Floors, Owed
  <2>2. TypeOK' /\ SlowPathIsCurrent' /\ CoherentHotIsCurrent'
    BY <1>1 DEF vars, IInv, TypeOK, SlowPathIsCurrent, CoherentHotIsCurrent, Current
  <2>3. \A t \in Threads :
          LocalOK(loc'[t], World') /\ CallOK(op'[t], loc'[t], World') /\ LimitFollows(t)'
    BY <1>1, <2>1 DEF vars, IInv, LimitFollows
  <2> QED
    BY <1>1, <2>1, <2>2, <2>3 DEF vars, IInv
<1>2. ASSUME NEW t \in Threads, \E p \in Patterns : Begin(t, p) PROVE IInv'
  BY <1>2, BeginKeeps
<1>3. ASSUME NEW t \in Threads,
             CheckHot(t) \/ ReadMode(t) \/ ReadConfig(t) \/ Sync(t) \/ SyncLimit(t) \/ LookupLru(t)
             \/ LookupSnapshot(t) \/ Compile(t) \/ CompileFails(t) \/ ReadHotConfig(t) \/ StoreHot(t)
      PROVE  IInv'
  BY <1>3, CheckHotKeeps, ReadModeKeeps, ReadConfigKeeps, SyncKeeps, SyncLimitKeeps, LookupLruKeeps,
     LookupSnapshotKeeps, CompileKeeps, CompileFailsKeeps, ReadHotConfigKeeps, StoreHotKeeps
<1>4. ASSUME NEW t \in Threads,
             \/ \E j \in BOOLEAN : Configure(t, j)
             \/ \E m \in Modes : ConfigureThreads(t, m)
             \/ ClearCache(t)
             \/ \E x \in Limits : SetLimitGlobal(t, x) \/ SetLimitThreadLocal(t, x)
             \/ WriteLimit(t) \/ BumpModuleEpoch(t) \/ Trim(t) \/ Resync(t)
      PROVE  IInv'
  BY <1>4, ConfigureKeeps, ConfigureThreadsKeeps, ClearCacheKeeps, SetLimitGlobalKeeps,
     SetLimitThreadLocalKeeps, WriteLimitKeeps, BumpModuleEpochKeeps, TrimKeeps, ResyncKeeps
<1> QED
  BY <1>1, <1>2, <1>3, <1>4 DEF Next

LEMMA AlwaysIInv == Spec => []IInv
BY InitIInv, NextIInv, PTL DEF Spec

\* The caches above cached_compile hold what their comments say, for every number of
\* threads, patterns and changes of the defaults.
THEOREM HelperCacheTypes == Spec => []TypeOK
<1>1. IInv => TypeOK
  BY DEF IInv
<1> QED
  BY <1>1, AlwaysIInv, PTL

\* The lru and the snapshot cache stay within the limit the thread goes by, across
\* set_cache_limit and clear_cache of other threads; but for the snapshot cache under
\* the global strategy while a limit lowered between its trim and the second reading
\* stands.
THEOREM HelperCachesStayBounded == Spec => []LocalCachesBounded
<1>1. IInv => LocalCachesBounded
  <2>1. \A t \in Threads : IInv => LocalOK(loc[t], World) /\ World.strategy = strategy
    BY WorldFields DEF IInv
  <2> QED
    BY <2>1 DEF LocalOK, LocalCachesBounded
<1> QED
  BY <1>1, AlwaysIInv, PTL

\* Under the thread-local strategy the helper caches go by the limit of their thread
\* whenever no call is in the middle of changing one.
THEOREM ThreadsGoByTheirLimits == Spec => []EffectiveLimitFollowsThreadLocal
<1>1. IInv => EffectiveLimitFollowsThreadLocal
  <2> SUFFICES ASSUME IInv, strategy = "thread-local", NEW t \in Threads,
                      \A u \in Threads : op[u].pc = "ready"
               PROVE  loc[t].eff = limit[ScopeOf(t)]
    BY DEF EffectiveLimitFollowsThreadLocal, EffectiveLimitFollows
  <2>1. ~Announces(op[t]) /\ LimitFollows(t)
    BY DEF Announces, Synchronises, IInv
  <2> QED
    BY <2>1 DEF LimitFollows, LimitsAgree, ScopeOf
<1> QED
  BY <1>1, AlwaysIInv, PTL

\* A module call that goes past the hot entry returns a wrapper of a JIT default and a
\* threading default in force while it ran and, under the thread-local strategy, none
\* older than a clear_cache that had returned when it began.
THEOREM ModuleCallsAreCurrent == Spec => []SlowPathIsCurrent
<1>1. IInv => SlowPathIsCurrent
  BY DEF IInv
<1> QED
  BY <1>1, AlwaysIInv, PTL

\* So does a call served from the hot entry, if the entry was stamped with what it was
\* compiled under.
THEOREM CoherentHotEntriesAreCurrent == Spec => []CoherentHotIsCurrent
<1>1. IInv => CoherentHotIsCurrent
  BY DEF IInv
<1> QED
  BY <1>1, AlwaysIInv, PTL
================================================================================
