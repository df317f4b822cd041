------------------------- MODULE MatchResources_proofs -------------------------
(* That what the calls and the finditer objects borrow from the caches of       *)
(* pcre_ext/cache.c is held once, clean when it waits in a slot, and there when  *)
(* PCRE2 needs it, for every number of threads, iterators, patterns and nested   *)
(* calls, both strategies and every use of the settings.                        *)
EXTENDS MatchResources, WellFoundedInduction, TLAPS

-----------------------------------------------------------------------------
(* Ownership, whatever is owned.                                               *)

\* The calls A, the finditer objects I and the slots S hold the objects live.
ACall(a) == <<"call", a>>
AnIter(i) == <<"iter", i>>
ASlot(s) == <<"slot", s>>
Place(t, k) == <<t, k>>

Holders(A, I, S) ==
  {ACall(a) : a \in DOMAIN A} \cup {AnIter(i) : i \in DOMAIN I}
  \cup {ASlot(s) : s \in DOMAIN S}
Holding(A, I, S) ==
  [w \in Holders(A, I, S) |->
     IF w[1] = "call" THEN A[w[2]] ELSE IF w[1] = "iter" THEN I[w[2]] ELSE S[w[2]]]

\* f with w holding o
With(f, w, o) == [f EXCEPT ![w] = o]

Owned(f, live) ==
  /\ \A v, w \in DOMAIN f : v # w => f[v] = Null \/ f[v] # f[w]
  /\ live = {f[w] : w \in DOMAIN f} \ {Null}

DatasOfCalls == [a \in Activations |-> call[a].data]
StacksOfCalls == [a \in Activations |-> call[a].stack]
ContextsOfCalls == [a \in Activations |-> call[a].ctx]
DatasOfIters == [i \in Iters |-> iter[i].data]
StacksOfIters == [i \in Iters |-> iter[i].stack]
ContextsOfIters == [i \in Iters |-> iter[i].ctx]
ContextsOfSlots == [p \in Threads \X Slots |-> ctxSlot[p[1]][p[2]]]

DatasOwned == Owned(Holding(DatasOfCalls, DatasOfIters, matchSlot), Allocated(pairs))
StacksOwned == Owned(Holding(StacksOfCalls, StacksOfIters, jitSlot), stacks)
ContextsOwned == Owned(Holding(ContextsOfCalls, ContextsOfIters, ContextsOfSlots), contexts)

-----------------------------------------------------------------------------
(* What a call and a finditer object have at each point.                       *)

Serves(pattern, data) == data # Null => pairs[data] >= pattern

\* The options of a call, and what the flag it has read means: outside execute
\* and scan a pattern whose JIT flag is on has been on since.
OptionsFit(c) ==
  /\ c.kind = "substitute" => ~c.limit
  /\ c.kind # "substitute" => ~c.callout
  /\ c.kind \in {"substitute", "finditer"} /\ c.pc \in {"context", "stack", "run", "result"}
     /\ jitOn[c.pattern] => c.jit

\* What is held, in the order in which it is taken and given back.
TakenInOrder(c) ==
  /\ c.pc \in {"context", "stack", "context out", "data out"} => c.stack = Null
  /\ c.pc = "result" /\ c.kind = "execute" => c.stack = Null
  /\ c.pc \in {"context", "data out"} => c.ctx = Null
  /\ c.pc \in {"stack", "run", "result"} /\ NeedsContext(c) => c.ctx # Null
  /\ c.stack # Null /\ c.pc # "stack out" => c.ctx # Null
  /\ c.jit /\ c.pc = "run" /\ c.kind # "substitute" => c.stack # Null
  /\ c.jit /\ c.pc = "result" /\ c.kind = "finditer" => c.stack # Null

\* The state of the context: the stack of the call, and on it nothing the call
\* did not set or has unset.
ContextOfCall(c) ==
  c.ctx # Null =>
    /\ assigned[c.ctx] = c.stack
    /\ c.ctx \in dirty => c.limit \/ (c.callout /\ c.pc \in {"stack", "run", "stack out"})

CallInv(a) ==
  /\ a[2] > depth[a[1]] => call[a] = NoCall
  /\ OptionsFit(call[a]) /\ TakenInOrder(call[a]) /\ ContextOfCall(call[a])
  /\ Serves(call[a].pattern, call[a].data)

IterInv(i) ==
  /\ iter[i].ctx # Null => assigned[iter[i].ctx] = iter[i].stack
  /\ iter[i].data # Null /\ jitOn[iter[i].pattern] => iter[i].stack # Null /\ iter[i].ctx # Null
  /\ Serves(iter[i].pattern, iter[i].data)

Clean(o) == o \notin dirty /\ assigned[o] = Null

IInv ==
  /\ TypeOK
  /\ DatasOwned /\ StacksOwned /\ ContextsOwned
  /\ \A a \in Activations : CallInv(a)
  /\ \A i \in Iters : IterInv(i)
  /\ SlotContextsAreClean
  /\ \A o \in Objects \ contexts : Clean(o)
  /\ DisabledCachesAreEmpty

-----------------------------------------------------------------------------
(* Lemmas.                                                                     *)

\* There is a lowest free number as long as there is a free one.
LEMMA LowestIsFree ==
  ASSUME NEW used, Objects \ used # {}
  PROVE  LowestOutside(used) \in Objects /\ LowestOutside(used) \notin used
<1> DEFINE Less == {ss \in Nat \X Nat : ss[1] < ss[2]}
<1>1. Objects \subseteq Nat
  BY DEF Objects
<1>2. IsWellFoundedOn(Less, Nat)
  BY NatLessThanWellFounded, Zenon DEF OpToRel
<1>3. \A x, y \in Nat : ~(<<y, x>> \in Less) => x <= y
  OBVIOUS
<1> HIDE DEF Less
<1>4. \E x \in Objects \ used : \A y \in Objects \ used : ~(<<y, x>> \in Less)
  BY <1>1, <1>2, WFMin
<1>5. \E x \in Objects \ used : \A y \in Objects \ used : x <= y
  BY <1>1, <1>3, <1>4
<1> QED
  BY <1>5 DEF LowestOutside

LEMMA HoldingValues ==
  ASSUME NEW A, NEW I, NEW S
  PROVE  /\ DOMAIN Holding(A, I, S) = Holders(A, I, S)
         /\ \A a \in DOMAIN A : ACall(a) \in Holders(A, I, S) /\ Holding(A, I, S)[ACall(a)] = A[a]
         /\ \A i \in DOMAIN I : AnIter(i) \in Holders(A, I, S) /\ Holding(A, I, S)[AnIter(i)] = I[i]
         /\ \A s \in DOMAIN S : ASlot(s) \in Holders(A, I, S) /\ Holding(A, I, S)[ASlot(s)] = S[s]
BY DEF Holding, Holders, ACall, AnIter, ASlot

\* A change of what one of them holds is a change of the one holding.
LEMMA CallChange ==
  ASSUME NEW A, NEW I, NEW S, NEW x, NEW a \in DOMAIN A
  PROVE  Holding(With(A, a, x), I, S) = With(Holding(A, I, S), ACall(a), x)
<1>1. Holders(With(A, a, x), I, S) = Holders(A, I, S)
  BY DEF Holders, With
<1>2. \A w \in Holders(A, I, S) :
        Holding(With(A, a, x), I, S)[w] = With(Holding(A, I, S), ACall(a), x)[w]
  BY <1>1 DEF Holding, Holders, ACall, AnIter, ASlot, With
<1> QED
  BY <1>1, <1>2 DEF Holding, With

LEMMA IterChange ==
  ASSUME NEW A, NEW I, NEW S, NEW x, NEW i \in DOMAIN I
  PROVE  Holding(A, With(I, i, x), S) = With(Holding(A, I, S), AnIter(i), x)
<1>1. Holders(A, With(I, i, x), S) = Holders(A, I, S)
  BY DEF Holders, With
<1>2. \A w \in Holders(A, I, S) :
        Holding(A, With(I, i, x), S)[w] = With(Holding(A, I, S), AnIter(i), x)[w]
  BY <1>1 DEF Holding, Holders, ACall, AnIter, ASlot, With
<1> QED
  BY <1>1, <1>2 DEF Holding, With

LEMMA SlotChange ==
  ASSUME NEW A, NEW I, NEW S, NEW x, NEW s \in DOMAIN S
  PROVE  Holding(A, I, With(S, s, x)) = With(Holding(A, I, S), ASlot(s), x)
<1>1. Holders(A, I, With(S, s, x)) = Holders(A, I, S)
  BY DEF Holders, With
<1>2. \A w \in Holders(A, I, S) :
        Holding(A, I, With(S, s, x))[w] = With(Holding(A, I, S), ASlot(s), x)[w]
  BY <1>1 DEF Holding, Holders, ACall, AnIter, ASlot, With
<1> QED
  BY <1>1, <1>2 DEF Holding, With

LEMMA Taken ==
  ASSUME NEW f, NEW live, Owned(f, live), NEW v \in DOMAIN f, f[v] = Null,
         NEW o, o # Null, o \notin live
  PROVE  Owned(With(f, v, o), live \cup {o})
BY DEF Owned, Null, With

LEMMA Freed ==
  ASSUME NEW f, NEW live, Owned(f, live), NEW v \in DOMAIN f
  PROVE  Owned(With(f, v, Null), live \ {f[v]})
BY DEF Owned, Null, With

LEMMA Moved ==
  ASSUME NEW f, NEW live, Owned(f, live), NEW v \in DOMAIN f, NEW w \in DOMAIN f, v # w, f[w] = Null
  PROVE  Owned(With(With(f, v, Null), w, f[v]), live)
<1> DEFINE h == With(f, v, Null)
           g == With(h, w, f[v])
<1>0. /\ DOMAIN h = DOMAIN f /\ h[v] = Null
      /\ \A u \in DOMAIN f : u # v => h[u] = f[u]
  BY DEF With
<1> HIDE DEF h
<1>1. /\ DOMAIN g = DOMAIN f /\ g[v] = Null /\ g[w] = f[v]
      /\ \A u \in DOMAIN f : u # v /\ u # w => g[u] = f[u]
  BY <1>0 DEF With
<1> HIDE DEF g
<1>2. \A x \in DOMAIN g, y \in DOMAIN g : x # y => g[x] = Null \/ g[x] # g[y]
  BY <1>1 DEF Owned
<1>3. \A o : o # Null => ((\E u \in DOMAIN g : g[u] = o) <=> (\E u \in DOMAIN f : f[u] = o))
  BY <1>1
<1>4. live = {g[u] : u \in DOMAIN g} \ {Null}
  BY <1>3 DEF Owned
<1> QED
  BY <1>2, <1>4 DEF Owned, g, h

\* The ways an object changes hands.
LEMMA HandsChange ==
  ASSUME NEW A, NEW I, NEW S, NEW live, Owned(Holding(A, I, S), live)
  PROVE  /\ \A a \in DOMAIN A : \A o : A[a] = Null /\ o # Null /\ o \notin live =>
              Owned(Holding(With(A, a, o), I, S), live \cup {o})
         /\ \A a \in DOMAIN A : Owned(Holding(With(A, a, Null), I, S), live \ {A[a]})
         /\ \A i \in DOMAIN I : Owned(Holding(A, With(I, i, Null), S), live \ {I[i]})
         /\ \A s \in DOMAIN S : Owned(Holding(A, I, With(S, s, Null)), live \ {S[s]})
         /\ \A a \in DOMAIN A, s \in DOMAIN S : A[a] = Null =>
              Owned(Holding(With(A, a, S[s]), I, With(S, s, Null)), live)
         /\ \A a \in DOMAIN A, s \in DOMAIN S : S[s] = Null =>
              Owned(Holding(With(A, a, Null), I, With(S, s, A[a])), live)
         /\ \A i \in DOMAIN I, s \in DOMAIN S : S[s] = Null =>
              Owned(Holding(A, With(I, i, Null), With(S, s, I[i])), live)
         /\ \A a \in DOMAIN A, i \in DOMAIN I : I[i] = Null =>
              Owned(Holding(With(A, a, Null), With(I, i, A[a]), S), live)
         /\ \A a \in DOMAIN A, i \in DOMAIN I : A[a] = Null =>
              Owned(Holding(With(A, a, I[i]), With(I, i, Null), S), live)
<1> DEFINE f == Holding(A, I, S)
<1>1. /\ \A a \in DOMAIN A : ACall(a) \in DOMAIN f /\ f[ACall(a)] = A[a]
      /\ \A i \in DOMAIN I : AnIter(i) \in DOMAIN f /\ f[AnIter(i)] = I[i]
      /\ \A s \in DOMAIN S : ASlot(s) \in DOMAIN f /\ f[ASlot(s)] = S[s]
  BY HoldingValues
<1>2. \A a, i, s : ACall(a) # AnIter(i) /\ ACall(a) # ASlot(s) /\ AnIter(i) # ASlot(s)
  BY DEF ACall, AnIter, ASlot
<1>0. Owned(f, live)
  OBVIOUS
<1> HIDE DEF f
<1>3. ASSUME NEW a \in DOMAIN A, NEW o, A[a] = Null, o # Null, o \notin live
      PROVE  Owned(Holding(With(A, a, o), I, S), live \cup {o})
  <2>1. Owned(With(f, ACall(a), o), live \cup {o})
    BY <1>0, <1>1, <1>3, Taken
  <2>2. Holding(With(A, a, o), I, S) = With(f, ACall(a), o)
    BY CallChange DEF f
  <2> QED
    BY <2>1, <2>2
<1>4. ASSUME NEW a \in DOMAIN A
      PROVE  Owned(Holding(With(A, a, Null), I, S), live \ {A[a]})
  <2>1. Owned(With(f, ACall(a), Null), live \ {f[ACall(a)]})
    BY <1>0, <1>1, Freed
  <2>2. Holding(With(A, a, Null), I, S) = With(f, ACall(a), Null)
    BY CallChange DEF f
  <2>3. f[ACall(a)] = A[a]
    BY <1>1
  <2> QED
    BY <2>1, <2>2, <2>3
<1>5. ASSUME NEW i \in DOMAIN I
      PROVE  Owned(Holding(A, With(I, i, Null), S), live \ {I[i]})
  <2>1. Owned(With(f, AnIter(i), Null), live \ {f[AnIter(i)]})
    BY <1>0, <1>1, Freed
  <2>2. Holding(A, With(I, i, Null), S) = With(f, AnIter(i), Null)
    BY IterChange DEF f
  <2>3. f[AnIter(i)] = I[i]
    BY <1>1
  <2> QED
    BY <2>1, <2>2, <2>3
<1>6. ASSUME NEW s \in DOMAIN S
      PROVE  Owned(Holding(A, I, With(S, s, Null)), live \ {S[s]})
  <2>1. Owned(With(f, ASlot(s), Null), live \ {f[ASlot(s)]})
    BY <1>0, <1>1, Freed
  <2>2. Holding(A, I, With(S, s, Null)) = With(f, ASlot(s), Null)
    BY SlotChange DEF f
  <2>3. f[ASlot(s)] = S[s]
    BY <1>1
  <2> QED
    BY <2>1, <2>2, <2>3
<1>7. ASSUME NEW a \in DOMAIN A, NEW s \in DOMAIN S, A[a] = Null
      PROVE  Owned(Holding(With(A, a, S[s]), I, With(S, s, Null)), live)
  <2>1. Owned(With(With(f, ASlot(s), Null), ACall(a), f[ASlot(s)]), live)
    BY <1>0, <1>1, <1>2, <1>7, Moved
  <2>2. Holding(A, I, With(S, s, Null)) = With(f, ASlot(s), Null)
    BY SlotChange DEF f
  <2>3. Holding(With(A, a, S[s]), I, With(S, s, Null))
        = With(Holding(A, I, With(S, s, Null)), ACall(a), S[s])
    BY CallChange
  <2>4. f[ASlot(s)] = S[s]
    BY <1>1
  <2> QED
    BY <2>1, <2>2, <2>3, <2>4
<1>8. ASSUME NEW a \in DOMAIN A, NEW s \in DOMAIN S, S[s] = Null
      PROVE  Owned(Holding(With(A, a, Null), I, With(S, s, A[a])), live)
  <2>1. Owned(With(With(f, ACall(a), Null), ASlot(s), f[ACall(a)]), live)
    BY <1>0, <1>1, <1>2, <1>8, Moved
  <2>2. Holding(With(A, a, Null), I, S) = With(f, ACall(a), Null)
    BY CallChange DEF f
  <2>3. Holding(With(A, a, Null), I, With(S, s, A[a]))
        = With(Holding(With(A, a, Null), I, S), ASlot(s), A[a])
    BY SlotChange
  <2>4. f[ACall(a)] = A[a]
    BY <1>1
  <2> QED
    BY <2>1, <2>2, <2>3, <2>4
<1>9. ASSUME NEW i \in DOMAIN I, NEW s \in DOMAIN S, S[s] = Null
      PROVE  Owned(Holding(A, With(I, i, Null), With(S, s, I[i])), live)
  <2>1. Owned(With(With(f, AnIter(i), Null), ASlot(s), f[AnIter(i)]), live)
    BY <1>0, <1>1, <1>2, <1>9, Moved
  <2>2. Holding(A, With(I, i, Null), S) = With(f, AnIter(i), Null)
    BY IterChange DEF f
  <2>3. Holding(A, With(I, i, Null), With(S, s, I[i]))
        = With(Holding(A, With(I, i, Null), S), ASlot(s), I[i])
    BY SlotChange
  <2>4. f[AnIter(i)] = I[i]
    BY <1>1
  <2> QED
    BY <2>1, <2>2, <2>3, <2>4
<1>10. ASSUME NEW a \in DOMAIN A, NEW i \in DOMAIN I, I[i] = Null
      PROVE  Owned(Holding(With(A, a, Null), With(I, i, A[a]), S), live)
  <2>1. Owned(With(With(f, ACall(a), Null), AnIter(i), f[ACall(a)]), live)
    BY <1>0, <1>1, <1>2, <1>10, Moved
  <2>2. Holding(With(A, a, Null), I, S) = With(f, ACall(a), Null)
    BY CallChange DEF f
  <2>3. Holding(With(A, a, Null), With(I, i, A[a]), S)
        = With(Holding(With(A, a, Null), I, S), AnIter(i), A[a])
    BY IterChange
  <2>4. f[ACall(a)] = A[a]
    BY <1>1
  <2> QED
    BY <2>1, <2>2, <2>3, <2>4
<1>11. ASSUME NEW a \in DOMAIN A, NEW i \in DOMAIN I, A[a] = Null
      PROVE  Owned(Holding(With(A, a, I[i]), With(I, i, Null), S), live)
  <2>1. Owned(With(With(f, AnIter(i), Null), ACall(a), f[AnIter(i)]), live)
    BY <1>0, <1>1, <1>2, <1>11, Moved
  <2>2. Holding(A, With(I, i, Null), S) = With(f, AnIter(i), Null)
    BY IterChange DEF f
  <2>3. Holding(With(A, a, I[i]), With(I, i, Null), S)
        = With(Holding(A, With(I, i, Null), S), ACall(a), I[i])
    BY CallChange
  <2>4. f[AnIter(i)] = I[i]
    BY <1>1
  <2> QED
    BY <2>1, <2>2, <2>3, <2>4
<1> QED
  BY <1>3, <1>4, <1>5, <1>6, <1>7, <1>8, <1>9, <1>10, <1>11

\* What one holds, no other does, and it is alive.
LEMMA Apart ==
  ASSUME NEW A, NEW I, NEW S, NEW live, Owned(Holding(A, I, S), live)
  PROVE  /\ \A a \in DOMAIN A : A[a] # Null =>
              /\ A[a] \in live
              /\ \A b \in DOMAIN A : b # a => A[b] # A[a]
              /\ \A i \in DOMAIN I : I[i] # A[a]
              /\ \A s \in DOMAIN S : S[s] # A[a]
         /\ \A i \in DOMAIN I : I[i] # Null =>
              /\ I[i] \in live
              /\ \A j \in DOMAIN I : j # i => I[j] # I[i]
              /\ \A s \in DOMAIN S : S[s] # I[i]
         /\ \A s \in DOMAIN S : S[s] # Null => S[s] \in live /\ \A r \in DOMAIN S : r # s => S[r] # S[s]
<1> DEFINE f == Holding(A, I, S)
<1>1. /\ \A a \in DOMAIN A : ACall(a) \in DOMAIN f /\ f[ACall(a)] = A[a]
      /\ \A i \in DOMAIN I : AnIter(i) \in DOMAIN f /\ f[AnIter(i)] = I[i]
      /\ \A s \in DOMAIN S : ASlot(s) \in DOMAIN f /\ f[ASlot(s)] = S[s]
  BY HoldingValues
<1>20. \A x, y : x # y => ACall(x) # ACall(y) /\ AnIter(x) # AnIter(y) /\ ASlot(x) # ASlot(y)
  BY DEF ACall, AnIter, ASlot
<1>2. \A a, i, s : ACall(a) # AnIter(i) /\ ACall(a) # ASlot(s) /\ AnIter(i) # ASlot(s)
  BY DEF ACall, AnIter, ASlot
<1>3. /\ \A v, w \in DOMAIN f : v # w => f[v] = Null \/ f[v] # f[w]
      /\ \A v \in DOMAIN f : f[v] # Null => f[v] \in live
  BY DEF Owned
<1> HIDE DEF f
<1>4. ASSUME NEW a \in DOMAIN A, A[a] # Null
      PROVE  /\ A[a] \in live
             /\ \A b \in DOMAIN A : b # a => A[b] # A[a]
             /\ \A i \in DOMAIN I : I[i] # A[a]
             /\ \A s \in DOMAIN S : S[s] # A[a]
  BY <1>1, <1>2, <1>20, <1>3, <1>4
<1>5. ASSUME NEW i \in DOMAIN I, I[i] # Null
      PROVE  /\ I[i] \in live
             /\ \A j \in DOMAIN I : j # i => I[j] # I[i]
             /\ \A s \in DOMAIN S : S[s] # I[i]
  BY <1>1, <1>2, <1>20, <1>3, <1>5
<1>6. ASSUME NEW s \in DOMAIN S, S[s] # Null
      PROVE  S[s] \in live /\ \A r \in DOMAIN S : r # s => S[r] # S[s]
  BY <1>1, <1>2, <1>20, <1>3, <1>6
<1> QED
  BY <1>4, <1>5, <1>6

LEMMA CallApart ==
  ASSUME NEW A, NEW I, NEW S, NEW live, Owned(Holding(A, I, S), live), NEW a \in DOMAIN A, A[a] # Null
  PROVE  /\ A[a] \in live
         /\ \A b \in DOMAIN A : b # a => A[b] # A[a]
         /\ \A i \in DOMAIN I : I[i] # A[a]
         /\ \A s \in DOMAIN S : S[s] # A[a]
BY Apart

LEMMA IterApart ==
  ASSUME NEW A, NEW I, NEW S, NEW live, Owned(Holding(A, I, S), live), NEW i \in DOMAIN I, I[i] # Null
  PROVE  /\ I[i] \in live
         /\ \A a \in DOMAIN A : A[a] # I[i]
         /\ \A j \in DOMAIN I : j # i => I[j] # I[i]
         /\ \A s \in DOMAIN S : S[s] # I[i]
BY Apart

LEMMA SlotApart ==
  ASSUME NEW A, NEW I, NEW S, NEW live, Owned(Holding(A, I, S), live), NEW s \in DOMAIN S, S[s] # Null
  PROVE  /\ S[s] \in live
         /\ \A a \in DOMAIN A : A[a] # S[s]
         /\ \A i \in DOMAIN I : I[i] # S[s]
         /\ \A r \in DOMAIN S : r # s => S[r] # S[s]
BY Apart

\* What is allocated after a match data is created or freed.
LEMMA AllocatedChanges ==
  ASSUME NEW sizes \in [Objects -> 0..MaxPairs], NEW o \in Objects
  PROVE  /\ [sizes EXCEPT ![o] = 0] \in [Objects -> 0..MaxPairs]
         /\ Allocated([sizes EXCEPT ![o] = 0]) = Allocated(sizes) \ {o}
         /\ \A p \in Patterns : /\ [sizes EXCEPT ![o] = p] \in [Objects -> 0..MaxPairs]
                                /\ Allocated([sizes EXCEPT ![o] = p]) = Allocated(sizes) \cup {o}
<1>1. MaxPairs \in Nat /\ 0 \in 0..MaxPairs
  BY ResourceAssumption
<1>2. \A p \in Patterns : p \in 0..MaxPairs /\ p # 0
  BY <1>1 DEF Patterns
<1> QED
  BY <1>1, <1>2 DEF Allocated

LEMMA HomeIsHome ==
  ASSUME NEW t \in Threads
  PROVE  Home(t) \in Homes
BY DEF Home, Homes

\* An acquired match data was in the slot or did not exist, and is large enough.
LEMMA DataAcquired ==
  ASSUME TypeOK, NEW t \in Threads, NEW p \in Patterns, NEW o \in Objects, AcquireData(t, p, o),
         NEW A, NEW I, Owned(Holding(A, I, matchSlot), Allocated(pairs)),
         NEW a \in DOMAIN A, A[a] = Null
  PROVE  /\ Owned(Holding(With(A, a, o), I, matchSlot'), Allocated(pairs'))
         /\ pairs' \in [Objects -> 0..MaxPairs] /\ matchSlot' \in [Homes -> Handle] /\ state' \subseteq Threads
         /\ pairs'[o] >= p
         /\ \A d \in Allocated(pairs) : d # matchSlot[Home(t)] => pairs'[d] = pairs[d]
         /\ \A h \in Homes : matchSlot'[h] \in {matchSlot[h], Null}
<1> DEFINE h == Home(t)
           d == Cached(t)
           kept == IF d = Null THEN pairs ELSE [pairs EXCEPT ![d] = 0]
<1>1. h \in Homes
  BY HomeIsHome
<1>2. pairs \in [Objects -> 0..MaxPairs] /\ matchSlot \in [Homes -> Handle] /\ state \subseteq Threads
  BY DEF TypeOK
<1>3. /\ state' \subseteq Threads
      /\ matchSlot' = [matchSlot EXCEPT ![h] = IF d = Null THEN @ ELSE Null]
      /\ \/ Fits(d, p) /\ o = d /\ UNCHANGED pairs
         \/ /\ ~Fits(d, p)
            /\ Allocated(kept) # Objects /\ o = LowestOutside(Allocated(kept))
            /\ pairs' = [kept EXCEPT ![o] = p]
  BY <1>2 DEF AcquireData, EnsureState
<1>4. d = Null \/ (d = matchSlot[h] /\ d \in Objects)
  BY <1>1, <1>2 DEF Cached, Handle
<1>5. Null \in Handle /\ Null \notin Objects /\ p # Null /\ p \in Nat
  BY DEF Handle, Objects, Null, Patterns
<1> HIDE DEF d, h
<1>6. matchSlot' \in [Homes -> Handle] /\ \A g \in Homes : matchSlot'[g] \in {matchSlot[g], Null}
  BY <1>1, <1>2, <1>3, <1>5
<1>7. d # Null => matchSlot' = With(matchSlot, h, Null)
  BY <1>3 DEF With
<1>8. d = Null => matchSlot' = matchSlot
  BY <1>1, <1>2, <1>3
<1>9. DOMAIN matchSlot = Homes
  BY <1>2
<1>10. CASE Fits(d, p) /\ o = d /\ UNCHANGED pairs
  <2>1. d # Null /\ pairs'[o] >= p
    BY <1>10 DEF Fits
  <2>2. Owned(Holding(With(A, a, matchSlot[h]), I, With(matchSlot, h, Null)), Allocated(pairs))
    BY <1>1, <1>9, HandsChange
  <2> QED
    BY <1>2, <1>3, <1>4, <1>6, <1>7, <1>10, <2>1, <2>2
<1>11. CASE /\ ~Fits(d, p)
            /\ Allocated(kept) # Objects /\ o = LowestOutside(Allocated(kept))
            /\ pairs' = [kept EXCEPT ![o] = p]
  <2>1. kept \in [Objects -> 0..MaxPairs] /\ (d # Null => Allocated(kept) = Allocated(pairs) \ {d})
    BY <1>2, <1>4, AllocatedChanges
  <2>2. Owned(Holding(A, I, matchSlot'), Allocated(kept))
    <3>1. CASE d = Null
      BY <1>8, <3>1
    <3>2. CASE d # Null
      <4>1. Owned(Holding(A, I, With(matchSlot, h, Null)), Allocated(pairs) \ {matchSlot[h]})
        BY <1>1, <1>9, HandsChange
      <4> QED
        BY <1>4, <1>7, <2>1, <3>2, <4>1
    <3> QED
      BY <3>1, <3>2
  <2>3. Allocated(kept) \subseteq Objects
    BY DEF Allocated
  <2>4. Objects \ Allocated(kept) # {}
    BY <1>11, <2>3
  <2>5. o \notin Allocated(kept)
    BY <1>11, <2>4, LowestIsFree
  <2>6. pairs' \in [Objects -> 0..MaxPairs] /\ Allocated(pairs') = Allocated(kept) \cup {o}
    <3> HIDE DEF kept
    <3> QED
      BY <1>11, <2>1, AllocatedChanges
  <2>7. Owned(Holding(With(A, a, o), I, matchSlot'), Allocated(kept) \cup {o})
    BY <1>5, <2>2, <2>5, HandsChange
  <2>8. \A x \in Allocated(pairs) : x # matchSlot[h] => x \in Allocated(kept) /\ kept[x] = pairs[x]
    BY <1>2, <1>4 DEF Allocated
  <2>9. \A x \in Allocated(pairs) : x # matchSlot[h] => pairs'[x] = pairs[x]
    <3> HIDE DEF kept
    <3> QED
      BY <1>11, <2>1, <2>5, <2>8
  <2>10. pairs'[o] = p
    <3> HIDE DEF kept
    <3> QED
      BY <1>11, <2>1
  <2> QED
    BY <1>3, <1>5, <1>6, <2>6, <2>7, <2>9, <2>10 DEF h
<1> QED
  BY <1>3, <1>10, <1>11

\* A released match data goes into an empty slot that is in use, or is freed.
LEMMA DataReleased ==
  ASSUME TypeOK, NEW t \in Threads, NEW o \in Handle, ReleaseData(t, o),
         NEW A, NEW I, Owned(Holding(A, I, matchSlot), Allocated(pairs))
  PROVE  /\ \A a \in DOMAIN A : A[a] = o =>
              Owned(Holding(With(A, a, Null), I, matchSlot'), Allocated(pairs'))
         /\ \A i \in DOMAIN I : I[i] = o =>
              Owned(Holding(A, With(I, i, Null), matchSlot'), Allocated(pairs'))
         /\ pairs' \in [Objects -> 0..MaxPairs] /\ matchSlot' \in [Homes -> Handle]
         /\ \A d \in Objects : d # o => pairs'[d] = pairs[d]
         /\ \A h \in Homes : matchCap[h] = 0 => matchSlot'[h] = matchSlot[h]
<1> DEFINE h == Home(t)
<1>1. h \in Homes
  BY HomeIsHome
<1>2. pairs \in [Objects -> 0..MaxPairs] /\ matchSlot \in [Homes -> Handle]
  BY DEF TypeOK
<1>3. \/ /\ o # Null /\ matchCap[h] # 0 /\ matchSlot[h] = Null
         /\ matchSlot' = [matchSlot EXCEPT ![h] = o] /\ UNCHANGED pairs
      \/ o # Null /\ pairs' = [pairs EXCEPT ![o] = 0] /\ UNCHANGED matchSlot
      \/ o = Null /\ UNCHANGED <<pairs, matchSlot>>
  BY DEF ReleaseData, KeepsData
<1>4. Handle = Objects \cup {Null} /\ Null \notin Objects /\ Null \notin Allocated(pairs)
  BY DEF Handle, Objects, Null, Allocated
<1> HIDE DEF h
<1>5. DOMAIN matchSlot = Homes
  BY <1>2
<1>6. CASE /\ o # Null /\ matchCap[h] # 0 /\ matchSlot[h] = Null
           /\ matchSlot' = [matchSlot EXCEPT ![h] = o] /\ UNCHANGED pairs
  <2>1. matchSlot' = With(matchSlot, h, o)
    BY <1>6 DEF With
  <2>2. ASSUME NEW a \in DOMAIN A, A[a] = o
        PROVE  Owned(Holding(With(A, a, Null), I, With(matchSlot, h, A[a])), Allocated(pairs))
    BY <1>1, <1>5, <1>6, HandsChange
  <2>3. ASSUME NEW i \in DOMAIN I, I[i] = o
        PROVE  Owned(Holding(A, With(I, i, Null), With(matchSlot, h, I[i])), Allocated(pairs))
    BY <1>1, <1>5, <1>6, HandsChange
  <2> QED
    BY <1>1, <1>2, <1>6, <2>1, <2>2, <2>3
<1>7. CASE o # Null /\ pairs' = [pairs EXCEPT ![o] = 0] /\ UNCHANGED matchSlot
  <2>1. o \in Objects
    BY <1>4, <1>7
  <2>2. pairs' \in [Objects -> 0..MaxPairs] /\ Allocated(pairs') = Allocated(pairs) \ {o}
    BY <1>2, <1>7, <2>1, AllocatedChanges
  <2>3. ASSUME NEW a \in DOMAIN A
        PROVE  Owned(Holding(With(A, a, Null), I, matchSlot), Allocated(pairs) \ {A[a]})
    BY HandsChange
  <2>4. ASSUME NEW i \in DOMAIN I
        PROVE  Owned(Holding(A, With(I, i, Null), matchSlot), Allocated(pairs) \ {I[i]})
    BY HandsChange
  <2> QED
    BY <1>2, <1>7, <2>2, <2>3, <2>4
<1>8. CASE o = Null /\ UNCHANGED <<pairs, matchSlot>>
  <2>1. Allocated(pairs) \ {o} = Allocated(pairs)
    BY <1>4, <1>8
  <2>3. ASSUME NEW a \in DOMAIN A
        PROVE  Owned(Holding(With(A, a, Null), I, matchSlot), Allocated(pairs) \ {A[a]})
    BY HandsChange
  <2>4. ASSUME NEW i \in DOMAIN I
        PROVE  Owned(Holding(A, With(I, i, Null), matchSlot), Allocated(pairs) \ {I[i]})
    BY HandsChange
  <2> QED
    BY <1>2, <1>8, <2>1, <2>3, <2>4
<1> QED
  BY <1>3, <1>6, <1>7, <1>8

\* An acquired JIT stack was in the slot or did not exist.
LEMMA StackAcquired ==
  ASSUME TypeOK, NEW t \in Threads, NEW o \in Objects, AcquireStack(t, o),
         NEW A, NEW I, Owned(Holding(A, I, jitSlot), stacks), NEW a \in DOMAIN A, A[a] = Null
  PROVE  /\ Owned(Holding(With(A, a, o), I, jitSlot'), stacks')
         /\ stacks' \subseteq Objects /\ jitSlot' \in [Homes -> Handle] /\ state' \subseteq Threads
         /\ \A h \in Homes : jitSlot'[h] \in {jitSlot[h], Null}
<1> DEFINE h == Home(t)
<1>1. h \in Homes
  BY HomeIsHome
<1>2. stacks \subseteq Objects /\ jitSlot \in [Homes -> Handle] /\ state \subseteq Threads
  BY DEF TypeOK
<1>3. /\ state' \subseteq Threads
      /\ \/ /\ jitSlot[h] # Null /\ o = jitSlot[h]
            /\ jitSlot' = [jitSlot EXCEPT ![h] = Null] /\ UNCHANGED stacks
         \/ /\ stacks # Objects /\ o = LowestOutside(stacks)
            /\ stacks' = stacks \cup {o} /\ UNCHANGED jitSlot
  BY <1>2 DEF AcquireStack, EnsureState
<1>4. Null \in Handle /\ o # Null
  BY DEF Handle, Objects, Null
<1> HIDE DEF h
<1>5. DOMAIN jitSlot = Homes
  BY <1>2
<1>6. CASE /\ jitSlot[h] # Null /\ o = jitSlot[h]
           /\ jitSlot' = [jitSlot EXCEPT ![h] = Null] /\ UNCHANGED stacks
  <2>1. jitSlot' = With(jitSlot, h, Null)
    BY <1>6 DEF With
  <2>2. Owned(Holding(With(A, a, jitSlot[h]), I, With(jitSlot, h, Null)), stacks)
    BY <1>1, <1>5, HandsChange
  <2> QED
    BY <1>1, <1>2, <1>3, <1>4, <1>6, <2>1, <2>2
<1>7. CASE /\ stacks # Objects /\ o = LowestOutside(stacks)
           /\ stacks' = stacks \cup {o} /\ UNCHANGED jitSlot
  <2>1. o \notin stacks
    BY <1>2, <1>7, LowestIsFree
  <2>2. Owned(Holding(With(A, a, o), I, jitSlot), stacks \cup {o})
    BY <1>4, <2>1, HandsChange
  <2> QED
    BY <1>2, <1>3, <1>7, <2>2
<1> QED
  BY <1>3, <1>6, <1>7

\* A released JIT stack goes into an empty slot that is in use, or is freed.
LEMMA StackReleased ==
  ASSUME TypeOK, NEW t \in Threads, NEW o \in Handle, ReleaseStack(t, o),
         NEW A, NEW I, Owned(Holding(A, I, jitSlot), stacks)
  PROVE  /\ \A a \in DOMAIN A : A[a] = o => Owned(Holding(With(A, a, Null), I, jitSlot'), stacks')
         /\ \A i \in DOMAIN I : I[i] = o => Owned(Holding(A, With(I, i, Null), jitSlot'), stacks')
         /\ stacks' \subseteq Objects /\ jitSlot' \in [Homes -> Handle]
         /\ \A h \in Homes : jitCap[h] = 0 => jitSlot'[h] = jitSlot[h]
<1> DEFINE h == Home(t)
<1>1. h \in Homes
  BY HomeIsHome
<1>2. stacks \subseteq Objects /\ jitSlot \in [Homes -> Handle]
  BY DEF TypeOK
<1>3. \/ /\ o # Null /\ jitCap[h] # 0 /\ jitSlot[h] = Null
         /\ jitSlot' = [jitSlot EXCEPT ![h] = o] /\ UNCHANGED stacks
      \/ stacks' = stacks \ {o} /\ UNCHANGED jitSlot
  BY DEF ReleaseStack, KeepsStack
<1> HIDE DEF h
<1>5. DOMAIN jitSlot = Homes
  BY <1>2
<1>6. CASE /\ o # Null /\ jitCap[h] # 0 /\ jitSlot[h] = Null
           /\ jitSlot' = [jitSlot EXCEPT ![h] = o] /\ UNCHANGED stacks
  <2>1. jitSlot' = With(jitSlot, h, o)
    BY <1>6 DEF With
  <2>2. ASSUME NEW a \in DOMAIN A, A[a] = o
        PROVE  Owned(Holding(With(A, a, Null), I, With(jitSlot, h, A[a])), stacks)
    BY <1>1, <1>5, <1>6, HandsChange
  <2>3. ASSUME NEW i \in DOMAIN I, I[i] = o
        PROVE  Owned(Holding(A, With(I, i, Null), With(jitSlot, h, I[i])), stacks)
    BY <1>1, <1>5, <1>6, HandsChange
  <2> QED
    BY <1>1, <1>2, <1>6, <2>1, <2>2, <2>3
<1>7. CASE stacks' = stacks \ {o} /\ UNCHANGED jitSlot
  <2>3. ASSUME NEW a \in DOMAIN A
        PROVE  Owned(Holding(With(A, a, Null), I, jitSlot), stacks \ {A[a]})
    BY HandsChange
  <2>4. ASSUME NEW i \in DOMAIN I
        PROVE  Owned(Holding(A, With(I, i, Null), jitSlot), stacks \ {I[i]})
    BY HandsChange
  <2> QED
    BY <1>2, <1>7, <2>3, <2>4
<1> QED
  BY <1>3, <1>6, <1>7

\* A change of one slot for contexts.
LEMMA SlotChanges ==
  ASSUME NEW t \in Threads, NEW k \in Slots, NEW o,
         \A u \in Threads, j \in Slots : ctxSlot'[u][j] = IF u = t /\ j = k THEN o ELSE ctxSlot[u][j]
  PROVE  ContextsOfSlots' = With(ContextsOfSlots, Place(t, k), o)
<1>1. \A p \in Threads \X Slots : p = <<p[1], p[2]>> /\ p[1] \in Threads /\ p[2] \in Slots
  OBVIOUS
<1>2. \A p \in Threads \X Slots : ctxSlot'[p[1]][p[2]] = IF p = Place(t, k) THEN o ELSE ctxSlot[p[1]][p[2]]
  BY <1>1 DEF Place
<1> QED
  BY <1>2 DEF ContextsOfSlots, With

LEMMA SlotValues ==
  /\ \A t, u \in Threads, k, j \in Slots : Place(t, k) = Place(u, j) => t = u /\ k = j
  /\ DOMAIN ContextsOfSlots = Threads \X Slots
  /\ \A t \in Threads, k \in Slots : Place(t, k) \in Threads \X Slots /\ ContextsOfSlots[Place(t, k)] = ctxSlot[t][k]
BY DEF ContextsOfSlots, Place

\* A created context did not exist.
LEMMA ContextCreated ==
  ASSUME TypeOK, \A x \in Objects \ contexts : Clean(x), NEW o \in Objects, CreateContext(o),
         NEW A, NEW I, NEW S, Owned(Holding(A, I, S), contexts), NEW a \in DOMAIN A, A[a] = Null
  PROVE  /\ Owned(Holding(With(A, a, o), I, S), contexts')
         /\ contexts' = contexts \cup {o} /\ contexts' \subseteq Objects
         /\ o \notin contexts /\ Clean(o)
<1>1. contexts \subseteq Objects /\ o # Null
  BY DEF TypeOK, Objects, Null
<1>2. contexts # Objects /\ o = LowestOutside(contexts) /\ contexts' = contexts \cup {o}
  BY DEF CreateContext
<1>3. o \notin contexts
  BY <1>1, <1>2, LowestIsFree
<1>4. Owned(Holding(With(A, a, o), I, S), contexts \cup {o})
  BY <1>1, <1>3, HandsChange
<1> QED
  BY <1>1, <1>2, <1>3, <1>4

\* An acquired context was in a slot or did not exist: nothing is left on it.
LEMMA ContextAcquired ==
  ASSUME TypeOK, SlotContextsAreClean, \A x \in Objects \ contexts : Clean(x),
         NEW t \in Threads, NEW limit \in BOOLEAN, NEW o \in Objects, AcquireContext(t, limit, o),
         NEW A, NEW I, Owned(Holding(A, I, ContextsOfSlots), contexts), NEW a \in DOMAIN A, A[a] = Null
  PROVE  /\ Owned(Holding(With(A, a, o), I, ContextsOfSlots'), contexts')
         /\ ctxSlot' \in [Threads -> [Slots -> Handle]] /\ state' \subseteq Threads
         /\ \A u \in Threads, k \in Slots : ctxSlot'[u][k] \in {ctxSlot[u][k], Null} /\ ctxSlot'[u][k] # o
         /\ contexts' = contexts \cup {o} /\ Clean(o)
<1> DEFINE k == IF limit THEN "offset" ELSE "plain"
<1>1. k \in Slots /\ Null \in Handle /\ o # Null
  BY DEF Slots, Handle, Objects, Null
<1>2. /\ ctxSlot \in [Threads -> [Slots -> Handle]] /\ state \subseteq Threads
      /\ contexts \subseteq Objects
  BY DEF TypeOK
<1>3. \/ CreateContext(o) /\ UNCHANGED <<state, ctxSlot>>
      \/ /\ state' = state \cup {t}
         /\ ctxSlot' = [ctxSlot EXCEPT ![t][k] = Null]
         /\ IF ctxSlot[t][k] # Null
              THEN o = ctxSlot[t][k] /\ UNCHANGED contexts
              ELSE CreateContext(o)
  BY DEF AcquireContext
<1>4. /\ DOMAIN ContextsOfSlots = Threads \X Slots
      /\ \A u \in Threads, j \in Slots : Place(u, j) \in Threads \X Slots /\ ContextsOfSlots[Place(u, j)] = ctxSlot[u][j]
  BY SlotValues
<1>5. \A u \in Threads, j \in Slots : ctxSlot[u][j] # Null => ctxSlot[u][j] \in contexts
  <2>1. \A p \in DOMAIN ContextsOfSlots : ContextsOfSlots[p] # Null => ContextsOfSlots[p] \in contexts
    BY Apart
  <2> QED
    BY <1>4, <2>1
<1> HIDE DEF k
<1>6. CASE CreateContext(o) /\ UNCHANGED <<state, ctxSlot>>
  <2>1. ContextsOfSlots' = ContextsOfSlots
    BY <1>6 DEF ContextsOfSlots
  <2>2. /\ Owned(Holding(With(A, a, o), I, ContextsOfSlots), contexts')
        /\ contexts' = contexts \cup {o} /\ o \notin contexts /\ Clean(o)
    BY <1>6, ContextCreated
  <2> QED
    BY <1>1, <1>2, <1>5, <1>6, <2>1, <2>2
<1>7. CASE /\ state' = state \cup {t}
           /\ ctxSlot' = [ctxSlot EXCEPT ![t][k] = Null]
           /\ IF ctxSlot[t][k] # Null
                THEN o = ctxSlot[t][k] /\ UNCHANGED contexts
                ELSE CreateContext(o)
  <2>0. /\ ctxSlot' \in [Threads -> [Slots -> Handle]]
        /\ \A u \in Threads, j \in Slots : ctxSlot'[u][j] = IF u = t /\ j = k THEN Null ELSE ctxSlot[u][j]
    BY <1>1, <1>2, <1>7
  <2>1. /\ ContextsOfSlots' = With(ContextsOfSlots, Place(t, k), Null)
        /\ ctxSlot' \in [Threads -> [Slots -> Handle]]
        /\ \A u \in Threads, j \in Slots : ctxSlot'[u][j] = IF u = t /\ j = k THEN Null ELSE ctxSlot[u][j]
    BY <1>1, <1>3, <1>7, <2>0, SlotChanges
  <2>2. CASE ctxSlot[t][k] # Null /\ o = ctxSlot[t][k] /\ UNCHANGED contexts
    <3>1. Owned(Holding(With(A, a, ContextsOfSlots[Place(t, k)]), I, With(ContextsOfSlots, Place(t, k), Null)), contexts)
      BY <1>1, <1>4, HandsChange
    <3>2. Owned(Holding(With(A, a, o), I, ContextsOfSlots'), contexts')
      BY <1>1, <1>4, <2>1, <2>2, <3>1
    <3>3. \A p \in DOMAIN ContextsOfSlots : p # Place(t, k) => ContextsOfSlots[p] # ContextsOfSlots[Place(t, k)]
      <4>1. Place(t, k) \in DOMAIN ContextsOfSlots /\ ContextsOfSlots[Place(t, k)] # Null
        BY <1>1, <1>4, <2>2
      <4> QED
        BY <4>1, SlotApart
    <3>4. \A u \in Threads, j \in Slots : Place(u, j) # Place(t, k) => ctxSlot[u][j] # o
      BY <1>1, <1>4, <2>2, <3>3
    <3>5. \A u \in Threads, j \in Slots : ctxSlot'[u][j] # o
      <4>1. \A u \in Threads, j \in Slots : Place(u, j) = Place(t, k) => u = t /\ j = k
        BY DEF Place
      <4>2. ASSUME NEW u \in Threads, NEW j \in Slots
            PROVE  ctxSlot'[u][j] # o
        <5>1. CASE u = t /\ j = k
          BY <1>1, <2>0, <5>1
        <5>2. CASE ~(u = t /\ j = k)
          <6>1. ctxSlot'[u][j] = ctxSlot[u][j]
            BY <2>0, <5>2
          <6> QED
            BY <3>4, <4>1, <5>2, <6>1
        <5> QED
          BY <5>1, <5>2
      <4> QED
        BY <4>2
    <3>6. Clean(o) /\ o \in contexts
      BY <1>1, <1>5, <2>2 DEF SlotContextsAreClean, Clean
    <3> QED
      BY <1>2, <1>7, <2>1, <2>2, <3>2, <3>5, <3>6
  <2>3. CASE ctxSlot[t][k] = Null /\ CreateContext(o)
    <3>1. /\ Owned(Holding(With(A, a, o), I, ContextsOfSlots), contexts')
          /\ contexts' = contexts \cup {o} /\ o \notin contexts /\ Clean(o)
      BY <2>3, ContextCreated
    <3>2. ContextsOfSlots' = ContextsOfSlots
      <4>1. \A u \in Threads, j \in Slots : ctxSlot'[u][j] = ctxSlot[u][j]
        BY <2>1, <2>3
      <4> QED
        BY <4>1 DEF ContextsOfSlots
    <3> QED
      BY <1>1, <1>2, <1>5, <1>7, <2>1, <3>1, <3>2
  <2> QED
    BY <1>7, <2>2, <2>3
<1> QED
  BY <1>3, <1>6, <1>7

\* A released context goes clean into an empty slot or is freed.
LEMMA ContextReleased ==
  ASSUME TypeOK, NEW t \in Threads, NEW o \in Objects, NEW limit \in BOOLEAN, ReleaseContext(t, o, limit),
         NEW A, NEW I, Owned(Holding(A, I, ContextsOfSlots), contexts), NEW a \in DOMAIN A, A[a] = o
  PROVE  /\ Owned(Holding(With(A, a, Null), I, ContextsOfSlots'), contexts')
         /\ ctxSlot' \in [Threads -> [Slots -> Handle]]
         /\ contexts' \in {contexts, contexts \ {o}}
         /\ \A u \in Threads, k \in Slots : ctxSlot'[u][k] \in {ctxSlot[u][k], o}
<1> DEFINE preferred == IF limit THEN "offset" ELSE "plain"
           fallback == IF limit THEN "plain" ELSE "offset"
           free == {j \in Slots : ctxSlot[t][j] = Null}
           k == IF preferred \in free THEN preferred ELSE fallback
<1>1. ctxSlot \in [Threads -> [Slots -> Handle]] /\ o \in Handle
  BY DEF TypeOK, Handle
<1>2. \/ free # {} /\ ctxSlot' = [ctxSlot EXCEPT ![t][k] = o] /\ UNCHANGED contexts
      \/ contexts' = contexts \ {o} /\ UNCHANGED ctxSlot
  BY DEF ReleaseContext
<1>3. free # {} => k \in Slots /\ ctxSlot[t][k] = Null
  BY DEF Slots
<1>4. /\ DOMAIN ContextsOfSlots = Threads \X Slots
      /\ \A u \in Threads, j \in Slots : Place(u, j) \in Threads \X Slots /\ ContextsOfSlots[Place(u, j)] = ctxSlot[u][j]
  BY SlotValues
<1> HIDE DEF k, free
<1>5. CASE free # {} /\ ctxSlot' = [ctxSlot EXCEPT ![t][k] = o] /\ UNCHANGED contexts
  <2>0. /\ ctxSlot' \in [Threads -> [Slots -> Handle]]
        /\ \A u \in Threads, j \in Slots : ctxSlot'[u][j] = IF u = t /\ j = k THEN o ELSE ctxSlot[u][j]
    BY <1>1, <1>3, <1>5
  <2>1. /\ ContextsOfSlots' = With(ContextsOfSlots, Place(t, k), o)
        /\ ctxSlot' \in [Threads -> [Slots -> Handle]]
        /\ \A u \in Threads, j \in Slots : ctxSlot'[u][j] = IF u = t /\ j = k THEN o ELSE ctxSlot[u][j]
    BY <1>1, <1>3, <1>5, <2>0, SlotChanges
  <2>2. Owned(Holding(With(A, a, Null), I, With(ContextsOfSlots, Place(t, k), A[a])), contexts)
    BY <1>3, <1>4, <1>5, HandsChange
  <2> QED
    BY <1>5, <2>1, <2>2
<1>6. CASE contexts' = contexts \ {o} /\ UNCHANGED ctxSlot
  <2>1. Owned(Holding(With(A, a, Null), I, ContextsOfSlots), contexts \ {A[a]})
    BY HandsChange
  <2>2. ContextsOfSlots' = ContextsOfSlots
    BY <1>6 DEF ContextsOfSlots
  <2> QED
    BY <1>1, <1>6, <2>1, <2>2
<1> QED
  BY <1>2, <1>5, <1>6

-----------------------------------------------------------------------------
(* What the steps of a call change of the calls and the iterators.             *)

CallBecomes(b, r) ==
  /\ call' \in [Activations -> Calls] /\ call'[b] = r
  /\ \A a \in Activations : a # b => call'[a] = call[a]

IterBecomes(i, r) ==
  /\ iter' \in [Iters -> IterRecord] /\ iter'[i] = r
  /\ \A j \in Iters : j # i => iter'[j] = iter[j]

LEMMA HeldValues ==
  /\ DOMAIN DatasOfCalls = Activations /\ DOMAIN StacksOfCalls = Activations
  /\ DOMAIN ContextsOfCalls = Activations
  /\ DOMAIN DatasOfIters = Iters /\ DOMAIN StacksOfIters = Iters /\ DOMAIN ContextsOfIters = Iters
  /\ \A a \in Activations : /\ DatasOfCalls[a] = call[a].data /\ StacksOfCalls[a] = call[a].stack
                            /\ ContextsOfCalls[a] = call[a].ctx
  /\ \A i \in Iters : /\ DatasOfIters[i] = iter[i].data /\ StacksOfIters[i] = iter[i].stack
                      /\ ContextsOfIters[i] = iter[i].ctx
BY DEF DatasOfCalls, StacksOfCalls, ContextsOfCalls, DatasOfIters, StacksOfIters, ContextsOfIters

LEMMA CallHolds ==
  ASSUME NEW b \in Activations, NEW r, CallBecomes(b, r)
  PROVE  /\ DatasOfCalls' = With(DatasOfCalls, b, r.data)
         /\ StacksOfCalls' = With(StacksOfCalls, b, r.stack)
         /\ ContextsOfCalls' = With(ContextsOfCalls, b, r.ctx)
         /\ r.data = call[b].data => DatasOfCalls' = DatasOfCalls
         /\ r.stack = call[b].stack => StacksOfCalls' = StacksOfCalls
         /\ r.ctx = call[b].ctx => ContextsOfCalls' = ContextsOfCalls
BY DEF CallBecomes, DatasOfCalls, StacksOfCalls, ContextsOfCalls, With

LEMMA IterHolds ==
  ASSUME NEW i \in Iters, NEW r, IterBecomes(i, r)
  PROVE  /\ DatasOfIters' = With(DatasOfIters, i, r.data)
         /\ StacksOfIters' = With(StacksOfIters, i, r.stack)
         /\ ContextsOfIters' = With(ContextsOfIters, i, r.ctx)
         /\ r.data = iter[i].data => DatasOfIters' = DatasOfIters
         /\ r.stack = iter[i].stack => StacksOfIters' = StacksOfIters
         /\ r.ctx = iter[i].ctx => ContextsOfIters' = ContextsOfIters
BY DEF IterBecomes, DatasOfIters, StacksOfIters, ContextsOfIters, With

LEMMA CallsAsTheyWere ==
  UNCHANGED call => /\ DatasOfCalls' = DatasOfCalls /\ StacksOfCalls' = StacksOfCalls
                    /\ ContextsOfCalls' = ContextsOfCalls
BY DEF DatasOfCalls, StacksOfCalls, ContextsOfCalls

LEMMA ItersAsTheyWere ==
  UNCHANGED iter => /\ DatasOfIters' = DatasOfIters /\ StacksOfIters' = StacksOfIters
                    /\ ContextsOfIters' = ContextsOfIters
BY DEF DatasOfIters, StacksOfIters, ContextsOfIters

LEMMA SlotsAsTheyWere == UNCHANGED ctxSlot => ContextsOfSlots' = ContextsOfSlots
BY DEF ContextsOfSlots

\* The innermost call of a thread, and the place of the next.
LEMMA Places ==
  ASSUME TypeOK, NEW t \in Threads
  PROVE  /\ depth[t] \in 0..Depth
         /\ depth[t] > 0 => Inner(t) \in Activations /\ call[Inner(t)] \in Calls
         /\ depth[t] < Depth => <<t, depth[t] + 1>> \in Activations
<1>1. depth[t] \in 0..Depth /\ Depth \in Nat \ {0} /\ call \in [Activations -> Calls]
  BY ResourceAssumption DEF TypeOK
<1>2. \A n \in 0..Depth : (n > 0 => n \in 1..Depth) /\ (n < Depth => n + 1 \in 1..Depth)
  BY <1>1
<1> QED
  BY <1>1, <1>2 DEF Inner, Activations

LEMMA UpdateMeans ==
  ASSUME TypeOK, NEW t \in Threads, depth[t] > 0, NEW r \in Calls, Update(t, r)
  PROVE  CallBecomes(Inner(t), r) /\ UNCHANGED depth
<1>1. Inner(t) \in Activations /\ call \in [Activations -> Calls]
  BY Places DEF TypeOK
<1> QED
  BY <1>1 DEF Update, CallBecomes

LEMMA EnterMeans ==
  ASSUME TypeOK, NEW t \in Threads, depth[t] < Depth, NEW r \in Calls, Enter(t, r)
  PROVE  /\ CallBecomes(<<t, depth[t] + 1>>, r)
         /\ depth' \in [Threads -> 0..Depth]
         /\ \A a \in Activations : a[2] > depth'[a[1]] => a[2] > depth[a[1]] /\ a # <<t, depth[t] + 1>>
<1>1. <<t, depth[t] + 1>> \in Activations /\ call \in [Activations -> Calls] /\ depth \in [Threads -> 0..Depth]
  BY Places DEF TypeOK
<1>2. Depth \in Nat
  BY ResourceAssumption
<1>3. depth' \in [Threads -> 0..Depth]
  BY <1>1, <1>2 DEF Enter
<1>4. \A u \in Threads : depth'[u] = IF u = t THEN depth[t] + 1 ELSE depth[u]
  BY <1>1 DEF Enter
<1>5. \A a \in Activations : a[1] \in Threads /\ a[2] \in 1..Depth /\ a = <<a[1], a[2]>>
  BY DEF Activations
<1>6. ASSUME NEW a \in Activations, a[2] > depth'[a[1]]
      PROVE  a[2] > depth[a[1]] /\ a # <<t, depth[t] + 1>>
  <2>1. a[1] \in Threads /\ a[2] \in Nat /\ depth[a[1]] \in Nat /\ depth[t] \in Nat
    BY <1>1, <1>2, <1>5
  <2>2. depth'[a[1]] = IF a[1] = t THEN depth[t] + 1 ELSE depth[a[1]]
    BY <1>4, <2>1
  <2>3. a = <<t, depth[t] + 1>> => a[1] = t /\ a[2] = depth[t] + 1
    OBVIOUS
  <2> QED
    BY <1>6, <2>1, <2>2, <2>3
<1>7. CallBecomes(<<t, depth[t] + 1>>, r)
  BY <1>1 DEF Enter, CallBecomes
<1> QED
  BY <1>3, <1>6, <1>7

LEMMA LeaveMeans ==
  ASSUME TypeOK, NEW t \in Threads, depth[t] > 0, Leave(t)
  PROVE  /\ CallBecomes(Inner(t), NoCall) /\ NoCall \in Calls
         /\ depth' \in [Threads -> 0..Depth]
         /\ \A a \in Activations : a # Inner(t) /\ a[2] > depth'[a[1]] => a[2] > depth[a[1]]
<1>1. Inner(t) \in Activations /\ call \in [Activations -> Calls] /\ depth \in [Threads -> 0..Depth]
  BY Places DEF TypeOK
<1>2. Depth \in Nat /\ MaxPairs \in Nat \ {0}
  BY ResourceAssumption
<1>3. depth' \in [Threads -> 0..Depth]
  BY <1>1, <1>2 DEF Leave
<1>4. \A u \in Threads : depth'[u] = IF u = t THEN depth[t] - 1 ELSE depth[u]
  BY <1>1 DEF Leave
<1>5. \A a \in Activations : a[1] \in Threads /\ a[2] \in 1..Depth /\ a = <<a[1], a[2]>>
  BY DEF Activations
<1>6. ASSUME NEW a \in Activations, a # Inner(t), a[2] > depth'[a[1]]
      PROVE  a[2] > depth[a[1]]
  <2>1. a[1] \in Threads /\ a[2] \in Nat /\ depth[a[1]] \in Nat /\ depth[t] \in Nat
    BY <1>1, <1>2, <1>5
  <2>2. depth'[a[1]] = IF a[1] = t THEN depth[t] - 1 ELSE depth[a[1]]
    BY <1>4, <2>1
  <2>3. a[1] = t => a[2] # depth[t]
    BY <1>5, <1>6 DEF Inner
  <2> QED
    BY <1>6, <2>1, <2>2, <2>3
<1>7. NoCall \in Calls
  BY <1>2 DEF NoCall, Calls, AllKinds, Phases, Patterns, Handle
<1>8. CallBecomes(Inner(t), NoCall)
  BY <1>1, <1>7 DEF Leave, CallBecomes
<1> QED
  BY <1>3, <1>6, <1>7, <1>8

\* A call that does not step, and that nothing is taken from, stays as it is; so
\* does a finditer object.  The JIT flag of a pattern is only ever turned off.
JitOnlyOff == \A p \in Patterns : jitOn'[p] => jitOn[p]

LEMMA CallUntouched ==
  ASSUME TypeOK, NEW a \in Activations, CallInv(a), call'[a] = call[a],
         a[2] > depth'[a[1]] => a[2] > depth[a[1]], JitOnlyOff,
         call[a].ctx # Null => /\ assigned'[call[a].ctx] = assigned[call[a].ctx]
                               /\ call[a].ctx \in dirty' => call[a].ctx \in dirty,
         call[a].data # Null => pairs'[call[a].data] = pairs[call[a].data]
  PROVE  CallInv(a)'
<1>1. call[a] \in Calls
  BY DEF TypeOK
<1>2. call[a].pattern \in Patterns
  BY <1>1 DEF Calls
<1>3. OptionsFit(call[a])'
  BY <1>2 DEF CallInv, OptionsFit, JitOnlyOff
<1>4. TakenInOrder(call[a])'
  BY DEF CallInv, TakenInOrder, NeedsContext
<1>5. ContextOfCall(call[a])' /\ Serves(call[a].pattern, call[a].data)'
  BY DEF CallInv, ContextOfCall, Serves
<1> QED
  BY <1>3, <1>4, <1>5 DEF CallInv

LEMMA IterUntouched ==
  ASSUME TypeOK, NEW i \in Iters, IterInv(i), iter'[i] = iter[i], JitOnlyOff,
         iter[i].ctx # Null => assigned'[iter[i].ctx] = assigned[iter[i].ctx],
         iter[i].data # Null => pairs'[iter[i].data] = pairs[iter[i].data]
  PROVE  IterInv(i)'
<1>1. iter[i].pattern \in Patterns
  BY DEF TypeOK, IterRecord
<1> QED
  BY <1>1 DEF IterInv, Serves, JitOnlyOff

\* What steps of other actors leave: used where an action does not touch a kind.
LEMMA DatasLeft ==
  ASSUME DatasOwned, DatasOfCalls' = DatasOfCalls, DatasOfIters' = DatasOfIters,
         UNCHANGED <<matchSlot, pairs>>
  PROVE  DatasOwned'
BY DEF DatasOwned, Allocated

LEMMA StacksLeft ==
  ASSUME StacksOwned, StacksOfCalls' = StacksOfCalls, StacksOfIters' = StacksOfIters,
         UNCHANGED <<jitSlot, stacks>>
  PROVE  StacksOwned'
BY DEF StacksOwned

LEMMA ContextsLeft ==
  ASSUME ContextsOwned, ContextsOfCalls' = ContextsOfCalls, ContextsOfIters' = ContextsOfIters,
         UNCHANGED <<ctxSlot, contexts>>
  PROVE  ContextsOwned'
BY SlotsAsTheyWere DEF ContextsOwned

\* Nobody else holds what a call, a finditer object or a slot holds.
LEMMA CallAlone ==
  ASSUME IInv, NEW b \in Activations
  PROVE  /\ call[b].ctx # Null =>
              /\ call[b].ctx \in contexts
              /\ \A a \in Activations : a # b => call[a].ctx # call[b].ctx
              /\ \A i \in Iters : iter[i].ctx # call[b].ctx
              /\ \A u \in Threads, k \in Slots : ctxSlot[u][k] # call[b].ctx
         /\ call[b].data # Null =>
              /\ call[b].data \in Allocated(pairs)
              /\ \A a \in Activations : a # b => call[a].data # call[b].data
              /\ \A i \in Iters : iter[i].data # call[b].data
              /\ \A h \in Homes : matchSlot[h] # call[b].data
<1>1. ContextsOfCalls[b] # Null =>
        /\ ContextsOfCalls[b] \in contexts
        /\ \A a \in Activations : a # b => ContextsOfCalls[a] # ContextsOfCalls[b]
        /\ \A i \in Iters : ContextsOfIters[i] # ContextsOfCalls[b]
        /\ \A p \in DOMAIN ContextsOfSlots : ContextsOfSlots[p] # ContextsOfCalls[b]
  BY HeldValues, CallApart DEF IInv, ContextsOwned
<1>2. DatasOfCalls[b] # Null =>
        /\ DatasOfCalls[b] \in Allocated(pairs)
        /\ \A a \in Activations : a # b => DatasOfCalls[a] # DatasOfCalls[b]
        /\ \A i \in Iters : DatasOfIters[i] # DatasOfCalls[b]
        /\ \A h \in DOMAIN matchSlot : matchSlot[h] # DatasOfCalls[b]
  BY HeldValues, CallApart DEF IInv, DatasOwned
<1>3. DOMAIN matchSlot = Homes
  BY DEF IInv, TypeOK
<1>4. ASSUME call[b].ctx # Null
      PROVE  /\ call[b].ctx \in contexts
             /\ \A a \in Activations : a # b => call[a].ctx # call[b].ctx
             /\ \A i \in Iters : iter[i].ctx # call[b].ctx
             /\ \A u \in Threads, k \in Slots : ctxSlot[u][k] # call[b].ctx
  BY <1>1, <1>4, HeldValues, SlotValues
<1>5. ASSUME call[b].data # Null
      PROVE  /\ call[b].data \in Allocated(pairs)
             /\ \A a \in Activations : a # b => call[a].data # call[b].data
             /\ \A i \in Iters : iter[i].data # call[b].data
             /\ \A h \in Homes : matchSlot[h] # call[b].data
  BY <1>2, <1>3, <1>5, HeldValues
<1> QED
  BY <1>4, <1>5

LEMMA IterAlone ==
  ASSUME IInv, NEW i \in Iters
  PROVE  /\ iter[i].ctx # Null =>
              /\ iter[i].ctx \in contexts
              /\ \A a \in Activations : call[a].ctx # iter[i].ctx
              /\ \A j \in Iters : j # i => iter[j].ctx # iter[i].ctx
              /\ \A u \in Threads, k \in Slots : ctxSlot[u][k] # iter[i].ctx
         /\ iter[i].data # Null =>
              /\ iter[i].data \in Allocated(pairs)
              /\ \A a \in Activations : call[a].data # iter[i].data
              /\ \A j \in Iters : j # i => iter[j].data # iter[i].data
              /\ \A h \in Homes : matchSlot[h] # iter[i].data
<1>1. ContextsOfIters[i] # Null =>
        /\ ContextsOfIters[i] \in contexts
        /\ \A a \in Activations : ContextsOfCalls[a] # ContextsOfIters[i]
        /\ \A j \in Iters : j # i => ContextsOfIters[j] # ContextsOfIters[i]
        /\ \A p \in DOMAIN ContextsOfSlots : ContextsOfSlots[p] # ContextsOfIters[i]
  BY HeldValues, IterApart DEF IInv, ContextsOwned
<1>2. DatasOfIters[i] # Null =>
        /\ DatasOfIters[i] \in Allocated(pairs)
        /\ \A a \in Activations : DatasOfCalls[a] # DatasOfIters[i]
        /\ \A j \in Iters : j # i => DatasOfIters[j] # DatasOfIters[i]
        /\ \A h \in DOMAIN matchSlot : matchSlot[h] # DatasOfIters[i]
  BY HeldValues, IterApart DEF IInv, DatasOwned
<1>3. DOMAIN matchSlot = Homes
  BY DEF IInv, TypeOK
<1>4. ASSUME iter[i].ctx # Null
      PROVE  /\ iter[i].ctx \in contexts
             /\ \A a \in Activations : call[a].ctx # iter[i].ctx
             /\ \A j \in Iters : j # i => iter[j].ctx # iter[i].ctx
             /\ \A u \in Threads, k \in Slots : ctxSlot[u][k] # iter[i].ctx
  BY <1>1, <1>4, HeldValues, SlotValues
<1>5. ASSUME iter[i].data # Null
      PROVE  /\ iter[i].data \in Allocated(pairs)
             /\ \A a \in Activations : call[a].data # iter[i].data
             /\ \A j \in Iters : j # i => iter[j].data # iter[i].data
             /\ \A h \in Homes : matchSlot[h] # iter[i].data
  BY <1>2, <1>3, <1>5, HeldValues
<1> QED
  BY <1>4, <1>5

\* A step that changes at most one context o and one match data d leaves everybody
\* else, but the call b and the finditer object x, as they are.
LeavesOthers(b, x, o, d) ==
  /\ JitOnlyOff
  /\ \A a \in Activations : a # b =>
       /\ call'[a] = call[a]
       /\ a[2] > depth'[a[1]] => a[2] > depth[a[1]]
       /\ call[a].ctx # Null => call[a].ctx # o
       /\ call[a].data # Null => call[a].data # d
  /\ \A i \in Iters : i # x =>
       /\ iter'[i] = iter[i]
       /\ iter[i].ctx # Null => iter[i].ctx # o
       /\ iter[i].data # Null => iter[i].data # d
  /\ \A y \in Objects : y # o => assigned'[y] = assigned[y] /\ (y \in dirty' => y \in dirty)
  /\ \A y \in Allocated(pairs) : y # d => pairs'[y] = pairs[y]

LEMMA OthersKept ==
  ASSUME IInv, NEW b, NEW x, NEW o, NEW d, LeavesOthers(b, x, o, d)
  PROVE  /\ \A a \in Activations : a # b => CallInv(a)'
         /\ \A i \in Iters : i # x => IterInv(i)'
<1>1. TypeOK /\ Handle = Objects \cup {Null}
  BY DEF IInv, Handle
<1>2. ASSUME NEW a \in Activations, a # b
      PROVE  CallInv(a)'
  <2>1. CallInv(a) /\ call[a].ctx \in Handle
    BY <1>1 DEF IInv, TypeOK, Calls
  <2>2. call[a].data # Null => call[a].data \in Allocated(pairs)
    BY CallAlone
  <2> QED
    BY <1>1, <1>2, <2>1, <2>2, CallUntouched DEF LeavesOthers
<1>3. ASSUME NEW i \in Iters, i # x
      PROVE  IterInv(i)'
  <2>1. IterInv(i) /\ iter[i].ctx \in Handle
    BY <1>1 DEF IInv, TypeOK, IterRecord
  <2>2. iter[i].data # Null => iter[i].data \in Allocated(pairs)
    BY IterAlone
  <2> QED
    BY <1>1, <1>3, <2>1, <2>2, IterUntouched DEF LeavesOthers
<1> QED
  BY <1>2, <1>3

LEMMA UnassignMeans ==
  ASSUME TypeOK, NEW o \in Handle
  PROVE  /\ Unassign(o) \in [Objects -> Handle]
         /\ \A y \in Objects : Unassign(o)[y] = IF y = o THEN Null ELSE assigned[y]
<1>1. assigned \in [Objects -> Handle] /\ Handle = Objects \cup {Null} /\ Null \notin Objects
  BY DEF TypeOK, Handle, Objects, Null
<1> QED
  BY <1>1 DEF Unassign

LEMMA InnerIsNotBeyond ==
  ASSUME TypeOK, NEW t \in Threads
  PROVE  ~(Inner(t)[2] > depth[Inner(t)[1]])
<1>1. depth[t] \in Nat
  BY ResourceAssumption DEF TypeOK
<1> QED
  BY <1>1 DEF Inner

\* Taking an object makes it nobody else's.
LEMMA TakenAlone ==
  ASSUME NEW A, NEW I, NEW S, NEW live, NEW a \in DOMAIN A, NEW o, o # Null,
         Owned(Holding(With(A, a, o), I, S), live)
  PROVE  /\ o \in live
         /\ \A b \in DOMAIN A : b # a => A[b] # o
         /\ \A i \in DOMAIN I : I[i] # o
         /\ \A s \in DOMAIN S : S[s] # o
<1>1. DOMAIN With(A, a, o) = DOMAIN A /\ With(A, a, o)[a] = o
      /\ \A b \in DOMAIN A : b # a => With(A, a, o)[b] = A[b]
  BY DEF With
<1> QED
  BY <1>1, CallApart

-----------------------------------------------------------------------------
(* The steps of a call between its beginning and its end.                      *)

LEMMA InnerCall ==
  ASSUME IInv, NEW t \in Threads, depth[t] > 0
  PROVE  /\ TypeOK /\ Inner(t) \in Activations /\ call[Inner(t)] \in Calls
         /\ OptionsFit(call[Inner(t)]) /\ TakenInOrder(call[Inner(t)]) /\ ContextOfCall(call[Inner(t)])
         /\ Serves(call[Inner(t)].pattern, call[Inner(t)].data)
         /\ call[Inner(t)].ctx \in Handle /\ call[Inner(t)].stack \in Handle /\ call[Inner(t)].data \in Handle
<1>1. TypeOK /\ Inner(t) \in Activations /\ call[Inner(t)] \in Calls
  BY Places DEF IInv
<1>2. CallInv(Inner(t))
  BY <1>1 DEF IInv
<1> QED
  BY <1>1, <1>2 DEF CallInv, Calls

\* The innermost call b of t becomes r; at most the context o is changed.
CallStep(t, b, r, o) ==
  /\ b = Inner(t) /\ depth[t] > 0
  /\ r \in Calls /\ Update(t, r) /\ r.data = call[b].data /\ r.pattern = call[b].pattern
  /\ UNCHANGED <<config, pairs, matchSlot, matchCap, jitCap, iter>>
  /\ stacks' \subseteq Objects /\ contexts' \subseteq Objects
  /\ assigned' \in [Objects -> Handle] /\ dirty' \subseteq Objects
  /\ jitOn' \in [Patterns -> BOOLEAN] /\ state' \subseteq Threads
  /\ jitSlot' \in [Homes -> Handle] /\ ctxSlot' \in [Threads -> [Slots -> Handle]]
  /\ StacksOwned' /\ ContextsOwned' /\ JitOnlyOff
  /\ \A a \in Activations : a # b /\ call[a].ctx # Null => call[a].ctx # o
  /\ \A i \in Iters : iter[i].ctx # Null => iter[i].ctx # o
  /\ \A y \in Objects : y # o => assigned'[y] = assigned[y] /\ (y \in dirty' => y \in dirty)
  /\ SlotContextsAreClean' /\ (\A y \in Objects \ contexts : Clean(y))'
  /\ \A h \in Homes : jitCap[h] = 0 => jitSlot'[h] \in {jitSlot[h], Null}

LEMMA CallStepKeeps ==
  ASSUME IInv, NEW t \in Threads, NEW b, NEW r, NEW o, CallStep(t, b, r, o),
         OptionsFit(r)', TakenInOrder(r)', ContextOfCall(r)'
  PROVE  IInv'
<1>1. /\ b = Inner(t) /\ depth[t] > 0 /\ r \in Calls /\ Update(t, r)
      /\ r.data = call[b].data /\ r.pattern = call[b].pattern
      /\ UNCHANGED <<config, pairs, matchSlot, matchCap, jitCap, iter>>
  BY DEF CallStep
<1>2. TypeOK /\ b \in Activations /\ call[b] \in Calls /\ Serves(call[b].pattern, call[b].data)
  BY <1>1, InnerCall
<1>3. CallBecomes(b, r) /\ UNCHANGED depth
  BY <1>1, <1>2, UpdateMeans
<1>4. DatasOwned'
  BY <1>1, <1>2, <1>3, CallHolds, ItersAsTheyWere, DatasLeft DEF IInv
<1>5. TypeOK'
  BY <1>1, <1>2, <1>3 DEF TypeOK, CallBecomes, Configs, CallStep
<1>6. CallInv(b)'
  <2>1. Serves(r.pattern, r.data)'
    BY <1>1, <1>2 DEF Serves
  <2>2. ~(b[2] > depth'[b[1]])
    BY <1>1, <1>2, <1>3, InnerIsNotBeyond
  <2> QED
    BY <1>3, <2>1, <2>2 DEF CallInv, CallBecomes
<1>7. PICK x : x \notin Iters
  BY NoSetContainsEverything
<1>8. LeavesOthers(b, x, o, Null)
  BY <1>1, <1>3, <1>7 DEF LeavesOthers, CallStep, CallBecomes
<1>9. /\ \A a \in Activations : CallInv(a)'
      /\ \A i \in Iters : IterInv(i)'
  BY <1>6, <1>7, <1>8, OthersKept
<1>10. DisabledCachesAreEmpty'
  BY <1>1 DEF CallStep, IInv, DisabledCachesAreEmpty
<1> QED
  BY <1>3, <1>4, <1>5, <1>9, <1>10 DEF IInv, CallStep

LEMMA StackOutKeeps ==
  ASSUME IInv, NEW t \in Threads, StackOut(t)
  PROVE  IInv'
<1>01. PICK b : b = Inner(t)
  OBVIOUS
<1>02. PICK c : c = call[b]
  OBVIOUS
<1>03. PICK r : r = [c EXCEPT !.pc = "context out", !.stack = Null]
  OBVIOUS
<1>1. /\ c.pc = "stack out" \/ (c.pc = "run" /\ c.kind # "execute")
      /\ dirty' = CalloutCleared(c) /\ assigned' = Unassign(c.ctx) /\ ReleaseStack(t, c.stack)
      /\ Update(t, r) /\ depth[t] > 0
      /\ UNCHANGED <<config, pairs, contexts, state, matchSlot, matchCap, jitCap, ctxSlot, jitOn, iter>>
  BY <1>01, <1>02, <1>03 DEF StackOut, At
<1>2. /\ TypeOK /\ b \in Activations /\ c \in Calls
      /\ OptionsFit(c) /\ TakenInOrder(c) /\ ContextOfCall(c)
      /\ c.ctx \in Handle /\ c.stack \in Handle
  BY <1>01, <1>02, <1>1, InnerCall
<1>3. /\ r \in Calls /\ r.pc = "context out" /\ r.stack = Null /\ r.data = c.data /\ r.ctx = c.ctx
      /\ r.kind = c.kind /\ r.limit = c.limit /\ r.callout = c.callout /\ r.pattern = c.pattern
      /\ r.jit = c.jit
  BY <1>03, <1>2 DEF Calls, Phases, Handle
<1>4. CallBecomes(b, r)
  BY <1>01, <1>1, <1>2, <1>3, UpdateMeans
<1>5. StacksOfCalls' = With(StacksOfCalls, b, Null) /\ ContextsOfCalls' = ContextsOfCalls
  BY <1>02, <1>2, <1>3, <1>4, CallHolds
<1>6. /\ StacksOfIters' = StacksOfIters /\ ContextsOfIters' = ContextsOfIters
      /\ ContextsOfSlots' = ContextsOfSlots
  BY <1>1, ItersAsTheyWere, SlotsAsTheyWere
<1>7. /\ Owned(Holding(With(StacksOfCalls, b, Null), StacksOfIters, jitSlot'), stacks')
      /\ stacks' \subseteq Objects /\ jitSlot' \in [Homes -> Handle]
      /\ \A h \in Homes : jitCap[h] = 0 => jitSlot'[h] = jitSlot[h]
  BY <1>02, <1>1, <1>2, HeldValues, StackReleased DEF IInv, StacksOwned
<1>8. StacksOwned' /\ ContextsOwned'
  BY <1>1, <1>5, <1>6, <1>7 DEF IInv, StacksOwned, ContextsOwned
<1>9. /\ assigned' \in [Objects -> Handle] /\ dirty' \subseteq dirty
      /\ \A y \in Objects : assigned'[y] = IF y = c.ctx THEN Null ELSE assigned[y]
      /\ c.callout => c.ctx \notin dirty'
  BY <1>1, <1>2, UnassignMeans DEF TypeOK, CalloutCleared
<1>10. \A y \in Objects : Clean(y) => Clean(y)'
  BY <1>9 DEF Clean
<1>11. (\A y \in Objects \ contexts : Clean(y))' /\ SlotContextsAreClean'
  BY ZenonT(30), <1>1, <1>2, <1>10 DEF IInv, SlotContextsAreClean, Clean, TypeOK, Handle
<1>12. CallStep(t, b, r, c.ctx)
  <2>1. /\ \A a \in Activations : a # b /\ call[a].ctx # Null => call[a].ctx # c.ctx
        /\ \A i \in Iters : iter[i].ctx # Null => iter[i].ctx # c.ctx
    BY <1>02, <1>2, CallAlone
  <2>2. jitOn' \in [Patterns -> BOOLEAN] /\ state' \subseteq Threads /\ JitOnlyOff
        /\ contexts' \subseteq Objects /\ dirty' \subseteq Objects
        /\ ctxSlot' \in [Threads -> [Slots -> Handle]]
    BY <1>1, <1>2, <1>9 DEF TypeOK, JitOnlyOff
  <2> QED
    BY <1>01, <1>02, <1>1, <1>3, <1>7, <1>8, <1>9, <1>11, <2>1, <2>2 DEF CallStep
<1>13. OptionsFit(r)' /\ TakenInOrder(r)'
  BY <1>1, <1>2, <1>3 DEF OptionsFit, TakenInOrder
<1>14. ContextOfCall(r)'
  BY <1>1, <1>2, <1>3, <1>9 DEF OptionsFit, ContextOfCall, Handle
<1> QED
  BY <1>12, <1>13, <1>14, CallStepKeeps

LEMMA ExecuteRunKeeps ==
  ASSUME IInv, NEW t \in Threads, ExecuteRun(t)
  PROVE  IInv'
<1>01. PICK b : b = Inner(t)
  OBVIOUS
<1>02. PICK c : c = call[b]
  OBVIOUS
<1>03. PICK r : r = [c EXCEPT !.pc = "result", !.stack = Null]
  OBVIOUS
<1>1. /\ c.pc = "run" /\ c.kind = "execute"
      /\ assigned' = Unassign(c.ctx) /\ ReleaseStack(t, c.stack)
      /\ UNCHANGED jitOn \/ jitOn' = [jitOn EXCEPT ![c.pattern] = FALSE]
      /\ Update(t, r) /\ depth[t] > 0
      /\ UNCHANGED <<config, pairs, contexts, dirty, state, matchSlot, matchCap, jitCap, ctxSlot, iter>>
  BY <1>01, <1>02, <1>03 DEF ExecuteRun, At
<1>2. /\ TypeOK /\ b \in Activations /\ c \in Calls
      /\ OptionsFit(c) /\ TakenInOrder(c) /\ ContextOfCall(c)
      /\ c.ctx \in Handle /\ c.stack \in Handle
  BY <1>01, <1>02, <1>1, InnerCall
<1>3. /\ r \in Calls /\ r.stack = Null /\ r.data = c.data /\ r.ctx = c.ctx
      /\ r.kind = c.kind /\ r.limit = c.limit /\ r.callout = c.callout /\ r.pattern = c.pattern
      /\ r.pc = "result" /\ r.jit = c.jit
  BY <1>03, <1>2 DEF Calls, Phases, Handle
<1>4. CallBecomes(b, r)
  BY <1>01, <1>1, <1>2, <1>3, UpdateMeans
<1>5. StacksOfCalls' = With(StacksOfCalls, b, Null) /\ ContextsOfCalls' = ContextsOfCalls
  BY <1>02, <1>2, <1>3, <1>4, CallHolds
<1>6. /\ StacksOfIters' = StacksOfIters /\ ContextsOfIters' = ContextsOfIters
      /\ ContextsOfSlots' = ContextsOfSlots
  BY <1>1, ItersAsTheyWere, SlotsAsTheyWere
<1>7. /\ Owned(Holding(With(StacksOfCalls, b, Null), StacksOfIters, jitSlot'), stacks')
      /\ stacks' \subseteq Objects /\ jitSlot' \in [Homes -> Handle]
      /\ \A h \in Homes : jitCap[h] = 0 => jitSlot'[h] = jitSlot[h]
  BY <1>02, <1>1, <1>2, HeldValues, StackReleased DEF IInv, StacksOwned
<1>8. StacksOwned' /\ ContextsOwned'
  BY <1>1, <1>5, <1>6, <1>7 DEF IInv, StacksOwned, ContextsOwned
<1>9. /\ assigned' \in [Objects -> Handle]
      /\ \A y \in Objects : assigned'[y] = IF y = c.ctx THEN Null ELSE assigned[y]
  BY <1>1, <1>2, UnassignMeans
<1>10. \A y \in Objects : Clean(y) => Clean(y)'
  BY <1>1, <1>9 DEF Clean
<1>11. (\A y \in Objects \ contexts : Clean(y))' /\ SlotContextsAreClean'
  BY <1>1, <1>2, <1>10 DEF IInv, SlotContextsAreClean, Clean, TypeOK, Handle
<1>12. CallStep(t, b, r, c.ctx)
  <2>1. /\ \A a \in Activations : a # b /\ call[a].ctx # Null => call[a].ctx # c.ctx
        /\ \A i \in Iters : iter[i].ctx # Null => iter[i].ctx # c.ctx
    BY <1>02, <1>2, CallAlone
  <2>2. jitOn' \in [Patterns -> BOOLEAN] /\ JitOnlyOff
    BY <1>1, <1>2 DEF TypeOK, JitOnlyOff
  <2>3. state' \subseteq Threads /\ contexts' \subseteq Objects /\ dirty' \subseteq Objects
        /\ ctxSlot' \in [Threads -> [Slots -> Handle]]
    BY <1>1, <1>2 DEF TypeOK
  <2> QED
    BY <1>01, <1>02, <1>1, <1>3, <1>7, <1>8, <1>9, <1>11, <2>1, <2>2, <2>3 DEF CallStep
<1>13. OptionsFit(r)' /\ TakenInOrder(r)'
  BY <1>1, <1>2, <1>3 DEF OptionsFit, TakenInOrder, NeedsContext
<1>14. ContextOfCall(r)'
  BY <1>1, <1>2, <1>3, <1>9 DEF OptionsFit, ContextOfCall, Handle
<1> QED
  BY <1>12, <1>13, <1>14, CallStepKeeps

LEMMA ScanBadOptionKeeps ==
  ASSUME IInv, NEW t \in Threads, ScanBadOption(t)
  PROVE  IInv'
<1>01. PICK b : b = Inner(t)
  OBVIOUS
<1>02. PICK c : c = call[b]
  OBVIOUS
<1>03. PICK r : r = [c EXCEPT !.jit = FALSE, !.stack = Null]
  OBVIOUS
<1>1. /\ c.pc = "run" /\ c.kind = "scan" /\ c.jit
      /\ assigned' = Unassign(c.ctx) /\ ReleaseStack(t, c.stack)
      /\ jitOn' = [jitOn EXCEPT ![c.pattern] = FALSE]
      /\ Update(t, r) /\ depth[t] > 0
      /\ UNCHANGED <<config, pairs, contexts, dirty, state, matchSlot, matchCap, jitCap, ctxSlot, iter>>
  BY <1>01, <1>02, <1>03 DEF ScanBadOption, At
<1>2. /\ TypeOK /\ b \in Activations /\ c \in Calls
      /\ OptionsFit(c) /\ TakenInOrder(c) /\ ContextOfCall(c)
      /\ c.ctx \in Handle /\ c.stack \in Handle
  BY <1>01, <1>02, <1>1, InnerCall
<1>3. /\ r \in Calls /\ r.stack = Null /\ r.data = c.data /\ r.ctx = c.ctx
      /\ r.kind = c.kind /\ r.limit = c.limit /\ r.callout = c.callout /\ r.pattern = c.pattern
      /\ r.pc = c.pc /\ r.jit = FALSE
  BY <1>03, <1>2 DEF Calls, Phases, Handle
<1>4. CallBecomes(b, r)
  BY <1>01, <1>1, <1>2, <1>3, UpdateMeans
<1>5. StacksOfCalls' = With(StacksOfCalls, b, Null) /\ ContextsOfCalls' = ContextsOfCalls
  BY <1>02, <1>2, <1>3, <1>4, CallHolds
<1>6. /\ StacksOfIters' = StacksOfIters /\ ContextsOfIters' = ContextsOfIters
      /\ ContextsOfSlots' = ContextsOfSlots
  BY <1>1, ItersAsTheyWere, SlotsAsTheyWere
<1>7. /\ Owned(Holding(With(StacksOfCalls, b, Null), StacksOfIters, jitSlot'), stacks')
      /\ stacks' \subseteq Objects /\ jitSlot' \in [Homes -> Handle]
      /\ \A h \in Homes : jitCap[h] = 0 => jitSlot'[h] = jitSlot[h]
  BY <1>02, <1>1, <1>2, HeldValues, StackReleased DEF IInv, StacksOwned
<1>8. StacksOwned' /\ ContextsOwned'
  BY <1>1, <1>5, <1>6, <1>7 DEF IInv, StacksOwned, ContextsOwned
<1>9. /\ assigned' \in [Objects -> Handle]
      /\ \A y \in Objects : assigned'[y] = IF y = c.ctx THEN Null ELSE assigned[y]
  BY <1>1, <1>2, UnassignMeans
<1>10. \A y \in Objects : Clean(y) => Clean(y)'
  BY <1>1, <1>9 DEF Clean
<1>11. (\A y \in Objects \ contexts : Clean(y))' /\ SlotContextsAreClean'
  BY <1>1, <1>2, <1>10 DEF IInv, SlotContextsAreClean, Clean, TypeOK, Handle
<1>12. CallStep(t, b, r, c.ctx)
  <2>1. /\ \A a \in Activations : a # b /\ call[a].ctx # Null => call[a].ctx # c.ctx
        /\ \A i \in Iters : iter[i].ctx # Null => iter[i].ctx # c.ctx
    BY <1>02, <1>2, CallAlone
  <2>2. jitOn' \in [Patterns -> BOOLEAN] /\ JitOnlyOff
    BY <1>1, <1>2 DEF TypeOK, JitOnlyOff
  <2>3. state' \subseteq Threads /\ contexts' \subseteq Objects /\ dirty' \subseteq Objects
        /\ ctxSlot' \in [Threads -> [Slots -> Handle]]
    BY <1>1, <1>2 DEF TypeOK
  <2> QED
    BY <1>01, <1>02, <1>1, <1>3, <1>7, <1>8, <1>9, <1>11, <2>1, <2>2, <2>3 DEF CallStep
<1>13. OptionsFit(r)' /\ TakenInOrder(r)'
  BY <1>1, <1>2, <1>3 DEF OptionsFit, TakenInOrder, NeedsContext
<1>14. ContextOfCall(r)'
  BY <1>1, <1>2, <1>3, <1>9 DEF OptionsFit, ContextOfCall, Handle
<1> QED
  BY <1>12, <1>13, <1>14, CallStepKeeps

LEMMA FailKeeps ==
  ASSUME IInv, NEW t \in Threads, Fail(t)
  PROVE  IInv'
<1>01. PICK b : b = Inner(t)
  OBVIOUS
<1>02. PICK c : c = call[b]
  OBVIOUS
<1>03. PICK r : r = [c EXCEPT !.pc = "stack out"]
  OBVIOUS
<1>1. /\ c.pc \in {"context", "stack"}
      /\ Update(t, r) /\ depth[t] > 0
      /\ UNCHANGED <<config, objects, caches, jitOn, iter>>
  BY <1>01, <1>02, <1>03 DEF Fail, At
<1>2. /\ TypeOK /\ b \in Activations /\ c \in Calls
      /\ OptionsFit(c) /\ TakenInOrder(c) /\ ContextOfCall(c)
      /\ c.ctx \in Handle /\ c.stack \in Handle
  BY <1>01, <1>02, <1>1, InnerCall
<1>3. /\ r \in Calls /\ r.pc = "stack out" /\ r.stack = c.stack /\ r.data = c.data /\ r.ctx = c.ctx
      /\ r.kind = c.kind /\ r.limit = c.limit /\ r.callout = c.callout /\ r.pattern = c.pattern
      /\ r.jit = c.jit
  BY <1>03, <1>2 DEF Calls, Phases
<1>4. CallBecomes(b, r)
  BY <1>01, <1>1, <1>2, <1>3, UpdateMeans
<1>5. StacksOfCalls' = StacksOfCalls /\ ContextsOfCalls' = ContextsOfCalls
  BY <1>02, <1>2, <1>3, <1>4, CallHolds
<1>6. StacksOwned' /\ ContextsOwned'
  BY <1>1, <1>5, ItersAsTheyWere, StacksLeft, ContextsLeft DEF IInv, objects, caches
<1>7. (\A y \in Objects \ contexts : Clean(y))' /\ SlotContextsAreClean'
  BY <1>1 DEF IInv, SlotContextsAreClean, Clean, objects, caches
<1>8. CallStep(t, b, r, Null)
  <2>1. /\ stacks' \subseteq Objects /\ contexts' \subseteq Objects
        /\ assigned' \in [Objects -> Handle] /\ dirty' \subseteq Objects
        /\ jitOn' \in [Patterns -> BOOLEAN] /\ state' \subseteq Threads
        /\ jitSlot' \in [Homes -> Handle] /\ ctxSlot' \in [Threads -> [Slots -> Handle]]
        /\ JitOnlyOff
    BY <1>1, <1>2 DEF TypeOK, JitOnlyOff, objects, caches
  <2> QED
    BY <1>01, <1>02, <1>1, <1>3, <1>6, <1>7, <2>1 DEF CallStep, objects, caches
<1>9. OptionsFit(r)' /\ TakenInOrder(r)' /\ ContextOfCall(r)'
  BY <1>1, <1>2, <1>3 DEF OptionsFit, TakenInOrder, ContextOfCall, objects
<1> QED
  BY <1>8, <1>9, CallStepKeeps

LEMMA TakeStackKeeps ==
  ASSUME IInv, NEW t \in Threads, TakeStack(t)
  PROVE  IInv'
<1>01. PICK b : b = Inner(t)
  OBVIOUS
<1>02. PICK c : c = call[b]
  OBVIOUS
<1>1. /\ c.pc = "stack" /\ depth[t] > 0
      /\ \/ /\ ~WantsStack(c) /\ Update(t, Running(c))
            /\ UNCHANGED <<state, jitSlot, stacks, assigned>>
         \/ /\ WantsStack(c)
            /\ \E o \in Objects :
                 /\ AcquireStack(t, o)
                 /\ assigned' = IF c.ctx = Null THEN assigned ELSE [assigned EXCEPT ![c.ctx] = o]
                 /\ Update(t, [Running(c) EXCEPT !.stack = o])
      /\ UNCHANGED <<config, pairs, contexts, dirty, matchSlot, matchCap, jitCap, ctxSlot, jitOn, iter>>
  BY <1>01, <1>02 DEF TakeStack, At
<1>2. /\ TypeOK /\ b \in Activations /\ c \in Calls
      /\ OptionsFit(c) /\ TakenInOrder(c) /\ ContextOfCall(c)
      /\ c.ctx \in Handle /\ c.stack \in Handle
  BY <1>01, <1>02, <1>1, InnerCall
<1>3. /\ contexts' \subseteq Objects /\ dirty' \subseteq Objects
      /\ jitOn' \in [Patterns -> BOOLEAN] /\ ctxSlot' \in [Threads -> [Slots -> Handle]]
      /\ JitOnlyOff
  BY <1>1, <1>2 DEF TypeOK, JitOnlyOff
<1>4. /\ StacksOfIters' = StacksOfIters /\ ContextsOfIters' = ContextsOfIters
      /\ ContextsOfSlots' = ContextsOfSlots
  BY <1>1, ItersAsTheyWere, SlotsAsTheyWere
<1>5. CASE /\ ~WantsStack(c) /\ Update(t, Running(c))
           /\ UNCHANGED <<state, jitSlot, stacks, assigned>>
  <2>1. PICK r : r = Running(c)
    OBVIOUS
  <2>2. /\ r \in Calls /\ r.stack = c.stack /\ r.data = c.data /\ r.ctx = c.ctx
        /\ r.kind = c.kind /\ r.limit = c.limit /\ r.callout = c.callout /\ r.pattern = c.pattern
        /\ r.jit = c.jit /\ r.pc = IF c.kind = "finditer" THEN "result" ELSE "run"
    BY <1>2, <2>1 DEF Running, Calls, Phases
  <2>3. CallBecomes(b, r)
    BY <1>01, <1>1, <1>2, <1>5, <2>1, <2>2, UpdateMeans
  <2>4. StacksOfCalls' = StacksOfCalls /\ ContextsOfCalls' = ContextsOfCalls
    BY <1>02, <1>2, <2>2, <2>3, CallHolds
  <2>5. StacksOwned' /\ ContextsOwned'
    BY <1>1, <1>4, <1>5, <2>4, StacksLeft, ContextsLeft DEF IInv
  <2>6. (\A y \in Objects \ contexts : Clean(y))' /\ SlotContextsAreClean'
    BY <1>1, <1>5 DEF IInv, SlotContextsAreClean, Clean
  <2>7. CallStep(t, b, r, Null)
    <3>1. /\ stacks' \subseteq Objects /\ state' \subseteq Threads
          /\ assigned' \in [Objects -> Handle] /\ jitSlot' \in [Homes -> Handle]
      BY <1>2, <1>5 DEF TypeOK
    <3> QED
      BY <1>01, <1>02, <1>1, <1>3, <1>5, <2>1, <2>2, <2>5, <2>6, <3>1 DEF CallStep
  <2>8. OptionsFit(r)' /\ TakenInOrder(r)'
    BY <1>1, <1>2, <1>5, <2>2 DEF OptionsFit, TakenInOrder, NeedsContext, WantsStack
  <2>9. ContextOfCall(r)'
    BY <1>1, <1>2, <1>5, <2>2 DEF OptionsFit, ContextOfCall
  <2> QED
    BY <2>7, <2>8, <2>9, CallStepKeeps
<1>6. ASSUME WantsStack(c), NEW o \in Objects, AcquireStack(t, o),
             assigned' = IF c.ctx = Null THEN assigned ELSE [assigned EXCEPT ![c.ctx] = o],
             Update(t, [Running(c) EXCEPT !.stack = o])
      PROVE  IInv'
  <2>1. PICK r : r = [Running(c) EXCEPT !.stack = o]
    OBVIOUS
  <2>0. o \in Handle /\ o # Null /\ Handle = Objects \cup {Null} /\ Null \notin Objects
    BY DEF Handle, Objects, Null
  <2>2. /\ r \in Calls /\ r.stack = o /\ r.data = c.data /\ r.ctx = c.ctx
        /\ r.kind = c.kind /\ r.limit = c.limit /\ r.callout = c.callout /\ r.pattern = c.pattern
        /\ r.jit = c.jit /\ r.pc = IF c.kind = "finditer" THEN "result" ELSE "run"
    BY <1>2, <2>0, <2>1 DEF Running, Calls, Phases
  <2>3. CallBecomes(b, r)
    BY <1>01, <1>1, <1>2, <1>6, <2>1, <2>2, UpdateMeans
  <2>4. StacksOfCalls' = With(StacksOfCalls, b, o) /\ ContextsOfCalls' = ContextsOfCalls
    BY <1>02, <1>2, <2>2, <2>3, CallHolds
  <2>5. c.stack = Null /\ c.ctx # Null
    \* The pattern has JIT on, so what the call has read of it asked for a context.
    BY <1>1, <1>2, <1>6 DEF TakenInOrder, OptionsFit, WantsStack, NeedsContext
  <2>6. /\ Owned(Holding(With(StacksOfCalls, b, o), StacksOfIters, jitSlot'), stacks')
        /\ stacks' \subseteq Objects /\ jitSlot' \in [Homes -> Handle] /\ state' \subseteq Threads
        /\ \A h \in Homes : jitSlot'[h] \in {jitSlot[h], Null}
    <3>1. StacksOfCalls[b] = Null /\ b \in DOMAIN StacksOfCalls
      BY <1>02, <1>2, <2>5, HeldValues
    <3> QED
      BY <1>2, <1>6, <3>1, StackAcquired DEF IInv, StacksOwned
  <2>7. StacksOwned' /\ ContextsOwned'
    BY <1>1, <1>4, <2>4, <2>6 DEF IInv, StacksOwned, ContextsOwned
  <2>8. /\ assigned' \in [Objects -> Handle]
        /\ \A y \in Objects : assigned'[y] = IF y = c.ctx THEN o ELSE assigned[y]
    BY <1>2, <1>6, <2>0, <2>5 DEF TypeOK
  <2>9. /\ c.ctx \in contexts
        /\ \A a \in Activations : a # b /\ call[a].ctx # Null => call[a].ctx # c.ctx
        /\ \A i \in Iters : iter[i].ctx # Null => iter[i].ctx # c.ctx
        /\ \A u \in Threads, k \in Slots : ctxSlot[u][k] # c.ctx
    BY <1>02, <1>2, <2>5, CallAlone
  <2>10. (\A y \in Objects \ contexts : Clean(y))'
    BY <1>1, <2>8, <2>9 DEF IInv, Clean
  <2>11. SlotContextsAreClean'
    <3>1. \A u \in Threads, k \in Slots : ctxSlot[u][k] \in Handle
      BY <1>2 DEF TypeOK
    <3> QED
      BY <1>1, <2>0, <2>8, <2>9, <3>1 DEF IInv, SlotContextsAreClean
  <2>12. CallStep(t, b, r, c.ctx)
    BY <1>01, <1>02, <1>1, <1>3, <1>6, <2>1, <2>2, <2>6, <2>7, <2>8, <2>9, <2>10, <2>11 DEF CallStep
  <2>13. OptionsFit(r)' /\ TakenInOrder(r)'
    BY <1>1, <1>2, <2>0, <2>2, <2>5 DEF OptionsFit, TakenInOrder, NeedsContext
  <2>14. ContextOfCall(r)'
    BY <1>1, <1>2, <2>0, <2>2, <2>5, <2>8 DEF OptionsFit, ContextOfCall
  <2> QED
    BY <2>12, <2>13, <2>14, CallStepKeeps
<1> QED
  BY <1>1, <1>5, <1>6

LEMMA TakeContextKeeps ==
  ASSUME IInv, NEW t \in Threads, TakeContext(t)
  PROVE  IInv'
<1>01. PICK b : b = Inner(t)
  OBVIOUS
<1>02. PICK c : c = call[b]
  OBVIOUS
<1>1. /\ c.pc = "context" /\ depth[t] > 0
      /\ \/ /\ ~NeedsContext(c) /\ Update(t, [c EXCEPT !.pc = "stack"])
            /\ UNCHANGED <<contexts, state, ctxSlot, dirty>>
         \/ /\ NeedsContext(c)
            /\ \E o \in Objects :
                 /\ \/ CreateContext(o) /\ UNCHANGED <<state, ctxSlot>>
                    \/ AcquireContext(t, c.limit, o)
                 /\ dirty' = IF c.limit \/ c.callout THEN dirty \cup {o} ELSE dirty
                 /\ Update(t, [c EXCEPT !.pc = "stack", !.ctx = o])
      /\ UNCHANGED <<config, pairs, stacks, assigned, matchSlot, matchCap, jitSlot, jitCap, jitOn, iter>>
  BY <1>01, <1>02 DEF TakeContext, At
<1>2. /\ TypeOK /\ b \in Activations /\ c \in Calls
      /\ OptionsFit(c) /\ TakenInOrder(c) /\ ContextOfCall(c)
      /\ c.ctx \in Handle /\ c.stack \in Handle /\ c.limit \in BOOLEAN
  BY <1>01, <1>02, <1>1, InnerCall DEF Calls
<1>3. /\ stacks' \subseteq Objects /\ assigned' \in [Objects -> Handle]
      /\ jitOn' \in [Patterns -> BOOLEAN] /\ jitSlot' \in [Homes -> Handle]
      /\ JitOnlyOff
  BY <1>1, <1>2 DEF TypeOK, JitOnlyOff
<1>4. StacksOfIters' = StacksOfIters /\ ContextsOfIters' = ContextsOfIters
  BY <1>1, ItersAsTheyWere
<1>5. c.stack = Null /\ c.ctx = Null
  BY <1>1, <1>2 DEF TakenInOrder
<1>6. CASE /\ ~NeedsContext(c) /\ Update(t, [c EXCEPT !.pc = "stack"])
           /\ UNCHANGED <<contexts, state, ctxSlot, dirty>>
  <2>1. PICK r : r = [c EXCEPT !.pc = "stack"]
    OBVIOUS
  <2>2. /\ r \in Calls /\ r.stack = c.stack /\ r.data = c.data /\ r.ctx = c.ctx
        /\ r.kind = c.kind /\ r.limit = c.limit /\ r.callout = c.callout /\ r.pattern = c.pattern
        /\ r.jit = c.jit /\ r.pc = "stack"
    BY <1>2, <2>1 DEF Calls, Phases
  <2>3. CallBecomes(b, r)
    BY <1>01, <1>1, <1>2, <1>6, <2>1, <2>2, UpdateMeans
  <2>4. StacksOfCalls' = StacksOfCalls /\ ContextsOfCalls' = ContextsOfCalls
    BY <1>02, <1>2, <2>2, <2>3, CallHolds
  <2>5. StacksOwned' /\ ContextsOwned'
    BY <1>1, <1>4, <1>6, <2>4, StacksLeft, ContextsLeft DEF IInv
  <2>6. (\A y \in Objects \ contexts : Clean(y))' /\ SlotContextsAreClean'
    BY <1>1, <1>6 DEF IInv, SlotContextsAreClean, Clean
  <2>7. CallStep(t, b, r, Null)
    <3>1. /\ contexts' \subseteq Objects /\ dirty' \subseteq Objects /\ state' \subseteq Threads
          /\ ctxSlot' \in [Threads -> [Slots -> Handle]]
      BY <1>2, <1>6 DEF TypeOK
    <3> QED
      BY <1>01, <1>02, <1>1, <1>3, <1>6, <2>1, <2>2, <2>5, <2>6, <3>1 DEF CallStep
  <2>8. OptionsFit(r)' /\ TakenInOrder(r)' /\ ContextOfCall(r)'
    BY <1>1, <1>2, <1>5, <1>6, <2>2 DEF OptionsFit, TakenInOrder, NeedsContext, ContextOfCall
  <2> QED
    BY <2>7, <2>8, CallStepKeeps
<1>7. ASSUME NeedsContext(c), NEW o \in Objects,
             (CreateContext(o) /\ UNCHANGED <<state, ctxSlot>>) \/ AcquireContext(t, c.limit, o),
             dirty' = IF c.limit \/ c.callout THEN dirty \cup {o} ELSE dirty,
             Update(t, [c EXCEPT !.pc = "stack", !.ctx = o])
      PROVE  IInv'
  <2>1. PICK r : r = [c EXCEPT !.pc = "stack", !.ctx = o]
    OBVIOUS
  <2>0. o \in Handle /\ o # Null /\ Handle = Objects \cup {Null} /\ Null \notin Objects
    BY DEF Handle, Objects, Null
  <2>2. /\ r \in Calls /\ r.stack = c.stack /\ r.data = c.data /\ r.ctx = o
        /\ r.kind = c.kind /\ r.limit = c.limit /\ r.callout = c.callout /\ r.pattern = c.pattern
        /\ r.jit = c.jit /\ r.pc = "stack"
    BY <1>2, <2>0, <2>1 DEF Calls, Phases
  <2>3. CallBecomes(b, r)
    BY <1>01, <1>1, <1>2, <1>7, <2>1, <2>2, UpdateMeans
  <2>4. StacksOfCalls' = StacksOfCalls /\ ContextsOfCalls' = With(ContextsOfCalls, b, o)
    BY <1>02, <1>2, <2>2, <2>3, CallHolds
  <2>5. ContextsOfCalls[b] = Null /\ b \in DOMAIN ContextsOfCalls
    BY <1>02, <1>2, <1>5, HeldValues
  <2>6. /\ Owned(Holding(With(ContextsOfCalls, b, o), ContextsOfIters, ContextsOfSlots'), contexts')
        /\ ctxSlot' \in [Threads -> [Slots -> Handle]] /\ state' \subseteq Threads
        /\ \A u \in Threads, k \in Slots : ctxSlot'[u][k] \in {ctxSlot[u][k], Null} /\ ctxSlot'[u][k] # o
        /\ contexts' = contexts \cup {o} /\ Clean(o)
    <3>1. CASE CreateContext(o) /\ UNCHANGED <<state, ctxSlot>>
      <4>1. /\ Owned(Holding(With(ContextsOfCalls, b, o), ContextsOfIters, ContextsOfSlots), contexts')
            /\ contexts' = contexts \cup {o} /\ Clean(o)
        BY <1>2, <2>5, <3>1, ContextCreated DEF IInv, ContextsOwned
      <4>2. \A p \in DOMAIN ContextsOfSlots : ContextsOfSlots[p] # o
        BY <2>0, <2>5, <4>1, TakenAlone
      <4>3. \A u \in Threads, k \in Slots : ctxSlot[u][k] # o
        BY <4>2, SlotValues
      <4>4. ContextsOfSlots' = ContextsOfSlots
        BY <3>1, SlotsAsTheyWere
      <4> QED
        BY <1>2, <3>1, <4>1, <4>3, <4>4 DEF TypeOK
    <3>2. CASE AcquireContext(t, c.limit, o)
      BY <1>2, <2>5, <3>2, ContextAcquired DEF IInv, ContextsOwned
    <3> QED
      BY <1>7, <3>1, <3>2
  <2>7. StacksOwned' /\ ContextsOwned'
    BY <1>1, <1>4, <2>4, <2>6 DEF IInv, StacksOwned, ContextsOwned
  <2>8. /\ \A a \in Activations : a # b => call[a].ctx # o
        /\ \A i \in Iters : iter[i].ctx # o
    <3>1. /\ \A a \in DOMAIN ContextsOfCalls : a # b => ContextsOfCalls[a] # o
          /\ \A i \in DOMAIN ContextsOfIters : ContextsOfIters[i] # o
      <4>1. Owned(Holding(With(ContextsOfCalls, b, o), ContextsOfIters, ContextsOfSlots'), contexts')
        BY <2>6
      <4> QED
        BY <2>0, <2>5, <4>1, TakenAlone
    <3> QED
      BY <3>1, HeldValues
  <2>9. /\ contexts' \subseteq Objects /\ dirty' \subseteq Objects
        /\ \A y \in Objects : y # o => (y \in dirty' <=> y \in dirty)
    BY <1>2, <1>7, <2>6 DEF TypeOK
  <2>10. \A y \in Objects : y # o /\ Clean(y) => Clean(y)'
    BY <1>1, <2>9 DEF Clean
  <2>11. (\A y \in Objects \ contexts : Clean(y))'
    BY <2>6, <2>10 DEF IInv
  <2>12. SlotContextsAreClean'
    <3>1. \A u \in Threads, k \in Slots : ctxSlot[u][k] \in Handle
      BY <1>2 DEF TypeOK
    <3> QED
      BY <2>0, <2>6, <2>10, <3>1 DEF IInv, SlotContextsAreClean, Clean
  <2>13. CallStep(t, b, r, o)
    BY <1>01, <1>02, <1>1, <1>3, <1>7, <2>1, <2>2, <2>6, <2>7, <2>8, <2>9, <2>11, <2>12 DEF CallStep
  <2>14. OptionsFit(r)' /\ TakenInOrder(r)'
    BY <1>1, <1>2, <1>5, <2>0, <2>2 DEF OptionsFit, TakenInOrder
  <2>15. ContextOfCall(r)'
    BY <1>1, <1>5, <1>7, <2>2, <2>6 DEF ContextOfCall, Clean
  <2> QED
    BY <2>13, <2>14, <2>15, CallStepKeeps
<1> QED
  BY <1>1, <1>6, <1>7

LEMMA ContextOutKeeps ==
  ASSUME IInv, NEW t \in Threads, ContextOut(t)
  PROVE  IInv'
<1>01. PICK b : b = Inner(t)
  OBVIOUS
<1>02. PICK c : c = call[b]
  OBVIOUS
<1>03. PICK r : r = [c EXCEPT !.pc = "data out", !.ctx = Null]
  OBVIOUS
<1>1. /\ c.pc = "context out" \/ (c.pc = "result" /\ c.kind = "execute")
      /\ \/ c.ctx = Null /\ UNCHANGED <<contexts, assigned, dirty, ctxSlot>>
         \/ c.ctx # Null /\ FreeContext(c.ctx) /\ UNCHANGED ctxSlot
         \/ c.ctx # Null /\ ReleaseContext(t, c.ctx, c.limit)
      /\ Update(t, r) /\ depth[t] > 0
      /\ UNCHANGED <<config, pairs, stacks, state, matchSlot, matchCap, jitSlot, jitCap, jitOn, iter>>
  BY <1>01, <1>02, <1>03 DEF ContextOut, At
<1>2. /\ TypeOK /\ b \in Activations /\ c \in Calls
      /\ OptionsFit(c) /\ TakenInOrder(c) /\ ContextOfCall(c)
      /\ c.ctx \in Handle /\ c.stack \in Handle /\ c.limit \in BOOLEAN
  BY <1>01, <1>02, <1>1, InnerCall DEF Calls
<1>3. /\ r \in Calls /\ r.stack = c.stack /\ r.data = c.data /\ r.ctx = Null
      /\ r.kind = c.kind /\ r.limit = c.limit /\ r.callout = c.callout /\ r.pattern = c.pattern
      /\ r.jit = c.jit /\ r.pc = "data out"
  BY <1>03, <1>2 DEF Calls, Phases, Handle
<1>4. c.stack = Null
  BY <1>1, <1>2 DEF TakenInOrder
<1>5. CallBecomes(b, r)
  BY <1>01, <1>1, <1>2, <1>3, UpdateMeans
<1>6. StacksOfCalls' = StacksOfCalls /\ ContextsOfCalls' = With(ContextsOfCalls, b, Null)
  BY <1>02, <1>2, <1>3, <1>5, CallHolds
<1>7. StacksOfIters' = StacksOfIters /\ ContextsOfIters' = ContextsOfIters
  BY <1>1, ItersAsTheyWere
<1>8. Handle = Objects \cup {Null} /\ Null \notin Objects
  BY DEF Handle, Objects, Null
<1>9. ContextsOfCalls[b] = c.ctx /\ b \in DOMAIN ContextsOfCalls
  BY <1>02, <1>2, HeldValues
<1>10. assigned \in [Objects -> Handle] /\ dirty \subseteq Objects /\ contexts \subseteq Objects
  BY <1>2 DEF TypeOK
\* Whichever way it goes, the context leaves clean.
<1>11. /\ Owned(Holding(With(ContextsOfCalls, b, Null), ContextsOfIters, ContextsOfSlots'), contexts')
       /\ ctxSlot' \in [Threads -> [Slots -> Handle]]
       /\ contexts' \in {contexts, contexts \ {c.ctx}}
       /\ \A u \in Threads, k \in Slots : ctxSlot'[u][k] \in {ctxSlot[u][k], c.ctx}
       /\ assigned' \in [Objects -> Handle] /\ dirty' \subseteq dirty
       /\ \A y \in Objects : y # c.ctx => assigned'[y] = assigned[y] /\ (y \in dirty' <=> y \in dirty)
       /\ c.ctx # Null => Clean(c.ctx)'
  <2>0. Owned(Holding(With(ContextsOfCalls, b, Null), ContextsOfIters, ContextsOfSlots), contexts \ {c.ctx})
    BY <1>9, HandsChange DEF IInv, ContextsOwned
  <2>00. c.ctx \in dirty /\ c.ctx # Null => c.limit
    BY <1>1, <1>2 DEF ContextOfCall, OptionsFit
  <2>1. CASE c.ctx = Null /\ UNCHANGED <<contexts, assigned, dirty, ctxSlot>>
    <3>1. contexts \ {c.ctx} = contexts
      BY <1>8, <1>10, <2>1
    <3> QED
      BY <1>2, <1>10, <2>0, <2>1, <3>1, SlotsAsTheyWere DEF TypeOK
  <2>2. CASE c.ctx # Null /\ FreeContext(c.ctx) /\ UNCHANGED ctxSlot
    <3>1. /\ contexts' = contexts \ {c.ctx} /\ assigned' = [assigned EXCEPT ![c.ctx] = Null]
          /\ dirty' = dirty \ {c.ctx} /\ c.ctx \in Objects /\ Null \in Handle
      BY <1>2, <1>8, <2>2 DEF FreeContext
    <3>2. /\ assigned' \in [Objects -> Handle] /\ assigned'[c.ctx] = Null
          /\ \A y \in Objects : y # c.ctx => assigned'[y] = assigned[y]
      BY <1>10, <3>1
    <3> QED
      BY <1>2, <2>0, <2>2, <3>1, <3>2, SlotsAsTheyWere DEF TypeOK, Clean
  <2>3. CASE c.ctx # Null /\ ReleaseContext(t, c.ctx, c.limit)
    <3>1. /\ assigned' = [assigned EXCEPT ![c.ctx] = Null] /\ dirty' = Cleaned(c.ctx, c.limit)
          /\ c.ctx \in Objects /\ Null \in Handle
      BY <1>2, <1>8, <2>3 DEF ReleaseContext
    <3>2. /\ assigned' \in [Objects -> Handle] /\ assigned'[c.ctx] = Null
          /\ \A y \in Objects : y # c.ctx => assigned'[y] = assigned[y]
      BY <1>10, <3>1
    <3>3. /\ dirty' \subseteq dirty /\ c.ctx \notin dirty'
          /\ \A y \in Objects : y # c.ctx => (y \in dirty' <=> y \in dirty)
      BY <2>00, <2>3, <3>1 DEF Cleaned
    <3>4. /\ Owned(Holding(With(ContextsOfCalls, b, Null), ContextsOfIters, ContextsOfSlots'), contexts')
          /\ ctxSlot' \in [Threads -> [Slots -> Handle]]
          /\ contexts' \in {contexts, contexts \ {c.ctx}}
          /\ \A u \in Threads, k \in Slots : ctxSlot'[u][k] \in {ctxSlot[u][k], c.ctx}
      BY <1>2, <1>9, <2>3, <3>1, ContextReleased DEF IInv, ContextsOwned
    <3> QED
      BY <3>2, <3>3, <3>4 DEF Clean
  <2> QED
    BY <1>1, <2>1, <2>2, <2>3
<1>12. ContextsOwned'
  BY <1>6, <1>7, <1>11 DEF ContextsOwned
<1>13. StacksOwned'
  BY <1>1, <1>6, <1>7, StacksLeft DEF IInv
<1>14. \A y \in Objects : y # c.ctx /\ Clean(y) => Clean(y)'
  BY <1>11 DEF Clean
<1>15. (\A y \in Objects \ contexts : Clean(y))'
  BY <1>8, <1>11, <1>14 DEF IInv
<1>16. SlotContextsAreClean'
  <2>1. \A u \in Threads, k \in Slots :
          ctxSlot[u][k] \in Handle /\ (ctxSlot[u][k] # Null => Clean(ctxSlot[u][k]))
    BY <1>2 DEF IInv, TypeOK, SlotContextsAreClean, Clean
  <2>2. \A u \in Threads, k \in Slots : \A y : y = ctxSlot'[u][k] /\ y # Null => Clean(y)'
    <3>1. \A u \in Threads, k \in Slots : ctxSlot'[u][k] \in {ctxSlot[u][k], c.ctx}
      BY <1>11
    <3> QED
      BY <1>8, <1>11, <1>14, <2>1, <3>1
  <2> QED
    BY <2>2 DEF SlotContextsAreClean, Clean
<1>17. CallStep(t, b, r, c.ctx)
  <2>1. /\ \A a \in Activations : a # b /\ call[a].ctx # Null => call[a].ctx # c.ctx
        /\ \A i \in Iters : iter[i].ctx # Null => iter[i].ctx # c.ctx
    BY <1>02, <1>2, CallAlone
  <2>2. /\ stacks' \subseteq Objects /\ state' \subseteq Threads /\ jitSlot' \in [Homes -> Handle]
        /\ jitOn' \in [Patterns -> BOOLEAN] /\ JitOnlyOff
    BY <1>1, <1>2 DEF TypeOK, JitOnlyOff
  <2>3. contexts' \subseteq Objects /\ dirty' \subseteq Objects
    BY <1>10, <1>11
  <2> QED
    BY <1>01, <1>02, <1>1, <1>3, <1>11, <1>12, <1>13, <1>15, <1>16, <2>1, <2>2, <2>3 DEF CallStep
<1>18. OptionsFit(r)' /\ TakenInOrder(r)' /\ ContextOfCall(r)'
  BY <1>1, <1>2, <1>3, <1>4 DEF OptionsFit, TakenInOrder, ContextOfCall
<1> QED
  BY <1>17, <1>18, CallStepKeeps

-----------------------------------------------------------------------------
(* The beginning and the end of a call.                                        *)

LEMMA DataOutKeeps ==
  ASSUME IInv, NEW t \in Threads, DataOut(t)
  PROVE  IInv'
<1>01. PICK b : b = Inner(t)
  OBVIOUS
<1>02. PICK c : c = call[b]
  OBVIOUS
<1>1. /\ c.pc = "data out" /\ depth[t] > 0
      /\ ReleaseData(t, c.data) /\ Leave(t)
      /\ UNCHANGED <<config, stacks, contexts, assigned, dirty, state, matchCap, jitSlot, jitCap, ctxSlot,
                     jitOn, iter>>
  BY <1>01, <1>02 DEF DataOut, At
<1>2. /\ TypeOK /\ b \in Activations /\ c \in Calls /\ TakenInOrder(c) /\ c.data \in Handle
  BY <1>01, <1>02, <1>1, InnerCall
<1>3. c.stack = Null /\ c.ctx = Null
  BY <1>1, <1>2 DEF TakenInOrder
<1>4. /\ CallBecomes(b, NoCall) /\ depth' \in [Threads -> 0..Depth] /\ NoCall \in Calls
      /\ \A a \in Activations : a # b /\ a[2] > depth'[a[1]] => a[2] > depth[a[1]]
  BY <1>01, <1>1, <1>2, LeaveMeans
<1>5. NoCall.data = Null /\ NoCall.ctx = Null /\ NoCall.stack = Null
  BY DEF NoCall
<1>6. /\ DatasOfCalls' = With(DatasOfCalls, b, Null)
      /\ StacksOfCalls' = StacksOfCalls /\ ContextsOfCalls' = ContextsOfCalls
  BY <1>02, <1>2, <1>3, <1>4, <1>5, CallHolds
<1>7. DatasOfIters' = DatasOfIters /\ StacksOfIters' = StacksOfIters /\ ContextsOfIters' = ContextsOfIters
  BY <1>1, ItersAsTheyWere
<1>8. StacksOwned' /\ ContextsOwned'
  BY <1>1, <1>6, <1>7, StacksLeft, ContextsLeft DEF IInv
<1>9. /\ Owned(Holding(With(DatasOfCalls, b, Null), DatasOfIters, matchSlot'), Allocated(pairs'))
      /\ pairs' \in [Objects -> 0..MaxPairs] /\ matchSlot' \in [Homes -> Handle]
      /\ \A d \in Objects : d # c.data => pairs'[d] = pairs[d]
      /\ \A h \in Homes : matchCap[h] = 0 => matchSlot'[h] = matchSlot[h]
  <2>1. DatasOfCalls[b] = c.data /\ b \in DOMAIN DatasOfCalls
    BY <1>02, <1>2, HeldValues
  <2> QED
    BY <1>1, <1>2, <2>1, DataReleased DEF IInv, DatasOwned
<1>10. DatasOwned'
  BY <1>6, <1>7, <1>9 DEF DatasOwned, Allocated
<1>11. TypeOK'
  BY <1>1, <1>2, <1>4, <1>9 DEF TypeOK, CallBecomes, Configs
<1>12. JitOnlyOff
  BY <1>1 DEF JitOnlyOff
<1>13. CallInv(b)'
  <2>1. OptionsFit(NoCall)' /\ TakenInOrder(NoCall)' /\ ContextOfCall(NoCall)'
    BY DEF OptionsFit, TakenInOrder, ContextOfCall, NoCall, NeedsContext
  <2>2. Serves(NoCall.pattern, NoCall.data)'
    BY <1>5 DEF Serves
  <2> QED
    BY <1>4, <2>1, <2>2 DEF CallInv, CallBecomes
<1>14. PICK x : x \notin Iters
  BY NoSetContainsEverything
<1>15. LeavesOthers(b, x, Null, c.data)
  <2>1. /\ \A a \in Activations : a # b /\ call[a].data # Null => call[a].data # c.data
        /\ \A i \in Iters : iter[i].data # Null => iter[i].data # c.data
    BY <1>02, <1>2, CallAlone
  <2>2. \A y \in Allocated(pairs) : y # c.data => pairs'[y] = pairs[y]
    BY <1>9 DEF Allocated
  <2> QED
    BY <1>1, <1>4, <1>12, <1>14, <2>1, <2>2 DEF LeavesOthers, CallBecomes
<1>16. /\ \A a \in Activations : CallInv(a)'
       /\ \A i \in Iters : IterInv(i)'
  BY <1>13, <1>14, <1>15, OthersKept
<1>17. SlotContextsAreClean' /\ (\A y \in Objects \ contexts : Clean(y))'
  BY <1>1 DEF IInv, SlotContextsAreClean, Clean
<1>18. DisabledCachesAreEmpty'
  BY <1>1, <1>9 DEF IInv, DisabledCachesAreEmpty
<1> QED
  BY <1>8, <1>10, <1>11, <1>16, <1>17, <1>18 DEF IInv

\* The place of the next call of a thread is empty.
LEMMA NextPlace ==
  ASSUME IInv, NEW t \in Threads, depth[t] < Depth
  PROVE  /\ TypeOK /\ <<t, depth[t] + 1>> \in Activations /\ call[<<t, depth[t] + 1>>] = NoCall
         /\ call[<<t, depth[t] + 1>>].data = Null /\ call[<<t, depth[t] + 1>>].ctx = Null
         /\ call[<<t, depth[t] + 1>>].stack = Null
<1>1. TypeOK /\ <<t, depth[t] + 1>> \in Activations /\ CallInv(<<t, depth[t] + 1>>)
  BY Places DEF IInv
<1>2. depth[t] \in Nat
  BY <1>1, ResourceAssumption DEF TypeOK
<1>3. call[<<t, depth[t] + 1>>] = NoCall
  BY <1>1, <1>2 DEF CallInv
<1> QED
  BY <1>1, <1>3 DEF NoCall

LEMMA BeginKeeps ==
  ASSUME IInv, NEW t \in Threads, NEW kind \in Kinds, NEW p \in Patterns,
         NEW limit \in BOOLEAN, NEW callout \in BOOLEAN, Begin(t, kind, p, limit, callout)
  PROVE  IInv'
<1>01. PICK b : b = <<t, depth[t] + 1>>
  OBVIOUS
<1>02. PICK o \in Objects, jit \in {jitOn[p]} \cup (IF kind = "execute" /\ limit THEN {FALSE} ELSE {}) :
         /\ AcquireData(t, p, o)
         /\ Enter(t, [NoCall EXCEPT !.kind = kind, !.pattern = p, !.jit = jit, !.limit = limit,
                                    !.callout = callout, !.data = o])
  BY DEF Begin
<1>03. PICK r : r = [NoCall EXCEPT !.kind = kind, !.pattern = p, !.jit = jit, !.limit = limit,
                                   !.callout = callout, !.data = o]
  OBVIOUS
<1>1. /\ depth[t] < Depth
      /\ kind = "substitute" => ~limit
      /\ kind # "substitute" => ~callout
      /\ UNCHANGED <<config, stacks, contexts, assigned, dirty, matchCap, jitSlot, jitCap, ctxSlot, jitOn, iter>>
  BY DEF Begin, MayCall
<1>2. /\ TypeOK /\ b \in Activations
      /\ call[b].data = Null /\ call[b].ctx = Null /\ call[b].stack = Null
  BY <1>01, <1>1, NextPlace
<1>3. o # Null /\ o \in Handle /\ Null \in Handle /\ kind \in AllKinds /\ jit \in BOOLEAN
      /\ (kind # "execute" => jit = jitOn[p])
  <2>1. o # Null /\ o \in Handle /\ Null \in Handle
    BY DEF Handle, Objects, Null
  <2>2. kind \in AllKinds
    BY ResourceAssumption
  <2>3. jitOn[p] \in BOOLEAN
    BY <1>2 DEF TypeOK
  <2>4. jit = jitOn[p] \/ (kind = "execute" /\ jit = FALSE)
    OBVIOUS
  <2> QED
    BY <2>1, <2>2, <2>3, <2>4
<1>4. /\ r \in Calls /\ r.pc = "context" /\ r.kind = kind /\ r.pattern = p /\ r.jit = jit /\ r.limit = limit
      /\ r.callout = callout /\ r.data = o /\ r.ctx = Null /\ r.stack = Null
  BY <1>03, <1>3 DEF NoCall, Calls, Phases
<1>5. /\ CallBecomes(b, r) /\ depth' \in [Threads -> 0..Depth]
      /\ \A a \in Activations : a[2] > depth'[a[1]] => a[2] > depth[a[1]] /\ a # b
  BY <1>01, <1>02, <1>03, <1>1, <1>2, <1>4, EnterMeans
<1>6. /\ DatasOfCalls' = With(DatasOfCalls, b, o)
      /\ StacksOfCalls' = StacksOfCalls /\ ContextsOfCalls' = ContextsOfCalls
  BY <1>2, <1>4, <1>5, CallHolds
<1>7. DatasOfIters' = DatasOfIters /\ StacksOfIters' = StacksOfIters /\ ContextsOfIters' = ContextsOfIters
  BY <1>1, ItersAsTheyWere
<1>8. StacksOwned' /\ ContextsOwned'
  BY <1>1, <1>6, <1>7, StacksLeft, ContextsLeft DEF IInv
<1>9. DatasOfCalls[b] = Null /\ b \in DOMAIN DatasOfCalls
  BY <1>2, HeldValues
<1>10. /\ Owned(Holding(With(DatasOfCalls, b, o), DatasOfIters, matchSlot'), Allocated(pairs'))
       /\ pairs' \in [Objects -> 0..MaxPairs] /\ matchSlot' \in [Homes -> Handle] /\ state' \subseteq Threads
       /\ pairs'[o] >= p
       /\ \A d \in Allocated(pairs) : d # matchSlot[Home(t)] => pairs'[d] = pairs[d]
       /\ \A h \in Homes : matchSlot'[h] \in {matchSlot[h], Null}
  BY <1>02, <1>2, <1>9, DataAcquired DEF IInv, DatasOwned
<1>11. DatasOwned'
  BY <1>6, <1>7, <1>10 DEF DatasOwned, Allocated
<1>12. TypeOK'
  BY <1>1, <1>2, <1>5, <1>10 DEF TypeOK, CallBecomes, Configs
<1>13. CallInv(b)'
  <2>1. OptionsFit(r)' /\ TakenInOrder(r)' /\ ContextOfCall(r)'
    BY <1>1, <1>3, <1>4 DEF OptionsFit, TakenInOrder, ContextOfCall
  <2>2. Serves(r.pattern, r.data)'
    BY <1>4, <1>10 DEF Serves
  <2>3. ~(b[2] > depth'[b[1]])
    BY <1>2, <1>5
  <2> QED
    BY <1>5, <2>1, <2>2, <2>3 DEF CallInv, CallBecomes
<1>14. PICK x : x \notin Iters
  BY NoSetContainsEverything
<1>15. LeavesOthers(b, x, Null, matchSlot[Home(t)])
  <2>1. \A a \in Activations : call[a].data # Null => call[a].data # matchSlot[Home(t)]
    BY HomeIsHome, CallAlone
  <2>2. \A i \in Iters : iter[i].data # Null => iter[i].data # matchSlot[Home(t)]
    BY HomeIsHome, IterAlone
  <2>3. JitOnlyOff
    BY <1>1 DEF JitOnlyOff
  <2> QED
    BY <1>1, <1>5, <1>10, <2>1, <2>2, <2>3 DEF LeavesOthers, CallBecomes
<1>16. /\ \A a \in Activations : CallInv(a)'
       /\ \A i \in Iters : IterInv(i)'
  BY <1>13, <1>14, <1>15, OthersKept
<1>17. SlotContextsAreClean' /\ (\A y \in Objects \ contexts : Clean(y))'
  BY <1>1 DEF IInv, SlotContextsAreClean, Clean
<1>18. DisabledCachesAreEmpty'
  BY <1>1, <1>10 DEF IInv, DisabledCachesAreEmpty
<1> QED
  BY <1>8, <1>11, <1>12, <1>16, <1>17, <1>18 DEF IInv

-----------------------------------------------------------------------------
(* Finditer objects.                                                           *)

LEMMA IterCreatedKeeps ==
  ASSUME IInv, NEW t \in Threads, NEW i \in Iters, IterCreated(t, i)
  PROVE  IInv'
<1>01. PICK b : b = Inner(t)
  OBVIOUS
<1>02. PICK c : c = call[b]
  OBVIOUS
<1>03. PICK r : r = [pattern |-> c.pattern, data |-> c.data, ctx |-> c.ctx, stack |-> c.stack]
  OBVIOUS
<1>1. /\ c.pc = "result" /\ c.kind = "finditer" /\ depth[t] > 0
      /\ iter[i] = NoIter /\ iter' = [iter EXCEPT ![i] = r] /\ Leave(t)
      /\ UNCHANGED <<config, objects, caches, jitOn>>
  BY <1>01, <1>02, <1>03 DEF IterCreated, At
<1>2. /\ TypeOK /\ b \in Activations /\ c \in Calls
      /\ OptionsFit(c) /\ TakenInOrder(c) /\ ContextOfCall(c) /\ Serves(c.pattern, c.data)
  BY <1>01, <1>02, <1>1, InnerCall
<1>3. /\ CallBecomes(b, NoCall) /\ depth' \in [Threads -> 0..Depth] /\ NoCall \in Calls
      /\ \A a \in Activations : a # b /\ a[2] > depth'[a[1]] => a[2] > depth[a[1]]
  BY <1>01, <1>1, <1>2, LeaveMeans
<1>4. /\ r \in IterRecord /\ r.pattern = c.pattern /\ r.data = c.data /\ r.ctx = c.ctx /\ r.stack = c.stack
  BY <1>03, <1>2 DEF Calls, IterRecord
<1>5. IterBecomes(i, r)
  BY <1>1, <1>2, <1>4 DEF IterBecomes, TypeOK
<1>6. NoCall.data = Null /\ NoCall.ctx = Null /\ NoCall.stack = Null
      /\ iter[i].data = Null /\ iter[i].ctx = Null /\ iter[i].stack = Null
  BY <1>1 DEF NoCall, NoIter
<1>7. /\ DatasOfCalls' = With(DatasOfCalls, b, Null) /\ StacksOfCalls' = With(StacksOfCalls, b, Null)
      /\ ContextsOfCalls' = With(ContextsOfCalls, b, Null)
  BY <1>2, <1>3, <1>6, CallHolds
<1>8. /\ DatasOfIters' = With(DatasOfIters, i, c.data) /\ StacksOfIters' = With(StacksOfIters, i, c.stack)
      /\ ContextsOfIters' = With(ContextsOfIters, i, c.ctx)
  BY <1>4, <1>5, IterHolds
<1>9. /\ b \in DOMAIN DatasOfCalls /\ b \in DOMAIN StacksOfCalls /\ b \in DOMAIN ContextsOfCalls
      /\ i \in DOMAIN DatasOfIters /\ i \in DOMAIN StacksOfIters /\ i \in DOMAIN ContextsOfIters
      /\ DatasOfCalls[b] = c.data /\ StacksOfCalls[b] = c.stack /\ ContextsOfCalls[b] = c.ctx
      /\ DatasOfIters[i] = Null /\ StacksOfIters[i] = Null /\ ContextsOfIters[i] = Null
  BY <1>02, <1>2, <1>6, HeldValues
<1>10. /\ UNCHANGED <<pairs, stacks, contexts, assigned, dirty, state, matchSlot, matchCap, jitSlot, jitCap,
                      ctxSlot, config, jitOn>>
       /\ ContextsOfSlots' = ContextsOfSlots
  BY <1>1, SlotsAsTheyWere DEF objects, caches
<1>11. DatasOwned'
  <2>1. Owned(Holding(With(DatasOfCalls, b, Null), With(DatasOfIters, i, c.data), matchSlot), Allocated(pairs))
    BY <1>9, HandsChange DEF IInv, DatasOwned
  <2> QED
    BY <1>7, <1>8, <1>10, <2>1 DEF DatasOwned, Allocated
<1>12. StacksOwned'
  <2>1. Owned(Holding(With(StacksOfCalls, b, Null), With(StacksOfIters, i, c.stack), jitSlot), stacks)
    BY <1>9, HandsChange DEF IInv, StacksOwned
  <2> QED
    BY <1>7, <1>8, <1>10, <2>1 DEF StacksOwned
<1>13. ContextsOwned'
  <2>1. Owned(Holding(With(ContextsOfCalls, b, Null), With(ContextsOfIters, i, c.ctx), ContextsOfSlots), contexts)
    BY <1>9, HandsChange DEF IInv, ContextsOwned
  <2> QED
    BY <1>7, <1>8, <1>10, <2>1 DEF ContextsOwned
<1>14. TypeOK'
  BY <1>2, <1>3, <1>5, <1>10 DEF TypeOK, CallBecomes, IterBecomes, Configs
<1>15. CallInv(b)'
  <2>1. OptionsFit(NoCall)' /\ TakenInOrder(NoCall)' /\ ContextOfCall(NoCall)'
    BY DEF OptionsFit, TakenInOrder, ContextOfCall, NoCall, NeedsContext
  <2>2. Serves(NoCall.pattern, NoCall.data)'
    BY <1>6 DEF Serves
  <2> QED
    BY <1>3, <2>1, <2>2 DEF CallInv, CallBecomes
<1>16. IterInv(i)'
  <2>1. c.ctx # Null => assigned[c.ctx] = c.stack
    BY <1>2 DEF ContextOfCall
  <2>2. jitOn[c.pattern] => c.stack # Null /\ c.ctx # Null
    BY <1>1, <1>2 DEF OptionsFit, TakenInOrder, NeedsContext
  <2>3. c.data # Null => pairs[c.data] >= c.pattern
    BY <1>2 DEF Serves
  <2>4. iter'[i] = r
    BY <1>5 DEF IterBecomes
  <2> QED
    BY <1>4, <1>10, <2>1, <2>2, <2>3, <2>4 DEF IterInv, Serves
<1>17. LeavesOthers(b, i, Null, Null)
  <2>1. JitOnlyOff
    BY <1>10 DEF JitOnlyOff
  <2> QED
    BY <1>3, <1>5, <1>10, <2>1 DEF LeavesOthers, CallBecomes, IterBecomes
<1>18. /\ \A a \in Activations : CallInv(a)'
       /\ \A j \in Iters : IterInv(j)'
  BY <1>15, <1>16, <1>17, OthersKept
<1>19. SlotContextsAreClean' /\ (\A y \in Objects \ contexts : Clean(y))' /\ DisabledCachesAreEmpty'
  BY <1>10 DEF IInv, SlotContextsAreClean, Clean, DisabledCachesAreEmpty
<1> QED
  BY <1>11, <1>12, <1>13, <1>14, <1>18, <1>19 DEF IInv


LEMMA IterBadOptionKeeps ==
  ASSUME IInv, NEW t \in Threads, NEW i \in Iters, IterBadOption(t, i)
  PROVE  IInv'
<1>01. PICK c : c = iter[i]
  OBVIOUS
<1>02. PICK r : r = [c EXCEPT !.stack = Null]
  OBVIOUS
<1>1. /\ c.data # Null /\ jitOn[c.pattern] /\ jitOn' = [jitOn EXCEPT ![c.pattern] = FALSE]
      /\ assigned' = Unassign(c.ctx) /\ ReleaseStack(t, c.stack)
      /\ iter' = [iter EXCEPT ![i].stack = Null]
      /\ UNCHANGED <<config, pairs, contexts, dirty, state, matchSlot, matchCap, jitCap, ctxSlot, depth, call>>
  BY <1>01 DEF IterBadOption
<1>2. /\ TypeOK /\ c \in IterRecord /\ IterInv(i)
      /\ c.ctx \in Handle /\ c.stack \in Handle /\ c.pattern \in Patterns
  BY <1>01 DEF IInv, TypeOK, IterRecord
<1>3. /\ r \in IterRecord /\ r.stack = Null /\ r.data = c.data /\ r.ctx = c.ctx /\ r.pattern = c.pattern
  BY <1>02, <1>2 DEF IterRecord, Handle
<1>4. IterBecomes(i, r)
  <2>1. iter \in [Iters -> IterRecord]
    BY <1>2 DEF TypeOK
  <2> QED
    BY <1>01, <1>02, <1>1, <1>3, <2>1 DEF IterBecomes
<1>5. /\ DatasOfIters' = DatasOfIters /\ StacksOfIters' = With(StacksOfIters, i, Null)
      /\ ContextsOfIters' = ContextsOfIters
  BY <1>01, <1>3, <1>4, IterHolds
<1>6. /\ DatasOfCalls' = DatasOfCalls /\ StacksOfCalls' = StacksOfCalls /\ ContextsOfCalls' = ContextsOfCalls
  BY <1>1, CallsAsTheyWere
<1>7. /\ Owned(Holding(StacksOfCalls, With(StacksOfIters, i, Null), jitSlot'), stacks')
      /\ stacks' \subseteq Objects /\ jitSlot' \in [Homes -> Handle]
      /\ \A h \in Homes : jitCap[h] = 0 => jitSlot'[h] = jitSlot[h]
  BY <1>01, <1>1, <1>2, HeldValues, StackReleased DEF IInv, StacksOwned
<1>8. DatasOwned' /\ StacksOwned' /\ ContextsOwned'
  BY <1>1, <1>5, <1>6, <1>7, DatasLeft, ContextsLeft DEF IInv, StacksOwned
<1>9. /\ assigned' \in [Objects -> Handle]
      /\ \A y \in Objects : assigned'[y] = IF y = c.ctx THEN Null ELSE assigned[y]
  BY <1>1, <1>2, UnassignMeans
<1>10. \A y \in Objects : Clean(y) => Clean(y)'
  BY <1>1, <1>9 DEF Clean
<1>11. (\A y \in Objects \ contexts : Clean(y))' /\ SlotContextsAreClean'
  BY <1>1, <1>2, <1>10 DEF IInv, SlotContextsAreClean, Clean, TypeOK, Handle
<1>12. jitOn' \in [Patterns -> BOOLEAN] /\ JitOnlyOff /\ ~jitOn'[c.pattern]
  BY <1>1, <1>2 DEF TypeOK, JitOnlyOff
<1>13. TypeOK'
  BY <1>1, <1>2, <1>4, <1>7, <1>9, <1>12 DEF TypeOK, IterBecomes, Configs
<1>14. IterInv(i)'
  <2>1. iter'[i] = r
    BY <1>4 DEF IterBecomes
  <2>2. c.ctx # Null => assigned'[c.ctx] = Null
    BY <1>2, <1>9 DEF Handle
  <2>3. c.data # Null => pairs'[c.data] >= c.pattern
    BY <1>01, <1>1, <1>2 DEF IterInv, Serves
  <2> QED
    BY <1>3, <1>12, <2>1, <2>2, <2>3 DEF IterInv, Serves
<1>15. PICK b : b \notin Activations
  BY NoSetContainsEverything
<1>16. LeavesOthers(b, i, c.ctx, Null)
  <2>1. /\ \A a \in Activations : call[a].ctx # Null => call[a].ctx # c.ctx
        /\ \A j \in Iters : j # i /\ iter[j].ctx # Null => iter[j].ctx # c.ctx
    BY <1>01, IterAlone
  <2> QED
    BY <1>1, <1>4, <1>9, <1>12, <2>1 DEF LeavesOthers, IterBecomes
<1>17. /\ \A a \in Activations : CallInv(a)'
       /\ \A j \in Iters : IterInv(j)'
  BY <1>14, <1>15, <1>16, OthersKept
<1>18. DisabledCachesAreEmpty'
  BY <1>1, <1>7 DEF IInv, DisabledCachesAreEmpty
<1> QED
  BY <1>8, <1>11, <1>13, <1>17, <1>18 DEF IInv

LEMMA IterDeallocKeeps ==
  ASSUME IInv, NEW t \in Threads, NEW i \in Iters, IterDealloc(t, i)
  PROVE  IInv'
<1>01. PICK b : b = <<t, depth[t] + 1>>
  OBVIOUS
<1>02. PICK c : c = iter[i]
  OBVIOUS
<1>03. PICK r : r = [NoCall EXCEPT !.kind = "finditer", !.pc = "stack out", !.stack = c.stack]
  OBVIOUS
<1>1. /\ depth[t] < Depth /\ c.data # Null
      /\ ReleaseData(t, c.data) /\ FreeContext(c.ctx) /\ iter' = [iter EXCEPT ![i] = NoIter]
      /\ Enter(t, r)
      /\ UNCHANGED <<config, stacks, state, matchCap, jitSlot, jitCap, ctxSlot, jitOn>>
  BY <1>02, <1>03 DEF IterDealloc, MayCall
<1>2. /\ TypeOK /\ b \in Activations
      /\ call[b].data = Null /\ call[b].ctx = Null /\ call[b].stack = Null
  BY <1>01, <1>1, NextPlace
<1>3. c.ctx \in Handle /\ c.stack \in Handle /\ c.data \in Handle /\ Null \in Handle
  BY <1>02, <1>2 DEF TypeOK, IterRecord, Handle
<1>4. /\ NoIter \in IterRecord /\ NoIter.data = Null /\ NoIter.ctx = Null /\ NoIter.stack = Null
  BY <1>3, ResourceAssumption DEF NoIter, IterRecord, Patterns
<1>5. /\ r.kind = "finditer" /\ r.pattern = 1 /\ r.jit = FALSE /\ r.limit = FALSE /\ r.callout = FALSE
      /\ r.pc = "stack out" /\ r.data = Null /\ r.ctx = Null /\ r.stack = c.stack
  BY <1>03 DEF NoCall
<1>6. r \in Calls
  <2>1. 1 \in Patterns
    BY ResourceAssumption DEF Patterns
  <2> QED
    BY <1>03, <1>3, <2>1 DEF NoCall, Calls, Phases, AllKinds
<1>7. /\ CallBecomes(b, r) /\ depth' \in [Threads -> 0..Depth]
      /\ \A a \in Activations : a[2] > depth'[a[1]] => a[2] > depth[a[1]] /\ a # b
  BY <1>01, <1>1, <1>2, <1>6, EnterMeans
<1>8. IterBecomes(i, NoIter)
  BY <1>1, <1>2, <1>4 DEF IterBecomes, TypeOK
<1>9. /\ DatasOfCalls' = DatasOfCalls /\ StacksOfCalls' = With(StacksOfCalls, b, c.stack)
      /\ ContextsOfCalls' = ContextsOfCalls
  BY <1>2, <1>5, <1>7, CallHolds
<1>10. /\ DatasOfIters' = With(DatasOfIters, i, Null) /\ StacksOfIters' = With(StacksOfIters, i, Null)
       /\ ContextsOfIters' = With(ContextsOfIters, i, Null)
  BY <1>4, <1>8, IterHolds
<1>11. /\ b \in DOMAIN StacksOfCalls /\ StacksOfCalls[b] = Null
       /\ i \in DOMAIN DatasOfIters /\ i \in DOMAIN StacksOfIters /\ i \in DOMAIN ContextsOfIters
       /\ DatasOfIters[i] = c.data /\ StacksOfIters[i] = c.stack /\ ContextsOfIters[i] = c.ctx
  BY <1>02, <1>2, HeldValues
<1>12. /\ Owned(Holding(DatasOfCalls, With(DatasOfIters, i, Null), matchSlot'), Allocated(pairs'))
       /\ pairs' \in [Objects -> 0..MaxPairs] /\ matchSlot' \in [Homes -> Handle]
       /\ \A d \in Objects : d # c.data => pairs'[d] = pairs[d]
       /\ \A h \in Homes : matchCap[h] = 0 => matchSlot'[h] = matchSlot[h]
  BY <1>1, <1>2, <1>3, <1>11, DataReleased DEF IInv, DatasOwned
<1>13. DatasOwned'
  BY <1>9, <1>10, <1>12 DEF DatasOwned, Allocated
<1>14. StacksOwned'
  <2>1. Owned(Holding(With(StacksOfCalls, b, StacksOfIters[i]), With(StacksOfIters, i, Null), jitSlot), stacks)
    BY <1>11, HandsChange DEF IInv, StacksOwned
  <2> QED
    BY <1>1, <1>9, <1>10, <1>11, <2>1 DEF StacksOwned
<1>15. /\ contexts' = contexts \ {c.ctx} /\ dirty' = dirty \ {c.ctx}
       /\ assigned' \in [Objects -> Handle]
       /\ \A y \in Objects : assigned'[y] = IF y = c.ctx THEN Null ELSE assigned[y]
  <2>1. assigned' = Unassign(c.ctx)
    BY <1>1 DEF FreeContext, Unassign
  <2> QED
    BY <1>1, <1>2, <1>3, <2>1, UnassignMeans DEF FreeContext
<1>16. ContextsOwned'
  <2>1. Owned(Holding(ContextsOfCalls, With(ContextsOfIters, i, Null), ContextsOfSlots), contexts \ {ContextsOfIters[i]})
    BY <1>11, HandsChange DEF IInv, ContextsOwned
  <2>2. ContextsOfSlots' = ContextsOfSlots
    BY <1>1, SlotsAsTheyWere
  <2> QED
    BY <1>9, <1>10, <1>11, <1>15, <2>1, <2>2 DEF ContextsOwned
<1>17. TypeOK'
  BY <1>1, <1>2, <1>7, <1>8, <1>12, <1>15 DEF TypeOK, CallBecomes, IterBecomes, Configs
<1>18. CallInv(b)'
  <2>1. OptionsFit(r)' /\ TakenInOrder(r)' /\ ContextOfCall(r)'
    BY <1>5 DEF OptionsFit, TakenInOrder, ContextOfCall
  <2>2. Serves(r.pattern, r.data)'
    BY <1>5 DEF Serves
  <2>3. ~(b[2] > depth'[b[1]])
    BY <1>2, <1>7
  <2> QED
    BY <1>7, <2>1, <2>2, <2>3 DEF CallInv, CallBecomes
<1>19. IterInv(i)'
  BY <1>4, <1>8 DEF IterInv, IterBecomes, Serves
<1>20. LeavesOthers(b, i, c.ctx, c.data)
  <2>1. JitOnlyOff
    BY <1>1 DEF JitOnlyOff
  <2>2. \A a \in Activations : /\ call[a].ctx # Null => call[a].ctx # c.ctx
                               /\ call[a].data # Null => call[a].data # c.data
    BY <1>02, IterAlone
  <2>3. \A j \in Iters : j # i => /\ iter[j].ctx # Null => iter[j].ctx # c.ctx
                                  /\ iter[j].data # Null => iter[j].data # c.data
    BY <1>02, IterAlone
  <2>4. \A y \in Allocated(pairs) : y # c.data => pairs'[y] = pairs[y]
    BY <1>12 DEF Allocated
  <2> QED
    BY <1>7, <1>8, <1>15, <2>1, <2>2, <2>3, <2>4 DEF LeavesOthers, CallBecomes, IterBecomes
<1>21. /\ \A a \in Activations : CallInv(a)'
       /\ \A j \in Iters : IterInv(j)'
  BY <1>18, <1>19, <1>20, OthersKept
<1>22. \A y \in Objects : (Clean(y) => Clean(y)') /\ (y = c.ctx => Clean(y)')
  BY <1>15 DEF Clean
<1>23. (\A y \in Objects \ contexts : Clean(y))'
  BY <1>15, <1>22 DEF IInv
<1>24. SlotContextsAreClean'
  <2>1. \A u \in Threads, k \in Slots : ctxSlot[u][k] # Null => ctxSlot[u][k] \in Objects
    BY <1>2 DEF TypeOK, Handle
  <2> QED
    BY <1>1, <1>15, <2>1 DEF IInv, SlotContextsAreClean
<1>25. DisabledCachesAreEmpty'
  BY <1>1, <1>12 DEF IInv, DisabledCachesAreEmpty
<1> QED
  BY <1>13, <1>14, <1>16, <1>17, <1>21, <1>23, <1>24, <1>25 DEF IInv


-----------------------------------------------------------------------------
(* The settings of the caches, and the end of a thread.                        *)

\* Emptying the slots of h for match data and for stacks.
FreesData(h) ==
  /\ pairs' = IF matchSlot[h] = Null THEN pairs ELSE [pairs EXCEPT ![matchSlot[h]] = 0]
  /\ matchSlot' = [matchSlot EXCEPT ![h] = Null]

FreesStack(h) ==
  /\ stacks' = stacks \ {jitSlot[h]}
  /\ jitSlot' = [jitSlot EXCEPT ![h] = Null]

LEMMA DataFreed ==
  ASSUME IInv, NEW h \in Homes, FreesData(h), UNCHANGED <<call, iter>>
  PROVE  /\ DatasOwned'
         /\ pairs' \in [Objects -> 0..MaxPairs] /\ matchSlot' \in [Homes -> Handle]
         /\ \A g \in Homes : matchSlot'[g] = IF g = h THEN Null ELSE matchSlot[g]
         /\ \A y \in Allocated(pairs) : y # matchSlot[h] => pairs'[y] = pairs[y]
         /\ \A a \in Activations : call[a].data # Null => call[a].data # matchSlot[h]
         /\ \A i \in Iters : iter[i].data # Null => iter[i].data # matchSlot[h]
<1>1. /\ pairs \in [Objects -> 0..MaxPairs] /\ matchSlot \in [Homes -> Handle]
      /\ Null \in Handle /\ Handle = Objects \cup {Null} /\ Null \notin Allocated(pairs)
  BY DEF IInv, TypeOK, Handle, Objects, Null, Allocated
<1>2. matchSlot' = With(matchSlot, h, Null) /\ DOMAIN matchSlot = Homes
  BY <1>1 DEF FreesData, With
<1>3. /\ pairs' \in [Objects -> 0..MaxPairs] /\ Allocated(pairs') = Allocated(pairs) \ {matchSlot[h]}
      /\ \A y \in Allocated(pairs) : y # matchSlot[h] => pairs'[y] = pairs[y]
  <2>1. CASE matchSlot[h] = Null
    BY <1>1, <2>1 DEF FreesData
  <2>2. CASE matchSlot[h] # Null
    <3>1. matchSlot[h] \in Objects /\ pairs' = [pairs EXCEPT ![matchSlot[h]] = 0]
      BY <1>1, <2>2 DEF FreesData
    <3>2. \A y \in Objects : y # matchSlot[h] => pairs'[y] = pairs[y]
      BY <1>1, <3>1
    <3>3. pairs' \in [Objects -> 0..MaxPairs] /\ Allocated(pairs') = Allocated(pairs) \ {matchSlot[h]}
      BY <1>1, <3>1, AllocatedChanges
    <3> QED
      BY <3>2, <3>3 DEF Allocated
  <2> QED
    BY <2>1, <2>2
<1>4. Owned(Holding(DatasOfCalls, DatasOfIters, With(matchSlot, h, Null)), Allocated(pairs) \ {matchSlot[h]})
  BY <1>2, HandsChange DEF IInv, DatasOwned
<1>5. DatasOwned'
  <2>1. DatasOfCalls' = DatasOfCalls /\ DatasOfIters' = DatasOfIters
    BY CallsAsTheyWere, ItersAsTheyWere
  <2>2. Allocated(pairs)' = Allocated(pairs')
    BY DEF Allocated
  <2> QED
    BY <1>2, <1>3, <1>4, <2>1, <2>2 DEF DatasOwned
<1>6. matchSlot' \in [Homes -> Handle] /\ \A g \in Homes : matchSlot'[g] = IF g = h THEN Null ELSE matchSlot[g]
  BY <1>1 DEF FreesData
<1>7. \A a \in Activations : call[a].data # Null => call[a].data # matchSlot[h]
  BY CallAlone
<1>8. \A i \in Iters : iter[i].data # Null => iter[i].data # matchSlot[h]
  BY IterAlone
<1> QED
  BY <1>3, <1>5, <1>6, <1>7, <1>8

LEMMA StackFreed ==
  ASSUME IInv, NEW h \in Homes, FreesStack(h), UNCHANGED <<call, iter>>
  PROVE  /\ StacksOwned' /\ stacks' \subseteq Objects /\ jitSlot' \in [Homes -> Handle]
         /\ \A g \in Homes : jitSlot'[g] = IF g = h THEN Null ELSE jitSlot[g]
<1>1. stacks \subseteq Objects /\ jitSlot \in [Homes -> Handle] /\ Null \in Handle
  BY DEF IInv, TypeOK, Handle
<1>2. jitSlot' = With(jitSlot, h, Null) /\ DOMAIN jitSlot = Homes
  BY <1>1 DEF FreesStack, With
<1>3. Owned(Holding(StacksOfCalls, StacksOfIters, With(jitSlot, h, Null)), stacks \ {jitSlot[h]})
  BY <1>2, HandsChange DEF IInv, StacksOwned
<1>4. StacksOwned'
  <2>1. StacksOfCalls' = StacksOfCalls /\ StacksOfIters' = StacksOfIters
    BY CallsAsTheyWere, ItersAsTheyWere
  <2> QED
    BY <1>2, <1>3, <2>1 DEF StacksOwned, FreesStack
<1> QED
  BY <1>1, <1>4 DEF FreesStack

\* Neither the calls nor the finditer objects notice when slots are emptied.
LEMMA SettingKeeps ==
  ASSUME IInv, NEW d, UNCHANGED <<depth, call, iter, jitOn, assigned, dirty>>,
         TypeOK', DatasOwned', StacksOwned', ContextsOwned', DisabledCachesAreEmpty',
         \A y \in Allocated(pairs) : y # d => pairs'[y] = pairs[y],
         \A a \in Activations : call[a].data # Null => call[a].data # d,
         \A i \in Iters : iter[i].data # Null => iter[i].data # d,
         \A u \in Threads, k \in Slots : ctxSlot'[u][k] \in {ctxSlot[u][k], Null},
         \A y \in Objects : y \notin contexts' => Clean(y)
  PROVE  IInv'
<1>1. PICK b : b \notin Activations
  BY NoSetContainsEverything
<1>2. PICK x : x \notin Iters
  BY NoSetContainsEverything
<1>3. \A y \in Objects : Null # y
  BY DEF Objects, Null
<1>4. LeavesOthers(b, x, Null, d)
  BY <1>3 DEF LeavesOthers, JitOnlyOff
<1>5. /\ \A a \in Activations : CallInv(a)'
      /\ \A i \in Iters : IterInv(i)'
  BY <1>1, <1>2, <1>4, OthersKept
<1>6. SlotContextsAreClean' /\ (\A y \in Objects \ contexts : Clean(y))'
  BY DEF IInv, SlotContextsAreClean, Clean
<1> QED
  BY <1>5, <1>6 DEF IInv

\* Where the contexts and their slots are left alone.
LEMMA ContextsStay ==
  ASSUME IInv, UNCHANGED <<call, iter, contexts, ctxSlot>>
  PROVE  /\ ContextsOwned'
         /\ \A u \in Threads, k \in Slots : ctxSlot'[u][k] \in {ctxSlot[u][k], Null}
         /\ \A y \in Objects : y \notin contexts' => Clean(y)
<1>1. ContextsOwned'
  BY CallsAsTheyWere, ItersAsTheyWere, ContextsLeft DEF IInv
<1> QED
  BY <1>1 DEF IInv

LEMMA StateStays ==
  ASSUME TypeOK, NEW t \in Threads, EnsureState(t)
  PROVE  state' \subseteq Threads
BY DEF TypeOK, EnsureState

LEMMA ClearMatchKeeps ==
  ASSUME IInv, NEW t \in Threads, ClearMatch(t)
  PROVE  IInv'
<1>01. PICK h \in Homes : h = Home(t)
  BY HomeIsHome
<1>1. /\ FreesData(h) /\ EnsureState(t)
      /\ UNCHANGED <<config, stacks, contexts, assigned, dirty, matchCap, jitSlot, jitCap, ctxSlot, jitOn,
                     depth, call, iter>>
  BY <1>01 DEF ClearMatch, FreesData
<1>2. /\ DatasOwned'
      /\ pairs' \in [Objects -> 0..MaxPairs] /\ matchSlot' \in [Homes -> Handle]
      /\ \A g \in Homes : matchSlot'[g] = IF g = h THEN Null ELSE matchSlot[g]
      /\ \A y \in Allocated(pairs) : y # matchSlot[h] => pairs'[y] = pairs[y]
      /\ \A a \in Activations : call[a].data # Null => call[a].data # matchSlot[h]
      /\ \A i \in Iters : iter[i].data # Null => iter[i].data # matchSlot[h]
  BY <1>1, DataFreed
<1>3. TypeOK'
  BY <1>1, <1>2, StateStays DEF IInv, TypeOK, Configs
<1>4. StacksOwned'
  BY <1>1, CallsAsTheyWere, ItersAsTheyWere, StacksLeft DEF IInv
<1>5. /\ ContextsOwned'
      /\ \A u \in Threads, k \in Slots : ctxSlot'[u][k] \in {ctxSlot[u][k], Null}
      /\ \A y \in Objects : y \notin contexts' => Clean(y)
  BY <1>1, ContextsStay
<1>6. DisabledCachesAreEmpty'
  BY <1>1, <1>2 DEF IInv, DisabledCachesAreEmpty
<1> QED
  BY <1>1, <1>2, <1>3, <1>4, <1>5, <1>6, SettingKeeps

LEMMA SetMatchSizeKeeps ==
  ASSUME IInv, NEW t \in Threads, NEW n \in 0..2, SetMatchSize(t, n)
  PROVE  IInv'
<1>01. PICK h \in Homes : h = Home(t)
  BY HomeIsHome
<1>1. /\ EnsureState(t) /\ matchCap' = [matchCap EXCEPT ![h] = Clamp(n)]
      /\ UNCHANGED <<config, stacks, contexts, assigned, dirty, jitSlot, jitCap, ctxSlot, jitOn,
                     depth, call, iter>>
  BY <1>01 DEF SetMatchSize
<1>2. /\ matchCap' \in [Homes -> 0..1] /\ matchCap'[h] = (IF n = 0 THEN 0 ELSE 1)
      /\ \A g \in Homes : g # h => matchCap'[g] = matchCap[g]
  BY <1>1 DEF IInv, TypeOK, Clamp
<1>3. /\ ContextsOwned'
      /\ \A u \in Threads, k \in Slots : ctxSlot'[u][k] \in {ctxSlot[u][k], Null}
      /\ \A y \in Objects : y \notin contexts' => Clean(y)
  BY <1>1, ContextsStay
<1>4. StacksOwned'
  BY <1>1, CallsAsTheyWere, ItersAsTheyWere, StacksLeft DEF IInv
<1>5. CASE n = 0
  <2>1. FreesData(h)
    BY <1>01, <1>5 DEF SetMatchSize, FreesData
  <2>2. /\ DatasOwned'
        /\ pairs' \in [Objects -> 0..MaxPairs] /\ matchSlot' \in [Homes -> Handle]
        /\ \A g \in Homes : matchSlot'[g] = IF g = h THEN Null ELSE matchSlot[g]
        /\ \A y \in Allocated(pairs) : y # matchSlot[h] => pairs'[y] = pairs[y]
        /\ \A a \in Activations : call[a].data # Null => call[a].data # matchSlot[h]
        /\ \A i \in Iters : iter[i].data # Null => iter[i].data # matchSlot[h]
    BY <1>1, <2>1, DataFreed
  <2>3. TypeOK'
    BY <1>1, <1>2, <2>2, StateStays DEF IInv, TypeOK, Configs
  <2>4. DisabledCachesAreEmpty'
    BY <1>1, <1>2, <2>2 DEF IInv, DisabledCachesAreEmpty
  <2> QED
    BY <1>1, <1>3, <1>4, <2>2, <2>3, <2>4, SettingKeeps
<1>6. CASE n # 0
  <2>1. UNCHANGED <<pairs, matchSlot>>
    BY <1>6 DEF SetMatchSize
  <2>2. DatasOwned'
    BY <1>1, <2>1, CallsAsTheyWere, ItersAsTheyWere, DatasLeft DEF IInv
  <2>3. TypeOK'
    BY <1>1, <1>2, <2>1, StateStays DEF IInv, TypeOK, Configs
  <2>4. DisabledCachesAreEmpty'
    BY <1>1, <1>2, <1>6, <2>1 DEF IInv, DisabledCachesAreEmpty
  <2>5. \A y \in Allocated(pairs) : y # Null => pairs'[y] = pairs[y]
    BY <2>1
  <2> QED
    BY <1>1, <1>3, <1>4, <2>2, <2>3, <2>4, <2>5, SettingKeeps
<1> QED
  BY <1>5, <1>6

LEMMA ClearJitKeeps ==
  ASSUME IInv, NEW t \in Threads, ClearJit(t)
  PROVE  IInv'
<1>01. PICK h \in Homes : h = Home(t)
  BY HomeIsHome
<1>1. /\ FreesStack(h) /\ EnsureState(t)
      /\ UNCHANGED <<config, pairs, contexts, assigned, dirty, matchSlot, matchCap, jitCap, ctxSlot, jitOn,
                     depth, call, iter>>
  BY <1>01 DEF ClearJit, FreesStack
<1>2. /\ StacksOwned' /\ stacks' \subseteq Objects /\ jitSlot' \in [Homes -> Handle]
      /\ \A g \in Homes : jitSlot'[g] = IF g = h THEN Null ELSE jitSlot[g]
  BY <1>1, StackFreed
<1>3. TypeOK'
  BY <1>1, <1>2, StateStays DEF IInv, TypeOK, Configs
<1>4. DatasOwned'
  BY <1>1, CallsAsTheyWere, ItersAsTheyWere, DatasLeft DEF IInv
<1>5. /\ ContextsOwned'
      /\ \A u \in Threads, k \in Slots : ctxSlot'[u][k] \in {ctxSlot[u][k], Null}
      /\ \A y \in Objects : y \notin contexts' => Clean(y)
  BY <1>1, ContextsStay
<1>6. DisabledCachesAreEmpty'
  BY <1>1, <1>2 DEF IInv, DisabledCachesAreEmpty
<1>7. \A y \in Allocated(pairs) : y # Null => pairs'[y] = pairs[y]
  BY <1>1
<1> QED
  BY <1>1, <1>2, <1>3, <1>4, <1>5, <1>6, <1>7, SettingKeeps

LEMMA SetJitSizeKeeps ==
  ASSUME IInv, NEW t \in Threads, NEW n \in 0..2, SetJitSize(t, n)
  PROVE  IInv'
<1>01. PICK h \in Homes : h = Home(t)
  BY HomeIsHome
<1>1. /\ EnsureState(t) /\ jitCap' = [jitCap EXCEPT ![h] = Clamp(n)]
      /\ UNCHANGED <<config, pairs, contexts, assigned, dirty, matchSlot, matchCap, ctxSlot, jitOn,
                     depth, call, iter>>
  BY <1>01 DEF SetJitSize
<1>2. /\ jitCap' \in [Homes -> 0..1] /\ jitCap'[h] = (IF n = 0 THEN 0 ELSE 1)
      /\ \A g \in Homes : g # h => jitCap'[g] = jitCap[g]
  BY <1>1 DEF IInv, TypeOK, Clamp
<1>3. /\ ContextsOwned'
      /\ \A u \in Threads, k \in Slots : ctxSlot'[u][k] \in {ctxSlot[u][k], Null}
      /\ \A y \in Objects : y \notin contexts' => Clean(y)
  BY <1>1, ContextsStay
<1>4. DatasOwned'
  BY <1>1, CallsAsTheyWere, ItersAsTheyWere, DatasLeft DEF IInv
<1>5. /\ StacksOwned' /\ stacks' \subseteq Objects /\ jitSlot' \in [Homes -> Handle]
      /\ n = 0 => \A g \in Homes : jitSlot'[g] = IF g = h THEN Null ELSE jitSlot[g]
      /\ n # 0 => jitSlot' = jitSlot
  <2>1. CASE n = 0
    <3>1. FreesStack(h)
      BY <1>01, <2>1 DEF SetJitSize, FreesStack
    <3> QED
      BY <1>1, <2>1, <3>1, StackFreed
  <2>2. CASE n # 0
    <3>1. UNCHANGED <<stacks, jitSlot>>
      BY <2>2 DEF SetJitSize
    <3>2. StacksOwned'
      BY <1>1, <3>1, CallsAsTheyWere, ItersAsTheyWere, StacksLeft DEF IInv
    <3> QED
      BY <2>2, <3>1, <3>2 DEF IInv, TypeOK
  <2> QED
    BY <2>1, <2>2
<1>6. TypeOK'
  BY <1>1, <1>2, <1>5, StateStays DEF IInv, TypeOK, Configs
<1>7. DisabledCachesAreEmpty'
  BY <1>1, <1>2, <1>5 DEF IInv, DisabledCachesAreEmpty
<1>8. \A y \in Allocated(pairs) : y # Null => pairs'[y] = pairs[y]
  BY <1>1
<1> QED
  BY <1>1, <1>3, <1>4, <1>5, <1>6, <1>7, <1>8, SettingKeeps


LEMMA ThreadExitKeeps ==
  ASSUME IInv, NEW t \in Threads, ThreadExit(t)
  PROVE  IInv'
<1>1. /\ state' = state \ {t} /\ contexts' = contexts \ ContextsOf(t)
      /\ ctxSlot' = [ctxSlot EXCEPT ![t] = NoContexts]
      /\ UNCHANGED <<config, assigned, dirty, jitOn, depth, call, iter>>
  BY DEF ThreadExit
<1>2. /\ TypeOK /\ contexts \subseteq Objects /\ ctxSlot \in [Threads -> [Slots -> Handle]]
      /\ Null \in Handle /\ Null \notin Objects /\ Slots = {"plain", "offset"} /\ t \in Homes
  BY DEF IInv, TypeOK, Handle, Objects, Null, Slots, Homes
<1>3. /\ ctxSlot' \in [Threads -> [Slots -> Handle]]
      /\ \A u \in Threads, k \in Slots : ctxSlot'[u][k] = IF u = t THEN Null ELSE ctxSlot[u][k]
  BY <1>1, <1>2 DEF NoContexts
<1>4. ContextsOwned'
  <2>1. /\ DOMAIN ContextsOfSlots = Threads \X Slots
        /\ Place(t, "plain") \in Threads \X Slots /\ Place(t, "offset") \in Threads \X Slots
        /\ ContextsOfSlots[Place(t, "plain")] = ctxSlot[t]["plain"]
        /\ ContextsOfSlots[Place(t, "offset")] = ctxSlot[t]["offset"]
        /\ Place(t, "plain") # Place(t, "offset")
    BY <1>2, SlotValues DEF Place
  <2> DEFINE one == With(ContextsOfSlots, Place(t, "plain"), Null)
             both == With(one, Place(t, "offset"), Null)
  <2>2. Owned(Holding(ContextsOfCalls, ContextsOfIters, one), contexts \ {ctxSlot[t]["plain"]})
    <3>1. Owned(Holding(ContextsOfCalls, ContextsOfIters, one), contexts \ {ContextsOfSlots[Place(t, "plain")]})
      BY <2>1, HandsChange DEF IInv, ContextsOwned
    <3> QED
      BY <2>1, <3>1
  <2>3. /\ DOMAIN one = Threads \X Slots /\ one[Place(t, "offset")] = ctxSlot[t]["offset"]
        /\ \A p \in Threads \X Slots : one[p] = IF p = Place(t, "plain") THEN Null ELSE ContextsOfSlots[p]
    BY <2>1 DEF With
  <2> HIDE DEF one
  <2>4. Owned(Holding(ContextsOfCalls, ContextsOfIters, both),
              (contexts \ {ctxSlot[t]["plain"]}) \ {ctxSlot[t]["offset"]})
    <3>1. Owned(Holding(ContextsOfCalls, ContextsOfIters, both),
                (contexts \ {ctxSlot[t]["plain"]}) \ {one[Place(t, "offset")]})
      BY <2>1, <2>2, <2>3, HandsChange
    <3> QED
      BY <2>3, <3>1
  <2>5. ContextsOfSlots' = both
    <3>1. \A p \in Threads \X Slots : p = <<p[1], p[2]>> /\ p[1] \in Threads /\ p[2] \in {"plain", "offset"}
      BY <1>2
    <3>2. \A p \in Threads \X Slots : p[1] = t <=> p = Place(t, "plain") \/ p = Place(t, "offset")
      BY <3>1 DEF Place
    <3>3. \A p \in Threads \X Slots :
            both[p] = IF p = Place(t, "plain") \/ p = Place(t, "offset") THEN Null ELSE ContextsOfSlots[p]
      BY <2>1, <2>3 DEF With
    <3>4. \A p \in Threads \X Slots : ContextsOfSlots'[p] = ctxSlot'[p[1]][p[2]]
                                      /\ ContextsOfSlots[p] = ctxSlot[p[1]][p[2]]
      BY DEF ContextsOfSlots
    <3>5. \A p \in Threads \X Slots : ContextsOfSlots'[p] = both[p]
      BY <1>2, <1>3, <3>1, <3>2, <3>3, <3>4
    <3>6. DOMAIN both = Threads \X Slots
      BY <2>3 DEF With
    <3> HIDE DEF both
    <3>7. ContextsOfSlots' = [p \in Threads \X Slots |-> ContextsOfSlots'[p]]
      BY DEF ContextsOfSlots
    <3>8. both = [p \in Threads \X Slots |-> both[p]]
      BY <2>3, <3>6 DEF both, With
    <3> QED
      BY <3>5, <3>7, <3>8
  <2>6. contexts' = (contexts \ {ctxSlot[t]["plain"]}) \ {ctxSlot[t]["offset"]}
    BY <1>1, <1>2 DEF ContextsOf
  <2>7. ContextsOfCalls' = ContextsOfCalls /\ ContextsOfIters' = ContextsOfIters
    BY <1>1, CallsAsTheyWere, ItersAsTheyWere
  <2> QED
    BY <2>4, <2>5, <2>6, <2>7 DEF ContextsOwned
<1>5. \A y \in Objects : y \notin contexts' => Clean(y)
  <2>1. \A y \in ContextsOf(t) : Clean(y)
    BY DEF IInv, SlotContextsAreClean, ContextsOf, Clean
  <2> QED
    BY <1>1, <2>1 DEF IInv
<1>6. \A u \in Threads, k \in Slots : ctxSlot'[u][k] \in {ctxSlot[u][k], Null}
  BY <1>3
<1>7. CASE Global
  <2>1. UNCHANGED <<pairs, stacks, matchSlot, matchCap, jitSlot, jitCap>>
    BY <1>7 DEF ThreadExit
  <2>2. DatasOwned' /\ StacksOwned'
    BY <1>1, <2>1, CallsAsTheyWere, ItersAsTheyWere, DatasLeft, StacksLeft DEF IInv
  <2>3. TypeOK'
    BY <1>1, <1>2, <1>3, <2>1 DEF TypeOK, Configs
  <2>4. DisabledCachesAreEmpty'
    BY <2>1 DEF IInv, DisabledCachesAreEmpty
  <2>5. \A y \in Allocated(pairs) : y # Null => pairs'[y] = pairs[y]
    BY <2>1
  <2> QED
    BY <1>1, <1>4, <1>5, <1>6, <2>2, <2>3, <2>4, <2>5, SettingKeeps
<1>8. CASE ~Global
  <2>1. /\ FreesData(t) /\ FreesStack(t)
        /\ matchCap' = [matchCap EXCEPT ![t] = 1] /\ jitCap' = [jitCap EXCEPT ![t] = 1]
    BY <1>8 DEF ThreadExit, FreesData, FreesStack
  <2>2. /\ DatasOwned'
        /\ pairs' \in [Objects -> 0..MaxPairs] /\ matchSlot' \in [Homes -> Handle]
        /\ \A g \in Homes : matchSlot'[g] = IF g = t THEN Null ELSE matchSlot[g]
        /\ \A y \in Allocated(pairs) : y # matchSlot[t] => pairs'[y] = pairs[y]
        /\ \A a \in Activations : call[a].data # Null => call[a].data # matchSlot[t]
        /\ \A i \in Iters : iter[i].data # Null => iter[i].data # matchSlot[t]
    BY <1>1, <1>2, <2>1, DataFreed
  <2>3. /\ StacksOwned' /\ stacks' \subseteq Objects /\ jitSlot' \in [Homes -> Handle]
        /\ \A g \in Homes : jitSlot'[g] = IF g = t THEN Null ELSE jitSlot[g]
    BY <1>1, <1>2, <2>1, StackFreed
  <2>4. /\ matchCap' \in [Homes -> 0..1] /\ jitCap' \in [Homes -> 0..1]
        /\ \A g \in Homes : g # t => matchCap'[g] = matchCap[g] /\ jitCap'[g] = jitCap[g]
    BY <1>2, <2>1 DEF TypeOK
  <2>5. TypeOK'
    BY <1>1, <1>2, <1>3, <2>2, <2>3, <2>4 DEF TypeOK, Configs
  <2>6. DisabledCachesAreEmpty'
    BY <2>2, <2>3, <2>4 DEF IInv, DisabledCachesAreEmpty
  <2> QED
    BY <1>1, <1>4, <1>5, <1>6, <2>2, <2>3, <2>5, <2>6, SettingKeeps
<1> QED
  BY <1>7, <1>8

-----------------------------------------------------------------------------
(* The invariant.                                                              *)

\* Nothing is held at first.
LEMMA NothingHeld ==
  ASSUME NEW A, NEW I, NEW S,
         \A a \in DOMAIN A : A[a] = Null, \A i \in DOMAIN I : I[i] = Null, \A s \in DOMAIN S : S[s] = Null
  PROVE  Owned(Holding(A, I, S), {})
<1>1. \A w \in DOMAIN Holding(A, I, S) : Holding(A, I, S)[w] = Null
  BY DEF Holding, Holders, ACall, AnIter, ASlot
<1> QED
  BY <1>1 DEF Owned

LEMMA InitIInv == Init => IInv
<1> SUFFICES ASSUME Init
             PROVE  IInv
  OBVIOUS
<1>1. MaxPairs \in Nat \ {0} /\ MaxObjects \in Nat \ {0} /\ Depth \in Nat \ {0}
  BY ResourceAssumption
<1>2. NoCall \in Calls /\ NoIter \in IterRecord /\ NoContexts \in [Slots -> Handle] /\ Null \in Handle
  <2>1. 1 \in Patterns /\ Null \in Handle
    BY <1>1 DEF Patterns, Handle
  <2> QED
    BY <2>1 DEF NoCall, Calls, Phases, AllKinds, NoIter, IterRecord, NoContexts
<1>3. TypeOK
  BY <1>1, <1>2 DEF Init, TypeOK
<1>4. /\ \A a \in Activations : call[a] = NoCall
      /\ \A i \in Iters : iter[i] = NoIter
      /\ \A h \in Homes : matchSlot[h] = Null /\ jitSlot[h] = Null
      /\ \A t \in Threads, k \in Slots : ctxSlot[t][k] = Null
      /\ DOMAIN matchSlot = Homes /\ DOMAIN jitSlot = Homes
  BY DEF Init, NoContexts
<1>5. /\ NoCall.data = Null /\ NoCall.ctx = Null /\ NoCall.stack = Null
      /\ NoIter.data = Null /\ NoIter.ctx = Null /\ NoIter.stack = Null
  BY DEF NoCall, NoIter
<1>6. DatasOwned
  <2>1. Allocated(pairs) = {}
    BY DEF Init, Allocated
  <2>2. Owned(Holding(DatasOfCalls, DatasOfIters, matchSlot), {})
    BY <1>4, <1>5, HeldValues, NothingHeld
  <2> QED
    BY <2>1, <2>2 DEF DatasOwned
<1>7. StacksOwned
  <2>1. Owned(Holding(StacksOfCalls, StacksOfIters, jitSlot), {})
    BY <1>4, <1>5, HeldValues, NothingHeld
  <2> QED
    BY <2>1 DEF StacksOwned, Init
<1>8. ContextsOwned
  <2>1. \A p \in DOMAIN ContextsOfSlots : ContextsOfSlots[p] = Null
    BY <1>4 DEF ContextsOfSlots
  <2>2. Owned(Holding(ContextsOfCalls, ContextsOfIters, ContextsOfSlots), {})
    BY <1>4, <1>5, <2>1, HeldValues, NothingHeld
  <2> QED
    BY <2>2 DEF ContextsOwned, Init
<1>9. \A a \in Activations : CallInv(a)
  <2>1. OptionsFit(NoCall) /\ TakenInOrder(NoCall) /\ ContextOfCall(NoCall)
    BY DEF OptionsFit, TakenInOrder, ContextOfCall, NoCall, NeedsContext
  <2>2. Serves(NoCall.pattern, NoCall.data)
    BY <1>5 DEF Serves
  <2> QED
    BY <1>4, <2>1, <2>2 DEF CallInv
<1>10. \A i \in Iters : IterInv(i)
  BY <1>4, <1>5 DEF IterInv, Serves
<1>11. SlotContextsAreClean /\ DisabledCachesAreEmpty
  BY <1>4 DEF SlotContextsAreClean, DisabledCachesAreEmpty
<1>12. \A o \in Objects \ contexts : Clean(o)
  BY DEF Init, Clean
<1> QED
  BY <1>3, <1>6, <1>7, <1>8, <1>9, <1>10, <1>11, <1>12 DEF IInv


LEMMA NextKeeps ==
  ASSUME IInv, [Next]_vars
  PROVE  IInv'
<1>1. CASE UNCHANGED vars
  <2>1. UNCHANGED <<config, pairs, stacks, contexts, assigned, dirty, jitOn, state, matchSlot, matchCap,
                    jitSlot, jitCap, ctxSlot, depth, call, iter>>
    BY <1>1 DEF vars, objects, caches
  <2>2. DatasOwned' /\ StacksOwned' /\ ContextsOwned'
    BY <2>1, CallsAsTheyWere, ItersAsTheyWere, DatasLeft, StacksLeft, ContextsLeft DEF IInv
  <2>3. TypeOK' /\ DisabledCachesAreEmpty'
    BY <2>1 DEF IInv, TypeOK, DisabledCachesAreEmpty, Configs
  <2>4. /\ \A y \in Allocated(pairs) : y # Null => pairs'[y] = pairs[y]
        /\ \A u \in Threads, k \in Slots : ctxSlot'[u][k] \in {ctxSlot[u][k], Null}
        /\ \A y \in Objects : y \notin contexts' => Clean(y)
    BY <2>1, ContextsStay
  <2> QED
    BY <2>1, <2>2, <2>3, <2>4, SettingKeeps
<1>2. CASE Next
  <2>1. PICK t \in Threads :
          \/ \E kind \in Kinds, p \in Patterns, limit, callout \in BOOLEAN : Begin(t, kind, p, limit, callout)
          \/ Step(t)
          \/ \E i \in Iters : IterCreated(t, i) \/ IterBadOption(t, i) \/ IterDealloc(t, i)
          \/ Settings(t)
    BY <1>2 DEF Next
  <2>2. CASE \E kind \in Kinds, p \in Patterns, limit, callout \in BOOLEAN : Begin(t, kind, p, limit, callout)
    BY <2>2, BeginKeeps
  <2>3. CASE Step(t)
    BY <2>3, TakeContextKeeps, TakeStackKeeps, FailKeeps, ExecuteRunKeeps, ScanBadOptionKeeps,
       StackOutKeeps, ContextOutKeeps, DataOutKeeps DEF Step
  <2>4. CASE \E i \in Iters : IterCreated(t, i) \/ IterBadOption(t, i) \/ IterDealloc(t, i)
    BY <2>4, IterCreatedKeeps, IterBadOptionKeeps, IterDeallocKeeps
  <2>5. CASE Settings(t)
    BY <2>5, SetMatchSizeKeeps, SetJitSizeKeeps, ClearMatchKeeps, ClearJitKeeps, ThreadExitKeeps DEF Settings
  <2> QED
    BY <2>1, <2>2, <2>3, <2>4, <2>5
<1> QED
  BY <1>1, <1>2

LEMMA SpecIInv == Spec => []IInv
BY InitIInv, NextKeeps, PTL DEF Spec

\* The variables of MatchResources stay within their types.
THEOREM ResourceTypes == Spec => []TypeOK
<1>1. IInv => TypeOK
  BY DEF IInv
<1> QED
  BY <1>1, SpecIInv, PTL

\* No context waits in a slot of match_context_cache_acquire with a stack, an
\* offset limit or a callout left on it.
THEOREM SlotContextsStayClean == Spec => []SlotContextsAreClean
<1>1. IInv => SlotContextsAreClean
  BY DEF IInv
<1> QED
  BY <1>1, SpecIInv, PTL

\* A cache whose size was set to 0 holds nothing, whatever was out at the time.
THEOREM DisabledCachesStayEmpty == Spec => []DisabledCachesAreEmpty
<1>1. IInv => DisabledCachesAreEmpty
  BY DEF IInv
<1> QED
  BY <1>1, SpecIInv, PTL

\* Every call and every iterator runs on match data large enough for its pattern,
\* on a context that has its own stack, and on JIT code only with a stack.
THEOREM CallsRunOnWhatTheyNeed == Spec => []RunsOnWhatItNeeds
<1>1. IInv => RunsOnWhatItNeeds
  <2> SUFFICES ASSUME IInv
               PROVE  RunsOnWhatItNeeds
    OBVIOUS
  <2>1. ASSUME NEW a \in CallsDeep
        PROVE  /\ call[a].ctx # Null => assigned[call[a].ctx] = call[a].stack
               /\ call[a].pc = "run" /\ call[a].jit /\ call[a].kind # "substitute" => call[a].stack # Null
               /\ call[a].stack # Null /\ call[a].pc # "stack out" => call[a].ctx # Null
               /\ call[a].data # Null => pairs[call[a].data] >= call[a].pattern
    <3>1. CallInv(a)
      BY DEF IInv, CallsDeep
    <3> QED
      BY <3>1 DEF CallInv, ContextOfCall, TakenInOrder, Serves
  <2>2. ASSUME NEW i \in Iters
        PROVE  /\ iter[i].ctx # Null => assigned[iter[i].ctx] = iter[i].stack
               /\ iter[i].data # Null /\ jitOn[iter[i].pattern] => iter[i].stack # Null /\ iter[i].ctx # Null
               /\ iter[i].data # Null => pairs[iter[i].data] >= iter[i].pattern
    <3>1. IterInv(i)
      BY DEF IInv
    <3> QED
      BY <3>1 DEF IterInv, Serves
  <2> QED
    BY <2>1, <2>2 DEF RunsOnWhatItNeeds
<1> QED
  BY <1>1, SpecIInv, PTL

\* Ownership carries over to owners named another way.
LEMMA OwnersApart ==
  ASSUME NEW f, NEW live, Owned(f, live), NEW W, NEW name, NEW held,
         \A w \in W : name[w] \in DOMAIN f /\ held[w] = f[name[w]],
         \A v, w \in W : v # w => name[v] # name[w],
         \A u \in DOMAIN f : f[u] # Null => \E w \in W : name[w] = u
  PROVE  /\ \A v, w \in W : v # w => held[v] = Null \/ held[v] # held[w]
         /\ live = {held[w] : w \in W} \ {Null}
<1>1. \A v, w \in W : v # w => held[v] = Null \/ held[v] # held[w]
  BY DEF Owned
<1>2. \A o : o \in live <=> o # Null /\ \E u \in DOMAIN f : f[u] = o
  BY DEF Owned
<1>3. \A o : o # Null => ((\E u \in DOMAIN f : f[u] = o) <=> (\E w \in W : held[w] = o))
  OBVIOUS
<1> QED
  BY <1>1, <1>2, <1>3

\* A call beyond the depth of its thread holds nothing.
LEMMA DeepHoldNothing ==
  ASSUME IInv, NEW a \in Activations, a \notin CallsDeep
  PROVE  call[a].data = Null /\ call[a].stack = Null /\ call[a].ctx = Null
<1>1. a[1] \in Threads /\ a[2] \in Nat /\ depth[a[1]] \in Nat
  BY ResourceAssumption DEF IInv, TypeOK, Activations
<1>2. a[2] > depth[a[1]]
  BY <1>1 DEF CallsDeep
<1>3. call[a] = NoCall
  BY <1>2 DEF IInv, CallInv
<1> QED
  BY <1>3 DEF NoCall

LEMMA DatasOwnedOnce ==
  ASSUME IInv
  PROVE  /\ \A v, w \in DataOwners : v # w => HeldData(v) = Null \/ HeldData(v) # HeldData(w)
         /\ Allocated(pairs) = {HeldData(w) : w \in DataOwners} \ {Null}
<1> DEFINE f == Holding(DatasOfCalls, DatasOfIters, matchSlot)
<1>1. /\ \A a \in Activations : ACall(a) \in DOMAIN f /\ f[ACall(a)] = call[a].data
      /\ \A i \in Iters : AnIter(i) \in DOMAIN f /\ f[AnIter(i)] = iter[i].data
      /\ \A h \in Homes : ASlot(h) \in DOMAIN f /\ f[ASlot(h)] = matchSlot[h]
      /\ DOMAIN f = {ACall(a) : a \in Activations} \cup {AnIter(i) : i \in Iters} \cup {ASlot(h) : h \in Homes}
  <2>1. DOMAIN matchSlot = Homes
    BY DEF IInv, TypeOK
  <2>2. DOMAIN f = Holders(DatasOfCalls, DatasOfIters, matchSlot)
    BY HoldingValues
  <2>3. DOMAIN f = {ACall(a) : a \in Activations} \cup {AnIter(i) : i \in Iters} \cup {ASlot(h) : h \in Homes}
    BY <2>1, <2>2, HeldValues DEF Holders
  <2>4. \A a \in Activations : ACall(a) \in DOMAIN f /\ f[ACall(a)] = call[a].data
    BY <2>2, HoldingValues, HeldValues
  <2>5. \A i \in Iters : AnIter(i) \in DOMAIN f /\ f[AnIter(i)] = iter[i].data
    BY <2>2, HoldingValues, HeldValues
  <2>6. \A h \in Homes : ASlot(h) \in DOMAIN f /\ f[ASlot(h)] = matchSlot[h]
    BY <2>1, <2>2, HoldingValues
  <2> QED
    BY <2>3, <2>4, <2>5, <2>6
<1>2. /\ \A a \in CallsDeep : HeldData(ACall(a)) = call[a].data
      /\ \A i \in Iters : HeldData(AnIter(i)) = iter[i].data
      /\ \A h \in Homes : HeldData(ASlot(h)) = matchSlot[h]
      /\ CallsDeep \subseteq Activations
  BY DEF HeldData, ACall, AnIter, ASlot, CallsDeep
<1>3. DataOwners = {ACall(a) : a \in CallsDeep} \cup {AnIter(i) : i \in Iters} \cup {ASlot(h) : h \in Homes}
  BY DEF DataOwners, ACall, AnIter, ASlot
<1>4. \A a \in Activations : a \notin CallsDeep => call[a].data = Null
  BY DeepHoldNothing
<1>5. Owned(f, Allocated(pairs))
  BY DEF IInv, DatasOwned
<1> HIDE DEF f
<1>6. \A w \in DataOwners : w \in DOMAIN f /\ HeldData(w) = f[w]
  BY <1>1, <1>2, <1>3
<1>7. \A u \in DOMAIN f : f[u] # Null => u \in DataOwners
  BY <1>1, <1>3, <1>4
<1>8. \A v, w \in DataOwners : v # w => HeldData(v) = Null \/ HeldData(v) # HeldData(w)
  <2>1. \A v, w \in DOMAIN f : v # w => f[v] = Null \/ f[v] # f[w]
    BY <1>5 DEF Owned
  <2> QED
    BY <1>6, <2>1
<1>9. Allocated(pairs) = {HeldData(w) : w \in DataOwners} \ {Null}
  <2>1. \A o : o \in Allocated(pairs) <=> o # Null /\ \E u \in DOMAIN f : f[u] = o
    BY <1>5 DEF Owned
  <2>2. \A o : o # Null => ((\E u \in DOMAIN f : f[u] = o) <=> (\E w \in DataOwners : HeldData(w) = o))
    BY <1>6, <1>7
  <2> QED
    BY <2>1, <2>2
<1> QED
  BY <1>8, <1>9

LEMMA StacksOwnedOnce ==
  ASSUME IInv
  PROVE  /\ \A v, w \in DataOwners : v # w => HeldStack(v) = Null \/ HeldStack(v) # HeldStack(w)
         /\ stacks = {HeldStack(w) : w \in DataOwners} \ {Null}
<1> DEFINE f == Holding(StacksOfCalls, StacksOfIters, jitSlot)
<1>1. /\ \A a \in Activations : ACall(a) \in DOMAIN f /\ f[ACall(a)] = call[a].stack
      /\ \A i \in Iters : AnIter(i) \in DOMAIN f /\ f[AnIter(i)] = iter[i].stack
      /\ \A h \in Homes : ASlot(h) \in DOMAIN f /\ f[ASlot(h)] = jitSlot[h]
      /\ DOMAIN f = {ACall(a) : a \in Activations} \cup {AnIter(i) : i \in Iters} \cup {ASlot(h) : h \in Homes}
  <2>1. DOMAIN jitSlot = Homes
    BY DEF IInv, TypeOK
  <2>2. DOMAIN f = Holders(StacksOfCalls, StacksOfIters, jitSlot)
    BY HoldingValues
  <2>3. DOMAIN f = {ACall(a) : a \in Activations} \cup {AnIter(i) : i \in Iters} \cup {ASlot(h) : h \in Homes}
    BY <2>1, <2>2, HeldValues DEF Holders
  <2>4. \A a \in Activations : ACall(a) \in DOMAIN f /\ f[ACall(a)] = call[a].stack
    BY <2>2, HoldingValues, HeldValues
  <2>5. \A i \in Iters : AnIter(i) \in DOMAIN f /\ f[AnIter(i)] = iter[i].stack
    BY <2>2, HoldingValues, HeldValues
  <2>6. \A h \in Homes : ASlot(h) \in DOMAIN f /\ f[ASlot(h)] = jitSlot[h]
    BY <2>1, <2>2, HoldingValues
  <2> QED
    BY <2>3, <2>4, <2>5, <2>6
<1>2. /\ \A a \in CallsDeep : HeldStack(ACall(a)) = call[a].stack
      /\ \A i \in Iters : HeldStack(AnIter(i)) = iter[i].stack
      /\ \A h \in Homes : HeldStack(ASlot(h)) = jitSlot[h]
      /\ CallsDeep \subseteq Activations
  BY DEF HeldStack, ACall, AnIter, ASlot, CallsDeep
<1>3. DataOwners = {ACall(a) : a \in CallsDeep} \cup {AnIter(i) : i \in Iters} \cup {ASlot(h) : h \in Homes}
  BY DEF DataOwners, ACall, AnIter, ASlot
<1>4. \A a \in Activations : a \notin CallsDeep => call[a].stack = Null
  BY DeepHoldNothing
<1>5. Owned(f, stacks)
  BY DEF IInv, StacksOwned
<1> HIDE DEF f
<1>6. \A w \in DataOwners : w \in DOMAIN f /\ HeldStack(w) = f[w]
  BY <1>1, <1>2, <1>3
<1>7. \A u \in DOMAIN f : f[u] # Null => u \in DataOwners
  BY <1>1, <1>3, <1>4
<1>8. \A v, w \in DataOwners : v # w => HeldStack(v) = Null \/ HeldStack(v) # HeldStack(w)
  <2>1. \A v, w \in DOMAIN f : v # w => f[v] = Null \/ f[v] # f[w]
    BY <1>5 DEF Owned
  <2> QED
    BY <1>6, <2>1
<1>9. stacks = {HeldStack(w) : w \in DataOwners} \ {Null}
  <2>1. \A o : o \in stacks <=> o # Null /\ \E u \in DOMAIN f : f[u] = o
    BY <1>5 DEF Owned
  <2>2. \A o : o # Null => ((\E u \in DOMAIN f : f[u] = o) <=> (\E w \in DataOwners : HeldStack(w) = o))
    BY <1>6, <1>7
  <2> QED
    BY <2>1, <2>2
<1> QED
  BY <1>8, <1>9

LEMMA ContextsOwnedOnce ==
  ASSUME IInv
  PROVE  /\ \A v, w \in ContextOwners : v # w => HeldContext(v) = Null \/ HeldContext(v) # HeldContext(w)
         /\ contexts = {HeldContext(w) : w \in ContextOwners} \ {Null}
<1> DEFINE f == Holding(ContextsOfCalls, ContextsOfIters, ContextsOfSlots)
           name == [w \in ContextOwners |-> IF w[1] = "slot" THEN ASlot(Place(w[2], w[3])) ELSE w]
           held == [w \in ContextOwners |-> HeldContext(w)]
           slot(t, k) == <<"slot", t, k>>
<1>1. /\ \A a \in Activations : ACall(a) \in DOMAIN f /\ f[ACall(a)] = call[a].ctx
      /\ \A i \in Iters : AnIter(i) \in DOMAIN f /\ f[AnIter(i)] = iter[i].ctx
      /\ \A t \in Threads, k \in Slots : ASlot(Place(t, k)) \in DOMAIN f /\ f[ASlot(Place(t, k))] = ctxSlot[t][k]
      /\ DOMAIN f = {ACall(a) : a \in Activations} \cup {AnIter(i) : i \in Iters}
                    \cup {ASlot(p) : p \in Threads \X Slots}
  <2>1. DOMAIN f = Holders(ContextsOfCalls, ContextsOfIters, ContextsOfSlots)
    BY HoldingValues
  <2>2. DOMAIN f = {ACall(a) : a \in Activations} \cup {AnIter(i) : i \in Iters}
                   \cup {ASlot(p) : p \in Threads \X Slots}
    BY <2>1, HeldValues, SlotValues DEF Holders
  <2>3. \A a \in Activations : ACall(a) \in DOMAIN f /\ f[ACall(a)] = call[a].ctx
    BY <2>1, HoldingValues, HeldValues
  <2>4. \A i \in Iters : AnIter(i) \in DOMAIN f /\ f[AnIter(i)] = iter[i].ctx
    BY <2>1, HoldingValues, HeldValues
  <2>5. \A p \in Threads \X Slots : ASlot(p) \in DOMAIN f /\ f[ASlot(p)] = ContextsOfSlots[p]
    BY <2>1, HoldingValues, SlotValues
  <2>6. \A t \in Threads, k \in Slots : ASlot(Place(t, k)) \in DOMAIN f /\ f[ASlot(Place(t, k))] = ctxSlot[t][k]
    BY <2>5, SlotValues
  <2> QED
    BY <2>2, <2>3, <2>4, <2>6
<1>2. \A p \in Threads \X Slots : \E t \in Threads, k \in Slots : p = Place(t, k)
  BY DEF Place
<1>3. /\ \A a \in CallsDeep : HeldContext(ACall(a)) = call[a].ctx
      /\ \A i \in Iters : HeldContext(AnIter(i)) = iter[i].ctx
      /\ \A t \in Threads, k \in Slots : HeldContext(slot(t, k)) = ctxSlot[t][k]
      /\ CallsDeep \subseteq Activations
  BY DEF HeldContext, ACall, AnIter, CallsDeep
<1>4. ContextOwners = {ACall(a) : a \in CallsDeep} \cup {AnIter(i) : i \in Iters}
                      \cup {slot(t, k) : t \in Threads, k \in Slots}
  BY DEF ContextOwners, ACall, AnIter
<1>5. \A a \in Activations : a \notin CallsDeep => call[a].ctx = Null
  BY DeepHoldNothing
<1>6. Owned(f, contexts)
  BY DEF IInv, ContextsOwned
<1>7. /\ \A a \in CallsDeep : name[ACall(a)] = ACall(a)
      /\ \A i \in Iters : name[AnIter(i)] = AnIter(i)
      /\ \A t \in Threads, k \in Slots : name[slot(t, k)] = ASlot(Place(t, k))
  <2>1. /\ \A a \in CallsDeep : ACall(a) \in ContextOwners /\ ACall(a)[1] # "slot"
        /\ \A i \in Iters : AnIter(i) \in ContextOwners /\ AnIter(i)[1] # "slot"
        /\ \A t \in Threads, k \in Slots : /\ slot(t, k) \in ContextOwners /\ slot(t, k)[1] = "slot"
                                           /\ slot(t, k)[2] = t /\ slot(t, k)[3] = k
    BY <1>4 DEF ACall, AnIter
  <2> HIDE DEF slot
  <2> QED
    BY <2>1
<1>8. /\ \A x, y : (ACall(x) = ACall(y) \/ AnIter(x) = AnIter(y) \/ ASlot(x) = ASlot(y)) => x = y
      /\ \A x, y : ACall(x) # AnIter(y) /\ ACall(x) # ASlot(y) /\ AnIter(x) # ASlot(y)
      /\ \A t, u \in Threads, k, j \in Slots : Place(t, k) = Place(u, j) => t = u /\ k = j
  BY SlotValues DEF ACall, AnIter, ASlot
<1>9. \A w \in ContextOwners : held[w] = HeldContext(w)
  OBVIOUS
<1> HIDE DEF f, name, held, slot
<1>10. \A w \in ContextOwners : name[w] \in DOMAIN f /\ held[w] = f[name[w]]
  BY <1>1, <1>3, <1>4, <1>7, <1>9
<1>11. \A u \in DOMAIN f : f[u] # Null => \E w \in ContextOwners : name[w] = u
  <2> SUFFICES ASSUME NEW u \in DOMAIN f, f[u] # Null
               PROVE  \E w \in ContextOwners : name[w] = u
    OBVIOUS
  <2>1. CASE \E a \in Activations : u = ACall(a)
    BY <1>1, <1>4, <1>5, <1>7, <2>1
  <2>2. CASE \E i \in Iters : u = AnIter(i)
    BY <1>4, <1>7, <2>2
  <2>3. CASE \E p \in Threads \X Slots : u = ASlot(p)
    <3>1. PICK t \in Threads, k \in Slots : u = ASlot(Place(t, k))
      BY <1>2, <2>3
    <3> QED
      BY <1>4, <1>7, <3>1
  <2> QED
    BY <1>1, <2>1, <2>2, <2>3
<1>12. \A v, w \in ContextOwners : v # w => name[v] # name[w]
  <2> SUFFICES ASSUME NEW v \in ContextOwners, NEW w \in ContextOwners, name[v] = name[w]
               PROVE  v = w
    OBVIOUS
  <2>1. CASE \E a \in CallsDeep : v = ACall(a)
    BY <1>4, <1>7, <1>8, <2>1
  <2>2. CASE \E i \in Iters : v = AnIter(i)
    BY <1>4, <1>7, <1>8, <2>2
  <2>3. CASE \E t \in Threads, k \in Slots : v = slot(t, k)
    <3>1. PICK t \in Threads, k \in Slots : v = slot(t, k)
      BY <2>3
    <3>2. name[w] = ASlot(Place(t, k))
      BY <1>7, <3>1
    <3>3. PICK u \in Threads, j \in Slots : w = slot(u, j)
      <4>1. \A a \in CallsDeep : w # ACall(a)
        BY <1>7, <1>8, <3>2
      <4>2. \A i \in Iters : w # AnIter(i)
        BY <1>7, <1>8, <3>2
      <4> QED
        BY <1>4, <4>1, <4>2
    <3>4. Place(u, j) = Place(t, k)
      <4>1. name[w] = ASlot(Place(u, j))
        BY <1>7, <3>3
      <4>2. \A x, y : ASlot(x) = ASlot(y) => x = y
        BY DEF ASlot
      <4> QED
        BY <3>2, <4>1, <4>2
    <3> QED
      BY <1>8, <3>1, <3>3, <3>4
  <2> QED
    BY <1>4, <2>1, <2>2, <2>3
<1>13. /\ \A v, w \in ContextOwners : v # w => held[v] = Null \/ held[v] # held[w]
       /\ contexts = {held[w] : w \in ContextOwners} \ {Null}
  BY SMTT(30), <1>6, <1>10, <1>11, <1>12, OwnersApart
<1> QED
  BY <1>9, <1>13

\* What the acquires of pcre_ext/cache.c hand out is held by one call, iterator or
\* slot at a time, and what is allocated is held: nothing is used after it is
\* freed, freed twice or leaked.
THEOREM ResourcesAreOwnedOnce == Spec => []OwnedOnceAndLive
<1>1. IInv => OwnedOnceAndLive
  BY DatasOwnedOnce, StacksOwnedOnce, ContextsOwnedOnce DEF OwnedOnceAndLive
<1> QED
  BY <1>1, SpecIInv, PTL
================================================================================
