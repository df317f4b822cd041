--------------------------- MODULE ThreadPool_proofs ---------------------------
(* The safety of the shared executor, for every number of callers, executors,  *)
(* workers, chunks and calls.                                                  *)
EXTENDS ThreadPool, SequenceTheorems, TLAPS

\* A lease is on the executor in place.
LeaseOnCurrent ==
  \A a \in Actors : op[a].pc = "submit" => op[a].pool = current /\ current # None

\* The executor in place is open, and the newest.
CurrentIsNewest == current # None => open[current] /\ current = created

\* An executor not created yet accepts nothing and has no threads.
Unborn == \A p \in Pools : p > created => ~open[p] /\ width[p] = None

\* An executor to be shut down has been created, and is no longer in place; only
\* the phases from the lease to the last join know one, and in the first two it
\* has its number.
OldIsRetired ==
  \A a \in Actors :
    op[a].old # None =>
      /\ op[a].old <= created
      /\ op[a].old # current
      /\ op[a].pc \in {"submit", "shut", "pick", "join"}

\* A thread that runs a chunk or is in a call belongs to a created executor.
WorkersAreBorn ==
  \A w \in Workers : task[w] # NoTask \/ op[w].pc # "ready" => w[1] <= created

\* A chunk to be submitted belongs to a map.
ChunksHaveABatch == \A a \in Actors : op[a].todo > 0 => op[a].batch \in Batch

IInv ==
  /\ TypeOK
  /\ NoSubmissionRefused
  /\ OpenPoolsAreOwned
  /\ LockHeldByLease
  /\ WaitsPointForward
  /\ LeaseOnCurrent
  /\ CurrentIsNewest
  /\ Unborn
  /\ OldIsRetired
  /\ WorkersAreBorn
  /\ ChunksHaveABatch
-----------------------------------------------------------------------------
\* No executor (None) is told apart from every executor and every size.
LEMMA NoneIsNoPool == None \notin Pools /\ None \notin Sizes
BY DEF None, Pools, Sizes

\* The program starts with no executor, no call and a free lock.
LEMMA InitIInv == Init => IInv
<1> SUFFICES ASSUME Init PROVE IInv
  OBVIOUS
<1> USE PoolAssumption DEF Init, Rest, None, NoTask
<1>1. TypeOK
  BY DEF TypeOK, Op, Phases, Pools, Sizes, Workers, Actors, Batch
<1>2. NoSubmissionRefused /\ LockHeldByLease
  BY DEF NoSubmissionRefused, LockHeldByLease, Actors, Workers, Pools, Sizes
<1>3. OpenPoolsAreOwned
  BY DEF OpenPoolsAreOwned, Actors, Workers, Pools, Sizes
<1>4. WaitsPointForward /\ LeaseOnCurrent /\ CurrentIsNewest /\ Unborn
  BY DEF WaitsPointForward, LeaseOnCurrent, CurrentIsNewest, Unborn, Actors
<1>5. OldIsRetired /\ WorkersAreBorn /\ ChunksHaveABatch
  BY DEF OldIsRetired, WorkersAreBorn, ChunksHaveABatch, Actors
<1> QED
  BY <1>1, <1>2, <1>3, <1>4, <1>5 DEF IInv

\* Submit
LEMMA SubmitStep ==
  ASSUME IInv, NEW a \in Actors, Submit(a)
  PROVE  IInv'
<1> USE PoolAssumption
<1>1. op[a].pool \in Pools /\ open[op[a].pool]
  BY NoneIsNoPool DEF IInv, Submit, LeaseOnCurrent, CurrentIsNewest, TypeOK, None
<1>2. /\ queue' = [queue EXCEPT ![op[a].pool] = Append(@, op[a].batch)]
      /\ op' = [op EXCEPT ![a].todo = @ - 1]
      /\ UNCHANGED <<pools, lock, open, task, calls, failed>>
  BY <1>1 DEF Submit
<1>3. op[a] \in Op /\ op'[a] \in Op /\ op' \in [Actors -> Op]
  <2>1. op[a] \in Op /\ op[a].todo \in 1..MaxChunks
    BY DEF IInv, TypeOK, Submit, Op
  <2>2. op'[a] = [op[a] EXCEPT !.todo = @ - 1]
    BY <1>2 DEF IInv, TypeOK
  <2>3. op'[a] \in Op
    BY <2>1, <2>2 DEF Op
  <2> QED
    BY <2>1, <2>3, <1>2 DEF IInv, TypeOK
<1>4. op[a].batch \in Batch
  BY DEF IInv, ChunksHaveABatch, Submit
<1>5. TypeOK'
  <2>1. queue' \in [Pools -> Seq(Batch)]
    BY <1>1, <1>2, <1>4 DEF IInv, TypeOK
  <2> QED
    BY <1>2, <1>3, <2>1 DEF IInv, TypeOK, pools
<1>6. \A b \in Actors :
         /\ op'[b].pc = op[b].pc /\ op'[b].old = op[b].old
         /\ op'[b].pool = op[b].pool /\ op'[b].batch = op[b].batch
  BY <1>2, <1>3 DEF IInv, TypeOK, Op
<1>7. NoSubmissionRefused' /\ LockHeldByLease' /\ LeaseOnCurrent'
  BY <1>2, <1>6 DEF IInv, pools, NoSubmissionRefused, LockHeldByLease, LeaseOnCurrent
<1>8. OpenPoolsAreOwned' /\ OldIsRetired'
  BY <1>2, <1>6 DEF IInv, pools, OpenPoolsAreOwned, OldIsRetired
<1>9. WaitsPointForward' /\ WorkersAreBorn'
  BY <1>2, <1>6 DEF IInv, pools, WaitsPointForward, WorkersAreBorn, Actors
<1>10. CurrentIsNewest' /\ Unborn'
  BY <1>2 DEF IInv, pools, CurrentIsNewest, Unborn
<1>11. ChunksHaveABatch'
  BY <1>2, <1>3, <1>4, <1>6 DEF IInv, ChunksHaveABatch, TypeOK
<1> QED
  BY <1>5, <1>7, <1>8, <1>9, <1>10, <1>11 DEF IInv
-----------------------------------------------------------------------------
(* Steps that only move a call from one phase outside the lock to another.     *)

Passive == {"ready", "ensure", "size", "lease", "wait"}

\* A call that holds no executor before and after disturbs nothing.
LEMMA PassiveStep ==
  ASSUME IInv, TypeOK', NEW a \in Actors, NEW r \in Op,
         UNCHANGED <<created, current, width, lock, open, task>>,
         op' = [op EXCEPT ![a] = r],
         op[a].pc \in Passive,
         r.pc \in Passive, r.old = None,
         r.todo > 0 => r.batch \in Batch,
         a \in Workers => a[1] <= created
  PROVE  IInv'
<1>1. op \in [Actors -> Op] /\ op'[a] = r /\ \A b \in Actors : b # a => op'[b] = op[b]
  BY DEF IInv, TypeOK
<1>2. op[a].old = None
  BY DEF IInv, OldIsRetired, Passive
<1>3. NoSubmissionRefused' /\ LeaseOnCurrent' /\ LockHeldByLease'
  BY <1>1 DEF IInv, NoSubmissionRefused, LeaseOnCurrent, LockHeldByLease, Passive
<1>4. OpenPoolsAreOwned'
  BY <1>1, <1>2 DEF IInv, OpenPoolsAreOwned, Passive
<1>5. OldIsRetired'
  BY <1>1, <1>2 DEF IInv, OldIsRetired
<1>6. WaitsPointForward' /\ WorkersAreBorn'
  BY <1>1, <1>2 DEF IInv, WaitsPointForward, WorkersAreBorn, Actors
<1>7. CurrentIsNewest' /\ Unborn'
  BY DEF IInv, CurrentIsNewest, Unborn
<1>8. ChunksHaveABatch'
  BY <1>1 DEF IInv, ChunksHaveABatch
<1> QED
  BY <1>3, <1>4, <1>5, <1>6, <1>7, <1>8 DEF IInv

\* A call that has ended is a call of the model and holds no executor.
LEMMA RestIsOp == Rest \in Op /\ Rest.pc = "ready" /\ Rest.old = None /\ Rest.todo = 0
BY PoolAssumption DEF Rest, Op, Phases, None

\* A thread that may make a call holds no executor, and its own has been created.
LEMMA CallersAreIdle ==
  ASSUME IInv, NEW a \in Actors, MayCall(a)
  PROVE  /\ op[a] \in Op /\ op[a].pc = "ready" /\ op[a].old = None
         /\ a \in Workers => a[1] <= created
         /\ calls + 1 \in Batch
<1> USE PoolAssumption
<1>1. op[a] \in Op /\ op[a].pc = "ready" /\ op[a].old = None
  BY DEF IInv, TypeOK, OldIsRetired, MayCall
<1>2. ASSUME a \in Workers PROVE a[1] <= created
  <2>1. a \notin Callers
    BY <1>2 DEF Workers, Pools, Sizes
  <2> QED
    BY <1>2, <2>1 DEF IInv, WorkersAreBorn, MayCall, InWorker
<1>3. calls + 1 \in Batch
  BY DEF IInv, TypeOK, Batch, MayCall
<1> QED
  BY <1>1, <1>2, <1>3

\* The call of ensure_thread_pool touches nothing but the caller.
LEMMA CallEnsureStep ==
  ASSUME IInv, NEW a \in Actors, NEW n \in {None} \cup Sizes, CallEnsure(a, n)
  PROVE  IInv'
<1> DEFINE r == [Rest EXCEPT !.pc = "ensure", !.want = n]
<1>1. r \in Op /\ r.pc = "ensure" /\ r.old = None /\ r.todo = 0
  BY RestIsOp DEF Rest, Op, Phases
<1>2. op' = [op EXCEPT ![a] = r]
  BY DEF CallEnsure
<1> HIDE DEF r
<1>3. /\ op[a].pc \in Passive /\ r.pc \in Passive
      /\ a \in Workers => a[1] <= created
      /\ calls' \in Batch
      /\ ~(r.todo > 0)
  BY <1>1, CallersAreIdle DEF CallEnsure, Passive
<1>4. TypeOK'
  BY <1>1, <1>2, <1>3 DEF CallEnsure, IInv, TypeOK, pools, work, Batch
<1>5. UNCHANGED <<created, current, width, lock, open, task>>
  BY DEF CallEnsure, pools, work
<1> QED
  BY <1>1, <1>2, <1>3, <1>4, <1>5, PassiveStep

\* parallel_map, called by a worker or by another thread.
LEMMA CallMapStep ==
  ASSUME IInv, NEW a \in Actors, NEW w \in {None} \cup Sizes, NEW n \in 1..MaxChunks,
         CallMap(a, w, n)
  PROVE  IInv'
<1> USE PoolAssumption
<1> DEFINE r == IF InWorker(a) THEN op[a]
                ELSE [Rest EXCEPT !.pc = "ensure", !.want = w, !.todo = n,
                                  !.then = "size", !.batch = calls + 1]
<1>1. /\ op[a] \in Op /\ op[a].pc = "ready" /\ op[a].old = None
      /\ a \in Workers => a[1] <= created
      /\ calls + 1 \in Batch
  BY CallersAreIdle DEF CallMap
<1>2. r \in Op /\ r.pc \in Passive /\ r.old = None /\ (r.todo > 0 => r.batch \in Batch)
  <2>1. CASE InWorker(a)
    BY <1>1, <2>1 DEF Passive, IInv, ChunksHaveABatch
  <2>2. CASE ~InWorker(a)
    <3>1. r = [Rest EXCEPT !.pc = "ensure", !.want = w, !.todo = n,
                           !.then = "size", !.batch = calls + 1]
      BY <2>2
    <3> HIDE DEF r
    <3>2. calls + 1 \in 0..MaxCalls /\ n \in 0..MaxChunks
      BY <1>1 DEF Batch
    <3>3. r = [pc |-> "ensure", want |-> w, pool |-> None, old |-> None, wait |-> TRUE,
               left |-> {}, cur |-> Nobody, then |-> "size", todo |-> n,
               batch |-> calls + 1]
      BY <3>1 DEF Rest
    <3> QED
      BY <1>1, <3>2, <3>3 DEF Op, Phases, Passive
  <2> QED
    BY <2>1, <2>2
<1>3. op' = [op EXCEPT ![a] = r]
  BY DEF CallMap, IInv, TypeOK
<1> HIDE DEF r
<1>4. TypeOK'
  BY <1>1, <1>2, <1>3 DEF CallMap, IInv, TypeOK, pools, work, Batch
<1> QED
  BY <1>1, <1>2, <1>3, <1>4, PassiveStep DEF CallMap, pools, work, Passive

\* get_thread_pool_size makes the two copies of the size agree.
LEMMA GetSizeStep ==
  ASSUME IInv, NEW a \in Actors, GetSize(a)
  PROVE  IInv'
<1> USE PoolAssumption
<1> DEFINE r == [op[a] EXCEPT !.pc = "lease"]
<1>1. /\ op[a] \in Op /\ op[a].pc = "size" /\ op[a].old = None
      /\ a \in Workers => a[1] <= created
      /\ op[a].todo > 0 => op[a].batch \in Batch
  BY DEF IInv, TypeOK, OldIsRetired, WorkersAreBorn, ChunksHaveABatch, GetSize
<1>2. /\ r \in Op /\ r.pc = "lease" /\ r.old = None
      /\ r.todo > 0 => r.batch \in Batch
  BY <1>1 DEF Op, Phases
<1>3. op' = [op EXCEPT ![a] = r]
  BY DEF GetSize
<1> HIDE DEF r
<1>4. size' \in {None} \cup Sizes /\ config' \in {None} \cup Sizes
  BY DEF GetSize, Resolve, IInv, TypeOK, Sizes, None
<1>5. TypeOK'
  BY <1>2, <1>3, <1>4 DEF GetSize, IInv, TypeOK, work
<1> QED
  BY <1>1, <1>2, <1>3, <1>5, PassiveStep DEF GetSize, work, Passive

\* parallel_map returns, or raises, having waited for its futures.
LEMMA AwaitStep ==
  ASSUME IInv, NEW a \in Actors, Await(a)
  PROVE  IInv'
<1>1. TypeOK'
  BY RestIsOp DEF Await, IInv, TypeOK, pools, work
<1>2. op[a].pc = "wait" /\ (a \in Workers => a[1] <= created)
  BY DEF IInv, WorkersAreBorn, Await
<1>3. UNCHANGED <<created, current, width, lock, open, task>>
  BY DEF Await, pools, work
<1>4. op' = [op EXCEPT ![a] = Rest] /\ "wait" \in Passive /\ "ready" \in Passive /\ ~(0 > 0)
  BY DEF Await, Passive
<1> QED
  BY <1>1, <1>2, <1>3, <1>4, RestIsOp, PassiveStep
-----------------------------------------------------------------------------
(* Steps that detach the executor in place.                                    *)

\* The executor in place becomes the caller's to shut down; nobody else holds it,
\* and no lease is on it since the lock is free.
LEMMA DetachStep ==
  ASSUME IInv, TypeOK', NEW a \in Actors, NEW r \in Op,
         UNCHANGED <<created, width, lock, open, task>>,
         lock = Nobody,
         current' = None,
         op' = [op EXCEPT ![a] = r],
         op[a].pc = "ready",
         r.old = current,
         r.pc \in IF current = None THEN Passive ELSE {"shut"},
         r.todo > 0 => r.batch \in Batch,
         a \in Workers => a[1] <= created
  PROVE  IInv'
<1> USE PoolAssumption
<1>1. op \in [Actors -> Op] /\ op'[a] = r /\ \A b \in Actors : b # a => op'[b] = op[b]
  BY DEF IInv, TypeOK
<1>2. op[a].old = None /\ current \in {None} \cup Pools /\ created \in Nat
  <2>1. op[a].old = None
    BY DEF IInv, OldIsRetired
  <2> QED
    BY <2>1 DEF IInv, TypeOK
<1>3. \A b \in Actors : op[b].pc # "submit"
  <2>1. Nobody \notin Actors
    BY DEF Actors, Workers, Pools, Sizes
  <2> QED
    BY <2>1 DEF IInv, LockHeldByLease
<1>4. NoSubmissionRefused' /\ LeaseOnCurrent'
  BY <1>1, <1>3 DEF IInv, NoSubmissionRefused, LeaseOnCurrent, Passive
<1>5. LockHeldByLease'
  BY <1>1 DEF IInv, LockHeldByLease, Passive
<1>6. OpenPoolsAreOwned'
  <2>1. \A p \in Pools : open'[p] =>
          p = current' \/ \E b \in Actors : op'[b].old = p /\ op'[b].pc \in {"submit", "shut"}
    BY <1>1, <1>2, NoneIsNoPool DEF IInv, OpenPoolsAreOwned
  <2>2. \A b, c \in Actors : op'[b].old # None /\ op'[b].old = op'[c].old => b = c
    BY <1>1 DEF IInv, OpenPoolsAreOwned, OldIsRetired
  <2> QED
    BY <2>1, <2>2 DEF OpenPoolsAreOwned
<1>7. OldIsRetired'
  BY <1>1, <1>2 DEF IInv, OldIsRetired, CurrentIsNewest
<1>8. WaitsPointForward'
  BY <1>1, <1>2 DEF IInv, WaitsPointForward, CurrentIsNewest, Actors
<1>9. WorkersAreBorn' /\ CurrentIsNewest' /\ Unborn'
  BY <1>1 DEF IInv, WorkersAreBorn, CurrentIsNewest, Unborn, Actors
<1>10. ChunksHaveABatch'
  BY <1>1 DEF IInv, ChunksHaveABatch
<1> QED
  BY <1>4, <1>5, <1>6, <1>7, <1>8, <1>9, <1>10 DEF IInv

\* What a call becomes that has an executor to shut down, or none.
LEMMA ShutThenIsOp ==
  ASSUME NEW a \in Actors, op[a] \in Op, NEW old \in {None} \cup Pools, NEW wait \in BOOLEAN,
         NEW pc \in {"ready", "ensure", "size", "wait"}
  PROVE  /\ ShutThen(a, old, wait, pc) \in Op
         /\ ShutThen(a, old, wait, pc).old = old
         /\ ShutThen(a, old, wait, pc).pc = IF old = None THEN pc ELSE "shut"
         /\ ShutThen(a, old, wait, pc).todo = op[a].todo
         /\ ShutThen(a, old, wait, pc).batch = op[a].batch
<1> DEFINE to == IF old = None THEN pc ELSE "shut"
<1>1. to \in Phases
  BY DEF Phases
<1>2. ShutThen(a, old, wait, pc) =
        [op[a] EXCEPT !.old = old, !.wait = wait, !.then = pc, !.pc = to]
  BY DEF ShutThen
<1> HIDE DEF to
<1> DEFINE r == [pc |-> to, want |-> op[a].want, pool |-> op[a].pool, old |-> old,
                 wait |-> wait, left |-> op[a].left, cur |-> op[a].cur, then |-> pc,
                 todo |-> op[a].todo, batch |-> op[a].batch]
<1>3. ShutThen(a, old, wait, pc) = r
  BY ZenonT(30), <1>2 DEF Op
<1>4. r \in Op
  BY <1>1 DEF Op
<1>5. /\ r.old = old /\ r.pc = to /\ r.todo = op[a].todo /\ r.batch = op[a].batch
  OBVIOUS
<1> HIDE DEF r
<1>6. /\ ShutThen(a, old, wait, pc) \in Op
      /\ ShutThen(a, old, wait, pc).old = old
      /\ ShutThen(a, old, wait, pc).pc = to
      /\ ShutThen(a, old, wait, pc).todo = op[a].todo
      /\ ShutThen(a, old, wait, pc).batch = op[a].batch
  BY <1>3, <1>4, <1>5
<1> QED
  BY <1>6 DEF to

\* configure_thread_pool detaches the executor while no lease is on it.
LEMMA CallConfigureStep ==
  ASSUME IInv, NEW a \in Actors, NEW n \in Sizes, NEW preload \in BOOLEAN,
         CallConfigure(a, n, preload)
  PROVE  IInv'
<1> USE PoolAssumption
<1> DEFINE pc == IF preload THEN "ensure" ELSE "ready"
           want == IF preload THEN n ELSE None
           yes == TRUE   \* a name: the prover cannot match the constant itself
           s == ShutThen(a, current, yes, pc)
           r == [s EXCEPT !.want = want]
<1>1. /\ op[a] \in Op /\ op[a].pc = "ready"
      /\ a \in Workers => a[1] <= created
      /\ calls' \in Batch
  BY CallersAreIdle DEF CallConfigure
<1>2. current \in {None} \cup Pools
  BY DEF IInv, TypeOK
<1>3. op' = [op EXCEPT ![a] = r]
  BY DEF CallConfigure
<1>4. /\ pc \in {"ready", "ensure"} /\ want \in {None} \cup Sizes
      /\ pc \in {"ready", "ensure", "size", "wait"}
      /\ yes \in BOOLEAN
  OBVIOUS
<1> HIDE DEF pc, want, yes
<1>5. /\ s \in Op /\ s.old = current
      /\ s.pc = IF current = None THEN pc ELSE "shut"
      /\ s.todo = op[a].todo /\ s.batch = op[a].batch
  BY <1>1, <1>2, <1>4, ShutThenIsOp
<1> HIDE DEF s
<1>6. /\ r \in Op /\ r.old = current
      /\ r.pc \in IF current = None THEN Passive ELSE {"shut"}
      /\ r.todo = op[a].todo /\ r.batch = op[a].batch
  BY <1>4, <1>5 DEF Op, Passive
<1>7. r.todo > 0 => r.batch \in Batch
  BY <1>6 DEF IInv, ChunksHaveABatch
<1> HIDE DEF r
<1>8. /\ UNCHANGED <<created, width, lock, open, queue, task, failed>>
      /\ lock = Nobody /\ current' = None /\ size' = n /\ config' = n
  BY DEF CallConfigure, work
<1>9. TypeOK'
  BY <1>1, <1>3, <1>6, <1>8 DEF IInv, TypeOK, Batch
<1> QED
  BY <1>1, <1>3, <1>6, <1>7, <1>8, <1>9, DetachStep

\* shutdown_thread_pool detaches the executor while no lease is on it.
LEMMA CallShutdownStep ==
  ASSUME IInv, NEW a \in Actors, NEW wait \in BOOLEAN, CallShutdown(a, wait)
  PROVE  IInv'
<1> USE PoolAssumption
<1> DEFINE r == ShutThen(a, current, wait, "ready")
<1>1. /\ op[a] \in Op /\ op[a].pc = "ready"
      /\ a \in Workers => a[1] <= created
      /\ calls' \in Batch
  BY CallersAreIdle DEF CallShutdown
<1>2. current \in {None} \cup Pools
  BY DEF IInv, TypeOK
<1>3. op' = [op EXCEPT ![a] = r]
  BY DEF CallShutdown
<1>4. /\ r \in Op /\ r.old = current
      /\ r.pc = IF current = None THEN "ready" ELSE "shut"
      /\ r.todo = op[a].todo /\ r.batch = op[a].batch
  BY <1>1, <1>2, ShutThenIsOp
<1> HIDE DEF r
<1>5. /\ r.pc \in IF current = None THEN Passive ELSE {"shut"}
      /\ r.todo > 0 => r.batch \in Batch
  BY <1>4 DEF IInv, ChunksHaveABatch, Passive
<1>6. TypeOK'
  BY <1>1, <1>3, <1>4 DEF CallShutdown, IInv, TypeOK, work, Batch
<1>7. UNCHANGED <<created, width, lock, open, task>> /\ lock = Nobody /\ current' = None
  BY DEF CallShutdown, work
<1> QED
  BY <1>1, <1>3, <1>4, <1>5, <1>6, <1>7, DetachStep
-----------------------------------------------------------------------------
(* Steps that replace the executor in place.                                   *)

\* _determine_worker_count yields a size.
LEMMA TargetIsSize ==
  ASSUME TypeOK, NEW n \in {None} \cup Sizes
  PROVE  Target(n) \in Sizes
BY PoolAssumption DEF TypeOK, Target, Resolve, None, Sizes

\* _pool_for_target_locked leaves the newest executor in place, open, and no
\* other one touched; the one replaced is the one that was in place.
LEMMA PoolForTargetFacts ==
  ASSUME IInv, NEW n \in {None} \cup Sizes, PoolForTarget(n)
  PROVE  /\ created' \in 0..MaxPools /\ created <= created'
         /\ current' \in Pools /\ current' = created' /\ open'[current']
         /\ size' \in Sizes /\ config' \in Sizes
         /\ width' \in [Pools -> {None} \cup Sizes]
         /\ open' \in [Pools -> BOOLEAN]
         /\ \A p \in Pools : p # current' => open'[p] = open[p] /\ width'[p] = width[p]
         /\ Replaced(n) \in {None} \cup Pools
         /\ Replaced(n) # None => Replaced(n) = current /\ Replaced(n) < current'
         /\ current \notin {None, current'} => Replaced(n) = current
<1> USE PoolAssumption
<1>1. Target(n) \in Sizes /\ size' \in Sizes /\ config' \in Sizes
  BY TargetIsSize DEF IInv, PoolForTarget
<1>2. /\ created \in 0..MaxPools /\ current \in {None} \cup Pools
      /\ width \in [Pools -> {None} \cup Sizes] /\ open \in [Pools -> BOOLEAN]
      /\ current # None => open[current] /\ current = created
  BY DEF IInv, TypeOK, CurrentIsNewest
<1>3. CASE Reuses(n)
  <2>1. UNCHANGED <<created, current, width, open>> /\ current # None /\ Replaced(n) = None
    BY <1>3 DEF PoolForTarget, Reuses, Replaced
  <2> QED
    BY <1>1, <1>2, <2>1 DEF Pools, None
<1>4. CASE ~Reuses(n)
  <2>1. /\ created < MaxPools /\ created' = created + 1 /\ current' = created + 1
        /\ width' = [width EXCEPT ![created + 1] = Target(n)]
        /\ open' = [open EXCEPT ![created + 1] = TRUE]
        /\ Replaced(n) = current
    BY <1>4 DEF PoolForTarget, Replaced
  <2>2. created + 1 \in Pools
    BY <1>2, <2>1 DEF Pools
  <2> QED
    BY <1>1, <1>2, <2>1, <2>2 DEF Pools, None
<1> QED
  BY <1>3, <1>4

\* What Ensure and Lease have in common: the executor replaced is the caller's to
\* shut down, and the lock is taken by a lease alone.
LEMMA ReplaceStep ==
  ASSUME IInv, TypeOK', NEW a \in Actors, NEW r \in Op, NEW n \in {None} \cup Sizes,
         PoolForTarget(n), UNCHANGED task,
         lock = Nobody,
         op' = [op EXCEPT ![a] = r],
         op[a].pc \in {"ensure", "lease"},
         r.old = Replaced(n),
         \/ lock' = Nobody /\ r.pc \in Passive \cup {"shut"} /\ (r.old # None => r.pc = "shut")
         \/ lock' = a /\ r.pc = "submit" /\ r.pool = current',
         r.todo > 0 => r.batch \in Batch
  PROVE  IInv'
<1> USE PoolAssumption
<1>1. op \in [Actors -> Op] /\ op'[a] = r /\ \A b \in Actors : b # a => op'[b] = op[b]
  BY DEF IInv, TypeOK
<1>2. op[a].old = None /\ Nobody \notin Actors
  BY DEF IInv, OldIsRetired, Actors, Workers, Pools, Sizes
<1>3. \A b \in Actors : op[b].pc # "submit"
  BY <1>2 DEF IInv, LockHeldByLease
<1>4. /\ created' \in 0..MaxPools /\ created \in 0..MaxPools /\ created <= created'
      /\ current' \in Pools /\ current' = created' /\ open'[current']
      /\ \A p \in Pools : p # current' => open'[p] = open[p] /\ width'[p] = width[p]
      /\ Replaced(n) \in {None} \cup Pools
      /\ Replaced(n) # None => Replaced(n) = current /\ Replaced(n) < current'
      /\ current \notin {None, current'} => Replaced(n) = current
  BY PoolForTargetFacts DEF IInv, TypeOK
<1>5. NoSubmissionRefused'
  BY <1>1 DEF IInv, NoSubmissionRefused, Passive
<1>6. LeaseOnCurrent'
  BY <1>1, <1>3, <1>4, NoneIsNoPool DEF LeaseOnCurrent, Passive
<1>7. LockHeldByLease'
  BY <1>1, <1>2, <1>3 DEF LockHeldByLease, Passive
<1>8. OpenPoolsAreOwned'
  <2>1. ASSUME NEW p \in Pools, open'[p], p # current'
        PROVE  \E b \in Actors : op'[b].old = p /\ op'[b].pc \in {"submit", "shut"}
    <3>1. open[p]
      BY <1>4, <2>1
    <3>2. CASE p = current
      BY <1>1, <1>4, <2>1, <3>2, NoneIsNoPool
    <3>3. CASE p # current
      BY <1>1, <1>2, <3>1, <3>3, NoneIsNoPool DEF IInv, OpenPoolsAreOwned
    <3> QED
      BY <3>2, <3>3
  <2>2. \A b, c \in Actors : op'[b].old # None /\ op'[b].old = op'[c].old => b = c
    BY <1>1, <1>4 DEF IInv, OpenPoolsAreOwned, OldIsRetired
  <2> QED
    BY <2>1, <2>2 DEF OpenPoolsAreOwned
<1>9. OldIsRetired'
  <2>1. ASSUME NEW b \in Actors, op'[b].old # None
        PROVE  op'[b].old <= created' /\ op'[b].old # current'
    <3>1. CASE b = a
      BY <1>1, <1>4, <2>1, <3>1 DEF Pools, None
    <3>2. CASE b # a
      <4>1. op[b] \in Op /\ op[b].old <= created /\ op[b].old # current /\ op[b].old \in Pools
        BY <1>1, <2>1, <3>2 DEF IInv, OldIsRetired, Op
      <4>2. current' = current \/ current' = created + 1
        BY DEF PoolForTarget
      <4> QED
        BY <1>1, <1>4, <3>2, <4>1, <4>2 DEF Pools
    <3> QED
      BY <3>1, <3>2
  <2> QED
    BY <1>1, <2>1 DEF IInv, OldIsRetired, Passive
<1>10. WaitsPointForward'
  <2>1. ASSUME NEW w \in Workers, op'[w].old # None
        PROVE  w[1] <= op'[w].old
    <3>1. CASE w = a
      <4>1. w[1] <= created /\ current = created
        BY <1>1, <1>4, <2>1, <3>1 DEF IInv, WorkersAreBorn, CurrentIsNewest
      <4> QED
        BY <1>1, <1>4, <2>1, <3>1, <4>1
    <3>2. CASE w # a
      BY <1>1, <2>1, <3>2 DEF IInv, WaitsPointForward, Actors
    <3> QED
      BY <3>1, <3>2
  <2> QED
    BY <2>1 DEF WaitsPointForward
<1>11. CurrentIsNewest' /\ Unborn'
  BY <1>4 DEF IInv, CurrentIsNewest, Unborn, Pools
<1>12. WorkersAreBorn'
  <2>1. ASSUME NEW w \in Workers, task'[w] # NoTask \/ op'[w].pc # "ready"
        PROVE  w[1] <= created'
    <3>1. task[w] # NoTask \/ op[w].pc # "ready"
      BY <1>1, <2>1 DEF Actors
    <3>2. w[1] <= created /\ w[1] \in Nat
      BY <3>1 DEF IInv, WorkersAreBorn, Workers, Pools
    <3> QED
      BY <1>4, <3>2
  <2> QED
    BY <2>1 DEF WorkersAreBorn
<1>13. ChunksHaveABatch'
  BY <1>1 DEF IInv, ChunksHaveABatch
<1> QED
  BY <1>5, <1>6, <1>7, <1>8, <1>9, <1>10, <1>11, <1>12, <1>13 DEF IInv

\* ensure_thread_pool: what _pool_for_target_locked replaces is the caller's to
\* shut down.
LEMMA EnsureStep ==
  ASSUME IInv, NEW a \in Actors, Ensure(a)
  PROVE  IInv'
<1> USE PoolAssumption
<1> DEFINE n == op[a].want
           yes == TRUE   \* a name: the prover cannot match the constant itself
           pc == IF op[a].todo > 0 THEN "size" ELSE "ready"
           r == ShutThen(a, Replaced(n), yes, pc)
<1>1. op[a] \in Op /\ op[a].pc = "ensure" /\ n \in {None} \cup Sizes
  BY DEF IInv, TypeOK, Ensure, Op
<1>2. PoolForTarget(n) /\ lock = Nobody
  BY DEF Ensure
<1>3. op' = [op EXCEPT ![a] = r]
  BY DEF Ensure
<1>4. UNCHANGED <<lock, queue, task, calls, failed>>
  BY DEF Ensure
<1>5. pc \in {"ready", "size"} /\ pc \in {"ready", "ensure", "size", "wait"} /\ yes \in BOOLEAN
  OBVIOUS
<1> HIDE DEF n, pc, yes
<1>6. /\ created' \in 0..MaxPools /\ current' \in Pools
      /\ size' \in Sizes /\ config' \in Sizes
      /\ width' \in [Pools -> {None} \cup Sizes] /\ open' \in [Pools -> BOOLEAN]
      /\ Replaced(n) \in {None} \cup Pools
  BY <1>1, <1>2, PoolForTargetFacts
<1>7. /\ r \in Op /\ r.old = Replaced(n)
      /\ r.pc = IF Replaced(n) = None THEN pc ELSE "shut"
      /\ r.todo = op[a].todo /\ r.batch = op[a].batch
  BY <1>1, <1>5, <1>6, ShutThenIsOp
<1> HIDE DEF r
<1>8. /\ r.pc \in Passive \cup {"shut"} /\ (r.old # None => r.pc = "shut")
      /\ r.todo > 0 => r.batch \in Batch
  BY <1>5, <1>7 DEF Passive, IInv, ChunksHaveABatch
<1>9. TypeOK'
  BY <1>3, <1>4, <1>6, <1>7 DEF IInv, TypeOK
<1> QED
  BY <1>1, <1>2, <1>3, <1>4, <1>7, <1>8, <1>9, ReplaceStep

\* _thread_pool_submission: the same, with the lock taken.
LEMMA LeaseStep ==
  ASSUME IInv, NEW a \in Actors, Lease(a)
  PROVE  IInv'
<1> USE PoolAssumption
<1> DEFINE n == op[a].want
           r == [op[a] EXCEPT !.pc = "submit", !.pool = current', !.old = Replaced(n)]
<1>1. op[a] \in Op /\ op[a].pc = "lease" /\ n \in {None} \cup Sizes
  BY DEF IInv, TypeOK, Lease, Op
<1>2. PoolForTarget(n) /\ lock = Nobody /\ lock' = a
  BY DEF Lease
<1>3. op' = [op EXCEPT ![a] = r]
  BY <1>1 DEF Lease, IInv, TypeOK
<1>4. UNCHANGED <<queue, task, calls, failed>>
  BY DEF Lease
<1> HIDE DEF n
<1>5. /\ created' \in 0..MaxPools /\ current' \in Pools
      /\ size' \in Sizes /\ config' \in Sizes
      /\ width' \in [Pools -> {None} \cup Sizes] /\ open' \in [Pools -> BOOLEAN]
      /\ Replaced(n) \in {None} \cup Pools
  BY <1>1, <1>2, PoolForTargetFacts
<1>6. /\ r \in Op /\ r.old = Replaced(n) /\ r.pc = "submit" /\ r.pool = current'
      /\ r.todo = op[a].todo /\ r.batch = op[a].batch
  BY <1>1, <1>5 DEF Op, Phases
<1> HIDE DEF r
<1>7. r.todo > 0 => r.batch \in Batch
  BY <1>6 DEF IInv, ChunksHaveABatch
<1>8. TypeOK'
  BY <1>2, <1>3, <1>4, <1>5, <1>6 DEF IInv, TypeOK
<1> QED
  BY <1>1, <1>2, <1>3, <1>4, <1>6, <1>7, <1>8, ReplaceStep

-----------------------------------------------------------------------------
(* Steps of a call that holds an executor to shut down.                        *)

\* The call keeps the executor it is to shut down, or, when that is down, gives it
\* up; an executor is closed by the call that holds it alone.
LEMMA HolderStep ==
  ASSUME IInv, TypeOK', NEW a \in Actors, NEW r \in Op,
         UNCHANGED <<created, current, width, task>>,
         op' = [op EXCEPT ![a] = r],
         op[a].pc \in {"submit", "shut", "pick", "join"},
         r.pc \in Passive \cup {"shut", "pick", "join"},
         lock' = IF op[a].pc = "submit" THEN Nobody ELSE lock,
         r.old \in {None, op[a].old},
         r.old # None => r.pc \in {"shut", "pick", "join"},
         op[a].pc = "submit" /\ op[a].old # None => r.old = op[a].old /\ r.pc = "shut",
         open' = IF op[a].pc = "shut" THEN [open EXCEPT ![op[a].old] = FALSE] ELSE open,
         r.todo > 0 => r.batch \in Batch
  PROVE  IInv'
<1> USE PoolAssumption
<1>1. /\ op \in [Actors -> Op] /\ op'[a] = r /\ \A b \in Actors : b # a => op'[b] = op[b]
      /\ open \in [Pools -> BOOLEAN] /\ current \in {None} \cup Pools
  BY DEF IInv, TypeOK
<1>2. NoSubmissionRefused'
  BY <1>1 DEF IInv, NoSubmissionRefused, Passive
<1>3. LeaseOnCurrent'
  BY <1>1 DEF IInv, LeaseOnCurrent, Passive
<1>4. LockHeldByLease'
  <2>1. Nobody \notin Actors
    BY DEF Actors, Workers, Pools, Sizes
  <2> QED
    BY <1>1, <2>1 DEF IInv, LockHeldByLease, Passive
<1>5. \A p \in Pools : open'[p] => open[p]
  BY <1>1
<1>6. current # None => open'[current]
  BY <1>1 DEF IInv, CurrentIsNewest, OldIsRetired
<1>7. OpenPoolsAreOwned'
  <2>1. ASSUME NEW p \in Pools, open'[p], p # current'
        PROVE  \E b \in Actors : op'[b].old = p /\ op'[b].pc \in {"submit", "shut"}
    <3>1. PICK b \in Actors : op[b].old = p /\ op[b].pc \in {"submit", "shut"}
      BY <1>5, <2>1 DEF IInv, OpenPoolsAreOwned
    <3>2. CASE b = a
      BY <1>1, <2>1, <3>1, <3>2, NoneIsNoPool
    <3>3. CASE b # a
      BY <1>1, <3>1, <3>3
    <3> QED
      BY <3>2, <3>3
  <2>2. \A b, c \in Actors : op'[b].old # None /\ op'[b].old = op'[c].old => b = c
    BY <1>1 DEF IInv, OpenPoolsAreOwned
  <2> QED
    BY <2>1, <2>2 DEF OpenPoolsAreOwned
<1>8. OldIsRetired'
  BY <1>1 DEF IInv, OldIsRetired
<1>9. WaitsPointForward'
  BY <1>1 DEF IInv, WaitsPointForward, Actors
<1>10. CurrentIsNewest' /\ Unborn'
  BY <1>5, <1>6 DEF IInv, CurrentIsNewest, Unborn
<1>11. WorkersAreBorn'
  BY <1>1 DEF IInv, WorkersAreBorn, Actors
<1>12. ChunksHaveABatch'
  BY <1>1 DEF IInv, ChunksHaveABatch
<1> QED
  BY <1>2, <1>3, <1>4, <1>7, <1>8, <1>9, <1>10, <1>11, <1>12 DEF IInv

\* The lease ends: the lock is free and the replaced executor still the caller's.
LEMMA ReleaseStep ==
  ASSUME IInv, NEW a \in Actors, Release(a)
  PROVE  IInv'
<1> USE PoolAssumption
<1> DEFINE yes == TRUE   \* a name: the prover cannot match the constant itself
           r == ShutThen(a, op[a].old, yes, "wait")
<1>1. op[a] \in Op /\ op[a].pc = "submit" /\ op[a].old \in {None} \cup Pools /\ op[a].todo = 0
  BY DEF IInv, TypeOK, Release, Op
<1>2. op' = [op EXCEPT ![a] = r] /\ lock' = Nobody
  BY DEF Release
<1>3. UNCHANGED <<created, current, size, config, width, open, queue, task, failed, calls>>
  BY DEF Release, pools, work
<1>4. yes \in BOOLEAN
  OBVIOUS
<1> HIDE DEF yes
<1>5. /\ r \in Op /\ r.old = op[a].old
      /\ r.pc = IF op[a].old = None THEN "wait" ELSE "shut"
      /\ r.todo = 0
  BY <1>1, <1>4, ShutThenIsOp
<1> HIDE DEF r
<1>6. TypeOK'
  BY <1>2, <1>3, <1>5 DEF IInv, TypeOK
<1>7. /\ r.pc \in Passive \cup {"shut", "pick", "join"}
      /\ r.old \in {None, op[a].old}
      /\ r.old # None => r.pc \in {"shut", "pick", "join"}
      /\ r.todo > 0 => r.batch \in Batch
  BY <1>5 DEF Passive
<1>8. /\ lock' = IF op[a].pc = "submit" THEN Nobody ELSE lock
      /\ UNCHANGED <<created, current, width, task>>
      /\ open' = IF op[a].pc = "shut" THEN [open EXCEPT ![op[a].old] = FALSE] ELSE open
      /\ op[a].pc = "submit" /\ op[a].old # None => r.old = op[a].old /\ r.pc = "shut"
  BY <1>1, <1>2, <1>3, <1>5, <1>7
<1> QED
  BY <1>1, <1>2, <1>5, <1>6, <1>7, <1>8, HolderStep

\* pool.shutdown: the executor closed is the one the call holds, never the
\* current one.
LEMMA ShutStep ==
  ASSUME IInv, NEW a \in Actors, Shut(a)
  PROVE  IInv'
<1> USE PoolAssumption
<1> DEFINE r == IF op[a].wait
                THEN [op[a] EXCEPT !.pc = "pick", !.left = ThreadsOf(op[a].old)]
                ELSE [op[a] EXCEPT !.pc = op[a].then, !.old = None]
<1>1. op[a] \in Op /\ op[a].pc = "shut"
  BY DEF IInv, TypeOK, Shut
<1>2. op' = [op EXCEPT ![a] = r]
  BY DEF Shut, IInv, TypeOK
<1>3. /\ UNCHANGED <<created, current, size, config, width, queue, task, failed, lock, calls>>
      /\ open' = [open EXCEPT ![op[a].old] = FALSE]
  BY DEF Shut, pools
<1>4. ThreadsOf(op[a].old) \in SUBSET Workers
  BY DEF ThreadsOf
<1>5. /\ r \in Op /\ r.todo = op[a].todo /\ r.batch = op[a].batch
      /\ \/ r.old = op[a].old /\ r.pc = "pick"
         \/ r.old = None /\ r.pc \in {"ready", "ensure", "size", "wait"}
  <2>1. CASE op[a].wait
    <3>1. r = [op[a] EXCEPT !.pc = "pick", !.left = ThreadsOf(op[a].old)]
      BY <2>1
    <3> HIDE DEF r
    <3> QED
      BY <1>1, <1>4, <3>1 DEF Op, Phases
  <2>2. CASE ~op[a].wait
    <3>1. r = [op[a] EXCEPT !.pc = op[a].then, !.old = None]
      BY <2>2
    <3> HIDE DEF r
    <3> QED
      BY <1>1, <3>1 DEF Op, Phases
  <2> QED
    BY <2>1, <2>2
<1> HIDE DEF r
<1>6. TypeOK'
  BY <1>2, <1>3, <1>5 DEF IInv, TypeOK
<1>7. /\ r.pc \in Passive \cup {"shut", "pick", "join"}
      /\ r.old \in {None, op[a].old}
      /\ r.old # None => r.pc \in {"shut", "pick", "join"}
      /\ r.todo > 0 => r.batch \in Batch
  BY <1>5 DEF Passive, IInv, ChunksHaveABatch
<1>8. /\ lock' = IF op[a].pc = "submit" THEN Nobody ELSE lock
      /\ UNCHANGED <<created, current, width, task>>
      /\ open' = IF op[a].pc = "shut" THEN [open EXCEPT ![op[a].old] = FALSE] ELSE open
  BY <1>1, <1>3
<1> QED
  BY <1>1, <1>2, <1>5, <1>6, <1>7, <1>8, HolderStep

\* A call done with joining lets its executor go, which is closed by then.
LEMMA PickJoinStep ==
  ASSUME IInv, NEW a \in Actors, PickJoin(a)
  PROVE  IInv'
<1> USE PoolAssumption
<1>1. op[a] \in Op /\ op[a].pc = "pick" /\ op \in [Actors -> Op]
  BY DEF IInv, TypeOK, PickJoin
<1>2. UNCHANGED <<created, current, size, config, width, open, queue, task, failed, lock, calls>>
  BY DEF PickJoin, pools, work
<1>3. PICK r \in Op :
        /\ op' = [op EXCEPT ![a] = r]
        /\ r.todo = op[a].todo /\ r.batch = op[a].batch
        /\ \/ r.old = op[a].old /\ r.pc = "join"
           \/ r.old = None /\ r.pc \in {"ready", "ensure", "size", "wait"}
  <2>1. CASE op' = [op EXCEPT ![a].pc = op[a].then, ![a].old = None]
    <3> DEFINE r == [op[a] EXCEPT !.pc = op[a].then, !.old = None]
    <3>1. op' = [op EXCEPT ![a] = r]
      BY <1>1, <2>1
    <3>2. /\ r \in Op /\ r.todo = op[a].todo /\ r.batch = op[a].batch
          /\ r.old = None /\ r.pc \in {"ready", "ensure", "size", "wait"}
      BY <1>1 DEF Op, Phases
    <3> QED
      BY <3>1, <3>2
  <2>2. ASSUME NEW w \in op[a].left, op' = [op EXCEPT ![a].pc = "join", ![a].cur = w]
        PROVE  \E r \in Op : /\ op' = [op EXCEPT ![a] = r]
                             /\ r.todo = op[a].todo /\ r.batch = op[a].batch
                             /\ r.old = op[a].old /\ r.pc = "join"
    <3> DEFINE r == [op[a] EXCEPT !.pc = "join", !.cur = w]
    <3>1. op' = [op EXCEPT ![a] = r]
      BY <1>1, <2>2
    <3>2. /\ r \in Op /\ r.todo = op[a].todo /\ r.batch = op[a].batch
          /\ r.old = op[a].old /\ r.pc = "join"
      BY <1>1 DEF Op, Phases
    <3> QED
      BY <3>1, <3>2
  <2> QED
    BY <2>1, <2>2 DEF PickJoin
<1>4. TypeOK'
  BY <1>2, <1>3 DEF IInv, TypeOK
<1>5. /\ r.pc \in Passive \cup {"shut", "pick", "join"}
      /\ r.old \in {None, op[a].old}
      /\ r.old # None => r.pc \in {"shut", "pick", "join"}
      /\ r.todo > 0 => r.batch \in Batch
  BY <1>3 DEF Passive, IInv, ChunksHaveABatch
<1>6. /\ op' = [op EXCEPT ![a] = r]
      /\ lock' = IF op[a].pc = "submit" THEN Nobody ELSE lock
      /\ UNCHANGED <<created, current, width, task>>
      /\ open' = IF op[a].pc = "shut" THEN [open EXCEPT ![op[a].old] = FALSE] ELSE open
  BY <1>1, <1>2, <1>3
<1> QED
  BY <1>1, <1>4, <1>5, <1>6, HolderStep

\* Joining changes nobody but the caller; a self-join ends the call.
LEMMA JoinStep ==
  ASSUME IInv, NEW a \in Actors, Join(a)
  PROVE  IInv'
<1> USE PoolAssumption
<1>1. op[a] \in Op /\ op[a].pc = "join" /\ op \in [Actors -> Op]
  BY DEF IInv, TypeOK, Join
<1>2. UNCHANGED <<created, current, size, config, width, open, queue, task, failed, lock, calls>>
  BY DEF Join, pools, work
<1>3. PICK r \in Op :
        /\ op' = [op EXCEPT ![a] = r]
        /\ \/ r.old = op[a].old /\ r.pc = "pick" /\ r.todo = op[a].todo /\ r.batch = op[a].batch
           \/ r.old = None /\ r.pc = "ready" /\ r.todo = 0
  <2>1. CASE op' = [op EXCEPT ![a] = Rest]
    BY <2>1, RestIsOp
  <2>2. CASE op' = [op EXCEPT ![a].pc = "pick", ![a].left = @ \ {op[a].cur}, ![a].cur = Nobody]
    <3> DEFINE left == op[a].left \ {op[a].cur}
               r == [op[a] EXCEPT !.pc = "pick", !.left = left, !.cur = Nobody]
    <3>1. op' = [op EXCEPT ![a] = r]
      BY <1>1, <2>2
    <3>2. left \in SUBSET Workers
      BY <1>1 DEF Op
    <3> HIDE DEF left
    <3>3. /\ r \in Op /\ r.todo = op[a].todo /\ r.batch = op[a].batch
          /\ r.old = op[a].old /\ r.pc = "pick"
      BY <1>1, <3>2 DEF Op, Phases
    <3> QED
      BY <3>1, <3>3
  <2> QED
    BY <2>1, <2>2 DEF Join
<1>4. TypeOK'
  BY <1>2, <1>3 DEF IInv, TypeOK
<1>5. /\ r.pc \in Passive \cup {"shut", "pick", "join"}
      /\ r.old \in {None, op[a].old}
      /\ r.old # None => r.pc \in {"shut", "pick", "join"}
      /\ r.todo > 0 => r.batch \in Batch
  BY <1>3 DEF Passive, IInv, ChunksHaveABatch
<1>6. /\ op' = [op EXCEPT ![a] = r]
      /\ lock' = IF op[a].pc = "submit" THEN Nobody ELSE lock
      /\ UNCHANGED <<created, current, width, task>>
      /\ open' = IF op[a].pc = "shut" THEN [open EXCEPT ![op[a].old] = FALSE] ELSE open
  BY <1>1, <1>2, <1>3
<1> QED
  BY <1>1, <1>4, <1>5, <1>6, HolderStep
-----------------------------------------------------------------------------
(* Steps of a worker.                                                          *)

\* What a worker does with its queue and chunk leaves calls and executors alone.
LEMMA WorkerStep ==
  ASSUME IInv, TypeOK', NEW w \in Workers,
         UNCHANGED <<created, current, width, open, lock, op>>,
         \A v \in Workers : v # w => task'[v] = task[v],
         w[1] <= created
  PROVE  IInv'
<1>1. WorkersAreBorn'
  BY DEF IInv, WorkersAreBorn
<1>2. NoSubmissionRefused' /\ LeaseOnCurrent' /\ LockHeldByLease'
  BY DEF IInv, NoSubmissionRefused, LeaseOnCurrent, LockHeldByLease
<1>3. OpenPoolsAreOwned' /\ WaitsPointForward' /\ OldIsRetired'
  BY DEF IInv, OpenPoolsAreOwned, WaitsPointForward, OldIsRetired
<1>4. CurrentIsNewest' /\ Unborn' /\ ChunksHaveABatch'
  BY DEF IInv, CurrentIsNewest, Unborn, ChunksHaveABatch
<1> QED
  BY <1>1, <1>2, <1>3, <1>4 DEF IInv

\* A worker with a chunk belongs to an executor that has been created.
LEMMA TakeChunkStep ==
  ASSUME IInv, NEW w \in Workers, TakeChunk(w)
  PROVE  IInv'
<1> DEFINE p == w[1]
           q == queue[p]
<1>1. p \in Pools /\ w[2] \in Sizes /\ q \in Seq(Batch) /\ q # <<>> /\ w[2] <= width[p]
  BY DEF IInv, TypeOK, Workers, TakeChunk, ThreadsOf
<1>2. w[1] <= created
  <2>1. ~(p > created)
    <3>1. w[2] \in Nat \ {0}
      BY <1>1 DEF Sizes
    <3> QED
      BY <1>1, <3>1 DEF IInv, Unborn, None
  <2> QED
    BY <1>1, <2>1 DEF IInv, TypeOK, Pools
<1>3. Head(q) \in Batch /\ Tail(q) \in Seq(Batch)
  BY <1>1, HeadTailProperties
<1>4. /\ task' = [task EXCEPT ![w] = Head(q)]
      /\ queue' = [queue EXCEPT ![p] = Tail(q)]
      /\ UNCHANGED <<created, current, size, config, width, open, op, lock, calls, failed>>
  BY DEF TakeChunk, pools
<1> HIDE DEF q
<1>5. TypeOK'
  <2>1. task' \in [Workers -> {NoTask} \cup Batch]
    BY <1>3, <1>4 DEF IInv, TypeOK
  <2>2. queue' \in [Pools -> Seq(Batch)]
    BY <1>1, <1>3, <1>4 DEF IInv, TypeOK
  <2> QED
    BY <1>4, <2>1, <2>2 DEF IInv, TypeOK
<1>6. \A v \in Workers : v # w => task'[v] = task[v]
  BY <1>4 DEF IInv, TypeOK
<1> QED
  BY <1>2, <1>4, <1>5, <1>6, WorkerStep

\* A worker is done with its chunk.
LEMMA FinishChunkStep ==
  ASSUME IInv, NEW w \in Workers, FinishChunk(w)
  PROVE  IInv'
<1>1. task[w] \in Batch /\ w[1] <= created
  BY DEF IInv, TypeOK, WorkersAreBorn, FinishChunk
<1>2. /\ task' = [task EXCEPT ![w] = NoTask]
      /\ UNCHANGED <<created, current, size, config, width, open, queue, op, lock, calls>>
  BY DEF FinishChunk, pools
<1>3. failed' \in SUBSET Batch
  BY <1>1 DEF IInv, TypeOK, FinishChunk
<1>4. TypeOK'
  BY <1>2, <1>3 DEF IInv, TypeOK
<1>5. \A v \in Workers : v # w => task'[v] = task[v]
  BY <1>2 DEF IInv, TypeOK
<1> QED
  BY <1>1, <1>2, <1>4, <1>5, WorkerStep

-----------------------------------------------------------------------------
\* Every step of every call and worker preserves the inductive invariant.
LEMMA NextIInv == IInv /\ [Next]_vars => IInv'
<1> SUFFICES ASSUME IInv, [Next]_vars PROVE IInv'
  OBVIOUS
<1>1. ASSUME NEW a \in Actors, Call(a) PROVE IInv'
  BY <1>1, CallEnsureStep, CallMapStep, CallConfigureStep, CallShutdownStep DEF Call
<1>2. ASSUME NEW a \in Actors, Step(a) PROVE IInv'
  BY <1>2, EnsureStep, GetSizeStep, LeaseStep, SubmitStep, ReleaseStep, ShutStep,
     PickJoinStep, JoinStep, AwaitStep DEF Step
<1>3. ASSUME NEW w \in Workers, Work(w) PROVE IInv'
  BY <1>3, TakeChunkStep, FinishChunkStep DEF Work
<1>4. ASSUME UNCHANGED vars PROVE IInv'
  <2>1. TypeOK'
    BY <1>4 DEF vars, IInv, TypeOK
  <2>2. NoSubmissionRefused' /\ LeaseOnCurrent' /\ LockHeldByLease' /\ WorkersAreBorn'
    BY <1>4 DEF vars, IInv, NoSubmissionRefused, LeaseOnCurrent, LockHeldByLease, WorkersAreBorn
  <2>3. OpenPoolsAreOwned' /\ WaitsPointForward' /\ OldIsRetired'
    BY <1>4 DEF vars, IInv, OpenPoolsAreOwned, WaitsPointForward, OldIsRetired
  <2>4. CurrentIsNewest' /\ Unborn' /\ ChunksHaveABatch'
    BY <1>4 DEF vars, IInv, CurrentIsNewest, Unborn, ChunksHaveABatch
  <2> QED
    BY <2>1, <2>2, <2>3, <2>4 DEF IInv
<1> QED
  BY <1>1, <1>2, <1>3, <1>4 DEF Next

\* The inductive invariant holds in every state of every behaviour of
\* pcre/threads.py's calls, for all callers, sizes and bounds.
THEOREM SpecIInv == Spec => []IInv
BY InitIInv, NextIInv, PTL DEF Spec

\* The model keeps to its types.
THEOREM TypeCorrect == Spec => []TypeOK
<1>1. IInv => TypeOK
  BY DEF IInv
<1> QED
  BY <1>1, SpecIInv, PTL

\* A batch under the submission lease is never turned away: no replacement,
\* reconfiguration or shutdown closes the executor the lease is on.
THEOREM SubmissionsAccepted == Spec => []NoSubmissionRefused
<1>1. IInv => NoSubmissionRefused
  BY DEF IInv
<1> QED
  BY <1>1, SpecIInv, PTL

\* No executor is lost while it accepts work, and none is shut down twice at once.
THEOREM NoExecutorForgotten == Spec => []OpenPoolsAreOwned
<1>1. IInv => OpenPoolsAreOwned
  BY DEF IInv
<1> QED
  BY <1>1, SpecIInv, PTL

\* _THREAD_POOL_LOCK is held by the thread in a lease and by no other.
THEOREM LockIsTheLease == Spec => []LockHeldByLease
<1>1. IInv => LockHeldByLease
  BY DEF IInv
<1> QED
  BY <1>1, SpecIInv, PTL

\* Threads of executors wait for younger executors, or their own, alone.
THEOREM NoCircleOfJoins == Spec => []WaitsPointForward
<1>1. IInv => WaitsPointForward
  BY DEF IInv
<1> QED
  BY <1>1, SpecIInv, PTL
================================================================================
