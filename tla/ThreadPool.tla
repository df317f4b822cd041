------------------------------ MODULE ThreadPool ------------------------------
(* The shared executor of pcre/threads.py and the calls that use it:          *)
(* parallel_map, ensure_thread_pool, configure_thread_pool,                   *)
(* shutdown_thread_pool.  A call is made by a caller's thread or by code that *)
(* a chunk runs on a worker (a subject's own methods, a finalizer).           *)
(*                                                                            *)
(* An executor is known by its number, in the order of creation.  A block     *)
(* under _THREAD_POOL_LOCK that makes no call out is one step, taken while    *)
(* the lock is free; only the submission lease keeps the lock over steps.     *)
EXTENDS Naturals, Sequences, FiniteSets

CONSTANTS
  Callers,    \* threads that do not belong to a pool
  Nobody,     \* the holder of a free lock
  MaxSize,    \* _max_threads()
  MaxChunks,  \* chunks a map is cut into, at most
  MaxPools,   \* bounds of the model on the executors created
  MaxCalls    \* and on the calls made

ASSUME PoolAssumption ==
  /\ MaxSize \in Nat \ {0}
  /\ MaxChunks \in Nat \ {0}
  /\ MaxPools \in Nat
  /\ MaxCalls \in Nat
  /\ Nobody \notin Callers
  /\ Callers \cap (Nat \X Nat) = {}
  /\ Nobody \notin (Nat \X Nat)

Pools == 1..MaxPools
Sizes == 1..MaxSize
None == 0   \* no executor, and max_workers=None

\* Worker i of pool p.
Workers == Pools \X Sizes
Actors == Callers \cup Workers

VARIABLES
  created,  \* how many executors there have been
  current,  \* _THREAD_POOL
  size,     \* _THREAD_POOL_WORKERS
  config,   \* _THREAD_POOL_CONFIG
  lock,     \* the holder of _THREAD_POOL_LOCK
  width,    \* max_workers of each executor
  open,     \* whether it accepts submissions
  queue,    \* its work queue
  task,     \* the chunk each worker runs
  op,       \* the call each thread is in
  calls,    \* how many calls have been made
  failed    \* history: the batches in which a chunk raised

vars == <<created, current, size, config, lock, width, open, queue, task, op, calls, failed>>
pools == <<created, current, size, config, width>>
work == <<open, queue, task, failed>>

\* A chunk is known by the map it belongs to; a map by the number of its call.
NoTask == 0
Batch == 1..MaxCalls

Phases == {"ready", "ensure", "size", "lease", "submit", "shut", "pick", "join",
           "wait", "refused"}

\* want: max_workers; pool: leased; old: detached, to be shut down; wait: whether
\* to join it; left: its threads not yet joined; cur: the one being joined; then:
\* where the shutdown returns to; todo: chunks to submit; batch: of this map.
Op == [pc : Phases, want : {None} \cup Sizes, pool : {None} \cup Pools,
       old : {None} \cup Pools, wait : BOOLEAN, left : SUBSET Workers,
       cur : Workers \cup {Nobody}, then : {"ready", "ensure", "size", "wait"},
       todo : 0..MaxChunks, batch : 0..MaxCalls]

TypeOK ==
  /\ created \in 0..MaxPools
  /\ current \in {None} \cup Pools
  /\ size \in {None} \cup Sizes
  /\ config \in {None} \cup Sizes
  /\ lock \in Actors \cup {Nobody}
  /\ width \in [Pools -> {None} \cup Sizes]
  /\ open \in [Pools -> BOOLEAN]
  /\ queue \in [Pools -> Seq(Batch)]
  /\ task \in [Workers -> {NoTask} \cup Batch]
  /\ op \in [Actors -> Op]
  /\ calls \in 0..MaxCalls
  /\ failed \in SUBSET Batch

Rest == [pc |-> "ready", want |-> None, pool |-> None, old |-> None, wait |-> TRUE,
         left |-> {}, cur |-> Nobody, then |-> "ready", todo |-> 0, batch |-> 0]

Init ==
  /\ created = 0 /\ current = None /\ size = None /\ config = None
  /\ lock = Nobody
  /\ width = [p \in Pools |-> None]
  /\ open = [p \in Pools |-> FALSE]
  /\ queue = [p \in Pools |-> <<>>]
  /\ task = [w \in Workers |-> NoTask]
  /\ op = [a \in Actors |-> Rest]
  /\ calls = 0
  /\ failed = {}

-----------------------------------------------------------------------------
(* The calls.                                                                 *)

\* _PARALLEL_TLS.in_worker
InWorker(a) == a \in Workers /\ task[a] # NoTask

\* A worker makes calls only from the chunk it runs.
MayCall(a) ==
  /\ op[a].pc = "ready"
  /\ a \in Callers \/ InWorker(a)
  /\ calls < MaxCalls

\* ensure_thread_pool(max_workers)
CallEnsure(a, n) ==
  /\ MayCall(a)
  /\ op' = [op EXCEPT ![a] = [Rest EXCEPT !.pc = "ensure", !.want = n]]
  /\ calls' = calls + 1
  /\ UNCHANGED <<pools, work, lock>>

\* Mutant: one chunk too many.
CallMapExtraChunk(a, w, n) ==
  /\ MayCall(a)
  /\ op' = IF InWorker(a) THEN op
           ELSE [op EXCEPT ![a] = [Rest EXCEPT !.pc = "ensure", !.want = w, !.todo = n + 1,
                                               !.then = "size", !.batch = calls + 1]]
  /\ calls' = calls + 1
  /\ UNCHANGED <<pools, work, lock>>

\* Mutant: a nested map submits to the pool it runs on.
CallMapNested(a, w, n) ==
  /\ MayCall(a)
  /\ op' = [op EXCEPT ![a] = [Rest EXCEPT !.pc = "ensure", !.want = w, !.todo = n,
                                          !.then = "size", !.batch = calls + 1]]
  /\ calls' = calls + 1
  /\ UNCHANGED <<pools, work, lock>>

\* parallel_map, past the returns that need no pool: a nested map runs inline,
\* another one ensures the pool and submits n chunks.
CallMap(a, w, n) ==
  /\ MayCall(a)
  /\ op' = IF InWorker(a) THEN op
           ELSE [op EXCEPT ![a] = [Rest EXCEPT !.pc = "ensure", !.want = w, !.todo = n,
                                               !.then = "size", !.batch = calls + 1]]
  /\ calls' = calls + 1
  /\ UNCHANGED <<pools, work, lock>>

Resolve(n) == IF n = None THEN MaxSize ELSE n

\* The thread goes on with shutting the detached executor down, if there is one,
\* and then to pc.
ShutThen(a, old, wait, pc) ==
  [op[a] EXCEPT !.old = old, !.wait = wait, !.then = pc,
                !.pc = IF old = None THEN pc ELSE "shut"]

\* configure_thread_pool: the size is set and the executor detached; preload
\* creates the next one after the old one is down.
CallConfigure(a, n, preload) ==
  /\ MayCall(a)
  /\ lock = Nobody
  /\ size' = n /\ config' = n
  /\ current' = None
  /\ op' = [op EXCEPT ![a] = [ShutThen(a, current, TRUE, IF preload THEN "ensure" ELSE "ready")
                                EXCEPT !.want = IF preload THEN n ELSE None]]
  /\ calls' = calls + 1
  /\ UNCHANGED <<created, width, work, lock>>

\* Mutant: the executor is detached without the lock.
CallShutdownUnlocked(a, wait) ==
  /\ MayCall(a)
  /\ current' = None
  /\ op' = [op EXCEPT ![a] = ShutThen(a, current, wait, "ready")]
  /\ calls' = calls + 1
  /\ UNCHANGED <<created, size, config, width, work, lock>>

CallShutdown(a, wait) ==
  /\ MayCall(a)
  /\ lock = Nobody
  /\ current' = None
  /\ op' = [op EXCEPT ![a] = ShutThen(a, current, wait, "ready")]
  /\ calls' = calls + 1
  /\ UNCHANGED <<created, size, config, width, work, lock>>

-----------------------------------------------------------------------------
(* The blocks under the lock.                                                 *)

\* _determine_worker_count(max_workers if not None else _THREAD_POOL_WORKERS)
Target(n) == Resolve(IF n = None THEN size ELSE n)

Reuses(n) == current # None /\ size = Target(n)

\* _pool_for_target_locked: the executor in place if it has the target size, or
\* a new one that takes its place.
PoolForTarget(n) ==
  /\ size' = Target(n) /\ config' = Target(n)
  /\ IF Reuses(n)
     THEN UNCHANGED <<created, current, width, open>>
     ELSE /\ created < MaxPools
          /\ created' = created + 1
          /\ current' = created + 1
          /\ width' = [width EXCEPT ![created + 1] = Target(n)]
          /\ open' = [open EXCEPT ![created + 1] = TRUE]

\* Mutant: the executor replaced is dropped without a shutdown.
ReplacedForgotten(n) == None

\* Mutant: the executor to shut down is taken from the wrong end of a list.
ReplacedOldest(n) == IF Reuses(n) \/ created = 0 THEN None ELSE 1

Replaced(n) == IF Reuses(n) THEN None ELSE current

Ensure(a) ==
  /\ op[a].pc = "ensure"
  /\ lock = Nobody
  /\ PoolForTarget(op[a].want)
  /\ op' = [op EXCEPT ![a] =
              ShutThen(a, Replaced(op[a].want), TRUE,
                       IF op[a].todo > 0 THEN "size" ELSE "ready")]
  /\ UNCHANGED <<lock, queue, task, calls, failed>>

\* get_thread_pool_size: lock-free while the two copies agree.
GetSize(a) ==
  /\ op[a].pc = "size"
  /\ IF config # None /\ config = size
     THEN UNCHANGED <<size, config>>
     ELSE /\ lock = Nobody
          /\ size' = Resolve(size)
          /\ config' = Resolve(size)
  /\ op' = [op EXCEPT ![a].pc = "lease"]
  /\ UNCHANGED <<created, current, width, work, lock, calls>>

\* _thread_pool_submission: the lock is kept until the batch is submitted.
Lease(a) ==
  /\ op[a].pc = "lease"
  /\ lock = Nobody
  /\ lock' = a
  /\ PoolForTarget(op[a].want)
  /\ op' = [op EXCEPT ![a].pc = "submit", ![a].pool = current', ![a].old = Replaced(op[a].want)]
  /\ UNCHANGED <<queue, task, calls, failed>>

\* pool.submit(task); an executor that is down refuses.
Submit(a) ==
  /\ op[a].pc = "submit"
  /\ op[a].todo > 0
  /\ IF open[op[a].pool]
     THEN /\ queue' = [queue EXCEPT ![op[a].pool] = Append(@, op[a].batch)]
          /\ op' = [op EXCEPT ![a].todo = @ - 1]
          /\ UNCHANGED lock
     ELSE /\ op' = [op EXCEPT ![a].pc = "refused"]
          /\ lock' = Nobody
          /\ UNCHANGED queue
  /\ UNCHANGED <<pools, open, task, calls, failed>>

\* Mutant: the lock is kept while the replaced executor is shut down.
ReleaseLate(a) ==
  /\ op[a].pc = "submit"
  /\ op[a].todo = 0
  /\ lock' = IF op[a].old = None THEN Nobody ELSE a
  /\ op' = [op EXCEPT ![a] = ShutThen(a, op[a].old, TRUE, "wait")]
  /\ UNCHANGED <<pools, work, calls>>

\* The lease ends; an executor it replaced is shut down only now.
Release(a) ==
  /\ op[a].pc = "submit"
  /\ op[a].todo = 0
  /\ lock' = Nobody
  /\ op' = [op EXCEPT ![a] = ShutThen(a, op[a].old, TRUE, "wait")]
  /\ UNCHANGED <<pools, work, calls>>

-----------------------------------------------------------------------------
(* Executors (concurrent.futures).                                            *)

ThreadsOf(p) == {w \in Workers : w[1] = p /\ w[2] <= width[p]}

Outstanding(b) ==
  \/ \E p \in Pools : \E i \in DOMAIN queue[p] : queue[p][i] = b
  \/ \E w \in Workers : task[w] = b

\* pool.shutdown: no submission from here on; with wait, every thread is joined.
Shut(a) ==
  /\ op[a].pc = "shut"
  /\ open' = [open EXCEPT ![op[a].old] = FALSE]
  /\ op' = [op EXCEPT ![a] =
              IF op[a].wait THEN [@ EXCEPT !.pc = "pick", !.left = ThreadsOf(op[a].old)]
                            ELSE [@ EXCEPT !.pc = op[a].then, !.old = None]]
  /\ UNCHANGED <<pools, queue, task, failed, lock, calls>>

\* The threads are joined one after the other, in no particular order.
PickJoin(a) ==
  /\ op[a].pc = "pick"
  /\ \/ /\ op[a].left = {}
        /\ op' = [op EXCEPT ![a].pc = op[a].then, ![a].old = None]
     \/ \E w \in op[a].left : op' = [op EXCEPT ![a].pc = "join", ![a].cur = w]
  /\ UNCHANGED <<pools, work, lock, calls>>

Exited(w) == ~open[w[1]] /\ queue[w[1]] = <<>> /\ task[w] = NoTask

\* t.join() returns when the thread has ended; a thread that joins itself gets a
\* RuntimeError, which ends the call.
Join(a) ==
  LET w == op[a].cur
  IN /\ op[a].pc = "join"
     /\ \/ /\ w = a
           /\ op' = [op EXCEPT ![a] = Rest]
        \/ /\ w # a /\ Exited(w)
           /\ op' = [op EXCEPT ![a].pc = "pick", ![a].left = @ \ {w}, ![a].cur = Nobody]
     /\ UNCHANGED <<pools, work, lock, calls>>

\* A worker takes the oldest chunk; an executor that is down still runs what it
\* has accepted.
TakeChunk(w) ==
  /\ w \in ThreadsOf(w[1])
  /\ op[w].pc = "ready"
  /\ task[w] = NoTask
  /\ queue[w[1]] # <<>>
  /\ task' = [task EXCEPT ![w] = Head(queue[w[1]])]
  /\ queue' = [queue EXCEPT ![w[1]] = Tail(@)]
  /\ UNCHANGED <<pools, open, op, lock, calls, failed>>

FinishChunk(w) ==
  /\ op[w].pc = "ready"
  /\ task[w] # NoTask
  /\ task' = [task EXCEPT ![w] = NoTask]
  /\ \/ UNCHANGED failed
     \/ failed' = failed \cup {task[w]}
  /\ UNCHANGED <<pools, open, queue, op, lock, calls>>

\* future.result() of every chunk in order: the map returns once all are done,
\* or raises as soon as it comes to one that raised.
Await(a) ==
  /\ op[a].pc = "wait"
  /\ ~Outstanding(op[a].batch) \/ op[a].batch \in failed
  /\ op' = [op EXCEPT ![a] = Rest]
  /\ UNCHANGED <<pools, work, lock, calls>>

-----------------------------------------------------------------------------
Call(a) ==
  \/ \E n \in {None} \cup Sizes : CallEnsure(a, n)
  \/ \E n \in {None} \cup Sizes, k \in 1..MaxChunks : CallMap(a, n, k)
  \/ \E n \in Sizes, preload \in BOOLEAN : CallConfigure(a, n, preload)
  \/ \E wait \in BOOLEAN : CallShutdown(a, wait)

\* What a call under way does next.
Step(a) ==
  \/ Ensure(a) \/ GetSize(a) \/ Lease(a) \/ Submit(a) \/ Release(a)
  \/ Shut(a) \/ PickJoin(a) \/ Join(a) \/ Await(a)

Work(w) == TakeChunk(w) \/ FinishChunk(w)

Next ==
  \/ \E a \in Actors : Call(a) \/ Step(a)
  \/ \E w \in Workers : Work(w)

Spec == Init /\ [][Next]_vars

\* Threads run, and the code of a chunk terminates.  With MaxCalls calls in all,
\* a behaviour that never stops moving makes every step it can, so the fairness
\* of the whole is all that is needed of the scheduler.
Progress == (\E a \in Actors : Step(a)) \/ (\E w \in Workers : Work(w))

FairSpec == Spec /\ WF_vars(Progress)

-----------------------------------------------------------------------------
(* Properties.                                                                *)

\* "every submission is accepted by a live executor" (pcre/threads.py:160-164):
\* no replacement, reconfiguration or shutdown closes the executor a lease is on.
NoSubmissionRefused == \A a \in Actors : op[a].pc # "refused"

\* No executor is forgotten while it is open: it is the shared one, or a call has
\* yet to shut it down; and no two calls shut down the same executor.
OpenPoolsAreOwned ==
  /\ \A p \in Pools : open[p] =>
       p = current \/ \E a \in Actors : op[a].old = p /\ op[a].pc \in {"submit", "shut"}
  /\ \A a, b \in Actors : op[a].old # None /\ op[a].old = op[b].old => a = b

\* The lock is held by the thread in a lease alone, never over the joining of a
\* pool's threads or the wait for a batch, which could depend on the lock.
LockHeldByLease ==
  \A a \in Actors : lock = a <=> op[a].pc = "submit"

\* A worker only ever shuts down its own executor or a younger one, so the waits
\* of threads for each other's end never form a circle but the one of a thread
\* joining itself, which raises.
WaitsPointForward ==
  \A w \in Workers : op[w].old # None => w[1] <= op[w].old

\* No call waits forever, whatever other calls, nested maps and shutdowns from
\* within chunks it races with.
CallsReturn == \A a \in Actors : op[a].pc # "ready" ~> op[a].pc = "ready"

\* A chunk that was accepted runs to its end, even when its executor is shut
\* down or the map it belongs to has raised.
AcceptedChunksRun == \A b \in Batch : Outstanding(b) ~> ~Outstanding(b)
================================================================================
