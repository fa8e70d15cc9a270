----------------------------- MODULE Arbitration -----------------------------
(***************************************************************************)
(* The closed-loop I/O engine of examples/arbitration/arbitration.cc; the  *)
(* modules of the programs copied from it are instantiated in              *)
(* MCEnginePrograms.  main() registers one worker per core, attaches the   *)
(* namespaces, builds Count ns_worker_ctx (one qpair each), creates ONE    *)
(* task pool shared by every worker, and launches work_fn on every core.   *)
(* A worker fills each of its contexts to queue_depth, polls until its     *)
(* time is over, and drains.                                               *)
(*                                                                         *)
(* Each of the queue_depth I/Os a context starts is replaced, when it      *)
(* completes, by the next one; slot s of context c is the s-th of these    *)
(* chains.  `inflight` is the set of slots whose command the device holds. *)
(* `lost` is the set of slots whose command was refused: the code then     *)
(* keeps the task and its buffer and never starts that chain again.        *)
(*                                                                         *)
(* Data left out: LBAs (offset_in_ios is kept), payloads, statistics       *)
(* printed at the end, argument parsing.                                   *)
(***************************************************************************)
EXTENDS Integers, FiniteSets

CONSTANTS
  NumWorkers,     \* cores in core_mask
  NumNamespaces,  \* namespaces register_ns accepted
  Count,          \* contexts associate_workers_with_ns builds
  QueueDepth,     \* g_arbitration.queue_depth
  SizeInIos,      \* entry->size_in_ios
  IsRandom,       \* g_arbitration.is_random
  Faults,         \* which calls of the environment may fail
  MaxIo           \* bound: completions of one context before its time is over

FaultKinds ==
  {"calloc", "no_namespace", "mempool", "qpair", "zmalloc", "submit"}

ASSUME ConstantsAssumption ==
  /\ NumWorkers \in Nat \ {0}
  /\ NumNamespaces \in Nat \ {0}
  /\ Count \in Nat
  /\ QueueDepth \in Nat \ {0}
  /\ SizeInIos \in Nat \ {0}
  /\ IsRandom \in BOOLEAN
  /\ Faults \subseteq FaultKinds
  /\ MaxIo \in Nat

VARIABLES
  main,      \* where main() is; "exit" once any thread called exit(1)
  worker,    \* work_fn of each core: [pc, cur, slot]
  qpair,     \* ns_ctx->qpair: "none", "open", "freed"
  depth,     \* ns_ctx->current_queue_depth
  completed, \* ns_ctx->io_completed
  draining,  \* ns_ctx->is_draining
  offset,    \* ns_ctx->offset_in_ios
  expired,   \* spdk_get_ticks() > tsc_end, per worker
  inflight,  \* slots whose command the device holds
  lost,      \* slots whose command the driver refused
  pool       \* spdk_mempool_count(task_pool)

ctxVars == <<qpair, depth, completed, draining, offset>>
ioVars  == <<inflight, lost, pool>>
vars == <<main, worker, ctxVars, expired, ioVars>>

-----------------------------------------------------------------------------
Larger(a, b) == IF a > b THEN a ELSE b

Workers == 1..NumWorkers
Ctxs == 1..Count
Slots == 1..QueueDepth
NULL == 0

\* Fault: the pool is sized for one context only.
task_count_one_ctx == QueueDepth

\* The number of tasks main() creates the pool with.
task_count == Larger(NumNamespaces, NumWorkers) * QueueDepth

\* associate_workers_with_ns deals the contexts to the workers in turn, so the
\* list of worker w is w, w + NumWorkers, w + 2 * NumWorkers, ...
worker_of(c) == ((c - 1) % NumWorkers) + 1
First(w) == IF w \in Ctxs THEN w ELSE NULL
NextOf(c) == IF c + NumWorkers \in Ctxs THEN c + NumWorkers ELSE NULL

At(w, pc) == worker[w].pc = pc /\ main = "working"
Goto(w, pc, cur, slot) ==
  worker' = [worker EXCEPT ![w] = [pc |-> pc, cur |-> cur, slot |-> slot]]

Outstanding(c) == {s \in Slots : <<c, s>> \in inflight}

Init ==
  /\ main = "register_workers"
  /\ worker = [w \in Workers |-> [pc |-> "idle", cur |-> NULL, slot |-> 0]]
  /\ qpair = [c \in Ctxs |-> "none"]
  /\ depth = [c \in Ctxs |-> 0]
  /\ completed = [c \in Ctxs |-> 0]
  /\ draining = [c \in Ctxs |-> FALSE]
  /\ offset = [c \in Ctxs |-> 0]
  /\ expired = [w \in Workers |-> FALSE]
  /\ inflight = {}
  /\ lost = {}
  /\ pool = 0

-----------------------------------------------------------------------------
(* main *)

Setup(from, to) ==
  /\ main = from
  /\ main' = to
  /\ UNCHANGED <<worker, ctxVars, expired, ioVars>>

\* Every setup failure calls zstore_cleanup, whose cleanup() counts task_pool
\* while it is still NULL: spdk_mempool_count(NULL) reads through NULL.
zstore_cleanup_without_pool(from) == Setup(from, "crashed")

register_workers ==
  \/ Setup("register_workers", "register_controllers")
  \/ "calloc" \in Faults /\ zstore_cleanup_without_pool("register_workers")

\* No namespace was registered; the exits of register_ctrlr itself, which end the
\* process at the same point, are in AdminFeatures.
register_controllers ==
  \/ Setup("register_controllers", "associate")
  \/ /\ "no_namespace" \in Faults
     /\ zstore_cleanup_without_pool("register_controllers")

associate_workers_with_ns ==
  \/ Setup("associate", "create_pool")
  \/ "calloc" \in Faults /\ zstore_cleanup_without_pool("associate")

create_pool ==
  \/ /\ main = "create_pool"
     /\ main' = "launch"
     /\ pool' = task_count
     /\ UNCHANGED <<worker, ctxVars, expired, inflight, lost>>
  \/ "mempool" \in Faults /\ zstore_cleanup_without_pool("create_pool")

launch ==
  /\ main = "launch"
  /\ main' = "working"
  /\ worker' = [w \in Workers |->
                  [pc |-> "init", cur |-> First(w), slot |-> 0]]
  /\ UNCHANGED <<ctxVars, expired, ioVars>>

\* Fault: main() goes on when its own work_fn is done.
wait_all_own_only ==
  /\ worker[1].pc \in {"done", "failed"}
  /\ Setup("working", "print_stats")

\* main() returns from its own work_fn and spdk_env_thread_wait_all returns.
wait_all ==
  /\ \A w \in Workers : worker[w].pc \in {"done", "failed"}
  /\ Setup("working", "print_stats")

\* print_stats, then zstore_cleanup: detach, free the contexts, compare the
\* pool with task_count, free the pool.
zstore_cleanup ==
  /\ main = "print_stats"
  /\ main' = IF pool # task_count THEN "end_mismatch" ELSE "end"
  /\ UNCHANGED <<worker, ctxVars, expired, ioVars>>

-----------------------------------------------------------------------------
(* submit_single_io of slot s of context c by worker w; the caller goes on  *)
(* at Goto(w, pc, cur, slot)                                                *)

Exit1 ==
  /\ main' = "exit"
  /\ UNCHANGED <<worker, ctxVars, expired, ioVars>>

AdvanceOffset(c) ==
  offset' = IF IsRandom THEN offset
            ELSE [offset EXCEPT ![c] =
                    IF @ + 1 = SizeInIos THEN 0 ELSE @ + 1]

\* Fault: current_queue_depth is raised whatever rc is.
SubmitRefused_counted(c, s) ==
  /\ "submit" \in Faults
  /\ lost' = lost \cup {<<c, s>>}
  /\ depth' = [depth EXCEPT ![c] = @ + 1]
  /\ UNCHANGED inflight

\* rc # 0: the error is printed and the task stays out of the pool.
SubmitRefused(c, s) ==
  /\ "submit" \in Faults
  /\ lost' = lost \cup {<<c, s>>}
  /\ UNCHANGED <<inflight, depth>>

SubmitAccepted(c, s) ==
  /\ inflight' = inflight \cup {<<c, s>>}
  /\ depth' = [depth EXCEPT ![c] = @ + 1]
  /\ UNCHANGED lost

submit_single_io(w, c, s, pc, cur, slot) ==
  \/ pool = 0 /\ Exit1
  \/ pool > 0 /\ "zmalloc" \in Faults /\ Exit1
  \/ /\ pool > 0
     /\ pool' = pool - 1
     /\ AdvanceOffset(c)
     /\ SubmitRefused(c, s) \/ SubmitAccepted(c, s)
     /\ Goto(w, pc, cur, slot)
     /\ UNCHANGED <<main, qpair, completed, draining, expired>>

-----------------------------------------------------------------------------
(* work_fn *)

\* init_ns_worker_ctx for the next context of the list.
init_ns_worker_ctx(w) ==
  LET c == worker[w].cur IN
  /\ At(w, "init")
  /\ c # NULL
  /\ \/ /\ qpair' = [qpair EXCEPT ![c] = "open"]
        /\ Goto(w, "init", NextOf(c), 0)
     \/ /\ "qpair" \in Faults
        /\ Goto(w, "failed", NULL, 0)
        /\ UNCHANGED qpair
  /\ UNCHANGED <<main, depth, completed, draining, offset, expired, ioVars>>

\* A step of work_fn that only moves the worker on.
Move(w, from, pc, cur, slot) ==
  /\ At(w, from)
  /\ Goto(w, pc, cur, slot)
  /\ UNCHANGED <<main, ctxVars, expired, ioVars>>

\* All qpairs are open: start the clock and the initial submission.
StartSubmit(w) ==
  worker[w].cur = NULL /\ Move(w, "init", "submit", First(w), QueueDepth)

\* One turn of submit_io's loop; slot counts queue_depth down.
submit_io(w) ==
  LET c == worker[w].cur
      s == worker[w].slot IN
  /\ At(w, "submit")
  /\ c # NULL
  /\ s > 0
  /\ submit_single_io(w, c, s, "submit", c, s - 1)

SubmitNextCtx(w) ==
  LET c == worker[w].cur IN
  c # NULL /\ worker[w].slot = 0 /\ Move(w, "submit", "submit", NextOf(c), QueueDepth)

StartPoll(w) == worker[w].cur = NULL /\ Move(w, "submit", "poll", First(w), 0)

CompletionOf(w, c, s) ==
  /\ <<c, s>> \in inflight
  /\ \/ At(w, "poll") /\ completed[c] < MaxIo
     \/ At(w, "drain") /\ draining[c]
  /\ inflight' = inflight \ {<<c, s>>}
  /\ depth' = [depth EXCEPT ![c] = @ - 1]
  /\ completed' = [completed EXCEPT ![c] = @ + 1]
  /\ UNCHANGED <<main, qpair, draining, offset, expired, lost>>

\* Fault: the task is not put back.
task_complete_no_put(w, s) ==
  LET c == worker[w].cur IN
  /\ CompletionOf(w, c, s)
  /\ UNCHANGED pool
  /\ IF draining[c] THEN UNCHANGED worker ELSE Goto(w, "resubmit", c, s)

\* Fault: is_draining is not tested, the completed I/O is always replaced.
task_complete_always_replaces(w, s) ==
  LET c == worker[w].cur IN
  /\ CompletionOf(w, c, s)
  /\ pool' = pool + 1
  /\ Goto(w, "resubmit", c, s)

\* check_io(cur) delivers the completion of slot s: io_complete, task_complete.
\* The replacement is submitted from the callback (pc "resubmit").
task_complete(w, s) ==
  LET c == worker[w].cur IN
  /\ CompletionOf(w, c, s)
  /\ pool' = pool + 1
  /\ IF draining[c] THEN UNCHANGED worker ELSE Goto(w, "resubmit", c, s)

\* Fault: a completed I/O is not replaced.
resubmit_nothing(w) == Move(w, "resubmit", "poll", worker[w].cur, 0)

resubmit(w) ==
  LET c == worker[w].cur
      s == worker[w].slot IN
  /\ At(w, "resubmit")
  /\ submit_single_io(w, c, s, "poll", c, 0)

\* check_io returns and the loop goes to the next context.
check_io_return(w) ==
  LET c == worker[w].cur IN
  c # NULL /\ Move(w, "poll", "poll", NextOf(c), 0)

PollAgain(w) ==
  worker[w].cur = NULL /\ ~expired[w] /\ Move(w, "poll", "poll", First(w), 0)

\* Time is over: the drain loop starts with the first context.
StopPolling(w) ==
  worker[w].cur = NULL /\ expired[w] /\ Move(w, "poll", "drain", First(w), 0)

\* drain_io sets is_draining, then polls while current_queue_depth > 0.
drain_io(w) ==
  LET c == worker[w].cur IN
  /\ At(w, "drain")
  /\ c # NULL
  /\ ~draining[c]
  /\ draining' = [draining EXCEPT ![c] = TRUE]
  /\ UNCHANGED <<main, worker, qpair, depth, completed, offset, expired, ioVars>>

cleanup_ns_worker_ctx(w) ==
  LET c == worker[w].cur IN
  /\ At(w, "drain")
  /\ c # NULL
  /\ draining[c]
  /\ depth[c] = 0
  /\ qpair' = [qpair EXCEPT ![c] = "freed"]
  /\ Goto(w, "drain", NextOf(c), 0)
  /\ UNCHANGED <<main, depth, completed, draining, offset, expired, ioVars>>

WorkerReturns(w) == worker[w].cur = NULL /\ Move(w, "drain", "done", NULL, 0)

\* The clock of the core passes tsc_end, which is read when submission starts.
Clock(w) ==
  /\ main = "working"
  /\ worker[w].pc \in {"submit", "poll", "resubmit"}
  /\ ~expired[w]
  /\ expired' = [expired EXCEPT ![w] = TRUE]
  /\ UNCHANGED <<main, worker, ctxVars, ioVars>>

-----------------------------------------------------------------------------
MainNext ==
  \/ register_workers \/ register_controllers \/ associate_workers_with_ns
  \/ create_pool \/ launch \/ wait_all \/ zstore_cleanup

\* The steps the thread itself takes, whatever the device does.
ThreadStep(w) ==
  \/ init_ns_worker_ctx(w) \/ StartSubmit(w)
  \/ submit_io(w) \/ SubmitNextCtx(w) \/ StartPoll(w)
  \/ resubmit(w)
  \/ PollAgain(w) \/ StopPolling(w)
  \/ drain_io(w) \/ cleanup_ns_worker_ctx(w) \/ WorkerReturns(w)

Completion(w) == \E s \in Slots : task_complete(w, s)

Next ==
  \/ MainNext
  \/ \E w \in Workers :
       ThreadStep(w) \/ Completion(w) \/ check_io_return(w) \/ Clock(w)

Spec == Init /\ [][Next]_vars

(***************************************************************************)
(* Threads are pinned to their own cores and never block (weak fairness),  *)
(* the device answers every command it holds, time passes, and one call of *)
(* spdk_nvme_qpair_process_completions handles boundedly many completions, *)
(* so check_io returns even if new completions keep arriving (strong).     *)
(***************************************************************************)
Fairness ==
  /\ WF_vars(MainNext)
  /\ \A w \in Workers :
       /\ WF_vars(ThreadStep(w))
       /\ WF_vars(Completion(w))
       /\ WF_vars(Clock(w))
       /\ SF_vars(check_io_return(w))

FairSpec == Spec /\ Fairness

-----------------------------------------------------------------------------
(* Properties *)

Pcs == {"idle", "init", "submit", "poll", "resubmit", "drain", "done", "failed"}
MainPcs ==
  {"register_workers", "register_controllers", "associate", "create_pool",
   "launch", "working", "print_stats", "end", "end_mismatch", "exit", "crashed"}
PoolCreated ==
  main \in {"launch", "working", "print_stats", "end", "end_mismatch", "exit"}
Finished == main \in {"end", "end_mismatch", "exit", "crashed"}

\* Every variable has the type of the C++ field it stands for.
TypeOK ==
  /\ main \in MainPcs
  /\ worker \in [Workers -> [pc : Pcs, cur : Ctxs \cup {NULL},
                              slot : Slots \cup {0}]]
  /\ qpair \in [Ctxs -> {"none", "open", "freed"}]
  /\ depth \in [Ctxs -> Nat]
  /\ completed \in [Ctxs -> Nat]
  /\ draining \in [Ctxs -> BOOLEAN]
  /\ offset \in [Ctxs -> Nat]
  /\ expired \in [Workers -> BOOLEAN]
  /\ inflight \subseteq Ctxs \X Slots
  /\ lost \subseteq Ctxs \X Slots
  /\ pool \in Nat

\* No task vanishes and none is returned twice: at every moment the shared pool,
\* the commands the device holds and the tasks kept by refused submissions add
\* up to the task_count the pool was created with.
PoolAccounting ==
  PoolCreated => pool + Cardinality(inflight) + Cardinality(lost) = task_count

\* current_queue_depth, which drain_io waits on, is exactly the number of
\* commands of that context the device still holds.
DepthIsOutstanding ==
  \A c \in Ctxs : depth[c] = Cardinality(Outstanding(c))

\* spdk_mempool_get never returns NULL: whenever a worker is about to submit,
\* the pool main() sized by max(namespaces, workers) * queue_depth holds a task.
PoolSuffices ==
  \A w \in Workers :
    (At(w, "resubmit") \/ (At(w, "submit") /\ worker[w].cur # NULL /\ worker[w].slot > 0))
      => pool > 0

\* A qpair is alive as long as the device holds a command submitted through it:
\* cleanup_ns_worker_ctx never frees it under an outstanding I/O.
QpairOutlivesIo == \A io \in inflight : qpair[io[1]] = "open"

\* Once main() is past spdk_env_thread_wait_all (it prints the counters, frees
\* contexts, tasks and pool), no worker is running and the device is idle.
QuietAtCleanup ==
  main \in {"print_stats", "end", "end_mismatch"} =>
    /\ inflight = {}
    /\ \A w \in Workers : worker[w].pc \in {"done", "failed"}

\* The loop is closed: while a worker polls, every slot of every context it owns
\* is in flight, except the slots a refused submission lost for good.
ClosedLoop ==
  \A w \in Workers : At(w, "poll") =>
    \A c \in Ctxs, s \in Slots :
      worker_of(c) = w => <<c, s>> \in inflight \cup lost

\* A sequential workload never addresses past the namespace: the offset used by
\* the next submission is below size_in_ios.
OffsetInRange == \A c \in Ctxs : offset[c] < SizeInIos

\* From the moment is_draining is set, a context starts no new I/O: the set of
\* its outstanding commands only shrinks.
DrainOnlyShrinks ==
  [][\A c \in Ctxs : draining[c] =>
       Outstanding(c)' \subseteq Outstanding(c)]_vars

\* Every run ends: time expires on every core, every context drains, main()
\* joins the workers and cleans up (or the process exits or crashes).
Termination == <>Finished

\* The engine as an implementation of QpairContract: the same qpairs, with everything
\* else the engine does (threads, pool, clocks) left out.
Contract == INSTANCE QpairContract WITH Qpairs <- Ctxs

\* The engine implements the contract: through all interleavings, refused
\* submissions and failed allocations, init_ns_worker_ctx opens each qpair once,
\* nothing is submitted after drain_io began, and cleanup_ns_worker_ctx frees a
\* drained qpair with nothing outstanding.
UsesQpairsProperly == Contract!Spec

-----------------------------------------------------------------------------
(* The inductive invariant behind the safety properties *)

Used == inflight \cup lost

\* Which slots of a context of worker w are taken, by where w is.
SlotInv(w, c, s) ==
  LET W == worker[w]
      u == <<c, s>> \in Used IN
  /\ W.pc \in {"idle", "init", "failed"} => ~u
  /\ W.pc = "submit" =>
       (u <=> (W.cur = NULL \/ c < W.cur \/ (c = W.cur /\ s > W.slot)))
  /\ W.pc = "poll" => u
  /\ W.pc = "resubmit" => (u <=> ~(c = W.cur /\ s = W.slot))
  /\ W.pc = "drain" /\ (W.cur = NULL \/ c < W.cur) => <<c, s>> \notin inflight
  /\ W.pc = "done" => <<c, s>> \notin inflight

\* The qpair and is_draining of a context of worker w, by where w is.
CtxInv(w, c) ==
  LET W == worker[w] IN
  /\ W.pc = "init" /\ (W.cur = NULL \/ c < W.cur) => qpair[c] = "open"
  /\ W.pc \in {"submit", "poll", "resubmit"} => qpair[c] = "open"
  /\ draining[c] => W.pc \in {"drain", "done"}

WorkerInv(w) ==
  LET W == worker[w] IN
  /\ W.cur # NULL => worker_of(W.cur) = w
  /\ W.pc = "resubmit" => W.cur # NULL /\ W.slot # 0
  /\ main \notin {"working", "print_stats", "end", "end_mismatch", "exit"} =>
       W.pc = "idle"
  /\ main \in {"print_stats", "end", "end_mismatch"} => W.pc \in {"done", "failed"}

\* Where each worker is determines which slots of its contexts are in flight,
\* lost or free, which qpairs are open and which contexts drain; the pool and
\* current_queue_depth agree with that at every step of work_fn.
IInv ==
  /\ TypeOK
  /\ PoolAccounting
  /\ DepthIsOutstanding
  /\ QpairOutlivesIo
  /\ inflight \cap lost = {}
  /\ \A w \in Workers : WorkerInv(w)
  /\ \A c \in Ctxs : CtxInv(worker_of(c), c)
  /\ \A c \in Ctxs, s \in Slots : SlotInv(worker_of(c), c, s)

\* Which qpairs of a worker are not opened yet, and which not freed yet, by where
\* the worker is; with IInv this is what the refinement needs.
OpenInv(w, c) ==
  LET W == worker[w] IN
  /\ W.pc = "idle" => qpair[c] = "none"
  /\ W.pc = "init" /\ W.cur # NULL /\ c >= W.cur => qpair[c] = "none"
  /\ W.pc = "drain" /\ W.cur # NULL /\ c >= W.cur => qpair[c] = "open"
QInv == \A c \in Ctxs : OpenInv(worker_of(c), c)
=============================================================================
