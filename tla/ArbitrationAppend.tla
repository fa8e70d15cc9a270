-------------------------- MODULE ArbitrationAppend --------------------------
(***************************************************************************)
(* examples/arbitration/arbitration_append.cc: the engine of Arbitration   *)
(* with ONE context (count = 1) that stamps its I/Os.  submit_single_io    *)
(* pushes the time to stimes before the zone append, task_complete pushes  *)
(* the time to etimes, and after the drain work_fn subtracts the vectors   *)
(* index by index, cuts each difference to whole microseconds and prints   *)
(* mean and deviation, although I/Os complete out of order.                *)
(*                                                                         *)
(* began and spent are history variables: when the I/O of each slot was    *)
(* stamped, and number, sum and sum of squares of the latencies of the     *)
(* completed I/Os, in ticks of the clock.                                  *)
(***************************************************************************)
EXTENDS Integers, Sequences, SequencesExt

CONSTANTS NumWorkers, NumNamespaces, QueueDepth, SizeInIos, IsRandom, Faults,
          MaxIo,    \* bound: completions before the time is over
          MaxTime,  \* bound: the clock stops here
          Micro     \* ticks of the clock per microsecond

CONSTANTS TrackingCapable, WrrCapable, Arguments, AdminFaults

VARIABLES main, worker, qpair, depth, completed, draining, offset, expired,
          inflight, lost, pool

VARIABLES args, opt, ctl, polling, cur, g_controllers, outstanding, commands,
          valid, pages, tracked, weights, refused, kept, fallback

VARIABLES
  now,     \* high_resolution_clock::now()
  stimes,  \* ns_ctx->stimes
  etimes,  \* ns_ctx->etimes
  began,   \* history: the stamp of the I/O in each slot
  spent,   \* history: the latencies of the completed I/Os
  report   \* what work_fn computed: [state, of]

\* What mean and deviation are computed from: how many values, their sum and the
\* sum of their squares.
NoValues == [n |-> 0, sum |-> 0, sq_sum |-> 0]
AddValue(x, v) == [n |-> x.n + 1, sum |-> x.sum + v, sq_sum |-> x.sq_sum + v * v]

\* associate_workers_with_ns: "count = 1", on the first worker.
Engine == INSTANCE Arbitration WITH Count <- 1
\* zns_dev_init connects two controllers.
Admin == INSTANCE AdminFeatures WITH NumCtrlrs <- 2, Sequential <- FALSE

stampVars == <<now, stimes, etimes, began, spent, report>>
engineVars == <<main, worker, qpair, depth, completed, draining, offset,
                expired, inflight, lost, pool>>
programVars == <<engineVars, stampVars>>
adminVars == <<args, opt, ctl, polling, cur, g_controllers, outstanding, commands,
               valid, pages, tracked, weights, refused, kept, fallback>>
vars == <<programVars, adminVars>>

ProgramInit ==
  /\ Engine!Init
  /\ now = 0
  /\ stimes = <<>>
  /\ etimes = <<>>
  /\ began = [s \in Engine!Slots |-> 0]
  /\ spent = NoValues
  /\ report = [state |-> "none", of |-> NoValues]

Init == ProgramInit /\ Admin!Init

-----------------------------------------------------------------------------
register_workers == Engine!register_workers /\ UNCHANGED stampVars
register_controllers == Engine!register_controllers /\ UNCHANGED stampVars
associate_workers_with_ns == Engine!associate_workers_with_ns /\ UNCHANGED stampVars

\* The rest of main(): the pool, the launch, the join, print_stats.
main_rest ==
  /\ Engine!create_pool \/ Engine!launch \/ Engine!wait_all
  /\ UNCHANGED stampVars

zstore_cleanup == Engine!zstore_cleanup /\ UNCHANGED stampVars
init_ns_worker_ctx(w) == Engine!init_ns_worker_ctx(w) /\ UNCHANGED stampVars

\* submit_io and the replacement in task_complete.  The stamp is pushed before
\* the driver is called, whatever the driver answers.
submit_single_io(w) ==
  /\ Engine!submit_io(w) \/ Engine!resubmit(w)
  /\ IF main' = "exit"
     THEN UNCHANGED <<stimes, began>>
     ELSE /\ stimes' = Append(stimes, now)
          /\ began' = [began EXCEPT ![worker[w].slot] = now]
  /\ UNCHANGED <<now, etimes, spent, report>>


task_complete(w) ==
  \E s \in Engine!Slots :
    /\ Engine!task_complete(w, s)
    /\ etimes' = Append(etimes, now)
    /\ spent' = AddValue(spent, now - began[s])
    /\ UNCHANGED <<now, stimes, began, report>>

check_io(w) == Engine!check_io_return(w) /\ UNCHANGED stampVars
drain_io(w) == Engine!drain_io(w) /\ UNCHANGED stampVars

\* duration_cast to microseconds of the i-th difference.
deltas1(i) == (etimes[i] - stimes[i]) \div Micro

\* The loop over stimes, accumulate and inner_product.  An index past etimes reads
\* memory that was reserved and never written: the figures are garbage.
Deltas ==
  IF Len(stimes) > Len(etimes)
  THEN [state |-> "garbage", of |-> NoValues]
  ELSE [state |-> "computed",
        of |-> FoldSeq(LAMBDA i, x : AddValue(x, deltas1(i)), NoValues,
                       [i \in 1..Len(stimes) |-> i])]

\* cleanup_ns_worker_ctx, then the report of that context and the clearing of
\* the vectors.
cleanup_ns_worker_ctx(w) ==
  /\ Engine!cleanup_ns_worker_ctx(w)
  /\ report' = Deltas
  /\ stimes' = <<>>
  /\ etimes' = <<>>
  /\ UNCHANGED <<now, began, spent>>

\* The steps of work_fn between its calls.
work_fn(w) ==
  /\ \/ Engine!StartSubmit(w) \/ Engine!SubmitNextCtx(w) \/ Engine!StartPoll(w)
     \/ Engine!PollAgain(w) \/ Engine!StopPolling(w) \/ Engine!WorkerReturns(w)
  /\ UNCHANGED stampVars

\* Time passes, and the core's tick counter may pass tsc_end.
Clock ==
  \/ now < MaxTime /\ now' = now + 1
     /\ UNCHANGED <<engineVars, stimes, etimes, began, spent, report>>
  \/ \E w \in Engine!Workers : Engine!Clock(w) /\ UNCHANGED stampVars

-----------------------------------------------------------------------------
(* main() around the I/O: the functions of arbitration.cc *)

parse_args == Admin!parse_args
zns_dev_init == Admin!zns_dev_init
register_ctrlr == Admin!register_ctrlr
set_latency_tracking_feature == Admin!set_latency_tracking_feature
register_ns == Admin!register_ns
get_arb_feature == Admin!get_arb_feature
set_arb_feature == Admin!set_arb_feature
print_latency_statistics == Admin!print_latency_statistics
print_stats == Admin!print_stats
unregister_controllers == Admin!unregister_controllers
enable_latency_tracking_complete == Admin!enable_latency_tracking_complete
get_feature_completion == Admin!get_feature_completion
set_feature_completion == Admin!set_feature_completion

AdminFunction ==
  /\ \/ parse_args \/ Admin!spdk_env_init
     \/ zns_dev_init \/ register_ctrlr \/ set_latency_tracking_feature \/ register_ns
     \/ get_arb_feature \/ set_arb_feature
     \/ print_latency_statistics \/ print_stats
     \/ Admin!setup_failed \/ unregister_controllers
  /\ UNCHANGED programVars

AdminCompletion ==
  /\ \/ enable_latency_tracking_complete
     \/ get_feature_completion \/ set_feature_completion
  /\ UNCHANGED programVars

Step(w) ==
  \/ init_ns_worker_ctx(w) \/ submit_single_io(w) \/ task_complete(w)
  \/ check_io(w) \/ drain_io(w) \/ cleanup_ns_worker_ctx(w) \/ work_fn(w)

Program ==
  \/ register_workers \/ register_controllers \/ associate_workers_with_ns
  \/ main_rest \/ zstore_cleanup \/ Clock
  \/ \E w \in Engine!Workers : Step(w)

Next ==
  \/ Program /\ Admin!MayGo /\ UNCHANGED adminVars
  \/ AdminFunction \/ AdminCompletion

Spec == Init /\ [][Next]_vars

-----------------------------------------------------------------------------
(* Properties *)

=============================================================================
