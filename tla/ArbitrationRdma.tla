--------------------------- MODULE ArbitrationRdma ---------------------------
(***************************************************************************)
(* examples/arbitration/arbitration_rdma.cc: the engine of Arbitration     *)
(* with two contexts (count = 2).  The program has one core and connects   *)
(* one controller, so both contexts are on the same namespace and the pool *)
(* holds the tasks of one of them.                                         *)
(***************************************************************************)
EXTENDS Integers

CONSTANTS NumWorkers, NumNamespaces, QueueDepth, SizeInIos, IsRandom, Faults,
          MaxIo  \* bound: completions of a context before its time is over

CONSTANTS TrackingCapable, WrrCapable, Arguments, AdminFaults

VARIABLES main, worker, qpair, depth, completed, draining, offset, expired,
          inflight, lost, pool

VARIABLES args, opt, ctl, polling, cur, g_controllers, outstanding, commands,
          valid, pages, tracked, weights, refused, kept, fallback

Engine == INSTANCE Arbitration WITH Count <- 2
\* zns_dev_init connects one controller.
Admin == INSTANCE AdminFeatures WITH NumCtrlrs <- 1, Sequential <- FALSE

programVars == <<main, worker, qpair, depth, completed, draining, offset, expired,
                        inflight, lost, pool>>
adminVars == <<args, opt, ctl, polling, cur, g_controllers, outstanding, commands,
               valid, pages, tracked, weights, refused, kept, fallback>>
vars == <<programVars, adminVars>>

ProgramInit == Engine!Init

Init == ProgramInit /\ Admin!Init

-----------------------------------------------------------------------------
register_workers == Engine!register_workers
register_controllers == Engine!register_controllers
associate_workers_with_ns == Engine!associate_workers_with_ns

\* The rest of main(): the pool, the launch, the join, print_stats.
main_rest == Engine!create_pool \/ Engine!launch \/ Engine!wait_all

zstore_cleanup == Engine!zstore_cleanup
init_ns_worker_ctx(w) == Engine!init_ns_worker_ctx(w)

\* submit_io and the replacement in task_complete.
submit_single_io(w) == Engine!submit_io(w) \/ Engine!resubmit(w)

task_complete(w) == \E s \in Engine!Slots : Engine!task_complete(w, s)
check_io(w) == Engine!check_io_return(w)
drain_io(w) == Engine!drain_io(w)
cleanup_ns_worker_ctx(w) == Engine!cleanup_ns_worker_ctx(w)

\* The steps of work_fn between its calls.
work_fn(w) ==
  \/ Engine!StartSubmit(w) \/ Engine!SubmitNextCtx(w) \/ Engine!StartPoll(w)
  \/ Engine!PollAgain(w) \/ Engine!StopPolling(w) \/ Engine!WorkerReturns(w)

Clock(w) == Engine!Clock(w)

-----------------------------------------------------------------------------
(* main() around the I/O: the functions of arbitration.cc *)

parse_args == Admin!parse_args
zns_dev_init == Admin!zns_dev_init
register_ctrlr == Admin!register_ctrlr
set_latency_tracking_feature == Admin!set_latency_tracking_feature
register_ns == Admin!register_ns
get_arb_feature == Admin!get_arb_feature
set_arb_feature == Admin!set_arb_feature
print_latency_statistics == Admin!print_latency_statistics
print_stats == Admin!print_stats
unregister_controllers == Admin!unregister_controllers
enable_latency_tracking_complete == Admin!enable_latency_tracking_complete
get_feature_completion == Admin!get_feature_completion
set_feature_completion == Admin!set_feature_completion

AdminFunction ==
  /\ \/ parse_args \/ Admin!spdk_env_init
     \/ zns_dev_init \/ register_ctrlr \/ set_latency_tracking_feature \/ register_ns
     \/ get_arb_feature \/ set_arb_feature
     \/ print_latency_statistics \/ print_stats
     \/ Admin!setup_failed \/ unregister_controllers
  /\ UNCHANGED programVars

AdminCompletion ==
  /\ \/ enable_latency_tracking_complete
     \/ get_feature_completion \/ set_feature_completion
  /\ UNCHANGED programVars

Step(w) ==
  \/ init_ns_worker_ctx(w) \/ submit_single_io(w) \/ task_complete(w)
  \/ check_io(w) \/ drain_io(w) \/ cleanup_ns_worker_ctx(w) \/ work_fn(w)
  \/ Clock(w)

Program ==
  \/ register_workers \/ register_controllers \/ associate_workers_with_ns
  \/ main_rest \/ zstore_cleanup
  \/ \E w \in Engine!Workers : Step(w)

Next ==
  \/ Program /\ Admin!MayGo /\ UNCHANGED adminVars
  \/ AdminFunction \/ AdminCompletion

Spec == Init /\ [][Next]_vars
=============================================================================
