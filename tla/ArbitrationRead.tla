-------------------------- MODULE ArbitrationRead ---------------------------
(***************************************************************************)
(* examples/arbitration/arbitration_read.cc: arbitration_append.cc with a  *)
(* read at offset_in_ios instead of the zone append, on one core with two  *)
(* controllers.                                                            *)
(***************************************************************************)
EXTENDS Integers

CONSTANTS NumWorkers, NumNamespaces, QueueDepth, SizeInIos, IsRandom, Faults,
          MaxIo, MaxTime, Micro

CONSTANTS TrackingCapable, WrrCapable, Arguments, AdminFaults

VARIABLES main, worker, qpair, depth, completed, draining, offset, expired,
          inflight, lost, pool

VARIABLES args, opt, ctl, polling, cur, g_controllers, outstanding, commands,
          valid, pages, tracked, weights, refused, kept, fallback

VARIABLES now, stimes, etimes, began, spent, report

\* "count = 1", the stamps and the report are those of arbitration_append.cc.
Stamped == INSTANCE ArbitrationAppend

\* zns_dev_init connects two controllers.
Admin == INSTANCE AdminFeatures WITH NumCtrlrs <- 2, Sequential <- FALSE

programVars == <<main, worker, qpair, depth, completed, draining, offset, expired,
                 inflight, lost, pool,
                 now, stimes, etimes, began, spent, report>>
adminVars == <<args, opt, ctl, polling, cur, g_controllers, outstanding, commands,
               valid, pages, tracked, weights, refused, kept, fallback>>
vars == <<programVars, adminVars>>

Init == Stamped!ProgramInit /\ Admin!Init

-----------------------------------------------------------------------------
register_workers == Stamped!register_workers
register_controllers == Stamped!register_controllers
associate_workers_with_ns == Stamped!associate_workers_with_ns
main_rest == Stamped!main_rest
zstore_cleanup == Stamped!zstore_cleanup
init_ns_worker_ctx(w) == Stamped!init_ns_worker_ctx(w)
submit_single_io(w) == Stamped!submit_single_io(w)
task_complete(w) == Stamped!task_complete(w)
check_io(w) == Stamped!check_io(w)
drain_io(w) == Stamped!drain_io(w)
cleanup_ns_worker_ctx(w) == Stamped!cleanup_ns_worker_ctx(w)
work_fn(w) == Stamped!work_fn(w)
Clock == Stamped!Clock

-----------------------------------------------------------------------------
(* main() around the I/O: the functions of arbitration.cc *)

parse_args == Admin!parse_args
zns_dev_init == Admin!zns_dev_init
register_ctrlr == Admin!register_ctrlr
set_latency_tracking_feature == Admin!set_latency_tracking_feature
register_ns == Admin!register_ns
get_arb_feature == Admin!get_arb_feature
set_arb_feature == Admin!set_arb_feature
print_latency_statistics == Admin!print_latency_statistics
print_stats == Admin!print_stats
unregister_controllers == Admin!unregister_controllers
enable_latency_tracking_complete == Admin!enable_latency_tracking_complete
get_feature_completion == Admin!get_feature_completion
set_feature_completion == Admin!set_feature_completion

AdminFunction ==
  /\ \/ parse_args \/ Admin!spdk_env_init
     \/ zns_dev_init \/ register_ctrlr \/ set_latency_tracking_feature \/ register_ns
     \/ get_arb_feature \/ set_arb_feature
     \/ print_latency_statistics \/ print_stats
     \/ Admin!setup_failed \/ unregister_controllers
  /\ UNCHANGED programVars

AdminCompletion ==
  /\ \/ enable_latency_tracking_complete
     \/ get_feature_completion \/ set_feature_completion
  /\ UNCHANGED programVars

Step(w) ==
  \/ init_ns_worker_ctx(w) \/ submit_single_io(w) \/ task_complete(w)
  \/ check_io(w) \/ drain_io(w) \/ cleanup_ns_worker_ctx(w) \/ work_fn(w)

Program ==
  \/ register_workers \/ register_controllers \/ associate_workers_with_ns
  \/ main_rest \/ zstore_cleanup \/ Clock
  \/ \E w \in 1..NumWorkers : Step(w)

Next ==
  \/ Program /\ Admin!MayGo /\ UNCHANGED adminVars
  \/ AdminFunction \/ AdminCompletion

Spec == Init /\ [][Next]_vars
=============================================================================
