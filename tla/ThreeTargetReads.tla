-------------------------- MODULE ThreeTargetReads --------------------------
(***************************************************************************)
(* examples/multipath/three_target_reads.cc: mp_one_drive_read.cc with     *)
(* three controllers and two contexts for each of them (cnt = 6).  A       *)
(* command reads 64 KiB from its address, but count is raised by one block *)
(* as before: neighbouring commands overlap.  addr is the first block.     *)
(***************************************************************************)
EXTENDS Integers

CONSTANTS NumWorkers, NumNamespaces, QueueDepth, SizeInIos, IsRandom, Faults,
          cnt, MaxIo

CONSTANTS TrackingCapable, WrrCapable, Arguments, AdminFaults

VARIABLES main, worker, qpair, depth, completed, draining, offset, expired,
          inflight, lost, pool

VARIABLES args, opt, ctl, polling, cur, g_controllers, outstanding, commands,
          valid, pages, tracked, weights, refused, kept, fallback

VARIABLES count, addr, done, skipped

\* The functions are those of mp_one_drive_read.cc.
Counted == INSTANCE MpOneDriveRead

\* zns_dev_init connects three controllers.
Admin == INSTANCE AdminFeatures WITH NumCtrlrs <- 3, Sequential <- TRUE

programVars == <<main, worker, qpair, depth, completed, draining, offset, expired,
                 inflight, lost, pool,
                 count, addr, done, skipped>>
adminVars == <<args, opt, ctl, polling, cur, g_controllers, outstanding, commands,
               valid, pages, tracked, weights, refused, kept, fallback>>
vars == <<programVars, adminVars>>

Init == Counted!ProgramInit /\ Admin!Init

-----------------------------------------------------------------------------
register_workers == Counted!register_workers
register_controllers == Counted!register_controllers
associate_workers_with_ns == Counted!associate_workers_with_ns
main_rest == Counted!main_rest
zstore_cleanup == Counted!zstore_cleanup
init_ns_worker_ctx(w) == Counted!init_ns_worker_ctx(w)
submit_single_io(w) == Counted!submit_single_io(w)
task_complete(w) == Counted!task_complete(w)
check_io(w) == Counted!check_io(w)
drain_io(w) == Counted!drain_io(w)
cleanup_ns_worker_ctx(w) == Counted!cleanup_ns_worker_ctx(w)
work_fn(w) == Counted!work_fn(w)
Clock(w) == Counted!Clock(w)

-----------------------------------------------------------------------------
(* main() around the I/O: the functions of arbitration.cc *)

parse_args == Admin!parse_args
zns_dev_init == Admin!zns_dev_init
register_ctrlr == Admin!register_ctrlr
set_latency_tracking_feature == Admin!set_latency_tracking_feature
register_ns == Admin!register_ns
get_arb_feature == Admin!get_arb_feature
set_arb_feature == Admin!set_arb_feature
print_latency_statistics == Admin!print_latency_statistics
print_stats == Admin!print_stats
unregister_controllers == Admin!unregister_controllers
enable_latency_tracking_complete == Admin!enable_latency_tracking_complete
get_feature_completion == Admin!get_feature_completion
set_feature_completion == Admin!set_feature_completion

AdminFunction ==
  /\ \/ parse_args \/ Admin!spdk_env_init
     \/ zns_dev_init \/ register_ctrlr \/ set_latency_tracking_feature \/ register_ns
     \/ get_arb_feature \/ set_arb_feature
     \/ print_latency_statistics \/ print_stats
     \/ Admin!setup_failed \/ unregister_controllers
  /\ UNCHANGED programVars

AdminCompletion ==
  /\ \/ enable_latency_tracking_complete
     \/ get_feature_completion \/ set_feature_completion
  /\ UNCHANGED programVars

Step(w) ==
  \/ init_ns_worker_ctx(w) \/ submit_single_io(w) \/ task_complete(w)
  \/ check_io(w) \/ drain_io(w) \/ cleanup_ns_worker_ctx(w) \/ work_fn(w)
  \/ Clock(w)

Program ==
  \/ register_workers \/ register_controllers \/ associate_workers_with_ns
  \/ main_rest \/ zstore_cleanup
  \/ \E w \in 1..NumWorkers : Step(w)

Next ==
  \/ Program /\ Admin!MayGo /\ UNCHANGED adminVars
  \/ AdminFunction \/ AdminCompletion

Spec == Init /\ [][Next]_vars
=============================================================================
