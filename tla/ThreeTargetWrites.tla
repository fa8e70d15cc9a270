-------------------------- MODULE ThreeTargetWrites --------------------------
(***************************************************************************)
(* examples/multipath/three_target_writes.cc: the engine of Arbitration    *)
(* with two contexts for each of three controllers (cnt = 6) that append   *)
(* to one zone of their namespace.  ns_ctx->count is raised after the      *)
(* driver was called, whatever it answered, and the status of a completed  *)
(* append is not looked at: an append to a full zone fails, and counts.    *)
(***************************************************************************)
EXTENDS Integers, FiniteSets, FiniteSetsExt

CONSTANTS NumWorkers, NumNamespaces, QueueDepth, SizeInIos, IsRandom, Faults,
          cnt,       \* the global `int cnt`: contexts to build
          MaxIo,     \* bound: completions of a context before its time is over
          ZoneCap,   \* blocks of the zone the program appends to
          WpAtStart  \* its write pointer when the program starts

CONSTANTS TrackingCapable, WrrCapable, Arguments, AdminFaults

VARIABLES main, worker, qpair, depth, completed, draining, offset, expired,
          inflight, lost, pool

VARIABLES args, opt, ctl, polling, cur, g_controllers, outstanding, commands,
          valid, pages, tracked, weights, refused, kept, fallback

VARIABLES
  count,    \* ns_ctx->count
  pending,  \* device: appends not yet executed
  zone_wp,  \* device: the zone's write pointer, per namespace
  failed    \* device: appends that failed, per namespace

Engine == INSTANCE Arbitration WITH Count <- cnt
\* zns_dev_init connects three controllers.
Admin == INSTANCE AdminFeatures WITH NumCtrlrs <- 3, Sequential <- TRUE

writeVars == <<count, pending, zone_wp, failed>>
engineVars == <<main, worker, qpair, depth, completed, draining, offset,
                expired, inflight, lost, pool>>
programVars == <<engineVars, writeVars>>
adminVars == <<args, opt, ctl, polling, cur, g_controllers, outstanding, commands,
               valid, pages, tracked, weights, refused, kept, fallback>>
vars == <<programVars, adminVars>>

\* associate_workers_with_ns deals the namespaces to the contexts in turn.
ns_of(c) == ((c - 1) % NumNamespaces) + 1

ProgramInit ==
  /\ Engine!Init
  /\ count = [c \in Engine!Ctxs |-> 0]
  /\ pending = {}
  /\ zone_wp = [n \in 1..NumNamespaces |-> WpAtStart]
  /\ failed = [n \in 1..NumNamespaces |-> 0]

Init == ProgramInit /\ Admin!Init

-----------------------------------------------------------------------------
register_workers == Engine!register_workers /\ UNCHANGED writeVars
register_controllers == Engine!register_controllers /\ UNCHANGED writeVars
associate_workers_with_ns == Engine!associate_workers_with_ns /\ UNCHANGED writeVars

\* The rest of main(): the pool, the launch, the join, print_stats.
main_rest ==
  /\ Engine!create_pool \/ Engine!launch \/ Engine!wait_all
  /\ UNCHANGED writeVars

zstore_cleanup == Engine!zstore_cleanup /\ UNCHANGED writeVars

\* The qpair, and ns_ctx->count = 0.
init_ns_worker_ctx(w) ==
  /\ Engine!init_ns_worker_ctx(w)
  /\ count' = [count EXCEPT ![worker[w].cur] = IF qpair' # qpair THEN 0 ELSE @]
  /\ UNCHANGED <<pending, zone_wp, failed>>

\* Fault: a replacement that the driver refused is not counted.
submit_single_io_accepted_only(w) ==
  /\ Engine!submit_io(w) \/ Engine!resubmit(w)
  /\ count' = IF inflight' = inflight THEN count
              ELSE [count EXCEPT ![worker[w].cur] = @ + 1]
  /\ pending' = pending \cup (inflight' \ inflight)
  /\ UNCHANGED <<zone_wp, failed>>

\* submit_io and the replacement in task_complete.
submit_single_io(w) ==
  /\ Engine!submit_io(w) \/ Engine!resubmit(w)
  /\ count' = IF main' = "exit" THEN count
              ELSE [count EXCEPT ![worker[w].cur] = @ + 1]
  /\ pending' = pending \cup (inflight' \ inflight)
  /\ UNCHANGED <<zone_wp, failed>>

\* The completion of an executed append.
task_complete(w) ==
  \E s \in Engine!Slots :
    /\ <<worker[w].cur, s>> \notin pending
    /\ Engine!task_complete(w, s)
    /\ UNCHANGED writeVars

check_io(w) == Engine!check_io_return(w) /\ UNCHANGED writeVars
drain_io(w) == Engine!drain_io(w) /\ UNCHANGED writeVars
cleanup_ns_worker_ctx(w) == Engine!cleanup_ns_worker_ctx(w) /\ UNCHANGED writeVars

\* The steps of work_fn between its calls.
work_fn(w) ==
  /\ \/ Engine!StartSubmit(w) \/ Engine!SubmitNextCtx(w) \/ Engine!StartPoll(w)
     \/ Engine!PollAgain(w) \/ Engine!StopPolling(w) \/ Engine!WorkerReturns(w)
  /\ UNCHANGED writeVars

Clock(w) == Engine!Clock(w) /\ UNCHANGED writeVars

\* The device executes an append: one block at the write pointer, or an error
\* when the zone is full.
spdk_nvme_zns_zone_append(io) ==
  LET n == ns_of(io[1]) IN
  /\ io \in pending
  /\ pending' = pending \ {io}
  /\ IF zone_wp[n] < ZoneCap
     THEN zone_wp' = [zone_wp EXCEPT ![n] = @ + 1] /\ UNCHANGED failed
     ELSE failed' = [failed EXCEPT ![n] = @ + 1] /\ UNCHANGED zone_wp
  /\ UNCHANGED <<engineVars, count>>

-----------------------------------------------------------------------------
(* main() around the I/O: the functions of arbitration.cc *)

parse_args == Admin!parse_args
zns_dev_init == Admin!zns_dev_init
register_ctrlr == Admin!register_ctrlr
set_latency_tracking_feature == Admin!set_latency_tracking_feature
register_ns == Admin!register_ns
get_arb_feature == Admin!get_arb_feature
set_arb_feature == Admin!set_arb_feature
print_latency_statistics == Admin!print_latency_statistics
print_stats == Admin!print_stats
unregister_controllers == Admin!unregister_controllers
enable_latency_tracking_complete == Admin!enable_latency_tracking_complete
get_feature_completion == Admin!get_feature_completion
set_feature_completion == Admin!set_feature_completion

AdminFunction ==
  /\ \/ parse_args \/ Admin!spdk_env_init
     \/ zns_dev_init \/ register_ctrlr \/ set_latency_tracking_feature \/ register_ns
     \/ get_arb_feature \/ set_arb_feature
     \/ print_latency_statistics \/ print_stats
     \/ Admin!setup_failed \/ unregister_controllers
  /\ UNCHANGED programVars

AdminCompletion ==
  /\ \/ enable_latency_tracking_complete
     \/ get_feature_completion \/ set_feature_completion
  /\ UNCHANGED programVars

Step(w) ==
  \/ init_ns_worker_ctx(w) \/ submit_single_io(w) \/ task_complete(w)
  \/ check_io(w) \/ drain_io(w) \/ cleanup_ns_worker_ctx(w) \/ work_fn(w)
  \/ Clock(w)

Program ==
  \/ register_workers \/ register_controllers \/ associate_workers_with_ns
  \/ main_rest \/ zstore_cleanup
  \/ \E w \in Engine!Workers : Step(w)
  \/ \E io \in pending : spdk_nvme_zns_zone_append(io)

Next ==
  \/ Program /\ Admin!MayGo /\ UNCHANGED adminVars
  \/ AdminFunction \/ AdminCompletion

Spec == Init /\ [][Next]_vars

-----------------------------------------------------------------------------
(* Properties *)

\* The commands of namespace n in a set of commands.
OnNamespace(ios, n) == {io \in ios : ns_of(io[1]) = n}

\* The counters of all contexts of a namespace, which run on different cores,
\* account for its zone: every counted append was refused by the driver, is on
\* its way, failed, or is one block below the write pointer.
AppendsAccounted ==
  \A n \in 1..NumNamespaces :
    MapThenSumSet(LAMBDA c : count[c], {c \in Engine!Ctxs : ns_of(c) = n})
      = Cardinality(OnNamespace(lost, n)) + Cardinality(OnNamespace(pending, n))
          + failed[n] + (zone_wp[n] - WpAtStart)
=============================================================================
