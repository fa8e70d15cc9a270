--------------------------- MODULE ArbitrationWrite ---------------------------
(***************************************************************************)
(* examples/arbitration/arbitration_write.cc: the engine of Arbitration    *)
(* with two contexts (count = 2) that write a zone sequentially.  Before   *)
(* its first I/O a context reads the zone report of its namespace and      *)
(* keeps the write pointer; it then writes at wp + offset without looking  *)
(* at the zone again.  A zoned device rejects a write that is not at its   *)
(* write pointer; the program counts a rejected write like any other.      *)
(***************************************************************************)
EXTENDS Integers, FiniteSets

CONSTANTS NumWorkers, NumNamespaces, QueueDepth, SizeInIos, IsRandom, Faults,
          MaxIo,     \* bound: completions of a context before its time is over
          ZoneCap,   \* blocks of the zone the program writes
          WpAtStart  \* its write pointer when the program starts

CONSTANTS TrackingCapable, WrrCapable, Arguments, AdminFaults

VARIABLES main, worker, qpair, depth, completed, draining, offset, expired,
          inflight, lost, pool

VARIABLES args, opt, ctl, polling, cur, g_controllers, outstanding, commands,
          valid, pages, tracked, weights, refused, kept, fallback

VARIABLES
  wp,        \* ns_ctx->wp
  addr,      \* where the write in each slot goes
  pending,   \* device: writes not yet executed
  zone_wp,   \* device: the zone's write pointer, per namespace
  rejected,  \* device: namespaces on which a write was rejected
  stuck      \* workers in the report loop for good

Count == 2
Engine == INSTANCE Arbitration
            WITH Faults <- Faults \ {"report_error", "report_submit"}
\* zns_dev_init connects two controllers.
Admin == INSTANCE AdminFeatures WITH NumCtrlrs <- 2, Sequential <- FALSE

writeVars == <<wp, addr, pending, zone_wp, rejected, stuck>>
engineVars == <<main, worker, qpair, depth, completed, draining, offset,
                expired, inflight, lost, pool>>
programVars == <<engineVars, writeVars>>
adminVars == <<args, opt, ctl, polling, cur, g_controllers, outstanding, commands,
               valid, pages, tracked, weights, refused, kept, fallback>>
vars == <<programVars, adminVars>>

\* associate_workers_with_ns deals the namespaces to the contexts in turn.
ns_of(c) == ((c - 1) % NumNamespaces) + 1

ProgramInit ==
  /\ Engine!Init
  /\ wp = [c \in 1..Count |-> 0]
  /\ addr = [io \in (1..Count) \X Engine!Slots |-> 0]
  /\ pending = {}
  /\ zone_wp = [n \in 1..NumNamespaces |-> WpAtStart]
  /\ rejected = {}
  /\ stuck = {}

Init == ProgramInit /\ Admin!Init

-----------------------------------------------------------------------------
register_workers == Engine!register_workers /\ UNCHANGED writeVars
register_controllers == Engine!register_controllers /\ UNCHANGED writeVars
associate_workers_with_ns == Engine!associate_workers_with_ns /\ UNCHANGED writeVars

\* The rest of main(): the pool, the launch, the join, print_stats.
main_rest ==
  /\ Engine!create_pool \/ Engine!launch \/ Engine!wait_all
  /\ UNCHANGED writeVars

zstore_cleanup == Engine!zstore_cleanup /\ UNCHANGED writeVars

\* The qpair, the zone report, the write pointer.  The report's status is not
\* looked at (wp stays 0), and a refused report command is waited for for ever.
init_ns_worker_ctx(w) ==
  LET c == worker[w].cur IN
  /\ w \notin stuck
  /\ \/ /\ Engine!init_ns_worker_ctx(w)
        /\ IF qpair' = qpair
           THEN UNCHANGED wp
           ELSE \/ wp' = [wp EXCEPT ![c] = zone_wp[ns_of(c)]]
                \/ "report_error" \in Faults /\ wp' = [wp EXCEPT ![c] = 0]
        /\ UNCHANGED <<addr, pending, zone_wp, rejected, stuck>>
     \/ /\ "report_submit" \in Faults
        /\ Engine!At(w, "init")
        /\ c # 0
        /\ stuck' = stuck \cup {w}
        /\ UNCHANGED <<engineVars, wp, addr, pending, zone_wp, rejected>>

\* Fault: the offset after the increment is used.
submit_single_io_next_offset(w) ==
  LET c == worker[w].cur
      s == worker[w].slot IN
  /\ Engine!submit_io(w) \/ Engine!resubmit(w)
  /\ addr' = [addr EXCEPT ![<<c, s>>] = wp[c] + offset'[c]]
  /\ pending' = pending \cup (inflight' \ inflight)
  /\ UNCHANGED <<wp, zone_wp, rejected, stuck>>

\* submit_io and the replacement in task_complete: a write at wp + offset, or,
\* for a random workload, at wp plus any offset.
submit_single_io(w) ==
  LET c == worker[w].cur
      s == worker[w].slot IN
  /\ Engine!submit_io(w) \/ Engine!resubmit(w)
  /\ \E o \in IF IsRandom THEN 0..(SizeInIos - 1) ELSE {offset[c]} :
       addr' = IF <<c, s>> \in inflight' THEN [addr EXCEPT ![<<c, s>>] = wp[c] + o]
               ELSE addr
  /\ pending' = pending \cup (inflight' \ inflight)
  /\ UNCHANGED <<wp, zone_wp, rejected, stuck>>

\* The completion of an executed write; its status is not looked at.
task_complete(w) ==
  \E s \in Engine!Slots :
    /\ <<worker[w].cur, s>> \notin pending
    /\ Engine!task_complete(w, s)
    /\ UNCHANGED writeVars

check_io(w) == Engine!check_io_return(w) /\ UNCHANGED writeVars
drain_io(w) == Engine!drain_io(w) /\ UNCHANGED writeVars
cleanup_ns_worker_ctx(w) == Engine!cleanup_ns_worker_ctx(w) /\ UNCHANGED writeVars

\* The steps of work_fn between its calls.
work_fn(w) ==
  /\ \/ Engine!StartSubmit(w) \/ Engine!SubmitNextCtx(w) \/ Engine!StartPoll(w)
     \/ Engine!PollAgain(w) \/ Engine!StopPolling(w) \/ Engine!WorkerReturns(w)
  /\ UNCHANGED writeVars

Clock(w) == Engine!Clock(w) /\ UNCHANGED writeVars

\* The device executes a write: at the write pointer of a zone that is not full,
\* or not at all.
spdk_nvme_ns_cmd_write(io) ==
  LET n == ns_of(io[1]) IN
  /\ io \in pending
  /\ pending' = pending \ {io}
  /\ IF addr[io] = zone_wp[n] /\ addr[io] < ZoneCap
     THEN zone_wp' = [zone_wp EXCEPT ![n] = @ + 1] /\ UNCHANGED rejected
     ELSE rejected' = rejected \cup {n} /\ UNCHANGED zone_wp
  /\ UNCHANGED <<engineVars, wp, addr, stuck>>

-----------------------------------------------------------------------------
(* main() around the I/O: the functions of arbitration.cc *)

parse_args == Admin!parse_args
zns_dev_init == Admin!zns_dev_init
register_ctrlr == Admin!register_ctrlr
set_latency_tracking_feature == Admin!set_latency_tracking_feature
register_ns == Admin!register_ns
get_arb_feature == Admin!get_arb_feature
set_arb_feature == Admin!set_arb_feature
print_latency_statistics == Admin!print_latency_statistics
print_stats == Admin!print_stats
unregister_controllers == Admin!unregister_controllers
enable_latency_tracking_complete == Admin!enable_latency_tracking_complete
get_feature_completion == Admin!get_feature_completion
set_feature_completion == Admin!set_feature_completion

AdminFunction ==
  /\ \/ parse_args \/ Admin!spdk_env_init
     \/ zns_dev_init \/ register_ctrlr \/ set_latency_tracking_feature \/ register_ns
     \/ get_arb_feature \/ set_arb_feature
     \/ print_latency_statistics \/ print_stats
     \/ Admin!setup_failed \/ unregister_controllers
  /\ UNCHANGED programVars

AdminCompletion ==
  /\ \/ enable_latency_tracking_complete
     \/ get_feature_completion \/ set_feature_completion
  /\ UNCHANGED programVars

Main ==
  \/ register_workers \/ register_controllers \/ associate_workers_with_ns
  \/ main_rest \/ zstore_cleanup

\* The steps the thread itself takes, whatever the device does.
ThreadStep(w) ==
  /\ w \notin stuck
  /\ \/ init_ns_worker_ctx(w) \/ submit_single_io(w)
     \/ drain_io(w) \/ cleanup_ns_worker_ctx(w) \/ work_fn(w)

Device == \E io \in pending : spdk_nvme_ns_cmd_write(io)

Program ==
  \/ Main \/ Device
  \/ \E w \in Engine!Workers :
       ThreadStep(w) \/ task_complete(w) \/ check_io(w) \/ Clock(w)

Next ==
  \/ Program /\ Admin!MayGo /\ UNCHANGED adminVars
  \/ AdminFunction \/ AdminCompletion

Spec == Init /\ [][Next]_vars

-----------------------------------------------------------------------------
(* Properties *)

ContextsOn(n) == {c \in 1..Count : ns_of(c) = n}

\* With a sequential workload, one I/O at a time and a context alone on its
\* namespace, every write is at the zone's write pointer, so that none is
\* rejected before the zone is full or the offset wraps at size_in_ios; this
\* rests on the write pointer the context read before its first I/O.
SequentialWritesLand ==
  \A n \in rejected :
    \/ IsRandom \/ QueueDepth > 1 \/ Cardinality(ContextsOn(n)) > 1
    \/ zone_wp[n] = ZoneCap
    \/ \E c \in ContextsOn(n) :
         wp[c] # WpAtStart \/ completed[c] + depth[c] > SizeInIos
=============================================================================
