---------------------------- MODULE MpOneDriveRead ----------------------------
(***************************************************************************)
(* examples/multipath/mp_one_drive_read.cc: the engine of Arbitration with *)
(* cnt contexts, each of which reads its zone block after block: the       *)
(* address of a read is zslba + ns_ctx->count, and count is raised after   *)
(* the driver was called, whatever it answered.                            *)
(*                                                                         *)
(* addr, done and skipped are history variables: the address of the read   *)
(* in each slot, the addresses read and the addresses refused.             *)
(***************************************************************************)
EXTENDS Integers, FiniteSets

CONSTANTS NumWorkers, NumNamespaces, QueueDepth, SizeInIos, IsRandom, Faults,
          cnt,   \* the global `int cnt`: contexts to build
          MaxIo  \* bound: completions of a context before its time is over

CONSTANTS TrackingCapable, WrrCapable, Arguments, AdminFaults

VARIABLES main, worker, qpair, depth, completed, draining, offset, expired,
          inflight, lost, pool

VARIABLES args, opt, ctl, polling, cur, g_controllers, outstanding, commands,
          valid, pages, tracked, weights, refused, kept, fallback

VARIABLES
  count,    \* ns_ctx->count, the block after the last one asked for
  addr,     \* the block, counted from zslba, that each slot's command reads
  done,     \* blocks whose read completed, per context
  skipped   \* blocks whose read was refused, per context

Engine == INSTANCE Arbitration WITH Count <- cnt
\* zns_dev_init connects one controller.
Admin == INSTANCE AdminFeatures WITH NumCtrlrs <- 1, Sequential <- TRUE

readVars == <<count, addr, done, skipped>>
programVars == <<main, worker, qpair, depth, completed, draining, offset, expired,
                 inflight, lost, pool, readVars>>
adminVars == <<args, opt, ctl, polling, cur, g_controllers, outstanding, commands,
               valid, pages, tracked, weights, refused, kept, fallback>>
vars == <<programVars, adminVars>>

ProgramInit ==
  /\ Engine!Init
  /\ count = [c \in Engine!Ctxs |-> 0]
  /\ addr = [io \in Engine!Ctxs \X Engine!Slots |-> 0]
  /\ done = [c \in Engine!Ctxs |-> {}]
  /\ skipped = [c \in Engine!Ctxs |-> {}]

Init == ProgramInit /\ Admin!Init

-----------------------------------------------------------------------------
register_workers == Engine!register_workers /\ UNCHANGED readVars
register_controllers == Engine!register_controllers /\ UNCHANGED readVars
associate_workers_with_ns == Engine!associate_workers_with_ns /\ UNCHANGED readVars

\* The rest of main(): the pool, the launch, the join, print_stats.
main_rest ==
  /\ Engine!create_pool \/ Engine!launch \/ Engine!wait_all
  /\ UNCHANGED readVars

zstore_cleanup == Engine!zstore_cleanup /\ UNCHANGED readVars

\* The qpair, and ns_ctx->count = 0.
init_ns_worker_ctx(w) ==
  /\ Engine!init_ns_worker_ctx(w)
  /\ count' = [count EXCEPT ![worker[w].cur] = IF qpair' # qpair THEN 0 ELSE @]
  /\ UNCHANGED <<addr, done, skipped>>

\* Fault: the count is raised only after the initial submission.
submit_single_io_stuck(w) ==
  LET c == worker[w].cur
      s == worker[w].slot IN
  /\ Engine!submit_io(w) \/ Engine!resubmit(w)
  /\ IF main' = "exit"
     THEN UNCHANGED <<count, addr, skipped>>
     ELSE /\ count' = IF worker[w].pc = "submit" THEN count
                      ELSE [count EXCEPT ![c] = @ + 1]
          /\ IF <<c, s>> \in inflight'
             THEN addr' = [addr EXCEPT ![<<c, s>>] = count[c]] /\ UNCHANGED skipped
             ELSE skipped' = [skipped EXCEPT ![c] = @ \cup {count[c]}] /\ UNCHANGED addr
  /\ UNCHANGED done

\* submit_io and the replacement in task_complete.
submit_single_io(w) ==
  LET c == worker[w].cur
      s == worker[w].slot IN
  /\ Engine!submit_io(w) \/ Engine!resubmit(w)
  /\ IF main' = "exit"
     THEN UNCHANGED <<count, addr, skipped>>
     ELSE /\ count' = [count EXCEPT ![c] = @ + 1]
          /\ IF <<c, s>> \in inflight'
             THEN addr' = [addr EXCEPT ![<<c, s>>] = count[c]] /\ UNCHANGED skipped
             ELSE skipped' = [skipped EXCEPT ![c] = @ \cup {count[c]}] /\ UNCHANGED addr
  /\ UNCHANGED done

task_complete(w) ==
  LET c == worker[w].cur IN
  \E s \in Engine!Slots :
    /\ Engine!task_complete(w, s)
    /\ done' = [done EXCEPT ![c] = @ \cup {addr[<<c, s>>]}]
    /\ UNCHANGED <<count, addr, skipped>>

check_io(w) == Engine!check_io_return(w) /\ UNCHANGED readVars
drain_io(w) == Engine!drain_io(w) /\ UNCHANGED readVars
cleanup_ns_worker_ctx(w) == Engine!cleanup_ns_worker_ctx(w) /\ UNCHANGED readVars

\* The steps of work_fn between its calls.
work_fn(w) ==
  /\ \/ Engine!StartSubmit(w) \/ Engine!SubmitNextCtx(w) \/ Engine!StartPoll(w)
     \/ Engine!PollAgain(w) \/ Engine!StopPolling(w) \/ Engine!WorkerReturns(w)
  /\ UNCHANGED readVars

Clock(w) == Engine!Clock(w) /\ UNCHANGED readVars

-----------------------------------------------------------------------------
(* main() around the I/O: the functions of arbitration.cc *)

parse_args == Admin!parse_args
zns_dev_init == Admin!zns_dev_init
register_ctrlr == Admin!register_ctrlr
set_latency_tracking_feature == Admin!set_latency_tracking_feature
register_ns == Admin!register_ns
get_arb_feature == Admin!get_arb_feature
set_arb_feature == Admin!set_arb_feature
print_latency_statistics == Admin!print_latency_statistics
print_stats == Admin!print_stats
unregister_controllers == Admin!unregister_controllers
enable_latency_tracking_complete == Admin!enable_latency_tracking_complete
get_feature_completion == Admin!get_feature_completion
set_feature_completion == Admin!set_feature_completion

AdminFunction ==
  /\ \/ parse_args \/ Admin!spdk_env_init
     \/ zns_dev_init \/ register_ctrlr \/ set_latency_tracking_feature \/ register_ns
     \/ get_arb_feature \/ set_arb_feature
     \/ print_latency_statistics \/ print_stats
     \/ Admin!setup_failed \/ unregister_controllers
  /\ UNCHANGED programVars

AdminCompletion ==
  /\ \/ enable_latency_tracking_complete
     \/ get_feature_completion \/ set_feature_completion
  /\ UNCHANGED programVars

Step(w) ==
  \/ init_ns_worker_ctx(w) \/ submit_single_io(w) \/ task_complete(w)
  \/ check_io(w) \/ drain_io(w) \/ cleanup_ns_worker_ctx(w) \/ work_fn(w)
  \/ Clock(w)

Program ==
  \/ register_workers \/ register_controllers \/ associate_workers_with_ns
  \/ main_rest \/ zstore_cleanup
  \/ \E w \in Engine!Workers : Step(w)

Next ==
  \/ Program /\ Admin!MayGo /\ UNCHANGED adminVars
  \/ AdminFunction \/ AdminCompletion

Spec == Init /\ [][Next]_vars

-----------------------------------------------------------------------------
(* Properties *)

\* The addresses of the reads of context c that are in flight.
Reading(c) == {addr[<<c, s>>] : s \in Engine!Outstanding(c)}

\* Every address below ns_ctx->count was asked for exactly once by its context:
\* its read has completed, is outstanding in exactly one slot, or was refused; no
\* address is used twice and none is left out.
EveryAddressOnce ==
  \A c \in Engine!Ctxs :
    /\ done[c] \cup Reading(c) \cup skipped[c] = 0..(count[c] - 1)
    /\ Cardinality(done[c]) + depth[c] + Cardinality(skipped[c]) = count[c]
=============================================================================
