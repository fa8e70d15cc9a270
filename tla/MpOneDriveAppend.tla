--------------------------- MODULE MpOneDriveAppend ---------------------------
(***************************************************************************)
(* examples/multipath/mp_one_drive_append.cc: the engine of Arbitration    *)
(* with one context (count = 1) that appends numbered payloads             *)
(* ("zstore1:<count>") to one zone, so that a reader can later tell from   *)
(* the contents of a block which append wrote it.  The first completion    *)
(* prints the LBA the device chose.                                        *)
(*                                                                         *)
(* The device (zone, result) executes the appends it holds in any order    *)
(* and answers with the LBA, or with an error when the zone is full; the   *)
(* program reads cdw0 and never the status.                                *)
(***************************************************************************)
EXTENDS Integers, Sequences, Functions

CONSTANTS NumWorkers, NumNamespaces, QueueDepth, SizeInIos, IsRandom, Faults,
          MaxIo,     \* bound: completions before the time is over
          ZoneCap,   \* blocks of the zone
          WpAtStart  \* blocks already written when the program starts

CONSTANTS TrackingCapable, WrrCapable, Arguments, AdminFaults

VARIABLES main, worker, qpair, depth, completed, draining, offset, expired,
          inflight, lost, pool

VARIABLES args, opt, ctl, polling, cur, g_controllers, outstanding, commands,
          valid, pages, tracked, weights, refused, kept, fallback

VARIABLES
  count,         \* ns_ctx->count
  tag,           \* the number in the buffer of the task in each slot
  zone,          \* device: the payloads appended by this run, in LBA order
  result,        \* device: cdw0 of the executed append of each slot
  starting_lba   \* the LBA printed by io_complete

\* "count = 1" in associate_workers_with_ns; a failed buffer allocation is not
\* the engine's exit(1), see submit_single_io.
Engine == INSTANCE Arbitration WITH Count <- 1, Faults <- Faults \ {"zmalloc"}
\* zns_dev_init connects one controller.
Admin == INSTANCE AdminFeatures WITH NumCtrlrs <- 1, Sequential <- FALSE

\* Values of result and starting_lba that are no LBA.
Pending == -1
Error == -2
NotPrinted == -3

appendVars == <<count, tag, zone, result, starting_lba>>
engineVars == <<main, worker, qpair, depth, completed, draining, offset,
                expired, inflight, lost, pool>>
programVars == <<engineVars, appendVars>>
adminVars == <<args, opt, ctl, polling, cur, g_controllers, outstanding, commands,
               valid, pages, tracked, weights, refused, kept, fallback>>
vars == <<programVars, adminVars>>

ProgramInit ==
  /\ Engine!Init
  /\ count = 0
  /\ tag = [s \in Engine!Slots |-> 0]
  /\ zone = <<>>
  /\ result = [s \in Engine!Slots |-> Pending]
  /\ starting_lba = NotPrinted

Init == ProgramInit /\ Admin!Init

-----------------------------------------------------------------------------
register_workers == Engine!register_workers /\ UNCHANGED appendVars
register_controllers == Engine!register_controllers /\ UNCHANGED appendVars
associate_workers_with_ns == Engine!associate_workers_with_ns /\ UNCHANGED appendVars

\* The rest of main(): the pool, the launch, the join, print_stats.
main_rest ==
  /\ Engine!create_pool \/ Engine!launch \/ Engine!wait_all
  /\ UNCHANGED appendVars

zstore_cleanup == Engine!zstore_cleanup /\ UNCHANGED appendVars

\* The qpair, and ns_ctx->count = 0.
init_ns_worker_ctx(w) ==
  /\ Engine!init_ns_worker_ctx(w)
  /\ count' = IF qpair' # qpair THEN 0 ELSE count
  /\ UNCHANGED <<tag, zone, result, starting_lba>>

\* Fault: the count is not raised for a replacement.
submit_single_io_reuses(w) ==
  /\ Engine!submit_io(w) \/ Engine!resubmit(w)
  /\ tag' = [tag EXCEPT ![worker[w].slot] = count]
  /\ count' = IF completed[1] = 0 THEN count + 1 ELSE count
  /\ result' = [result EXCEPT ![worker[w].slot] = Pending]
  /\ UNCHANGED <<zone, starting_lba>>

\* submit_io and the replacement in task_complete.  The payload is printed into
\* the buffer and the count raised before the buffer is tested for NULL: a
\* failed allocation is a store through NULL.
submit_single_io(w) ==
  \/ /\ Engine!submit_io(w) \/ Engine!resubmit(w)
     /\ IF main' = "exit"
        THEN UNCHANGED appendVars
        ELSE /\ tag' = [tag EXCEPT ![worker[w].slot] = count]
             /\ count' = count + 1
             /\ result' = [result EXCEPT ![worker[w].slot] = Pending]
             /\ UNCHANGED <<zone, starting_lba>>
  \/ /\ "zmalloc" \in Faults
     /\ pool > 0
     /\ \/ Engine!At(w, "resubmit")
        \/ Engine!At(w, "submit") /\ worker[w].cur # 0 /\ worker[w].slot > 0
     /\ main' = "crashed"
     /\ UNCHANGED <<worker, qpair, depth, completed, draining, offset, expired,
                    inflight, lost, pool, appendVars>>

\* task_complete, then the first completion's cdw0 is printed.
io_complete(w) ==
  \E s \in Engine!Slots :
    /\ result[s] # Pending
    /\ Engine!task_complete(w, s)
    /\ starting_lba' = IF starting_lba = NotPrinted THEN result[s] ELSE starting_lba
    /\ UNCHANGED <<count, tag, zone, result>>

check_io(w) == Engine!check_io_return(w) /\ UNCHANGED appendVars
drain_io(w) == Engine!drain_io(w) /\ UNCHANGED appendVars
cleanup_ns_worker_ctx(w) == Engine!cleanup_ns_worker_ctx(w) /\ UNCHANGED appendVars

\* The steps of work_fn between its calls.
work_fn(w) ==
  /\ \/ Engine!StartSubmit(w) \/ Engine!SubmitNextCtx(w) \/ Engine!StartPoll(w)
     \/ Engine!PollAgain(w) \/ Engine!StopPolling(w) \/ Engine!WorkerReturns(w)
  /\ UNCHANGED appendVars

Clock(w) == Engine!Clock(w) /\ UNCHANGED appendVars

\* The device executes an append it holds: zslba names only the zone.
spdk_nvme_zns_zone_append(s) ==
  /\ <<1, s>> \in inflight
  /\ result[s] = Pending
  /\ IF WpAtStart + Len(zone) < ZoneCap
     THEN /\ zone' = Append(zone, tag[s])
          /\ result' = [result EXCEPT ![s] = WpAtStart + Len(zone)]
     ELSE /\ result' = [result EXCEPT ![s] = Error]
          /\ UNCHANGED zone
  /\ UNCHANGED <<engineVars, count, tag, starting_lba>>

-----------------------------------------------------------------------------
(* main() around the I/O: the functions of arbitration.cc *)

parse_args == Admin!parse_args
zns_dev_init == Admin!zns_dev_init
register_ctrlr == Admin!register_ctrlr
set_latency_tracking_feature == Admin!set_latency_tracking_feature
register_ns == Admin!register_ns
get_arb_feature == Admin!get_arb_feature
set_arb_feature == Admin!set_arb_feature
print_latency_statistics == Admin!print_latency_statistics
print_stats == Admin!print_stats
unregister_controllers == Admin!unregister_controllers
enable_latency_tracking_complete == Admin!enable_latency_tracking_complete
get_feature_completion == Admin!get_feature_completion
set_feature_completion == Admin!set_feature_completion

AdminFunction ==
  /\ \/ parse_args \/ Admin!spdk_env_init
     \/ zns_dev_init \/ register_ctrlr \/ set_latency_tracking_feature \/ register_ns
     \/ get_arb_feature \/ set_arb_feature
     \/ print_latency_statistics \/ print_stats
     \/ Admin!setup_failed \/ unregister_controllers
  /\ UNCHANGED programVars

AdminCompletion ==
  /\ \/ enable_latency_tracking_complete
     \/ get_feature_completion \/ set_feature_completion
  /\ UNCHANGED programVars

Step(w) ==
  \/ init_ns_worker_ctx(w) \/ submit_single_io(w) \/ io_complete(w)
  \/ check_io(w) \/ drain_io(w) \/ cleanup_ns_worker_ctx(w) \/ work_fn(w)
  \/ Clock(w)

Program ==
  \/ register_workers \/ register_controllers \/ associate_workers_with_ns
  \/ main_rest \/ zstore_cleanup
  \/ \E w \in Engine!Workers : Step(w)
  \/ \E s \in Engine!Slots : spdk_nvme_zns_zone_append(s)

Next ==
  \/ Program /\ Admin!MayGo /\ UNCHANGED adminVars
  \/ AdminFunction \/ AdminCompletion

Spec == Init /\ [][Next]_vars

-----------------------------------------------------------------------------
(* Properties *)

\* A reader can tell the appends apart, and from a block's place how far its number
\* can be off, with any queue depth and whatever is refused: no number is in the
\* zone twice, block i of the run holds a number below i + QueueDepth (a payload
\* overtakes only those the other slots hold), and the LBA printed by the first
\* completion is one of the first QueueDepth of the run.
PayloadsInWindow ==
  /\ IsInjective(zone)
  /\ \A i \in 1..Len(zone) : zone[i] < (i - 1) + QueueDepth
  /\ starting_lba >= 0 => starting_lba \in WpAtStart..(WpAtStart + QueueDepth - 1)
=============================================================================
