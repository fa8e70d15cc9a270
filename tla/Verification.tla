----------------------------- MODULE Verification -----------------------------
(***************************************************************************)
(* examples/multipath/verification.cc as a whole: the I/O of VerificationIo*)
(* between the two halves of AdminFeatures.  A step of the program is one  *)
(* of VerificationIo, taken when the function main() is in has returned,   *)
(* or leaves the variables of VerificationIo alone.                        *)
(***************************************************************************)
EXTENDS VerificationIo

CONSTANTS
  IsRandom,    \* is_random, which an append does not look at
  TrackingCapable, WrrCapable, Arguments, AdminFaults

VARIABLES args, opt, ctl, polling, cur, g_controllers, outstanding, commands,
          valid, pages, tracked, weights, refused, kept, fallback

\* zns_dev_init connects one controller.
Admin == INSTANCE AdminFeatures WITH NumCtrlrs <- 1, Sequential <- FALSE

adminVars == <<args, opt, ctl, polling, cur, g_controllers, outstanding, commands,
               valid, pages, tracked, weights, refused, kept, fallback>>
vars == <<programVars, adminVars>>

Init == ProgramInit /\ Admin!Init

-----------------------------------------------------------------------------
(* main() around the I/O: the functions of arbitration.cc *)

parse_args == Admin!parse_args
zns_dev_init == Admin!zns_dev_init
register_ctrlr == Admin!register_ctrlr
set_latency_tracking_feature == Admin!set_latency_tracking_feature
register_ns == Admin!register_ns
get_arb_feature == Admin!get_arb_feature
set_arb_feature == Admin!set_arb_feature
print_latency_statistics == Admin!print_latency_statistics
print_stats == Admin!print_stats
unregister_controllers == Admin!unregister_controllers
enable_latency_tracking_complete == Admin!enable_latency_tracking_complete
get_feature_completion == Admin!get_feature_completion
set_feature_completion == Admin!set_feature_completion

AdminFunction ==
  /\ \/ parse_args \/ Admin!spdk_env_init
     \/ zns_dev_init \/ register_ctrlr \/ set_latency_tracking_feature \/ register_ns
     \/ get_arb_feature \/ set_arb_feature
     \/ print_latency_statistics \/ print_stats
     \/ Admin!setup_failed \/ unregister_controllers
  /\ UNCHANGED programVars

AdminCompletion ==
  /\ \/ enable_latency_tracking_complete
     \/ get_feature_completion \/ set_feature_completion
  /\ UNCHANGED programVars

Next ==
  \/ Program /\ Admin!MayGo /\ UNCHANGED adminVars
  \/ Device /\ UNCHANGED adminVars
  \/ Clock /\ UNCHANGED adminVars
  \/ AdminFunction \/ AdminCompletion

Spec == Init /\ [][Next]_vars

\* The program is over, in main() or in one of the functions it calls.
Finished ==
  main \in {"end", "end_mismatch", "exit", "crashed", "segfault"} \/ Admin!Ended
=============================================================================
