-------------------------- MODULE ArbitrationBench --------------------------
(***************************************************************************)
(* examples/arbitration/arbitration.cc as a whole: the I/O engine of       *)
(* Arbitration between the two halves of AdminFeatures.  main is the       *)
(* variable they share: the engine moves it, and waits (Admin!MayGo) for   *)
(* the arguments, for the controllers and, at the end, for                 *)
(* unregister_controllers; the admin functions run when it stands still.   *)
(***************************************************************************)
EXTENDS Integers

CONSTANTS NumWorkers, NumNamespaces, Count, QueueDepth, SizeInIos, IsRandom, Faults,
          MaxIo

CONSTANTS TrackingCapable, WrrCapable, Arguments, AdminFaults

VARIABLES main, worker, qpair, depth, completed, draining, offset, expired,
          inflight, lost, pool

VARIABLES args, opt, ctl, polling, cur, g_controllers, outstanding, commands,
          valid, pages, tracked, weights, refused, kept, fallback

Engine == INSTANCE Arbitration
\* zns_dev_init connects two controllers.
Admin == INSTANCE AdminFeatures WITH NumCtrlrs <- 2, Sequential <- FALSE

programVars == <<main, worker, qpair, depth, completed, draining, offset, expired,
                 inflight, lost, pool>>
adminVars == <<args, opt, ctl, polling, cur, g_controllers, outstanding, commands,
               valid, pages, tracked, weights, refused, kept, fallback>>
vars == <<programVars, adminVars>>

Init == Engine!Init /\ Admin!Init

-----------------------------------------------------------------------------
\* The engine's steps, those of main() when the function above them has returned.
Main == Engine!MainNext /\ Admin!MayGo /\ UNCHANGED adminVars
ThreadStep(w) == Engine!ThreadStep(w) /\ UNCHANGED adminVars
Completion(w) == Engine!Completion(w) /\ UNCHANGED adminVars
check_io_return(w) == Engine!check_io_return(w) /\ UNCHANGED adminVars
Clock(w) == Engine!Clock(w) /\ UNCHANGED adminVars

AdminFunction == Admin!Function /\ UNCHANGED programVars
AdminCompletion == Admin!Completion /\ UNCHANGED programVars

Next ==
  \/ Main \/ AdminFunction \/ AdminCompletion
  \/ \E w \in 1..NumWorkers :
       ThreadStep(w) \/ Completion(w) \/ check_io_return(w) \/ Clock(w)

Spec == Init /\ [][Next]_vars

-----------------------------------------------------------------------------
\* unregister_controllers turns the latency feature off and detaches only
\* controllers at rest: no command of any core is in flight, and a qpair is still
\* allocated only on a core whose init_ns_worker_ctx failed.
DetachedAfterDrain ==
  ctl \in {"latency_off", "detach", "end"} =>
    /\ inflight = {}
    /\ \A c \in 1..Count :
         qpair[c] = "open" => worker[Engine!worker_of(c)].pc = "failed"

\* The program is over, in main() or in one of the functions it calls.
Finished == Engine!Finished \/ Admin!Ended
=============================================================================
