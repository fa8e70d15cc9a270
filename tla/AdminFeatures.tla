---------------------------- MODULE AdminFeatures ----------------------------
(***************************************************************************)
(* What main() of examples/arbitration/arbitration.cc, and of the programs *)
(* copied from it, does around the I/O: parse_args; zns_dev_init, which    *)
(* connects the controllers one by one, and register_ctrlr, which sets the *)
(* latency-tracking feature, registers the namespaces and reads (and       *)
(* writes) the arbitration feature; print_stats, which fetches the latency *)
(* log pages; unregister_controllers, which switches the tracking off and  *)
(* detaches.  The admin functions share one counter,                       *)
(* g_arbitration.outstanding_commands, and wait for it to become 0 by      *)
(* polling one controller or all of them.                                  *)
(*                                                                         *)
(* `main` is where the program's main() is; its steps belong to the module *)
(* of the program, which takes them only when MayGo holds.  While main is  *)
(* in one of these functions, `ctl` says where.  refused, kept and         *)
(* fallback are history variables.                                         *)
(***************************************************************************)
EXTENDS ParseArgs, FiniteSets

CONSTANTS
  NumCtrlrs,        \* controllers zns_dev_init connects, in order
  TrackingCapable,  \* controllers with the latency feature and its log pages
  WrrCapable,       \* controllers with cap.bits.ams & SPDK_NVME_CAP_AMS_WRR
  Arguments,        \* command lines
  IsRandom,         \* the is_random this instance is about
  Faults,           \* failures of the program's own setup
  AdminFaults       \* which of the calls below may fail

Ctrlrs == 1..NumCtrlrs
AdminFaultKinds ==
  {"env", "connect", "calloc", "latency_submit", "latency_error", "get_submit",
   "get_error", "set_submit", "set_error", "log_submit"}

AdminConstants ==
  /\ NumCtrlrs \in Nat \ {0}
  /\ TrackingCapable \subseteq Ctrlrs /\ WrrCapable \subseteq Ctrlrs
  /\ AdminFaults \subseteq AdminFaultKinds

VARIABLES
  main,           \* where main() is
  args,           \* argv
  opt,            \* g_arbitration as parse_args leaves it
  ctl,            \* the function main() is in
  polling,        \* it is in the wait loop of that function
  cur,            \* the controller being registered or unregistered
  g_controllers,  \* the registered controllers
  outstanding,    \* g_arbitration.outstanding_commands
  commands,       \* <<controller, command>>: admin commands a controller holds
  valid,          \* features[SPDK_NVME_FEAT_ARBITRATION].valid
  pages,          \* log pages still to be fetched
  tracked,        \* device: controllers with latency tracking on
  weights,        \* device: "default", "user" or "zero", per controller
  refused,        \* refused submissions that were counted in outstanding
  kept,           \* controllers that could not be told to stop tracking
  fallback        \* "Set Arbitration Feature failed and use default configuration"

queueVars == <<outstanding, commands, refused>>
deviceVars == <<tracked, weights, kept, fallback>>
adminVars == <<args, opt, ctl, polling, cur, g_controllers, queueVars, valid,
               pages, deviceVars>>

\* The command lines that leave is_random as in this instance of the program.
Init ==
  /\ args \in {a \in Arguments : Parsed(a).ok => Parsed(a).is_random = IsRandom}
  /\ opt = g_arbitration
  /\ ctl = "parse" /\ polling = FALSE
  /\ cur = 1
  /\ g_controllers = {}
  /\ outstanding = 0 /\ commands = {}
  /\ valid = FALSE
  /\ pages = 0
  /\ tracked = {} /\ weights = [c \in Ctrlrs |-> "default"]
  /\ refused = 0 /\ kept = {} /\ fallback = {}

\* main() goes from one function to the next.
Goto(to) ==
  /\ ctl' = to
  /\ polling' = FALSE
  /\ UNCHANGED <<args, opt, g_controllers, queueVars, valid, pages>>

\* Command k to the current controller is accepted and counted; then the loop.
Send(k) ==
  /\ commands' = commands \cup {<<cur, k>>}
  /\ outstanding' = outstanding + 1
  /\ polling' = TRUE
  /\ UNCHANGED <<args, opt, ctl, cur, g_controllers, refused, pages>>

\* The wait loop is over.
LoopEnds == polling /\ outstanding = 0

Tracks(c) == opt.latency_tracking_enable # 0 /\ c \in TrackingCapable
UsesArb(c) == opt.arbitration_mechanism = WRR /\ c \in WrrCapable

-----------------------------------------------------------------------------
(* main, until the workers are registered *)

parse_args ==
  /\ main = "register_workers" /\ ctl = "parse"
  /\ opt' = Parsed(args)
  /\ ctl' = IF opt'.ok THEN "env" ELSE "rejected"
  /\ pages' = (IF opt'.rw_percentage # 0 THEN 1 ELSE 0)
              + (IF opt'.rw_percentage # 100 THEN 1 ELSE 0)
  /\ UNCHANGED <<args, polling, cur, g_controllers, queueVars, valid, deviceVars>>

\* argv is not read again.
spdk_env_init ==
  /\ ctl = "env"
  /\ \/ ctl' = "connect"
     \/ "env" \in AdminFaults /\ ctl' = "rejected"
  /\ args' = <<>>
  /\ UNCHANGED <<opt, polling, cur, g_controllers, queueVars, valid, pages, deviceVars>>

-----------------------------------------------------------------------------
(* zns_dev_init and register_ctrlr *)

\* spdk_nvme_connect may return NULL, which register_ctrlr dereferences.
zns_dev_init ==
  /\ main = "register_controllers" /\ ctl = "connect"
  /\ \/ Goto("register_ctrlr")
     \/ "connect" \in AdminFaults /\ Goto("crashed")
  /\ UNCHANGED <<cur, deviceVars>>

\* register_ctrlr calls the functions below in turn and returns to zns_dev_init,
\* which connects the next controller.
register_ctrlr ==
  \/ /\ ctl = "register_ctrlr"
     /\ \/ /\ g_controllers' = g_controllers \cup {cur}
           /\ ctl' = IF Tracks(cur) THEN "latency_on" ELSE "register_ns"
           /\ UNCHANGED <<args, opt, polling, queueVars, valid, pages>>
        \/ "calloc" \in AdminFaults /\ Goto("exit")
     /\ UNCHANGED <<cur, deviceVars>>
  \/ /\ ctl = "registered"
     /\ IF cur < NumCtrlrs THEN cur' = cur + 1 /\ Goto("connect")
                           ELSE cur' = cur /\ Goto("io")
     /\ UNCHANGED deviceVars

\* Fault: the function does not wait for the completion.
set_latency_tracking_feature_no_wait ==
  /\ ctl \in {"latency_on", "latency_off"}
  /\ commands' = commands \cup {<<cur, ctl>>}
  /\ outstanding' = outstanding + 1
  /\ ctl' = IF ctl = "latency_on" THEN "register_ns" ELSE "detach"
  /\ UNCHANGED <<args, opt, polling, cur, g_controllers, refused, valid, pages, deviceVars>>

\* A refused command is reported and not awaited.
set_latency_tracking_feature ==
  LET return == IF ctl = "latency_on" THEN "register_ns" ELSE "detach" IN
  /\ ctl \in {"latency_on", "latency_off"}
  /\ UNCHANGED <<cur, tracked, weights, fallback>>
  /\ \/ ~polling /\ Send(ctl) /\ UNCHANGED <<valid, kept>>
     \/ LoopEnds /\ Goto(return) /\ UNCHANGED kept
     \/ /\ ~polling /\ "latency_submit" \in AdminFaults
        /\ Goto(return)
        /\ kept' = IF ctl = "latency_off" THEN kept \cup {cur} ELSE kept

\* The namespace loop: register_ns may run out of memory and exit.
register_ns ==
  /\ ctl = "register_ns"
  /\ \/ Goto(IF UsesArb(cur) THEN "get_arb" ELSE "registered")
     \/ "calloc" \in AdminFaults /\ Goto("exit")
  /\ UNCHANGED <<cur, deviceVars>>

\* Fault: the counter is not raised.
get_arb_feature_uncounted ==
  /\ ctl \in {"get_arb", "get_arb_again"}
  /\ \/ /\ ~polling
        /\ valid' = FALSE /\ polling' = TRUE
        /\ commands' = commands \cup {<<cur, "get">>}
        /\ UNCHANGED <<args, opt, ctl, cur, g_controllers, outstanding, refused, pages>>
     \/ /\ LoopEnds
        /\ Goto(IF ctl = "get_arb" /\ opt.arbitration_config # 0 THEN "set_arb" ELSE "registered")
        /\ UNCHANGED cur
  /\ UNCHANGED deviceVars

\* get_feature's return code is ignored: the counter is raised either way.
get_arb_feature ==
  /\ ctl \in {"get_arb", "get_arb_again"}
  /\ \/ ~polling /\ Send("get") /\ valid' = FALSE
     \/ /\ ~polling /\ "get_submit" \in AdminFaults
        /\ valid' = FALSE /\ polling' = TRUE
        /\ outstanding' = outstanding + 1 /\ refused' = refused + 1
        /\ UNCHANGED <<args, opt, ctl, cur, g_controllers, commands, pages>>
     \/ /\ LoopEnds
        /\ Goto(IF ctl = "get_arb" /\ opt.arbitration_config # 0 THEN "set_arb" ELSE "registered")
        /\ UNCHANGED cur
  /\ UNCHANGED deviceVars

\* set_arb_feature resets the counter, then sends the user's weights, or, when
\* the last get failed, a command whose cdw11 is all zero.
set_arb_feature ==
  /\ ctl = "set_arb"
  /\ \/ /\ ~polling
        /\ commands' = commands \cup {<<cur, IF valid THEN "set_user" ELSE "set_zero">>}
        /\ outstanding' = 1
        /\ polling' = TRUE
        /\ UNCHANGED <<args, opt, ctl, cur, g_controllers, refused, valid, pages, fallback>>
     \/ /\ ~polling /\ "set_submit" \in AdminFaults
        /\ outstanding' = 0
        /\ ctl' = "get_arb_again"
        /\ UNCHANGED <<args, opt, polling, cur, g_controllers, commands, refused, valid,
                       pages, fallback>>
     \/ /\ LoopEnds
        /\ Goto("get_arb_again")
        /\ fallback' = IF valid THEN fallback ELSE fallback \cup {cur}
        /\ UNCHANGED cur
  /\ UNCHANGED <<tracked, weights, kept>>

-----------------------------------------------------------------------------
(* print_stats and zstore_cleanup *)

\* One latency log page is asked of every capable controller at once; a refused
\* submission exits.
print_latency_statistics ==
  /\ \/ /\ main = "print_stats" /\ ctl = "io"
        /\ opt.latency_tracking_enable # 0 /\ pages > 0
        /\ \/ /\ commands' = commands \cup {<<c, "log">> : c \in TrackingCapable}
              /\ outstanding' = outstanding + Cardinality(TrackingCapable)
              /\ ctl' = "log_page" /\ polling' = TRUE
              /\ pages' = pages - 1
              /\ UNCHANGED <<args, opt, g_controllers, refused, valid>>
           \/ "log_submit" \in AdminFaults /\ TrackingCapable # {} /\ Goto("exit")
     \/ ctl = "log_page" /\ LoopEnds /\ Goto("io")
  /\ UNCHANGED <<cur, deviceVars>>

\* unregister_controllers takes the controllers off the list in order.
Unregister(c) ==
  /\ cur' = c
  /\ Goto(IF Tracks(c) THEN "latency_off" ELSE "detach")
  /\ UNCHANGED deviceVars

\* print_stats has fetched all pages; zstore_cleanup is next.
print_stats ==
  /\ main = "print_stats" /\ ctl = "io"
  /\ opt.latency_tracking_enable = 0 \/ pages = 0
  /\ Unregister(1)

\* A failed step of the setup goes to zstore_cleanup without print_stats.
setup_failed ==
  /\ ctl = "io"
  /\ \/ main = "register_controllers" /\ "no_namespace" \in Faults
     \/ main = "associate" /\ "calloc" \in Faults
     \/ main = "create_pool" /\ "mempool" \in Faults
  /\ Unregister(1)

\* spdk_nvme_detach_async, and on to the next controller.
unregister_controllers ==
  /\ ctl = "detach"
  /\ g_controllers' = g_controllers \ {cur}
  /\ IF cur < NumCtrlrs
     THEN cur' = cur + 1 /\ ctl' = IF Tracks(cur + 1) THEN "latency_off" ELSE "detach"
     ELSE cur' = cur /\ ctl' = "end"
  /\ UNCHANGED <<args, opt, polling, queueVars, valid, pages, deviceVars>>

-----------------------------------------------------------------------------
(* Completions, delivered while main() polls *)

\* The log-page loop polls every controller, all others only the current one.
Polled ==
  IF ~polling THEN {} ELSE IF ctl = "log_page" THEN g_controllers ELSE {cur}

Complete(m) ==
  /\ m[1] \in Polled
  /\ commands' = commands \ {m}
  /\ outstanding' = outstanding - 1
  /\ UNCHANGED <<args, opt, ctl, polling, cur, g_controllers, refused, pages>>

\* The callback of the latency feature and of the log pages ignores errors.
enable_latency_tracking_complete ==
  \E m \in commands :
    /\ m[2] \in {"latency_on", "latency_off", "log"}
    /\ Complete(m)
    /\ \/ /\ tracked' = CASE m[2] = "latency_on" -> tracked \cup {m[1]}
                          [] m[2] = "latency_off" -> tracked \ {m[1]}
                          [] m[2] = "log" -> tracked
          /\ UNCHANGED kept
       \/ /\ "latency_error" \in AdminFaults
          /\ kept' = IF m[2] = "latency_off" THEN kept \cup {m[1]} ELSE kept
          /\ UNCHANGED tracked
    /\ UNCHANGED <<valid, weights, fallback>>

\* Fault: the error path returns before the counter is lowered.
get_feature_completion_returns ==
  \E m \in commands :
    /\ m[2] = "get" /\ m[1] \in Polled
    /\ commands' = commands \ {m}
    /\ UNCHANGED <<args, opt, ctl, polling, cur, g_controllers, outstanding, refused,
                   valid, pages, deviceVars>>

get_feature_completion ==
  \E m \in commands :
    /\ m[2] = "get"
    /\ Complete(m)
    /\ \/ valid' = TRUE
       \/ "get_error" \in AdminFaults /\ UNCHANGED valid
    /\ UNCHANGED deviceVars

set_feature_completion ==
  \E m \in commands :
    /\ m[2] \in {"set_user", "set_zero"}
    /\ Complete(m)
    /\ \/ /\ weights' = [weights EXCEPT ![m[1]] = IF m[2] = "set_user" THEN "user" ELSE "zero"]
          /\ UNCHANGED valid
       \/ "set_error" \in AdminFaults /\ valid' = FALSE /\ UNCHANGED weights
    /\ UNCHANGED <<tracked, kept, fallback>>

Completion ==
  \/ enable_latency_tracking_complete
  \/ get_feature_completion \/ set_feature_completion

\* The steps main() takes by itself.
Function ==
  \/ parse_args \/ spdk_env_init
  \/ zns_dev_init \/ register_ctrlr \/ set_latency_tracking_feature \/ register_ns
  \/ get_arb_feature \/ set_arb_feature
  \/ print_latency_statistics \/ print_stats \/ setup_failed \/ unregister_controllers

\* A step of the program that moves main on waits for the function above it: the
\* arguments before register_workers, the controllers before the contexts, and
\* unregister_controllers before cleanup(), which ends the program.
MayGo ==
  main' # main =>
    IF main = "register_workers" THEN ctl = "connect"
    ELSE IF main' \in {"crashed", "end", "end_mismatch"} THEN ctl = "end"
    ELSE ctl = "io"

\* The program is over in one of these functions.
Ended == ctl \in {"rejected", "exit", "crashed"}

-----------------------------------------------------------------------------
(* Properties *)


\* The counter every wait loop spins on is the number of commands the
\* controllers hold plus the refused get-feature submissions, so a loop
\* can only spin for ever on one of the latter.
CounterIsExact == outstanding = Cardinality(commands) + refused

\* A controller that was detached no longer tracks latencies, also after a failed
\* setup, unless switching the tracking off was refused or failed.
TrackingRestored ==
  \A c \in tracked :
    c \in g_controllers \/ c \in kept

\* What set_arb_feature prints when it is over and the feature is not valid: "Set
\* Arbitration Feature failed and use default configuration".
DefaultMeansDefault == \A c \in fallback : weights[c] = "default"
=============================================================================
