------------------------------- MODULE MCBench -------------------------------
(***************************************************************************)
(* Whole benchmark programs, from the command line to the return of        *)
(* main(), checked in one run: `program` is chosen in Init, the behaviour  *)
(* is that of the module of that program, and the variables of the others  *)
(* keep the value Unused.  The I/O is kept small, the setup and the admin  *)
(* commands fail in every way the code meets.                              *)
(***************************************************************************)
EXTENDS Integers, Sequences

VARIABLES program

VARIABLES main, worker, qpair, depth, completed, draining, offset, expired,
          inflight, lost, pool

VARIABLES args, opt, ctl, polling, cur, g_controllers, outstanding, commands,
          valid, pages, tracked, weights, refused, kept, fallback

VARIABLES wp, addr, pending, zone_wp, rejected, stuck

VARIABLES todo, count, pending_reads, writes, reads, passed, failed, zone, dropped,
          dev_errors

AdminFaults ==
  {"env", "connect", "calloc", "latency_submit", "latency_error", "get_submit",
   "get_error", "set_submit", "set_error", "log_submit"}
WrrCapable == {1}

Opt(o, v) == [op |-> o, val |-> v]

\* Command lines of up to three of these options; 256 and 257 become 0 and 1.
Options ==
  {Opt("w", v) : v \in {"randread", "write", "rw", "trim"}}
    \cup {Opt("M", v) : v \in {0, 100, 101}}
    \cup {Opt("l", v) : v \in {1, 2, 256}}
    \cup {Opt("a", v) : v \in {1, 3, 257}}
    \cup {Opt("b", v) : v \in {1, -1}}
    \cup {Opt("h", 0), Opt("q", 4)}
ShortLines == UNION {[1..n -> Options] : n \in 0..3}

\* The default line, both features at once, each alone.
FewLines ==
  {<<Opt("w", "rw")>>,
   <<Opt("w", "rw"), Opt("l", 1), Opt("a", 1), Opt("b", 1)>>,
   <<Opt("w", "read"), Opt("l", 1)>>,
   <<Opt("w", "write"), Opt("a", 1)>>}

Bench == INSTANCE ArbitrationBench
  WITH NumWorkers <- 2, NumNamespaces <- 2, Count <- 2, QueueDepth <- 1, SizeInIos <- 2,
       IsRandom <- FALSE, MaxIo <- 1, Arguments <- FewLines, TrackingCapable <- {1, 2},
       Faults <- {"calloc", "no_namespace", "mempool", "qpair", "zmalloc", "submit"}

Write == INSTANCE ArbitrationWrite
  WITH NumWorkers <- 2, NumNamespaces <- 2, QueueDepth <- 1, SizeInIos <- 2,
       IsRandom <- FALSE, MaxIo <- 1, ZoneCap <- 2, WpAtStart <- 1,
       Arguments <- {<<Opt("w", "write"), Opt("l", 1)>>}, TrackingCapable <- {2},
       Faults <- {"calloc", "qpair", "report_error", "report_submit"}

Verify == INSTANCE Verification
  WITH QueueDepth <- 1, PoolFactor <- 1, IsRandom <- FALSE, MaxWrites <- 2,
       ZoneCap <- 2, WpAtStart <- 1, Arguments <- ShortLines, TrackingCapable <- {1},
       Faults <- {"calloc", "no_namespace", "mempool", "qpair", "submit", "raw_queue"}

ASSUME BenchConstants == Bench!Admin!AdminConstants /\ Verify!VerificationConstants

Unused == 0

\* The variables each program does not have.
VerifyVars == <<todo, count, pending_reads, writes, reads, passed, failed, zone, dropped,
                dev_errors>>
WriteVars == <<wp, addr, pending, zone_wp, rejected, stuck>>
NotBench == <<program, VerifyVars, WriteVars>>
NotWrite == <<program, VerifyVars>>
NotVerify == <<program, worker, qpair, completed, offset, lost, WriteVars>>

NoVerify ==
  /\ todo = Unused /\ count = Unused /\ pending_reads = Unused /\ writes = Unused
  /\ reads = Unused /\ passed = Unused /\ failed = Unused /\ zone = Unused
  /\ dropped = Unused /\ dev_errors = Unused
NoWrite ==
  /\ wp = Unused /\ addr = Unused /\ pending = Unused
  /\ zone_wp = Unused /\ rejected = Unused /\ stuck = Unused
NoEngine ==
  /\ worker = Unused /\ qpair = Unused /\ completed = Unused
  /\ offset = Unused /\ lost = Unused

adminVars == <<args, opt, ctl, polling, cur, g_controllers, outstanding, commands,
               valid, pages, tracked, weights, refused, kept, fallback>>
vars == <<NotVerify, main, depth, draining, expired, inflight, pool, VerifyVars,
          adminVars>>

Init ==
  \/ program = "arbitration" /\ Bench!Init /\ NoWrite /\ NoVerify
  \/ program = "arbitration_write" /\ Write!Init /\ NoVerify
  \/ program = "verification" /\ Verify!Init /\ NoEngine /\ NoWrite

-----------------------------------------------------------------------------
(* The steps, by who takes them *)

\* main(), which in verification.cc is also the worker.
Main ==
  \/ /\ program = "arbitration" /\ UNCHANGED NotBench
     /\ Bench!Main \/ Bench!AdminFunction
  \/ /\ program = "arbitration_write" /\ UNCHANGED NotWrite
     /\ \/ Write!Main /\ Write!Admin!MayGo /\ UNCHANGED adminVars
        \/ Write!AdminFunction
  \/ /\ program = "verification" /\ UNCHANGED NotVerify
     /\ \/ Verify!Program /\ Verify!Admin!MayGo /\ UNCHANGED adminVars
        \/ Verify!AdminFunction

ThreadStep(w) ==
  \/ program = "arbitration" /\ Bench!ThreadStep(w) /\ UNCHANGED NotBench
  \/ program = "arbitration_write" /\ Write!ThreadStep(w) /\ UNCHANGED <<NotWrite, adminVars>>

check_io_return(w) ==
  \/ program = "arbitration" /\ Bench!check_io_return(w) /\ UNCHANGED NotBench
  \/ program = "arbitration_write" /\ Write!check_io(w) /\ UNCHANGED <<NotWrite, adminVars>>

Completion(w) ==
  \/ program = "arbitration" /\ Bench!Completion(w) /\ UNCHANGED NotBench
  \/ program = "arbitration_write" /\ Write!task_complete(w) /\ UNCHANGED <<NotWrite, adminVars>>

Device ==
  \/ program = "arbitration_write" /\ Write!Device /\ UNCHANGED <<NotWrite, adminVars>>
  \/ program = "verification" /\ Verify!Device /\ UNCHANGED <<NotVerify, adminVars>>

AdminCompletion ==
  \/ program = "arbitration" /\ Bench!AdminCompletion /\ UNCHANGED NotBench
  \/ program = "arbitration_write" /\ Write!AdminCompletion /\ UNCHANGED NotWrite
  \/ program = "verification" /\ Verify!AdminCompletion /\ UNCHANGED NotVerify

Clock(w) ==
  \/ program = "arbitration" /\ Bench!Clock(w) /\ UNCHANGED NotBench
  \/ program = "arbitration_write" /\ Write!Clock(w) /\ UNCHANGED <<NotWrite, adminVars>>
  \/ program = "verification" /\ w = 1 /\ Verify!Clock /\ UNCHANGED <<NotVerify, adminVars>>

Next ==
  \/ Main \/ Device \/ AdminCompletion
  \/ \E w \in 1..2 :
       ThreadStep(w) \/ check_io_return(w) \/ Completion(w) \/ Clock(w)

\* The fairness of Arbitration, and a device that answers admin commands too.
FairSpec ==
  /\ Init /\ [][Next]_vars
  /\ WF_vars(Main) /\ WF_vars(Device) /\ WF_vars(AdminCompletion)
  /\ \A w \in 1..2 :
       /\ WF_vars(ThreadStep(w))
       /\ WF_vars(Completion(w))
       /\ WF_vars(Clock(w))
       /\ SF_vars(check_io_return(w))

-----------------------------------------------------------------------------
(* Properties *)


\* AdminFeatures!CounterIsExact: outstanding_commands counts the commands the
\* controllers hold and the refused get-feature submissions.
CounterIsExact == Bench!Admin!CounterIsExact

\* AdminFeatures!TrackingRestored: no detached controller tracks latencies, unless
\* it could not be told to stop.
TrackingRestored == Bench!Admin!TrackingRestored

\* ArbitrationBench!DetachedAfterDrain: controllers are detached when no core has
\* a command in flight.
DetachedAfterDrain ==
  program \in {"arbitration", "arbitration_write"} => Bench!DetachedAfterDrain

Finished ==
  CASE program = "verification" -> Verify!Finished
    [] OTHER -> Bench!Finished

\* The only waits that may last for ever are those the code cannot leave: on
\* a counter that was raised for a get-feature command the driver refused, and on
\* the completion of a zone report it refused (arbitration_write.cc).  Every other
\* run of these programs ends, whatever else fails.
EndsUnlessRefused ==
  <>(Finished \/ refused > 0 \/ (program = "arbitration_write" /\ stuck # {}))

\* AdminFeatures!DefaultMeansDefault: the program says that the default weights are
\* used only when they are.
DefaultMeansDefault == Bench!Admin!DefaultMeansDefault
=============================================================================
