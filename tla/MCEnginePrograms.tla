-------------------------- MODULE MCEnginePrograms --------------------------
(***************************************************************************)
(* The I/O of the benchmark programs copied from arbitration.cc, checked   *)
(* in one run: `program` is chosen in Init, the behaviour is that of the   *)
(* module of that program, and the variables of the others keep the value  *)
(* Unused.  Programs that share a property share the bounds below.         *)
(***************************************************************************)
EXTENDS Integers

VARIABLES program

VARIABLES main, worker, qpair, depth, completed, draining, offset, expired,
          inflight, lost, pool

VARIABLES args, opt, ctl, polling, cur, g_controllers, outstanding, commands,
          valid, pages, tracked, weights, refused, kept, fallback

VARIABLES now, stimes, etimes, began, spent, report,
          count, tag, zone, result, starting_lba,
          addr, done, skipped,
          wp, pending, zone_wp, rejected, stuck, failed

VARIABLES todo, pending_reads, writes, reads, passed, dropped, dev_errors

\* Both admin features are used and nothing of main() around the I/O fails.
CommandLine(workload) ==
  <<[op |-> "w", val |-> workload], [op |-> "l", val |-> 1], [op |-> "a", val |-> 1],
    [op |-> "b", val |-> 1]>>
TrackingCapable == {1}
WrrCapable == {1}
AdminFaults == {}

Rdma == INSTANCE ArbitrationRdma
  WITH NumWorkers <- 1, NumNamespaces <- 1, QueueDepth <- 2, SizeInIos <- 4,
       IsRandom <- FALSE, Arguments <- {CommandLine("rw")},
       Faults <- {"calloc", "submit"}, MaxIo <- 2

Append == INSTANCE ArbitrationAppend
  WITH NumWorkers <- 2, NumNamespaces <- 2, QueueDepth <- 2, SizeInIos <- 2,
       IsRandom <- TRUE, Arguments <- {CommandLine("randrw")},
       Faults <- {"calloc", "submit", "zmalloc"}, MaxIo <- 2, MaxTime <- 3, Micro <- 2

Read == INSTANCE ArbitrationRead
  WITH NumWorkers <- 1, NumNamespaces <- 2, QueueDepth <- 2, SizeInIos <- 2,
       IsRandom <- TRUE, Arguments <- {CommandLine("randrw")},
       Faults <- {"calloc", "submit"}, MaxIo <- 2, MaxTime <- 3, Micro <- 2

RdmaAppend == INSTANCE ArbitrationRdmaAppend
  WITH NumWorkers <- 1, NumNamespaces <- 1, QueueDepth <- 2, SizeInIos <- 2,
       IsRandom <- TRUE, Arguments <- {CommandLine("randrw")},
       Faults <- {"calloc", "submit"}, MaxIo <- 2, MaxTime <- 3, Micro <- 2

RdmaRead == INSTANCE ArbitrationRdmaRead
  WITH NumWorkers <- 1, NumNamespaces <- 1, QueueDepth <- 2, SizeInIos <- 2,
       IsRandom <- FALSE, Arguments <- {CommandLine("rw")},
       Faults <- {"calloc", "submit"}, MaxIo <- 2, MaxTime <- 3, Micro <- 2

Write == INSTANCE ArbitrationWrite
  WITH NumWorkers <- 2, NumNamespaces <- 2, QueueDepth <- 1, SizeInIos <- 4,
       IsRandom <- FALSE, Arguments <- {CommandLine("rw")},
       Faults <- {"calloc", "submit", "report_error", "report_submit"}, MaxIo <- 3, ZoneCap <- 5, WpAtStart <- 1

OneDriveAppend == INSTANCE MpOneDriveAppend
  WITH NumWorkers <- 1, NumNamespaces <- 1, QueueDepth <- 2, SizeInIos <- 8,
       IsRandom <- FALSE, Arguments <- {CommandLine("rw")},
       Faults <- {"calloc", "submit", "zmalloc"}, MaxIo <- 4, ZoneCap <- 5, WpAtStart <- 1

OneDriveRead == INSTANCE MpOneDriveRead
  WITH NumWorkers <- 1, NumNamespaces <- 1, QueueDepth <- 2, SizeInIos <- 8,
       IsRandom <- FALSE, Arguments <- {CommandLine("rw")},
       Faults <- {"calloc", "submit", "zmalloc"}, cnt <- 2, MaxIo <- 2

TwoRead == INSTANCE TwoTargetsRead
  WITH NumWorkers <- 2, NumNamespaces <- 2, QueueDepth <- 2, SizeInIos <- 8,
       IsRandom <- FALSE, Arguments <- {CommandLine("rw")},
       Faults <- {"calloc", "submit"}, cnt <- 2, MaxIo <- 1

ThreeReads == INSTANCE ThreeTargetReads
  WITH NumWorkers <- 2, NumNamespaces <- 1, QueueDepth <- 2, SizeInIos <- 8,
       IsRandom <- FALSE, Arguments <- {CommandLine("rw")},
       Faults <- {"calloc", "submit"}, cnt <- 2, MaxIo <- 2

ThreeWrites == INSTANCE ThreeTargetWrites
  WITH NumWorkers <- 3, NumNamespaces <- 2, QueueDepth <- 1, SizeInIos <- 4,
       IsRandom <- FALSE, Arguments <- {CommandLine("rw")},
       Faults <- {"calloc", "submit"}, cnt <- 3, MaxIo <- 1, ZoneCap <- 3, WpAtStart <- 1

Verify == INSTANCE Verification
  WITH QueueDepth <- 2, PoolFactor <- 1, IsRandom <- FALSE, MaxWrites <- 5,
       ZoneCap <- 4, WpAtStart <- 1, Arguments <- {CommandLine("rw")},
       Faults <- {"calloc", "qpair", "zmalloc", "submit", "raw_queue", "read_error"}

Unused == 0

\* The variables a program of each kind does not have.
NotPlain == <<now, stimes, etimes, began, spent, report, count, tag, zone, result,
           starting_lba, addr, done, skipped, wp, pending, zone_wp, rejected,
           stuck, failed, todo, pending_reads, writes, reads, passed, dropped,
           dev_errors>>
NotStamped == <<count, tag, zone, result, starting_lba, addr, done, skipped, wp,
           pending, zone_wp, rejected, stuck, failed, todo, pending_reads,
           writes, reads, passed, dropped, dev_errors>>
NotWriting == <<now, stimes, etimes, began, spent, report, count, tag, zone, result,
           starting_lba, done, skipped, failed, todo, pending_reads, writes,
           reads, passed, dropped, dev_errors>>
NotAppending == <<now, stimes, etimes, began, spent, report, addr, done, skipped, wp,
           pending, zone_wp, rejected, stuck, failed, todo, pending_reads,
           writes, reads, passed, dropped, dev_errors>>
NotReading == <<now, stimes, etimes, began, spent, report, tag, zone, result,
           starting_lba, wp, pending, zone_wp, rejected, stuck, failed, todo,
           pending_reads, writes, reads, passed, dropped, dev_errors>>
NotThree == <<now, stimes, etimes, began, spent, report, tag, zone, result,
           starting_lba, addr, done, skipped, wp, rejected, stuck, todo,
           pending_reads, writes, reads, passed, dropped, dev_errors>>
NotVerifying == <<now, stimes, etimes, began, spent, report, tag, result, starting_lba,
           addr, done, skipped, wp, pending, zone_wp, rejected, stuck, worker,
           qpair, completed, offset, lost>>

\* Groups of variables that are unused, and what each kind of program leaves unused.
NoStamps ==
  /\ now = Unused /\ stimes = Unused /\ etimes = Unused
  /\ began = Unused /\ spent = Unused /\ report = Unused
NoPayloads == tag = Unused /\ zone = Unused /\ result = Unused /\ starting_lba = Unused
NoReads == done = Unused /\ skipped = Unused
NoZones == pending = Unused /\ zone_wp = Unused
NoReports == wp = Unused /\ rejected = Unused /\ stuck = Unused
NoVerification ==
  /\ todo = Unused /\ pending_reads = Unused /\ writes = Unused
  /\ reads = Unused /\ passed = Unused /\ dropped = Unused
  /\ dev_errors = Unused
NoEngine ==
  /\ worker = Unused /\ qpair = Unused /\ completed = Unused
  /\ offset = Unused /\ lost = Unused

OnlyPlain == NoStamps /\ NoPayloads /\ NoReads /\ NoZones /\ NoReports
  /\ NoVerification /\ count = Unused /\ addr = Unused /\ failed = Unused
OnlyStamped == NoPayloads /\ NoReads /\ NoZones /\ NoReports /\ NoVerification
  /\ count = Unused /\ addr = Unused /\ failed = Unused
OnlyWriting == NoStamps /\ NoPayloads /\ NoReads /\ NoVerification /\ count = Unused
  /\ failed = Unused
OnlyAppending == NoStamps /\ NoReads /\ NoZones /\ NoReports /\ NoVerification
  /\ addr = Unused /\ failed = Unused
OnlyReading == NoStamps /\ NoPayloads /\ NoZones /\ NoReports /\ NoVerification
  /\ failed = Unused
OnlyThree == NoStamps /\ NoPayloads /\ NoReads /\ NoReports /\ NoVerification
  /\ addr = Unused
OnlyVerifying == NoStamps /\ NoReads /\ NoZones /\ NoReports /\ NoEngine
  /\ tag = Unused /\ result = Unused /\ starting_lba = Unused /\ addr = Unused

vars == <<program, main, worker, qpair, depth, completed, draining, offset,
          expired, inflight, lost, pool, NotPlain,
          args, opt, ctl, polling, cur, g_controllers, outstanding, commands,
          valid, pages, tracked, weights, refused, kept, fallback>>

Init ==
  \/ program = "arbitration_rdma" /\ Rdma!Init /\ OnlyPlain
  \/ program = "arbitration_append" /\ Append!Init /\ OnlyStamped
  \/ program = "arbitration_read" /\ Read!Init /\ OnlyStamped
  \/ program = "arbitration_rdma_append" /\ RdmaAppend!Init /\ OnlyStamped
  \/ program = "arbitration_rdma_read" /\ RdmaRead!Init /\ OnlyStamped
  \/ program = "arbitration_write" /\ Write!Init /\ OnlyWriting
  \/ program = "mp_one_drive_append" /\ OneDriveAppend!Init /\ OnlyAppending
  \/ program = "mp_one_drive_read" /\ OneDriveRead!Init /\ OnlyReading
  \/ program = "two_targets_read" /\ TwoRead!Init /\ OnlyReading
  \/ program = "three_target_reads" /\ ThreeReads!Init /\ OnlyReading
  \/ program = "three_target_writes" /\ ThreeWrites!Init /\ OnlyThree
  \/ program = "verification" /\ Verify!Init /\ OnlyVerifying

Next ==
  /\ UNCHANGED program
  /\ \/ program = "arbitration_rdma" /\ Rdma!Next /\ UNCHANGED NotPlain
     \/ program = "arbitration_append" /\ Append!Next /\ UNCHANGED NotStamped
     \/ program = "arbitration_read" /\ Read!Next /\ UNCHANGED NotStamped
     \/ program = "arbitration_rdma_append" /\ RdmaAppend!Next /\ UNCHANGED NotStamped
     \/ program = "arbitration_rdma_read" /\ RdmaRead!Next /\ UNCHANGED NotStamped
     \/ program = "arbitration_write" /\ Write!Next /\ UNCHANGED NotWriting
     \/ program = "mp_one_drive_append" /\ OneDriveAppend!Next /\ UNCHANGED NotAppending
     \/ program = "mp_one_drive_read" /\ OneDriveRead!Next /\ UNCHANGED NotReading
     \/ program = "two_targets_read" /\ TwoRead!Next /\ UNCHANGED NotReading
     \/ program = "three_target_reads" /\ ThreeReads!Next /\ UNCHANGED NotReading
     \/ program = "three_target_writes" /\ ThreeWrites!Next /\ UNCHANGED NotThree
     \/ program = "verification" /\ Verify!Next /\ UNCHANGED NotVerifying

Spec == Init /\ [][Next]_vars

-----------------------------------------------------------------------------
(* Properties *)

Stamped == {"arbitration_append", "arbitration_read", "arbitration_rdma_append",
            "arbitration_rdma_read"}
Reading == {"mp_one_drive_read", "two_targets_read", "three_target_reads"}


\* MpOneDriveAppend!PayloadsInWindow: each numbered payload lands once and no more
\* than the queue depth ahead of its number.
PayloadsInWindow == program = "mp_one_drive_append" => OneDriveAppend!PayloadsInWindow

\* MpOneDriveRead!EveryAddressOnce for the programs that read block after block:
\* every address below ns_ctx->count is used by one read of its context.
EveryAddressOnce == program \in Reading => TwoRead!Counted!EveryAddressOnce

\* ArbitrationWrite!SequentialWritesLand: with one I/O at a time every write is
\* at the zone's write pointer until the zone is full.
SequentialWritesLand == program = "arbitration_write" => Write!SequentialWritesLand

\* VerificationIo!NoFalseAlarm: no verification fails while the device does all
\* it is asked.
NoFalseAlarm == program = "verification" => Verify!NoFalseAlarm

\* VerificationIo!VerificationKeepsUp: every completed append is accounted for, and
\* none waits to be verified while the worker polls.
VerificationKeepsUp == program = "verification" => Verify!VerificationKeepsUp

\* ThreeTargetWrites!AppendsAccounted: the counters of the contexts of a namespace
\* account for the write pointer of its zone.
AppendsAccounted == program = "three_target_writes" => ThreeWrites!AppendsAccounted
=============================================================================
