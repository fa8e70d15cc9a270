---------------------------- MODULE VerificationIo ----------------------------
(***************************************************************************)
(* The I/O of examples/multipath/verification.cc: a closed loop of zone    *)
(* appends in which each completed append is followed by a read of the LBA *)
(* the device reported, whose contents are compared with what was          *)
(* appended.  The program builds one context (count = 1), so one worker    *)
(* does all the I/O.  Verification adds what main() does around it.        *)
(*                                                                         *)
(* A pattern is its number (ns_ctx->count when it was made).  An I/O is a  *)
(* record: a write carries the pattern, a read the LBA and the expected    *)
(* pattern.  The device (zone, and the fields st, lba, got of an I/O)      *)
(* executes what it holds in any order; the program ignores every status.  *)
(* dropped, dev_errors are history variables.                              *)
(***************************************************************************)
EXTENDS Integers, Sequences, FiniteSets

CONSTANTS
  QueueDepth,  \* g_arbitration.queue_depth
  PoolFactor,  \* max(num_namespaces, num_workers)
  Faults,      \* what may go wrong
  MaxWrites,   \* bound: patterns made before the time is over
  ZoneCap,     \* blocks of zone 0
  WpAtStart    \* blocks written before the program starts

FaultKinds ==
  {"calloc", "no_namespace", "mempool", "qpair", "zmalloc", "submit", "raw_queue",
   "read_error"}

VerificationConstants ==
  /\ QueueDepth \in Nat \ {0}
  /\ PoolFactor \in Nat \ {0}
  /\ Faults \subseteq FaultKinds
  /\ MaxWrites \in Nat
  /\ ZoneCap \in Nat /\ WpAtStart \in 0..ZoneCap

VARIABLES
  main,           \* where the program is
  todo,           \* submit_io: queue_depth still to be submitted
  expired,        \* spdk_get_ticks() > tsc_end
  draining,       \* ns_ctx->is_draining
  depth,          \* ns_ctx->current_queue_depth
  count,          \* ns_ctx->count
  pending_reads,  \* ns_ctx->pending_reads
  writes,         \* ns_ctx->write_completed
  reads,          \* ns_ctx->read_completed
  passed,         \* ns_ctx->verification_passed
  failed,         \* ns_ctx->verification_failed
  pool,           \* spdk_mempool_count(task_pool)
  inflight,       \* commands the device holds
  zone,           \* device: the pattern in each block of the zone
  dropped,        \* verification reads that were refused
  dev_errors      \* appends and reads the device failed

ctxVars == <<draining, depth, count, pending_reads, writes, reads, passed, failed>>
ioVars == <<pool, inflight, dropped>>
programVars == <<main, todo, expired, ctxVars, ioVars, zone, dev_errors>>

OldData == -1   \* a block written before the program started
NoData == -2    \* the zeroed buffer of a failed read

task_count == PoolFactor * QueueDepth

ProgramInit ==
  /\ main = "register_workers"
  /\ todo = 0
  /\ expired = FALSE
  /\ draining = FALSE
  /\ depth = 0 /\ count = 0
  /\ pending_reads = <<>>
  /\ writes = 0 /\ reads = 0 /\ passed = 0 /\ failed = 0
  /\ pool = 0
  /\ inflight = {}
  /\ zone = [i \in 1..WpAtStart |-> OldData]
  /\ dropped = 0
  /\ dev_errors = 0

-----------------------------------------------------------------------------
(* main *)

Stop(to) == main' = to /\ UNCHANGED <<todo, expired, ctxVars, ioVars, zone, dev_errors>>

\* A failure of the setup goes through cleanup(), which counts the pool while it
\* is still NULL.
register_workers ==
  /\ main = "register_workers"
  /\ Stop("register_controllers") \/ ("calloc" \in Faults /\ Stop("crashed"))

register_controllers ==
  /\ main = "register_controllers"
  /\ Stop("associate") \/ ("no_namespace" \in Faults /\ Stop("crashed"))

associate_workers_with_ns ==
  /\ main = "associate"
  /\ Stop("create_pool") \/ ("calloc" \in Faults /\ Stop("crashed"))

create_pool ==
  /\ main = "create_pool"
  /\ \/ /\ main' = "init"
        /\ pool' = task_count
        /\ UNCHANGED <<todo, expired, ctxVars, inflight, zone, dropped, dev_errors>>
     \/ "mempool" \in Faults /\ Stop("crashed")

\* init_ns_worker_ctx: the qpair and the counters.
init_ns_worker_ctx ==
  /\ main = "init"
  /\ \/ /\ main' = "submit"
        /\ todo' = QueueDepth
        /\ UNCHANGED <<expired, ctxVars, ioVars, zone, dev_errors>>
     \/ "qpair" \in Faults /\ Stop("print_stats")

\* print_stats, then cleanup() compares the pool with task_count.
zstore_cleanup ==
  /\ main = "print_stats"
  /\ Stop(IF pool = task_count THEN "end" ELSE "end_mismatch")

-----------------------------------------------------------------------------
(* submit_single_io: the driver takes or refuses the command; a refused     *)
(* command gives its task back and is not tried again.                      *)

Command(kind, data, lba) ==
  [kind |-> kind, data |-> data, lba |-> lba, st |-> "sent", got |-> NoData]

Give(io) ==
  /\ inflight' = inflight \cup {io}
  /\ depth' = depth + 1
  /\ pool' = pool - 1

Refused == "submit" \in Faults /\ UNCHANGED <<inflight, depth, pool>>

\* A write: the pattern is made, and used up even if the driver refuses it.
SubmitWrite ==
  /\ count' = count + 1
  /\ Give(Command("write", count, 0)) \/ Refused
  /\ UNCHANGED <<pending_reads, dropped>>

\* A verification read of the oldest completed write.
SubmitRead ==
  LET r == Head(pending_reads) IN
  /\ pending_reads' = Tail(pending_reads)
  /\ \/ Give(Command("read", r.data, r.lba)) /\ UNCHANGED dropped
     \/ Refused /\ dropped' = dropped + 1
  /\ UNCHANGED count

\* The initial submissions; exit(1) without a task or without a buffer.
submit_io ==
  /\ main = "submit"
  /\ todo > 0
  /\ \/ /\ pool > 0
        /\ SubmitWrite
        /\ todo' = todo - 1
        /\ UNCHANGED <<main, expired, draining, writes, reads, passed, failed,
                       zone, dev_errors>>
     \/ (pool = 0 \/ "zmalloc" \in Faults) /\ Stop("exit")

\* Fault: the completed command still counts in the test of the depth.
Replace_off_by_one ==
  /\ main = "replace"
  /\ main' = "poll"
  /\ IF pending_reads # <<>> /\ depth + 1 < QueueDepth THEN SubmitRead ELSE SubmitWrite
  /\ UNCHANGED <<todo, expired, draining, writes, reads, passed, failed, zone, dev_errors>>

\* The replacement task_complete submits, as its last step.  pending_reads is a
\* queue, and the test of current_queue_depth is made after the decrement.
Replace ==
  /\ main = "replace"
  /\ \/ /\ pool > 0
        /\ main' = "poll"
        /\ IF pending_reads # <<>> /\ depth < QueueDepth THEN SubmitRead ELSE SubmitWrite
        /\ UNCHANGED <<todo, expired, draining, writes, reads, passed, failed,
                       zone, dev_errors>>
     \/ (pool = 0 \/ "zmalloc" \in Faults) /\ Stop("exit")

-----------------------------------------------------------------------------
(* work_fn *)

StartPoll == main = "submit" /\ todo = 0 /\ Stop("poll")

\* Fault: the expected pattern is that of the newest write.
io_complete_newest(io) ==
  /\ io \in inflight
  /\ io.st = "done"
  /\ main \in {"poll", "drain"}
  /\ inflight' = inflight \ {io}
  /\ pool' = pool + 1
  /\ depth' = depth - 1
  /\ IF io.kind = "read"
     THEN /\ reads' = reads + 1
          /\ passed' = IF io.got = io.data THEN passed + 1 ELSE passed
          /\ failed' = IF io.got = io.data THEN failed ELSE failed + 1
          /\ UNCHANGED <<writes, pending_reads>>
     ELSE /\ writes' = writes + 1
          /\ pending_reads' = Append(pending_reads, [lba |-> io.lba, data |-> count - 1])
          /\ UNCHANGED <<reads, passed, failed>>
  /\ main' = IF draining THEN main ELSE "replace"
  /\ UNCHANGED <<todo, expired, draining, count, zone, dropped, dev_errors>>

\* io_complete (which takes cdw0 as the LBA of a write) and task_complete: the
\* comparison of a read, or the push of a completed write.  pending_reads lives
\* in memory from malloc and memset, so the push may go through NULL.
io_complete(io) ==
  /\ io \in inflight
  /\ io.st = "done"
  /\ main \in {"poll", "drain"}
  /\ \/ /\ io.kind = "write" /\ "raw_queue" \in Faults
        /\ Stop("segfault")
     \/ /\ inflight' = inflight \ {io}
        /\ pool' = pool + 1
        /\ depth' = depth - 1
        /\ IF io.kind = "read"
           THEN /\ reads' = reads + 1
                /\ passed' = IF io.got = io.data THEN passed + 1 ELSE passed
                /\ failed' = IF io.got = io.data THEN failed ELSE failed + 1
                /\ UNCHANGED <<writes, pending_reads>>
           ELSE /\ writes' = writes + 1
                /\ pending_reads' = Append(pending_reads, [lba |-> io.lba, data |-> io.data])
                /\ UNCHANGED <<reads, passed, failed>>
        /\ main' = IF draining THEN main ELSE "replace"
        /\ UNCHANGED <<todo, expired, draining, count, zone, dropped, dev_errors>>

\* The time is over: drain_io sets is_draining.
drain_io ==
  /\ main = "poll"
  /\ expired
  /\ main' = "drain"
  /\ draining' = TRUE
  /\ UNCHANGED <<todo, expired, depth, count, pending_reads, writes, reads,
                 passed, failed, ioVars, zone, dev_errors>>

\* drain_io's loop is over; the qpair is freed and main() joins the worker.
cleanup_ns_worker_ctx == main = "drain" /\ depth = 0 /\ Stop("print_stats")

Clock ==
  /\ main \in {"submit", "poll", "replace"}
  /\ ~expired
  /\ expired' = TRUE
  /\ UNCHANGED <<main, todo, ctxVars, ioVars, zone, dev_errors>>

-----------------------------------------------------------------------------
(* The device *)

Executed(io, lba, got) ==
  inflight' = (inflight \ {io}) \cup
              {[io EXCEPT !.st = "done", !.lba = lba, !.got = got]}

\* An append takes the next block and reports it; a full zone fails it and
\* leaves cdw0 = 0.
ExecuteAppend(io) ==
  /\ io.kind = "write" /\ io.st = "sent"
  /\ IF Len(zone) < ZoneCap
     THEN zone' = Append(zone, io.data) /\ Executed(io, Len(zone), NoData)
          /\ UNCHANGED dev_errors
     ELSE Executed(io, 0, NoData) /\ dev_errors' = dev_errors + 1 /\ UNCHANGED zone
  /\ UNCHANGED <<main, todo, expired, ctxVars, pool, dropped>>

ExecuteRead(io) ==
  /\ io.kind = "read" /\ io.st = "sent"
  /\ \/ /\ io.lba < Len(zone)
        /\ Executed(io, io.lba, zone[io.lba + 1])
        /\ UNCHANGED dev_errors
     \/ /\ "read_error" \in Faults \/ io.lba >= Len(zone)
        /\ Executed(io, io.lba, NoData)
        /\ dev_errors' = dev_errors + 1
  /\ UNCHANGED <<main, todo, expired, ctxVars, pool, dropped, zone>>

-----------------------------------------------------------------------------
Program ==
  \/ register_workers \/ register_controllers \/ associate_workers_with_ns
  \/ create_pool \/ init_ns_worker_ctx \/ submit_io \/ StartPoll \/ Replace
  \/ \E io \in inflight : (draining \/ count < MaxWrites) /\ io_complete(io)
  \/ drain_io \/ cleanup_ns_worker_ctx \/ zstore_cleanup

Device == \E io \in inflight : ExecuteAppend(io) \/ ExecuteRead(io)

ProgramNext == Program \/ Device \/ Clock

ProgramSpec == ProgramInit /\ [][ProgramNext]_programVars

-----------------------------------------------------------------------------
Reading == {io \in inflight : io.kind = "read"}

\* "Data verification FAILED" is never printed while the device did all it was
\* asked: the LBA and the pattern that are compared belong together, in
\* whatever order appends and reads are executed and completed.
NoFalseAlarm == failed > 0 => dev_errors > 0

\* Verification keeps up and forgets nothing: a completed append is waiting to be
\* verified, being verified, verified, or its read was refused; task_complete's
\* test of current_queue_depth never holds a read back, so pending_reads is empty
\* whenever the worker polls, and a drain leaves at most queue_depth appends
\* unverified.
VerificationKeepsUp ==
  /\ writes = Len(pending_reads) + Cardinality(Reading) + reads + dropped
  /\ reads = passed + failed
  /\ main = "poll" => pending_reads = <<>>
  /\ Len(pending_reads) <= QueueDepth
=============================================================================
