----------------------------- MODULE ZnsNvmeTest -----------------------------
(***************************************************************************)
(* examples/zns_nvme_test.cc: test_start appends one block to each of two  *)
(* zones, polls, reads the first block of both zones into one buffer when  *)
(* the last append completed, compares, and stops the application.         *)
(* read_zone runs inside the completion callback of the last append, so    *)
(* its polling loop is nested in the one of write_zone.                    *)
(*                                                                         *)
(* External (SPDK): a qpair that is freed inside one of its callbacks      *)
(* lives until spdk_nvme_qpair_process_completions returns; a poll of a    *)
(* freed qpair finds nothing or crashes; spdk_app_stop takes effect when   *)
(* test_start has returned.  A poll that delivers nothing is no step.      *)
(***************************************************************************)
EXTENDS Integers, FiniteSets

CONSTANTS
  Faults,      \* what may fail
  MaxFailures  \* bound on failures

VARIABLES
  pc,          \* "start", "write_loop", "read_loop", "returned", "end", "crashed"
  in_call,     \* process_completions is running and has delivered something
  count,       \* ctx->count
  num_queued,  \* ctx->num_queued
  qpair,       \* ctx->qpair: "open", "closing", "freed"
  appends,     \* zones with an append under way
  reading,     \* zones with a read the device has not executed
  read,        \* zones with an executed read
  disk,        \* device: the first block of each zone
  buff,        \* ctx->read_buff
  wrote,       \* zones whose append succeeded
  checked,     \* comparisons that found both buffers equal
  stopped,     \* arguments of spdk_app_stop
  failures     \* failures so far

vars == <<pc, in_call, count, num_queued, qpair, appends, reading, read, disk, buff,
          wrote, checked, stopped, failures>>

TwoZones == {0, 1}
Loops == {"write_loop", "read_loop"}

\* The zones are as the last program left them: nothing is reset.
Init ==
  /\ pc = "start" /\ in_call = FALSE
  /\ count = 0 /\ num_queued = 0
  /\ qpair = "open"
  /\ appends = {} /\ reading = {} /\ read = {}
  /\ disk \in [TwoZones -> {"empty", "pattern", "other"}]
  /\ buff = "zero"
  /\ wrote = {} /\ checked = 0
  /\ stopped = {} /\ failures = 0

Fails(f) == f \in Faults /\ failures < MaxFailures /\ failures' = failures + 1

\* spdk_nvme_ctrlr_free_io_qpair and spdk_app_stop.
Stop(rc) ==
  /\ qpair' = IF in_call' THEN "closing" ELSE "freed"
  /\ stopped' = stopped \cup {rc}
Keep == UNCHANGED <<qpair, stopped>>

-----------------------------------------------------------------------------
\* test_start: the device, two buffers, then write_zone, which submits an append
\* to each zone or returns at the first one refused.
test_start ==
  /\ pc = "start"
  /\ \/ /\ pc' = "write_loop"
        /\ count' = 2 /\ num_queued' = 2 /\ appends' = TwoZones
        /\ Keep /\ UNCHANGED <<in_call, failures>>
     \/ /\ Fails("submit")
        /\ pc' = "returned" /\ UNCHANGED in_call
        /\ count' = 2
        /\ \E n \in {0, 1} : appends' = 0..(n - 1) /\ num_queued' = n + 1
        /\ Stop(-1)
     \/ /\ Fails("zmalloc")
        /\ pc' = "returned" /\ UNCHANGED in_call
        /\ Stop(-1)
        /\ UNCHANGED <<count, num_queued, appends>>
  /\ UNCHANGED <<reading, read, disk, buff, wrote, checked>>

\* read_zone: a read of the first block of each zone.  num_queued is raised by
\* three for two reads.  It returns at the first one refused.
read_zone(queued) ==
  /\ count' = 0
  /\ buff' = "0x34"
  /\ \/ /\ pc' = "read_loop" /\ in_call' = FALSE
        /\ num_queued' = queued + 3 /\ reading' = TwoZones
        /\ Keep /\ UNCHANGED failures
     \/ /\ Fails("submit")
        /\ in_call' = TRUE
        /\ \E n \in {0, 1} : reading' = 0..(n - 1) /\ num_queued' = queued + n + 2
        /\ Stop(-1) /\ UNCHANGED pc

\* A completion is delivered in a polling loop, by a new call of
\* process_completions or by the one under way.
Delivers == pc \in Loops /\ (in_call \/ (num_queued > 0 /\ qpair = "open"))

\* The device appends behind what the zone holds.
write_zone_complete(z) ==
  /\ Delivers /\ z \in appends
  /\ appends' = appends \ {z}
  /\ \/ /\ disk' = [disk EXCEPT ![z] = IF @ = "empty" THEN "pattern" ELSE @]
        /\ wrote' = wrote \cup {z}
        /\ IF count = 1
           THEN read_zone(num_queued - 1)
           ELSE /\ count' = count - 1 /\ num_queued' = num_queued - 1
                /\ in_call' = TRUE /\ Keep
                /\ UNCHANGED <<pc, reading, buff, failures>>
     \/ /\ Fails("append")
        /\ in_call' = TRUE /\ num_queued' = num_queued - 1
        /\ Stop(-1)
        /\ UNCHANGED <<pc, count, reading, buff, disk, wrote>>
  /\ UNCHANGED <<read, checked>>

\* The device executes a read: the one buffer holds that block.
spdk_nvme_ns_cmd_read(z) ==
  /\ z \in reading /\ qpair # "freed"
  /\ reading' = reading \ {z} /\ read' = read \cup {z}
  /\ buff' = disk[z]
  /\ UNCHANGED <<pc, in_call, count, num_queued, qpair, appends, disk, wrote, checked,
                 stopped, failures>>

\* The comparison, whatever read filled the buffer last.
read_complete(z) ==
  /\ Delivers /\ z \in read
  /\ read' = read \ {z}
  /\ in_call' = TRUE
  /\ \/ /\ buff = "pattern"
        /\ count' = count + 1 /\ num_queued' = num_queued - 1
        /\ checked' = checked + 1
        /\ IF count' = 2 THEN Stop(0) ELSE Keep
        /\ UNCHANGED failures
     \/ /\ buff # "pattern"
        /\ Stop(-1)
        /\ UNCHANGED <<count, num_queued, checked, failures>>
     \/ /\ Fails("read")
        /\ num_queued' = num_queued - 1
        /\ Stop(-1)
        /\ UNCHANGED <<count, checked>>
  /\ UNCHANGED <<pc, appends, reading, disk, buff, wrote>>

\* process_completions returns; a qpair freed inside it is freed now.
PollReturns ==
  /\ pc \in Loops /\ in_call
  /\ in_call' = FALSE
  /\ qpair' = IF qpair = "closing" THEN "freed" ELSE qpair
  /\ UNCHANGED <<pc, count, num_queued, appends, reading, read, disk, buff, wrote,
                 checked, stopped, failures>>

\* while (ctx->num_queued) is over: read_zone returns into the callback, write_zone
\* to test_start.
LoopEnds ==
  /\ pc \in Loops /\ ~in_call /\ num_queued = 0
  /\ IF pc = "read_loop" THEN pc' = "write_loop" /\ in_call' = TRUE
                         ELSE pc' = "returned" /\ in_call' = FALSE
  /\ UNCHANGED <<count, num_queued, qpair, appends, reading, read, disk, buff, wrote,
                 checked, stopped, failures>>

\* spdk_app_start returns and main() frees the buffers.
AppEnds ==
  /\ pc = "returned" /\ stopped # {}
  /\ pc' = "end"
  /\ UNCHANGED <<in_call, count, num_queued, qpair, appends, reading, read, disk, buff,
                 wrote, checked, stopped, failures>>

\* The loop polls a freed qpair.
PollsFreed ==
  /\ pc \in Loops /\ ~in_call /\ num_queued # 0 /\ qpair = "freed"
  /\ pc' = "crashed"
  /\ UNCHANGED <<in_call, count, num_queued, qpair, appends, reading, read, disk, buff,
                 wrote, checked, stopped, failures>>

Step ==
  \/ test_start \/ PollReturns \/ LoopEnds \/ AppEnds
  \/ \E z \in TwoZones :
       write_zone_complete(z) \/ spdk_nvme_ns_cmd_read(z) \/ read_complete(z)

Next == Step \/ PollsFreed
Spec == Init /\ [][Next]_vars

\* The thread runs and the device answers; a poll of freed memory need not crash.
FairSpec == Spec /\ WF_vars(Step)

-----------------------------------------------------------------------------
(* Properties *)

\* The reads start when all appends have completed ("write zone complete").
PhasesInOrder == pc = "read_loop" => appends = {} /\ wrote = TwoZones

\* spdk_app_stop(0) is called only after both appends and both reads succeeded and
\* both comparisons found the pattern; as both reads share read_buff, that is
\* sure for the zone read last only.
PassIsEarned == 0 \in stopped => wrote = TwoZones /\ checked = 2 /\ \E z \in TwoZones : disk[z] = "pattern"


\* Once the qpair was given back no command is submitted on it: a failed append is
\* not counted, so that the reads do not start.  (The loop does poll it again.)
NoCommandAfterRelease ==
  qpair # "open" => appends' \subseteq appends /\ (reading' \cup read') \subseteq (reading \cup read)

\* What the last log message of test_start, "Test start finish", says: the function
\* comes to its end.
TestStartReturns == <>(pc \in {"returned", "end"})
=============================================================================
