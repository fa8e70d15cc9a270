------------------------------- MODULE RwTest -------------------------------
(***************************************************************************)
(* examples/rw_test.cc (zns_bdev_test.cc has the same functions): an SPDK  *)
(* application on one thread that resets the first zones of a device,      *)
(* appends to some of them, reads every block back one after the other,    *)
(* compares, and stops.  test_context->count counts the completions of     *)
(* each of the three phases.  A callback is one step; between callbacks    *)
(* the device completes commands in any order.                             *)
(*                                                                         *)
(* External (the SPDK bdev layer): a submission is accepted, refused for   *)
(* lack of memory ("enomem") or refused ("submit"); a command completes or *)
(* fails ("io"); the wait entry is called back when there is memory again; *)
(* after spdk_app_stop the application ends at some later moment, and      *)
(* completions may still be delivered until then.  Nothing forgets the     *)
(* channel and the descriptor when they are given back: to use them again  *)
(* is undefined, and the model lets it succeed or crash.                   *)
(***************************************************************************)
EXTENDS Integers, Sequences, SequencesExt, FiniteSets

CONSTANTS
  ResetZones,  \* zones that are reset (10)
  Zones,       \* zones that are written and read (4)
  Times,       \* blocks appended to each (0x100)
  MaxFailures, \* bound on failures
  Faults       \* what may fail

\* "enomem", "enomem_read", "submit" and "io" are the faults this program meets.
RwTestConstants ==
  /\ Zones \in Nat \ {0} /\ Times \in Nat \ {0} /\ ResetZones \in Nat /\ Zones <= ResetZones
  /\ MaxFailures \in Nat

VARIABLES
  pc,        \* "start", "run", "end", "corrupt", "crashed"
  count,     \* test_context->count
  resets,    \* resets under way in each zone
  appends,   \* appends under way in each zone
  reading,   \* reads under way, <<zone, block>>: a chain of reads has one
  wp,        \* device: blocks written in each zone since its reset
  checked,   \* blocks read and found equal
  io_wait,   \* function queued in bdev_io_wait: "none", "reset_zone", "read_zone"
  released,  \* times the I/O channel was put and the device closed
  stopped,   \* arguments spdk_app_stop was called with
  retried,   \* reset_zone was called again after "no memory"
  failures   \* failures so far

vars == <<pc, count, resets, appends, reading, wp, checked, io_wait, released,
          stopped, retried, failures>>

AllZones == 0..(ResetZones - 1)
Written == 0..(Zones - 1)
Total == Zones * Times

Init ==
  /\ pc = "start" /\ count = 0
  /\ resets = [z \in AllZones |-> 0]
  /\ appends = [z \in AllZones |-> 0]
  /\ reading = <<>>
  /\ wp = [z \in AllZones |-> 0]
  /\ checked = {}
  /\ io_wait = "none"
  /\ released = 0 /\ stopped = {}
  /\ retried = FALSE /\ failures = 0

Fails(f) == f \in Faults /\ failures < MaxFailures /\ failures' = failures + 1

\* spdk_put_io_channel, spdk_bdev_close and spdk_app_stop, n times.
ReleaseTimes(n, rc) ==
  /\ released' = released + n
  /\ stopped' = IF n = 0 THEN stopped ELSE stopped \cup {rc}
Release(rc) == ReleaseTimes(1, rc)
Keep == ReleaseTimes(0, 0)

\* The channel and the descriptor are used; "again" says after a release.
Use(again) == pc' = "run" \/ (again /\ pc' = "crashed")

\* f with n[z] more in the zones z of n, but one less in zone z.
More(f, n) == [y \in AllZones |-> f[y] + IF y \in DOMAIN n THEN n[y] ELSE 0]
Less(f, z) == [f EXCEPT ![z] = @ - 1]

-----------------------------------------------------------------------------
(* Submitting: the ends of the callbacks below *)

\* reset_zone submits all zones in one loop, which goes on after an error.  "No
\* memory" puts the wait entry into its list, and a second time into the list it is
\* in, which ruins it; each other error releases everything once more.
reset_zone ==
  \E rc \in [AllZones -> {"ok", "enomem", "submit"}] :
    LET in(kind) == {z \in AllZones : rc[z] = kind}
        n == Cardinality(AllZones \ in("ok"))
    IN  /\ \A z \in AllZones \ in("ok") : rc[z] \in Faults
        /\ failures + n <= MaxFailures /\ failures' = failures + n
        /\ count' = ResetZones
        /\ resets' = More(resets, [z \in in("ok") |-> 1])
        /\ io_wait' = IF in("enomem") = {} THEN "none" ELSE "reset_zone"
        /\ IF Cardinality(in("enomem")) > 1
           THEN pc' = "corrupt"
           ELSE Use(released > 0 \/ \E z \in in("submit") : z + 1 \in AllZones)
        /\ ReleaseTimes(Cardinality(in("submit")), -1)

\* write_zone submits all appends in one loop.  Each append that is refused, for
\* whatever reason, releases everything once more, and the loop goes on.
write_zone ==
  \E refused \in [Written -> 0..Times] :
    LET n == MapThenSumSet(LAMBDA z : refused[z], Written)
    IN  /\ n > 0 => Faults \cap {"enomem", "submit"} # {}
        /\ failures + n <= MaxFailures /\ failures' = failures + n
        /\ count' = Total
        /\ appends' = More(appends, [z \in Written |-> Times - refused[z]])
        /\ Use(released > 0 \/ (n > 0 /\ Total > 1))
        /\ ReleaseTimes(n, -1)

\* read_zone submits the first read.
read_zone ==
  /\ count' = 0
  /\ Use(released > 0)
  /\ \/ /\ reading' = Append(reading, <<0, 0>>)
        /\ io_wait' = "none" /\ Keep /\ UNCHANGED failures
     \/ /\ Fails("enomem_read")
        /\ io_wait' = "read_zone" /\ Keep /\ UNCHANGED reading
     \/ /\ Fails("submit")
        /\ io_wait' = "none" /\ Release(-1) /\ UNCHANGED reading

-----------------------------------------------------------------------------
(* Callbacks *)

\* test_start: opens the device, allocates the buffers, then resets.
test_start ==
  /\ pc = "start"
  /\ \/ reset_zone
     \/ /\ Fails("submit")
        /\ pc' = "run" /\ released' \in {0, 1} /\ stopped' = {-1}
        /\ UNCHANGED <<count, resets, io_wait>>
  /\ UNCHANGED <<appends, reading, wp, checked, retried>>

\* There is memory again: the queued function is called.
IoWait ==
  /\ pc = "run" /\ io_wait # "none"
  /\ \/ io_wait = "reset_zone" /\ reset_zone /\ retried' = TRUE /\ UNCHANGED reading
     \/ io_wait = "read_zone" /\ read_zone /\ UNCHANGED <<resets, retried>>
  /\ UNCHANGED <<appends, wp, checked>>

\* A completion that is neither the last of its phase nor an error.
Counted == count' = count - 1 /\ Keep /\ UNCHANGED <<pc, failures>>

\* A command failed: everything is released, and nothing is counted.
Failed == Fails("io") /\ Release(-1) /\ Use(released > 0) /\ UNCHANGED count

\* Fault: the appends start when one reset is still to complete.
reset_zone_complete_early(z) ==
  /\ pc = "run" /\ resets[z] > 0
  /\ resets' = Less(resets, z)
  /\ wp' = [wp EXCEPT ![z] = 0]
  /\ IF count = 2 THEN write_zone ELSE Counted /\ UNCHANGED appends
  /\ UNCHANGED <<reading, checked, io_wait, retried>>

\* reset_zone_complete.
reset_zone_complete(z) ==
  /\ pc = "run" /\ resets[z] > 0
  /\ resets' = Less(resets, z)
  /\ \/ /\ wp' = [wp EXCEPT ![z] = 0]
        /\ IF count = 1 THEN write_zone ELSE Counted /\ UNCHANGED appends
     \/ Failed /\ UNCHANGED <<wp, appends>>
  /\ UNCHANGED <<reading, checked, io_wait, retried>>

\* Fault: a failed append counts as a completed one.
write_zone_complete_counts(z) ==
  /\ pc = "run" /\ appends[z] > 0
  /\ appends' = Less(appends, z)
  /\ \/ /\ wp' = [wp EXCEPT ![z] = @ + 1]
        /\ IF count = 1 THEN read_zone ELSE Counted /\ UNCHANGED <<reading, io_wait>>
     \/ /\ Fails("io") /\ Release(-1) /\ Use(released > 0)
        /\ count' = count - 1
        /\ UNCHANGED <<wp, reading, io_wait>>
  /\ UNCHANGED <<resets, checked, retried>>

\* Fault: a failed append does not stop the application.
write_zone_complete_silent(z) ==
  /\ pc = "run" /\ appends[z] > 0
  /\ appends' = Less(appends, z)
  /\ \/ /\ wp' = [wp EXCEPT ![z] = @ + 1]
        /\ IF count = 1 THEN read_zone ELSE Counted /\ UNCHANGED <<reading, io_wait>>
     \/ Fails("io") /\ Keep /\ UNCHANGED <<pc, count, wp, reading, io_wait>>
  /\ UNCHANGED <<resets, checked, retried>>

\* write_zone_complete.
write_zone_complete(z) ==
  /\ pc = "run" /\ appends[z] > 0
  /\ appends' = Less(appends, z)
  /\ \/ /\ wp' = [wp EXCEPT ![z] = @ + 1]
        /\ IF count = 1 THEN read_zone ELSE Counted /\ UNCHANGED <<reading, io_wait>>
     \/ Failed /\ UNCHANGED <<wp, reading, io_wait>>
  /\ UNCHANGED <<resets, checked, retried>>

\* Fault: the zone is left out of the address.
lba_first_zone(n) == <<0, n % Times>>

\* The block read when the count is n.
lba(n) == <<n \div Times, n % Times>>

\* What read_zone_complete does after the comparison in read i.  The address of
\* a negative count is out of range and refused.
ReadNext(i) ==
  LET others == RemoveAt(reading, i) IN
  IF count + 1 = Total
  THEN Release(0) /\ reading' = others /\ UNCHANGED failures
  ELSE \/ /\ count + 1 >= 0
          /\ reading' = Append(others, lba(count + 1)) /\ Keep /\ UNCHANGED failures
       \/ Fails("submit") /\ reading' = others /\ Release(-1)
       \/ /\ count + 1 < 0
          /\ reading' = others /\ Release(-1) /\ UNCHANGED failures

\* Whether memcmp finds block b equal: it was appended after the last reset.
Equal(b) == b[1] \in Written /\ b[2] < wp[b[1]]

\* read_zone_complete.  The buffer is overwritten by any other chain of reads.
read_zone_complete(i) ==
  /\ pc = "run"
  /\ \/ /\ Equal(reading[i])
        /\ checked' = checked \cup {reading[i]}
        /\ count' = count + 1
        /\ Use(released > 0)
        /\ ReadNext(i)
     \/ /\ ~Equal(reading[i]) \/ Len(reading) > 1
        /\ Release(-1) /\ Use(released > 0)
        /\ reading' = RemoveAt(reading, i)
        /\ UNCHANGED <<checked, count, failures>>
     \/ Failed /\ reading' = RemoveAt(reading, i) /\ UNCHANGED checked
  /\ UNCHANGED <<resets, appends, wp, io_wait, retried>>

\* spdk_app_start returns; main() frees the buffers.
AppEnds ==
  /\ pc = "run" /\ stopped # {}
  /\ pc' = "end"
  /\ UNCHANGED <<count, resets, appends, reading, wp, checked, io_wait,
                 released, stopped, retried, failures>>

Callback ==
  \/ test_start \/ IoWait
  \/ \E z \in AllZones : reset_zone_complete(z) \/ write_zone_complete(z)
  \/ \E i \in DOMAIN reading : read_zone_complete(i)

Next == Callback \/ AppEnds
Spec == Init /\ [][Next]_vars

-----------------------------------------------------------------------------
(* examples/zns_bdev_test.cc: the same callbacks on another device, with    *)
(* more logging.                                                            *)

test_start_bdev == test_start
reset_zone_complete_bdev(z) == reset_zone_complete(z)
write_zone_complete_bdev(z) == write_zone_complete(z)
read_zone_complete_bdev(i) == read_zone_complete(i)
IoWait_bdev == IoWait
AppEnds_bdev == AppEnds

BdevCallback ==
  \/ test_start_bdev \/ IoWait_bdev
  \/ \E z \in AllZones : reset_zone_complete_bdev(z) \/ write_zone_complete_bdev(z)
  \/ \E i \in DOMAIN reading : read_zone_complete_bdev(i)

BdevNext == BdevCallback \/ AppEnds_bdev
BdevSpec == Init /\ [][BdevNext]_vars

-----------------------------------------------------------------------------
(* Properties *)

Blocks == Written \X (0..(Times - 1))

\* "zone reset complete, start writing" and "zone write complete, start reading":
\* unless reset_zone was retried, an append is only under way when no reset is,
\* a read when neither is.
PhasesInOrder ==
  ~retried =>
    /\ (\E z \in AllZones : appends[z] > 0) => \A z \in AllZones : resets[z] = 0
    /\ reading # <<>> => \A z \in AllZones : appends[z] = 0 /\ resets[z] = 0

\* Unless reset_zone was retried the test passes only if every appended block was
\* read back and was equal.
PassIsEarned == 0 \in stopped /\ ~retried => checked = Blocks


\* A step that submits a command: a loop counts by what it leaves under way.
Submits ==
  \/ \E z \in AllZones : resets'[z] > resets[z] \/ appends'[z] > appends[z]
  \/ \E i \in DOMAIN reading' : reading'[i] \notin Range(reading)

\* Once a callback released the channel, no later callback submits a command on it:
\* a command that failed or was refused is never counted, so that the count that
\* starts the next phase is not reached.  Unless reset_zone was retried; and the
\* loop in which a submission is refused does go on.
NoCommandAfterRelease == released > 0 /\ ~retried' => ~Submits

Undefined == retried \/ pc \in {"corrupt", "crashed"}

\* What "read test complete, end the test" says, without exception: when the
\* application is stopped with 0 every block was checked.
CompleteMeansComplete == 0 \in stopped => checked = Blocks
=============================================================================
