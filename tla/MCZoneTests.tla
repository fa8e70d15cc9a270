----------------------------- MODULE MCZoneTests -----------------------------
(***************************************************************************)
(* The small programs that exercise zones once: rw_test.cc,                *)
(* zns_bdev_test.cc, zns_nvme_test.cc, hello-world.cc,                     *)
(* remote-hello-world.cc and zoned.c.  A behaviour is one run of one of    *)
(* them.  A variable a program does not use is "unused"; variables of the  *)
(* same name serve several programs.                                       *)
(***************************************************************************)
EXTENDS Integers

CONSTANTS ResetZones, Zones, Times, MaxFailures, Faults, NumNs, Zoned, Nsids

VARIABLE program

\* rw_test.cc and zns_bdev_test.cc; zns_nvme_test.cc shares some of them.
VARIABLES pc, count, resets, appends, reading, wp, checked, io_wait, released, stopped,
          retried, failures

\* zns_nvme_test.cc; hello-world.cc shares some of them.
VARIABLES in_call, num_queued, qpair, read, disk, buff, wrote

\* hello-world.cc and remote-hello-world.cc.
VARIABLES rc, ns, buf, cmd, is_completed, printed

\* zoned.c.
VARIABLES cli, rest, bufs, served, saved, err

Rw == INSTANCE RwTest
Nvme == INSTANCE ZnsNvmeTest
Hello == INSTANCE HelloWorld
Tool == INSTANCE ZonedTool

ASSUME Rw!RwTestConstants

OnlyRw == <<resets, wp, io_wait, released, retried>>
OnlyNvme == <<in_call, num_queued, read, buff, wrote>>
OnlyTests == <<count, appends, reading, checked, stopped, failures>>
OnlyHello == <<rc, ns, buf, cmd, is_completed, printed>>
OnlyTool == <<cli, rest, bufs, served, saved, err>>
Device == <<qpair, disk>>

vars == <<program, pc, OnlyRw, OnlyNvme, OnlyTests, OnlyHello, OnlyTool, Device>>

NoRw == resets = "unused" /\ wp = "unused" /\ io_wait = "unused" /\ released = "unused" /\ retried = "unused"
NoNvme == in_call = "unused" /\ num_queued = "unused" /\ read = "unused" /\ buff = "unused" /\ wrote = "unused"
NoTests ==
  /\ count = "unused" /\ appends = "unused" /\ reading = "unused"
  /\ checked = "unused" /\ stopped = "unused" /\ failures = "unused"
NoHello ==
  /\ rc = "unused" /\ ns = "unused" /\ buf = "unused"
  /\ cmd = "unused" /\ is_completed = "unused" /\ printed = "unused"
NoTool ==
  /\ cli = "unused" /\ rest = "unused" /\ bufs = "unused"
  /\ served = "unused" /\ saved = "unused" /\ err = "unused"
NoDevice == qpair = "unused" /\ disk = "unused"

IsTest == program \in {"rw_test", "zns_bdev_test"}
IsHello == program \in {"hello_world", "remote_hello_world"}

Init ==
  \/ program = "rw_test" /\ Rw!Init /\ NoNvme /\ NoHello /\ NoTool /\ NoDevice
  \/ program = "zns_bdev_test" /\ Rw!Init /\ NoNvme /\ NoHello /\ NoTool /\ NoDevice
  \/ program = "zns_nvme_test" /\ Nvme!Init /\ NoRw /\ NoHello /\ NoTool
  \/ program = "hello_world" /\ Hello!Init /\ NoRw /\ NoNvme /\ NoTests /\ NoTool
  \/ program = "remote_hello_world" /\ Hello!Init /\ NoRw /\ NoNvme /\ NoTests /\ NoTool
  \/ /\ program = "zoned" /\ Tool!Init
     /\ NoRw /\ NoNvme /\ NoTests /\ NoHello /\ NoDevice /\ pc = "unused"

NotTest == UNCHANGED <<program, OnlyNvme, OnlyHello, OnlyTool, Device>>
NotNvme == UNCHANGED <<program, OnlyRw, OnlyHello, OnlyTool>>
NotHello == UNCHANGED <<program, OnlyRw, OnlyNvme, OnlyTests, OnlyTool>>
NotTool == UNCHANGED <<program, pc, OnlyRw, OnlyNvme, OnlyTests, OnlyHello, Device>>

RwStep == program = "rw_test" /\ Rw!Next /\ NotTest
BdevStep == program = "zns_bdev_test" /\ Rw!BdevNext /\ NotTest
NvmeStep == program = "zns_nvme_test" /\ Nvme!Step /\ NotNvme
HelloStep == program = "hello_world" /\ Hello!Next /\ NotHello
RemoteStep == program = "remote_hello_world" /\ Hello!RemoteNext /\ NotHello
ToolStep == program = "zoned" /\ Tool!Next /\ NotTool

\* A poll of the freed qpair may crash.
Environment == program = "zns_nvme_test" /\ Nvme!PollsFreed /\ NotNvme

Next == RwStep \/ BdevStep \/ NvmeStep \/ HelloStep \/ RemoteStep \/ ToolStep \/ Environment

\* Each program is one thread that runs, the device answers what it is sent, and an
\* application that was told to stop ends when it has nothing more to deliver.
Fairness ==
  /\ WF_vars(RwStep) /\ WF_vars(BdevStep) /\ WF_vars(NvmeStep)
  /\ WF_vars(HelloStep) /\ WF_vars(RemoteStep) /\ WF_vars(ToolStep)

FairSpec == Init /\ [][Next]_vars /\ Fairness

-----------------------------------------------------------------------------
(* Properties *)

\* "zone reset complete, start writing" and "zone write complete, start reading":
\* the completion counter of the tests never lets a phase start before the last
\* command of the phase before it completed, unless reset_zone was retried.
PhasesInOrder ==
  /\ IsTest => Rw!PhasesInOrder
  /\ program = "zns_nvme_test" => Nvme!PhasesInOrder

\* A program that reports success did what it reports: every block appended was read
\* back and compared (in zns_nvme_test.cc up to the buffer its reads share), every
\* namespace printed what was written, the command succeeded on the namespace asked
\* for (no claim for a read with an identifier of more than a byte).  No claim when
\* reset_zone was retried.
PassIsEarned ==
  /\ IsTest => Rw!PassIsEarned
  /\ program = "zns_nvme_test" => Nvme!PassIsEarned
  /\ IsHello => Hello!PassIsEarned
  /\ program = "zoned" => Tool!PassIsEarned


\* The error paths of the tests do not forget the channel or the qpair they gave back
\* while other commands are under way; still no later callback submits on it, as no
\* failed command is counted towards the next phase.  Unless reset_zone was retried.
NoCommandAfterRelease ==
  [][/\ IsTest => Rw!NoCommandAfterRelease
     /\ program = "zns_nvme_test" => Nvme!NoCommandAfterRelease]_vars

\* Where the behaviour of the program is not defined any more: reset_zone retried with
\* its first resets under way, or used what was released; the connection that
\* remote-hello-world.cc does not check.
Undefined ==
  \/ IsTest /\ Rw!Undefined
  \/ program = "remote_hello_world" /\ pc = "crashed"

Ended ==
  CASE IsTest -> pc = "end"
    [] IsHello -> Hello!Decided
    [] program = "zoned" -> Tool!Decided
    [] OTHER -> TRUE

\* Whatever fails, a program ends: the application of rw_test.cc and zns_bdev_test.cc
\* is stopped and returns, hello-world.cc returns or exits, zoned.c returns.  A failed
\* callback that neither stopped the application nor submitted the next command
\* would leave it polling for ever.  No claim is made for zns_nvme_test.cc, which does
\* poll for ever (TestStartReturns), nor once the behaviour is undefined.
EndsIfDefined == <>(Ended \/ Undefined)
=============================================================================
