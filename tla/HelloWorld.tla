----------------------------- MODULE HelloWorld -----------------------------
(***************************************************************************)
(* examples/hello-world.cc: for each namespace in turn, main() allocates a *)
(* qpair and a buffer (in the controller's memory if it has enough), resets*)
(* the first zone if the namespace is zoned, writes "Hello world!" to LBA  *)
(* 0, reads it back in the completion of the write, prints it and frees    *)
(* the qpair.  One flag, sequence.is_completed, ends both polling loops.   *)
(*                                                                         *)
(* External (SPDK): a submission may be refused, a command may fail, a     *)
(* zoned namespace takes a write at LBA 0 only if zone 0 is empty, and a   *)
(* read into a NULL buffer fails.                                          *)
(***************************************************************************)
EXTENDS Integers

CONSTANTS
  NumNs,   \* namespaces attach_cb registers
  Zoned,   \* those with SPDK_NVME_CSI_ZNS
  Faults   \* what may fail

VARIABLES
  pc,            \* where main() is; "exit" after exit(1)
  rc,            \* what main() returns
  ns,            \* the namespace of the turn
  qpair,         \* ns_entry->qpair: "none", "open", "freed"
  buf,           \* sequence.buf: "none", "cmb", "host"
  cmd,           \* the command the device holds: "none", "reset", "write", "read"
  is_completed,  \* sequence.is_completed
  disk,          \* device: LBA 0 of each namespace
  printed        \* what was printed for each namespace

vars == <<pc, rc, ns, qpair, buf, cmd, is_completed, disk, printed>>

Namespaces == 1..NumNs

Init ==
  /\ pc = "main" /\ rc = 0 /\ ns = 1
  /\ qpair = [n \in Namespaces |-> "none"]
  /\ buf = "none" /\ cmd = "none" /\ is_completed = 0
  /\ disk \in [Namespaces -> {"empty", "other"}]
  /\ printed = [n \in Namespaces |-> "nothing"]

Goto(to) == pc' = to /\ UNCHANGED <<rc, ns, qpair, buf, cmd, is_completed, disk, printed>>

-----------------------------------------------------------------------------
\* parse_args and spdk_env_init.
main ==
  /\ pc = "main"
  /\ \/ Goto("probe")
     \/ /\ "env" \in Faults
        /\ pc' = "returned" /\ rc' = 1
        /\ UNCHANGED <<ns, qpair, buf, cmd, is_completed, disk, printed>>

\* spdk_nvme_probe calls attach_cb, which registers the namespaces.  No controller
\* is an error like a failed probe.
attach_cb ==
  /\ pc = "probe"
  /\ \/ Goto("hello_world")
     \/ "malloc" \in Faults /\ Goto("exit")
     \/ /\ "probe" \in Faults
        /\ pc' = "cleanup" /\ rc' = 1
        /\ UNCHANGED <<ns, qpair, buf, cmd, is_completed, disk, printed>>

\* The turn of a namespace, up to its first command: without a qpair or a buffer
\* hello_world returns at once.
hello_world ==
  /\ pc = "hello_world"
  /\ \/ ns > NumNs /\ Goto("cleanup")
     \/ ns \in Namespaces /\ "qpair" \in Faults /\ Goto("cleanup")
     \/ /\ ns \in Namespaces
        /\ qpair' = [qpair EXCEPT ![ns] = "open"]
        /\ \/ /\ buf' \in {"cmb", "host"}
              /\ is_completed' = 0
              /\ pc' = IF ns \in Zoned THEN "reset" ELSE "write"
           \/ /\ "zmalloc" \in Faults
              /\ pc' = "cleanup"
              /\ UNCHANGED <<buf, is_completed>>
        /\ UNCHANGED <<rc, ns, cmd, disk, printed>>

\* A command is handed to the device and its loop is entered, or exit(1).
Submit(c, loop) ==
  \/ /\ cmd' = c /\ pc' = loop
     /\ UNCHANGED <<rc, ns, qpair, buf, is_completed, disk, printed>>
  \/ "submit" \in Faults /\ Goto("exit")


reset_zone_and_wait_for_completion ==
  \/ pc = "reset" /\ Submit("reset", "reset_loop")
  \/ /\ pc = "reset_loop" /\ is_completed # 0
     /\ pc' = "write" /\ is_completed' = 0
     /\ UNCHANGED <<rc, ns, qpair, buf, cmd, disk, printed>>

reset_zone_complete ==
  /\ pc = "reset_loop" /\ cmd = "reset"
  /\ \/ /\ disk' = [disk EXCEPT ![ns] = "empty"]
        /\ is_completed' = 1 /\ cmd' = "none"
        /\ UNCHANGED <<pc, rc, ns, qpair, buf, printed>>
     \/ "io" \in Faults /\ Goto("exit")

cmd_write == pc = "write" /\ Submit("write", "loop")

\* The buffer is given back, a new one allocated (unchecked) and the read started.
write_complete ==
  /\ pc = "loop" /\ cmd = "write"
  /\ \/ /\ ns \in Zoned => disk[ns] = "empty"
        /\ disk' = [disk EXCEPT ![ns] = "hello"]
        /\ cmd' = "read" /\ buf' = "host"
        /\ UNCHANGED <<pc, rc, ns, qpair, is_completed, printed>>
     \/ /\ (ns \in Zoned /\ disk[ns] # "empty") \/ Faults \cap {"io", "submit", "zmalloc"} # {}
        /\ Goto("exit")

read_complete ==
  /\ pc = "loop" /\ cmd = "read"
  /\ \/ /\ printed' = [printed EXCEPT ![ns] = disk[ns]]
        /\ is_completed' = 1 /\ cmd' = "none" /\ buf' = "none"
        /\ UNCHANGED <<pc, rc, ns, qpair, disk>>
     \/ "io" \in Faults /\ Goto("exit")

\* The polling loop is over: the qpair is freed.
free_io_qpair ==
  /\ pc = "loop" /\ is_completed # 0
  /\ qpair' = [qpair EXCEPT ![ns] = "freed"]
  /\ ns' = ns + 1 /\ pc' = "hello_world"
  /\ UNCHANGED <<rc, buf, cmd, is_completed, disk, printed>>

cleanup == pc = "cleanup" /\ Goto("returned")

Next ==
  \/ main \/ attach_cb \/ hello_world
  \/ reset_zone_and_wait_for_completion \/ reset_zone_complete
  \/ cmd_write \/ write_complete \/ read_complete \/ free_io_qpair \/ cleanup

Spec == Init /\ [][Next]_vars

-----------------------------------------------------------------------------
(* examples/remote-hello-world.cc: the functions of hello-world.cc with one *)
(* controller that main() connects to over TCP.  What spdk_nvme_connect     *)
(* returns is not checked: without a connection main() reads through a NULL *)
(* pointer.                                                                 *)

main_remote == main

\* spdk_nvme_connect, malloc, spdk_nvme_ctrlr_get_data, then the namespaces.
spdk_nvme_connect ==
  /\ pc = "probe"
  /\ \/ Goto("hello_world")
     \/ "malloc" \in Faults /\ Goto("exit")
     \/ "connect" \in Faults /\ Goto("crashed")

hello_world_remote == hello_world
reset_zone_and_wait_for_completion_remote == reset_zone_and_wait_for_completion
reset_zone_complete_remote == reset_zone_complete
cmd_write_remote == cmd_write
write_complete_remote == write_complete
read_complete_remote == read_complete
free_io_qpair_remote == free_io_qpair
cleanup_remote == cleanup

RemoteNext ==
  \/ main_remote \/ spdk_nvme_connect \/ hello_world_remote
  \/ reset_zone_and_wait_for_completion_remote \/ reset_zone_complete_remote
  \/ cmd_write_remote \/ write_complete_remote \/ read_complete_remote
  \/ free_io_qpair_remote \/ cleanup_remote

RemoteSpec == Init /\ [][RemoteNext]_vars

-----------------------------------------------------------------------------
(* Properties *)


\* Each namespace the program is done with printed what was written to it, from a
\* buffer of its own; when main() returns 0 early, the others printed nothing.
PassIsEarned ==
  \A n \in Namespaces :
    IF n < ns THEN printed[n] = "hello" ELSE pc = "returned" => printed[n] = "nothing"

Decided == pc \in {"returned", "exit"}
=============================================================================
