------------------------------ MODULE ZonedTool ------------------------------
(***************************************************************************)
(* examples/zoned.c: a command line tool over xNVMe.  Each subcommand is a *)
(* function that checks the device, allocates and fills buffers, sends one *)
(* command, writes the answer to a file if asked to, and frees what it     *)
(* allocated at its label exit.  Here a subcommand is the sequence of its  *)
(* steps, and each kind of step is an action that may fail.                *)
(*                                                                         *)
(* External (xNVMe): the option parser, the buffers and the commands.  No  *)
(* subcommand offers the options (data_input to mgmt) with which _cmd_mgmt *)
(* would allocate a buffer.                                                *)
(***************************************************************************)
EXTENDS Integers, Sequences

CONSTANTS
  Nsids,   \* namespace identifiers of the device and of --nsid
  Faults   \* kinds of steps that may fail

VARIABLES
  cli,     \* the subcommand, its options and the device
  rest,    \* steps still to do; "exit" frees the buffers
  bufs,    \* buffers allocated and not freed
  served,  \* namespace whose command succeeded, -1 for none
  saved,   \* the output file was written
  err      \* what the function returns

vars == <<cli, rest, bufs, served, saved, err>>

cmd_enumerate  == <<"opts", "enumerate">>
cmd_info       == <<"derive_geo">>
cmd_idfy_ctrlr == <<"dbuf", "send", "dump">>
cmd_idfy_ns    == <<"dbuf", "send", "dump">>
cmd_report     == <<"zoned", "fetch", "dump">>
cmd_changes    == <<"fetch">>
cmd_errors     == <<"dbuf", "send">>
cmd_read       == <<"nvm_or_zoned", "dbuf", "mbuf", "send", "dump">>
cmd_write      == <<"nvm_or_zoned", "dbuf", "fill_dbuf", "mbuf", "fill_mbuf", "send">>
cmd_append     == <<"zoned", "dbuf", "fill_dbuf", "send">>
_cmd_mgmt      == <<"send">>

g_subs ==
  [enum |-> cmd_enumerate, info |-> cmd_info, idfy_ctrlr |-> cmd_idfy_ctrlr,
   idfy_ns |-> cmd_idfy_ns, report |-> cmd_report, changes |-> cmd_changes,
   errors |-> cmd_errors, read |-> cmd_read, write |-> cmd_write,
   append |-> cmd_append, mgmt |-> _cmd_mgmt]

TakesNsid == {"errors", "read", "write", "append", "mgmt"}
TakesOutput == {"idfy_ctrlr", "idfy_ns", "report", "changes", "errors", "read"}

\* given is --nsid, 0 if it is absent; oob says that a block has separate metadata.
Init ==
  /\ cli \in [sub : DOMAIN g_subs, geo : {"conventional", "zoned", "other"},
              nsid : Nsids, given : Nsids \cup {0}, oob : BOOLEAN, output : BOOLEAN]
  /\ cli.given # 0 => cli.sub \in TakesNsid
  /\ cli.output => cli.sub \in TakesOutput
  /\ rest = g_subs[cli.sub] \o <<"exit">>
  /\ bufs = {} /\ served = -1 /\ saved = FALSE /\ err = 0

At(kinds) == rest # <<>> /\ Head(rest) \in kinds
Continue == rest' = Tail(rest) /\ err' = 0
Fails == Head(rest) \in Faults /\ rest' = <<"exit">> /\ err' = -1

\* mbuf_nbytes is 0 when the metadata is in the block: no such buffer.
Skipped == At({"mbuf", "fill_mbuf"}) /\ ~cli.oob

\* The namespace asked for: --nsid or else the one of the device.
Asked == IF cli.given # 0 THEN cli.given ELSE cli.nsid

\* nsid is a uint8_t in cmd_read.
Nsid == IF cli.sub = "read" THEN Asked % 256 ELSE Asked

-----------------------------------------------------------------------------
\* The geometry decides: return without going to exit, EINVAL or -EINVAL.
CheckGeometry ==
  /\ At({"zoned", "nvm_or_zoned"})
  /\ IF cli.geo = "zoned" \/ (cli.geo = "conventional" /\ At({"nvm_or_zoned"}))
     THEN Continue
     ELSE rest' = <<>> /\ err' = IF At({"zoned"}) THEN 22 ELSE -22
  /\ UNCHANGED <<cli, bufs, served, saved>>

\* xnvme_cli_to_opts, xnvme_enumerate and xnvme_dev_derive_geo; xnvme_buf_fill.
Call ==
  /\ At({"opts", "enumerate", "derive_geo", "fill_dbuf", "fill_mbuf"})
  /\ Continue \/ (~Skipped /\ Fails)
  /\ UNCHANGED <<cli, bufs, served, saved>>

\* xnvme_buf_alloc.
Allocate ==
  /\ At({"dbuf", "mbuf"})
  /\ \/ Continue /\ bufs' = IF Skipped THEN bufs ELSE bufs \cup {Head(rest)}
     \/ ~Skipped /\ Fails /\ UNCHANGED bufs
  /\ UNCHANGED <<cli, served, saved>>

\* A command, whose status counts as an error.
Send ==
  /\ At({"send"})
  /\ \/ Continue /\ served' = Nsid
     \/ Fails /\ UNCHANGED served
  /\ UNCHANGED <<cli, bufs, saved>>

\* A report or log is allocated and read by one call.
Fetch ==
  /\ At({"fetch"})
  /\ \/ Continue /\ served' = cli.nsid /\ bufs' = bufs \cup {"report"}
     \/ Fails /\ UNCHANGED <<served, bufs>>
  /\ UNCHANGED <<cli, saved>>

\* xnvme_buf_to_file, if the option was given.
Dump ==
  /\ At({"dump"})
  /\ \/ Continue /\ saved' = cli.output
     \/ cli.output /\ Fails /\ UNCHANGED saved
  /\ UNCHANGED <<cli, bufs, served>>

\* The label exit.
Exit ==
  /\ At({"exit"})
  /\ rest' = <<>> /\ bufs' = {}
  /\ UNCHANGED <<cli, served, saved, err>>

Next == CheckGeometry \/ Call \/ Allocate \/ Send \/ Fetch \/ Dump \/ Exit
Spec == Init /\ [][Next]_vars

-----------------------------------------------------------------------------
(* Properties *)

Decided == rest = <<>>

\* A tool that returns 0 did what was asked: its command succeeded, on the namespace
\* asked for, report and append only on a zoned device (mgmt is sent whatever the
\* geometry), and the output is on disk, except that changes and errors take the
\* option and write no file.  No claim is made on the namespace of a read whose
\* identifier does not fit the uint8_t of cmd_read: it goes to another one.
PassIsEarned ==
  Decided /\ err = 0 =>
    /\ cli.sub \notin {"enum", "info"} => served # -1
    /\ cli.sub \in TakesNsid /\ (cli.sub = "read" => Asked < 256) => served = Asked
    /\ cli.sub \in {"report", "append"} => cli.geo = "zoned"
    /\ saved = (cli.output /\ cli.sub \notin {"changes", "errors"})

=============================================================================
