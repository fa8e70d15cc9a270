------------------------------ MODULE NvmfTarget ------------------------------
(***************************************************************************)
(* The life cycle of the NVMe-oF target of examples/nvmf.cc: the state     *)
(* machine nvmf_target_advance_state, driven on g_init_thread by messages  *)
(* and by completion callbacks of SPDK, the poll groups living on one      *)
(* thread per core, and the shutdown signal.                               *)
(*                                                                         *)
(* Each SPDK thread handles its messages in FIFO order, one at a time.     *)
(* nvmf_target_advance_state is re-entrant: a callback that SPDK runs      *)
(* before the call returns enters it again.  `stack` holds the activations *)
(* g_init_thread is in, innermost first: Switch is about to run the case   *)
(* of g_target_state, a state is the prev_state of the loop test.          *)
(*                                                                         *)
(* External, modelled from how nvmf.cc uses it: SPDK calls the callback of *)
(* a started operation later, on the calling thread, except that stopping  *)
(* a subsystem that is not active calls back before it returns.            *)
(***************************************************************************)
EXTENDS Integers, Sequences, FiniteSets

CONSTANTS
  Cores,       \* cores in the mask; one reactor and one poll group each
  NumSubsys,   \* subsystems of the target when it starts (discovery included)
  Migrate,     \* g_migrate_pg_period_us # 0
  Faults,      \* what may fail: "rpc", "tgt_create", "discovery", "start", "stop"
  MaxMsgs      \* bound: messages waiting at a poll-group thread

TargetConstants ==
  /\ IsFiniteSet(Cores) /\ Cores # {}
  /\ NumSubsys \in Nat \ {0}
  /\ Migrate \in BOOLEAN
  /\ MaxMsgs \in Nat \ {0}

VARIABLES
  g_target_state,
  stack,        \* activations of nvmf_target_advance_state
  pending,      \* the SPDK operation whose callback g_init_thread waits for
  initq,        \* messages of g_init_thread
  pgq,          \* messages of each poll-group thread
  pg,           \* the poll group of each core: "none", "up", "destroying", "gone"
  g_poll_groups,\* TAILQ of registered poll groups (as a set of cores)
  g_num_poll_groups,
  tgt,          \* g_nvmf_tgt.tgt: "null", "created", "destroyed"
  active,       \* subsystems that are active
  poller,       \* g_migrate_pg_poller is registered
  g_intr_received,
  app_stopped,  \* spdk_app_stop was called
  g_reactors_exit

targetVars == <<g_target_state, stack, pending>>
groupVars == <<pgq, pg, g_poll_groups, g_num_poll_groups>>

-----------------------------------------------------------------------------
INIT_SUBSYSTEM == 0
INIT_TARGET == 1
INIT_POLL_GROUPS == 2
INIT_START_SUBSYSTEMS == 3
RUNNING == 4
FINI_STOP_SUBSYSTEMS == 5
FINI_POLL_GROUPS == 6
FINI_TARGET == 7
FINI_SUBSYSTEM == 8

Switch == -1

None == [op |-> "none", sub |-> 0]
Op(op, sub) == [op |-> op, sub |-> sub]

Init ==
  /\ g_target_state = INIT_SUBSYSTEM
  /\ stack = <<>>
  /\ pending = None
  /\ initq = <<<<"app_start">>>>
  /\ pgq = [c \in Cores |-> <<>>]
  /\ pg = [c \in Cores |-> "none"]
  /\ g_poll_groups = {}
  /\ g_num_poll_groups = 0
  /\ tgt = "null"
  /\ active = {}
  /\ poller = FALSE
  /\ g_intr_received = FALSE
  /\ app_stopped = FALSE
  /\ g_reactors_exit = FALSE

-----------------------------------------------------------------------------
(* nvmf_target_advance_state, one iteration of one activation at a time *)

InCase(st) == stack # <<>> /\ Head(stack) = Switch /\ g_target_state = st
\* The case is over: the activation goes to its loop test.
AtTest == <<g_target_state>> \o Tail(stack)
\* A handler calls nvmf_target_advance_state with the state set to st.
Advance(st) == g_target_state' = st /\ stack' = <<Switch>>
SendAll(cs, m) == pgq' = [c \in Cores |-> IF c \in cs THEN Append(pgq[c], m) ELSE pgq[c]]

loop_test ==
  /\ stack # <<>>
  /\ Head(stack) # Switch
  /\ stack' = IF g_target_state # Head(stack) THEN <<Switch>> \o Tail(stack) ELSE Tail(stack)
  /\ UNCHANGED <<g_target_state, pending, initq, groupVars, tgt, active, poller,
                 g_intr_received, app_stopped, g_reactors_exit>>

\* This case returns at once instead of leaving through the loop test.
case_INIT_SUBSYSTEM ==
  /\ InCase(INIT_SUBSYSTEM)
  /\ pending' = Op("subsys_init", 0)
  /\ stack' = Tail(stack)
  /\ UNCHANGED <<g_target_state, initq, groupVars, tgt, active, poller,
                 g_intr_received, app_stopped, g_reactors_exit>>

nvmf_create_nvmf_tgt ==
  /\ InCase(INIT_TARGET)
  /\ stack' = AtTest
  /\ \/ g_target_state' = INIT_POLL_GROUPS /\ tgt' = "created"
     \/ "discovery" \in Faults /\ g_target_state' = FINI_TARGET /\ tgt' = "created"
     \/ "tgt_create" \in Faults /\ g_target_state' = FINI_TARGET /\ UNCHANGED tgt
  /\ UNCHANGED <<pending, initq, groupVars, active, poller,
                 g_intr_received, app_stopped, g_reactors_exit>>

nvmf_poll_groups_create ==
  /\ InCase(INIT_POLL_GROUPS)
  /\ stack' = AtTest
  /\ SendAll(Cores, "create_pg")
  /\ UNCHANGED <<g_target_state, pending, initq, pg, g_poll_groups, g_num_poll_groups,
                 tgt, active, poller, g_intr_received, app_stopped, g_reactors_exit>>

nvmf_tgt_start_subsystems ==
  /\ InCase(INIT_START_SUBSYSTEMS)
  /\ stack' = AtTest
  /\ \/ pending' = Op("start", 1) /\ UNCHANGED g_target_state
     \/ "start" \in Faults /\ g_target_state' = FINI_STOP_SUBSYSTEMS /\ UNCHANGED pending
  /\ UNCHANGED <<initq, groupVars, tgt, active, poller,
                 g_intr_received, app_stopped, g_reactors_exit>>

case_RUNNING ==
  /\ InCase(RUNNING)
  /\ stack' = AtTest
  /\ poller' = Migrate
  /\ UNCHANGED <<g_target_state, pending, initq, groupVars, tgt, active,
                 g_intr_received, app_stopped, g_reactors_exit>>

\* Stop the subsystems from k on.  The chain passes over the ones that are not
\* active (their callback runs at once) or refuse, waits for the first that
\* accepts, or, past the last one, enters nvmf_target_advance_state.  `base` is
\* the stack without that call.
StopFrom(k, base) ==
  \E j \in k..(NumSubsys + 1) :
    /\ \A i \in k..(j - 1) : i \in active => "stop" \in Faults
    /\ \/ /\ j \in active
          /\ pending' = Op("stop", j)
          /\ stack' = base
          /\ UNCHANGED g_target_state
       \/ /\ j = NumSubsys + 1
          /\ pending' = None
          /\ g_target_state' = FINI_POLL_GROUPS
          /\ stack' = <<Switch>> \o base

nvmf_tgt_stop_subsystems ==
  /\ InCase(FINI_STOP_SUBSYSTEMS)
  /\ poller' = FALSE
  /\ StopFrom(1, AtTest)
  /\ UNCHANGED <<initq, groupVars, tgt, active,
                 g_intr_received, app_stopped, g_reactors_exit>>

\* Fault: the group stays on the list.
nvmf_poll_groups_destroy_keeps ==
  /\ InCase(FINI_POLL_GROUPS)
  /\ stack' = AtTest
  /\ SendAll(g_poll_groups, "destroy_pg")
  /\ UNCHANGED <<g_target_state, pending, initq, pg, g_poll_groups, g_num_poll_groups, tgt,
                 active, poller, g_intr_received, app_stopped, g_reactors_exit>>

nvmf_poll_groups_destroy ==
  /\ InCase(FINI_POLL_GROUPS)
  /\ stack' = AtTest
  /\ SendAll(g_poll_groups, "destroy_pg")
  /\ g_poll_groups' = {}
  /\ UNCHANGED <<g_target_state, pending, initq, pg, g_num_poll_groups, tgt, active, poller,
                 g_intr_received, app_stopped, g_reactors_exit>>

nvmf_destroy_nvmf_tgt ==
  /\ InCase(FINI_TARGET)
  /\ stack' = AtTest
  /\ IF tgt # "null"
     THEN pending' = Op("tgt_destroy", 0) /\ UNCHANGED g_target_state
     ELSE g_target_state' = FINI_SUBSYSTEM /\ UNCHANGED pending
  /\ UNCHANGED <<initq, groupVars, tgt, active, poller,
                 g_intr_received, app_stopped, g_reactors_exit>>

case_FINI_SUBSYSTEM ==
  /\ InCase(FINI_SUBSYSTEM)
  /\ stack' = AtTest
  /\ pending' = Op("subsys_fini", 0)
  /\ UNCHANGED <<g_target_state, initq, groupVars, tgt, active, poller,
                 g_intr_received, app_stopped, g_reactors_exit>>

\* All cases but that of nvmf_poll_groups_create, which NvmfApp puts together
\* with the creation of the threads.
AdvanceState ==
  \/ loop_test
  \/ case_INIT_SUBSYSTEM \/ nvmf_create_nvmf_tgt
  \/ nvmf_tgt_start_subsystems \/ case_RUNNING \/ nvmf_tgt_stop_subsystems
  \/ nvmf_poll_groups_destroy \/ nvmf_destroy_nvmf_tgt \/ case_FINI_SUBSYSTEM

-----------------------------------------------------------------------------
(* Completion callbacks of SPDK, on g_init_thread *)

Called(op) == stack = <<>> /\ ~g_reactors_exit /\ pending.op = op

\* The rc of the initialisation is overwritten by that of the RPC server.  When
\* the latter fails the program calls spdk_app_stop and the state stays put.
nvmf_subsystem_init_done ==
  /\ Called("subsys_init")
  /\ pending' = None
  /\ \/ Advance(INIT_TARGET) /\ UNCHANGED app_stopped
     \/ "rpc" \in Faults /\ app_stopped' = TRUE /\ UNCHANGED <<g_target_state, stack>>
  /\ UNCHANGED <<initq, groupVars, tgt, active, poller,
                 g_intr_received, g_reactors_exit>>

nvmf_tgt_subsystem_start_next ==
  LET k == pending.sub IN
  /\ Called("start")
  /\ active' = active \cup {k}
  /\ \/ k < NumSubsys /\ pending' = Op("start", k + 1) /\ UNCHANGED <<g_target_state, stack>>
     \/ k < NumSubsys /\ "start" \in Faults /\ pending' = None /\ Advance(FINI_STOP_SUBSYSTEMS)
     \/ k = NumSubsys /\ pending' = None /\ Advance(RUNNING)
  /\ UNCHANGED <<initq, groupVars, tgt, poller,
                 g_intr_received, app_stopped, g_reactors_exit>>

nvmf_tgt_subsystem_stop_next ==
  LET k == pending.sub IN
  /\ Called("stop")
  /\ active' = active \ {k}
  /\ StopFrom(k + 1, <<>>)
  /\ UNCHANGED <<initq, groupVars, tgt, poller,
                 g_intr_received, app_stopped, g_reactors_exit>>

nvmf_tgt_destroy_done ==
  /\ Called("tgt_destroy")
  /\ pending' = None
  /\ tgt' = "destroyed"
  /\ Advance(FINI_SUBSYSTEM)
  /\ UNCHANGED <<initq, groupVars, active, poller,
                 g_intr_received, app_stopped, g_reactors_exit>>

nvmf_subsystem_fini_done ==
  /\ Called("subsys_fini")
  /\ pending' = None
  /\ g_reactors_exit' = TRUE
  /\ UNCHANGED <<g_target_state, stack, initq, groupVars, tgt, active, poller,
                 g_intr_received, app_stopped>>

Callback ==
  \/ nvmf_subsystem_init_done \/ nvmf_tgt_subsystem_start_next
  \/ nvmf_tgt_subsystem_stop_next \/ nvmf_tgt_destroy_done \/ nvmf_subsystem_fini_done

-----------------------------------------------------------------------------
(* Messages of g_init_thread *)

Received(m) ==
  stack = <<>> /\ ~g_reactors_exit /\ initq # <<>> /\ Head(initq)[1] = m

nvmf_target_app_start ==
  /\ Received("app_start")
  /\ initq' = Tail(initq)
  /\ Advance(INIT_SUBSYSTEM)
  /\ UNCHANGED <<pending, groupVars, tgt, active, poller,
                 g_intr_received, app_stopped, g_reactors_exit>>

nvmf_tgt_create_poll_groups_done ==
  /\ Received("pg_done")
  /\ initq' = Tail(initq)
  /\ g_poll_groups' = g_poll_groups \cup {Head(initq)[2]}
  /\ g_num_poll_groups' = g_num_poll_groups + 1
  /\ IF g_num_poll_groups' = Cardinality(Cores)
     THEN Advance(INIT_START_SUBSYSTEMS) ELSE UNCHANGED <<g_target_state, stack>>
  /\ UNCHANGED <<pending, pgq, pg, tgt, active, poller,
                 g_intr_received, app_stopped, g_reactors_exit>>

\* Fault: the machine moves on at the first group that is gone.
_nvmf_tgt_destroy_poll_groups_done_first ==
  /\ Received("destroy_done")
  /\ initq' = Tail(initq)
  /\ g_num_poll_groups' = g_num_poll_groups - 1
  /\ IF g_num_poll_groups' = Cardinality(Cores) - 1
     THEN Advance(FINI_TARGET) ELSE UNCHANGED <<g_target_state, stack>>
  /\ UNCHANGED <<pending, pgq, pg, g_poll_groups, tgt, active, poller,
                 g_intr_received, app_stopped, g_reactors_exit>>

_nvmf_tgt_destroy_poll_groups_done ==
  /\ Received("destroy_done")
  /\ initq' = Tail(initq)
  /\ g_num_poll_groups' = g_num_poll_groups - 1
  /\ IF g_num_poll_groups' = 0
     THEN Advance(FINI_TARGET) ELSE UNCHANGED <<g_target_state, stack>>
  /\ UNCHANGED <<pending, pgq, pg, g_poll_groups, tgt, active, poller,
                 g_intr_received, app_stopped, g_reactors_exit>>

\* Fault: a shutdown that comes during initialisation is dropped.
_nvmf_shutdown_cb_dropped ==
  /\ Received("shutdown")
  /\ initq' = Tail(initq)
  /\ IF g_target_state = RUNNING
     THEN Advance(FINI_STOP_SUBSYSTEMS) ELSE UNCHANGED <<g_target_state, stack>>
  /\ UNCHANGED <<pending, groupVars, tgt, active, poller,
                 g_intr_received, app_stopped, g_reactors_exit>>

_nvmf_shutdown_cb ==
  /\ Received("shutdown")
  /\ CASE g_target_state < RUNNING ->
            initq' = Append(Tail(initq), <<"shutdown">>) /\ UNCHANGED <<g_target_state, stack>>
       [] g_target_state > RUNNING ->
            initq' = Tail(initq) /\ UNCHANGED <<g_target_state, stack>>
       [] g_target_state = RUNNING ->
            initq' = Tail(initq) /\ Advance(FINI_STOP_SUBSYSTEMS)
  /\ UNCHANGED <<pending, groupVars, tgt, active, poller,
                 g_intr_received, app_stopped, g_reactors_exit>>

InitMessage ==
  \/ nvmf_target_app_start \/ nvmf_tgt_create_poll_groups_done
  \/ _nvmf_tgt_destroy_poll_groups_done \/ _nvmf_shutdown_cb

-----------------------------------------------------------------------------
(* Poll-group threads, the migration poller and the signal handler *)

PgReceived(c, m) == ~g_reactors_exit /\ pgq[c] # <<>> /\ Head(pgq[c]) = m

\* The group is created; NvmfApp adds the assert that a failure trips.
nvmf_tgt_create_poll_group(c) ==
  /\ PgReceived(c, "create_pg")
  /\ pgq' = [pgq EXCEPT ![c] = Tail(@)]
  /\ pg' = [pg EXCEPT ![c] = "up"]
  /\ initq' = Append(initq, <<"pg_done", c>>)
  /\ UNCHANGED <<targetVars, g_poll_groups, g_num_poll_groups, tgt, active, poller,
                 g_intr_received, app_stopped, g_reactors_exit>>

nvmf_tgt_destroy_poll_group(c) ==
  /\ PgReceived(c, "destroy_pg")
  /\ pgq' = [pgq EXCEPT ![c] = Tail(@)]
  /\ pg' = [pg EXCEPT ![c] = "destroying"]
  /\ UNCHANGED <<targetVars, initq, g_poll_groups, g_num_poll_groups, tgt, active, poller,
                 g_intr_received, app_stopped, g_reactors_exit>>

\* SPDK has destroyed the group; the thread reports it and exits.
nvmf_tgt_destroy_poll_groups_done(c) ==
  /\ ~g_reactors_exit
  /\ pg[c] = "destroying"
  /\ pg' = [pg EXCEPT ![c] = "gone"]
  /\ initq' = Append(initq, <<"destroy_done">>)
  /\ UNCHANGED <<targetVars, pgq, g_poll_groups, g_num_poll_groups, tgt, active, poller,
                 g_intr_received, app_stopped, g_reactors_exit>>

\* The thread asks for another core; where it runs is the reactors' business.
migrate_poll_group_by_rr(c) ==
  /\ PgReceived(c, "migrate")
  /\ pgq' = [pgq EXCEPT ![c] = Tail(@)]
  /\ UNCHANGED <<targetVars, initq, pg, g_poll_groups, g_num_poll_groups, tgt, active, poller,
                 g_intr_received, app_stopped, g_reactors_exit>>

migrate_poll_groups_by_rr ==
  /\ poller
  /\ stack = <<>>
  /\ ~g_reactors_exit
  /\ \A c \in g_poll_groups : Len(pgq[c]) < MaxMsgs
  /\ SendAll(g_poll_groups, "migrate")
  /\ UNCHANGED <<targetVars, initq, pg, g_poll_groups, g_num_poll_groups, tgt, active, poller,
                 g_intr_received, app_stopped, g_reactors_exit>>

\* The signal handler asks for nothing but g_intr_received: the first signal may also
\* come when g_init_thread takes no messages any more.
nvmf_shutdown_cb ==
  /\ ~g_intr_received
  /\ g_intr_received' = TRUE
  /\ initq' = Append(initq, <<"shutdown">>)
  /\ UNCHANGED <<targetVars, groupVars, tgt, active, poller, app_stopped, g_reactors_exit>>

-----------------------------------------------------------------------------
(* Properties *)

Msgs(m) == {i \in 1..Len(initq) : initq[i][1] = m}
Alive == {c \in Cores : pg[c] \in {"up", "destroying"}}

\* The two asserts on g_num_poll_groups (at most one registration per core, no
\* deregistration below zero) can never fire: the counter plus what is still on
\* its way to g_init_thread is the number of live poll groups.
GroupAccounting ==
  g_num_poll_groups + Cardinality(Msgs("pg_done"))
    = Cardinality(Alive) + Cardinality(Msgs("destroy_done"))

\* The target is only destroyed when no poll group is alive and, unless a
\* subsystem refused to stop, no subsystem is active.
TargetOutlivesUsers ==
  pending.op = "tgt_destroy" \/ tgt = "destroyed" =>
    /\ Alive = {}
    /\ "stop" \notin Faults => active = {}

\* No message is left at, or sent to, a poll-group thread that called
\* spdk_thread_exit; and when the reactors are told to exit, none of the program's own
\* messages is left at any thread, g_init_thread included.  The one message a signal
\* handler can still send to g_init_thread after that is not excluded.
NoMessageToExitedThread ==
  /\ \A c \in Cores : pg[c] = "gone" => pgq[c] = <<>>
  /\ g_reactors_exit =>
       /\ \A c \in Cores : pgq[c] = <<>>
       /\ \A i \in DOMAIN initq : initq[i][1] \notin {"app_start", "pg_done", "destroy_done"}
=============================================================================
