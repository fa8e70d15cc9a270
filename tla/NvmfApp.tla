------------------------------ MODULE NvmfApp -------------------------------
(***************************************************************************)
(* examples/nvmf.cc as a whole: the target of NvmfTarget on the reactors   *)
(* of NvmfReactor.  A message, a callback or a case of the state machine   *)
(* runs only while some reactor polls the thread it belongs to, and what   *)
(* it does to threads (create, move, exit) is done to the reactors' rings. *)
(* The signal handler runs at any time.                                    *)
(***************************************************************************)
EXTENDS Integers, Sequences, FiniteSets

CONSTANTS NumCores, NumSubsys, Migrate, MaxMsgs, Faults

VARIABLES g_target_state, stack, pending, initq, pgq, pg, g_poll_groups, g_num_poll_groups,
          tgt, active, poller, g_intr_received, app_stopped

VARIABLES main, g_reactors, reactor, hand, ring, state, cpumask, resched, g_next_reactor

VARIABLE g_reactors_exit

Cores == 1..NumCores

Target == INSTANCE NvmfTarget
Reactors == INSTANCE NvmfReactor

ASSUME NvmfConstants == Target!TargetConstants /\ Reactors!ReactorConstants

Main == Reactors!Main
Threads == Reactors!Threads

targetVars == <<g_target_state, stack, pending, initq, pgq, pg, g_poll_groups,
                g_num_poll_groups, tgt, active, poller, g_intr_received, app_stopped>>
reactorVars == <<main, g_reactors, reactor, hand, ring, state, cpumask, resched, g_next_reactor>>
vars == <<targetVars, reactorVars, g_reactors_exit>>

Init == Target!Init /\ Reactors!Init

-----------------------------------------------------------------------------
(* nvmf_main_thread *)

\* Polled by some reactor: it is never migrated, so by that of the main core.
MainPolled == \E c \in Cores : Reactors!Polled(c, Main)

Created == Cardinality({t \in Cores : state[t] # "none"})

\* One turn of the loop: a thread and its message.  The messages become visible
\* with the last thread: what they start is not looked at before the loop is over.
nvmf_poll_groups_create ==
  /\ MainPolled
  /\ Target!InCase(Target!INIT_POLL_GROUPS)
  /\ \/ LET t == Created + 1 IN
        /\ Reactors!Create(t, t)
        /\ UNCHANGED <<main, g_reactors, reactor, hand>>
        /\ IF t = NumCores THEN Target!nvmf_poll_groups_create
           ELSE UNCHANGED <<targetVars, g_reactors_exit>>
     \/ "thread_create" \in Faults /\ Reactors!Abort /\ UNCHANGED targetVars

AdvanceState ==
  \/ MainPolled /\ Target!AdvanceState /\ UNCHANGED reactorVars
  \/ nvmf_poll_groups_create

MainCallback == MainPolled /\ Target!Callback /\ UNCHANGED reactorVars
MainMessage == MainPolled /\ Target!InitMessage /\ UNCHANGED reactorVars
MainPoller == MainPolled /\ Target!migrate_poll_groups_by_rr /\ UNCHANGED reactorVars

-----------------------------------------------------------------------------
(* Poll-group threads *)

\* Without memory or without a group the function asserts, which ends the process.
nvmf_tgt_create_poll_group(t) ==
  \/ Target!nvmf_tgt_create_poll_group(t) /\ UNCHANGED reactorVars
  \/ /\ "pg_create" \in Faults
     /\ Target!PgReceived(t, "create_pg")
     /\ Reactors!Abort /\ UNCHANGED targetVars

\* The destruction of a group calls back through a message of its own, so in a
\* later poll than the migration before it: resched is clear.
PgThread(c, t) ==
  /\ Reactors!Polled(c, t)
  /\ \/ nvmf_tgt_create_poll_group(t)
     \/ Target!nvmf_tgt_destroy_poll_group(t) /\ UNCHANGED reactorVars
     \/ Target!migrate_poll_group_by_rr(t) /\ Reactors!Resched(c, t)
     \/ /\ ~resched[t]
        /\ Target!nvmf_tgt_destroy_poll_groups_done(t) /\ Reactors!Exits(t)

-----------------------------------------------------------------------------
(* Reactors, main and the signal *)

\* A poll does not end within nvmf_target_advance_state.
Turn(c) ==
  /\ \/ Reactors!Dequeue(c) \/ Reactors!IdleTurn(c) \/ Reactors!Dispose(c)
     \/ Reactors!ReactorReturns(c)
     \/ Reactors!PollReturns(c) /\ (hand[c] = Main => stack = <<>>)
  /\ UNCHANGED targetVars

Drain(c, s) == Reactors!Drain(c, s) /\ UNCHANGED targetVars
DrainStep(c) == \E s \in {"exiting", "exited", "destroyed"} : Drain(c, s)
ExitCompletes(c) == Reactors!ExitCompletes(c) /\ UNCHANGED targetVars

nvmf_init_threads == Reactors!nvmf_init_threads /\ UNCHANGED targetVars
nvmf_destroy_threads == Reactors!nvmf_destroy_threads /\ UNCHANGED targetVars

\* The handler is installed once nvmf_init_threads is over.
Signal == main = "run" /\ Target!nvmf_shutdown_cb /\ UNCHANGED reactorVars

Up == main \notin {"aborted", "end"}

Next ==
  /\ Up
  /\ \/ nvmf_init_threads \/ nvmf_destroy_threads \/ Signal
     \/ AdvanceState \/ MainCallback \/ MainMessage \/ MainPoller
     \/ \E c \in Cores : Turn(c) \/ DrainStep(c) \/ ExitCompletes(c) \/ \E t \in Cores : PgThread(c, t)

Spec == Init /\ [][Next]_vars

\* Each reactor owns its core and goes on; a poll that finds a message, or the
\* answer of SPDK, handles it sooner or later (spdk_thread_poll runs a batch of
\* messages); a thread that is told to exit does so in the end (SPDK forces it
\* after its exit timeout).  Nobody has to send a signal.
Fairness ==
  /\ WF_vars(Up /\ nvmf_init_threads) /\ WF_vars(Up /\ nvmf_destroy_threads)
  /\ WF_vars(Up /\ AdvanceState)
  /\ SF_vars(Up /\ MainCallback) /\ SF_vars(Up /\ MainMessage)
  /\ \A c \in Cores :
       /\ WF_vars(Up /\ Turn(c)) /\ WF_vars(Up /\ DrainStep(c))
       /\ SF_vars(Up /\ Drain(c, "exited"))
       /\ SF_vars(Up /\ \E d \in Cores : PgThread(d, c))

FairSpec == Spec /\ Fairness

-----------------------------------------------------------------------------
(* Properties *)

\* The two asserts on g_num_poll_groups can never fire (see NvmfTarget).
GroupAccounting == Target!GroupAccounting

\* spdk_nvmf_tgt_destroy is called when no poll group is alive and, unless a
\* subsystem refused to stop, no subsystem is active.
TargetOutlivesUsers == Target!TargetOutlivesUsers

\* No message is left at, or sent to, a poll-group thread that called
\* spdk_thread_exit, though the migration poller goes on sending until the subsystems
\* are stopped; nor one of the program's own at any thread once the reactors are told
\* to exit.  What a late signal sends to g_init_thread is not excluded.
NoMessageToExitedThread == Target!NoMessageToExitedThread

\* Every living thread is in exactly one ring once, or in the hands of exactly one
\* reactor: never polled on two cores, never lost by a hand-over between reactors,
\* never touched after spdk_thread_destroy.
OneHome == Reactors!OneHome

\* A thread in a ring is polled again, or destroyed, unless the process aborts:
\* the ring is FIFO and no thread shuts out another.
NoStarvation ==
  \A t \in Threads :
    (\E c \in Cores : \E i \in DOMAIN ring[c] : ring[c][i] = t) ~>
      (main = "aborted" \/ state[t] = "destroyed" \/ \E d \in Cores : hand[d] = t)

\* A SIGINT or SIGTERM at any moment (during initialisation, while running, in
\* a shutdown caused by an error, when the reactors are exiting) ends the program,
\* wherever the poll groups have been migrated to: with main() at its end, or with
\* the assert that a thread or a poll group that cannot be created trips; unless the
\* RPC server could not be started and the program was handed to spdk_app_stop.
ShutdownCompletes == g_intr_received ~> (main \in {"end", "aborted"} \/ app_stopped)

\* Once g_reactors_exit is set every reactor returns and main() ends, and by then
\* every thread was destroyed: no reactor handed one to a reactor that had already
\* emptied its ring, although each looks only at its own.
ReactorsReturn ==
  g_reactors_exit ~> (main = "end" /\ \A t \in Threads : state[t] \in {"none", "destroyed"})
=============================================================================
