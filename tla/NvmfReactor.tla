----------------------------- MODULE NvmfReactor -----------------------------
(***************************************************************************)
(* The reactors of examples/nvmf.cc.  Every core runs nvmf_reactor_run,    *)
(* which takes a lightweight SPDK thread from the front of its ring, polls *)
(* it, and destroys it, puts it back, or hands it to another reactor when  *)
(* its cpumask changed.  The rings may be filled by any reactor, under     *)
(* g_mutex.  Once g_reactors_exit is set each reactor empties its ring     *)
(* without looking at the others.                                          *)
(*                                                                         *)
(* Thread Main is nvmf_main_thread, thread c the poll-group thread created *)
(* for core c.  What a thread does when it is polled is NvmfTarget; the    *)
(* two are put together in NvmfApp, through Create, Resched, Exits and     *)
(* g_reactors_exit.                                                        *)
(***************************************************************************)
EXTENDS Integers, Sequences, FiniteSets, FiniteSetsExt

CONSTANTS
  NumCores,  \* reactors; the first one is that of main()
  Faults     \* what may fail: "reactor_alloc", "launch", "thread_create"

ReactorConstants == NumCores \in Nat \ {0}

Cores == 1..NumCores
Main == 0
Threads == {Main} \cup Cores
NULL == 0
Nobody == -1

VARIABLES
  main,            \* where main() is
  g_reactors,      \* number of reactors in the list, in core order
  reactor,         \* nvmf_reactor_run of each core
  hand,            \* the thread it dequeued last
  ring,            \* nvmf_reactor->threads
  state,           \* each thread: none, running, exiting, exited, destroyed
  cpumask,
  resched,         \* lw_thread->resched
  g_next_reactor,
  g_reactors_exit

threadVars == <<state, cpumask, resched>>
reactorVars == <<reactor, hand>>

Init ==
  /\ main = "init"
  /\ g_reactors = 0
  /\ reactor = [c \in Cores |-> "off"]
  /\ hand = [c \in Cores |-> Nobody]
  /\ ring = [c \in Cores |-> <<>>]
  /\ state = [t \in Threads |-> "none"]
  /\ cpumask = [t \in Threads |-> {}]
  /\ resched = [t \in Threads |-> FALSE]
  /\ g_next_reactor = NULL
  /\ g_reactors_exit = FALSE

-----------------------------------------------------------------------------
(* nvmf_schedule_spdk_thread: one turn through the list of reactors,        *)
(* starting where the last one stopped.                                     *)

Visited(i) ==
  LET start == IF g_next_reactor = NULL THEN 1 ELSE g_next_reactor IN
  ((start - 1 + i) % NumCores) + 1

Turns(m) == {i \in 0..(NumCores - 1) : Visited(i) \in m}

\* The memset clears resched; a thread no reactor is fit for is in no ring.
nvmf_schedule_spdk_thread(t, m, rings) ==
  /\ resched' = [resched EXCEPT ![t] = FALSE]
  /\ IF Turns(m) = {}
     THEN ring' = rings /\ UNCHANGED g_next_reactor
     ELSE LET r == Visited(Min(Turns(m))) IN
          /\ ring' = [rings EXCEPT ![r] = Append(@, t)]
          /\ g_next_reactor' = IF r = NumCores THEN NULL ELSE r + 1

\* spdk_thread_create with a mask of one core.
Create(t, c) ==
  /\ state' = [state EXCEPT ![t] = "running"]
  /\ cpumask' = [cpumask EXCEPT ![t] = {c}]
  /\ nvmf_schedule_spdk_thread(t, {c}, ring)

-----------------------------------------------------------------------------
(* main: nvmf_init_threads builds the reactors one by one and launches      *)
(* those of the other cores at once; any failure trips the assert in main.  *)

Abort ==
  /\ main' = "aborted"
  /\ UNCHANGED <<g_reactors, reactorVars, ring, threadVars, g_next_reactor, g_reactors_exit>>

nvmf_init_threads ==
  /\ main = "init"
  /\ \/ LET c == g_reactors + 1 IN
        /\ c <= NumCores
        /\ g_reactors' = c
        /\ IF c = 1 THEN g_next_reactor' = 1 /\ UNCHANGED reactor
           ELSE reactor' = [reactor EXCEPT ![c] = "loop"] /\ UNCHANGED g_next_reactor
        /\ UNCHANGED <<main, hand, ring, threadVars, g_reactors_exit>>
     \/ /\ g_reactors = NumCores
        /\ Create(Main, 1)
        /\ main' = "run"
        /\ reactor' = [reactor EXCEPT ![1] = "loop"]
        /\ UNCHANGED <<g_reactors, hand, g_reactors_exit>>
     \/ g_reactors < NumCores /\ "reactor_alloc" \in Faults /\ Abort
     \/ g_reactors \in 1..(NumCores - 1) /\ "launch" \in Faults /\ Abort
     \/ g_reactors = NumCores /\ "thread_create" \in Faults /\ Abort

\* spdk_env_thread_wait_all, then the rings are freed.
nvmf_destroy_threads ==
  /\ main = "run"
  /\ \A c \in Cores : reactor[c] = "done"
  /\ main' = "end"
  /\ UNCHANGED <<g_reactors, reactorVars, ring, threadVars, g_next_reactor, g_reactors_exit>>

-----------------------------------------------------------------------------
(* nvmf_reactor_run *)

Dequeue(c) ==
  /\ reactor[c] = "loop"
  /\ ring[c] # <<>>
  /\ hand' = [hand EXCEPT ![c] = Head(ring[c])]
  /\ ring' = [ring EXCEPT ![c] = Tail(@)]
  /\ reactor' = [reactor EXCEPT ![c] = "poll"]
  /\ UNCHANGED <<main, g_reactors, threadVars, g_next_reactor, g_reactors_exit>>

\* The test of the loop; a reactor without a thread goes round again.
WhileTest == IF g_reactors_exit THEN "drain" ELSE "loop"

IdleTurn(c) ==
  /\ reactor[c] = "loop"
  /\ ring[c] = <<>>
  /\ g_reactors_exit
  /\ reactor' = [reactor EXCEPT ![c] = WhileTest]
  /\ UNCHANGED <<main, g_reactors, hand, ring, threadVars, g_next_reactor, g_reactors_exit>>

\* spdk_thread_poll returns.
PollReturns(c) ==
  /\ reactor[c] = "poll"
  /\ reactor' = [reactor EXCEPT ![c] = "dispose"]
  /\ UNCHANGED <<main, g_reactors, hand, ring, threadVars, g_next_reactor, g_reactors_exit>>

\* Fault: a rescheduled thread is put back as well.
Dispose_twice(c) ==
  LET t == hand[c] IN
  /\ reactor[c] = "dispose"
  /\ hand' = [hand EXCEPT ![c] = Nobody]
  /\ reactor' = [reactor EXCEPT ![c] = WhileTest]
  /\ \/ /\ state[t] = "exited"
        /\ state' = [state EXCEPT ![t] = "destroyed"]
        /\ UNCHANGED <<ring, resched, g_next_reactor>>
     \/ /\ state[t] # "exited" /\ resched[t]
        /\ nvmf_schedule_spdk_thread(t, cpumask[t], [ring EXCEPT ![c] = Append(@, t)])
        /\ UNCHANGED state
     \/ /\ state[t] # "exited" /\ ~resched[t]
        /\ ring' = [ring EXCEPT ![c] = Append(@, t)]
        /\ UNCHANGED <<state, resched, g_next_reactor>>
  /\ UNCHANGED <<main, g_reactors, cpumask, g_reactors_exit>>

\* Fault: the ring is a stack.
Dispose_front(c) ==
  LET t == hand[c] IN
  /\ reactor[c] = "dispose"
  /\ hand' = [hand EXCEPT ![c] = Nobody]
  /\ reactor' = [reactor EXCEPT ![c] = WhileTest]
  /\ \/ /\ state[t] = "exited"
        /\ state' = [state EXCEPT ![t] = "destroyed"]
        /\ UNCHANGED <<ring, resched, g_next_reactor>>
     \/ /\ state[t] # "exited" /\ resched[t]
        /\ nvmf_schedule_spdk_thread(t, cpumask[t], ring)
        /\ UNCHANGED state
     \/ /\ state[t] # "exited" /\ ~resched[t]
        /\ ring' = [ring EXCEPT ![c] = <<t>> \o @]
        /\ UNCHANGED <<state, resched, g_next_reactor>>
  /\ UNCHANGED <<main, g_reactors, cpumask, g_reactors_exit>>

\* What becomes of the thread after the poll, and the test of the loop.
Dispose(c) ==
  LET t == hand[c] IN
  /\ reactor[c] = "dispose"
  /\ hand' = [hand EXCEPT ![c] = Nobody]
  /\ reactor' = [reactor EXCEPT ![c] = WhileTest]
  /\ \/ /\ state[t] = "exited"
        /\ state' = [state EXCEPT ![t] = "destroyed"]
        /\ UNCHANGED <<ring, resched, g_next_reactor>>
     \/ /\ state[t] # "exited" /\ resched[t]
        /\ nvmf_schedule_spdk_thread(t, cpumask[t], ring)
        /\ UNCHANGED state
     \/ /\ state[t] # "exited" /\ ~resched[t]
        /\ ring' = [ring EXCEPT ![c] = Append(@, t)]
        /\ UNCHANGED <<state, resched, g_next_reactor>>
  /\ UNCHANGED <<main, g_reactors, cpumask, g_reactors_exit>>

\* Fault: a thread that has not exited is not put back.
Drain_forgets(c, s) ==
  LET t == Head(ring[c]) IN
  /\ reactor[c] = "drain"
  /\ ring[c] # <<>>
  /\ ring' = [ring EXCEPT ![c] = Tail(@)]
  /\ IF state[t] = "exited" THEN s = "destroyed" ELSE s \in {"exiting", "exited"}
  /\ state' = [state EXCEPT ![t] = s]
  /\ UNCHANGED <<main, g_reactors, reactorVars, cpumask, resched, g_next_reactor, g_reactors_exit>>

\* "free all the lightweight threads": a thread that has not exited is told to,
\* polled once and put back; the poll may or may not complete the exit.
Drain(c, s) ==
  LET t == Head(ring[c]) IN
  /\ reactor[c] = "drain"
  /\ ring[c] # <<>>
  /\ IF state[t] = "exited"
     THEN s = "destroyed" /\ ring' = [ring EXCEPT ![c] = Tail(@)]
     ELSE s \in {"exiting", "exited"} /\ ring' = [ring EXCEPT ![c] = Append(Tail(@), t)]
  /\ state' = [state EXCEPT ![t] = s]
  /\ UNCHANGED <<main, g_reactors, reactorVars, cpumask, resched, g_next_reactor, g_reactors_exit>>

ReactorReturns(c) ==
  /\ reactor[c] = "drain"
  /\ ring[c] = <<>>
  /\ reactor' = [reactor EXCEPT ![c] = "done"]
  /\ UNCHANGED <<main, g_reactors, hand, ring, threadVars, g_next_reactor, g_reactors_exit>>

-----------------------------------------------------------------------------
(* What a polled thread does to the reactors *)

Polled(c, t) == reactor[c] = "poll" /\ hand[c] = t

\* spdk_thread_set_cpumask with the next core after the one the thread is on.
Resched(c, t) ==
  /\ cpumask' = [cpumask EXCEPT ![t] = {(c % NumCores) + 1}]
  /\ resched' = [resched EXCEPT ![t] = TRUE]
  /\ UNCHANGED <<main, g_reactors, reactorVars, ring, state, g_next_reactor>>

\* spdk_thread_exit.
Exits(t) ==
  /\ state[t] = "running"
  /\ state' = [state EXCEPT ![t] = "exiting"]
  /\ UNCHANGED <<main, g_reactors, reactorVars, ring, cpumask, resched, g_next_reactor>>

\* SPDK completes the exit of a thread in some later poll.
ExitCompletes(c) ==
  /\ reactor[c] = "poll"
  /\ state[hand[c]] = "exiting"
  /\ state' = [state EXCEPT ![hand[c]] = "exited"]
  /\ UNCHANGED <<main, g_reactors, reactorVars, ring, cpumask, resched, g_next_reactor,
                 g_reactors_exit>>

-----------------------------------------------------------------------------
(* Properties *)

\* The places thread t is at: positions in rings, and hands of reactors.
Places(t) ==
  (UNION {{<<c, i>> : i \in {j \in DOMAIN ring[c] : ring[c][j] = t}} : c \in Cores})
  \cup {<<c, 0>> : c \in {d \in Cores : hand[d] = t}}

\* Every living thread is in exactly one ring once, or in the hands of exactly
\* one reactor: it is never polled on two cores, never lost by the hand-over
\* between reactors, and never touched after spdk_thread_destroy.
OneHome ==
  \A t \in Threads :
    Cardinality(Places(t)) = IF state[t] \in {"none", "destroyed"} THEN 0 ELSE 1
=============================================================================
