--------------------------- MODULE NvmfTargetSteps --------------------------
(***************************************************************************)
(* The steps of the NVMe-oF target preserve the invariant of its life      *)
(* cycle, for any number of cores and subsystems, any failures, and poll   *)
(* groups that run and migrate at any moment.                              *)
(***************************************************************************)
EXTENDS NvmfApp, TLAPS

USE ZenonT(30)

Groups == {"none", "up", "destroying", "gone"}
st == g_target_state
Sw == Target!Switch

IsSeq(s) == s \in Seq({s[i] : i \in DOMAIN s})

Types ==
  /\ st \in 0..8
  /\ IsSeq(initq) /\ \A c \in Cores : IsSeq(pgq[c])
  /\ DOMAIN pgq = Cores
  /\ pg \in [Cores -> Groups]
  /\ g_poll_groups \subseteq Cores /\ g_num_poll_groups \in Int
  /\ active \subseteq 1..NumSubsys

\* One activation, and one that another one called.
One(a) == <<a>>
Two(a, b) == <<a, b>>

\* Which activations there are in a state, and which callback is awaited.
Idle == pending.op = "none"
Control ==
  \/ st = 0 /\ \/ stack = <<>> /\ pending.op \in {"none", "subsys_init"}
               \/ stack = One(Sw) /\ Idle
  \/ st = 1 /\ stack = One(Sw) /\ Idle
  \/ st = 2 /\ stack \in {One(1), One(Sw), One(2), <<>>} /\ Idle
  \/ st = 3 /\ \/ stack = One(Sw) /\ Idle
               \/ stack \in {One(3), <<>>} /\ pending.op = "start"
  \/ st = 4 /\ stack \in {One(Sw), One(4), <<>>} /\ Idle
  \/ st = 5 /\ \/ stack \in {One(3), One(Sw)} /\ Idle
               \/ stack \in {One(5), <<>>} /\ pending.op = "stop"
  \/ st = 6 /\ stack \in {Two(Sw, 5), Two(6, 5), One(5), One(Sw), One(6), <<>>} /\ Idle
  \/ st = 7 /\ \/ stack \in {One(1), One(Sw)} /\ Idle
               \/ stack \in {One(7), <<>>} /\ pending.op = "tgt_destroy"
  \/ st = 8 /\ \/ stack \in {One(7), One(Sw)} /\ Idle
               \/ stack \in {One(8), <<>>} /\ pending.op \in {"subsys_fini", "none"}

\* The messages of g_init_thread: the start comes first, and groups are reported
\* with their cores.
Messages ==
  /\ \A i \in DOMAIN initq :
       /\ initq[i][1] = "app_start" => i = 1 /\ st = 0 /\ stack = <<>> /\ Idle
       /\ initq[i][1] = "pg_done" => initq[i] = <<"pg_done", initq[i][2]>> /\ initq[i][2] \in Cores

NoMsg(m) == \A i \in DOMAIN initq : initq[i][1] # m

\* No poll group has been asked for.
Quiet ==
  /\ \A c \in Cores : pg[c] = "none" /\ pgq[c] = <<>>
  /\ g_poll_groups = {} /\ g_num_poll_groups = 0
  /\ NoMsg("pg_done") /\ NoMsg("destroy_done")

\* All have been asked for; some are up, and some of those registered.
Starting ==
  /\ \A c \in Cores :
       \/ pg[c] = "none" /\ pgq[c] = <<"create_pg">>
       \/ /\ pg[c] = "up" /\ pgq[c] = <<>>
          /\ c \in g_poll_groups \/ \E i \in DOMAIN initq : initq[i] = <<"pg_done", c>>
  /\ NoMsg("destroy_done")

\* All are registered, and may be told to migrate.
Full ==
  /\ \A c \in Cores : pg[c] = "up" /\ \A i \in DOMAIN pgq[c] : pgq[c][i] = "migrate"
  /\ g_poll_groups = Cores
  /\ NoMsg("pg_done") /\ NoMsg("destroy_done")

\* All have been told to go; nothing is sent to them after that.
Ending ==
  /\ \A c \in Cores :
       \/ /\ pg[c] = "up" /\ pgq[c] # <<>>
          /\ \A i \in DOMAIN pgq[c] :
               pgq[c][i] = IF i = Len(pgq[c]) THEN "destroy_pg" ELSE "migrate"
       \/ pg[c] \in {"destroying", "gone"} /\ pgq[c] = <<>>
  /\ g_poll_groups = {}
  /\ NoMsg("pg_done")

\* All are gone.
Gone ==
  /\ \A c \in Cores : pg[c] = "gone" /\ pgq[c] = <<>>
  /\ g_poll_groups = {}
  /\ NoMsg("pg_done") /\ NoMsg("destroy_done")

Phase ==
  /\ st \in {0, 1} => Quiet
  /\ st = 2 /\ stack \in {One(1), One(Sw)} => Quiet
  /\ st = 2 /\ stack \in {One(2), <<>>} => Starting
  /\ st \in {3, 4, 5} => Full
  /\ st = 6 /\ stack = Two(Sw, 5) => Full
  /\ st = 6 /\ stack = One(Sw) => Full \/ Ending
  /\ st = 6 /\ stack \in {Two(6, 5), One(5), One(6), <<>>} => Ending
  /\ st \in {7, 8} => Quiet \/ Gone

\* The migration poller is registered while the groups are, and gone before the
\* first of them is told to go.
PollerInv == poller => st = 4 \/ (st = 5 /\ stack = One(Sw))

\* The chains of the start and of the stop of the subsystems.
Subsystems ==
  /\ st \in {0, 1, 2} => active = {}
  /\ pending.op = "start" => pending.sub \in 1..NumSubsys
  /\ pending.op = "stop" =>
       /\ pending.sub \in 1..NumSubsys
       /\ "stop" \notin Faults => active \cap (1..pending.sub - 1) = {}
  /\ st \in {6, 7, 8} /\ "stop" \notin Faults => active = {}
  /\ tgt = "destroyed" => st = 8

TargetInv ==
  Types /\ Control /\ Messages /\ Phase /\ PollerInv /\ Subsystems /\ GroupAccounting
-----------------------------------------------------------------------------
(* Lemmas *)

\* An activation on top of another one.
LEMMA Pushed == \A a, b : <<a>> \o <<b>> = <<a, b>>
  <1>1. \A a, b : <<a>> \o <<b>> = Append(<<a>>, b)
    BY SMTT(30)
  <1>2. \A a, b : <<a, b>> = Append(<<a>>, b)
    BY SMTT(30)
  <1> QED
    BY <1>1, <1>2

\* Stacks of one and of two activations.
LEMMA Stacks ==
  /\ \A a : /\ One(a) # <<>> /\ Head(One(a)) = a /\ Tail(One(a)) = <<>>
           /\ <<a>> \o <<>> = One(a) /\ <<a>> = One(a)
  /\ \A a, b : /\ Two(a, b) # <<>> /\ Head(Two(a, b)) = a /\ Tail(Two(a, b)) = One(b)
              /\ <<a>> \o One(b) = Two(a, b)
  /\ \A a, b, x : One(x) # Two(a, b)
  <1> USE DEF One, Two
  <1>1. \A a : /\ <<a>> # <<>> /\ Head(<<a>>) = a /\ Tail(<<a>>) = <<>> /\ <<a>> \o <<>> = <<a>>
    BY SMTT(30)
  <1>2. \A a, b : <<a, b>> # <<>> /\ Head(<<a, b>>) = a /\ Tail(<<a, b>>) = <<b>>
    BY SMTT(30)
  <1>3. \A a, b, x : <<x>> # <<a, b>>
    OBVIOUS
  <1> QED
    BY <1>1, <1>2, <1>3, Pushed

\* Their tops.
LEMMA Tops ==
  /\ \A a : One(a) # <<>> /\ Head(One(a)) = a
  /\ \A a, b : Two(a, b) # <<>> /\ Head(Two(a, b)) = a
  BY Stacks

\* The states of nvmf_target_advance_state.
States ==
  /\ Target!INIT_SUBSYSTEM = 0 /\ Target!INIT_TARGET = 1 /\ Target!INIT_POLL_GROUPS = 2
  /\ Target!INIT_START_SUBSYSTEMS = 3 /\ Target!RUNNING = 4 /\ Target!FINI_STOP_SUBSYSTEMS = 5
  /\ Target!FINI_POLL_GROUPS = 6 /\ Target!FINI_TARGET = 7 /\ Target!FINI_SUBSYSTEM = 8
  /\ Sw = -1 /\ Target!Switch = -1

\* Their numbers.
LEMMA StateNumbers == States
  BY DEF States, Target!INIT_SUBSYSTEM, Target!INIT_TARGET, Target!INIT_POLL_GROUPS,
         Target!INIT_START_SUBSYSTEMS, Target!RUNNING, Target!FINI_STOP_SUBSYSTEMS,
         Target!FINI_POLL_GROUPS, Target!FINI_TARGET, Target!FINI_SUBSYSTEM, Sw, Target!Switch

\* A step of the state machine that sends nothing leaves the groups as they are.
LEMMA SameGroups ==
  ASSUME UNCHANGED <<initq, pgq, pg, g_poll_groups, g_num_poll_groups>>
  PROVE  /\ Quiet' <=> Quiet
         /\ Starting' <=> Starting
         /\ Full' <=> Full
         /\ Ending' <=> Ending
         /\ Gone' <=> Gone
         /\ GroupAccounting' <=> GroupAccounting
  BY SMTT(30) DEF Quiet, Starting, Full, Ending, Gone, NoMsg, GroupAccounting, Target!GroupAccounting,
         Target!Msgs, Target!Alive

\* Different stacks.
LEMMA Shapes ==
  /\ One(1) # One(Sw) /\ One(2) # One(Sw) /\ One(3) # One(Sw) /\ One(4) # One(Sw)
  /\ One(5) # One(Sw) /\ One(6) # One(Sw) /\ One(7) # One(Sw) /\ One(8) # One(Sw)
  /\ \A a, b, x : One(x) # Two(a, b)
  /\ \A a : One(a) # <<>>
  /\ \A a, b : Two(a, b) # <<>>
  /\ One(1) # One(2) /\ Two(Sw, 5) # Two(6, 5)
  <1>1. \A a, b, x : One(x) # Two(a, b)
    BY Stacks
  <1> QED
    BY SMTT(30), <1>1, Tops, StateNumbers DEF States

\* Where an activation at its loop test may be.
LEMMA TestShapes ==
  ASSUME Control, stack # <<>>, Head(stack) # Sw
  PROVE  \/ stack = Two(6, 5) /\ st = 6 /\ Idle
         \/ st = 2 /\ stack \in {One(1), One(2)} /\ Idle
         \/ st = 3 /\ stack = One(3) /\ pending.op = "start"
         \/ st = 4 /\ stack = One(4) /\ Idle
         \/ st = 5 /\ stack = One(3) /\ Idle
         \/ st = 5 /\ stack = One(5) /\ pending.op = "stop"
         \/ st = 6 /\ stack \in {One(5), One(6)} /\ Idle
         \/ st = 7 /\ stack = One(1) /\ Idle
         \/ st = 7 /\ stack = One(7) /\ pending.op = "tgt_destroy"
         \/ st = 8 /\ stack = One(7) /\ Idle
         \/ st = 8 /\ stack = One(8) /\ pending.op \in {"subsys_fini", "none"}
  BY SMTT(30), Tops DEF Control

\* Where an activation about to run a case may be.
LEMMA CaseShapes ==
  ASSUME Control, stack # <<>>, Head(stack) = Sw
  PROVE  /\ Idle
         /\ stack = One(Sw) \/ (stack = Two(Sw, 5) /\ st = 6)
  BY SMTT(30), Tops, StateNumbers DEF Control, States

\* The loop test of an activation.
LEMMA TestInv ==
  ASSUME TargetInv, Target!loop_test
  PROVE  TargetInv'
  <1>1. /\ stack # <<>> /\ Head(stack) # Sw
        /\ stack' = IF st # Head(stack) THEN <<Sw>> \o Tail(stack) ELSE Tail(stack)
        /\ UNCHANGED <<g_target_state, st, pending, poller, active, tgt>>
        /\ UNCHANGED <<initq, pgq, pg, g_poll_groups, g_num_poll_groups>>
    BY DEF Target!loop_test, Target!groupVars, st, Sw
  <1>2. Types' /\ Messages' /\ Subsystems' /\ GroupAccounting'
    BY <1>1, SameGroups DEF TargetInv, Types, Messages, Subsystems, Idle
  <1>3. stack = Two(6, 5) \/ \E x : stack = One(x)
    BY <1>1, TestShapes DEF TargetInv
  <1>4. stack = Two(6, 5) /\ st = 6 => stack' = One(5)
    BY SMTT(30), <1>1, Stacks
  <1>a. \A x : stack = One(x) => stack' = IF st = x THEN <<>> ELSE One(Sw)
    BY <1>1, Stacks, ZenonT(30)
  <1>b. stack # <<>> /\ Head(stack) # Sw
    BY <1>1
  <1>5. \/ stack = Two(6, 5) /\ st = 6 /\ Idle /\ stack' = One(5)
        \/ st = 2 /\ stack = One(1) /\ Idle /\ stack' = One(Sw)
        \/ st = 2 /\ stack = One(2) /\ Idle /\ stack' = <<>>
        \/ st = 3 /\ stack = One(3) /\ pending.op = "start" /\ stack' = <<>>
        \/ st = 4 /\ stack = One(4) /\ Idle /\ stack' = <<>>
        \/ st = 5 /\ stack = One(3) /\ Idle /\ stack' = One(Sw)
        \/ st = 5 /\ stack = One(5) /\ pending.op = "stop" /\ stack' = <<>>
        \/ st = 6 /\ stack = One(5) /\ Idle /\ stack' = One(Sw)
        \/ st = 6 /\ stack = One(6) /\ Idle /\ stack' = <<>>
        \/ st = 7 /\ stack = One(1) /\ Idle /\ stack' = One(Sw)
        \/ st = 7 /\ stack = One(7) /\ pending.op = "tgt_destroy" /\ stack' = <<>>
        \/ st = 8 /\ stack = One(7) /\ Idle /\ stack' = One(Sw)
        \/ st = 8 /\ stack = One(8) /\ pending.op \in {"subsys_fini", "none"} /\ stack' = <<>>
    BY <1>4, <1>a, <1>b, TestShapes, SMTT(60) DEF TargetInv
  <1>6. Control'
    BY <1>1, <1>5 DEF Control, Idle
  <1>7. PollerInv'
    BY <1>1, <1>5, Shapes DEF TargetInv, PollerInv
  <1>c. /\ Quiet' <=> Quiet
        /\ Starting' <=> Starting
        /\ Full' <=> Full
        /\ Ending' <=> Ending
        /\ Gone' <=> Gone
    BY <1>1, SameGroups
  <1>d. Phase /\ st' = st
    BY <1>1 DEF TargetInv
  <1>8. Phase'
    BY SMTT(30), <1>c, <1>d, <1>5, Shapes DEF Phase
  <1> QED
    BY <1>2, <1>6, <1>7, <1>8 DEF TargetInv

\* What is left to show of a step of the state machine that touches no group.
LEMMA MachineInv ==
  ASSUME TargetInv, UNCHANGED <<initq, pgq, pg, g_poll_groups, g_num_poll_groups>>,
         stack # <<>> \/ ~Idle,
         st' \in 0..8, active' \subseteq 1..NumSubsys,
         Control', Phase', PollerInv', Subsystems'
  PROVE  TargetInv'
  <1>1. Types' /\ Messages'
    BY DEF TargetInv, Types, Messages, st
  <1>2. GroupAccounting'
    BY SameGroups DEF TargetInv
  <1> QED
    BY <1>1, <1>2 DEF TargetInv

\* The activation that runs a case, and where it goes.
LEMMA InCaseShape ==
  ASSUME TargetInv, NEW n, Target!InCase(n)
  PROVE  /\ st = n /\ Idle /\ stack # <<>>
         /\ n # 6 => stack = One(Sw) /\ Tail(stack) = <<>> /\ Target!AtTest = One(n)
         /\ n = 6 => \/ stack = One(Sw) /\ Target!AtTest = One(6)
                     \/ stack = Two(Sw, 5) /\ Target!AtTest = Two(6, 5)
  <1>1. st = n /\ stack # <<>> /\ Head(stack) = Sw /\ Target!AtTest = <<n>> \o Tail(stack)
    BY DEF Target!InCase, Target!AtTest, st, Sw
  <1>2. Idle /\ (stack = One(Sw) \/ (stack = Two(Sw, 5) /\ st = 6))
    BY <1>1, CaseShapes DEF TargetInv
  <1>3. stack = One(Sw) => Tail(stack) = <<>> /\ <<n>> \o Tail(stack) = One(n)
    BY Stacks
  <1>4. stack = Two(Sw, 5) => <<n>> \o Tail(stack) = Two(n, 5)
    BY SMTT(30), Stacks
  <1> QED
    BY <1>1, <1>2, <1>3, <1>4

\* The cases that touch no group.
LEMMA CaseInv ==
  ASSUME TargetInv,
         \/ Target!case_INIT_SUBSYSTEM \/ Target!nvmf_create_nvmf_tgt
         \/ Target!nvmf_tgt_start_subsystems \/ Target!case_RUNNING
         \/ Target!nvmf_destroy_nvmf_tgt \/ Target!case_FINI_SUBSYSTEM
  PROVE  TargetInv'
  <1> USE DEF Target!groupVars
  <1> DEFINE Same == UNCHANGED <<initq, pgq, pg, g_poll_groups, g_num_poll_groups>>
  <1>0. ASSUME Same
        PROVE  /\ Quiet' <=> Quiet
               /\ Full' <=> Full
               /\ Ending' <=> Ending
               /\ Gone' <=> Gone
    BY <1>0, SameGroups
  <1>a. Types /\ Control /\ Phase /\ PollerInv /\ Subsystems
    BY DEF TargetInv
  <1>1. CASE Target!case_INIT_SUBSYSTEM
    <2>1. /\ Same /\ st = 0 /\ stack # <<>> /\ Idle
          /\ st' = 0 /\ stack' = <<>> /\ pending'.op = "subsys_init"
          /\ UNCHANGED <<active, poller, tgt>>
      BY SMTT(30), <1>1, InCaseShape, StateNumbers DEF Target!case_INIT_SUBSYSTEM, Target!Op, States, st
    <2>2. Control'
      BY <2>1 DEF Control
    <2>3. Phase' /\ PollerInv' /\ Subsystems'
      BY SMTT(30), <1>0, <1>a, <2>1 DEF Phase, PollerInv, Subsystems
    <2> QED
      BY <1>a, <2>1, <2>2, <2>3, MachineInv DEF Types
  <1>2. CASE Target!nvmf_create_nvmf_tgt
    <2>1. /\ Same /\ st = 1 /\ stack # <<>> /\ Idle
          /\ st' \in {2, 7} /\ stack' = One(1) /\ pending' = pending
          /\ UNCHANGED <<active, poller>> /\ (tgt' = "created" \/ tgt' = tgt)
      BY SMTT(30), <1>2, InCaseShape, StateNumbers DEF Target!nvmf_create_nvmf_tgt, States, st
    <2>2. Control' /\ Idle'
      BY <2>1 DEF Control, Idle
    <2>3. Phase' /\ PollerInv' /\ Subsystems'
      BY SMTT(30), <1>0, <1>a, <2>1, <2>2, Shapes DEF Phase, PollerInv, Subsystems, Idle
    <2> QED
      BY SMTT(30), <1>a, <2>1, <2>2, <2>3, MachineInv DEF Types
  <1>3. CASE Target!nvmf_tgt_start_subsystems
    <2>1. /\ Same /\ st = 3 /\ stack # <<>> /\ Idle
          /\ stack' = One(3)
          /\ \/ st' = 3 /\ pending' = [op |-> "start", sub |-> 1]
             \/ st' = 5 /\ pending' = pending
          /\ UNCHANGED <<active, poller, tgt>>
      BY SMTT(30), <1>3, InCaseShape, StateNumbers DEF Target!nvmf_tgt_start_subsystems, Target!Op, States, st
    <2>2. Control'
      BY SMTT(30), <2>1 DEF Control, Idle
    <2>3. NumSubsys \in Nat \ {0}
      BY NvmfConstants DEF Target!TargetConstants
    <2>4. Phase' /\ PollerInv' /\ Subsystems'
      BY SMTT(30), <1>0, <1>a, <2>1, <2>3, Shapes DEF Phase, PollerInv, Subsystems, Idle
    <2> QED
      BY SMTT(30), <1>a, <2>1, <2>2, <2>4, MachineInv DEF Types
  <1>4. CASE Target!case_RUNNING
    <2>1. /\ Same /\ st = 4 /\ stack # <<>> /\ Idle
          /\ st' = 4 /\ stack' = One(4) /\ pending' = pending
          /\ UNCHANGED <<active, tgt>>
      BY SMTT(30), <1>4, InCaseShape, StateNumbers DEF Target!case_RUNNING, States, st
    <2>2. Control'
      BY <2>1 DEF Control, Idle
    <2>3. Phase' /\ PollerInv' /\ Subsystems'
      BY SMTT(30), <1>0, <1>a, <2>1 DEF Phase, PollerInv, Subsystems
    <2> QED
      BY <1>a, <2>1, <2>2, <2>3, MachineInv DEF Types
  <1>5. CASE Target!nvmf_destroy_nvmf_tgt
    <2>1. /\ Same /\ st = 7 /\ stack # <<>> /\ Idle
          /\ stack' = One(7)
          /\ \/ st' = 7 /\ pending' = [op |-> "tgt_destroy", sub |-> 0]
             \/ st' = 8 /\ pending' = pending
          /\ UNCHANGED <<active, poller, tgt>>
      BY SMTT(30), <1>5, InCaseShape, StateNumbers DEF Target!nvmf_destroy_nvmf_tgt, Target!Op, States, st
    <2>2. Control'
      BY SMTT(30), <2>1 DEF Control, Idle
    <2>3. Phase' /\ PollerInv' /\ Subsystems'
      BY SMTT(30), <1>0, <1>a, <2>1 DEF Phase, PollerInv, Subsystems, Idle
    <2> QED
      BY SMTT(30), <1>a, <2>1, <2>2, <2>3, MachineInv DEF Types
  <1>6. CASE Target!case_FINI_SUBSYSTEM
    <2>1. /\ Same /\ st = 8 /\ stack # <<>> /\ Idle
          /\ st' = 8 /\ stack' = One(8) /\ pending'.op = "subsys_fini"
          /\ UNCHANGED <<active, poller, tgt>>
      BY SMTT(30), <1>6, InCaseShape, StateNumbers DEF Target!case_FINI_SUBSYSTEM, Target!Op, States, st
    <2>2. Control'
      BY <2>1 DEF Control
    <2>3. Phase' /\ PollerInv' /\ Subsystems'
      BY SMTT(30), <1>0, <1>a, <2>1 DEF Phase, PollerInv, Subsystems
    <2> QED
      BY <1>a, <2>1, <2>2, <2>3, MachineInv DEF Types
  <1> QED
    BY <1>1, <1>2, <1>3, <1>4, <1>5, <1>6

\* How far the chain of the stops gets from k on.
LEMMA StopChain ==
  ASSUME Types, NEW k \in 1..NumSubsys + 1, NEW base, Target!StopFrom(k, base)
  PROVE  \/ \E j \in 1..NumSubsys :
              /\ pending' = [op |-> "stop", sub |-> j] /\ stack' = base /\ st' = st
              /\ j >= k /\ ("stop" \notin Faults => active \cap (k..j - 1) = {})
         \/ /\ pending' = [op |-> "none", sub |-> 0] /\ st' = 6 /\ stack' = <<Sw>> \o base
            /\ "stop" \notin Faults => active \cap (k..NumSubsys) = {}
  <1>1. NumSubsys \in Nat
    BY NvmfConstants DEF Target!TargetConstants
  <1>2. PICK j \in k..(NumSubsys + 1) :
          /\ \A i \in k..(j - 1) : i \in active => "stop" \in Faults
          /\ \/ /\ j \in active
                /\ pending' = Target!Op("stop", j)
                /\ stack' = base
                /\ UNCHANGED g_target_state
             \/ /\ j = NumSubsys + 1
                /\ pending' = Target!None
                /\ g_target_state' = Target!FINI_POLL_GROUPS
                /\ stack' = <<Target!Switch>> \o base
    BY DEF Target!StopFrom
  <1>3. CASE j \in active /\ pending' = Target!Op("stop", j) /\ stack' = base
             /\ UNCHANGED g_target_state
    BY SMTT(30), <1>1, <1>2, <1>3 DEF Types, Target!Op, st
  <1>4. CASE j = NumSubsys + 1 /\ pending' = Target!None
             /\ g_target_state' = Target!FINI_POLL_GROUPS /\ stack' = <<Target!Switch>> \o base
    BY SMTT(30), <1>1, <1>2, <1>4 DEF Target!None, Target!FINI_POLL_GROUPS, st, Sw
  <1> QED
    BY <1>2, <1>3, <1>4

\* The first stop, out of the case of the state machine.
LEMMA StopInv ==
  ASSUME TargetInv, Target!nvmf_tgt_stop_subsystems
  PROVE  TargetInv'
  <1>a. Types /\ Control /\ Phase /\ PollerInv /\ Subsystems
    BY DEF TargetInv
  <1>b. NumSubsys \in Nat \ {0}
    BY NvmfConstants DEF Target!TargetConstants
  <1>1. /\ UNCHANGED <<initq, pgq, pg, g_poll_groups, g_num_poll_groups>>
        /\ st = 5 /\ stack # <<>> /\ Idle
        /\ Target!AtTest = One(5) /\ Target!StopFrom(1, Target!AtTest)
        /\ poller' = FALSE /\ UNCHANGED <<active, tgt>>
    BY SMTT(30), InCaseShape, StateNumbers DEF Target!nvmf_tgt_stop_subsystems, Target!groupVars, States
  <1>c. <<Sw>> \o One(5) = Two(Sw, 5)
    BY Stacks
  <1>2. \/ \E j \in 1..NumSubsys :
             /\ pending' = [op |-> "stop", sub |-> j] /\ stack' = One(5) /\ st' = 5
             /\ "stop" \notin Faults => active \cap (1..j - 1) = {}
        \/ /\ pending' = [op |-> "none", sub |-> 0] /\ st' = 6 /\ stack' = Two(Sw, 5)
           /\ "stop" \notin Faults => active \cap (1..NumSubsys) = {}
    <2>1. Target!StopFrom(1, One(5))
      BY <1>1
    <2>2. 1 \in 1..NumSubsys + 1
      BY SMTT(30), <1>b
    <2> QED
      BY <1>a, <1>b, <1>c, <1>1, <2>1, <2>2, StopChain
  <1>3. Control'
    BY SMTT(30), <1>2 DEF Control, Idle
  <1>4. PollerInv'
    BY <1>1 DEF PollerInv
  <1>5. Subsystems'
    BY SMTT(30), <1>a, <1>b, <1>1, <1>2 DEF Subsystems, Types
  <1>6. /\ Full' <=> Full
        /\ Full
    BY <1>1, <1>a, SameGroups DEF Phase
  <1>7. Phase'
    BY SMTT(30), <1>6, <1>2, Shapes DEF Phase
  <1> QED
    BY SMTT(30), <1>a, <1>1, <1>2, <1>3, <1>4, <1>5, <1>7, MachineInv DEF Types

\* The callbacks of SPDK.
LEMMA CallbackInv ==
  ASSUME TargetInv, Target!Callback
  PROVE  TargetInv'
  <1> USE DEF Target!groupVars
  <1> DEFINE Same == UNCHANGED <<initq, pgq, pg, g_poll_groups, g_num_poll_groups>>
  <1>0. ASSUME Same
        PROVE  /\ Quiet' <=> Quiet
               /\ Full' <=> Full
               /\ Ending' <=> Ending
               /\ Gone' <=> Gone
    BY <1>0, SameGroups
  <1>a. Types /\ Control /\ Phase /\ PollerInv /\ Subsystems
    BY DEF TargetInv
  <1>b. NumSubsys \in Nat \ {0}
    BY NvmfConstants DEF Target!TargetConstants
  <1>c. <<Sw>> = One(Sw) /\ <<Sw>> \o <<>> = One(Sw)
    BY Stacks
  <1>d. \A op : Target!Called(op) => stack = <<>> /\ pending.op = op
    BY DEF Target!Called
  <1>1. CASE Target!nvmf_subsystem_init_done
    <2>1. /\ Same /\ pending.op = "subsys_init" /\ stack = <<>>
          /\ pending' = [op |-> "none", sub |-> 0]
          /\ UNCHANGED <<tgt, active, poller>>
          /\ \/ st' = 1 /\ stack' = <<Sw>>
             \/ st' = st /\ stack' = stack
      BY <1>1, <1>d, StateNumbers
         DEF Target!nvmf_subsystem_init_done, Target!None, Target!Advance, States, st, Sw
    <2>2. /\ st = 0
          /\ \/ st' = 1 /\ stack' = One(Sw)
             \/ st' = 0 /\ stack' = <<>>
      BY <2>1, <1>a, <1>c DEF Control, Idle
    <2>3. Control' /\ PollerInv' /\ Subsystems'
      BY SMTT(30), <1>a, <2>1, <2>2 DEF Control, Idle, PollerInv, Subsystems
    <2>4. Phase'
      BY SMTT(30), <1>0, <1>a, <2>1, <2>2 DEF Phase
    <2> QED
      BY SMTT(30), <1>a, <2>1, <2>2, <2>3, <2>4, MachineInv DEF Types, Idle
  <1>2. CASE Target!nvmf_tgt_subsystem_start_next
    <2>1. /\ Same /\ pending.op = "start" /\ stack = <<>>
          /\ UNCHANGED <<tgt, poller>> /\ active' = active \cup {pending.sub}
          /\ \/ /\ pending.sub < NumSubsys /\ pending' = [op |-> "start", sub |-> pending.sub + 1]
                /\ st' = st /\ stack' = stack
             \/ st' \in {4, 5} /\ stack' = <<Sw>> /\ pending' = [op |-> "none", sub |-> 0]
      BY <1>2, <1>d, StateNumbers
         DEF Target!nvmf_tgt_subsystem_start_next, Target!None, Target!Op, Target!Advance, States, st
    <2>2. st = 3
      BY <2>1, <1>a DEF Control, Idle
    <2>3. pending.sub \in 1..NumSubsys
      BY <2>1, <1>a DEF Subsystems
    <2>4. Control'
      BY SMTT(30), <2>1, <2>2, <1>c DEF Control, Idle
    <2>5. PollerInv' /\ Subsystems'
      BY SMTT(30), <1>a, <1>b, <2>1, <2>2, <2>3 DEF PollerInv, Subsystems
    <2>6. Phase'
      BY SMTT(30), <1>0, <1>a, <2>1, <2>2 DEF Phase
    <2>7. ~Idle /\ st' \in 0..8 /\ active' \subseteq 1..NumSubsys
      <3>1. ~Idle
        BY <2>1 DEF Idle
      <3>2. st' \in 0..8
        BY SMTT(30), <2>1, <2>2
      <3>3. active' \subseteq 1..NumSubsys
        BY <1>a, <2>1, <2>3 DEF Types
      <3> QED
        BY <3>1, <3>2, <3>3
    <2> QED
      BY <2>1, <2>4, <2>5, <2>6, <2>7, MachineInv
  <1>3. CASE Target!nvmf_tgt_subsystem_stop_next
    <2>1. /\ Same /\ pending.op = "stop" /\ stack = <<>>
          /\ UNCHANGED <<tgt, poller>> /\ active' = active \ {pending.sub}
          /\ Target!StopFrom(pending.sub + 1, <<>>)
      BY <1>3, <1>d DEF Target!nvmf_tgt_subsystem_stop_next
    <2>2. st = 5 /\ ~poller
      BY SMTT(30), <2>1, <1>a, Shapes DEF Control, Idle, PollerInv
    <2>3. /\ pending.sub \in 1..NumSubsys
          /\ "stop" \notin Faults => active \cap (1..pending.sub - 1) = {}
      BY <2>1, <1>a DEF Subsystems
    <2>4. \/ \E j \in 1..NumSubsys :
               /\ pending' = [op |-> "stop", sub |-> j] /\ stack' = <<>> /\ st' = 5
               /\ "stop" \notin Faults => active \cap (pending.sub + 1..j - 1) = {}
          \/ /\ pending' = [op |-> "none", sub |-> 0] /\ st' = 6 /\ stack' = One(Sw)
             /\ "stop" \notin Faults => active \cap (pending.sub + 1..NumSubsys) = {}
      <3>1. pending.sub + 1 \in 1..NumSubsys + 1
        BY SMTT(30), <2>3, <1>b
      <3> QED
        BY <3>1, <2>1, <2>2, <1>a, <1>c, StopChain
    <2>5. Control' /\ PollerInv'
      BY SMTT(30), <2>1, <2>2, <2>4 DEF Control, Idle, PollerInv
    <2>6. "stop" \notin Faults =>
            /\ pending'.op = "stop" => active' \cap (1..pending'.sub - 1) = {}
            /\ st' = 6 => active' = {}
      <3>1. ASSUME "stop" \notin Faults, NEW i \in active'
            PROVE  i \in 1..NumSubsys /\ i > pending.sub
        BY SMTT(30), <1>a, <1>b, <2>1, <2>3, <3>1 DEF Types
      <3>2. ASSUME "stop" \notin Faults, NEW j \in 1..NumSubsys,
                   active \cap (pending.sub + 1..j - 1) = {}
            PROVE  active' \cap (1..j - 1) = {}
        BY SMTT(30), <3>1, <3>2, <2>1, <2>3
      <3>3. ASSUME "stop" \notin Faults, active \cap (pending.sub + 1..NumSubsys) = {}
            PROVE  active' = {}
        BY SMTT(30), <3>1, <3>3, <2>1, <2>3
      <3> QED
        BY SMTT(30), <2>4, <3>2, <3>3
    <2>7. Subsystems'
      BY SMTT(30), <1>a, <2>1, <2>2, <2>4, <2>6 DEF Subsystems
    <2>8. Phase'
      BY SMTT(30), <1>0, <1>a, <2>1, <2>2, <2>4, Shapes DEF Phase
    <2>9. ~Idle /\ st' \in 0..8 /\ active' \subseteq 1..NumSubsys
      <3>1. ~Idle
        BY <2>1 DEF Idle
      <3>2. st' \in 0..8
        BY SMTT(30), <2>4
      <3>3. active' \subseteq 1..NumSubsys
        BY <1>a, <2>1 DEF Types
      <3> QED
        BY <3>1, <3>2, <3>3
    <2> QED
      BY <2>1, <2>5, <2>7, <2>8, <2>9, MachineInv
  <1>4. CASE Target!nvmf_tgt_destroy_done
    <2>1. /\ Same /\ pending.op = "tgt_destroy" /\ stack = <<>>
          /\ UNCHANGED <<active, poller>> /\ tgt' = "destroyed"
          /\ st' = 8 /\ stack' = <<Sw>> /\ pending' = [op |-> "none", sub |-> 0]
      BY <1>4, <1>d, StateNumbers
         DEF Target!nvmf_tgt_destroy_done, Target!None, Target!Advance, States, st
    <2>2. st = 7
      BY <2>1, <1>a DEF Control, Idle
    <2>3. Control' /\ PollerInv' /\ Subsystems'
      BY SMTT(30), <1>a, <1>c, <2>1, <2>2 DEF Control, Idle, PollerInv, Subsystems
    <2>4. Phase'
      BY SMTT(30), <1>0, <1>a, <2>1, <2>2 DEF Phase
    <2> QED
      BY SMTT(30), <1>a, <2>1, <2>2, <2>3, <2>4, MachineInv DEF Types, Idle
  <1>5. CASE Target!nvmf_subsystem_fini_done
    <2>1. /\ Same /\ pending.op = "subsys_fini" /\ stack = <<>>
          /\ pending' = [op |-> "none", sub |-> 0]
          /\ UNCHANGED <<tgt, active, poller>> /\ st' = st /\ stack' = stack
      BY <1>5, <1>d DEF Target!nvmf_subsystem_fini_done, Target!None, st
    <2>2. st = 8
      BY <2>1, <1>a DEF Control, Idle
    <2>3. Control' /\ PollerInv' /\ Subsystems'
      BY <1>a, <2>1, <2>2 DEF Control, Idle, PollerInv, Subsystems
    <2>4. Phase'
      BY SMTT(30), <1>0, <1>a, <2>1, <2>2 DEF Phase
    <2> QED
      BY <1>a, <2>1, <2>2, <2>3, <2>4, MachineInv DEF Types, Idle
  <1> QED
    BY <1>1, <1>2, <1>3, <1>4, <1>5 DEF Target!Callback

\* A sequence over any set is one over its own elements.
LEMMA OwnElements ==
  ASSUME NEW S, NEW s \in Seq(S)
  PROVE  IsSeq(s)
  <1> DEFINE R == {s[i] : i \in DOMAIN s}
  <1>1. s \in [1..Len(s) -> S] /\ Len(s) \in Nat /\ DOMAIN s = 1..Len(s)
    BY SMTT(30)
  <1>2. \A i \in 1..Len(s) : s[i] \in R
    BY <1>1
  <1> HIDE DEF R
  <1>3. s \in Seq(R)
    BY SMTT(30), <1>1, <1>2
  <1> QED
    BY <1>3 DEF IsSeq, R

\* The positions in a queue of messages.
LEMMA SeqDomain ==
  ASSUME NEW s, IsSeq(s)
  PROVE  /\ Len(s) \in Nat /\ DOMAIN s = 1..Len(s)
         /\ s = <<>> <=> Len(s) = 0
  <1> DEFINE S == {s[i] : i \in DOMAIN s}
  <1>1. s \in Seq(S)
    BY DEF IsSeq
  <1> HIDE DEF S
  <1> QED
    BY SMTT(30), <1>1

\* The empty queue.
LEMMA EmptyQueue == IsSeq(<<>>)
  <1>1. <<>> \in Seq({1})
    BY SMTT(30)
  <1> QED
    BY <1>1, OwnElements

\* A queue with an element more at its end.
LEMMA Appended ==
  ASSUME NEW s, IsSeq(s), NEW e
  PROVE  /\ IsSeq(Append(s, e))
         /\ DOMAIN Append(s, e) = 1..Len(s) + 1 /\ Len(Append(s, e)) = Len(s) + 1
         /\ \A i \in 1..Len(s) : Append(s, e)[i] = s[i]
         /\ Append(s, e)[Len(s) + 1] = e
  <1> DEFINE S == {s[i] : i \in DOMAIN s} \cup {e}
             t == Append(s, e)
  <1>1. s \in Seq(S)
    BY SMTT(30) DEF IsSeq
  <1>2. e \in S
    OBVIOUS
  <1> HIDE DEF S
  <1>3. /\ t \in Seq(S) /\ Len(t) = Len(s) + 1 /\ DOMAIN t = 1..Len(t)
        /\ \A i \in 1..Len(s) : t[i] = s[i]
        /\ t[Len(s) + 1] = e
    BY SMTT(30), <1>1, <1>2
  <1> QED
    BY <1>3, OwnElements

\* The messages t end with the only one that destroys the poll group.
GoesLast(t) ==
  /\ t # <<>>
  /\ \A i \in DOMAIN t : t[i] = IF i = Len(t) THEN "destroy_pg" ELSE "migrate"

\* A poll group that is told to migrate and then to go.
LEMMA ToldToGo ==
  ASSUME NEW s, IsSeq(s), \A i \in DOMAIN s : s[i] = "migrate",
         NEW t, t = Append(s, "destroy_pg")
  PROVE  GoesLast(t)
  BY SMTT(30), Appended, SeqDomain DEF GoesLast

\* A queue whose head was taken.
LEMMA Tailed ==
  ASSUME NEW s, IsSeq(s), s # <<>>
  PROVE  /\ IsSeq(Tail(s)) /\ Len(s) \in Nat \ {0} /\ Head(s) = s[1] /\ 1 \in DOMAIN s
         /\ DOMAIN Tail(s) = 1..Len(s) - 1 /\ Len(Tail(s)) = Len(s) - 1
         /\ \A i \in 1..Len(s) - 1 : Tail(s)[i] = s[i + 1]
  <1> DEFINE S == {s[i] : i \in DOMAIN s}
             t == Tail(s)
  <1>1. s \in Seq(S)
    BY DEF IsSeq
  <1> HIDE DEF S
  <1>2. /\ t \in Seq(S) /\ Len(t) = Len(s) - 1 /\ DOMAIN t = 1..Len(t)
        /\ \A i \in 1..Len(t) : t[i] = s[i + 1]
    BY SMTT(30), <1>1
  <1>3. Head(s) = s[1] /\ DOMAIN s = 1..Len(s)
    BY SMTT(30), <1>1
  <1>4. Len(s) \in Nat \ {0}
    BY SMTT(30), <1>1
  <1> HIDE DEF t
  <1>5. DOMAIN t = 1..Len(s) - 1 /\ \A i \in 1..Len(s) - 1 : t[i] = s[i + 1]
    BY <1>2
  <1>6. 1 \in DOMAIN s
    BY SMTT(30), <1>3, <1>4
  <1>7. IsSeq(t)
    BY <1>2, OwnElements
  <1> QED
    BY <1>2, <1>3, <1>4, <1>5, <1>6, <1>7 DEF t

-----------------------------------------------------------------------------
(* Counting *)

\* What is needed of finite sets.  NvmfTargetProofs takes it from FiniteSetTheorems; the
\* lemmas here that count have it as an assumption.
Subsets ==
  \A S, T : IsFiniteSet(T) /\ S \subseteq T =>
    /\ IsFiniteSet(S) /\ Cardinality(S) <= Cardinality(T)
    /\ Cardinality(S) = Cardinality(T) => S = T
Sizes ==
  /\ \A m, n \in Int : IsFiniteSet(m..n) /\ Cardinality(m..n) = IF m > n THEN 0 ELSE n - m + 1
  /\ \A S : IsFiniteSet(S) => Cardinality(S) \in Nat /\ (Cardinality(S) = 0 <=> S = {})
Changes ==
  \A S, x : IsFiniteSet(S) =>
    /\ x \notin S => Cardinality(S \cup {x}) = Cardinality(S) + 1
    /\ IsFiniteSet(S \ {x})
    /\ Cardinality(S \ {x}) = IF x \in S THEN Cardinality(S) - 1 ELSE Cardinality(S)
Images ==
  \A S, T, f : /\ IsFiniteSet(S) /\ f \in [S -> T]
               /\ \A a, b \in S : f[a] = f[b] => a = b
               /\ \A t \in T : \E i \in S : f[i] = t
    => Cardinality(T) = Cardinality(S)
Counting == Subsets /\ Sizes /\ Changes /\ Images

\* The positions of the messages of a kind.
With(q, m) == {i \in 1..Len(q) : q[i][1] = m}

\* They are finitely many.
LEMMA WithFinite ==
  ASSUME Counting, NEW q, IsSeq(q), NEW m
  PROVE  /\ IsFiniteSet(With(q, m)) /\ Cardinality(With(q, m)) \in Nat
         /\ Cardinality(With(q, m)) = 0 <=> \A i \in DOMAIN q : q[i][1] # m
  <1>1. IsFiniteSet(1..Len(q)) /\ With(q, m) \subseteq 1..Len(q) /\ DOMAIN q = 1..Len(q)
    BY SMTT(30), SeqDomain DEF With, Counting, Sizes
  <1>2. IsFiniteSet(With(q, m))
    BY <1>1 DEF Counting, Subsets
  <1>3. Cardinality(With(q, m)) = 0 <=> With(q, m) = {}
    BY <1>2 DEF Counting, Sizes
  <1> QED
    <2>1. Cardinality(With(q, m)) \in Nat
      BY <1>2 DEF Counting, Sizes
    <2>2. With(q, m) = {} <=> \A i \in DOMAIN q : q[i][1] # m
      BY <1>1 DEF With
    <2> QED
      BY <1>2, <1>3, <2>1, <2>2

\* A message sent is one more of its kind.
LEMMA WithAppend ==
  ASSUME Counting, NEW q, IsSeq(q), NEW e, NEW m
  PROVE  Cardinality(With(Append(q, e), m))
           = Cardinality(With(q, m)) + (IF e[1] = m THEN 1 ELSE 0)
  <1>1. /\ Len(q) \in Nat /\ Len(Append(q, e)) = Len(q) + 1
        /\ \A i \in 1..Len(q) : Append(q, e)[i] = q[i]
        /\ Append(q, e)[Len(q) + 1] = e
    BY SMTT(30), Appended, SeqDomain
  <1>2. /\ e[1] = m => With(Append(q, e), m) = With(q, m) \cup {Len(q) + 1}
        /\ e[1] # m => With(Append(q, e), m) = With(q, m)
        /\ Len(q) + 1 \notin With(q, m)
    BY SMTT(30), <1>1 DEF With
  <1>3. IsFiniteSet(With(q, m)) /\ Cardinality(With(q, m)) \in Nat
    BY WithFinite
  <1>4. Cardinality(With(q, m) \cup {Len(q) + 1}) = Cardinality(With(q, m)) + 1
    BY <1>2, <1>3 DEF Counting, Changes
  <1>5. CASE e[1] = m
    BY <1>2, <1>4, <1>5
  <1>6. CASE e[1] # m
    BY SMTT(30), <1>2, <1>3, <1>6
  <1> QED
    BY <1>5, <1>6

\* A message received is one less of its kind.
LEMMA WithTail ==
  ASSUME Counting, NEW q, IsSeq(q), q # <<>>, NEW m
  PROVE  Cardinality(With(Tail(q), m))
           = Cardinality(With(q, m)) - (IF Head(q)[1] = m THEN 1 ELSE 0)
  <1> DEFINE S == With(q, m) \ {1}
             T == With(Tail(q), m)
             f == [i \in S |-> i - 1]
  <1>1. /\ Len(q) \in Nat \ {0} /\ Len(Tail(q)) = Len(q) - 1 /\ Head(q) = q[1]
        /\ \A i \in 1..Len(q) - 1 : Tail(q)[i] = q[i + 1]
    BY Tailed
  <1>2. /\ \A i \in S : i - 1 \in T
        /\ \A i \in T : i + 1 \in S /\ (i + 1) - 1 = i
        /\ \A i, j \in S : i - 1 = j - 1 => i = j
    BY SMTT(30), <1>1 DEF With
  <1>3. /\ f \in [S -> T]
        /\ \A a, b \in S : f[a] = f[b] => a = b
        /\ \A t \in T : \E i \in S : f[i] = t
    <2> HIDE DEF S, T
    <2>1. f \in [S -> T] /\ \A i \in S : f[i] = i - 1
      BY <1>2
    <2> QED
      BY <1>2, <2>1
  <1>4. IsFiniteSet(With(q, m)) /\ Cardinality(With(q, m)) \in Nat
    BY WithFinite
  <1>5. /\ IsFiniteSet(S)
        /\ Cardinality(S) = IF 1 \in With(q, m) THEN Cardinality(With(q, m)) - 1
                            ELSE Cardinality(With(q, m))
    BY <1>4 DEF Counting, Changes
  <1>6. Cardinality(T) = Cardinality(S)
    <2> HIDE DEF S, T, f
    <2> QED
      BY SMTT(30), <1>3, <1>5 DEF Counting, Images
  <1>7. 1 \in With(q, m) <=> Head(q)[1] = m
    BY SMTT(30), <1>1 DEF With
  <1> QED
    BY SMTT(30), <1>4, <1>5, <1>6, <1>7

\* The poll groups that are alive.
LEMMA AliveFinite ==
  ASSUME Counting
  PROVE  /\ IsFiniteSet(Cores) /\ IsFiniteSet(Target!Alive) /\ Cardinality(Target!Alive) \in Nat
         /\ Cardinality(Cores) \in Nat /\ Cardinality(Target!Alive) <= Cardinality(Cores)
         /\ Cardinality(Target!Alive) = Cardinality(Cores) => Target!Alive = Cores
         /\ Cardinality(Target!Alive) = 0 => Target!Alive = {}
  <1>1. IsFiniteSet(Cores)
    BY SMTT(30), NvmfConstants DEF Reactors!ReactorConstants, Cores, Counting, Sizes
  <1>2. Target!Alive \subseteq Cores
    BY DEF Target!Alive
  <1> QED
    <2>1. /\ IsFiniteSet(Target!Alive) /\ Cardinality(Target!Alive) <= Cardinality(Cores)
          /\ Cardinality(Target!Alive) = Cardinality(Cores) => Target!Alive = Cores
      BY <1>1, <1>2 DEF Counting, Subsets
    <2>2. /\ Cardinality(Target!Alive) \in Nat /\ Cardinality(Cores) \in Nat
          /\ Cardinality(Target!Alive) = 0 => Target!Alive = {}
      BY <1>1, <2>1 DEF Counting, Sizes
    <2> QED
      BY <1>1, <2>1, <2>2

\* The number of elements of a set, as NvmfTarget writes it.
LEMMA SameCardinality == \A S : Target!Cardinality(S) = Cardinality(S)
  BY DEF Target!Cardinality, Cardinality

\* The accounting, before and after a step.
LEMMA Accounts ==
  /\ GroupAccounting <=>
       g_num_poll_groups + Cardinality(With(initq, "pg_done"))
         = Cardinality(Target!Alive) + Cardinality(With(initq, "destroy_done"))
  /\ GroupAccounting' <=>
       g_num_poll_groups' + Cardinality(With(initq', "pg_done"))
         = Cardinality(Target!Alive') + Cardinality(With(initq', "destroy_done"))
  <1>1. \A m : Target!Msgs(m) = With(initq, m)
    BY DEF Target!Msgs, With
  <1>2. \A m : Target!Msgs(m)' = With(initq', m)
    BY DEF Target!Msgs, With
  <1>3. GroupAccounting <=>
          g_num_poll_groups + Cardinality(Target!Msgs("pg_done"))
            = Cardinality(Target!Alive) + Cardinality(Target!Msgs("destroy_done"))
    BY SameCardinality DEF GroupAccounting, Target!GroupAccounting
  <1>4. GroupAccounting' <=>
          g_num_poll_groups' + Cardinality(Target!Msgs("pg_done")')
            = Cardinality(Target!Alive') + Cardinality(Target!Msgs("destroy_done")')
    BY SameCardinality DEF GroupAccounting, Target!GroupAccounting
  <1> QED
    BY <1>1, <1>2, <1>3, <1>4

\* A step that touches neither the groups nor the messages of g_init_thread.
LEMMA SameAccounts ==
  ASSUME GroupAccounting, UNCHANGED <<initq, pg, g_num_poll_groups>>
  PROVE  GroupAccounting'
  BY DEF GroupAccounting, Target!GroupAccounting, Target!Msgs, Target!Alive

\* What is left to show of a step that leaves the state machine where it is.
LEMMA GroupInv ==
  ASSUME TargetInv, UNCHANGED <<g_target_state, stack, pending, active, poller, tgt>>,
         Types', Messages', GroupAccounting',
         Quiet => Quiet', Starting => Starting', Full => Full', Ending => Ending',
         Gone => Gone'
  PROVE  TargetInv'
  <1>1. Control' /\ PollerInv' /\ Subsystems'
    BY DEF TargetInv, Control, PollerInv, Subsystems, Idle, st
  <1>2. Phase /\ st' = st /\ stack' = stack
    BY DEF TargetInv, st
  <1>3. Phase'
    BY <1>2 DEF Phase
  <1> QED
    BY <1>1, <1>3 DEF TargetInv

-----------------------------------------------------------------------------
(* The messages of g_init_thread *)

\* g_init_thread takes a message.
LEMMA TakenMsg ==
  ASSUME Counting, Types, initq # <<>>, initq' = Tail(initq)
  PROVE  /\ IsSeq(initq') /\ Head(initq) = initq[1] /\ 1 \in DOMAIN initq
         /\ \A m : NoMsg(m) => NoMsg(m)'
         /\ \A i \in DOMAIN initq' : i \in Nat \ {0} /\ i + 1 \in DOMAIN initq /\ initq'[i] = initq[i + 1]
         /\ \A i \in DOMAIN initq :
              i # 1 => i \in Int /\ i - 1 \in DOMAIN initq' /\ initq'[i - 1] = initq[i]
         /\ \A m : Cardinality(With(initq', m))
                     = Cardinality(With(initq, m)) - (IF Head(initq)[1] = m THEN 1 ELSE 0)
         /\ \A m : Cardinality(With(initq, m)) \in Nat /\ Cardinality(With(initq', m)) \in Nat
  <1>1. IsSeq(initq)
    BY DEF Types
  <1>2. /\ IsSeq(initq') /\ Len(initq) \in Nat \ {0} /\ Head(initq) = initq[1] /\ 1 \in DOMAIN initq
        /\ DOMAIN initq' = 1..Len(initq) - 1 /\ DOMAIN initq = 1..Len(initq)
        /\ \A i \in 1..Len(initq) - 1 : initq'[i] = initq[i + 1]
    BY <1>1, Tailed, SeqDomain
  <1>3. \A i \in DOMAIN initq' : i \in Nat \ {0} /\ i + 1 \in DOMAIN initq /\ initq'[i] = initq[i + 1]
    BY SMTT(30), <1>2
  <1>4. \A i \in DOMAIN initq :
          i # 1 => i \in Int /\ i - 1 \in DOMAIN initq' /\ initq'[i - 1] = initq[i]
    BY SMTT(30), <1>2
  <1>5. \A m : NoMsg(m) => NoMsg(m)'
    BY <1>3 DEF NoMsg
  <1>6. \A m : Cardinality(With(initq', m))
                 = Cardinality(With(initq, m)) - (IF Head(initq)[1] = m THEN 1 ELSE 0)
    BY <1>1, WithTail
  <1>7. \A m : Cardinality(With(initq, m)) \in Nat /\ Cardinality(With(initq', m)) \in Nat
    BY <1>1, <1>2, WithFinite
  <1> QED
    BY <1>2, <1>3, <1>4, <1>5, <1>6, <1>7

\* A thread, or the signal handler, sends one to it.
LEMMA SentMsg ==
  ASSUME Counting, Types, NEW e, initq' = Append(initq, e)
  PROVE  /\ IsSeq(initq')
         /\ \A m : NoMsg(m) /\ e[1] # m => NoMsg(m)'
         /\ \A i \in DOMAIN initq : i \in DOMAIN initq' /\ initq'[i] = initq[i]
         /\ \A i \in DOMAIN initq' : i \in DOMAIN initq \/ initq'[i] = e
         /\ \E i \in DOMAIN initq' : initq'[i] = e
         /\ \A m : Cardinality(With(initq', m))
                     = Cardinality(With(initq, m)) + (IF e[1] = m THEN 1 ELSE 0)
         /\ \A m : Cardinality(With(initq, m)) \in Nat /\ Cardinality(With(initq', m)) \in Nat
  <1>1. IsSeq(initq)
    BY DEF Types
  <1>2. /\ IsSeq(initq') /\ Len(initq) \in Nat
        /\ DOMAIN initq' = 1..Len(initq) + 1 /\ DOMAIN initq = 1..Len(initq)
        /\ \A i \in 1..Len(initq) : initq'[i] = initq[i]
        /\ initq'[Len(initq) + 1] = e
    BY SMTT(30), <1>1, Appended, SeqDomain
  <1>3. \A i \in DOMAIN initq : i \in DOMAIN initq' /\ initq'[i] = initq[i]
    BY SMTT(30), <1>2
  <1>4. \A i \in DOMAIN initq' : i \in DOMAIN initq \/ initq'[i] = e
    BY SMTT(30), <1>2
  <1>5. \E i \in DOMAIN initq' : initq'[i] = e
    BY SMTT(30), <1>2
  <1>6. \A m : NoMsg(m) /\ e[1] # m => NoMsg(m)'
    BY <1>3, <1>4 DEF NoMsg
  <1>7. \A m : Cardinality(With(initq', m))
                 = Cardinality(With(initq, m)) + (IF e[1] = m THEN 1 ELSE 0)
    BY <1>1, WithAppend
  <1>8. \A m : Cardinality(With(initq, m)) \in Nat /\ Cardinality(With(initq', m)) \in Nat
    BY <1>1, <1>2, WithFinite
  <1> QED
    BY <1>2, <1>3, <1>4, <1>5, <1>6, <1>7, <1>8

\* The messages that are left, once the start is over.
LEMMA MessagesLeft ==
  ASSUME Counting, TargetInv, initq # <<>>, initq' = Tail(initq)
  PROVE  Messages'
  <1>1. /\ Types
        /\ \A i \in DOMAIN initq :
             /\ initq[i][1] = "app_start" => i = 1
             /\ initq[i][1] = "pg_done" =>
                  initq[i] = <<"pg_done", initq[i][2]>> /\ initq[i][2] \in Cores
    BY DEF TargetInv, Messages
  <1>2. \A i \in DOMAIN initq' : i \in Nat \ {0} /\ i + 1 \in DOMAIN initq /\ initq'[i] = initq[i + 1]
    BY <1>1, TakenMsg
  <1>3. \A i \in DOMAIN initq' : initq'[i][1] # "app_start"
    BY SMTT(30), <1>1, <1>2
  <1>4. \A i \in DOMAIN initq' : initq'[i][1] = "pg_done" =>
          initq'[i] = <<"pg_done", initq'[i][2]>> /\ initq'[i][2] \in Cores
    BY SMTT(30), <1>1, <1>2
  <1> QED
    BY <1>3, <1>4 DEF Messages

-----------------------------------------------------------------------------
(* The steps that create, migrate and destroy the poll groups *)

\* nvmf_poll_groups_create, once the last thread is there.
LEMMA CreateInv ==
  ASSUME TargetInv, Target!nvmf_poll_groups_create
  PROVE  TargetInv'
  <1>a. Types /\ Control /\ Phase /\ PollerInv /\ Subsystems /\ Messages
    BY DEF TargetInv
  <1>1. /\ st = 2 /\ stack = One(Sw) /\ Idle /\ stack' = One(2)
        /\ pgq' = [c \in Cores |-> Append(pgq[c], "create_pg")]
        /\ st' = st /\ UNCHANGED <<pending, initq, pg, g_poll_groups, g_num_poll_groups, tgt, active, poller>>
    BY SMTT(30), InCaseShape, StateNumbers
       DEF Target!nvmf_poll_groups_create, Target!SendAll, States, st
  <1>2. Quiet
    BY <1>a, <1>1 DEF Phase
  <1>b. Append(<<>>, "create_pg") = <<"create_pg">>
    BY SMTT(30)
  <1>3. \A c \in Cores : pgq'[c] = <<"create_pg">>
    BY <1>1, <1>2, <1>b DEF Quiet
  <1>4. Types'
    <2>1. IsSeq(<<"create_pg">>)
      <3>1. <<"create_pg">> \in Seq({"create_pg"})
        BY SMTT(30)
      <3> QED
        BY <3>1, OwnElements
    <2> QED
      BY <1>a, <1>1, <1>3, <2>1 DEF Types
  <1>5. Starting'
    BY <1>1, <1>2, <1>3 DEF Quiet, Starting, NoMsg
  <1>6. Phase' /\ Control'
    BY SMTT(30), <1>1, <1>5, Shapes DEF Phase, Control, Idle
  <1>7. PollerInv' /\ Subsystems'
    BY SMTT(30), <1>a, <1>1 DEF PollerInv, Subsystems
  <1>8. Messages'
    BY <1>a, <1>1, Shapes DEF Messages
  <1>9. GroupAccounting'
    BY <1>1, SameAccounts DEF TargetInv
  <1> QED
    BY <1>4, <1>6, <1>7, <1>8, <1>9 DEF TargetInv

\* nvmf_poll_groups_destroy; when it runs again no group is left on the list.
LEMMA DestroyInv ==
  ASSUME TargetInv, Target!nvmf_poll_groups_destroy
  PROVE  TargetInv'
  <1>a. Types /\ Control /\ Phase /\ PollerInv /\ Subsystems /\ Messages
    BY DEF TargetInv
  <1>1. /\ st = 6 /\ Idle /\ st' = st /\ stack # <<>>
        /\ \/ stack = One(Sw) /\ stack' = One(6)
           \/ stack = Two(Sw, 5) /\ stack' = Two(6, 5)
        /\ pgq' = [c \in Cores |-> IF c \in g_poll_groups THEN Append(pgq[c], "destroy_pg") ELSE pgq[c]]
        /\ g_poll_groups' = {}
        /\ UNCHANGED <<pending, initq, pg, g_num_poll_groups, tgt, active, poller>>
    BY InCaseShape, StateNumbers
       DEF Target!nvmf_poll_groups_destroy, Target!SendAll, States, st
  <1>2. Full \/ Ending
    BY <1>a, <1>1 DEF Phase
  <1>3. Types'
    <2>1. \A c \in Cores : IsSeq(pgq'[c])
      BY <1>a, <1>1, Appended DEF Types
    <2> QED
      BY <1>a, <1>1, <2>1 DEF Types
  <1>4. ASSUME Full
        PROVE  Ending'
    <2>1. ASSUME NEW c \in Cores
          PROVE  /\ pgq'[c] = Append(pgq[c], "destroy_pg") /\ IsSeq(pgq[c])
                 /\ \A i \in DOMAIN pgq[c] : pgq[c][i] = "migrate"
      BY <1>a, <1>1, <1>4 DEF Full, Types
    <2>2. ASSUME NEW c \in Cores
          PROVE  GoesLast(pgq'[c])
      BY <2>1, <2>2, ToldToGo
    <2> QED
      BY <1>1, <1>4, <2>2 DEF Full, Ending, NoMsg, GoesLast
  <1>5. ASSUME Ending
        PROVE  Ending'
    <2>1. \A c \in Cores : pgq'[c] = pgq[c]
      BY <1>1, <1>5 DEF Ending
    <2> QED
      BY SMTT(30), <1>1, <1>5, <2>1 DEF Ending, NoMsg
  <1>6. Ending'
    BY <1>2, <1>4, <1>5
  <1>7. Phase' /\ Control'
    <2>a. st' = 6 /\ stack' \in {One(6), Two(6, 5)}
      BY <1>1
    <2>b. stack' # Two(Sw, 5)
      BY <2>a, Shapes
    <2>1. Phase'
      BY SMTT(30), <1>6, <2>a, <2>b DEF Phase
    <2>2. Idle'
      BY <1>1 DEF Idle
    <2>3. Control'
      BY <2>a, <2>2 DEF Control
    <2> QED
      BY <2>1, <2>3
  <1>8. PollerInv' /\ Subsystems'
    BY SMTT(30), <1>a, <1>1 DEF PollerInv, Subsystems
  <1>9. Messages'
    BY <1>a, <1>1 DEF Messages
  <1>10. GroupAccounting'
    BY <1>1, SameAccounts DEF TargetInv
  <1> QED
    BY <1>3, <1>7, <1>8, <1>9, <1>10 DEF TargetInv

\* The migration poller.
LEMMA PollerStepInv ==
  ASSUME TargetInv, Target!migrate_poll_groups_by_rr
  PROVE  TargetInv'
  <1>a. Types /\ Control /\ Phase /\ PollerInv /\ Messages
    BY DEF TargetInv
  <1>1. /\ poller /\ stack = <<>>
        /\ pgq' = [c \in Cores |-> IF c \in g_poll_groups THEN Append(pgq[c], "migrate") ELSE pgq[c]]
        /\ UNCHANGED <<g_target_state, stack, pending, active, poller, tgt>>
        /\ UNCHANGED <<initq, pg, g_poll_groups, g_num_poll_groups>>
    BY DEF Target!migrate_poll_groups_by_rr, Target!SendAll, Target!targetVars
  <1>2. st = 4
    BY <1>a, <1>1, Shapes DEF PollerInv
  <1>3. Full
    BY <1>a, <1>2 DEF Phase
  <1>4. Types'
    <2>1. \A c \in Cores : IsSeq(pgq'[c])
      BY <1>a, <1>1, Appended DEF Types
    <2> QED
      BY <1>a, <1>1, <2>1 DEF Types, st
  <1>5. Full'
    <2>1. ASSUME NEW c \in Cores
          PROVE  \A i \in DOMAIN pgq'[c] : pgq'[c][i] = "migrate"
      <3>1. pgq'[c] = Append(pgq[c], "migrate") /\ IsSeq(pgq[c])
        BY <1>a, <1>1, <1>3 DEF Full, Types
      <3>2. \A i \in DOMAIN pgq[c] : pgq[c][i] = "migrate"
        BY <1>3 DEF Full
      <3> QED
        BY SMTT(30), <3>1, <3>2, Appended, SeqDomain
    <2> QED
      BY <1>1, <1>3, <2>1 DEF Full, NoMsg
  <1>6. st' = st /\ Control' /\ PollerInv' /\ Subsystems'
    BY <1>1 DEF TargetInv, Control, PollerInv, Subsystems, Idle, st
  <1>7. Phase'
    BY SMTT(30), <1>2, <1>5, <1>6 DEF Phase
  <1>8. Messages'
    BY <1>a, <1>1 DEF Messages, Idle, st
  <1>9. GroupAccounting'
    BY <1>1, SameAccounts DEF TargetInv
  <1> QED
    BY <1>4, <1>6, <1>7, <1>8, <1>9 DEF TargetInv

\* The start.
LEMMA StartInv ==
  ASSUME Counting, TargetInv, Target!nvmf_target_app_start
  PROVE  TargetInv'
  <1>a. Types /\ Control /\ Phase /\ PollerInv /\ Subsystems /\ Messages /\ GroupAccounting
    BY DEF TargetInv
  <1>1. /\ initq # <<>> /\ Head(initq)[1] = "app_start" /\ initq' = Tail(initq)
        /\ st' = 0 /\ stack' = <<Sw>> /\ UNCHANGED <<pending, tgt, active, poller>>
        /\ UNCHANGED <<pgq, pg, g_poll_groups, g_num_poll_groups>>
    BY StateNumbers DEF Target!nvmf_target_app_start, Target!Received, Target!Advance,
       Target!groupVars, States, st, Sw
  <1>2. /\ IsSeq(initq') /\ Head(initq) = initq[1] /\ 1 \in DOMAIN initq
        /\ \A m : NoMsg(m) => NoMsg(m)'
    BY <1>a, <1>1, TakenMsg
  <1>3. st = 0 /\ stack = <<>> /\ Idle
    BY <1>a, <1>1, <1>2 DEF Messages
  <1>4. stack' = One(Sw)
    BY <1>1, Stacks
  <1>5. Types' /\ Messages'
    BY SMTT(30), <1>a, <1>1, <1>2, MessagesLeft DEF Types
  <1>6. Control' /\ PollerInv' /\ Subsystems'
    <2>1. Control'
      BY <1>1, <1>3, <1>4 DEF Control, Idle
    <2>2. PollerInv' /\ Subsystems'
      BY <1>a, <1>1, <1>3, <1>4 DEF PollerInv, Subsystems
    <2> QED
      BY <2>1, <2>2
  <1>7. Quiet /\ Quiet'
    <2>1. Quiet
      BY <1>a, <1>3 DEF Phase
    <2> QED
      BY <1>1, <1>2, <2>1 DEF Quiet
  <1>8. Phase'
    BY SMTT(30), <1>7, <1>1 DEF Phase
  <1>9. GroupAccounting'
    <2>1. Target!Alive' = Target!Alive
      BY <1>1 DEF Target!Alive
    <2> QED
      BY SMTT(30), <1>a, <1>1, <2>1, TakenMsg, Accounts
  <1> QED
    BY <1>5, <1>6, <1>8, <1>9 DEF TargetInv

-----------------------------------------------------------------------------
(* The order of the states *)

\* nvmf_poll_groups_create has not made its last thread yet.
Early == st \in {0, 1} \/ (st = 2 /\ stack \in {One(1), One(Sw)})

\* Nothing goes back to before the last thread was made.
LEMMA EarlyStep ==
  ASSUME TargetInv, ~Early,
         \/ Target!AdvanceState \/ Target!Callback \/ Target!InitMessage
         \/ UNCHANGED <<g_target_state, stack>>
  PROVE  ~Early'
  <1>a. Types /\ Control /\ Messages
    BY DEF TargetInv
  <1>b. st \in 2..8 /\ (st = 2 => stack \notin {One(1), One(Sw)})
    BY SMTT(30), <1>a DEF Types, Early
  <1>c. ASSUME st' \in 3..8
        PROVE  ~Early'
    BY SMTT(30), <1>c DEF Early
  <1>1. CASE UNCHANGED <<g_target_state, stack>>
    BY <1>1 DEF Early, st
  <1>2. CASE Target!AdvanceState
    <2>1. CASE Target!loop_test
      <3>1. /\ stack # <<>> /\ Head(stack) # Sw /\ st' = st
            /\ stack' = IF st # Head(stack) THEN <<Sw>> \o Tail(stack) ELSE Tail(stack)
        BY <2>1 DEF Target!loop_test, st, Sw
      <3>2. CASE st = 2
        <4>1. stack = One(2)
          BY SMTT(30), <1>a, <1>b, <3>1, <3>2, TestShapes
        <4>2. stack' = <<>>
          BY <3>1, <3>2, <4>1, Stacks
        <4> QED
          BY <3>1, <3>2, <4>2, Shapes DEF Early
      <3> QED
        BY SMTT(30), <1>b, <1>c, <3>1, <3>2
    <2>2. CASE Target!case_INIT_SUBSYSTEM \/ Target!nvmf_create_nvmf_tgt
      BY SMTT(30), <1>b, <2>2, InCaseShape, StateNumbers
         DEF Target!case_INIT_SUBSYSTEM, Target!nvmf_create_nvmf_tgt, States
    <2>3. CASE Target!nvmf_tgt_start_subsystems \/ Target!case_RUNNING
      <3>1. st' \in 3..8
        BY SMTT(30), <2>3, InCaseShape, StateNumbers
           DEF Target!nvmf_tgt_start_subsystems, Target!case_RUNNING, States, st
      <3> QED
        BY <1>c, <3>1
    <2>4. CASE Target!nvmf_tgt_stop_subsystems
      <3>1. st' \in {st, 6} /\ st = 5
        BY <2>4, InCaseShape, StateNumbers DEF Target!nvmf_tgt_stop_subsystems, Target!StopFrom, States, st
      <3> QED
        BY SMTT(30), <1>c, <3>1
    <2>5. CASE Target!nvmf_poll_groups_destroy \/ Target!nvmf_destroy_nvmf_tgt \/ Target!case_FINI_SUBSYSTEM
      <3>1. st' \in 3..8
        BY SMTT(30), <2>5, InCaseShape, StateNumbers
           DEF Target!nvmf_poll_groups_destroy, Target!nvmf_destroy_nvmf_tgt,
               Target!case_FINI_SUBSYSTEM, States, st
      <3> QED
        BY <1>c, <3>1
    <2> QED
      BY <1>2, <2>1, <2>2, <2>3, <2>4, <2>5 DEF Target!AdvanceState
  <1>3. CASE Target!Callback
    <2>1. CASE Target!nvmf_subsystem_init_done
      <3>1. pending.op = "subsys_init"
        BY <2>1 DEF Target!nvmf_subsystem_init_done, Target!Called
      <3> QED
        BY SMTT(30), <1>a, <1>b, <3>1 DEF Control, Idle
    <2>2. CASE Target!nvmf_tgt_subsystem_start_next
      <3>1. st' \in 3..8 \/ UNCHANGED <<g_target_state, stack>>
        BY SMTT(30), <2>2, StateNumbers DEF Target!nvmf_tgt_subsystem_start_next, Target!Advance, States, st
      <3> QED
        BY <1>1, <1>c, <3>1
    <2>3. CASE Target!nvmf_tgt_subsystem_stop_next
      <3>1. pending.op = "stop" /\ st' \in {st, 6}
        BY <2>3, StateNumbers DEF Target!nvmf_tgt_subsystem_stop_next, Target!Called, Target!StopFrom, States, st
      <3>2. st = 5
        BY <1>a, <3>1 DEF Control, Idle
      <3> QED
        BY SMTT(30), <1>c, <3>1, <3>2
    <2>4. CASE Target!nvmf_tgt_destroy_done
      <3>1. st' = 8
        BY <2>4, StateNumbers DEF Target!nvmf_tgt_destroy_done, Target!Advance, States, st
      <3> QED
        BY SMTT(30), <1>c, <3>1
    <2>5. CASE Target!nvmf_subsystem_fini_done
      BY <1>1, <2>5 DEF Target!nvmf_subsystem_fini_done
    <2> QED
      BY <1>3, <2>1, <2>2, <2>3, <2>4, <2>5 DEF Target!Callback
  <1>4. CASE Target!InitMessage
    <2>1. CASE Target!nvmf_target_app_start
      <3>1. initq # <<>> /\ Head(initq)[1] = "app_start" /\ initq' = Tail(initq)
        BY <2>1 DEF Target!nvmf_target_app_start, Target!Received
      <3>2. st = 0
        BY SMTT(30), <1>a, <3>1, TakenMsg DEF Messages
      <3> QED
        BY SMTT(30), <1>b, <3>2
    <2>2. CASE Target!nvmf_tgt_create_poll_groups_done
      <3>1. st' = 3 \/ UNCHANGED <<g_target_state, stack>>
        BY <2>2, StateNumbers DEF Target!nvmf_tgt_create_poll_groups_done, Target!Advance, States, st
      <3> QED
        BY SMTT(30), <1>1, <1>c, <3>1
    <2>3. CASE Target!_nvmf_tgt_destroy_poll_groups_done
      <3>1. st' = 7 \/ UNCHANGED <<g_target_state, stack>>
        BY <2>3, StateNumbers DEF Target!_nvmf_tgt_destroy_poll_groups_done, Target!Advance, States, st
      <3> QED
        BY SMTT(30), <1>1, <1>c, <3>1
    <2>4. CASE Target!_nvmf_shutdown_cb
      <3>1. st \in Int /\ Target!RUNNING = 4 /\ Target!FINI_STOP_SUBSYSTEMS = 5
        BY SMTT(30), <1>b, StateNumbers DEF States
      <3>2. \/ st < 4 /\ ~(st > 4) /\ st # 4
            \/ ~(st < 4) /\ st > 4 /\ st # 4
            \/ ~(st < 4) /\ ~(st > 4) /\ st = 4
        BY SMTT(30), <3>1
      <3>3. st' = 5 \/ UNCHANGED <<g_target_state, stack>>
        BY <2>4, <3>1, <3>2, ZenonT(30) DEF Target!_nvmf_shutdown_cb, Target!Advance, st
      <3> QED
        BY SMTT(30), <1>1, <1>c, <3>3
    <2> QED
      BY <1>4, <2>1, <2>2, <2>3, <2>4 DEF Target!InitMessage
  <1> QED
    BY <1>1, <1>2, <1>3, <1>4

=============================================================================
