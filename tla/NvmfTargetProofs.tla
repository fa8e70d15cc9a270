-------------------------- MODULE NvmfTargetProofs -------------------------
(***************************************************************************)
(* The steps of the NVMe-oF target that register, stop and destroy poll    *)
(* groups preserve the invariant of NvmfTargetSteps, and the theorems about*)
(* the target that follow: for any number of cores and subsystems, any     *)
(* failures, and any order of messages, callbacks, polls and signals.      *)
(***************************************************************************)
EXTENDS NvmfTargetSteps, FiniteSetTheorems

USE ZenonT(30)

\* A group is registered; with the last one all are, none is on its way, and the
\* subsystems are started.
LEMMA RegisterInv ==
  ASSUME Counting, TargetInv, Target!nvmf_tgt_create_poll_groups_done
  PROVE  TargetInv'
  <1>a. Types /\ Control /\ Phase /\ PollerInv /\ Subsystems /\ Messages /\ GroupAccounting
    BY DEF TargetInv
  <1>1. /\ stack = <<>> /\ initq # <<>> /\ Head(initq)[1] = "pg_done" /\ initq' = Tail(initq)
        /\ g_poll_groups' = g_poll_groups \cup {Head(initq)[2]}
        /\ g_num_poll_groups' = g_num_poll_groups + 1
        /\ IF g_num_poll_groups' = Cardinality(Cores)
           THEN st' = 3 /\ stack' = <<Sw>> ELSE st' = st /\ stack' = stack
        /\ UNCHANGED <<pending, pgq, pg, tgt, active, poller>>
    BY StateNumbers, SameCardinality DEF Target!nvmf_tgt_create_poll_groups_done, Target!Received,
       Target!Advance, States, st, Sw
  <1>2. /\ IsSeq(initq') /\ Head(initq) = initq[1] /\ 1 \in DOMAIN initq
        /\ \A m : NoMsg(m) => NoMsg(m)'
        /\ \A i \in DOMAIN initq :
             i # 1 => i \in Int /\ i - 1 \in DOMAIN initq' /\ initq'[i - 1] = initq[i]
    BY <1>a, <1>1, TakenMsg
  <1>3. initq[1] = <<"pg_done", initq[1][2]>> /\ initq[1][2] \in Cores
    BY <1>a, <1>1, <1>2 DEF Messages
  <1>4. st = 2 /\ Starting
    <2>1. ~NoMsg("pg_done")
      BY <1>1, <1>2 DEF NoMsg
    <2>2. ~Quiet /\ ~Full /\ ~Ending /\ ~Gone
      BY <2>1 DEF Quiet, Full, Ending, Gone
    <2> QED
      BY SMTT(30), <1>a, <1>1, <2>2, Shapes DEF Phase, Types
  <1>5. Types' /\ Messages'
    <2>1. st' \in 0..8
      BY SMTT(30), <1>1, <1>4
    <2> QED
      BY SMTT(30), <1>a, <1>1, <1>2, <1>3, <2>1, MessagesLeft DEF Types
  <1>b. Target!Alive' = Target!Alive
    BY <1>1 DEF Target!Alive
  <1>c. "destroy_done" # "pg_done"
    OBVIOUS
  <1>d. /\ Cardinality(With(initq', "pg_done")) = Cardinality(With(initq, "pg_done")) - 1
        /\ Cardinality(With(initq', "destroy_done")) = Cardinality(With(initq, "destroy_done"))
        /\ Cardinality(With(initq', "pg_done")) \in Nat
        /\ Cardinality(With(initq, "pg_done")) \in Nat
        /\ Cardinality(With(initq, "destroy_done")) \in Nat
    BY SMTT(30), <1>a, <1>1, <1>c, TakenMsg
  <1>e. g_num_poll_groups \in Int /\ Cardinality(Target!Alive) \in Nat
    BY <1>a, AliveFinite DEF Types
  <1>6. GroupAccounting'
    BY SMTT(30), <1>a, <1>1, <1>b, <1>d, <1>e, Accounts
  <1>7. CASE g_num_poll_groups' = Cardinality(Cores)
    <2>1. st' = 3 /\ stack' = One(Sw) /\ Idle
      BY SMTT(30), <1>1, <1>4, <1>7, <1>a, Stacks DEF Control
    <2>2. Cardinality(With(initq, "destroy_done")) = 0
      BY <1>a, <1>4, WithFinite DEF Starting, NoMsg, Types
    <2>3. Cardinality(With(initq', "pg_done")) = 0 /\ Target!Alive = Cores
      BY SMTT(30), <1>6, <1>7, <1>b, <1>d, <2>2, Accounts, AliveFinite
    <2>4. NoMsg("pg_done")' /\ NoMsg("destroy_done")'
      <3>1. \A i \in DOMAIN initq' : initq'[i][1] # "pg_done"
        BY <1>2, <2>3, WithFinite
      <3>2. NoMsg("destroy_done")'
        BY <1>2, <1>4 DEF Starting
      <3> QED
        BY <3>1, <3>2 DEF NoMsg
    <2>5. \A c \in Cores : pg[c] = "up" /\ pgq[c] = <<>>
      BY <1>4, <2>3 DEF Starting, Target!Alive
    <2>6. \A c \in Cores : c \in g_poll_groups'
      <3> TAKE c \in Cores
      <3>1. CASE c \in g_poll_groups
        BY <1>1, <3>1
      <3>2. CASE \E i \in DOMAIN initq : initq[i] = <<"pg_done", c>>
        <4>1. PICK i \in DOMAIN initq : initq[i] = <<"pg_done", c>>
          BY <3>2
        <4>2. i = 1
          BY SMTT(30), <1>2, <2>4, <4>1 DEF NoMsg
        <4> QED
          BY SMTT(30), <1>1, <1>2, <4>1, <4>2
      <3> QED
        BY <1>4, <2>5, <3>1, <3>2 DEF Starting
    <2>7. Full'
      BY SMTT(30), <1>1, <1>5, <2>4, <2>5, <2>6 DEF Full, Types
    <2>8. Control' /\ Phase'
      BY SMTT(30), <1>1, <2>1, <2>7 DEF Control, Phase, Idle
    <2>9. PollerInv' /\ Subsystems'
      BY SMTT(30), <1>a, <1>1, <1>4, <2>1 DEF PollerInv, Subsystems, Idle
    <2> QED
      BY <1>5, <1>6, <2>8, <2>9 DEF TargetInv
  <1>8. CASE g_num_poll_groups' # Cardinality(Cores)
    <2>1. st' = 2 /\ stack' = <<>>
      BY <1>1, <1>4, <1>8
    <2>2. Control' /\ PollerInv' /\ Subsystems'
      BY <1>a, <1>1, <1>4, <2>1 DEF Control, PollerInv, Subsystems, Idle
    <2>3. \A c \in Cores :
            (\E i \in DOMAIN initq : initq[i] = <<"pg_done", c>>)
              => \/ c \in g_poll_groups'
                 \/ \E i \in DOMAIN initq' : initq'[i] = <<"pg_done", c>>
      <3> TAKE c \in Cores
      <3> SUFFICES ASSUME c \notin g_poll_groups', NEW i \in DOMAIN initq,
                          initq[i] = <<"pg_done", c>>
                   PROVE  \E k \in DOMAIN initq' : initq'[k] = <<"pg_done", c>>
        OBVIOUS
      <3>1. i # 1
        BY SMTT(30), <1>1, <1>2
      <3> QED
        BY <1>2, <3>1
    <2>4. Starting'
      BY <1>1, <1>2, <1>4, <2>3 DEF Starting
    <2>5. Phase'
      BY SMTT(30), <2>1, <2>4, Shapes DEF Phase
    <2> QED
      BY <1>5, <1>6, <2>2, <2>5 DEF TargetInv
  <1> QED
    BY <1>7, <1>8

\* A group has gone; with the last one none is alive, and the target is destroyed.
LEMMA DeregisterInv ==
  ASSUME Counting, TargetInv, Target!_nvmf_tgt_destroy_poll_groups_done
  PROVE  TargetInv'
  <1>a. Types /\ Control /\ Phase /\ PollerInv /\ Subsystems /\ Messages /\ GroupAccounting
    BY DEF TargetInv
  <1>1. /\ stack = <<>> /\ initq # <<>> /\ Head(initq)[1] = "destroy_done" /\ initq' = Tail(initq)
        /\ g_num_poll_groups' = g_num_poll_groups - 1
        /\ IF g_num_poll_groups' = 0
           THEN st' = 7 /\ stack' = <<Sw>> ELSE st' = st /\ stack' = stack
        /\ UNCHANGED <<pending, pgq, pg, g_poll_groups, tgt, active, poller>>
    BY StateNumbers DEF Target!_nvmf_tgt_destroy_poll_groups_done, Target!Received,
       Target!Advance, States, st, Sw
  <1>2. /\ IsSeq(initq') /\ Head(initq) = initq[1] /\ 1 \in DOMAIN initq
        /\ \A m : NoMsg(m) => NoMsg(m)'
    BY <1>a, <1>1, TakenMsg
  <1>3. st = 6 /\ Ending
    <2>1. ~NoMsg("destroy_done")
      BY <1>1, <1>2 DEF NoMsg
    <2>2. ~Quiet /\ ~Full /\ ~Starting /\ ~Gone
      BY <2>1 DEF Quiet, Full, Starting, Gone
    <2> QED
      BY SMTT(30), <1>a, <1>1, <2>2, Shapes DEF Phase, Types
  <1>4. Types' /\ Messages'
    <2>1. st' \in 0..8
      BY SMTT(30), <1>1, <1>3
    <2> QED
      BY SMTT(30), <1>a, <1>1, <1>2, <2>1, MessagesLeft DEF Types
  <1>b. Target!Alive' = Target!Alive
    BY <1>1 DEF Target!Alive
  <1>c. "destroy_done" # "pg_done"
    OBVIOUS
  <1>d. /\ Cardinality(With(initq', "destroy_done")) = Cardinality(With(initq, "destroy_done")) - 1
        /\ Cardinality(With(initq', "pg_done")) = Cardinality(With(initq, "pg_done"))
        /\ Cardinality(With(initq', "destroy_done")) \in Nat
        /\ Cardinality(With(initq, "destroy_done")) \in Nat
        /\ Cardinality(With(initq, "pg_done")) \in Nat
    BY SMTT(30), <1>a, <1>1, <1>c, TakenMsg
  <1>e. g_num_poll_groups \in Int /\ Cardinality(Target!Alive) \in Nat
    BY <1>a, AliveFinite DEF Types
  <1>5. /\ GroupAccounting'
        /\ g_num_poll_groups' + Cardinality(With(initq, "pg_done"))
             = Cardinality(Target!Alive) + Cardinality(With(initq', "destroy_done"))
    <2>1. g_num_poll_groups + Cardinality(With(initq, "pg_done"))
            = Cardinality(Target!Alive) + Cardinality(With(initq, "destroy_done"))
      BY <1>a, Accounts
    <2>2. g_num_poll_groups' = g_num_poll_groups - 1
      BY <1>1
    <2>3. g_num_poll_groups' + Cardinality(With(initq, "pg_done"))
            = Cardinality(Target!Alive) + Cardinality(With(initq', "destroy_done"))
      BY SMTT(30), <2>1, <2>2, <1>d, <1>e
    <2> QED
      BY <2>3, <1>b, <1>d, Accounts
  <1>6. Idle
    BY SMTT(30), <1>a, <1>3 DEF Control
  <1>7. CASE g_num_poll_groups' = 0
    <2>1. st' = 7 /\ stack' = One(Sw)
      BY <1>1, <1>7, Stacks
    <2>2. Cardinality(With(initq, "pg_done")) = 0
      BY <1>a, <1>3, WithFinite DEF Ending, NoMsg, Types
    <2>3. Cardinality(With(initq', "destroy_done")) = 0 /\ Target!Alive = {}
      <3>1. Cardinality(With(initq', "destroy_done")) = 0 /\ Cardinality(Target!Alive) = 0
        BY SMTT(30), <1>5, <1>7, <1>d, <1>e, <2>2
      <3> QED
        BY <3>1, AliveFinite
    <2>4. \A i \in DOMAIN initq' : initq'[i][1] # "destroy_done"
      BY <1>2, <2>3, WithFinite
    <2>5. \A c \in Cores : pg[c] = "gone" /\ pgq[c] = <<>>
      BY <1>3, <2>3 DEF Ending, Target!Alive
    <2>6. Gone'
      BY <1>1, <1>2, <1>3, <2>4, <2>5 DEF Gone, Ending, NoMsg
    <2>7. Control' /\ Phase'
      BY SMTT(30), <1>1, <1>6, <2>1, <2>6 DEF Control, Phase, Idle
    <2>8. PollerInv' /\ Subsystems'
      BY SMTT(30), <1>a, <1>1, <1>3, <1>6, <2>1 DEF PollerInv, Subsystems, Idle
    <2> QED
      BY <1>4, <1>5, <2>7, <2>8 DEF TargetInv
  <1>8. CASE g_num_poll_groups' # 0
    <2>1. st' = 6 /\ stack' = <<>>
      BY <1>1, <1>3, <1>8
    <2>2. Control' /\ PollerInv' /\ Subsystems'
      BY <1>a, <1>1, <1>3, <2>1 DEF Control, PollerInv, Subsystems, Idle
    <2>3. Ending'
      BY <1>1, <1>2, <1>3 DEF Ending
    <2>4. Phase'
      BY SMTT(30), <2>1, <2>3, Shapes DEF Phase
    <2> QED
      BY <1>4, <1>5, <2>2, <2>4 DEF TargetInv
  <1> QED
    BY <1>7, <1>8

\* Two queues of g_init_thread with the same messages about groups.
About == {"pg_done", "destroy_done"}
Kept(q, r) ==
  /\ IsSeq(r)
  /\ \A i \in DOMAIN r : r[i][1] \in About => \E k \in DOMAIN q : q[k] = r[i]
  /\ \A i \in DOMAIN q : q[i][1] \in About => \E k \in DOMAIN r : r[k] = q[i]
  /\ \A m \in About : Cardinality(With(r, m)) = Cardinality(With(q, m))

\* Another message is sent.
LEMMA KeptAppend ==
  ASSUME Counting, NEW q, IsSeq(q), NEW e, e[1] \notin About
  PROVE  Kept(q, Append(q, e))
  <1> DEFINE r == Append(q, e)
  <1>1. /\ IsSeq(r) /\ Len(q) \in Nat
        /\ DOMAIN r = 1..Len(q) + 1 /\ DOMAIN q = 1..Len(q)
        /\ \A i \in 1..Len(q) : r[i] = q[i]
        /\ r[Len(q) + 1] = e
    BY SMTT(30), Appended, SeqDomain
  <1>2. \A m \in About : Cardinality(With(r, m)) = Cardinality(With(q, m)) + (IF e[1] = m THEN 1 ELSE 0)
    BY WithAppend
  <1>3. \A m \in About : Cardinality(With(r, m)) = Cardinality(With(q, m))
    BY SMTT(30), <1>2, WithFinite
  <1> HIDE DEF r
  <1>4. \A i \in DOMAIN r : r[i][1] \in About => \E k \in DOMAIN q : q[k] = r[i]
    BY SMTT(30), <1>1
  <1>5. \A i \in DOMAIN q : q[i][1] \in About => \E k \in DOMAIN r : r[k] = q[i]
    BY SMTT(30), <1>1
  <1> QED
    BY <1>1, <1>3, <1>4, <1>5 DEF Kept, r

\* Another message is taken.
LEMMA KeptTail ==
  ASSUME Counting, NEW q, IsSeq(q), q # <<>>, Head(q)[1] \notin About
  PROVE  Kept(q, Tail(q))
  <1> DEFINE r == Tail(q)
  <1>1. /\ IsSeq(r) /\ Len(q) \in Nat \ {0} /\ Head(q) = q[1]
        /\ DOMAIN r = 1..Len(q) - 1 /\ DOMAIN q = 1..Len(q)
        /\ \A i \in 1..Len(q) - 1 : r[i] = q[i + 1]
    BY Tailed, SeqDomain
  <1>2. \A m \in About : Cardinality(With(r, m)) = Cardinality(With(q, m)) - (IF Head(q)[1] = m THEN 1 ELSE 0)
    BY WithTail
  <1>3. \A m \in About : Cardinality(With(r, m)) = Cardinality(With(q, m))
    BY SMTT(30), <1>2, WithFinite
  <1> HIDE DEF r
  <1>4. \A i \in DOMAIN r : r[i][1] \in About => \E k \in DOMAIN q : q[k] = r[i]
    BY SMTT(30), <1>1
  <1>5. ASSUME NEW i \in DOMAIN q, q[i][1] \in About
        PROVE  \E k \in DOMAIN r : r[k] = q[i]
    <2>1. i # 1
      BY <1>1, <1>5
    <2>2. i - 1 \in DOMAIN r /\ r[i - 1] = q[i]
      BY SMTT(30), <1>1, <1>5, <2>1
    <2> QED
      BY <2>2
  <1> QED
    BY <1>1, <1>3, <1>4, <1>5 DEF Kept, r

\* A message to g_init_thread that is not about a group.
LEMMA OtherMsg ==
  ASSUME TargetInv, Kept(initq, initq'),
         UNCHANGED <<pgq, pg, g_poll_groups, g_num_poll_groups>>
  PROVE  /\ IsSeq(initq') /\ GroupAccounting'
         /\ Quiet => Quiet'
         /\ Starting => Starting'
         /\ Full => Full'
         /\ Ending => Ending'
         /\ Gone => Gone'
  <1>1. Types /\ GroupAccounting
    BY DEF TargetInv
  <1>a. Target!Alive' = Target!Alive
    BY DEF Target!Alive
  <1>2. /\ IsSeq(initq')
        /\ Cardinality(With(initq', "pg_done")) = Cardinality(With(initq, "pg_done"))
        /\ Cardinality(With(initq', "destroy_done")) = Cardinality(With(initq, "destroy_done"))
    BY DEF Kept, About
  <1>3. GroupAccounting'
    BY <1>1, <1>2, <1>a, Accounts
  <1>4. NoMsg("pg_done") => NoMsg("pg_done")'
    BY DEF Kept, About, NoMsg
  <1>5. NoMsg("destroy_done") => NoMsg("destroy_done")'
    BY DEF Kept, About, NoMsg
  <1>6. \A c : (\E i \in DOMAIN initq : initq[i] = <<"pg_done", c>>) =>
                 (\E i \in DOMAIN initq' : initq'[i] = <<"pg_done", c>>)
    BY SMTT(30) DEF Kept, About
  <1>7. Starting => Starting'
    BY <1>5, <1>6 DEF Starting
  <1> QED
    BY <1>2, <1>3, <1>4, <1>5, <1>7 DEF Quiet, Full, Ending, Gone

\* The signal handler.
LEMMA SignalInv ==
  ASSUME Counting, TargetInv, Target!nvmf_shutdown_cb
  PROVE  TargetInv'
  <1>1. /\ Types /\ Messages /\ initq' = Append(initq, <<"shutdown">>)
        /\ UNCHANGED <<g_target_state, stack, pending, active, poller, tgt>>
        /\ UNCHANGED <<pgq, pg, g_poll_groups, g_num_poll_groups>>
    BY DEF TargetInv, Target!nvmf_shutdown_cb, Target!targetVars, Target!groupVars
  <1>2. <<"shutdown">>[1] = "shutdown" /\ "shutdown" \notin About
    BY DEF About
  <1>3. Kept(initq, initq')
    BY <1>1, <1>2, KeptAppend DEF Types
  <1>4. Types'
    BY <1>1, <1>3 DEF Types, Kept, st
  <1>5. Messages'
    <2>1. \A i \in DOMAIN initq' :
            \/ i \in DOMAIN initq /\ initq'[i] = initq[i]
            \/ initq'[i] = <<"shutdown">>
      BY <1>1, SentMsg
    <2> QED
      BY <1>1, <1>2, <2>1 DEF Messages, Idle, st
  <1> QED
    BY <1>1, <1>3, <1>4, <1>5, OtherMsg, GroupInv

\* What g_init_thread makes of it.
LEMMA ShutdownInv ==
  ASSUME Counting, TargetInv, Target!_nvmf_shutdown_cb
  PROVE  TargetInv'
  <1>a. Types /\ Messages /\ Control /\ Phase /\ PollerInv /\ Subsystems
    BY DEF TargetInv
  <1>1. /\ stack = <<>> /\ initq # <<>> /\ Head(initq)[1] = "shutdown"
        /\ UNCHANGED <<pending, active, poller, tgt>>
        /\ UNCHANGED <<pgq, pg, g_poll_groups, g_num_poll_groups>>
        /\ \/ initq' = Append(Tail(initq), <<"shutdown">>) /\ UNCHANGED <<g_target_state, stack>>
           \/ initq' = Tail(initq) /\ UNCHANGED <<g_target_state, stack>>
           \/ initq' = Tail(initq) /\ st = 4 /\ st' = 5 /\ stack' = <<Sw>>
    <2>1. st \in 0..8 /\ Target!RUNNING = 4 /\ Target!FINI_STOP_SUBSYSTEMS = 5
      BY <1>a, StateNumbers DEF Types, States
    <2>2. \/ st < 4 /\ ~(st > 4) /\ st # 4
          \/ ~(st < 4) /\ st > 4 /\ st # 4
          \/ ~(st < 4) /\ ~(st > 4) /\ st = 4
      BY SMTT(30), <2>1
    <2> QED
      BY <2>1, <2>2 DEF Target!_nvmf_shutdown_cb, Target!Received, Target!Advance,
         Target!groupVars, st, Sw
  <1>2. <<"shutdown">>[1] = "shutdown" /\ "shutdown" \notin About
    BY DEF About
  <1>3. IsSeq(initq) /\ IsSeq(Tail(initq)) /\ Kept(initq, Tail(initq))
    BY <1>a, <1>1, <1>2, KeptTail, Tailed DEF Types
  <1>4. Kept(initq, initq')
    <2>1. CASE initq' = Tail(initq)
      BY <1>3, <2>1
    <2>2. CASE initq' = Append(Tail(initq), <<"shutdown">>)
      <3>1. Kept(Tail(initq), initq')
        BY <1>2, <1>3, <2>2, KeptAppend
      <3> QED
        BY SMTT(30), <1>3, <3>1 DEF Kept
    <2> QED
      BY <1>1, <2>1, <2>2
  <1>5. st' \in 0..8
    BY SMTT(30), <1>1, <1>a DEF Types, st
  <1>6. Types'
    BY <1>a, <1>1, <1>4, <1>5 DEF Types, Kept
  <1>7. \A i \in DOMAIN initq' :
          /\ initq'[i][1] # "app_start"
          /\ initq'[i][1] = "pg_done" => \E k \in DOMAIN initq : initq[k] = initq'[i]
    <2>1. /\ Head(initq) = initq[1]
          /\ DOMAIN Tail(initq) = 1..Len(initq) - 1 /\ DOMAIN initq = 1..Len(initq)
          /\ \A i \in 1..Len(initq) - 1 : Tail(initq)[i] = initq[i + 1]
          /\ Len(initq) \in Nat
      BY <1>1, <1>3, Tailed, SeqDomain
    <2>2. \A i \in DOMAIN initq : initq[i][1] # "app_start"
      BY <1>a, <1>1, <2>1 DEF Messages
    <2>3. \A i \in DOMAIN Tail(initq) : Tail(initq)[i][1] # "app_start"
      BY SMTT(30), <2>1, <2>2
    <2>4. \A i \in DOMAIN initq' : \/ i \in DOMAIN Tail(initq) /\ initq'[i] = Tail(initq)[i]
                                   \/ initq'[i] = <<"shutdown">>
      <3>1. CASE initq' = Tail(initq)
        BY <3>1
      <3>2. CASE initq' = Append(Tail(initq), <<"shutdown">>)
        <4> DEFINE t == Tail(initq)
                   e == <<"shutdown">>
        <4>1. IsSeq(t) /\ initq' = Append(t, e)
          BY <1>3, <3>2
        <4> HIDE DEF t, e
        <4>2. \A i \in DOMAIN initq' : (i \in DOMAIN t /\ initq'[i] = t[i]) \/ initq'[i] = e
          BY SMTT(30), <4>1, Appended, SeqDomain
        <4> QED
          BY <4>2 DEF t, e
      <3> QED
        BY <1>1, <3>1, <3>2
    <2> QED
      BY <1>2, <1>4, <2>3, <2>4 DEF Kept, About
  <1>8. Messages'
    BY SMTT(30), <1>a, <1>7 DEF Messages
  <1>9. CASE UNCHANGED <<g_target_state, stack>>
    BY <1>1, <1>4, <1>6, <1>8, <1>9, OtherMsg, GroupInv
  <1>10. CASE st = 4 /\ st' = 5 /\ stack' = <<Sw>>
    <2>1. stack' = One(Sw) /\ Idle
      BY SMTT(30), <1>10, <1>a, Stacks DEF Control
    <2>2. GroupAccounting' /\ Full'
      BY <1>1, <1>4, <1>10, <1>a, OtherMsg DEF Phase
    <2>3. Control' /\ Phase'
      BY SMTT(30), <1>1, <1>10, <2>1, <2>2, Shapes DEF Control, Phase, Idle
    <2>4. PollerInv' /\ Subsystems'
      BY SMTT(30), <1>a, <1>1, <1>10, <2>1 DEF PollerInv, Subsystems, Idle
    <2> QED
      BY <1>6, <1>8, <2>2, <2>3, <2>4 DEF TargetInv
  <1> QED
    BY <1>1, <1>9, <1>10

\* The groups are at some stage of their life.
LEMMA SomePhase ==
  ASSUME TargetInv
  PROVE  Quiet \/ Starting \/ Full \/ Ending \/ Gone
  <1>1. Types /\ Control /\ Phase
    BY DEF TargetInv
  <1>2. st = 2 => stack \in {One(1), One(Sw), One(2), <<>>}
    BY SMTT(30), <1>1 DEF Control
  <1>3. st = 6 => stack \in {Two(Sw, 5), Two(6, 5), One(5), One(Sw), One(6), <<>>}
    BY SMTT(30), <1>1 DEF Control
  <1>4. st \in 0..8
    BY <1>1 DEF Types
  <1>5. st \in {2, 6} => Quiet \/ Starting \/ Full \/ Ending
    BY <1>1, <1>2, <1>3 DEF Phase
  <1> QED
    BY SMTT(30), <1>1, <1>4, <1>5 DEF Phase

\* A poll-group thread takes a message.
LEMMA PgTaken ==
  ASSUME Types, NEW c \in Cores, pgq[c] # <<>>, pgq' = [pgq EXCEPT ![c] = Tail(@)]
  PROVE  /\ DOMAIN pgq' = Cores /\ \A d \in Cores : IsSeq(pgq'[d])
         /\ pgq'[c] = Tail(pgq[c]) /\ \A d \in Cores \ {c} : pgq'[d] = pgq[d]
         /\ Head(pgq[c]) = pgq[c][1] /\ 1 \in DOMAIN pgq[c]
         /\ Len(pgq[c]) \in Nat \ {0} /\ DOMAIN pgq[c] = 1..Len(pgq[c])
         /\ DOMAIN pgq'[c] = 1..Len(pgq[c]) - 1 /\ Len(pgq'[c]) = Len(pgq[c]) - 1
         /\ \A i \in 1..Len(pgq[c]) - 1 : pgq'[c][i] = pgq[c][i + 1]
         /\ Len(pgq[c]) = 1 <=> pgq'[c] = <<>>
  <1>1. IsSeq(pgq[c])
    BY DEF Types
  <1>2. /\ DOMAIN pgq' = Cores
        /\ pgq'[c] = Tail(pgq[c]) /\ \A d \in Cores \ {c} : pgq'[d] = pgq[d]
    BY DEF Types
  <1>3. IsSeq(pgq'[c])
    BY <1>1, <1>2, Tailed
  <1>4. \A d \in Cores : IsSeq(pgq'[d])
    BY <1>2, <1>3 DEF Types
  <1>5. /\ Head(pgq[c]) = pgq[c][1] /\ 1 \in DOMAIN pgq[c]
        /\ Len(pgq[c]) \in Nat \ {0} /\ DOMAIN pgq[c] = 1..Len(pgq[c])
        /\ DOMAIN pgq'[c] = 1..Len(pgq[c]) - 1 /\ Len(pgq'[c]) = Len(pgq[c]) - 1
        /\ \A i \in 1..Len(pgq[c]) - 1 : pgq'[c][i] = pgq[c][i + 1]
    BY <1>1, <1>2, Tailed, SeqDomain
  <1>6. Len(pgq[c]) = 1 <=> pgq'[c] = <<>>
    <2>1. pgq'[c] = <<>> <=> Len(pgq'[c]) = 0
      BY <1>3, SeqDomain, ZenonT(30)
    <2> QED
      BY SMTT(30), <1>5, <2>1
  <1> QED
    BY <1>2, <1>4, <1>5, <1>6

\* The thread makes its group.
LEMMA PgCreateInv ==
  ASSUME Counting, TargetInv, NEW c \in Cores, Target!nvmf_tgt_create_poll_group(c)
  PROVE  TargetInv'
  <1>a. Types /\ Messages /\ GroupAccounting
    BY DEF TargetInv
  <1>1. /\ pgq[c] # <<>> /\ Head(pgq[c]) = "create_pg"
        /\ pgq' = [pgq EXCEPT ![c] = Tail(@)]
        /\ pg' = [pg EXCEPT ![c] = "up"]
        /\ initq' = Append(initq, <<"pg_done", c>>)
        /\ UNCHANGED <<g_target_state, stack, pending, active, poller, tgt>>
        /\ UNCHANGED <<g_poll_groups, g_num_poll_groups>>
    BY DEF Target!nvmf_tgt_create_poll_group, Target!PgReceived, Target!targetVars
  <1>2. /\ DOMAIN pgq' = Cores /\ \A d \in Cores : IsSeq(pgq'[d])
        /\ pgq'[c] = Tail(pgq[c]) /\ \A d \in Cores \ {c} : pgq'[d] = pgq[d]
        /\ pgq[c][1] = "create_pg" /\ 1 \in DOMAIN pgq[c]
    BY <1>a, <1>1, PgTaken, ZenonT(30)
  <1>3. ~Quiet /\ ~Full /\ ~Ending /\ ~Gone
    BY <1>1, <1>2 DEF Quiet, Full, Ending, Gone
  <1>4. Starting
    BY <1>3, SomePhase
  <1>b. Tail(<<"create_pg">>) = <<>>
    BY SMTT(30)
  <1>5. pg[c] = "none" /\ pgq'[c] = <<>>
    BY <1>1, <1>2, <1>4, <1>b, ZenonT(30) DEF Starting
  <1>6. pg' \in [Cores -> Groups] /\ pg'[c] = "up" /\ \A d \in Cores \ {c} : pg'[d] = pg[d]
    BY <1>a, <1>1 DEF Types, Groups
  <1>7. /\ IsSeq(initq') /\ (NoMsg("destroy_done") => NoMsg("destroy_done")')
        /\ \A i \in DOMAIN initq : i \in DOMAIN initq' /\ initq'[i] = initq[i]
        /\ \A i \in DOMAIN initq' : i \in DOMAIN initq \/ initq'[i] = <<"pg_done", c>>
        /\ \E i \in DOMAIN initq' : initq'[i] = <<"pg_done", c>>
        /\ Cardinality(With(initq', "pg_done")) = Cardinality(With(initq, "pg_done")) + 1
        /\ Cardinality(With(initq', "destroy_done")) = Cardinality(With(initq, "destroy_done"))
        /\ Cardinality(With(initq, "pg_done")) \in Nat
        /\ Cardinality(With(initq, "destroy_done")) \in Nat
    <2> DEFINE e == <<"pg_done", c>>
    <2>1. e[1] = "pg_done" /\ initq' = Append(initq, e)
      BY <1>1
    <2> HIDE DEF e
    <2>2. /\ IsSeq(initq') /\ (NoMsg("destroy_done") => NoMsg("destroy_done")')
          /\ \A i \in DOMAIN initq : i \in DOMAIN initq' /\ initq'[i] = initq[i]
          /\ \A i \in DOMAIN initq' : i \in DOMAIN initq \/ initq'[i] = e
          /\ \E i \in DOMAIN initq' : initq'[i] = e
      BY <1>a, <2>1, SentMsg
    <2>3. /\ \A m : Cardinality(With(initq', m))
                      = Cardinality(With(initq, m)) + (IF e[1] = m THEN 1 ELSE 0)
          /\ \A m : Cardinality(With(initq, m)) \in Nat
      BY <1>a, <2>1, SentMsg
    <2>4. /\ Cardinality(With(initq', "pg_done")) = Cardinality(With(initq, "pg_done")) + 1
          /\ Cardinality(With(initq', "destroy_done")) = Cardinality(With(initq, "destroy_done"))
      BY SMTT(30), <2>1, <2>3
    <2> QED
      BY <2>2, <2>3, <2>4 DEF e
  <1>8. Types'
    BY <1>a, <1>1, <1>2, <1>6, <1>7, ZenonT(30) DEF Types, st
  <1>9. Messages'
    BY SMTT(30), <1>a, <1>1, <1>7 DEF Messages, Idle, st
  <1>10. Starting'
    <2>1. \A d \in Cores :
            \/ pg'[d] = "none" /\ pgq'[d] = <<"create_pg">>
            \/ /\ pg'[d] = "up" /\ pgq'[d] = <<>>
               /\ d \in g_poll_groups \/ \E i \in DOMAIN initq' : initq'[i] = <<"pg_done", d>>
      <3> TAKE d \in Cores
      <3>1. CASE d = c
        BY <1>5, <1>6, <1>7, <3>1
      <3>2. CASE d # c
        BY SMTT(30), <1>2, <1>4, <1>6, <1>7, <3>2 DEF Starting
      <3> QED
        BY <3>1, <3>2
    <2> QED
      BY <1>1, <1>4, <1>7, <2>1, ZenonT(30) DEF Starting
  <1>11. GroupAccounting'
    <2>1. Target!Alive' = Target!Alive \cup {c} /\ c \notin Target!Alive
      BY <1>5, <1>6 DEF Target!Alive
    <2>2. Cardinality(Target!Alive') = Cardinality(Target!Alive) + 1
      BY <2>1, AliveFinite DEF Counting, Changes
    <2>3. g_num_poll_groups \in Int /\ Cardinality(Target!Alive) \in Nat
      BY <1>a, AliveFinite DEF Types
    <2>4. g_num_poll_groups + Cardinality(With(initq, "pg_done"))
            = Cardinality(Target!Alive) + Cardinality(With(initq, "destroy_done"))
      BY <1>a, Accounts
    <2>5. g_num_poll_groups + Cardinality(With(initq', "pg_done"))
            = Cardinality(Target!Alive') + Cardinality(With(initq', "destroy_done"))
      BY SMTT(30), <1>7, <2>2, <2>3, <2>4
    <2> QED
      BY <1>1, <2>5, Accounts
  <1> QED
    BY <1>1, <1>3, <1>8, <1>9, <1>10, <1>11, GroupInv

\* The thread is told to destroy its group: it is its last message.
LEMMA PgDestroyInv ==
  ASSUME TargetInv, NEW c \in Cores, Target!nvmf_tgt_destroy_poll_group(c)
  PROVE  TargetInv'
  <1>a. Types /\ Messages /\ GroupAccounting
    BY DEF TargetInv
  <1>1. /\ pgq[c] # <<>> /\ Head(pgq[c]) = "destroy_pg"
        /\ pgq' = [pgq EXCEPT ![c] = Tail(@)]
        /\ pg' = [pg EXCEPT ![c] = "destroying"]
        /\ UNCHANGED <<g_target_state, stack, pending, active, poller, tgt>>
        /\ UNCHANGED <<initq, g_poll_groups, g_num_poll_groups>>
    BY DEF Target!nvmf_tgt_destroy_poll_group, Target!PgReceived, Target!targetVars
  <1>2. /\ DOMAIN pgq' = Cores /\ \A d \in Cores : IsSeq(pgq'[d])
        /\ \A d \in Cores \ {c} : pgq'[d] = pgq[d]
        /\ pgq[c][1] = "destroy_pg" /\ 1 \in DOMAIN pgq[c]
        /\ Len(pgq[c]) = 1 <=> pgq'[c] = <<>>
    BY <1>a, <1>1, PgTaken
  <1>b. "destroy_pg" # "migrate"
    OBVIOUS
  <1>3. ~Quiet /\ ~Full /\ ~Gone
    BY <1>1, <1>2, <1>b DEF Quiet, Full, Gone
  <1>4. ~Starting
    BY SMTT(30), <1>1 DEF Starting
  <1>5. Ending
    BY <1>3, <1>4, SomePhase
  <1>6. pg[c] = "up" /\ pgq'[c] = <<>>
    BY <1>1, <1>2, <1>5, <1>b DEF Ending
  <1>7. pg' \in [Cores -> Groups] /\ pg'[c] = "destroying" /\ \A d \in Cores \ {c} : pg'[d] = pg[d]
    BY <1>a, <1>1 DEF Types, Groups
  <1>8. Types'
    BY <1>a, <1>1, <1>2, <1>7 DEF Types, st
  <1>9. Messages'
    BY <1>a, <1>1 DEF Messages, Idle, st
  <1>10. Ending'
    <2>1. \A d \in Cores :
            \/ d # c /\ pg'[d] = pg[d] /\ pgq'[d] = pgq[d]
            \/ pg'[d] \in {"destroying", "gone"} /\ pgq'[d] = <<>>
      BY <1>2, <1>6, <1>7
    <2> QED
      BY SMTT(30), <1>1, <1>5, <2>1 DEF Ending, NoMsg
  <1>11. GroupAccounting'
    <2>1. Target!Alive' = Target!Alive
      BY <1>6, <1>7 DEF Target!Alive
    <2> QED
      BY <1>a, <1>1, <2>1, Accounts
  <1> QED
    BY <1>1, <1>3, <1>4, <1>8, <1>9, <1>10, <1>11, GroupInv

\* The group is gone; the thread reports it and exits.
LEMMA PgDoneInv ==
  ASSUME Counting, TargetInv, NEW c \in Cores, Target!nvmf_tgt_destroy_poll_groups_done(c)
  PROVE  TargetInv'
  <1>a. Types /\ Messages /\ GroupAccounting
    BY DEF TargetInv
  <1>1. /\ pg[c] = "destroying"
        /\ pg' = [pg EXCEPT ![c] = "gone"]
        /\ initq' = Append(initq, <<"destroy_done">>)
        /\ UNCHANGED <<g_target_state, stack, pending, active, poller, tgt>>
        /\ UNCHANGED <<pgq, g_poll_groups, g_num_poll_groups>>
    BY DEF Target!nvmf_tgt_destroy_poll_groups_done, Target!targetVars
  <1>2. ~Quiet /\ ~Full /\ ~Gone /\ ~Starting
    BY <1>1 DEF Quiet, Full, Gone, Starting
  <1>3. Ending
    BY <1>2, SomePhase
  <1>4. pgq[c] = <<>>
    BY <1>1, <1>3 DEF Ending
  <1>5. pg' \in [Cores -> Groups] /\ pg'[c] = "gone" /\ \A d \in Cores \ {c} : pg'[d] = pg[d]
    BY <1>a, <1>1 DEF Types, Groups
  <1>6. /\ IsSeq(initq') /\ (NoMsg("pg_done") => NoMsg("pg_done")')
        /\ \A i \in DOMAIN initq :  i \in DOMAIN initq' /\ initq'[i] = initq[i]
        /\ \A i \in DOMAIN initq' : i \in DOMAIN initq \/ initq'[i] = <<"destroy_done">>
        /\ Cardinality(With(initq', "destroy_done")) = Cardinality(With(initq, "destroy_done")) + 1
        /\ Cardinality(With(initq', "pg_done")) = Cardinality(With(initq, "pg_done"))
        /\ Cardinality(With(initq, "pg_done")) \in Nat
        /\ Cardinality(With(initq, "destroy_done")) \in Nat
    <2> DEFINE e == <<"destroy_done">>
    <2>1. e[1] = "destroy_done" /\ initq' = Append(initq, e)
      BY <1>1
    <2> HIDE DEF e
    <2>2. /\ IsSeq(initq') /\ (NoMsg("pg_done") => NoMsg("pg_done")')
          /\ \A i \in DOMAIN initq : i \in DOMAIN initq' /\ initq'[i] = initq[i]
          /\ \A i \in DOMAIN initq' : i \in DOMAIN initq \/ initq'[i] = e
      BY <1>a, <2>1, SentMsg
    <2>3. /\ \A m : Cardinality(With(initq', m))
                      = Cardinality(With(initq, m)) + (IF e[1] = m THEN 1 ELSE 0)
          /\ \A m : Cardinality(With(initq, m)) \in Nat
      BY <1>a, <2>1, SentMsg
    <2>4. /\ Cardinality(With(initq', "destroy_done")) = Cardinality(With(initq, "destroy_done")) + 1
          /\ Cardinality(With(initq', "pg_done")) = Cardinality(With(initq, "pg_done"))
      BY SMTT(30), <2>1, <2>3
    <2> QED
      BY <2>2, <2>3, <2>4 DEF e
  <1>7. Types'
    BY <1>a, <1>1, <1>5, <1>6, ZenonT(30) DEF Types, st
  <1>8. Messages'
    BY SMTT(30), <1>a, <1>1, <1>6 DEF Messages, Idle, st
  <1>9. Ending'
    <2>1. \A d \in Cores :
            \/ d # c /\ pg'[d] = pg[d] /\ pgq'[d] = pgq[d]
            \/ pg'[d] \in {"destroying", "gone"} /\ pgq'[d] = <<>>
      BY <1>1, <1>4, <1>5
    <2> QED
      BY <1>1, <1>3, <1>6, <2>1 DEF Ending
  <1>10. GroupAccounting'
    <2>1. Target!Alive' = Target!Alive \ {c} /\ c \in Target!Alive
      BY <1>1, <1>5 DEF Target!Alive
    <2>2. Cardinality(Target!Alive') = Cardinality(Target!Alive) - 1
      BY <2>1, AliveFinite DEF Counting, Changes
    <2>3. g_num_poll_groups \in Int /\ Cardinality(Target!Alive) \in Nat
      BY <1>a, AliveFinite DEF Types
    <2>4. g_num_poll_groups + Cardinality(With(initq, "pg_done"))
            = Cardinality(Target!Alive) + Cardinality(With(initq, "destroy_done"))
      BY <1>a, Accounts
    <2>5. g_num_poll_groups + Cardinality(With(initq', "pg_done"))
            = Cardinality(Target!Alive') + Cardinality(With(initq', "destroy_done"))
      BY SMTT(30), <1>6, <2>2, <2>3, <2>4
    <2> QED
      BY <1>1, <2>5, Accounts
  <1> QED
    BY <1>1, <1>2, <1>7, <1>8, <1>9, <1>10, GroupInv

\* The thread is told to migrate.
LEMMA PgMigrateInv ==
  ASSUME TargetInv, NEW c \in Cores, Target!migrate_poll_group_by_rr(c)
  PROVE  TargetInv'
  <1>a. Types /\ Messages /\ GroupAccounting
    BY DEF TargetInv
  <1>1. /\ pgq[c] # <<>> /\ Head(pgq[c]) = "migrate"
        /\ pgq' = [pgq EXCEPT ![c] = Tail(@)]
        /\ UNCHANGED <<g_target_state, stack, pending, active, poller, tgt>>
        /\ UNCHANGED <<initq, pg, g_poll_groups, g_num_poll_groups>>
    BY DEF Target!migrate_poll_group_by_rr, Target!PgReceived, Target!targetVars
  <1>2. /\ DOMAIN pgq' = Cores /\ \A d \in Cores : IsSeq(pgq'[d])
        /\ \A d \in Cores \ {c} : pgq'[d] = pgq[d]
        /\ pgq[c][1] = "migrate" /\ 1 \in DOMAIN pgq[c]
        /\ Len(pgq[c]) \in Nat \ {0} /\ DOMAIN pgq[c] = 1..Len(pgq[c])
        /\ DOMAIN pgq'[c] = 1..Len(pgq[c]) - 1 /\ Len(pgq'[c]) = Len(pgq[c]) - 1
        /\ \A i \in 1..Len(pgq[c]) - 1 : pgq'[c][i] = pgq[c][i + 1]
        /\ Len(pgq[c]) = 1 <=> pgq'[c] = <<>>
    BY <1>a, <1>1, PgTaken
  <1>b. "destroy_pg" # "migrate"
    OBVIOUS
  <1>3. ~Quiet /\ ~Gone
    BY <1>1 DEF Quiet, Gone
  <1>4. ~Starting
    BY SMTT(30), <1>1 DEF Starting
  <1>5. Full => Full'
    <2> SUFFICES ASSUME Full PROVE Full'
      OBVIOUS
    <2>1. \A i \in DOMAIN pgq[c] : pgq[c][i] = "migrate"
      BY DEF Full
    <2>2. \A i \in DOMAIN pgq'[c] : pgq'[c][i] = "migrate"
      BY SMTT(30), <1>2, <2>1
    <2>3. \A d \in Cores : \A i \in DOMAIN pgq'[d] : pgq'[d][i] = "migrate"
      BY SMTT(30), <1>2, <2>2 DEF Full
    <2> QED
      BY <1>1, <2>3 DEF Full, NoMsg
  <1>6. Ending => Ending'
    <2> SUFFICES ASSUME Ending PROVE Ending'
      OBVIOUS
    <2>1. /\ pg[c] = "up"
          /\ \A i \in DOMAIN pgq[c] :
               pgq[c][i] = IF i = Len(pgq[c]) THEN "destroy_pg" ELSE "migrate"
      BY <1>1 DEF Ending
    <2>2. Len(pgq[c]) # 1
      BY <1>2, <2>1, <1>b
    <2>3. /\ pgq'[c] # <<>>
          /\ \A i \in DOMAIN pgq'[c] :
               pgq'[c][i] = IF i = Len(pgq'[c]) THEN "destroy_pg" ELSE "migrate"
      BY SMTT(30), <1>2, <2>1, <2>2
    <2>4. \A d \in Cores :
            \/ pgq'[d] = pgq[d]
            \/ /\ pg[d] = "up" /\ pgq'[d] # <<>>
               /\ \A i \in DOMAIN pgq'[d] :
                    pgq'[d][i] = IF i = Len(pgq'[d]) THEN "destroy_pg" ELSE "migrate"
      BY <1>2, <2>1, <2>3
    <2>5. ASSUME NEW d \in Cores
          PROVE  \/ /\ pg[d] = "up" /\ pgq'[d] # <<>>
                    /\ \A i \in DOMAIN pgq'[d] :
                         pgq'[d][i] = IF i = Len(pgq'[d]) THEN "destroy_pg" ELSE "migrate"
                 \/ pg[d] \in {"destroying", "gone"} /\ pgq'[d] = <<>>
      <3>1. CASE pgq'[d] = pgq[d]
        BY <3>1 DEF Ending
      <3> QED
        BY <2>4, <3>1
    <2>6. g_poll_groups = {} /\ NoMsg("pg_done")
      BY DEF Ending
    <2> QED
      BY <1>1, <2>5, <2>6 DEF Ending, NoMsg
  <1>7. Types'
    BY <1>a, <1>1, <1>2 DEF Types, st
  <1>8. Messages'
    BY <1>a, <1>1 DEF Messages, Idle, st
  <1>9. GroupAccounting'
    <2>1. Target!Alive' = Target!Alive
      BY <1>1 DEF Target!Alive
    <2> QED
      BY <1>a, <1>1, <2>1, Accounts
  <1> QED
    BY <1>1, <1>3, <1>4, <1>5, <1>6, <1>7, <1>8, <1>9, GroupInv

\* What only the reactors do.
LEMMA StutterInv ==
  ASSUME TargetInv, UNCHANGED targetVars
  PROVE  TargetInv'
  <1>1. /\ UNCHANGED <<g_target_state, stack, pending, active, poller, tgt>>
        /\ UNCHANGED <<initq, pgq, pg, g_poll_groups, g_num_poll_groups>>
    BY DEF targetVars
  <1>2. Types' /\ Messages'
    BY <1>1 DEF TargetInv, Types, Messages, Idle, st
  <1> QED
    BY <1>1, <1>2, SameGroups, GroupInv DEF TargetInv

-----------------------------------------------------------------------------
(* Theorems *)

\* FiniteSetTheorems has what the lemmas assume of finite sets.
LEMMA CountingHolds == Counting
  <1>1. Subsets
    BY FS_Subset DEF Subsets
  <1>2. Sizes
    BY FS_Interval, FS_EmptySet, FS_CardinalityType DEF Sizes
  <1>3. Changes
    BY FS_AddElement, FS_RemoveElement DEF Changes
  <1>4. Images
    <2> SUFFICES ASSUME NEW S, NEW T, NEW f, IsFiniteSet(S), f \in [S -> T],
                        \A a, b \in S : f[a] = f[b] => a = b,
                        \A t \in T : \E i \in S : f[i] = t
                 PROVE  Cardinality(T) = Cardinality(S)
      BY DEF Images
    <2>1. f \in Bijection(S, T)
      BY DEF Bijection, Injection, Surjection, IsInjective
    <2> QED
      BY <2>1, FS_Bijection DEF ExistsBijection
  <1> QED
    BY <1>1, <1>2, <1>3, <1>4 DEF Counting

\* The invariant of the target is inductive: whatever the reactors, the callbacks
\* of SPDK, the poll-group threads and the signal do.
THEOREM TargetInvariance == Spec => []TargetInv
  <1>1. Init => TargetInv
    <2> SUFFICES ASSUME Init PROVE TargetInv
      OBVIOUS
    <2>1. /\ st = 0 /\ stack = <<>> /\ Idle /\ initq = <<<<"app_start">>>>
          /\ pgq = [c \in Cores |-> <<>>] /\ pg = [c \in Cores |-> "none"]
          /\ g_poll_groups = {} /\ g_num_poll_groups = 0 /\ tgt = "null" /\ active = {}
          /\ poller = FALSE
      BY StateNumbers DEF Init, Target!Init, Target!None, Idle, st, States
    <2>2. DOMAIN initq = {1} /\ Len(initq) = 1 /\ initq[1][1] = "app_start"
      BY SMTT(30), <2>1
    <2>3. IsSeq(initq) /\ IsSeq(<<>>)
      <3>1. initq \in Seq({<<"app_start">>}) /\ <<>> \in Seq({1})
        BY SMTT(30), <2>1
      <3> QED
        BY <3>1, OwnElements
    <2>4. Types
      BY SMTT(30), <2>1, <2>3 DEF Types, Groups
    <2>5. Control /\ PollerInv
      BY <2>1 DEF Control, PollerInv, Idle
    <2>6. Subsystems
      BY <2>1 DEF Subsystems, Idle
    <2>7. Messages
      BY <2>1, <2>2 DEF Messages
    <2>8. Quiet
      BY <2>1, <2>2 DEF Quiet, NoMsg
    <2>9. Phase
      BY SMTT(30), <2>1, <2>8 DEF Phase
    <2>10. GroupAccounting
      <3>1. Cardinality(With(initq, "pg_done")) = 0 /\ Cardinality(With(initq, "destroy_done")) = 0
        BY <2>3, <2>8, WithFinite, CountingHolds DEF Quiet, NoMsg
      <3>2. Target!Alive = {}
        BY <2>1 DEF Target!Alive
      <3> QED
        BY <2>1, <3>1, <3>2, FS_EmptySet, Accounts
    <2> QED
      BY <2>4, <2>5, <2>6, <2>7, <2>9, <2>10 DEF TargetInv
  <1>2. TargetInv /\ [Next]_vars => TargetInv'
    <2> SUFFICES ASSUME TargetInv, [Next]_vars PROVE TargetInv'
      OBVIOUS
    <2>1. CASE UNCHANGED vars
      BY <2>1, StutterInv DEF vars
    <2>2. CASE nvmf_init_threads \/ nvmf_destroy_threads
      BY <2>2, StutterInv DEF nvmf_init_threads, nvmf_destroy_threads
    <2>3. CASE Signal
      BY <2>3, SignalInv, CountingHolds DEF Signal
    <2>4. CASE AdvanceState
      <3>1. CASE Target!AdvanceState
        BY <3>1, TestInv, CaseInv, StopInv, DestroyInv DEF Target!AdvanceState
      <3>2. CASE nvmf_poll_groups_create
        BY <3>2, CreateInv, StutterInv DEF nvmf_poll_groups_create
      <3> QED
        BY <2>4, <3>1, <3>2 DEF AdvanceState
    <2>5. CASE MainCallback
      BY <2>5, CallbackInv DEF MainCallback
    <2>6. CASE MainMessage
      BY <2>6, StartInv, RegisterInv, DeregisterInv, ShutdownInv, CountingHolds DEF MainMessage, Target!InitMessage
    <2>7. CASE MainPoller
      BY <2>7, PollerStepInv DEF MainPoller
    <2>8. ASSUME NEW c \in Cores, Turn(c) \/ DrainStep(c) \/ ExitCompletes(c)
          PROVE  TargetInv'
      BY <2>8, StutterInv DEF Turn, DrainStep, Drain, ExitCompletes
    <2>9. ASSUME NEW c \in Cores, NEW t \in Cores, PgThread(c, t)
          PROVE  TargetInv'
      <3>1. CASE nvmf_tgt_create_poll_group(t)
        BY <3>1, PgCreateInv, StutterInv, CountingHolds DEF nvmf_tgt_create_poll_group
      <3> QED
        BY <2>9, <3>1, PgDestroyInv, PgMigrateInv, PgDoneInv, CountingHolds DEF PgThread
    <2> QED
      BY <2>1, <2>2, <2>3, <2>4, <2>5, <2>6, <2>7, <2>8, <2>9 DEF Next
  <1> QED
    BY <1>1, <1>2, PTL DEF Spec

\* g_num_poll_groups is right through every order of the messages: the counter and
\* the groups on their way to g_init_thread add up to the live groups and those
\* whose end is on its way.
THEOREM GroupsAreAccountedFor == Spec => []GroupAccounting
  <1>1. TargetInv => GroupAccounting
    BY DEF TargetInv
  <1> QED
    BY <1>1, TargetInvariance, PTL

\* spdk_nvmf_tgt_destroy is called when no poll group is alive and, unless a
\* subsystem refused to stop, no subsystem is active.
THEOREM TargetOutlives == Spec => []TargetOutlivesUsers
  <1>1. TargetInv => TargetOutlivesUsers
    <2> SUFFICES ASSUME TargetInv, pending.op = "tgt_destroy" \/ tgt = "destroyed"
                 PROVE  Target!Alive = {} /\ ("stop" \notin Faults => active = {})
      BY DEF TargetOutlivesUsers, Target!TargetOutlivesUsers
    <2>1. st \in {7, 8}
      BY DEF TargetInv, Control, Idle, Subsystems
    <2>2. Quiet \/ Gone
      BY <2>1 DEF TargetInv, Phase
    <2>3. Target!Alive = {}
      BY <2>2 DEF Quiet, Gone, Target!Alive
    <2> QED
      BY <2>1, <2>3 DEF TargetInv, Subsystems
  <1> QED
    BY <1>1, TargetInvariance, PTL

\* The reactors are told to exit when the machine is through its last state, and it
\* takes no step after that.
ExitInv == g_reactors_exit => st = 8 /\ stack = <<>>

LEMMA ExitStep ==
  ASSUME TargetInv, ExitInv, [Next]_vars
  PROVE  ExitInv'
  <1>a. ASSUME ~g_reactors_exit, UNCHANGED g_reactors_exit
        PROVE  ExitInv'
    BY <1>a DEF ExitInv
  <1>b. ASSUME UNCHANGED <<g_target_state, stack, g_reactors_exit>>
        PROVE  ExitInv'
    BY <1>b DEF ExitInv, st
  <1>c. ASSUME stack # <<>>, UNCHANGED g_reactors_exit
        PROVE  ExitInv'
    BY <1>a, <1>c DEF ExitInv
  <1>1. CASE UNCHANGED vars
    BY <1>1, <1>b DEF vars, targetVars
  <1>2. CASE nvmf_init_threads \/ nvmf_destroy_threads
    <2>1. UNCHANGED g_reactors_exit /\ UNCHANGED <<g_target_state, stack>>
      BY <1>2 DEF nvmf_init_threads, nvmf_destroy_threads, Reactors!nvmf_init_threads,
         Reactors!nvmf_destroy_threads, Reactors!Abort, targetVars
    <2> QED
      BY <2>1, <1>b
  <1>3. CASE Signal
    BY <1>3, <1>b DEF Signal, Target!nvmf_shutdown_cb, Target!targetVars
  <1>4. CASE AdvanceState
    <2>1. CASE Target!AdvanceState
      <3>1. stack # <<>>
        BY <2>1 DEF Target!AdvanceState, Target!loop_test, Target!case_INIT_SUBSYSTEM,
           Target!nvmf_create_nvmf_tgt, Target!nvmf_tgt_start_subsystems, Target!case_RUNNING,
           Target!nvmf_tgt_stop_subsystems, Target!nvmf_poll_groups_destroy,
           Target!nvmf_destroy_nvmf_tgt, Target!case_FINI_SUBSYSTEM, Target!InCase
      <3>2. UNCHANGED g_reactors_exit
        BY <2>1 DEF Target!AdvanceState, Target!loop_test, Target!case_INIT_SUBSYSTEM,
           Target!nvmf_create_nvmf_tgt, Target!nvmf_tgt_start_subsystems, Target!case_RUNNING,
           Target!nvmf_tgt_stop_subsystems, Target!nvmf_poll_groups_destroy,
           Target!nvmf_destroy_nvmf_tgt, Target!case_FINI_SUBSYSTEM
      <3> QED
        BY <3>1, <3>2, <1>c
    <2>2. CASE nvmf_poll_groups_create
      <3>1. stack # <<>>
        BY <2>2 DEF nvmf_poll_groups_create, Target!InCase
      <3>2. UNCHANGED g_reactors_exit
        BY <2>2 DEF nvmf_poll_groups_create, Target!nvmf_poll_groups_create, Reactors!Abort
      <3> QED
        BY <3>1, <3>2, <1>c
    <2> QED
      BY <1>4, <2>1, <2>2 DEF AdvanceState
  <1>5. CASE MainCallback
    <2>1. Target!Callback
      BY <1>5 DEF MainCallback
    <2>2. CASE Target!nvmf_subsystem_fini_done
      <3>1. /\ stack = <<>> /\ pending.op = "subsys_fini"
            /\ UNCHANGED <<g_target_state, stack>>
        BY <2>2 DEF Target!nvmf_subsystem_fini_done, Target!Called
      <3>2. st = 8
        BY <3>1 DEF TargetInv, Control, Idle
      <3> QED
        BY <3>1, <3>2 DEF ExitInv, st
    <2>3. CASE \/ Target!nvmf_subsystem_init_done \/ Target!nvmf_tgt_subsystem_start_next
               \/ Target!nvmf_tgt_subsystem_stop_next \/ Target!nvmf_tgt_destroy_done
      <3>1. ~g_reactors_exit /\ UNCHANGED g_reactors_exit
        BY <2>3 DEF Target!nvmf_subsystem_init_done, Target!nvmf_tgt_subsystem_start_next,
           Target!nvmf_tgt_subsystem_stop_next, Target!nvmf_tgt_destroy_done, Target!Called
      <3> QED
        BY <3>1, <1>a
    <2> QED
      BY <2>1, <2>2, <2>3 DEF Target!Callback
  <1>6. CASE MainMessage
    <2>1. ~g_reactors_exit /\ UNCHANGED g_reactors_exit
      BY <1>6 DEF MainMessage, Target!InitMessage, Target!nvmf_target_app_start,
         Target!nvmf_tgt_create_poll_groups_done, Target!_nvmf_tgt_destroy_poll_groups_done,
         Target!_nvmf_shutdown_cb, Target!Received
    <2> QED
      BY <2>1, <1>a
  <1>7. CASE MainPoller
    BY <1>7, <1>b DEF MainPoller, Target!migrate_poll_groups_by_rr, Target!targetVars
  <1>8. ASSUME NEW c \in Cores, Turn(c) \/ DrainStep(c) \/ ExitCompletes(c)
        PROVE  ExitInv'
    <2>1. UNCHANGED <<g_target_state, stack>>
      BY <1>8 DEF Turn, DrainStep, Drain, ExitCompletes, targetVars
    <2>2. UNCHANGED g_reactors_exit
      BY <1>8 DEF Turn, DrainStep, Drain, ExitCompletes, Reactors!Dequeue, Reactors!IdleTurn,
         Reactors!Dispose, Reactors!ReactorReturns, Reactors!PollReturns, Reactors!Drain,
         Reactors!ExitCompletes
    <2> QED
      BY <2>1, <2>2, <1>b
  <1>9. ASSUME NEW c \in Cores, NEW t \in Cores, PgThread(c, t)
        PROVE  ExitInv'
    <2>1. UNCHANGED <<g_target_state, stack>>
      BY <1>9 DEF PgThread, nvmf_tgt_create_poll_group, Target!nvmf_tgt_create_poll_group,
         Target!nvmf_tgt_destroy_poll_group, Target!migrate_poll_group_by_rr,
         Target!nvmf_tgt_destroy_poll_groups_done, Target!targetVars, targetVars
    <2>2. UNCHANGED g_reactors_exit
      BY <1>9 DEF PgThread, nvmf_tgt_create_poll_group, Target!nvmf_tgt_create_poll_group,
         Target!nvmf_tgt_destroy_poll_group, Target!migrate_poll_group_by_rr,
         Target!nvmf_tgt_destroy_poll_groups_done, Reactors!Abort
    <2> QED
      BY <2>1, <2>2, <1>b
  <1> QED
    BY <1>1, <1>2, <1>3, <1>4, <1>5, <1>6, <1>7, <1>8, <1>9 DEF Next

\* No message is left at, or sent to, a poll-group thread that has called
\* spdk_thread_exit, whatever the migration poller sends before the shutdown; and
\* when nvmf_subsystem_fini_done tells the reactors to exit, every message the
\* program sent to itself, to a poll-group thread or to g_init_thread, has been handled.
THEOREM NoLateMessage == Spec => []NoMessageToExitedThread
  <1>1. Init => ExitInv
    BY DEF Init, Target!Init, ExitInv
  <1>2. TargetInv /\ ExitInv /\ [Next]_vars => ExitInv'
    BY ExitStep
  <1>3. TargetInv /\ ExitInv => NoMessageToExitedThread
    <2> SUFFICES ASSUME TargetInv, ExitInv PROVE NoMessageToExitedThread
      OBVIOUS
    <2>1. ASSUME NEW c \in Cores, pg[c] = "gone"
          PROVE  pgq[c] = <<>>
      <3>1. ~Starting /\ ~Full
        BY <2>1 DEF Starting, Full
      <3>2. Quiet \/ Ending \/ Gone
        BY <3>1, SomePhase
      <3> QED
        BY <2>1, <3>2 DEF Quiet, Ending, Gone
    <2>2. ASSUME g_reactors_exit
          PROVE  /\ \A c \in Cores : pgq[c] = <<>>
                 /\ \A i \in DOMAIN initq : initq[i][1] \notin {"app_start", "pg_done", "destroy_done"}
      <3>1. st = 8
        BY <2>2 DEF ExitInv
      <3>2. Quiet \/ Gone
        BY <3>1 DEF TargetInv, Phase
      <3>3. st # 0
        BY SMTT(30), <3>1
      <3>4. NoMsg("app_start")
        BY <3>3 DEF TargetInv, Messages, NoMsg
      <3>5. NoMsg("pg_done") /\ NoMsg("destroy_done") /\ \A c \in Cores : pgq[c] = <<>>
        BY <3>2 DEF Quiet, Gone
      <3> QED
        BY <3>4, <3>5 DEF NoMsg
    <2> QED
      BY <2>1, <2>2 DEF NoMessageToExitedThread, Target!NoMessageToExitedThread
  <1> QED
    BY <1>1, <1>2, <1>3, TargetInvariance, PTL DEF Spec

\* g_init_thread is about to register a group, or to strike one off.
Registers == Target!Received("pg_done")
Deregisters == Target!Received("destroy_done")

\* The asserts themselves: a group is registered only below the number of cores,
\* and struck off only above zero.
THEOREM AssertsHold ==
  Spec => [](/\ Registers => g_num_poll_groups < NumCores
             /\ Deregisters => g_num_poll_groups > 0)
  <1>0. \A m : Target!Received(m) => initq # <<>> /\ Head(initq)[1] = m
    BY DEF Target!Received
  <1>1. ASSUME TargetInv, Registers \/ Deregisters
        PROVE  /\ Registers => g_num_poll_groups < NumCores
               /\ Deregisters => g_num_poll_groups > 0
    <2>1. initq # <<>> /\ IsSeq(initq)
      BY <1>0, <1>1 DEF Registers, Deregisters, TargetInv, Types
    <2>2. Head(initq) = initq[1] /\ 1 \in DOMAIN initq
      BY <2>1, Tailed
    <2>3. /\ \A m : Cardinality(With(initq, m)) \in Nat
          /\ \A m : Cardinality(With(initq, m)) = 0 <=> NoMsg(m)
      BY <2>1, WithFinite, CountingHolds DEF NoMsg
    <2>4. /\ g_num_poll_groups + Cardinality(With(initq, "pg_done"))
               = Cardinality(Target!Alive) + Cardinality(With(initq, "destroy_done"))
          /\ g_num_poll_groups \in Int
      BY <1>1, Accounts DEF TargetInv, Types
    <2>5. Cardinality(Target!Alive) \in 0..NumCores
      <3>1. NumCores \in Nat
        BY NvmfConstants DEF Reactors!ReactorConstants
      <3>2. Cardinality(Cores) = NumCores
        BY SMTT(30), <3>1, FS_Interval DEF Cores
      <3> QED
        BY SMTT(30), <3>1, <3>2, AliveFinite, CountingHolds
    <2>6. CASE Registers
      <3>1. ~NoMsg("pg_done")
        BY SMTT(30), <1>0, <2>2, <2>6 DEF Registers, NoMsg
      <3>2. Starting
        BY <1>1, <3>1, SomePhase DEF Quiet, Full, Ending, Gone
      <3>3. NoMsg("destroy_done")
        BY <3>2 DEF Starting
      <3>a. Cardinality(With(initq, "destroy_done")) = 0 /\ Cardinality(With(initq, "pg_done")) \in Nat \ {0}
        BY <2>3, <3>1, <3>3
      <3>4. g_num_poll_groups < NumCores
        BY SMTT(30), <2>4, <2>5, <3>a, NvmfConstants DEF Reactors!ReactorConstants
      <3>5. ~Deregisters
        BY SMTT(30), <1>0, <2>6 DEF Registers, Deregisters
      <3> QED
        BY <3>4, <3>5
    <2>7. CASE Deregisters
      <3>1. ~NoMsg("destroy_done")
        BY SMTT(30), <1>0, <2>2, <2>7 DEF Deregisters, NoMsg
      <3>2. Ending
        BY <1>1, <3>1, SomePhase DEF Quiet, Full, Starting, Gone
      <3>3. NoMsg("pg_done")
        BY <3>2 DEF Ending
      <3>a. Cardinality(With(initq, "pg_done")) = 0 /\ Cardinality(With(initq, "destroy_done")) \in Nat \ {0}
        BY <2>3, <3>1, <3>3
      <3>4. g_num_poll_groups > 0
        BY SMTT(30), <2>4, <2>5, <3>a
      <3>5. ~Registers
        BY SMTT(30), <1>0, <2>7 DEF Registers, Deregisters
      <3> QED
        BY <3>4, <3>5
    <2> QED
      BY <1>1, <2>6, <2>7
  <1> QED
    BY <1>1, TargetInvariance, PTL

=============================================================================
