------------------------------ MODULE ZkProofs ------------------------------
(***************************************************************************)
(* The safety of the two ZooKeeper recipes, for any number of processes,   *)
(* crashes and expired sessions.                                           *)
(***************************************************************************)
EXTENDS MCZk, Sequences, TLAPS

USE ZenonT(30)

-----------------------------------------------------------------------------
(* zkleader *)

\* Numbers only grow, and an open session has a node of its own.
LeaderInv ==
  /\ last \in Nat /\ nodes \subseteq 1..last
  /\ pc \in [Participants -> {"start", "check", "watch", "wait", "leader", "dead"}]
  /\ session \in [Participants -> {"none", "open", "closed"}]
  /\ current_node \in [Participants -> 0..last]
  /\ \A p \in Participants : session[p] = "open" => current_node[p] \in nodes
  /\ \A p, q \in Participants :
       session[p] = "open" /\ session[q] = "open" /\ current_node[p] = current_node[q] => p = q
  /\ Leader!SoleLeader

\* A step of a participant keeps it.
LEMMA LeaderProcessInv ==
  ASSUME LeaderInv, NEW p \in Participants, Leader!Process(p)
  PROVE  LeaderInv'
  <1> USE DEF LeaderInv, Leader!SoleLeader, Leader!Leads, Leader!Goto
  <1>1. CASE Leader!create_ephemeral_sequential_node(p)
    <2>1. ASSUME NEW to \in {"check", "dead"}, Leader!Goto(p, to),
                 session' = [session EXCEPT ![p] = "open"],
                 current_node' = [current_node EXCEPT ![p] = last + 1],
                 nodes' = nodes \cup {last + 1}, last' = last + 1
          PROVE  LeaderInv'
      <3>1. /\ last' \in Nat /\ nodes' \subseteq 1..last'
            /\ pc' \in [Participants -> {"start", "check", "watch", "wait", "leader", "dead"}]
            /\ session' \in [Participants -> {"none", "open", "closed"}]
        BY SMTT(30), <2>1
      <3>2. /\ current_node' \in [Participants -> 0..last']
            /\ current_node'[p] = last + 1
            /\ \A q \in Participants \ {p} :
                 current_node'[q] = current_node[q] /\ session'[q] = session[q] /\ pc'[q] = pc[q]
        BY SMTT(30), <2>1
      <3>3. \A q \in Participants : session'[q] = "open" => current_node'[q] \in nodes'
        BY <2>1, <3>2
      <3>4. \A q \in Participants \ {p} : current_node[q] # last + 1
        BY SMTT(30)
      <3>5. Leader!SoleLeader'
        BY SMTT(30), <2>1, <3>2
      <3> QED
        BY SMTT(30), <3>1, <3>2, <3>3, <3>4, <3>5
    <2>2. CASE /\ Leader!Goto(p, "dead") /\ UNCHANGED <<session, current_node, nodes, last>>
      BY <2>2
    <2> QED
      BY <1>1, <2>1, <2>2 DEF Leader!create_ephemeral_sequential_node
  <1>2. CASE Leader!check_leadership(p)
    BY SMTT(30), <1>2 DEF Leader!check_leadership, Leader!Before
  <1>3. CASE Leader!zoo_exists(p)
    BY <1>3 DEF Leader!zoo_exists
  <1>4. CASE Leader!watcher_callback(p)
    BY <1>4 DEF Leader!watcher_callback
  <1> QED
    BY <1>1, <1>2, <1>3, <1>4 DEF Leader!Process

\* So does a crash, and the end of a session.
LEMMA LeaderEnvironmentInv ==
  ASSUME LeaderInv, NEW p \in Participants, Leader!Environment(p)
  PROVE  LeaderInv'
  <1> USE DEF LeaderInv, Leader!SoleLeader, Leader!Leads, Leader!Goto
  <1>1. CASE Leader!Crash(p)
    BY <1>1 DEF Leader!Crash
  <1>2. CASE Leader!CloseSession(p)
    BY <1>2 DEF Leader!CloseSession
  <1> QED
    BY <1>1, <1>2 DEF Leader!Environment, Leader!SessionEnds, Leader!Expires

\* The first node is the leader's, whatever processes and sessions end.
THEOREM LeaderInvariance == Spec => [](IsLeader => LeaderInv)
  <1>1. Init => (IsLeader => LeaderInv)
    BY SMTT(30) DEF Init, IsLeader, LeaderInv, Leader!Init, Leader!SoleLeader, Leader!Leads
  <1>2. (IsLeader => LeaderInv) /\ [Next]_vars => (IsLeader => LeaderInv)'
    <2> SUFFICES ASSUME LeaderInv, IsLeader, [Next]_vars, IsLeader'
                 PROVE  LeaderInv'
      BY DEF Next, vars, IsLeader, LeaderProcess, Elects, LockProcess, LockCallback, LockService, Locks, IsLock
    <2>1. CASE UNCHANGED vars
      BY <2>1 DEF vars, OnlyLeader, LeaderInv, Leader!SoleLeader, Leader!Leads
    <2> QED
      BY <2>1, LeaderProcessInv, LeaderEnvironmentInv
      DEF Next, LeaderProcess, LockProcess, LockCallback, LockService, IsLeader, IsLock
  <1> QED
    BY <1>1, <1>2, PTL DEF Spec

\* A participant that calls itself the leader while its session is open has the
\* first node.
THEOREM LeaderHasTheFirstNode == Spec => []SoleLeader
  <1>1. (IsLeader => LeaderInv) => SoleLeader
    BY DEF LeaderInv, SoleLeader
  <1> QED
    BY <1>1, LeaderInvariance, PTL

\* No two participants with open sessions are the leader.
THEOREM NoTwoLeaders ==
  Spec => [](IsLeader => \A p, q \in Participants : Leader!Leads(p) /\ Leader!Leads(q) => p = q)
  <1>1. LeaderInv => \A p, q \in Participants : Leader!Leads(p) /\ Leader!Leads(q) => p = q
    BY SMTT(30) DEF LeaderInv, Leader!SoleLeader, Leader!Leads
  <1> QED
    BY <1>1, LeaderInvariance, PTL
-----------------------------------------------------------------------------
(* zklock *)

\* Node n is p's if it is there at all, and no later node gets its number.
Safe(p, n) == n \in Int /\ n < next /\ \A o \in owner : o[1] = n => o[2] = p

\* p's number, once it is known, is that of its own node.
Known(p) == seq_me[p] # 0 \/ Safe(p, 0)

Created(p, i) == i \in DOMAIN queue[p] /\ queue[p][i][1] = "created"
Creating(p, i) == i \in DOMAIN reqs[p] /\ reqs[p][i][1] = "create"

\* A list is never looked at before the number is known: it was asked for after
\* the create, and the answers come in the order of the requests.
InOrder(p) ==
  /\ main[p] = "loop" => \E i \in Nat : Created(p, i) \/ Creating(p, i)
  /\ \A i \in DOMAIN queue[p] :
       queue[p][i][1] = "children" => \E j \in 1..i - 1 : Created(p, j)
  /\ \A i \in DOMAIN reqs[p] :
       reqs[p][i][1] = "children" =>
         (\E j \in Nat : Created(p, j)) \/ \E j \in 1..i - 1 : Creating(p, j)

ProcessInv(p) ==
  /\ seq_me[p] \in Nat
  /\ seq_me[p] # 0 => Safe(p, seq_me[p])
  /\ \A i \in DOMAIN queue[p] :
       queue[p][i][1] = "created" => queue[p][i][2] \in Nat /\ Safe(p, queue[p][i][2])
  /\ \A i \in DOMAIN reqs[p] : reqs[p][i][1] = "delete" => Safe(p, reqs[p][i][2])
  /\ main[p] \in {"init", "create"} =>
       /\ reqs[p] = <<>> /\ queue[p] = <<>> /\ session[p] # "connected"
       /\ \A v \in watches : v[1] # p
  /\ Known(p) \/ InOrder(p)

IsSeq(s) == s \in Seq({s[i] : i \in DOMAIN s})

LockTypes ==
  /\ next \in Nat /\ \A o \in owner : o[1] \in Nat /\ o[1] < next
  /\ DOMAIN main = Processes /\ DOMAIN session = Processes /\ DOMAIN seq_me = Processes
  /\ DOMAIN reqs = Processes /\ DOMAIN queue = Processes
  /\ \A p \in Processes :
       IsSeq(reqs[p]) /\ IsSeq(queue[p])

LockInv == LockTypes /\ \A p \in Processes \ stuck : ProcessInv(p)

\* A sequence over any set is one over its own elements.
LEMMA OwnElements ==
  ASSUME NEW S, NEW s \in Seq(S)
  PROVE  IsSeq(s)
  <1> DEFINE R == {s[i] : i \in DOMAIN s}
  <1>1. s \in [1..Len(s) -> S] /\ Len(s) \in Nat /\ DOMAIN s = 1..Len(s)
    BY SMTT(30)
  <1>2. \A i \in 1..Len(s) : s[i] \in R
    BY <1>1
  <1> HIDE DEF R
  <1>3. s \in Seq(R)
    BY SMTT(30), <1>1, <1>2
  <1> QED
    BY <1>3 DEF IsSeq, R

\* The positions in a queue of requests or answers.
LEMMA SeqDomain ==
  ASSUME NEW s, IsSeq(s)
  PROVE  /\ Len(s) \in Nat /\ DOMAIN s = 1..Len(s)
         /\ s = <<>> <=> Len(s) = 0
  <1> DEFINE S == {s[i] : i \in DOMAIN s}
  <1>1. s \in Seq(S)
    BY DEF IsSeq
  <1> HIDE DEF S
  <1> QED
    BY SMTT(30), <1>1

\* The empty queue.
LEMMA EmptyQueue == IsSeq(<<>>)
  <1>1. <<>> \in Seq({1})
    BY SMTT(30)
  <1> QED
    BY <1>1, OwnElements

\* A queue with an element more at its end.
LEMMA Appended ==
  ASSUME NEW s, IsSeq(s), NEW e
  PROVE  /\ IsSeq(Append(s, e))
         /\ DOMAIN Append(s, e) = 1..Len(s) + 1 /\ Len(Append(s, e)) = Len(s) + 1
         /\ \A i \in 1..Len(s) : Append(s, e)[i] = s[i]
         /\ Append(s, e)[Len(s) + 1] = e
  <1> DEFINE S == {s[i] : i \in DOMAIN s} \cup {e}
             t == Append(s, e)
  <1>1. s \in Seq(S)
    BY SMTT(30) DEF IsSeq
  <1>2. e \in S
    OBVIOUS
  <1> HIDE DEF S
  <1>3. /\ t \in Seq(S) /\ Len(t) = Len(s) + 1 /\ DOMAIN t = 1..Len(t)
        /\ \A i \in 1..Len(s) : t[i] = s[i]
        /\ t[Len(s) + 1] = e
    BY SMTT(30), <1>1, <1>2
  <1> QED
    BY <1>3, OwnElements

\* A queue whose head was taken.
LEMMA Tailed ==
  ASSUME NEW s, IsSeq(s), s # <<>>
  PROVE  /\ IsSeq(Tail(s)) /\ Len(s) \in Nat \ {0} /\ Head(s) = s[1] /\ 1 \in DOMAIN s
         /\ DOMAIN Tail(s) = 1..Len(s) - 1 /\ Len(Tail(s)) = Len(s) - 1
         /\ \A i \in 1..Len(s) - 1 : Tail(s)[i] = s[i + 1]
  <1> DEFINE S == {s[i] : i \in DOMAIN s}
             t == Tail(s)
  <1>1. s \in Seq(S)
    BY DEF IsSeq
  <1> HIDE DEF S
  <1>2. /\ t \in Seq(S) /\ Len(t) = Len(s) - 1 /\ DOMAIN t = 1..Len(t)
        /\ \A i \in 1..Len(t) : t[i] = s[i + 1]
    BY SMTT(30), <1>1
  <1>3. Head(s) = s[1] /\ DOMAIN s = 1..Len(s)
    BY SMTT(30), <1>1
  <1>4. Len(s) \in Nat \ {0}
    BY SMTT(30), <1>1
  <1> HIDE DEF t
  <1>5. DOMAIN t = 1..Len(s) - 1 /\ \A i \in 1..Len(s) - 1 : t[i] = s[i + 1]
    BY <1>2
  <1>6. 1 \in DOMAIN s
    BY SMTT(30), <1>3, <1>4
  <1>7. IsSeq(t)
    BY <1>2, OwnElements
  <1> QED
    BY <1>2, <1>3, <1>4, <1>5, <1>6, <1>7 DEF t

\* Numbers are given out once: what is safe stays so when nodes go and when the
\* next one is created.
LEMMA SafeStable ==
  ASSUME LockTypes, next' \in Nat, next <= next', NEW q,
         owner' \subseteq owner \cup {<<next, q>>}
  PROVE  \A p, n : Safe(p, n) => Safe(p, n)'
  BY SMTT(30) DEF LockTypes, Safe

\* A step of another process or of the service: r may be told of the deletion of
\* a node it watches or, once it has sent its create, that it is connected.
LEMMA OthersInv ==
  ASSUME LockTypes, NEW r \in Processes, ProcessInv(r),
         \A p, n : Safe(p, n) => Safe(p, n)',
         main'[r] = main[r], seq_me'[r] = seq_me[r], reqs'[r] = reqs[r],
         session'[r] = session[r] \/ main[r] = "loop",
         \A v \in watches' : v[1] = r => v \in watches,
         \/ queue'[r] = queue[r]
         \/ /\ main[r] = "loop" \/ \E v \in watches : v[1] = r
            /\ \E x : queue'[r] = Append(queue[r], <<"event", x>>)
  PROVE  ProcessInv(r)'
  <1>1. CASE queue'[r] = queue[r]
    BY SMTT(30), <1>1 DEF ProcessInv, Known, InOrder, Created, Creating
  <1>2. ASSUME main[r] = "loop" \/ \E v \in watches : v[1] = r,
               NEW x, queue'[r] = Append(queue[r], <<"event", x>>)
        PROVE  ProcessInv(r)'
    <2>1. /\ DOMAIN queue'[r] = 1..Len(queue[r]) + 1
          /\ \A i \in 1..Len(queue[r]) : queue'[r][i] = queue[r][i]
          /\ queue'[r][Len(queue[r]) + 1] = <<"event", x>>
          /\ Len(queue[r]) \in Nat /\ DOMAIN queue[r] = 1..Len(queue[r])
      BY SMTT(30), <1>2, Appended, SeqDomain DEF LockTypes
    <2>2. \A i \in DOMAIN queue'[r] :
            \/ i \in DOMAIN queue[r] /\ queue'[r][i] = queue[r][i]
            \/ queue'[r][i][1] = "event"
      BY SMTT(30), <2>1
    <2>3. \A i \in DOMAIN queue[r] : i \in DOMAIN queue'[r] /\ queue'[r][i] = queue[r][i]
      BY SMTT(30), <2>1
    <2>4. \A i : Created(r, i) => Created(r, i)'
      BY <2>3 DEF Created
    <2>5. Known(r) \/ InOrder(r) => Known(r)' \/ InOrder(r)'
      BY SMTT(30), <2>2, <2>4 DEF Known, InOrder, Creating
    <2> QED
      BY <1>2, <2>2, <2>5 DEF ProcessInv
  <1> QED
    BY <1>1, <1>2

\* A callback of p takes the head of its queue and may send one request.
LEMMA CallbackInv ==
  ASSUME LockTypes, NEW p \in Processes, ProcessInv(p),
         main[p] = "loop", main'[p] \in {"loop", "dead"},
         queue[p] # <<>>, queue'[p] = Tail(queue[p]),
         UNCHANGED <<next, owner>>,
         seq_me'[p] \in Nat,
         seq_me'[p] = seq_me[p] \/ (seq_me'[p] # 0 /\ Safe(p, seq_me'[p])),
         \/ reqs'[p] = reqs[p]
         \/ \E op, n : /\ reqs'[p] = Append(reqs[p], <<op, n>>)
                       /\ op = "delete" => Safe(p, n),
         Head(queue[p])[1] \in {"created", "children"} => Known(p)'
  PROVE  ProcessInv(p)'
  <1> DEFINE q == queue[p]
             r == reqs[p]
  <1>1. /\ Len(q) \in Nat /\ DOMAIN q = 1..Len(q) /\ Head(q) = q[1] /\ 1 \in DOMAIN q
        /\ DOMAIN queue'[p] = 1..Len(q) - 1
        /\ \A i \in 1..Len(q) - 1 : queue'[p][i] = q[i + 1]
    BY Tailed, SeqDomain DEF LockTypes
  <1>2. /\ Len(r) \in Nat /\ DOMAIN r = 1..Len(r)
        /\ \A i \in DOMAIN r : i \in DOMAIN reqs'[p] /\ reqs'[p][i] = r[i]
        /\ \A i \in DOMAIN reqs'[p] \ DOMAIN r :
             i = Len(r) + 1 /\ (reqs'[p][i][1] = "delete" => Safe(p, reqs'[p][i][2]))
    <2>1. Len(r) \in Nat /\ DOMAIN r = 1..Len(r)
      BY SeqDomain DEF LockTypes
    <2>2. ASSUME NEW op, NEW n, reqs'[p] = Append(r, <<op, n>>), op = "delete" => Safe(p, n)
          PROVE  /\ \A i \in DOMAIN r : i \in DOMAIN reqs'[p] /\ reqs'[p][i] = r[i]
                 /\ \A i \in DOMAIN reqs'[p] \ DOMAIN r :
                      i = Len(r) + 1 /\ (reqs'[p][i][1] = "delete" => Safe(p, reqs'[p][i][2]))
      <3>1. /\ DOMAIN Append(r, <<op, n>>) = 1..Len(r) + 1
            /\ \A i \in 1..Len(r) : Append(r, <<op, n>>)[i] = r[i]
            /\ Append(r, <<op, n>>)[Len(r) + 1] = <<op, n>>
        BY SMTT(30), Appended DEF LockTypes
      <3>2. \A i \in 1..Len(r) + 1 : i \in 1..Len(r) \/ i = Len(r) + 1
        BY SMTT(30), <2>1
      <3>3. \A i \in 1..Len(r) : i \in 1..Len(r) + 1
        BY SMTT(30), <2>1
      <3>4. <<op, n>>[1] = op /\ <<op, n>>[2] = n
        BY SMTT(30)
      <3> QED
        BY <2>1, <2>2, <3>1, <3>2, <3>3, <3>4
    <2> QED
      BY <2>1, <2>2
  <1>3. \A x, n : Safe(x, n) <=> Safe(x, n)'
    BY DEF Safe
  <1>4. Known(p) => Known(p)'
    BY <1>3 DEF Known
  <1>5. ASSUME ~Known(p)', InOrder(p)
        PROVE  InOrder(p)'
    <2>1. q[1][1] \notin {"created", "children"}
      BY <1>1, <1>5
    <2>2. \A j : Created(p, j) => j \in 2..Len(q) /\ Created(p, j - 1)'
      BY SMTT(30), <1>1, <2>1 DEF Created
    <2>3. \A j : Creating(p, j) => j \in 1..Len(r) /\ Creating(p, j)'
      BY <1>2 DEF Creating
    <2>4. \E i \in Nat : Created(p, i)' \/ Creating(p, i)'
      BY SMTT(30), <1>5, <2>2, <2>3 DEF InOrder
    <2>5. ASSUME NEW i \in DOMAIN queue'[p], queue'[p][i][1] = "children"
          PROVE  \E j \in 1..i - 1 : Created(p, j)'
      <3>1. i + 1 \in DOMAIN q /\ q[i + 1][1] = "children"
        BY SMTT(30), <1>1, <2>5
      <3>2. PICK j \in 1..(i + 1) - 1 : Created(p, j)
        BY <1>5, <3>1 DEF InOrder
      <3> QED
        BY SMTT(30), <1>1, <2>2, <3>2
    <2>6. ASSUME NEW i \in DOMAIN reqs'[p], reqs'[p][i][1] = "children"
          PROVE  (\E j \in Nat : Created(p, j)') \/ \E j \in 1..i - 1 : Creating(p, j)'
      <3>1. CASE i \in DOMAIN r
        <4>1. r[i][1] = "children"
          BY <1>2, <2>6, <3>1
        <4>2. (\E j \in Nat : Created(p, j)) \/ \E j \in 1..i - 1 : Creating(p, j)
          BY <1>5, <3>1, <4>1 DEF InOrder
        <4>3. ASSUME NEW j, Created(p, j) PROVE j - 1 \in Nat /\ Created(p, j - 1)'
          BY SMTT(30), <2>2, <4>3
        <4> QED
          BY <2>3, <4>2, <4>3
      <3>2. CASE i = Len(r) + 1
        BY SMTT(30), <1>2, <1>5, <2>2, <2>3, <3>2 DEF InOrder
      <3> QED
        BY <1>2, <3>1, <3>2
    <2> QED
      BY <2>4, <2>5, <2>6 DEF InOrder
  <1>6. \A i \in DOMAIN queue'[p] :
          queue'[p][i][1] = "created" => queue'[p][i][2] \in Nat /\ Safe(p, queue'[p][i][2])
    BY SMTT(30), <1>1 DEF ProcessInv
  <1>7. \A i \in DOMAIN reqs'[p] : reqs'[p][i][1] = "delete" => Safe(p, reqs'[p][i][2])
    BY <1>2 DEF ProcessInv
  <1> QED
    BY <1>3, <1>4, <1>5, <1>6, <1>7 DEF ProcessInv

\* The service takes the head of p's requests, and puts answers behind what is
\* in p's queue.
LEMMA AnswerInv ==
  ASSUME LockTypes, NEW p \in Processes, ProcessInv(p),
         main[p] \notin {"init", "create"}, main'[p] = main[p], seq_me'[p] = seq_me[p],
         \A x, n : Safe(x, n) => Safe(x, n)',
         reqs[p] # <<>>, reqs'[p] = Tail(reqs[p]),
         \A i \in DOMAIN queue[p] : i \in DOMAIN queue'[p] /\ queue'[p][i] = queue[p][i],
         \A i \in DOMAIN queue'[p] \ DOMAIN queue[p] :
           /\ i \in Nat /\ Len(queue[p]) < i
           /\ queue'[p][i][1] = "created" =>
                queue'[p][i][2] \in Nat /\ Safe(p, queue[p][i][2])'
           /\ queue'[p][i][1] = "children" => Head(reqs[p])[1] = "children",
         Head(reqs[p])[1] = "create" => \E i \in Nat : Created(p, i)'
  PROVE  ProcessInv(p)'
  <1> DEFINE q == queue[p]
             r == reqs[p]
  <1>1. /\ Len(r) \in Nat /\ DOMAIN r = 1..Len(r) /\ Head(r) = r[1] /\ 1 \in DOMAIN r
        /\ DOMAIN reqs'[p] = 1..Len(r) - 1
        /\ \A i \in 1..Len(r) - 1 : reqs'[p][i] = r[i + 1]
        /\ Len(q) \in Nat /\ DOMAIN q = 1..Len(q)
    BY SMTT(30), Tailed, SeqDomain DEF LockTypes
  <1>2. Known(p) => Known(p)'
    BY DEF Known
  <1>3. ASSUME InOrder(p)
        PROVE  InOrder(p)'
    <2>1. \A j : Created(p, j) => j \in 1..Len(q) /\ Created(p, j)'
      BY <1>1 DEF Created
    <2>2. \A j : Creating(p, j) =>
                 j \in 1..Len(r) /\ (Creating(p, j - 1)' \/ \E i \in Nat : Created(p, i)')
      BY SMTT(30), <1>1 DEF Creating
    <2>3. \A j : Creating(p, j) /\ j # 1 => j - 1 \in 1..Len(r) /\ Creating(p, j - 1)'
      BY SMTT(30), <1>1 DEF Creating
    <2>4. Creating(p, 1) => \E i \in Nat : Created(p, i)'
      BY <1>1 DEF Creating
    <2>5. main'[p] = "loop" => \E i \in Nat : Created(p, i)' \/ Creating(p, i)'
      BY SMTT(30), <1>3, <2>1, <2>3, <2>4 DEF InOrder
    <2>6. ASSUME NEW i \in DOMAIN queue'[p], queue'[p][i][1] = "children"
          PROVE  \E j \in 1..i - 1 : Created(p, j)'
      <3>1. CASE i \in DOMAIN q
        BY <1>3, <2>1, <2>6, <3>1 DEF InOrder
      <3>2. CASE i \notin DOMAIN q
        <4>1. i \in Nat /\ Len(q) < i /\ r[1][1] = "children"
          BY <1>1, <2>6, <3>2
        <4>2. \E j \in Nat : Created(p, j)
          BY SMTT(30), <1>1, <1>3, <4>1 DEF InOrder
        <4> QED
          BY SMTT(30), <1>1, <2>1, <4>1, <4>2
      <3> QED
        BY <3>1, <3>2
    <2>7. ASSUME NEW i \in DOMAIN reqs'[p], reqs'[p][i][1] = "children"
          PROVE  (\E j \in Nat : Created(p, j)') \/ \E j \in 1..i - 1 : Creating(p, j)'
      <3>1. i + 1 \in DOMAIN r /\ r[i + 1][1] = "children" /\ i \in Nat
        BY SMTT(30), <1>1, <2>7
      <3>2. (\E j \in Nat : Created(p, j)) \/ \E j \in 1..(i + 1) - 1 : Creating(p, j)
        BY <1>3, <3>1 DEF InOrder
      <3>3. ASSUME NEW j \in 1..(i + 1) - 1, Creating(p, j), j # 1
            PROVE  j - 1 \in 1..i - 1 /\ Creating(p, j - 1)'
        BY SMTT(30), <2>3, <3>1, <3>3
      <3> QED
        BY <2>1, <2>4, <3>2, <3>3
    <2> QED
      BY <2>5, <2>6, <2>7 DEF InOrder
  <1>4. \A i \in DOMAIN queue'[p] :
          queue'[p][i][1] = "created" => queue'[p][i][2] \in Nat /\ Safe(p, queue[p][i][2])'
    BY DEF ProcessInv
  <1>5. \A i \in DOMAIN reqs'[p] : reqs'[p][i][1] = "delete" => Safe(p, reqs[p][i][2])'
    BY SMTT(30), <1>1 DEF ProcessInv
  <1> QED
    BY <1>2, <1>3, <1>4, <1>5 DEF ProcessInv

\* Who watches a node that goes finds an event in its queue.
LEMMA ToldQueue ==
  ASSUME LockTypes, NEW gone, NEW r \in Processes
  PROVE  /\ IsSeq(Lock!Told(gone)[r])
         /\ \/ Lock!Told(gone)[r] = queue[r]
            \/ \E v \in watches :
                 v[1] = r /\ \E x : Lock!Told(gone)[r] = Append(queue[r], <<"event", x>>)
  <1>1. CASE \E n \in gone : <<r, n>> \in watches
    <2> DEFINE x == CHOOSE n \in gone : <<r, n>> \in watches
    <2>1. Lock!Told(gone)[r] = Append(queue[r], <<"event", x>>)
      BY <1>1 DEF Lock!Told
    <2>2. <<r, x>> \in watches /\ <<r, x>>[1] = r
      BY <1>1
    <2> HIDE DEF x
    <2>3. IsSeq(Lock!Told(gone)[r])
      BY SMTT(30), <2>1, Appended DEF LockTypes
    <2> QED
      BY <2>1, <2>2, <2>3
  <1>2. CASE ~ \E n \in gone : <<r, n>> \in watches
    BY <1>2 DEF Lock!Told, LockTypes
  <1> QED
    BY <1>1, <1>2

\* A request is put behind the others of its process.
LEMMA AskQueue ==
  ASSUME LockTypes, NEW p \in Processes, NEW op, NEW n, Lock!Ask(p, op, n)
  PROVE  /\ DOMAIN reqs' = Processes
         /\ reqs'[p] = Append(reqs[p], <<op, n>>)
         /\ \A r \in Processes \ {p} : reqs'[r] = reqs[r]
         /\ \A r \in Processes : IsSeq(reqs'[r])
  <1>1. /\ DOMAIN reqs' = Processes
        /\ reqs'[p] = Append(reqs[p], <<op, n>>)
        /\ \A r \in Processes \ {p} : reqs'[r] = reqs[r]
    BY DEF LockTypes, Lock!Ask
  <1>2. IsSeq(Append(reqs[p], <<op, n>>))
    BY Appended DEF LockTypes
  <1> QED
    BY <1>1, <1>2, ZenonT(30) DEF LockTypes

\* What is left to show of a step of p that leaves the service as it is.
LEMMA OwnStepInv ==
  ASSUME LockInv, LockTypes', NEW p \in Processes,
         stuck \subseteq stuck', UNCHANGED <<next, owner, watches>>,
         \A r \in Processes \ {p} :
           /\ main'[r] = main[r] /\ session'[r] = session[r] /\ seq_me'[r] = seq_me[r]
           /\ reqs'[r] = reqs[r] /\ queue'[r] = queue[r],
         p \notin stuck' => ProcessInv(p)'
  PROVE  LockInv'
  <1>1. \A x, n : Safe(x, n) => Safe(x, n)'
    BY DEF Safe
  <1>2. ASSUME NEW r \in Processes \ {p}, r \notin stuck'
        PROVE  ProcessInv(r)'
    BY <1>1, <1>2, OthersInv DEF LockInv
  <1> QED
    BY <1>2 DEF LockInv

\* A process that is not in its loop and has nothing queued only has to know its
\* number.
LEMMA EmptyInv ==
  ASSUME NEW p \in Processes, ProcessInv(p), \A n : Safe(p, n) => Safe(p, n)',
         seq_me'[p] = seq_me[p], queue'[p] = <<>>, reqs'[p] = <<>>, main'[p] # "loop",
         main'[p] \in {"init", "create"} =>
           session'[p] # "connected" /\ \A v \in watches' : v[1] # p
  PROVE  ProcessInv(p)'
  <1>1. DOMAIN queue'[p] = {} /\ DOMAIN reqs'[p] = {}
    BY SMTT(30)
  <1>2. InOrder(p)'
    BY <1>1 DEF InOrder
  <1>3. seq_me'[p] \in Nat /\ (seq_me'[p] # 0 => Safe(p, seq_me[p])')
    BY DEF ProcessInv
  <1> QED
    BY <1>1, <1>2, <1>3 DEF ProcessInv

\* main() up to its loop.
LEMMA MainInv ==
  ASSUME LockInv, NEW p \in Processes, Lock!zookeeper_init(p) \/ Lock!zoo_acreate(p)
  PROVE  LockInv'
  <1>1. CASE Lock!zookeeper_init(p)
    <2>1. LockTypes'
      BY <1>1 DEF Lock!zookeeper_init, Lock!Set, LockInv, LockTypes
    <2>2. ASSUME p \notin stuck' PROVE ProcessInv(p)'
      <3>1. /\ main[p] = "init" /\ UNCHANGED <<reqs, queue, seq_me, next, owner, watches, stuck>>
            /\ \/ main'[p] = "create" /\ session'[p] = "connecting"
               \/ main'[p] = "dead"
        BY <1>1 DEF Lock!zookeeper_init, Lock!Set, LockInv, LockTypes
      <3>2. ProcessInv(p)
        BY <2>2, <3>1 DEF LockInv
      <3>3. reqs[p] = <<>> /\ queue[p] = <<>> /\ \A v \in watches : v[1] # p
        BY <3>1, <3>2 DEF ProcessInv
      <3>4. \A n : Safe(p, n) => Safe(p, n)'
        BY <3>1 DEF Safe
      <3> QED
        BY <3>1, <3>2, <3>3, <3>4, EmptyInv
    <2> QED
      BY <1>1, <2>1, <2>2, OwnStepInv DEF Lock!zookeeper_init, Lock!Set, LockInv, LockTypes
  <1>2. CASE Lock!zoo_acreate(p)
    <2>1. LockTypes'
      BY <1>2, AskQueue DEF Lock!zoo_acreate, Lock!Set, LockInv, LockTypes
    <2>2. ASSUME p \notin stuck' PROVE ProcessInv(p)'
      <3>1. /\ ProcessInv(p) /\ main[p] = "create" /\ reqs[p] = <<>> /\ queue[p] = <<>>
            /\ UNCHANGED <<session, queue, seq_me, next, owner, watches>>
        BY <1>2, <2>2 DEF Lock!zoo_acreate, LockInv, ProcessInv
      <3>2. CASE main'[p] = "dead" /\ UNCHANGED reqs
        <4>1. \A n : Safe(p, n) => Safe(p, n)'
          BY <3>1 DEF Safe
        <4> QED
          BY <3>1, <3>2, <4>1, EmptyInv
      <3>3. CASE main'[p] = "loop" /\ reqs'[p] = Append(reqs[p], <<"create", Lock!None>>)
        <4>1. reqs'[p] = << <<"create", Lock!None>> >>
          BY SMTT(30), <3>1, <3>3
        <4>2. Creating(p, 1)'
          BY SMTT(30), <4>1 DEF Creating
        <4>3. InOrder(p)'
          BY SMTT(30), <3>1, <4>1, <4>2 DEF InOrder
        <4>4. Safe(p, seq_me[p]) => Safe(p, seq_me[p])'
          BY <3>1 DEF Safe
        <4>5. \A i \in DOMAIN reqs'[p] : reqs'[p][i][1] # "delete"
          BY SMTT(30), <4>1
        <4>6. seq_me'[p] \in Nat /\ (seq_me'[p] # 0 => Safe(p, seq_me[p])')
          BY <3>1, <4>4 DEF ProcessInv
        <4>7. \A i \in DOMAIN queue'[p] : queue'[p][i][1] # "created"
          BY SMTT(30), <3>1
        <4> QED
          BY <3>3, <4>3, <4>5, <4>6, <4>7 DEF ProcessInv
      <3> QED
        BY <1>2, <3>2, <3>3 DEF Lock!zoo_acreate, Lock!Ask, Lock!Set, LockInv, LockTypes
    <2> QED
      BY <1>2, <2>1, <2>2, OwnStepInv DEF Lock!zoo_acreate, Lock!Ask, Lock!Set, LockInv, LockTypes
  <1> QED
    BY <1>1, <1>2

\* The end of a session, asked for by zookeeper_close or noticed by the service.
LEMMA CloseInv ==
  ASSUME LockInv, NEW p \in Processes, Lock!CloseSession(p),
         main' = [main EXCEPT ![p] = "closed"] \/ (main[p] = "dead" /\ UNCHANGED main),
         UNCHANGED <<seq_me, next, stuck>>
  PROVE  LockInv'
  <1> DEFINE gone == {o[1] : o \in {x \in owner : x[2] = p}}
  <1>1. /\ queue' = [Lock!Told(gone) EXCEPT ![p] = <<>>]
        /\ session' = [session EXCEPT ![p] = "over"]
        /\ owner' \subseteq owner
        /\ watches' \subseteq watches
        /\ reqs' = [reqs EXCEPT ![p] = <<>>]
    BY DEF Lock!CloseSession, Lock!Set
  <1> HIDE DEF gone
  <1>2. DOMAIN Lock!Told(gone) = Processes
    BY DEF Lock!Told
  <1>3. /\ queue'[p] = <<>> /\ reqs'[p] = <<>> /\ main'[p] \in {"closed", "dead"}
        /\ \A r \in Processes \ {p} :
             /\ queue'[r] = Lock!Told(gone)[r] /\ reqs'[r] = reqs[r]
             /\ main'[r] = main[r] /\ session'[r] = session[r]
    BY <1>1, <1>2 DEF LockInv, LockTypes
  <1>4. IsSeq(<<>>)
    BY EmptyQueue
  <1>5. LockTypes'
    BY <1>1, <1>2, <1>3, <1>4, ToldQueue DEF LockInv, LockTypes
  <1>6. \A x, n : Safe(x, n) => Safe(x, n)'
    BY <1>1 DEF Safe
  <1>7. ASSUME p \notin stuck PROVE ProcessInv(p)'
    <2>1. ProcessInv(p)
      BY <1>7 DEF LockInv
    <2> QED
      BY <1>3, <1>6, <2>1, EmptyInv
  <1>8. ASSUME NEW r \in Processes \ {p}, r \notin stuck
        PROVE  ProcessInv(r)'
    <2>1. LockTypes /\ ProcessInv(r) /\ r \in Processes
      BY <1>8 DEF LockInv
    <2> DEFINE told == Lock!Told(gone)[r]
    <2>a. \/ told = queue[r]
          \/ \E v \in watches : v[1] = r /\ \E x : told = Append(queue[r], <<"event", x>>)
      BY <2>1, ToldQueue
    <2>b. queue'[r] = told
      BY <1>3, <1>8
    <2> HIDE DEF told
    <2>2. \/ queue'[r] = queue[r]
          \/ /\ \E v \in watches : v[1] = r
             /\ \E x : queue'[r] = Append(queue[r], <<"event", x>>)
      BY <2>a, <2>b
    <2>3. /\ main'[r] = main[r] /\ seq_me'[r] = seq_me[r] /\ reqs'[r] = reqs[r]
          /\ session'[r] = session[r] /\ \A v \in watches' : v \in watches
      BY <1>1, <1>3, <1>8
    <2> QED
      BY <1>6, <2>1, <2>2, <2>3, OthersInv
  <1> QED
    BY <1>5, <1>7, <1>8 DEF LockInv

\* The callbacks, one for each answer.
LEMMA CallbackStepInv ==
  ASSUME LockInv, NEW p \in Processes, Lock!Callback(p)
  PROVE  LockInv'
  <1> DEFINE what == Head(queue[p])[1]
             val == Head(queue[p])[2]
             Sent == \/ reqs' = reqs
                     \/ \E op, n : /\ Lock!Ask(p, op, n)
                                   /\ p \notin stuck /\ op = "delete" => Safe(p, n)
  <1>1. /\ LockTypes /\ main[p] \in {"create", "loop"} /\ queue[p] # <<>>
        /\ queue' = [queue EXCEPT ![p] = Tail(queue[p])]
        /\ UNCHANGED <<session, next, owner, watches, stuck>>
    BY DEF LockInv, Lock!Callback, Lock!Set
  <1>2. /\ DOMAIN queue' = Processes /\ queue'[p] = Tail(queue[p]) /\ IsSeq(Tail(queue[p]))
        /\ Head(queue[p]) = queue[p][1] /\ 1 \in DOMAIN queue[p]
        /\ \A r \in Processes \ {p} : queue'[r] = queue[r]
    BY <1>1, Tailed DEF LockTypes
  <1>3. p \notin stuck => ProcessInv(p) /\ main[p] = "loop"
    BY <1>1 DEF LockInv, ProcessInv
  <1> DEFINE Moved == /\ DOMAIN main' = Processes /\ main'[p] \in {main[p], "dead"}
                      /\ DOMAIN seq_me' = Processes
                      /\ \A r \in Processes \ {p} :
                           main'[r] = main[r] /\ seq_me'[r] = seq_me[r]
             Numbered == p \notin stuck =>
                           /\ seq_me'[p] \in Nat
                           /\ \/ seq_me'[p] = seq_me[p]
                              \/ seq_me'[p] # 0 /\ Safe(p, seq_me'[p])
                           /\ what \in {"created", "children"} => Known(p)'
  <1>4. Sent /\ Moved /\ Numbered
    <2> HIDE DEF what, val
    <2>a. /\ DOMAIN main = Processes /\ DOMAIN seq_me = Processes
          /\ next \in Nat /\ \A o \in owner : o[1] \in Nat
          /\ \A x, n : Safe(x, n) <=> Safe(x, n)'
          /\ p \notin stuck => seq_me[p] \in Nat
      BY <1>1, <1>3 DEF LockTypes, Safe, ProcessInv
    <2>1. CASE what = "created" /\ Lock!zk_create_lock_res1_es(p, val)
      <3>1. p \notin stuck => val \in Nat /\ Safe(p, val)
        BY <1>2, <1>3, <2>1 DEF ProcessInv, what, val
      <3>2. CASE val > 0
        <4>1. seq_me' = [seq_me EXCEPT ![p] = val] /\ UNCHANGED main
              /\ Lock!Ask(p, "children", Lock!None)
          BY <2>1, <3>2 DEF Lock!zk_create_lock_res1_es, Lock!Set
        <4>2. p \notin stuck => seq_me'[p] # 0
          BY SMTT(30), <2>a, <3>1, <3>2, <4>1
        <4> QED
          BY SMTT(30), <2>a, <3>1, <4>1, <4>2 DEF Known
      <3>3. CASE ~(val > 0)
        <4>1. UNCHANGED <<main, seq_me>> /\ Lock!Ask(p, "delete", val)
          BY <2>1, <3>3 DEF Lock!zk_create_lock_res1_es, Lock!Acquire
        <4>2. p \notin stuck => Known(p)'
          <5>1. p \notin stuck => val = 0
            BY SMTT(30), <3>1, <3>3
          <5> QED
            BY <2>a, <3>1, <5>1 DEF Known
        <4> QED
          BY <2>a, <3>1, <4>1, <4>2
      <3> QED
        BY <3>2, <3>3
    <2>2. CASE what = "children" /\ Lock!zk_get_children_lock_res1(p, val)
      <3>1. p \notin stuck => Known(p)
        <4>1. ~ \E j \in 1..1 - 1 : Created(p, j)
          BY SMTT(30)
        <4> QED
          BY <1>2, <1>3, <2>2, <4>1 DEF ProcessInv, InOrder, what
      <3>2. p \notin stuck => Safe(p, seq_me[p]) /\ Safe(p, Lock!None)
        BY SMTT(30), <1>3, <2>a, <3>1 DEF Known, ProcessInv, Safe, Lock!None
      <3>3. UNCHANGED seq_me
        BY <2>2 DEF Lock!zk_get_children_lock_res1, Lock!Acquire
      <3>4. Numbered
        BY <2>a, <3>1, <3>3 DEF Known
      <3>5. CASE \E n \in {seq_me[p], Lock!None} : Lock!Acquire(p, n)
        BY <2>a, <3>2, <3>3, <3>4, <3>5 DEF Lock!Acquire
      <3>6. CASE main' = [main EXCEPT ![p] = "dead"] /\ UNCHANGED reqs
        BY <2>a, <3>3, <3>4, <3>6
      <3>7. CASE \E n : Lock!Ask(p, "exists", n) /\ UNCHANGED main
        BY SMTT(30), <2>a, <3>3, <3>4, <3>7
      <3> QED
        BY <2>2, <3>5, <3>6, <3>7 DEF Lock!zk_get_children_lock_res1, Lock!Set
    <2>3. CASE what = "deleted" /\ Lock!zk_delete_lock_res1_children(p)
      BY <2>a, <2>3 DEF Lock!zk_delete_lock_res1_children
    <2>4. CASE what = "existed" /\ Lock!Ignored
      BY <2>a, <2>4 DEF Lock!Ignored
    <2>5. CASE what = "event" /\ Lock!zk_watcher_disconnect(p, val)
      BY SMTT(30), <2>a, <2>5 DEF Lock!zk_watcher_disconnect, Lock!Ignored
    <2> QED
      BY <2>1, <2>2, <2>3, <2>4, <2>5, ZenonT(30) DEF Lock!Callback, what, val
  <1>5. /\ DOMAIN reqs' = Processes
        /\ \A r \in Processes \ {p} : reqs'[r] = reqs[r]
        /\ \A r \in Processes : IsSeq(reqs'[r])
    BY <1>1, <1>4, AskQueue DEF LockTypes
  <1>6. LockTypes'
    BY <1>1, <1>2, <1>4, <1>5 DEF LockTypes
  <1>7. p \notin stuck => ProcessInv(p)'
    <2>1. ASSUME p \notin stuck
          PROVE  \/ reqs'[p] = reqs[p]
                 \/ \E op, n : /\ reqs'[p] = Append(reqs[p], <<op, n>>)
                               /\ op = "delete" => Safe(p, n)
      BY SMTT(30), <1>1, <1>4, <2>1, AskQueue
    <2> QED
      BY <1>1, <1>2, <1>3, <1>4, <2>1, CallbackInv
  <1> QED
    BY <1>1, <1>2, <1>4, <1>5, <1>6, <1>7, OwnStepInv

\* The session is connected, and a process may end at any time.
LEMMA ConnectInv ==
  ASSUME LockInv, NEW p \in Processes, Lock!Connect(p) \/ Lock!Crash(p)
  PROVE  LockInv'
  <1>1. CASE Lock!Connect(p)
    <2>1. /\ queue' = [queue EXCEPT ![p] = Append(queue[p], <<"event", Lock!None>>)]
          /\ session' = [session EXCEPT ![p] = "connected"]
          /\ UNCHANGED <<main, reqs, seq_me, next, owner, watches>>
          /\ stuck \subseteq stuck' /\ (p \notin stuck' => main[p] = "loop")
      BY <1>1 DEF Lock!Connect, Lock!Set
    <2>2. IsSeq(Append(queue[p], <<"event", Lock!None>>))
      BY Appended DEF LockInv, LockTypes
    <2>3. LockTypes'
      BY <2>1, <2>2 DEF LockInv, LockTypes
    <2>4. \A x, n : Safe(x, n) => Safe(x, n)'
      BY <2>1 DEF Safe
    <2>5. ASSUME p \notin stuck' PROVE ProcessInv(p)'
      BY <2>1, <2>4, <2>5, OthersInv DEF LockInv, LockTypes
    <2> QED
      BY <2>1, <2>3, <2>5, OwnStepInv DEF LockInv, LockTypes
  <1>2. CASE Lock!Crash(p)
    <2>1. LockTypes'
      BY <1>2 DEF Lock!Crash, Lock!Set, LockInv, LockTypes
    <2>2. ASSUME p \notin stuck' PROVE ProcessInv(p)'
      BY SMTT(30), <1>2, <2>2
      DEF Lock!Crash, Lock!Set, LockInv, LockTypes, ProcessInv, Known, InOrder, Safe,
          Created, Creating
    <2> QED
      BY <1>2, <2>1, <2>2, OwnStepInv DEF Lock!Crash, Lock!Set, LockInv, LockTypes
  <1> QED
    BY <1>1, <1>2

\* The queue t is q with the answer e behind it.
OneMore(t, q, e) ==
  /\ \A i \in DOMAIN q : i \in DOMAIN t /\ t[i] = q[i]
  /\ \A i \in DOMAIN t \ DOMAIN q : i \in Nat /\ Len(q) < i /\ t[i] = e
  /\ \E i \in DOMAIN t : i \in Nat /\ t[i] = e

\* An answer behind what is in a queue, after an event or not.
LEMMA AnswerQueue ==
  ASSUME NEW q, IsSeq(q), NEW e
  PROVE  OneMore(Append(q, e), q, e)
  BY SMTT(30), Appended, SeqDomain DEF OneMore

\* The service refuses a request.
LEMMA RefuseInv ==
  ASSUME LockInv, NEW p \in Processes, Lock!Refuse(p)
  PROVE  LockInv'
  <1>1. /\ LockTypes /\ session[p] = "connected" /\ reqs[p] # <<>>
        /\ reqs' = [reqs EXCEPT ![p] = Tail(reqs[p])]
        /\ UNCHANGED <<main, session, seq_me, next, owner, watches>>
        /\ stuck \subseteq stuck'
        /\ \/ p \in stuck' /\ UNCHANGED queue
           \/ /\ Head(reqs[p])[1] = "delete"
              /\ queue' = [queue EXCEPT ![p] = Append(queue[p], <<"deleted", Lock!None>>)]
    BY DEF Lock!Refuse, Lock!Set, Lock!Answer, LockInv
  <1>2. /\ DOMAIN reqs' = Processes /\ reqs'[p] = Tail(reqs[p]) /\ IsSeq(Tail(reqs[p]))
        /\ \A r \in Processes \ {p} : reqs'[r] = reqs[r] /\ queue'[r] = queue[r]
    BY <1>1, Tailed DEF LockTypes
  <1>3. IsSeq(Append(queue[p], <<"deleted", Lock!None>>))
    BY <1>1, Appended DEF LockTypes
  <1>4. LockTypes'
    BY <1>1, <1>2, <1>3 DEF LockTypes
  <1>5. ASSUME p \notin stuck' PROVE ProcessInv(p)'
    <2>1. ProcessInv(p) /\ main[p] \notin {"init", "create"}
      BY <1>1, <1>5 DEF LockInv, ProcessInv
    <2>2. queue'[p] = Append(queue[p], <<"deleted", Lock!None>>) /\ Head(reqs[p])[1] = "delete"
      BY <1>1, <1>5 DEF LockTypes
    <2>3. /\ \A i \in DOMAIN queue[p] : i \in DOMAIN queue'[p] /\ queue'[p][i] = queue[p][i]
          /\ \A i \in DOMAIN queue'[p] \ DOMAIN queue[p] :
               i \in Nat /\ Len(queue[p]) < i /\ queue'[p][i] = <<"deleted", Lock!None>>
      <3>1. IsSeq(queue[p])
        BY <1>1 DEF LockTypes
      <3>2. OneMore(queue'[p], queue[p], <<"deleted", Lock!None>>)
        BY <2>2, <3>1, AnswerQueue
      <3> QED
        BY <3>2 DEF OneMore
    <2>4. \A x, n : Safe(x, n) => Safe(x, n)'
      BY <1>1 DEF Safe
    <2>5. \A i \in DOMAIN queue'[p] \ DOMAIN queue[p] :
            i \in Nat /\ Len(queue[p]) < i /\ queue'[p][i][1] = "deleted"
      BY SMTT(30), <2>3
    <2> QED
      BY <1>1, <1>2, <2>1, <2>2, <2>3, <2>4, <2>5, AnswerInv
  <1> QED
    BY <1>1, <1>2, <1>4, <1>5, OwnStepInv

\* The service executes a request.
LEMMA ExecuteInv ==
  ASSUME LockInv, NEW p \in Processes, Lock!Execute(p)
  PROVE  LockInv'
  <1> DEFINE op == Head(reqs[p])[1]
             n == Head(reqs[p])[2]
             Grows == /\ next' \in Nat /\ next <= next'
                      /\ owner' \subseteq owner \cup {<<next, p>>}
                      /\ \A o \in owner' : o[1] \in Nat /\ o[1] < next'
                      /\ stuck \subseteq stuck'
                      /\ \A v \in watches' : v \in watches \/ v[1] = p
             Others == \A r \in Processes \ {p} :
                         /\ IsSeq(queue'[r])
                         /\ \/ queue'[r] = queue[r]
                            \/ /\ \E v \in watches : v[1] = r
                               /\ \E x : queue'[r] = Append(queue[r], <<"event", x>>)
             Longer == /\ IsSeq(queue'[p])
                       /\ \A i \in DOMAIN queue[p] :
                            i \in DOMAIN queue'[p] /\ queue'[p][i] = queue[p][i]
                       /\ \A i \in DOMAIN queue'[p] \ DOMAIN queue[p] :
                            /\ i \in Nat /\ Len(queue[p]) < i
                            /\ queue'[p][i][1] = "created" =>
                                 queue'[p][i][2] \in Nat /\ Safe(p, queue[p][i][2])'
                            /\ queue'[p][i][1] = "children" => op = "children"
                       /\ op = "create" => \E i \in Nat : Created(p, i)'
  <1>1. /\ LockTypes /\ session[p] = "connected" /\ reqs[p] # <<>>
        /\ reqs' = [reqs EXCEPT ![p] = Tail(reqs[p])]
        /\ UNCHANGED <<main, session, seq_me>>
        /\ IsSeq(queue[p])
    BY ZenonT(30) DEF Lock!Execute, Lock!Set, LockInv, LockTypes
  <1>2. /\ DOMAIN reqs' = Processes /\ reqs'[p] = Tail(reqs[p]) /\ IsSeq(Tail(reqs[p]))
        /\ \A r \in Processes \ {p} : reqs'[r] = reqs[r]
    BY <1>1, Tailed DEF LockTypes
  <1>a. ASSUME NEW what, NEW val, queue' = Lock!Answer(p, what, val)
        PROVE  /\ DOMAIN queue' = Processes
               /\ \A r \in Processes \ {p} : queue'[r] = queue[r]
               /\ IsSeq(queue'[p])
               /\ \A i \in DOMAIN queue[p] :
                    i \in DOMAIN queue'[p] /\ queue'[p][i] = queue[p][i]
               /\ \A i \in DOMAIN queue'[p] \ DOMAIN queue[p] :
                    i \in Nat /\ Len(queue[p]) < i /\ queue'[p][i] = <<what, val>>
               /\ \E i \in DOMAIN queue'[p] : i \in Nat /\ queue'[p][i] = <<what, val>>
    <2>1. /\ DOMAIN queue' = Processes /\ queue'[p] = Append(queue[p], <<what, val>>)
          /\ \A r \in Processes \ {p} : queue'[r] = queue[r]
      BY <1>1, <1>a DEF Lock!Answer, LockTypes
    <2> DEFINE e == <<what, val>>
               q == queue[p]
               a == Append(q, e)
    <2>2. IsSeq(q) /\ queue'[p] = a
      BY <1>1, <2>1
    <2> HIDE DEF e, q
    <2>3. IsSeq(a)
      BY <2>2, Appended
    <2>4. OneMore(a, q, e)
      BY <2>2, AnswerQueue
    <2> HIDE DEF a
    <2> QED
      BY <2>1, <2>2, <2>3, <2>4 DEF e, q, OneMore
  <1>3. DOMAIN queue' = Processes /\ Grows /\ Others /\ Longer
    <2> HIDE DEF op, n
    <2>a. /\ next \in Nat /\ \A o \in owner : o[1] \in Nat /\ o[1] < next
          /\ \A r \in Processes : IsSeq(queue[r])
      BY <1>1 DEF LockTypes
    <2>1. CASE /\ op = "create"
               /\ owner' = owner \cup {<<next, p>>} /\ next' = next + 1
               /\ queue' = Lock!Answer(p, "created", next)
               /\ UNCHANGED <<watches, said, stuck>>
      <3>1. Grows
        BY SMTT(30), <2>1, <2>a
      <3>2. \A k : k = next => Safe(p, k)'
        BY SMTT(30), <2>1, <2>a DEF Safe
      <3>3. \A i \in DOMAIN queue'[p] \ DOMAIN queue[p] :
              i \in Nat /\ Len(queue[p]) < i /\ queue'[p][i] = <<"created", next>>
        BY SMTT(30), <2>1, <1>a
      <3>4. PICK i \in DOMAIN queue'[p] : i \in Nat /\ queue'[p][i] = <<"created", next>>
        BY <2>1, <1>a, ZenonT(30)
      <3>5. Created(p, i)'
        BY SMTT(30), <3>4 DEF Created
      <3>6. Longer
        BY SMTT(30), <1>a, <2>1, <2>a, <3>2, <3>3, <3>4, <3>5
      <3> QED
        BY <1>a, <2>1, <2>a, <3>1, <3>6
    <2>2. CASE /\ op = "children"
               /\ queue' = Lock!Answer(p, "children", Lock!Nodes)
               /\ UNCHANGED <<owner, next, watches, said, stuck>>
      BY SMTT(30), <1>a, <2>2, <2>a
    <2>3. CASE /\ op = "exists"
               /\ queue' = Lock!Answer(p, "existed", n)
               /\ \/ watches' = watches \cup {<<p, n>>} /\ UNCHANGED stuck
                  \/ stuck' = stuck \cup {p} /\ UNCHANGED watches
               /\ UNCHANGED <<owner, next, said>>
      BY SMTT(30), <1>a, <2>3, <2>a
    <2>4. CASE /\ op = "delete"
               /\ owner' = {o \in owner : o[1] # n}
               /\ queue' = [r \in Processes |->
                              IF r = p THEN Append(Lock!Told({n})[r], <<"deleted", n>>)
                              ELSE Lock!Told({n})[r]]
               /\ watches' = {v \in watches : v[2] # n}
               /\ UNCHANGED <<next, stuck>>
      <3> DEFINE t == Lock!Told({n})[p]
      <3>1. Grows /\ DOMAIN queue' = Processes /\ queue'[p] = Append(t, <<"deleted", n>>)
        BY SMTT(30), <2>4, <2>a
      <3>2. Others
        <4>1. ASSUME NEW r \in Processes \ {p}
              PROVE  queue'[r] = Lock!Told({n})[r]
          BY <2>4, <4>1
        <4>2. ASSUME NEW r \in Processes
              PROVE  /\ IsSeq(Lock!Told({n})[r])
                     /\ \/ Lock!Told({n})[r] = queue[r]
                        \/ \E v \in watches :
                             v[1] = r /\ \E x : Lock!Told({n})[r] = Append(queue[r], <<"event", x>>)
          BY <1>1, ToldQueue
        <4> QED
          BY <4>1, <4>2
      <3> HIDE DEF t
      <3>3. /\ IsSeq(t)
            /\ \A i \in DOMAIN queue[p] : i \in DOMAIN t /\ t[i] = queue[p][i]
            /\ \A i \in DOMAIN t \ DOMAIN queue[p] :
                 i \in Nat /\ Len(queue[p]) < i /\ t[i][1] = "event"
        <4>1. IsSeq(t) /\ (t = queue[p] \/ \E x : t = Append(queue[p], <<"event", x>>))
          BY <1>1, ToldQueue, ZenonT(30) DEF t
        <4> QED
          BY SMTT(30), <1>1, <4>1, AnswerQueue DEF OneMore
      <3>4. /\ IsSeq(queue'[p])
            /\ \A i \in DOMAIN t : i \in DOMAIN queue'[p] /\ queue'[p][i] = t[i]
            /\ \A i \in DOMAIN queue'[p] \ DOMAIN t :
                 i \in Nat /\ Len(t) < i /\ queue'[p][i] = <<"deleted", n>>
        BY SMTT(30), <3>1, <3>3, Appended, AnswerQueue DEF OneMore
      <3>5. Len(queue[p]) <= Len(t)
        <4>1. /\ Len(queue[p]) \in Nat /\ DOMAIN queue[p] = 1..Len(queue[p])
              /\ Len(t) \in Nat /\ DOMAIN t = 1..Len(t)
          BY <1>1, <3>3, SeqDomain
        <4>2. CASE Len(queue[p]) = 0
          BY SMTT(30), <4>1, <4>2
        <4>3. CASE Len(queue[p]) # 0
          BY SMTT(30), <3>3, <4>1, <4>3
        <4> QED
          BY <4>2, <4>3
      <3>6. Longer
        <4>1. \A i \in DOMAIN queue'[p] \ DOMAIN queue[p] :
                i \in Nat /\ Len(queue[p]) < i /\ queue'[p][i][1] \in {"event", "deleted"}
          BY SMTT(30), <1>1, <3>3, <3>4, <3>5, SeqDomain
        <4> QED
          BY <2>4, <3>3, <3>4, <4>1, ZenonT(30)
      <3> QED
        BY <3>1, <3>2, <3>6
    <2> QED
      BY <2>1, <2>2, <2>3, <2>4, ZenonT(30) DEF Lock!Execute, op, n
  <1>4. \A x, k : Safe(x, k) => Safe(x, k)'
    BY <1>1, <1>3, SafeStable
  <1>5. LockTypes'
    BY <1>1, <1>2, <1>3 DEF LockTypes
  <1>6. ASSUME p \notin stuck' PROVE ProcessInv(p)'
    <2>1. ProcessInv(p) /\ main[p] \notin {"init", "create"}
      BY <1>1, <1>3, <1>6 DEF LockInv, ProcessInv
    <2> QED
      BY <1>1, <1>2, <1>3, <1>4, <2>1, AnswerInv
  <1>7. ASSUME NEW r \in Processes \ {p}, r \notin stuck'
        PROVE  ProcessInv(r)'
    BY <1>1, <1>2, <1>3, <1>4, <1>7, OthersInv DEF LockInv
  <1> QED
    BY <1>5, <1>6, <1>7 DEF LockInv

\* The inductive invariant of zklock, whatever calls fail and processes end.
THEOREM LockInvariance == Spec => [](IsLock => LockInv)
  <1>1. Init => (IsLock => LockInv)
    <2>1. IsSeq(<<>>)
      BY EmptyQueue
    <2>2. Lock!ZkLockConstants
      BY ZkConstants
    <2>3. Lock!Init => LockInv
      BY SMTT(30), <2>1, <2>2
      DEF Lock!Init, Lock!ZkLockConstants, LockInv, LockTypes, ProcessInv, Known, InOrder, Safe,
          Created, Creating
    <2> QED
      BY <2>3 DEF Init, IsLock
  <1>2. (IsLock => LockInv) /\ [Next]_vars => (IsLock => LockInv)'
    <2> SUFFICES ASSUME LockInv, IsLock, [Next]_vars, IsLock'
                 PROVE  LockInv'
      BY DEF Next, vars, IsLock, IsLeader, LeaderProcess, Elects, LockProcess, LockCallback,
             LockService, Locks
    <2>1. CASE UNCHANGED vars
      <3>1. LockTypes'
        BY <2>1 DEF vars, OnlyLock, LockInv, LockTypes
      <3>2. \A q, n : Safe(q, n) => Safe(q, n)'
        BY <2>1 DEF vars, OnlyLock, Safe
      <3>3. ASSUME NEW r \in Processes \ stuck'
            PROVE  ProcessInv(r)'
        <4>1. LockTypes /\ ProcessInv(r)
          BY <2>1, <3>3 DEF vars, LockInv
        <4> QED
          BY <2>1, <3>2, <3>3, <4>1, OthersInv DEF vars, OnlyLock
      <3> QED
        BY <3>1, <3>3 DEF LockInv
    <2>2. ASSUME NEW p \in Processes, Lock!Process(p)
          PROVE  LockInv'
      BY <2>2, MainInv, CloseInv DEF Lock!Process, Lock!zookeeper_close, Lock!Set
    <2>3. ASSUME NEW p \in Processes, Lock!Service(p)
          PROVE  LockInv'
      BY <2>3, ConnectInv, ExecuteInv, CloseInv DEF Lock!Service, Lock!Expire
    <2> QED
      BY <2>1, <2>2, <2>3, CallbackStepInv, RefuseInv, ConnectInv
      DEF Next, LeaderProcess, LockProcess, LockCallback, LockService, IsLeader, IsLock
  <1> QED
    BY <1>1, <1>2, PTL DEF Spec

\* A process that is not in `stuck` never deletes the node of another one: it
\* takes the lock by the number of the node it created, or by no node's.
THEOREM LockDeletesItsOwn == Spec => []DeletesOnlyItsOwn
  <1>1. (IsLock => LockInv) => DeletesOnlyItsOwn
    BY DEF LockInv, ProcessInv, Safe, DeletesOnlyItsOwn, Lock!DeletesOnlyItsOwn
  <1> QED
    BY <1>1, LockInvariance, PTL

=============================================================================
