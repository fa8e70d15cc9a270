-------------------------------- MODULE MCZk --------------------------------
(***************************************************************************)
(* The two ZooKeeper recipes, zkleader.cc and zklock.cc.  A behaviour is   *)
(* one of them, run by several processes.  A variable a recipe does not    *)
(* use is "unused"; session, watches and stuck serve both.                 *)
(***************************************************************************)
EXTENDS Integers

CONSTANTS Participants, Processes, FirstSeqs, Faults

VARIABLE program
VARIABLES session, watches, stuck
VARIABLES pc, current_node, predecessor_node, nodes, last, events
VARIABLES main, reqs, queue, seq_me, watch, quit, next, owner, said

Leader == INSTANCE ZkLeader
Lock == INSTANCE ZkLock

ASSUME ZkConstants == Leader!ZkLeaderConstants /\ Lock!ZkLockConstants

OnlyLeader == <<pc, current_node, predecessor_node, nodes, last, events>>
OnlyLock == <<main, reqs, queue, seq_me, watch, quit, next, owner, said>>
vars == <<program, session, watches, stuck, OnlyLeader, OnlyLock>>

NoLeader ==
  /\ pc = "unused" /\ current_node = "unused" /\ predecessor_node = "unused"
  /\ nodes = "unused" /\ last = "unused" /\ events = "unused"
NoLock ==
  /\ main = "unused" /\ reqs = "unused" /\ queue = "unused" /\ seq_me = "unused"
  /\ watch = "unused" /\ quit = "unused" /\ next = "unused" /\ owner = "unused" /\ said = "unused"

IsLeader == program = "zkleader"
IsLock == program = "zklock"

Init ==
  \/ program = "zkleader" /\ Leader!Init /\ NoLock
  \/ program = "zklock" /\ Lock!Init /\ NoLeader

Elects == UNCHANGED <<program, OnlyLock>>
Locks == UNCHANGED <<program, OnlyLeader>>

LeaderProcess(p) == IsLeader /\ Leader!Process(p) /\ Elects
LeaderEnds(p) == IsLeader /\ Leader!SessionEnds(p) /\ Elects
LockProcess(p) == IsLock /\ Lock!Process(p) /\ Locks
LockCallback(p) == IsLock /\ Lock!Callback(p) /\ Locks
LockService(p) == IsLock /\ Lock!Service(p) /\ Locks

Next ==
  \/ \E p \in Participants : LeaderProcess(p) \/ (IsLeader /\ Leader!Environment(p) /\ Elects)
  \/ \E p \in Processes :
       \/ LockProcess(p) \/ LockCallback(p) \/ LockService(p)
       \/ IsLock /\ (Lock!Refuse(p) \/ Lock!Crash(p)) /\ Locks

Spec == Init /\ [][Next]_vars

\* Processes and their callback threads run; the service answers, and notices
\* those that ended.
FairSpec ==
  /\ Spec
  /\ \A p \in Participants : WF_vars(LeaderProcess(p)) /\ WF_vars(LeaderEnds(p))
  /\ \A p \in Processes :
       WF_vars(LockProcess(p)) /\ WF_vars(LockCallback(p)) /\ WF_vars(LockService(p))

-----------------------------------------------------------------------------
(* Properties *)

\* Two participants with a session are never both "This node is the leader" (see
\* ZkLeader).
SoleLeader == IsLeader => Leader!SoleLeader

\* A process deletes no node but its own (see ZkLock).
DeletesOnlyItsOwn == IsLock => Lock!DeletesOnlyItsOwn

\* The participant whose node is the first becomes the leader, or ends, or loses
\* its session, unless its list or watch failed: a predecessor deleted between
\* zoo_get_children and zoo_exists is never noticed.
FirstBecomesLeader ==
  \A p \in Participants :
    (IsLeader /\ Leader!IsFirst(p)) ~> (IsLeader => Leader!Settled(p))

\* Every process gets its turn and ends, unless some process was connected before
\* it sent its create, had a failing request, or would watch a node that was
\* deleted between the list and the watch: that process waits for ever, and with
\* it those behind it.
EveryoneGetsTheLock == <>(IsLock => \A p \in Processes : Lock!Served(p))
=============================================================================
