------------------------------ MODULE ZkLeader ------------------------------
(***************************************************************************)
(* examples/zookeeper/zkleader.cc: leader election.  A participant creates *)
(* an ephemeral sequential node, lists the nodes, and is the leader if its *)
(* own comes first; otherwise it watches the node before its own and lists *)
(* them again when that node is deleted.  The list and the watch are two   *)
(* calls, so nodes may go in between.  The zero-padded names sort like     *)
(* their sequence numbers, which stand for them here.                      *)
(*                                                                         *)
(* External (the ZooKeeper service): a node lives as long as the session   *)
(* that created it, a watch fires once, events are delivered to the        *)
(* session that watches.                                                   *)
(***************************************************************************)
EXTENDS Integers, FiniteSets

CONSTANTS
  Participants,  \* processes that run zkleader
  Faults         \* what may happen to them: "crash", "expire", "call"

ZkLeaderConstants == IsFiniteSet(Participants) /\ Participants # {}

VARIABLES
  pc,                \* "start", "check", "watch", "wait", "leader", "dead"
  session,           \* "none", "open", "closed"
  current_node,      \* sequence number of the participant's node, 0 if none
  predecessor_node,  \* the one it watches, 0 if none
  nodes,             \* existing nodes
  last,              \* last sequence number given out
  watches,           \* <<participant, node>>: armed watches
  events,            \* <<participant, node>>: deletions not yet delivered
  stuck              \* participants whose list or watch failed

Init ==
  /\ pc = [p \in Participants |-> "start"]
  /\ session = [p \in Participants |-> "none"]
  /\ current_node = [p \in Participants |-> 0]
  /\ predecessor_node = [p \in Participants |-> 0]
  /\ nodes = {} /\ last = 0
  /\ watches = {} /\ events = {}
  /\ stuck = {}

Goto(p, to) == pc' = [pc EXCEPT ![p] = to]

\* start_zookeeper_connection and create_ephemeral_sequential_node.  When the
\* call fails the process exits; the node may exist all the same.
create_ephemeral_sequential_node(p) ==
  /\ pc[p] = "start"
  /\ \/ /\ Goto(p, "check")
        /\ session' = [session EXCEPT ![p] = "open"]
        /\ current_node' = [current_node EXCEPT ![p] = last + 1]
        /\ nodes' = nodes \cup {last + 1} /\ last' = last + 1
     \/ /\ "call" \in Faults
        /\ Goto(p, "dead")
        /\ session' = [session EXCEPT ![p] = "open"]
        /\ current_node' = [current_node EXCEPT ![p] = last + 1]
        /\ nodes' = nodes \cup {last + 1} /\ last' = last + 1
     \/ /\ "call" \in Faults
        /\ Goto(p, "dead")
        /\ UNCHANGED <<session, current_node, nodes, last>>
  /\ UNCHANGED <<predecessor_node, watches, events, stuck>>

Before(p) == {n \in nodes : n < current_node[p]}

\* check_leadership: the list.  An error is printed and nothing is watched.
check_leadership(p) ==
  /\ pc[p] = "check"
  /\ \/ /\ session[p] = "open"
        /\ IF Before(p) = {}
           THEN Goto(p, "leader") /\ UNCHANGED predecessor_node
           ELSE \E n \in Before(p) :
                  /\ \A m \in Before(p) : m <= n
                  /\ Goto(p, "watch")
                  /\ predecessor_node' = [predecessor_node EXCEPT ![p] = n]
        /\ UNCHANGED stuck
     \/ /\ "call" \in Faults \/ session[p] = "closed"
        /\ Goto(p, "wait") /\ stuck' = stuck \cup {p}
        /\ UNCHANGED predecessor_node
  /\ UNCHANGED <<session, current_node, nodes, last, watches, events>>

\* check_leadership: zoo_exists, whose result is not looked at.  On a node that
\* is gone it arms a watch for a creation that never comes.
zoo_exists(p) ==
  /\ pc[p] = "watch"
  /\ Goto(p, "wait")
  /\ \/ /\ session[p] = "open" /\ predecessor_node[p] \in nodes
        /\ watches' = watches \cup {<<p, predecessor_node[p]>>}
        /\ UNCHANGED stuck
     \/ /\ "call" \in Faults \/ session[p] = "closed" \/ predecessor_node[p] \notin nodes
        /\ stuck' = stuck \cup {p}
        /\ UNCHANGED watches
  /\ UNCHANGED <<session, current_node, predecessor_node, nodes, last, events>>

\* Fault: the deletion of the predecessor is taken for the leadership.
watcher_callback_leads(p) ==
  \E e \in events :
    /\ e[1] = p /\ pc[p] = "wait"
    /\ events' = events \ {e}
    /\ Goto(p, "leader")
    /\ UNCHANGED <<session, current_node, predecessor_node, nodes, last, watches, stuck>>

\* Fault: a deletion is compared with the participant's own node.
watcher_callback_own(p) ==
  \E e \in events :
    /\ e[1] = p /\ pc[p] = "wait"
    /\ events' = events \ {e}
    /\ IF e[2] = current_node[p] THEN Goto(p, "check") ELSE UNCHANGED pc
    /\ UNCHANGED <<session, current_node, predecessor_node, nodes, last, watches, stuck>>

\* watcher_callback: the deletion of the predecessor starts a new check.
watcher_callback(p) ==
  \E e \in events :
    /\ e[1] = p /\ pc[p] = "wait"
    /\ events' = events \ {e}
    /\ IF e[2] = predecessor_node[p] THEN Goto(p, "check") ELSE UNCHANGED pc
    /\ UNCHANGED <<session, current_node, predecessor_node, nodes, last, watches, stuck>>

Process(p) ==
  \/ create_ephemeral_sequential_node(p) \/ check_leadership(p) \/ zoo_exists(p)
  \/ watcher_callback(p)

Crash(p) ==
  /\ "crash" \in Faults
  /\ pc[p] # "dead"
  /\ Goto(p, "dead")
  /\ UNCHANGED <<session, current_node, predecessor_node, nodes, last, watches, events, stuck>>

\* The service closes the session of a process that ended, or ("expire") of one
\* it has not heard of for too long: its node is deleted, those who watch it are
\* told, and it watches nothing any more.
CloseSession(p) ==
  /\ session[p] = "open"
  /\ session' = [session EXCEPT ![p] = "closed"]
  /\ nodes' = nodes \ {current_node[p]}
  /\ events' = {e \in events \cup {v \in watches : v[2] = current_node[p]} : e[1] # p}
  /\ watches' = {v \in watches : v[1] # p /\ v[2] # current_node[p]}
  /\ UNCHANGED <<pc, current_node, predecessor_node, last, stuck>>

SessionEnds(p) == pc[p] = "dead" /\ CloseSession(p)
Expires(p) == "expire" \in Faults /\ CloseSession(p)

Environment(p) == Crash(p) \/ SessionEnds(p) \/ Expires(p)

-----------------------------------------------------------------------------
(* Properties *)

Leads(p) == pc[p] = "leader" /\ session[p] = "open"

\* Two participants with a session are never both "This node is the leader": one
\* that says so has the first node of all that will ever exist again.
SoleLeader ==
  \A p \in Participants : Leads(p) => \A n \in nodes : current_node[p] <= n

IsFirst(p) == session[p] = "open" /\ Before(p) = {}
Settled(p) == pc[p] \in {"leader", "dead"} \/ session[p] = "closed" \/ p \in stuck
=============================================================================
