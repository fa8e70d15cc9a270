------------------------------- MODULE ZkLock -------------------------------
(***************************************************************************)
(* examples/zookeeper/zklock.cc: a lock.  Each process creates an          *)
(* ephemeral sequential node; the one with the smallest number has the     *)
(* lock, says so and releases it by deleting its node; the others watch    *)
(* the node before their own.  Everything but main's loop runs in          *)
(* callbacks, one at a time, on answers that arrive in the order of the    *)
(* requests.  The watcher of the handle also gets the session event of the *)
(* new connection, whose path is empty, as is zmt.watch until the first    *)
(* watch.                                                                  *)
(*                                                                         *)
(* External (the ZooKeeper service and its client library): requests are   *)
(* executed in order once the session is connected, each adds its answer   *)
(* to the queue of the callback thread; a watch fires once.                *)
(***************************************************************************)
EXTENDS Integers, Sequences, FiniteSets

CONSTANTS
  Processes,  \* processes that run zklock
  FirstSeqs,  \* sequence numbers the first node may get
  Faults      \* what may happen: "call", "crash", "slow_main"

None == -1    \* no node: an empty zmt.watch, a NULL value_self

ZkLockConstants ==
  /\ IsFiniteSet(Processes) /\ Processes # {}
  /\ FirstSeqs \subseteq Nat /\ FirstSeqs # {}

VARIABLES
  main,     \* "init", "create", "loop", "closed", "dead"
  session,  \* "none", "connecting", "connected", "over"
  reqs,     \* requests under way, <<operation, node>>
  queue,    \* for the callback thread, <<what, value>>
  seq_me, watch, quit,  \* the program's variables
  next,     \* next sequence number
  owner,    \* existing nodes and the process each belongs to, <<node, process>>
  watches,  \* <<process, node>>
  said,     \* processes that said they have the lock and have not released it
  stuck     \* processes a request of which failed, that watch a node too late,
            \* or that were connected before they sent their create

vars == <<main, session, reqs, queue, seq_me, watch, quit, next, owner, watches, said, stuck>>

Nodes == {o[1] : o \in owner}

Init ==
  /\ main = [p \in Processes |-> "init"]
  /\ session = [p \in Processes |-> "none"]
  /\ reqs = [p \in Processes |-> <<>>]
  /\ queue = [p \in Processes |-> <<>>]
  /\ seq_me = [p \in Processes |-> 0]
  /\ watch = [p \in Processes |-> None]
  /\ quit = [p \in Processes |-> FALSE]
  /\ next \in FirstSeqs
  /\ owner = {} /\ watches = {} /\ said = {} /\ stuck = {}

Ask(p, op, n) == reqs' = [reqs EXCEPT ![p] = Append(@, <<op, n>>)]
Set(f, p, v) == [f EXCEPT ![p] = v]

-----------------------------------------------------------------------------
(* main() *)

\* zookeeper_init.
zookeeper_init(p) ==
  /\ main[p] = "init"
  /\ \/ main' = Set(main, p, "create") /\ session' = Set(session, p, "connecting")
     \/ "call" \in Faults /\ main' = Set(main, p, "dead") /\ UNCHANGED session
  /\ UNCHANGED <<reqs, queue, seq_me, watch, quit, next, owner, watches, said, stuck>>

zoo_acreate(p) ==
  /\ main[p] = "create"
  /\ \/ main' = Set(main, p, "loop") /\ Ask(p, "create", None)
     \/ "call" \in Faults /\ main' = Set(main, p, "dead") /\ UNCHANGED reqs
  /\ UNCHANGED <<session, queue, seq_me, watch, quit, next, owner, watches, said, stuck>>

\* zookeeper_close: the session ends, its node goes, whoever watches it is told.
Told(gone) ==
  [r \in Processes |->
     IF \E n \in gone : <<r, n>> \in watches
     THEN Append(queue[r], <<"event", CHOOSE n \in gone : <<r, n>> \in watches>>)
     ELSE queue[r]]

CloseSession(p) ==
  LET gone == {o[1] : o \in {x \in owner : x[2] = p}} IN
  /\ session' = Set(session, p, "over")
  /\ owner' = {o \in owner : o[2] # p}
  /\ queue' = Set(Told(gone), p, <<>>)
  /\ watches' = {v \in watches : v[2] \notin gone /\ v[1] # p}
  /\ reqs' = Set(reqs, p, <<>>)
  /\ said' = said \ {p}

zookeeper_close(p) ==
  /\ main[p] = "loop" /\ quit[p]
  /\ main' = Set(main, p, "closed")
  /\ CloseSession(p)
  /\ UNCHANGED <<seq_me, watch, quit, next, stuck>>

-----------------------------------------------------------------------------
(* Callbacks *)

\* "gets the lock, gets the right to execute, releases the lock": node n, the
\* process's own unless value_self is NULL, is deleted.
Acquire(p, n) ==
  /\ said' = said \cup {p}
  /\ Ask(p, "delete", n)
  /\ UNCHANGED <<seq_me, watch, quit, main>>

\* Fault: the process's number is not kept.
zk_create_lock_res1_es_forgets(p, seq) ==
  Ask(p, "children", None) /\ UNCHANGED <<seq_me, watch, quit, said, main>>

\* zk_create_lock_res1_es.
zk_create_lock_res1_es(p, seq) ==
  IF seq > 0
  THEN /\ seq_me' = Set(seq_me, p, seq)
       /\ Ask(p, "children", None)
       /\ UNCHANGED <<watch, quit, said, main>>
  ELSE Acquire(p, seq)

\* zk_get_children_lock_res1: the largest smaller number is watched; with none
\* the process takes the lock.  Its own node may not be in the list: printing a
\* NULL value_self gives "(null)" or ends the process.
zk_get_children_lock_res1(p, s) ==
  LET smaller == {v \in s : v < seq_me[p]} IN
  IF smaller = {}
  THEN \/ Acquire(p, IF seq_me[p] \in s THEN seq_me[p] ELSE None)
       \/ /\ seq_me[p] \notin s
          /\ main' = Set(main, p, "dead")
          /\ UNCHANGED <<said, reqs, seq_me, watch, quit>>
  ELSE \E v \in smaller :
         /\ \A u \in smaller : u <= v
         /\ watch' = Set(watch, p, v)
         /\ Ask(p, "exists", v)
         /\ UNCHANGED <<seq_me, quit, said, main>>

\* zk_delete_lock_res1_children.
zk_delete_lock_res1_children(p) ==
  /\ quit' = Set(quit, p, TRUE)
  /\ UNCHANGED <<seq_me, watch, reqs, said, main>>

Ignored == UNCHANGED <<seq_me, watch, quit, reqs, said, main>>

\* Fault: only the deletion of the node itself is looked for.
zk_watcher_disconnect_own(p, n) ==
  IF seq_me[p] = n
  THEN Ask(p, "children", None) /\ UNCHANGED <<seq_me, watch, quit, said, main>>
  ELSE Ignored

\* zk_watcher_disconnect, for the deletion of node n or a session event (None).
zk_watcher_disconnect(p, n) ==
  IF watch[p] = n
  THEN Ask(p, "children", None) /\ UNCHANGED <<seq_me, watch, quit, said, main>>
  ELSE Ignored

Callback(p) ==
  /\ main[p] \in {"create", "loop"} /\ queue[p] # <<>>
  /\ queue' = Set(queue, p, Tail(queue[p]))
  /\ LET what == Head(queue[p])[1]
         val == Head(queue[p])[2]
     IN \/ what = "created" /\ zk_create_lock_res1_es(p, val)
        \/ what = "children" /\ zk_get_children_lock_res1(p, val)
        \/ what = "deleted" /\ zk_delete_lock_res1_children(p)
        \/ what = "existed" /\ Ignored
        \/ what = "event" /\ zk_watcher_disconnect(p, val)
  /\ UNCHANGED <<session, next, owner, watches, stuck>>

-----------------------------------------------------------------------------
(* The ZooKeeper service *)

\* The session is connected, as a rule after main() has sent its create.
Connect(p) ==
  /\ session[p] = "connecting"
  /\ \/ main[p] = "loop" /\ UNCHANGED stuck
     \/ "slow_main" \in Faults /\ main[p] = "create" /\ stuck' = stuck \cup {p}
  /\ session' = Set(session, p, "connected")
  /\ queue' = Set(queue, p, Append(queue[p], <<"event", None>>))
  /\ UNCHANGED <<main, reqs, seq_me, watch, quit, next, owner, watches, said>>

Answer(p, what, val) == [queue EXCEPT ![p] = Append(@, <<what, val>>)]

\* Executes the next request of p.  Deleting a node tells who watches it.
Execute(p) ==
  /\ session[p] = "connected" /\ reqs[p] # <<>>
  /\ reqs' = Set(reqs, p, Tail(reqs[p]))
  /\ LET op == Head(reqs[p])[1]
         n == Head(reqs[p])[2]
     IN \/ /\ op = "create"
           /\ owner' = owner \cup {<<next, p>>} /\ next' = next + 1
           /\ queue' = Answer(p, "created", next)
           /\ UNCHANGED <<watches, said, stuck>>
        \/ /\ op = "children"
           /\ queue' = Answer(p, "children", Nodes)
           /\ UNCHANGED <<owner, next, watches, said, stuck>>
        \/ /\ op = "exists"
           /\ queue' = Answer(p, "existed", n)
           /\ IF n \in Nodes
              THEN watches' = watches \cup {<<p, n>>} /\ UNCHANGED stuck
              ELSE stuck' = stuck \cup {p} /\ UNCHANGED watches
           /\ UNCHANGED <<owner, next, said>>
        \/ /\ op = "delete"
           /\ owner' = {o \in owner : o[1] # n}
           /\ queue' = [r \in Processes |->
                          IF r = p THEN Append(Told({n})[r], <<"deleted", n>>)
                          ELSE Told({n})[r]]
           /\ watches' = {v \in watches : v[2] # n}
           /\ said' = said \ {p}
           /\ UNCHANGED <<next, stuck>>
  /\ UNCHANGED <<main, session, seq_me, watch, quit>>

\* A create, a list or a watch fails: its callback does nothing.  That of a
\* delete does not look at the result.
Refuse(p) ==
  /\ "call" \in Faults
  /\ session[p] = "connected" /\ reqs[p] # <<>>
  /\ reqs' = Set(reqs, p, Tail(reqs[p]))
  /\ IF Head(reqs[p])[1] = "delete"
     THEN queue' = Answer(p, "deleted", None) /\ UNCHANGED stuck
     ELSE stuck' = stuck \cup {p} /\ UNCHANGED queue
  /\ UNCHANGED <<main, session, seq_me, watch, quit, next, owner, watches, said>>

Crash(p) ==
  /\ "crash" \in Faults /\ main[p] \notin {"closed", "dead"}
  /\ main' = Set(main, p, "dead")
  /\ UNCHANGED <<session, reqs, queue, seq_me, watch, quit, next, owner, watches, said, stuck>>

\* The service notices that a process is gone.
Expire(p) ==
  /\ main[p] = "dead" /\ session[p] \in {"connecting", "connected"}
  /\ CloseSession(p)
  /\ UNCHANGED <<main, seq_me, watch, quit, next, stuck>>

Process(p) == zookeeper_init(p) \/ zoo_acreate(p) \/ zookeeper_close(p)
Service(p) == Connect(p) \/ Execute(p) \/ Expire(p)

Next ==
  \E p \in Processes : Process(p) \/ Callback(p) \/ Service(p) \/ Refuse(p) \/ Crash(p)
Spec == Init /\ [][Next]_vars

-----------------------------------------------------------------------------
(* Properties *)

Mine(p) == {o[1] : o \in {x \in owner : x[2] = p}}

\* A process deletes no node but its own.  This is not so of the processes in
\* `stuck`: one whose create failed, or whose session was connected before it
\* sent its create, still has number 0 when it looks at the list.
DeletesOnlyItsOwn ==
  \A p \in Processes \ stuck : \A i \in DOMAIN reqs[p] :
    reqs[p][i][1] = "delete" => \A o \in owner : o[1] = reqs[p][i][2] => o[2] = p

Served(p) == main[p] \in {"closed", "dead"} \/ stuck # {}

\* What the comment in zk_get_children_lock_res1 says of a process that takes
\* the lock: its own node is the smallest.
AcquirerIsSmallest ==
  \A p \in said : \E n \in Mine(p) : \A k \in Nodes : n <= k
=============================================================================
