------------------------------- MODULE MCHttp -------------------------------
(***************************************************************************)
(* The five HTTP servers under examples/boost, with two clients that send  *)
(* requests ahead of the answers, close their side, or do nothing.  A      *)
(* behaviour is one run of one of the servers.                             *)
(***************************************************************************)
EXTENDS HttpServerAwaitable, FiniteSets

CONSTANTS c1, c2

VARIABLES program, count

Small == INSTANCE HttpServerSmall
Async == INSTANCE HttpServerAsync
           WITH Handler <- "files", CatchesEof <- TRUE, Strands <- TRUE

vars == <<conn, sent, answered, eof, op, done, socket, taken, response, faulted, failures,
          program, accepting, shut, timer, count>>

\* One client sends ahead, the other one sends one request at most.
AllRequests == {[kind |-> "count", keep |-> TRUE], [kind |-> "bad_method", keep |-> FALSE]}
MCRequests == [c \in Clients |-> IF c = c1 THEN AllRequests ELSE {r \in AllRequests : r.keep}]
MCMaxRequests == [c \in Clients |-> IF c = c1 THEN 2 ELSE 1]

\* A number shown under /count counts at most every connection.
Contract == INSTANCE HttpContract
              WITH Requests <- AllRequests,
                   Statuses <- {200, 400, 404, 500} \cup (1..Cardinality(Clients))

MCInit ==
  \/ program = "small" /\ Small!ServerInit /\ accepting = TRUE
  \/ /\ program \in {"async", "awaitable", "awaitable2", "awaitable_test"}
     /\ Async!ServerInit /\ count = 0

InSmall == program = "small" /\ UNCHANGED <<program, accepting>>
In(p) == program = p /\ UNCHANGED <<program, count>>

Listens(c) ==
  \/ InSmall /\ Small!http_server(c)
  \/ In("async") /\ Async!on_accept(c)
  \/ In("awaitable") /\ do_listen(c)
  \/ In("awaitable2") /\ do_listen_2(c)
  \/ In("awaitable_test") /\ do_listen_test(c)

Serves(c) ==
  \/ InSmall /\ Small!Handlers(c)
  \/ In("async") /\ Async!Handlers(c)
  \/ In("awaitable") /\ do_session(c)
  \/ In("awaitable2") /\ do_session_2(c)
  \/ In("awaitable_test") /\ do_session_test(c)

\* In the coroutines the timeout is part of do_session.
Elapses(c) ==
  \/ InSmall /\ Small!Expires(c)
  \/ In("async") /\ Async!Expires(c)

Environment ==
  \/ Network /\ UNCHANGED <<program, accepting, shut, timer, count>>
  \/ program \notin {"small"} /\ Async!on_accept_error /\ UNCHANGED <<program, count>>

\* What Asio guarantees: posted handlers run, timers expire, an operation on a closed
\* socket is aborted, a connection is accepted while an accept is under way.
\* Nothing is asked of the clients.
Aborts(c) == socket[c] = "closed" /\ OperationFails(c) /\ UNCHANGED <<program, accepting, shut, timer, count>>

MCNext == Environment \/ \E c \in Clients : Listens(c) \/ Serves(c) \/ Elapses(c)

\* One of them at least, for each connection.
Fairness == \A c \in Clients : WF_vars(Listens(c) \/ Serves(c) \/ Elapses(c) \/ Aborts(c))

FairSpec == MCInit /\ [][MCNext]_vars /\ Fairness

-----------------------------------------------------------------------------
(* Properties *)

\* Every server implements the contract: each client gets the responses to its
\* requests one by one in their order, none after a closing one, whatever the other
\* connections, the timers and the network do.
KeepsContract == Contract!Spec

\* A session ends, even if its client never sends or never reads: the deadline of
\* http_connection or the timeout set by do_read sees to it.
SessionsEnd == \A c \in Clients : conn[c] = "session" ~> conn[c] = "gone"

\* "Loop forever accepting new connections": a client that connected is accepted,
\* unless an error of accept ended the listener of the four larger servers.
EveryoneIsAccepted ==
  \A c \in Clients :
    conn[c] = "backlog" ~>
      conn[c] # "backlog" \/ (program # "small" /\ failures > 0 /\ ~accepting)
=============================================================================
