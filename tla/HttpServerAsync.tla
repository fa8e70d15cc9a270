--------------------------- MODULE HttpServerAsync ---------------------------
(***************************************************************************)
(* examples/boost/http_server_async.cpp: a listener and one session per    *)
(* connection, each a chain of callbacks on a strand of its own, run by    *)
(* eight threads.  A callback is one step; callbacks of different          *)
(* connections interleave.                                                 *)
(*                                                                         *)
(* The three http_server_awaitable*.cc have the same chain written as      *)
(* coroutines; the constants say where they differ.                        *)
(***************************************************************************)
EXTENDS HttpNetwork

CONSTANTS
  Handler,      \* what handle_request does: "files", "dummy", "not_found"
  CatchesEof,   \* the end of the stream leads to a shutdown
  Strands       \* a timer and a completion of one connection exclude each other

VARIABLES
  accepting,    \* an accept operation is under way
  shut,         \* connections shut down by the server
  timer         \* "off", "armed": the expiry of the stream

serverVars == <<accepting, shut, timer>>
vars == <<conn, sent, answered, eof, op, done, socket, taken, response, faulted, failures,
          accepting, shut, timer>>

\* listener: a failed open, bind or listen leaves an acceptor whose accept fails.
ServerInit ==
  /\ Init
  /\ accepting = TRUE
  /\ shut = {}
  /\ timer = [c \in Clients |-> "off"]

\* The status of the response; its body depends on the request.
handle_request(r) ==
  [kind |-> r.kind, keep |-> r.keep,
   status |-> CASE Handler = "dummy" -> 200
                [] Handler = "not_found" -> 404
                [] r.kind \in {"bad_method", "bad_target"} -> 400
                [] r.kind = "unreadable" -> 500
                [] OTHER -> 200]

-----------------------------------------------------------------------------
\* Fault: the next accept is not started.
on_accept_once(c) ==
  /\ accepting /\ conn[c] = "backlog"
  /\ conn' = [conn EXCEPT ![c] = "session"]
  /\ op' = [op EXCEPT ![c] = "run"]
  /\ accepting' = FALSE
  /\ UNCHANGED <<sent, answered, eof, done, socket, taken, response, faulted, failures, shut, timer>>

\* The session is created and dispatched, and the next accept started.
on_accept(c) ==
  /\ accepting /\ conn[c] = "backlog"
  /\ conn' = [conn EXCEPT ![c] = "session"]
  /\ op' = [op EXCEPT ![c] = "run"]
  /\ UNCHANGED <<sent, answered, eof, done, socket, taken, response, faulted, failures,
                 accepting, shut, timer>>

\* "To avoid infinite loop": after an error no connection is accepted any more.
on_accept_error ==
  /\ accepting /\ failures < MaxFailures
  /\ failures' = failures + 1
  /\ accepting' = FALSE
  /\ UNCHANGED <<conn, sent, answered, eof, op, done, socket, taken, response, faulted, shut, timer>>

\* Fault: no timeout is set.
do_read_patient(c) ==
  /\ op' = [op EXCEPT ![c] = "read"] /\ done' = [done EXCEPT ![c] = "none"]
  /\ UNCHANGED <<conn, socket, response, shut, timer>>

\* The timeout is set and a read started.
do_read(c) ==
  /\ op' = [op EXCEPT ![c] = "read"] /\ done' = [done EXCEPT ![c] = "none"]
  /\ timer' = [timer EXCEPT ![c] = "armed"]
  /\ UNCHANGED <<conn, socket, response, shut>>

\* The last reference to the session is gone: its destructor closes the socket.
Destroy(c) ==
  /\ conn' = [conn EXCEPT ![c] = "gone"]
  /\ op' = [op EXCEPT ![c] = "none"] /\ done' = [done EXCEPT ![c] = "none"]
  /\ socket' = [socket EXCEPT ![c] = "closed"]
  /\ timer' = [timer EXCEPT ![c] = "off"]
  /\ response' = [response EXCEPT ![c] = NoResponse]

do_close(c) == Destroy(c) /\ shut' = shut \cup {c}

run(c) ==
  /\ op[c] = "run" /\ do_read(c)
  /\ UNCHANGED <<sent, answered, eof, taken, faulted, failures, accepting>>

\* Fault: a connection to be closed is shut down before its response is written.
on_read_closes(c) ==
  /\ op[c] = "read" /\ done[c] # "none"
  /\ IF done[c] = "ok" /\ sent[c][taken[c] + 1].keep
     THEN /\ response' = [response EXCEPT ![c] = handle_request(sent[c][taken[c] + 1])]
          /\ op' = [op EXCEPT ![c] = "write"] /\ done' = [done EXCEPT ![c] = "none"]
          /\ UNCHANGED <<conn, socket, shut, timer>>
     ELSE do_close(c)
  /\ taken' = [taken EXCEPT ![c] = @ + IF done[c] = "ok" THEN 1 ELSE 0]
  /\ UNCHANGED <<sent, answered, eof, faulted, failures, accepting>>

\* on_read and send_response.
on_read(c) ==
  /\ op[c] = "read"
  /\ \/ /\ done[c] = "eof"
        /\ IF CatchesEof THEN do_close(c) ELSE Destroy(c) /\ UNCHANGED shut
        /\ UNCHANGED taken
     \/ /\ done[c] = "error"
        /\ Destroy(c) /\ UNCHANGED <<shut, taken>>
     \/ /\ done[c] = "ok"
        /\ taken' = [taken EXCEPT ![c] = @ + 1]
        /\ response' = [response EXCEPT ![c] = handle_request(sent[c][taken[c] + 1])]
        /\ op' = [op EXCEPT ![c] = "write"] /\ done' = [done EXCEPT ![c] = "none"]
        /\ UNCHANGED <<conn, socket, shut, timer>>
  /\ UNCHANGED <<sent, answered, eof, faulted, failures, accepting>>

\* Fault: "Connection: close" is not looked at.
on_write_keeps(c) ==
  /\ op[c] = "write" /\ done[c] # "none"
  /\ IF done[c] = "error" THEN Destroy(c) /\ UNCHANGED shut ELSE do_read(c)
  /\ UNCHANGED <<sent, answered, eof, taken, faulted, failures, accepting>>

on_write(c) ==
  /\ op[c] = "write"
  /\ \/ done[c] = "error" /\ Destroy(c) /\ UNCHANGED shut
     \/ done[c] = "ok" /\ ~response[c].keep /\ do_close(c)
     \/ done[c] = "ok" /\ response[c].keep /\ do_read(c)
  /\ UNCHANGED <<sent, answered, eof, taken, faulted, failures, accepting>>

\* The timer of the stream: the socket is closed, which aborts the operation.  The
\* timeout runs on from the read into the write.  Without a strand it may also run
\* while the completion is being posted on another thread.
Expires(c) ==
  /\ timer[c] = "armed" /\ socket[c] = "open"
  /\ op[c] \in {"read", "write"}
  /\ done[c] = "none" \/ ~Strands
  /\ socket' = [socket EXCEPT ![c] = "closed"]
  /\ faulted' = faulted \cup {c}
  /\ UNCHANGED <<conn, sent, answered, eof, op, done, taken, response, failures,
                 accepting, shut, timer>>

Handlers(c) == run(c) \/ on_read(c) \/ on_write(c)

Next ==
  \/ Network /\ UNCHANGED serverVars
  \/ on_accept_error
  \/ \E c \in Clients : on_accept(c) \/ Handlers(c) \/ Expires(c)

Spec == ServerInit /\ [][Next]_vars
=============================================================================
