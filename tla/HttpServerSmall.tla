--------------------------- MODULE HttpServerSmall ---------------------------
(***************************************************************************)
(* examples/boost/http_server_small.cpp: one thread, one request per       *)
(* connection, and a deadline of 60 seconds for the whole of it.  The      *)
(* connection lives as long as a handler of its operation or of its timer  *)
(* is pending.                                                             *)
(***************************************************************************)
EXTENDS HttpNetwork

VARIABLES
  shut,      \* connections shut down by the server
  timer,     \* deadline_: "off", "armed", "expired" or "cancelled" (handler posted)
  count      \* request_count()

serverVars == <<shut, timer, count>>
vars == <<conn, sent, answered, eof, op, done, socket, taken, response, faulted, failures,
          shut, timer, count>>

ServerInit == Init /\ shut = {} /\ timer = [c \in Clients |-> "off"] /\ count = 0

\* create_response: the status is 200 for a GET; only /count counts.
process_request(r, n) ==
  [kind |-> r.kind, keep |-> FALSE,
   status |-> CASE r.kind \in {"bad_method", "head"} -> 400
                [] r.kind = "count" -> n
                [] OTHER -> 200]

\* The handler of the operation is the last one that holds the connection, or not.
LetGo(c, other) ==
  IF other = "off"
  THEN /\ conn' = [conn EXCEPT ![c] = "gone"]
       /\ socket' = [socket EXCEPT ![c] = "closed"]
  ELSE UNCHANGED <<conn, socket>>

-----------------------------------------------------------------------------
\* http_server accepts again after an error, too: start() begins the read and the
\* deadline.
http_server(c) ==
  /\ conn[c] = "backlog"
  /\ \/ /\ conn' = [conn EXCEPT ![c] = "session"]
        /\ op' = [op EXCEPT ![c] = "read"]
        /\ timer' = [timer EXCEPT ![c] = "armed"]
        /\ UNCHANGED failures
     \/ /\ failures < MaxFailures /\ failures' = failures + 1
        /\ UNCHANGED <<conn, op, timer>>
  /\ UNCHANGED <<sent, answered, eof, done, socket, taken, response, faulted, shut, count>>

\* The handler of async_read: an error leaves the connection to the deadline.
read_request(c) ==
  /\ op[c] = "read" /\ done[c] # "none"
  /\ done' = [done EXCEPT ![c] = "none"]
  /\ IF done[c] = "ok"
     THEN LET r == sent[c][taken[c] + 1] IN
          /\ taken' = [taken EXCEPT ![c] = @ + 1]
          /\ count' = IF r.kind = "count" THEN count + 1 ELSE count
          /\ response' = [response EXCEPT ![c] = process_request(r, count')]
          /\ op' = [op EXCEPT ![c] = "write"]
          /\ UNCHANGED <<conn, socket>>
     ELSE /\ op' = [op EXCEPT ![c] = "none"]
          /\ LetGo(c, timer[c])
          /\ UNCHANGED <<taken, count, response>>
  /\ UNCHANGED <<sent, answered, eof, faulted, failures, shut, timer>>

\* The handler of async_write shuts down and cancels the deadline, error or not.
write_response(c) ==
  /\ op[c] = "write" /\ done[c] # "none"
  /\ op' = [op EXCEPT ![c] = "none"] /\ done' = [done EXCEPT ![c] = "none"]
  /\ response' = [response EXCEPT ![c] = NoResponse]
  /\ shut' = IF socket[c] = "open" THEN shut \cup {c} ELSE shut
  /\ timer' = [timer EXCEPT ![c] = IF @ = "armed" THEN "cancelled" ELSE @]
  /\ LetGo(c, timer[c])
  /\ UNCHANGED <<sent, answered, eof, taken, faulted, failures, count>>

\* 60 seconds have passed: the handler is posted.
Expires(c) ==
  /\ timer[c] = "armed"
  /\ timer' = [timer EXCEPT ![c] = "expired"]
  /\ UNCHANGED <<conn, sent, answered, eof, op, done, socket, taken, response, faulted, failures,
                 shut, count>>

\* The handler of the deadline closes the socket unless it was cancelled, which
\* aborts the operation under way.
check_deadline(c) ==
  /\ timer[c] \in {"expired", "cancelled"}
  /\ timer' = [timer EXCEPT ![c] = "off"]
  /\ IF op[c] = "none"
     THEN LetGo(c, "off")
     ELSE UNCHANGED conn /\ socket' = [socket EXCEPT ![c] = IF timer[c] = "expired" THEN "closed" ELSE @]
  /\ faulted' = IF timer[c] = "expired" THEN faulted \cup {c} ELSE faulted
  /\ UNCHANGED <<sent, answered, eof, op, done, taken, response, failures, shut, count>>

Handlers(c) == read_request(c) \/ write_response(c) \/ check_deadline(c)

Next ==
  \/ Network /\ UNCHANGED serverVars
  \/ \E c \in Clients : http_server(c) \/ Handlers(c) \/ Expires(c)

Spec == ServerInit /\ [][Next]_vars
=============================================================================
