----------------------------- MODULE HttpNetwork -----------------------------
(***************************************************************************)
(* External: the clients of the HTTP servers, TCP, and what Boost.Asio     *)
(* does with one asynchronous operation of a connection.  An operation     *)
(* completes when it can, fails, or is aborted when its socket is closed;  *)
(* its handler is then posted (done) and runs later, on some thread.       *)
(***************************************************************************)
EXTENDS Integers, Sequences

CONSTANTS
  Clients,
  Requests,     \* what each client may send
  MaxRequests,  \* bound on the requests of each client
  MaxFailures   \* bound on failures of the network

VARIABLES
  conn, sent, answered,  \* as in HttpContract
  eof,       \* clients that closed their side
  op,        \* operation under way: "none", "run", "read", "write"
  done,      \* how it completed: "none", "ok", "eof", "error"
  socket,    \* "open", "closed"
  taken,     \* requests read from the connection
  response,  \* response being written
  faulted,   \* history: connections an error or a timer ended
  failures   \* failures so far

NoResponse == [kind |-> "none", keep |-> FALSE, status |-> 0]

Init ==
  /\ conn = [c \in Clients |-> "idle"]
  /\ sent = [c \in Clients |-> <<>>]
  /\ answered = [c \in Clients |-> <<>>]
  /\ eof = {}
  /\ op = [c \in Clients |-> "none"]
  /\ done = [c \in Clients |-> "none"]
  /\ socket = [c \in Clients |-> "open"]
  /\ taken = [c \in Clients |-> 0]
  /\ response = [c \in Clients |-> NoResponse]
  /\ faulted = {} /\ failures = 0

Connect(c) ==
  /\ conn[c] = "idle"
  /\ conn' = [conn EXCEPT ![c] = "backlog"]
  /\ UNCHANGED <<sent, answered, eof, op, done, socket, taken, response, faulted, failures>>

Send(c, r) ==
  /\ conn[c] \in {"backlog", "session"} /\ c \notin eof
  /\ Len(sent[c]) < MaxRequests[c]
  /\ sent' = [sent EXCEPT ![c] = Append(@, r)]
  /\ UNCHANGED <<conn, answered, eof, op, done, socket, taken, response, faulted, failures>>

HangUp(c) ==
  /\ conn[c] \in {"backlog", "session"} /\ c \notin eof
  /\ eof' = eof \cup {c}
  /\ UNCHANGED <<conn, sent, answered, op, done, socket, taken, response, faulted, failures>>

Pending(c, o) == op[c] = o /\ done[c] = "none"
Completes(c, how) == done' = [done EXCEPT ![c] = how]

ReadCompletes(c) ==
  /\ Pending(c, "read") /\ socket[c] = "open"
  /\ \/ taken[c] < Len(sent[c]) /\ Completes(c, "ok")
     \/ taken[c] = Len(sent[c]) /\ c \in eof /\ Completes(c, "eof")
  /\ UNCHANGED <<conn, sent, answered, eof, op, socket, taken, response, faulted, failures>>

WriteCompletes(c) ==
  /\ Pending(c, "write") /\ socket[c] = "open"
  /\ Completes(c, "ok")
  /\ answered' = [answered EXCEPT ![c] = Append(@, response[c])]
  /\ UNCHANGED <<conn, sent, eof, op, socket, taken, response, faulted, failures>>

\* A connection reset, or a request that does not parse.
OperationFails(c) ==
  /\ Pending(c, "read") \/ Pending(c, "write")
  /\ \/ socket[c] = "closed" /\ UNCHANGED failures
     \/ socket[c] = "open" /\ failures < MaxFailures /\ failures' = failures + 1
  /\ Completes(c, "error")
  /\ faulted' = faulted \cup {c}
  /\ UNCHANGED <<conn, sent, answered, eof, op, socket, taken, response>>

Network ==
  \E c \in Clients :
    \/ Connect(c) \/ HangUp(c) \/ ReadCompletes(c) \/ WriteCompletes(c) \/ OperationFails(c)
    \/ \E r \in Requests[c] : Send(c, r)

\* Nothing is cut short: of a connection that no error and no timer ended, every
\* request that was read is answered.
NothingCutShort ==
  \A c \in Clients : conn[c] = "gone" /\ c \notin faulted => Len(answered[c]) = taken[c]
=============================================================================
