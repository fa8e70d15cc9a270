---------------------------- MODULE HttpContract ----------------------------
(***************************************************************************)
(* What the HTTP servers under examples/boost promise a client: it is      *)
(* accepted at most once, its requests are answered one by one in the      *)
(* order it sent them, each by the response to that request, and nothing   *)
(* is answered after a response that closes the connection.  A connection  *)
(* may end at any time: clients, networks and timers end it.               *)
(***************************************************************************)
EXTENDS Integers, Sequences

CONSTANTS
  Clients,
  Requests,  \* records with kind, keep: whether the client asks for keep-alive
  Statuses   \* of responses

VARIABLES
  conn,      \* "idle", "backlog", "session", "gone"
  sent,      \* requests each client sent
  answered   \* responses that reached it

vars == <<conn, sent, answered>>

Init ==
  /\ conn = [c \in Clients |-> "idle"]
  /\ sent = [c \in Clients |-> <<>>]
  /\ answered = [c \in Clients |-> <<>>]

Moves(c, from, to) ==
  /\ conn[c] = from
  /\ conn' = [conn EXCEPT ![c] = to]
  /\ UNCHANGED <<sent, answered>>

Sends(c) ==
  /\ \E r \in Requests : sent' = [sent EXCEPT ![c] = Append(@, r)]
  /\ UNCHANGED <<conn, answered>>

\* The response to the next request, if no response closed the connection.
Answers(c) ==
  LET n == Len(answered[c]) IN
  /\ conn[c] = "session" /\ n < Len(sent[c])
  /\ \A i \in 1..n : answered[c][i].keep
  /\ \E s \in Statuses, k \in BOOLEAN :
       /\ k => sent[c][n + 1].keep
       /\ answered' = [answered EXCEPT ![c] =
                         Append(@, [kind |-> sent[c][n + 1].kind, status |-> s, keep |-> k])]
  /\ UNCHANGED <<conn, sent>>

Next ==
  \E c \in Clients :
    \/ Moves(c, "idle", "backlog") \/ Moves(c, "backlog", "session") \/ Moves(c, "session", "gone")
    \/ Sends(c) \/ Answers(c)

Spec == Init /\ [][Next]_vars
=============================================================================
