----------------------------- MODULE RdmaSession -----------------------------
(***************************************************************************)
(* examples/rdma/rdma_server.cc and rdma_client.cc.  The server serves one *)
(* client and ends: it takes one connect request, accepts it, waits for    *)
(* the client's metadata, allocates a buffer, sends its own metadata and   *)
(* waits for the disconnect.  A client writes its data to the buffer,      *)
(* reads it back, compares and disconnects.  All connection events of the  *)
(* server arrive on one channel, in order, those of other clients too.     *)
(*                                                                         *)
(* A function whose calls only fail or succeed is one step; a function is  *)
(* cut where it blocks.  External (librdmacm, verbs and the helpers of     *)
(* rdma_common, which is not part of the repository): process_rdma_cm_event*)
(* takes the next event and fails unless it is the expected one;           *)
(* process_work_completion_events waits for the given number of            *)
(* completions and fails if one of them is an error; a process that ends   *)
(* is disconnected and its memory is no longer accessible.                 *)
(***************************************************************************)
EXTENDS Integers, Sequences, FiniteSets

CONSTANTS
  Clients,  \* client processes
  Faults    \* what may fail

FaultKinds == {"server_call", "client_call", "errno_zero"}
Nobody == "nobody"

ASSUME RdmaAssumption ==
  IsFiniteSet(Clients) /\ Clients # {} /\ Nobody \notin Clients /\ Faults \subseteq FaultKinds

VARIABLES
  server,        \* where the server is
  cm_client_id,  \* the client of the connect request it took
  cm_events,     \* its event channel: <<event, client>>
  buffer,        \* server_buffer_mr: "none", "registered", "freed"
  memory,        \* what the buffer holds: the client whose data it is
  server_wc,     \* its completion queue
  client,        \* where each client is
  events,        \* event channel of each client
  wc,            \* completion queue of each client
  dst            \* what each client read

serverVars == <<server, cm_client_id, buffer, memory>>
clientVars == <<client, dst>>
vars == <<serverVars, cm_events, server_wc, clientVars, events, wc>>

Over == {"end", "failed"}
\* A client that has disconnected.
Left == Over \cup {"wait_disconnected"}
Listening == server \notin {"start"} \cup Over

Init ==
  /\ server = "start"
  /\ cm_client_id = Nobody
  /\ cm_events = <<>>
  /\ buffer = "none"
  /\ memory = Nobody
  /\ server_wc = <<>>
  /\ client = [c \in Clients |-> "prepare"]
  /\ events = [c \in Clients |-> <<>>]
  /\ wc = [c \in Clients |-> <<>>]
  /\ dst = [c \in Clients |-> Nobody]

Told(c, e) == [events EXCEPT ![c] = Append(@, e)]
Done(c, k) == [wc EXCEPT ![c] = Append(@, k)]

-----------------------------------------------------------------------------
(* Server *)

\* main() returns: the process ends and its buffer is gone.
ServerEnds(how) ==
  /\ server' = how
  /\ buffer' = IF buffer = "registered" THEN "freed" ELSE buffer
  /\ UNCHANGED <<cm_client_id, memory, server_wc, events, wc>>

ServerCallFails(at) ==
  /\ "server_call" \in Faults
  /\ server = at
  /\ ServerEnds("failed")
  /\ UNCHANGED <<cm_events, clientVars>>

\* start_rdma_server up to the listen.
start_rdma_server ==
  \/ /\ server = "start"
     /\ server' = "wait_request"
     /\ UNCHANGED <<cm_client_id, buffer, memory, cm_events,
                    server_wc, clientVars, events, wc>>
  \/ ServerCallFails("start")

\* The next event is e (or is not), and it is consumed.
Event(e) == cm_events # <<>> /\ Head(cm_events)[1] = e /\ cm_events' = Tail(cm_events)
OtherEvent(e) == cm_events # <<>> /\ Head(cm_events)[1] # e /\ cm_events' = Tail(cm_events)

\* The rest of start_rdma_server.
TakeRequest ==
  /\ server = "wait_request"
  /\ \/ /\ Event("CONNECT_REQUEST")
        /\ cm_client_id' = Head(cm_events)[2]
        /\ server' = "setup"
        /\ UNCHANGED <<buffer, memory, server_wc, events, wc>>
     \/ OtherEvent("CONNECT_REQUEST") /\ ServerEnds("failed")
  /\ UNCHANGED clientVars

\* setup_client_resources: pd, completion channel, cq, qp.
setup_client_resources ==
  \/ /\ server = "setup"
     /\ server' = "accept"
     /\ UNCHANGED <<cm_client_id, buffer, memory, cm_events,
                    server_wc, clientVars, events, wc>>
  \/ ServerCallFails("setup")

\* accept_client_connection up to rdma_accept: the receive buffer is posted
\* before the client is told.  A client that gave up does not hear of it.
accept_client_connection ==
  \/ /\ server = "accept"
     /\ server' = "wait_established"
     /\ events' = IF events[cm_client_id] = <<>> /\ client[cm_client_id] \notin Left
                  THEN Told(cm_client_id, "CONNECT_RESPONSE")
                  ELSE events
     /\ UNCHANGED <<cm_client_id, buffer, memory, cm_events,
                    server_wc, clientVars, wc>>
  \/ ServerCallFails("accept")

\* The rest of accept_client_connection.  After an unexpected event it returns
\* -errno, and nothing has set errno: a zero is taken for success.
Established ==
  /\ server = "wait_established"
  /\ \/ /\ Event("ESTABLISHED")
        /\ server' = "wait_metadata"
        /\ UNCHANGED <<cm_client_id, buffer, memory, server_wc, events, wc>>
     \/ OtherEvent("ESTABLISHED") /\ ServerEnds("failed")
     \/ /\ "errno_zero" \in Faults
        /\ OtherEvent("ESTABLISHED")
        /\ server' = "wait_metadata"
        /\ UNCHANGED <<cm_client_id, buffer, memory, server_wc, events, wc>>
  /\ UNCHANGED clientVars

\* send_server_metadata_to_client up to the send: wait for the client's
\* metadata, allocate the buffer, post the send.  It completes when it reached
\* a connected client, otherwise with an error.
send_server_metadata_to_client ==
  /\ server = "wait_metadata"
  /\ server_wc # <<>>
  /\ \/ /\ server' = "wait_sent"
        /\ buffer' = "registered"
        /\ IF client[cm_client_id] \in Left
           THEN server_wc' = Append(Tail(server_wc), "error") /\ UNCHANGED wc
           ELSE /\ server_wc' = Append(Tail(server_wc), "send")
                /\ wc' = Done(cm_client_id, "recv")
        /\ UNCHANGED <<cm_client_id, memory, cm_events, clientVars, events>>
     \/ ServerCallFails("wait_metadata")

\* The rest of send_server_metadata_to_client.
MetadataSent ==
  /\ server = "wait_sent"
  /\ server_wc # <<>>
  /\ IF Head(server_wc) = "error"
     THEN ServerEnds("failed")
     ELSE /\ server' = "wait_disconnect"
          /\ server_wc' = Tail(server_wc)
          /\ UNCHANGED <<cm_client_id, buffer, memory, events, wc>>
  /\ UNCHANGED <<cm_events, clientVars>>

\* Fault: the server does not wait for the client to disconnect.
disconnect_and_cleanup_at_once ==
  /\ server = "wait_disconnect"
  /\ ServerEnds("end")
  /\ UNCHANGED <<cm_events, clientVars>>

\* Fault: the disconnect event is taken and waited for once more.
disconnect_and_cleanup_again ==
  /\ server = "wait_disconnect"
  /\ OtherEvent("DISCONNECTED") /\ ServerEnds("failed")
  /\ UNCHANGED clientVars

\* disconnect_and_cleanup.
disconnect_and_cleanup ==
  /\ server = "wait_disconnect"
  /\ \/ Event("DISCONNECTED") /\ ServerEnds("end")
     \/ OtherEvent("DISCONNECTED") /\ ServerEnds("failed")
  /\ UNCHANGED clientVars

ServerStep ==
  \/ start_rdma_server \/ TakeRequest \/ setup_client_resources
  \/ accept_client_connection \/ Established \/ send_server_metadata_to_client
  \/ MetadataSent \/ disconnect_and_cleanup

-----------------------------------------------------------------------------
(* Client c *)

Goto(c, from, to) ==
  /\ client[c] = from
  /\ client' = [client EXCEPT ![c] = to]

\* Whether c has the established connection of a server that still runs.
Connected(c) ==
  /\ cm_client_id = c
  /\ server \notin Over
  /\ client[c] \notin Left \cup {"prepare", "connect", "wait_established"}

\* The process ends; the server is told if there was a connection.
ClientFails(c, from) ==
  /\ Goto(c, from, "failed")
  /\ cm_events' = IF Connected(c) THEN Append(cm_events, <<"DISCONNECTED", c>>)
                  ELSE cm_events
  /\ UNCHANGED <<serverVars, server_wc, events, wc, dst>>

ClientCallFails(c, from) == "client_call" \in Faults /\ ClientFails(c, from)

\* client_prepare_connection and client_pre_post_recv_buffer.
client_prepare_connection(c) ==
  \/ /\ Goto(c, "prepare", "connect")
     /\ UNCHANGED <<serverVars, cm_events, server_wc, events, wc, dst>>
  \/ ClientCallFails(c, "prepare")

\* client_connect_to_server up to rdma_connect.
client_connect_to_server(c) ==
  \/ /\ Goto(c, "connect", "wait_established")
     /\ IF Listening
        THEN cm_events' = Append(cm_events, <<"CONNECT_REQUEST", c>>) /\ UNCHANGED events
        ELSE events' = Told(c, "REJECTED") /\ UNCHANGED cm_events
     /\ UNCHANGED <<serverVars, server_wc, wc, dst>>
  \/ ClientCallFails(c, "connect")

\* The rest of it: the response establishes the connection on both sides.
Connect(c) ==
  /\ events[c] # <<>>
  /\ IF Head(events[c]) = "CONNECT_RESPONSE"
     THEN /\ Goto(c, "wait_established", "exchange")
          /\ events' = [events EXCEPT ![c] = Tail(@)]
          /\ cm_events' = Append(cm_events, <<"ESTABLISHED", c>>)
          /\ UNCHANGED <<serverVars, server_wc, wc, dst>>
     ELSE ClientFails(c, "wait_established")

\* A command completes, with an error when the connection is gone.
Complete(c, ok, k) == wc' = Done(c, IF ok THEN k ELSE "error")

\* client_xchange_metadata_with_server up to the send.
client_xchange_metadata_with_server(c) ==
  \/ /\ Goto(c, "exchange", "wait_metadata")
     /\ Complete(c, Connected(c), "send")
     /\ server_wc' = IF Connected(c) THEN Append(server_wc, "recv") ELSE server_wc
     /\ UNCHANGED <<serverVars, cm_events, events, dst>>
  \/ ClientCallFails(c, "exchange")

Has(c, k) == \E i \in DOMAIN wc[c] : wc[c][i] = k

\* The rest of it: both completions, that of the send and that of the receive.
Exchanged(c) ==
  \/ /\ Len(wc[c]) = 2 /\ ~Has(c, "error")
     /\ Goto(c, "wait_metadata", "write")
     /\ wc' = [wc EXCEPT ![c] = <<>>]
     /\ UNCHANGED <<serverVars, cm_events, server_wc, events, dst>>
  \/ Has(c, "error") /\ ClientFails(c, "wait_metadata")

\* Fault: the read is posted before the write.
client_remote_memory_ops_swapped(c) ==
  \/ /\ Goto(c, "read", "wait_read")
     /\ Complete(c, Connected(c) /\ buffer = "registered", "write")
     /\ memory' = IF Connected(c) /\ buffer = "registered" THEN c ELSE memory
     /\ UNCHANGED <<server, cm_client_id, buffer, cm_events,
                    server_wc, events, dst>>
  \/ /\ Goto(c, "write", "wait_write")
     /\ Complete(c, Connected(c) /\ buffer = "registered", "read")
     /\ dst' = [dst EXCEPT ![c] = IF Connected(c) /\ buffer = "registered" THEN memory ELSE @]
     /\ UNCHANGED <<serverVars, cm_events, server_wc, events>>

\* client_remote_memory_ops: the write, then the read, each awaited.
client_remote_memory_ops(c) ==
  \/ /\ Goto(c, "write", "wait_write")
     /\ Complete(c, Connected(c) /\ buffer = "registered", "write")
     /\ memory' = IF Connected(c) /\ buffer = "registered" THEN c ELSE memory
     /\ UNCHANGED <<server, cm_client_id, buffer, cm_events,
                    server_wc, events, dst>>
  \/ /\ Goto(c, "read", "wait_read")
     /\ Complete(c, Connected(c) /\ buffer = "registered", "read")
     /\ dst' = [dst EXCEPT ![c] = IF Connected(c) /\ buffer = "registered" THEN memory ELSE @]
     /\ UNCHANGED <<serverVars, cm_events, server_wc, events>>
  \/ ClientCallFails(c, "write") \/ ClientCallFails(c, "read")

RemoteOpDone(c, from, to) ==
  /\ wc[c] # <<>>
  /\ IF Has(c, "error")
     THEN ClientFails(c, from)
     ELSE /\ Goto(c, from, to)
          /\ wc' = [wc EXCEPT ![c] = <<>>]
          /\ UNCHANGED <<serverVars, cm_events, server_wc, events, dst>>

\* check_src_dst, then client_disconnect_and_clean up to rdma_disconnect, whose
\* failure is ignored.
client_disconnect_and_clean(c) ==
  /\ Goto(c, "check", "wait_disconnected")
  /\ cm_events' = IF Connected(c) THEN Append(cm_events, <<"DISCONNECTED", c>>)
                  ELSE cm_events
  /\ UNCHANGED <<serverVars, server_wc, events, wc, dst>>

\* The rest of it: whatever event comes is taken, and everything is released.
Disconnected(c) ==
  /\ events[c] # <<>>
  /\ Goto(c, "wait_disconnected", "end")
  /\ events' = [events EXCEPT ![c] = Tail(@)]
  /\ UNCHANGED <<serverVars, cm_events, server_wc, wc, dst>>

ClientStep(c) ==
  \/ client_prepare_connection(c) \/ client_connect_to_server(c) \/ Connect(c)
  \/ client_xchange_metadata_with_server(c) \/ Exchanged(c)
  \/ client_remote_memory_ops(c)
  \/ RemoteOpDone(c, "wait_write", "read") \/ RemoteOpDone(c, "wait_read", "check")
  \/ client_disconnect_and_clean(c) \/ Disconnected(c)

-----------------------------------------------------------------------------
(* The connection manager: requests that nobody answers time out, and so    *)
(* does an accepted connection whose client has ended.  A client that waits *)
(* for metadata of a server that ended gets an error completion.  A client  *)
(* that disconnects is told so itself, whether or not the server answers.   *)

Timeout(c) ==
  \/ /\ client[c] = "wait_established"
     /\ events[c] = <<>>
     /\ cm_client_id # c
     /\ events' = Told(c, "UNREACHABLE")
     /\ UNCHANGED <<serverVars, cm_events, server_wc, clientVars, wc>>
  \/ /\ server = "wait_established" /\ cm_client_id = c
     /\ client[c] = "failed" /\ cm_events = <<>>
     /\ cm_events' = Append(cm_events, <<"UNREACHABLE", c>>)
     /\ UNCHANGED <<serverVars, server_wc, clientVars, events, wc>>
  \/ /\ client[c] = "wait_metadata" /\ server \in Over /\ Len(wc[c]) < 2
     /\ wc' = Done(c, "error")
     /\ UNCHANGED <<serverVars, cm_events, server_wc, clientVars, events>>
  \/ /\ client[c] = "wait_established" /\ server \in Over
     /\ events[c] = <<>>
     /\ events' = Told(c, "REJECTED")
     /\ UNCHANGED <<serverVars, cm_events, server_wc, clientVars, wc>>
  \/ /\ client[c] = "wait_disconnected"
     /\ events[c] = <<>>
     /\ events' = Told(c, "DISCONNECTED")
     /\ UNCHANGED <<serverVars, cm_events, server_wc, clientVars, wc>>

Next == ServerStep \/ \E c \in Clients : ClientStep(c) \/ Timeout(c)
Spec == Init /\ [][Next]_vars

\* Both processes run and the connection manager's timers fire.
FairSpec ==
  /\ Spec
  /\ WF_vars(ServerStep)
  /\ \A c \in Clients : WF_vars(ClientStep(c)) /\ WF_vars(Timeout(c))

-----------------------------------------------------------------------------
(* Properties *)

\* A client that gets as far as check_src_dst finds its own data, whatever other
\* clients do: "SUCCESS, source and destination buffers match".
ReadsItsOwnData ==
  \A c \in Clients : client[c] \in {"check", "wait_disconnected", "end"} => dst[c] = c

\* While the server runs its buffer is there for every remote access of the
\* client it serves: it is registered before the client learns of it and freed
\* only after that client has disconnected.
BufferOutlivesAccess ==
  \A c \in Clients :
    /\ client[c] \in {"write", "wait_write", "read", "wait_read"}
    /\ server # "failed"
    => buffer = "registered" /\ cm_client_id = c

\* When the served client has disconnected or ended, orderly or not, the server ends too, unless
\* the client ended before its metadata arrived: the server then waits at the
\* completion queue, where the disconnect is not seen.
ServerFollowsClient ==
  \A c \in Clients :
    (cm_client_id = c /\ client[c] \in Left) ~>
      (server \in Over \/ (server = "wait_metadata" /\ server_wc = <<>>))
=============================================================================
