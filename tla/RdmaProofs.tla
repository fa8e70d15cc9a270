----------------------------- MODULE RdmaProofs -----------------------------
(***************************************************************************)
(* The safety of the RDMA session, for any number of clients and whatever  *)
(* fails.  The argument: the server takes one connect request, so          *)
(* cm_client_id is set once; a client past its connect is the one it names;*)
(* the completions a client has collected tell how far the server is.      *)
(***************************************************************************)
EXTENDS RdmaSession, SequenceTheorems, TLAPS

USE ZenonT(30)

ServerStates ==
  {"start", "wait_request", "setup", "accept", "wait_established", "wait_metadata",
   "wait_sent", "wait_disconnect"} \cup Over
ClientStates ==
  {"prepare", "connect", "wait_established", "exchange", "wait_metadata", "write",
   "wait_write", "read", "wait_read", "check"} \cup Left
Completions == {"send", "recv", "write", "read", "error"}
Answers == {"CONNECT_RESPONSE", "REJECTED", "UNREACHABLE", "DISCONNECTED"}
CmEvents == {"CONNECT_REQUEST", "ESTABLISHED", "DISCONNECTED", "UNREACHABLE"} \X Clients

TypeOK ==
  /\ server \in ServerStates
  /\ cm_client_id \in Clients \cup {Nobody}
  /\ cm_events \in Seq(CmEvents)
  /\ buffer \in {"none", "registered", "freed"}
  /\ memory \in Clients \cup {Nobody}
  /\ server_wc \in Seq(Completions)
  /\ client \in [Clients -> ClientStates]
  /\ events \in [Clients -> Seq(Answers)]
  /\ wc \in [Clients -> Seq(Completions)]
  /\ dst \in [Clients -> Clients \cup {Nobody}]

\* The server has not sent its metadata.
Early == {"start", "wait_request", "setup", "accept", "wait_established", "wait_metadata"}

\* A client that knows the server's buffer.
Remote == {"write", "wait_write", "read", "wait_read", "check", "wait_disconnected", "end"}

\* The request is taken once, and the buffer lives from the send of the metadata
\* to the end.
ServerInv ==
  /\ server \in {"start", "wait_request"} <=> cm_client_id = Nobody /\ server \notin Over
  /\ server \in Early => buffer = "none"
  /\ server \in {"wait_sent", "wait_disconnect"} => buffer = "registered"
  /\ server \in Over => buffer # "registered"
  /\ server = "end" => cm_client_id \in Clients /\ client[cm_client_id] \in Left
  /\ server \in Early /\ server_wc # <<>> =>
       cm_client_id \in Clients /\ client[cm_client_id] \in {"wait_metadata", "failed"}

\* Only a request of the server's own client is answered, and only that one
\* disconnects; a client has left before the event is there.
EventInv ==
  /\ \A c \in Clients : "CONNECT_RESPONSE" \in Range(events[c]) => cm_client_id = c
  /\ \A e \in Range(cm_events) :
       e[1] = "DISCONNECTED" => e[2] = cm_client_id /\ client[cm_client_id] \in Left

\* Where a client is, which completions it has and what it wrote and read.
ClientInv(c) ==
  /\ client[c] \in {"exchange", "wait_metadata"} \cup Remote => cm_client_id = c
  /\ client[c] \in Remote => server \notin Early
  /\ client[c] \notin {"wait_metadata", "wait_write", "wait_read", "failed"} => wc[c] = <<>>
  /\ client[c] = "wait_metadata" =>
       /\ Len(wc[c]) \in 1..2
       /\ wc[c][1] \in {"send", "error"}
       /\ Len(wc[c]) = 2 => wc[c][2] \in {"recv", "error"} /\ server \notin Early
  /\ client[c] = "wait_write" =>
       wc[c] = <<"error">> \/ (wc[c] = <<"write">> /\ memory = c)
  /\ client[c] = "read" => memory = c
  /\ client[c] = "wait_read" =>
       wc[c] = <<"error">> \/ (wc[c] = <<"read">> /\ dst[c] = c)
  /\ client[c] \in {"check", "wait_disconnected", "end"} => dst[c] = c

\* The inductive invariant.
IInv == TypeOK /\ ServerInv /\ EventInv /\ \A c \in Clients : ClientInv(c)

-----------------------------------------------------------------------------
(* Sequences *)

\* What is in a sequence after one element is added or taken.
LEMMA AppendRange ==
  ASSUME NEW S, NEW s \in Seq(S), NEW e \in S
  PROVE  Range(Append(s, e)) = Range(s) \cup {e}
  <1>1. /\ Append(s, e) \in Seq(S) /\ Len(s) \in Nat
        /\ Len(Append(s, e)) = Len(s) + 1
        /\ \A i \in 1..Len(s) : Append(s, e)[i] = s[i]
        /\ Append(s, e)[Len(s) + 1] = e
    BY SMTT(30), AppendProperties, LenProperties
  <1>2. /\ Range(Append(s, e)) = {Append(s, e)[i] : i \in 1..Len(s) + 1}
        /\ Range(s) = {s[i] : i \in 1..Len(s)}
    BY <1>1, RangeEquality
  <1>3. 1..Len(s) + 1 = (1..Len(s)) \cup {Len(s) + 1}
    BY SMTT(30), <1>1
  <1> QED
    BY SMTT(30), <1>1, <1>2, <1>3

\* Taking the head of a channel leaves what was behind it.
LEMMA TailRange ==
  ASSUME NEW S, NEW s \in Seq(S), s # <<>>
  PROVE  Head(s) \in Range(s) /\ Range(Tail(s)) \subseteq Range(s)
  <1>1. /\ Tail(s) \in Seq(S) /\ Len(s) \in Nat \ {0}
        /\ Len(Tail(s)) = Len(s) - 1
        /\ \A i \in 1..Len(Tail(s)) : Tail(s)[i] = s[i + 1]
        /\ Head(s) = s[1]
    BY SMTT(30), HeadTailProperties, LenProperties, EmptySeq
  <1>2. /\ Range(Tail(s)) = {Tail(s)[i] : i \in 1..Len(Tail(s))}
        /\ Range(s) = {s[i] : i \in 1..Len(s)}
    BY <1>1, RangeEquality
  <1>3. \A i \in 1..Len(Tail(s)) : i + 1 \in 1..Len(s)
    BY SMTT(30), <1>1
  <1>4. 1 \in 1..Len(s)
    BY SMTT(30), <1>1
  <1> QED
    BY <1>1, <1>2, <1>3, <1>4

\* What a channel holds after a completion or an event is put behind the others.
LEMMA ToldType ==
  ASSUME TypeOK, NEW c, NEW e \in Answers
  PROVE  Told(c, e) \in [Clients -> Seq(Answers)]
  <1>1. c \in Clients => Append(events[c], e) \in Seq(Answers)
    BY AppendProperties DEF TypeOK
  <1> QED
    BY <1>1 DEF TypeOK, Told

\* The same for the completion queues of the clients.
LEMMA DoneType ==
  ASSUME TypeOK, NEW c, NEW k \in Completions
  PROVE  Done(c, k) \in [Clients -> Seq(Completions)]
  <1>1. c \in Clients => Append(wc[c], k) \in Seq(Completions)
    BY AppendProperties DEF TypeOK
  <1> QED
    BY <1>1 DEF TypeOK, Done

\* What is taken from the server's channels, and what is put there.
LEMMA ChannelTypes ==
  ASSUME TypeOK
  PROVE  /\ cm_events # <<>> => Head(cm_events) \in CmEvents /\ Tail(cm_events) \in Seq(CmEvents)
         /\ server_wc # <<>> => Tail(server_wc) \in Seq(Completions)
         /\ \A e \in CmEvents : Append(cm_events, e) \in Seq(CmEvents)
         /\ \A k \in Completions :
              /\ Append(server_wc, k) \in Seq(Completions)
              /\ server_wc # <<>> => Append(Tail(server_wc), k) \in Seq(Completions)
  BY HeadTailProperties, AppendProperties DEF TypeOK

\* The completions, answers and events that the two programs name.
LEMMA Members ==
  /\ {"send", "recv", "write", "read", "error"} \subseteq Completions
  /\ {"CONNECT_RESPONSE", "REJECTED", "UNREACHABLE", "DISCONNECTED"} \subseteq Answers
  /\ \A e \in CmEvents : e[2] \in Clients
  /\ \A c \in Clients :
       {<<"CONNECT_REQUEST", c>>, <<"ESTABLISHED", c>>, <<"DISCONNECTED", c>>,
        <<"UNREACHABLE", c>>} \subseteq CmEvents
  BY SMTT(30) DEF Completions, Answers, CmEvents

\* The end of the server keeps the types.
LEMMA ServerEndsType ==
  ASSUME TypeOK, NEW how \in Over, ServerEnds(how), UNCHANGED clientVars,
         cm_events' \in Seq(CmEvents)
  PROVE  TypeOK'
  BY DEF TypeOK, ServerEnds, clientVars, ServerStates

\* So does the end of a client.
LEMMA ClientFailsType ==
  ASSUME TypeOK, NEW c \in Clients, NEW from, ClientFails(c, from)
  PROVE  TypeOK'
  <1>1. cm_events' \in Seq(CmEvents)
    BY ChannelTypes, Members DEF ClientFails, TypeOK
  <1>2. client' \in [Clients -> ClientStates]
    BY DEF ClientFails, TypeOK, Goto, ClientStates, Over, Left
  <1> QED
    BY <1>1, <1>2 DEF ClientFails, TypeOK, serverVars

\* Every step keeps the types: the cases of Next.
LEMMA TypeStep == TypeOK /\ [Next]_vars => TypeOK'
  <1> SUFFICES ASSUME TypeOK, [Next]_vars
               PROVE  TypeOK'
    OBVIOUS
  <1> USE Members DEF TypeOK, serverVars, clientVars
  <1>1. CASE start_rdma_server
    BY <1>1, ServerEndsType DEF start_rdma_server, ServerCallFails, Over, ServerStates
  <1>2. CASE TakeRequest
    BY <1>2, ServerEndsType, ChannelTypes DEF TakeRequest, Event, OtherEvent, Over, ServerStates
  <1>3. CASE setup_client_resources
    BY <1>3, ServerEndsType DEF setup_client_resources, ServerCallFails, Over, ServerStates
  <1>4. CASE accept_client_connection
    <2>1. Told(cm_client_id, "CONNECT_RESPONSE") \in [Clients -> Seq(Answers)]
      BY ToldType
    <2> QED
    BY <1>4, <2>1, ServerEndsType
    DEF accept_client_connection, ServerCallFails, Over, ServerStates
  <1>5. CASE Established
    BY <1>5, ServerEndsType, ChannelTypes DEF Established, Event, OtherEvent, Over, ServerStates
  <1>6. CASE send_server_metadata_to_client
    <2>1. Done(cm_client_id, "recv") \in [Clients -> Seq(Completions)]
      BY DoneType
    <2> QED
    BY <1>6, <2>1, ServerEndsType, ChannelTypes
    DEF send_server_metadata_to_client, ServerCallFails, Over, ServerStates
  <1>7. CASE MetadataSent
    BY <1>7, ServerEndsType, ChannelTypes DEF MetadataSent, Over, ServerStates
  <1>8. CASE disconnect_and_cleanup
    BY <1>8, ServerEndsType, ChannelTypes DEF disconnect_and_cleanup, Event, OtherEvent, Over
  <1>9. ASSUME NEW c \in Clients, ClientStep(c) \/ Timeout(c)
        PROVE  TypeOK'
    <2> USE ClientFailsType DEF ClientCallFails
    <2>1. ASSUME NEW from, NEW to \in ClientStates, Goto(c, from, to)
          PROVE  client' \in [Clients -> ClientStates]
      BY <2>1 DEF Goto
    <2>2. {"connect", "wait_established", "exchange", "wait_metadata", "write", "wait_write",
           "read", "wait_read", "check", "wait_disconnected", "end"} \subseteq ClientStates
      BY DEF ClientStates, Over, Left
    <2>3. [wc EXCEPT ![c] = <<>>] \in [Clients -> Seq(Completions)]
      BY SMTT(30)
    <2>a. \A k \in Completions : Done(c, k) \in [Clients -> Seq(Completions)]
      BY DoneType
    <2>b. /\ Told(c, "UNREACHABLE") \in [Clients -> Seq(Answers)]
          /\ Told(c, "REJECTED") \in [Clients -> Seq(Answers)]
          /\ Told(c, "DISCONNECTED") \in [Clients -> Seq(Answers)]
      BY ToldType
    <2>c. events[c] # <<>> => [events EXCEPT ![c] = Tail(@)] \in [Clients -> Seq(Answers)]
      BY HeadTailProperties
    <2>4. CASE client_prepare_connection(c)
      BY <2>1, <2>2, <2>4 DEF client_prepare_connection
    <2>5. CASE client_connect_to_server(c)
      BY <2>1, <2>2, <2>5, <2>b, ChannelTypes DEF client_connect_to_server
    <2>6. CASE Connect(c)
      <3>1. Append(cm_events, <<"ESTABLISHED", c>>) \in Seq(CmEvents)
        BY ChannelTypes
      <3> QED
        BY <2>1, <2>2, <2>6, <2>c, <3>1 DEF Connect
    <2>7. CASE client_xchange_metadata_with_server(c)
      BY <2>1, <2>2, <2>7, <2>a, ChannelTypes
      DEF client_xchange_metadata_with_server, Complete
    <2>8. CASE Exchanged(c)
      BY <2>1, <2>2, <2>3, <2>8 DEF Exchanged
    <2>9. CASE client_remote_memory_ops(c)
      <3>1. Done(c, "write") \in [Clients -> Seq(Completions)]
            /\ Done(c, "read") \in [Clients -> Seq(Completions)]
            /\ Done(c, "error") \in [Clients -> Seq(Completions)]
        BY <2>a
      <3>2. CASE Goto(c, "write", "wait_write")
        BY <2>1, <2>2, <2>9, <3>1, <3>2 DEF client_remote_memory_ops, Complete, Goto
      <3>3. CASE Goto(c, "read", "wait_read")
        BY <2>1, <2>2, <2>9, <3>1, <3>3 DEF client_remote_memory_ops, Complete, Goto
      <3> QED
        BY <2>9, <3>2, <3>3 DEF client_remote_memory_ops
    <2>10. CASE RemoteOpDone(c, "wait_write", "read")
      BY <2>1, <2>2, <2>3, <2>10 DEF RemoteOpDone
    <2>11. CASE RemoteOpDone(c, "wait_read", "check")
      BY <2>1, <2>2, <2>3, <2>11 DEF RemoteOpDone
    <2>12. CASE client_disconnect_and_clean(c)
      BY <2>1, <2>2, <2>12, ChannelTypes DEF client_disconnect_and_clean
    <2>14. CASE Disconnected(c)
      BY <2>1, <2>2, <2>14, <2>c DEF Disconnected
    <2>13. CASE Timeout(c)
      BY <2>13, <2>a, <2>b, ChannelTypes DEF Timeout
    <2> QED
      BY <1>9, <2>4, <2>5, <2>6, <2>7, <2>8, <2>9, <2>10, <2>11, <2>12, <2>13, <2>14 DEF ClientStep
  <1>10. CASE UNCHANGED vars
    BY <1>10 DEF vars
  <1> QED
    BY <1>1, <1>2, <1>3, <1>4, <1>5, <1>6, <1>7, <1>8, <1>9, <1>10 DEF Next, ServerStep

-----------------------------------------------------------------------------
(* The invariant *)

\* Init establishes it.
LEMMA InitInv == Init => IInv
  BY SMTT(30), RdmaAssumption DEF Init, IInv, TypeOK, ServerInv, EventInv, ClientInv, Range, Over, Left, ServerStates,
                        ClientStates, Early, Remote, Nobody

\* The server ends before its client has read and written only as "failed".
LEMMA ServerEndsInv ==
  ASSUME IInv, TypeOK', NEW how \in Over, ServerEnds(how), UNCHANGED clientVars,
         Range(cm_events') \subseteq Range(cm_events),
         how = "end" => cm_client_id \in Clients /\ client[cm_client_id] \in Left,
         server \notin Over
  PROVE  IInv'
  <1>1. ServerInv'
    BY DEF IInv, ServerInv, ServerEnds, clientVars, Over, Early, TypeOK
  <1>2. EventInv'
    BY DEF IInv, EventInv, ServerEnds, clientVars
  <1>3. ASSUME NEW c \in Clients
        PROVE  ClientInv(c)'
    BY <1>3 DEF IInv, ClientInv, ServerEnds, clientVars, Over, Early, Remote
  <1> QED
    BY <1>1, <1>2, <1>3 DEF IInv

\* A step of the server that only moves on, with at most an event taken.
LEMMA ServerMovesInv ==
  ASSUME IInv, TypeOK', UNCHANGED <<clientVars, wc, buffer, memory, server_wc, events>>,
         Range(cm_events') \subseteq Range(cm_events),
         \/ server = "start" /\ server' = "wait_request" /\ UNCHANGED cm_client_id
         \/ server = "wait_request" /\ server' = "setup" /\ cm_client_id' \in Clients
         \/ server \in Early \ {"start", "wait_request"} /\ server' \in Early \ {"start", "wait_request"}
            /\ UNCHANGED cm_client_id
  PROVE  IInv'
  <1>1. ServerInv'
    BY RdmaAssumption DEF IInv, ServerInv, clientVars, Over, Early, TypeOK
  <1>2. EventInv'
    <2>1. \A e \in Range(cm_events) : e[2] # Nobody
      BY SMTT(30), RangeOfSeq, Members, RdmaAssumption DEF IInv, TypeOK
    <2> QED
      BY <2>1, RdmaAssumption DEF IInv, EventInv, ServerInv, clientVars, Over
  <1>3. ASSUME NEW c \in Clients
        PROVE  ClientInv(c)'
    BY <1>3, RdmaAssumption DEF IInv, ClientInv, ServerInv, clientVars, Over, Early, Remote
  <1> QED
    BY <1>1, <1>2, <1>3 DEF IInv

\* Every step of rdma_server keeps the invariant.
LEMMA ServerStepInv == IInv /\ TypeOK' /\ ServerStep => IInv'
  <1> SUFFICES ASSUME IInv, TypeOK', ServerStep
               PROVE  IInv'
    OBVIOUS
  <1> USE DEF Early, Over, Left
  <1>a. cm_events # <<>> =>
          /\ Head(cm_events) \in Range(cm_events) /\ Head(cm_events)[2] \in Clients
          /\ Range(Tail(cm_events)) \subseteq Range(cm_events)
    BY TailRange, ChannelTypes, Members DEF IInv, TypeOK
  <1>1. CASE start_rdma_server
    BY <1>1, ServerEndsInv, ServerMovesInv DEF start_rdma_server, ServerCallFails, clientVars
  <1>2. CASE TakeRequest
    BY <1>2, <1>a, ServerEndsInv, ServerMovesInv DEF TakeRequest, Event, OtherEvent, clientVars
  <1>3. CASE setup_client_resources
    BY <1>3, ServerEndsInv, ServerMovesInv DEF setup_client_resources, ServerCallFails, clientVars
  <1>4. CASE accept_client_connection
    <2>1. SUFFICES ASSUME server = "accept", server' = "wait_established",
                          UNCHANGED <<cm_client_id, buffer, memory, cm_events, server_wc, clientVars, wc>>,
                          events' # events => events' = Told(cm_client_id, "CONNECT_RESPONSE")
                   PROVE  IInv'
      BY <1>4, ServerEndsInv DEF accept_client_connection, ServerCallFails, clientVars
    <2>2. ServerInv'
      BY <2>1 DEF IInv, ServerInv, clientVars, TypeOK
    <2>3. EventInv'
      <3>1. \A c \in Clients : c # cm_client_id => events'[c] = events[c]
        BY <2>1 DEF Told, IInv, TypeOK
      <3> QED
        BY <2>1, <3>1 DEF IInv, EventInv, clientVars
    <2>4. ASSUME NEW c \in Clients
          PROVE  ClientInv(c)'
      BY <2>1, <2>4 DEF IInv, ClientInv, clientVars, Remote
    <2> QED
      BY <2>2, <2>3, <2>4 DEF IInv
  <1>5. CASE Established
    BY <1>5, <1>a, ServerEndsInv, ServerMovesInv DEF Established, Event, OtherEvent, clientVars
  <1>6. CASE send_server_metadata_to_client
    <2>1. SUFFICES ASSUME server = "wait_metadata", server_wc # <<>>, server' = "wait_sent",
                          buffer' = "registered",
                          UNCHANGED <<cm_client_id, memory, cm_events, clientVars, events>>,
                          \/ client[cm_client_id] \in Left /\ UNCHANGED wc
                          \/ client[cm_client_id] \notin Left /\ wc' = Done(cm_client_id, "recv")
                   PROVE  IInv'
      BY <1>6, ServerEndsInv DEF send_server_metadata_to_client, ServerCallFails, clientVars
    <2>2. ServerInv'
      BY <2>1 DEF IInv, ServerInv, clientVars, TypeOK
    <2>3. EventInv'
      BY <2>1 DEF IInv, EventInv, clientVars
    <2>4. ASSUME NEW c \in Clients
          PROVE  ClientInv(c)'
      <3>1. CASE wc'[c] = wc[c]
        BY <2>1, <3>1 DEF IInv, ClientInv, clientVars, Remote
      <3>2. CASE c = cm_client_id /\ client[c] \notin Left /\ wc'[c] = Append(wc[c], "recv")
        <4>1. client[c] = "wait_metadata" /\ Len(wc[c]) = 1
          BY SMTT(30), <2>1, <3>2 DEF IInv, ServerInv, ClientInv
        <4>2. Len(wc'[c]) = 2 /\ wc'[c][1] = wc[c][1] /\ wc'[c][2] = "recv"
          <5>1. wc[c] \in Seq(Completions) /\ "recv" \in Completions
            BY Members DEF IInv, TypeOK
          <5> QED
            BY SMTT(30), <3>2, <4>1, <5>1, AppendProperties
        <4> QED
          BY SMTT(30), <2>1, <3>2, <4>1, <4>2 DEF IInv, ClientInv, clientVars, Remote
      <3> QED
        BY <2>1, <3>1, <3>2 DEF Done, IInv, TypeOK
    <2> QED
      BY <2>2, <2>3, <2>4 DEF IInv
  <1>7. CASE MetadataSent
    <2>1. SUFFICES ASSUME server = "wait_sent", server' = "wait_disconnect",
                          UNCHANGED <<cm_client_id, buffer, memory, cm_events, clientVars, events, wc>>
                   PROVE  IInv'
      BY <1>7, ServerEndsInv DEF MetadataSent, clientVars
    <2>2. ServerInv'
      BY <2>1 DEF IInv, ServerInv, clientVars, TypeOK
    <2>3. EventInv'
      BY <2>1 DEF IInv, EventInv, clientVars
    <2>4. ASSUME NEW c \in Clients
          PROVE  ClientInv(c)'
      BY <2>1, <2>4 DEF IInv, ClientInv, clientVars, Remote
    <2> QED
      BY <2>2, <2>3, <2>4 DEF IInv
  <1>8. CASE disconnect_and_cleanup
    <2>1. Event("DISCONNECTED") => cm_client_id \in Clients /\ client[cm_client_id] \in Left
      BY <1>a DEF Event, IInv, EventInv
    <2> QED
      BY <1>8, <1>a, <2>1, ServerEndsInv DEF disconnect_and_cleanup, Event, OtherEvent, clientVars
  <1> QED
    BY <1>1, <1>2, <1>3, <1>4, <1>5, <1>6, <1>7, <1>8 DEF ServerStep

\* A step of client c, or of the connection manager for it: what it leaves alone,
\* and what is left to show about c itself.
LEMMA ClientMovesInv ==
  ASSUME IInv, TypeOK', NEW c \in Clients, client[c] \notin Over,
         client[c] = "wait_disconnected" => client'[c] \in Left,
         UNCHANGED <<server, cm_client_id, buffer>>,
         \A d \in Clients \ {c} :
           client'[d] = client[d] /\ wc'[d] = wc[d] /\ dst'[d] = dst[d] /\ events'[d] = events[d],
         memory' = memory \/ (memory' = c /\ cm_client_id = c),
         "CONNECT_RESPONSE" \in Range(events'[c]) => "CONNECT_RESPONSE" \in Range(events[c]),
         \A e \in Range(cm_events') :
           \/ e \in Range(cm_events) \/ e[1] # "DISCONNECTED"
           \/ e[2] = c /\ cm_client_id = c /\ client'[c] \in Left,
         server_wc' = server_wc \/ (cm_client_id = c /\ client'[c] = "wait_metadata"),
         client[c] = "wait_metadata" => client'[c] \in {"wait_metadata", "failed", "write"},
         ClientInv(c)'
  PROVE  IInv'
  <1>1. ServerInv'
    BY RdmaAssumption DEF IInv, ServerInv, ClientInv, Over, Left, Early, Remote, TypeOK
  <1>2. EventInv'
    <2>1. \A e \in Range(cm_events) : e[2] \in Clients
      BY RangeOfSeq, Members DEF IInv, TypeOK
    <2>2. ASSUME NEW e \in Range(cm_events'), e[1] = "DISCONNECTED"
          PROVE  e[2] = cm_client_id' /\ client'[cm_client_id'] \in Left
      BY <2>1, <2>2 DEF IInv, EventInv, Left
    <2>3. ASSUME NEW d \in Clients, "CONNECT_RESPONSE" \in Range(events'[d])
          PROVE  cm_client_id' = d
      BY <2>3 DEF IInv, EventInv
    <2> QED
      BY <2>2, <2>3 DEF EventInv
  <1>3. ASSUME NEW d \in Clients \ {c}
        PROVE  ClientInv(d)'
    BY SMTT(30), <1>3 DEF IInv, ClientInv, Over, Early, Remote
  <1> QED
    BY <1>1, <1>2, <1>3 DEF IInv

\* A client that leaves, with or without an error.
LEMMA ClientEndsInv ==
  ASSUME IInv, TypeOK', NEW c \in Clients, NEW from, NEW how,
         Goto(c, from, how), from \notin Left,
         how = "failed" \/ (from = "check" /\ how = "wait_disconnected"),
         cm_events' = IF Connected(c) THEN Append(cm_events, <<"DISCONNECTED", c>>)
                      ELSE cm_events,
         UNCHANGED <<serverVars, server_wc, events, wc, dst>>
  PROVE  IInv'
  <1>1. \A e \in Range(cm_events') :
           e \in Range(cm_events) \/ (e = <<"DISCONNECTED", c>> /\ cm_client_id = c)
    BY SMTT(30), AppendRange, Members DEF IInv, TypeOK, Connected
  <1>2. client'[c] = how /\ client[c] = from /\ \A d \in Clients \ {c} : client'[d] = client[d]
    BY DEF Goto, IInv, TypeOK
  <1>3. ClientInv(c)'
    BY <1>2 DEF IInv, ClientInv, Over, Left, Remote, serverVars
  <1>4. client[c] = "wait_metadata" => client'[c] = "failed"
    BY <1>2
  <1> QED
    BY SMTT(30), <1>1, <1>2, <1>3, <1>4, ClientMovesInv DEF serverVars, Over, Left

\* The completion queue of a client that waits for one command.
LEMMA OneCompletion ==
  ASSUME IInv, NEW c \in Clients, NEW k \in Completions, wc[c] = <<>>
  PROVE  /\ Done(c, k)[c] = <<k>>
         /\ \A d \in Clients \ {c} : Done(c, k)[d] = wc[d]
  BY SMTT(30) DEF IInv, TypeOK, Done

\* Every step of rdma_client keeps the invariant.
LEMMA ClientStepInv ==
  ASSUME IInv, TypeOK', NEW c \in Clients, ClientStep(c)
  PROVE  IInv'
  <1> USE DEF Over, Left
  <1> DEFINE Moves(from, to) ==
        /\ client[c] = from /\ client'[c] = to
        /\ \A d \in Clients \ {c} : client'[d] = client[d]
  <1>a. ASSUME NEW from, NEW to, Goto(c, from, to)
        PROVE  Moves(from, to)
    BY <1>a DEF Goto, IInv, TypeOK
  <1>b. ASSUME NEW from, ClientFails(c, from), from \notin Left
        PROVE  IInv'
    BY <1>b, ClientEndsInv DEF ClientFails
  <1> HIDE DEF Moves
  <1>1. CASE client_prepare_connection(c)
    <2>1. SUFFICES ASSUME Moves("prepare", "connect"),
                          UNCHANGED <<serverVars, cm_events, server_wc, events, wc, dst>>
                   PROVE  IInv'
      BY <1>1, <1>a, <1>b DEF client_prepare_connection, ClientCallFails
    <2>2. ClientInv(c)'
      BY <2>1 DEF Moves, IInv, ClientInv, Remote, serverVars
    <2> QED
      BY <2>1, <2>2, ClientMovesInv DEF Moves, serverVars
  <1>2. CASE client_connect_to_server(c)
    <2>1. SUFFICES ASSUME Moves("connect", "wait_established"),
                          \/ cm_events' = Append(cm_events, <<"CONNECT_REQUEST", c>>) /\ UNCHANGED events
                          \/ events' = Told(c, "REJECTED") /\ UNCHANGED cm_events,
                          UNCHANGED <<serverVars, server_wc, wc, dst>>
                   PROVE  IInv'
      BY <1>2, <1>a, <1>b DEF client_connect_to_server, ClientCallFails
    <2>2. ClientInv(c)'
      BY <2>1 DEF Moves, IInv, ClientInv, Remote, serverVars
    <2>a. /\ cm_events \in Seq(CmEvents) /\ <<"CONNECT_REQUEST", c>> \in CmEvents
          /\ events \in [Clients -> Seq(Answers)] /\ events[c] \in Seq(Answers)
          /\ "REJECTED" \in Answers
      BY Members DEF IInv, TypeOK
    <2>b. Range(Append(cm_events, <<"CONNECT_REQUEST", c>>))
            = Range(cm_events) \cup {<<"CONNECT_REQUEST", c>>}
      BY SMTT(30), <2>a, AppendRange
    <2>c. Range(Append(events[c], "REJECTED")) = Range(events[c]) \cup {"REJECTED"}
      BY SMTT(30), <2>a, AppendRange
    <2>d. Told(c, "REJECTED")[c] = Append(events[c], "REJECTED")
          /\ \A d \in Clients \ {c} : Told(c, "REJECTED")[d] = events[d]
      BY <2>a DEF Told
    <2>3. \A e \in Range(cm_events') : e \in Range(cm_events) \/ e = <<"CONNECT_REQUEST", c>>
      BY <2>1, <2>b
    <2>4. /\ "CONNECT_RESPONSE" \in Range(events'[c]) => "CONNECT_RESPONSE" \in Range(events[c])
          /\ \A d \in Clients \ {c} : events'[d] = events[d]
      <3>1. CASE UNCHANGED events
        BY <3>1
      <3>2. CASE events' = Told(c, "REJECTED")
        <4>1. events'[c] = Append(events[c], "REJECTED")
          BY <3>2, <2>d
        <4>2. \A d \in Clients \ {c} : events'[d] = events[d]
          BY <3>2, <2>d
        <4> QED
          BY SMTT(30), <4>1, <4>2, <2>c
      <3> QED
        BY <2>1, <3>1, <3>2
    <2> QED
      BY SMTT(30), <2>1, <2>2, <2>3, <2>4, ClientMovesInv DEF Moves, serverVars
  <1>3. CASE Connect(c)
    <2>1. SUFFICES ASSUME Moves("wait_established", "exchange"), events[c] # <<>>,
                          Head(events[c]) = "CONNECT_RESPONSE",
                          events' = [events EXCEPT ![c] = Tail(@)],
                          cm_events' = Append(cm_events, <<"ESTABLISHED", c>>),
                          UNCHANGED <<serverVars, server_wc, wc, dst>>
                   PROVE  IInv'
      BY <1>3, <1>a, <1>b DEF Connect
    <2>2. /\ Head(events[c]) \in Range(events[c])
          /\ Range(events'[c]) \subseteq Range(events[c])
          /\ \A d \in Clients \ {c} : events'[d] = events[d]
      BY SMTT(30), <2>1, TailRange DEF IInv, TypeOK
    <2>3. ClientInv(c)'
      BY <2>1, <2>2 DEF Moves, IInv, EventInv, ClientInv, Remote, serverVars
    <2>4. \A e \in Range(cm_events') : e \in Range(cm_events) \/ e = <<"ESTABLISHED", c>>
      BY SMTT(30), <2>1, AppendRange, Members DEF IInv, TypeOK
    <2> QED
      BY SMTT(30), <2>1, <2>2, <2>3, <2>4, ClientMovesInv DEF Moves, serverVars
  <1>4. CASE client_xchange_metadata_with_server(c)
    <2>1. SUFFICES ASSUME Moves("exchange", "wait_metadata"),
                          Complete(c, Connected(c), "send"),
                          server_wc' = server_wc \/ cm_client_id = c,
                          UNCHANGED <<serverVars, cm_events, events, dst>>
                   PROVE  IInv'
      BY <1>4, <1>a, <1>b DEF client_xchange_metadata_with_server, ClientCallFails, Connected
    <2>a. wc[c] = <<>> /\ "send" \in Completions /\ "error" \in Completions
      BY <2>1, Members DEF Moves, IInv, ClientInv
    <2>2. /\ wc'[c] = <<"send">> \/ wc'[c] = <<"error">>
          /\ \A d \in Clients \ {c} : wc'[d] = wc[d]
      BY <2>1, <2>a, OneCompletion DEF Complete
    <2>b. Len(wc'[c]) = 1 /\ wc'[c][1] \in {"send", "error"}
      BY SMTT(30), <2>2
    <2>3. ClientInv(c)'
      BY SMTT(30), <2>1, <2>b DEF Moves, IInv, ClientInv, Remote, serverVars
    <2> QED
      BY <2>1, <2>2, <2>3, ClientMovesInv DEF Moves, serverVars
  <1>5. CASE Exchanged(c)
    <2>1. SUFFICES ASSUME Moves("wait_metadata", "write"), Len(wc[c]) = 2, ~Has(c, "error"),
                          wc' = [wc EXCEPT ![c] = <<>>],
                          UNCHANGED <<serverVars, cm_events, server_wc, events, dst>>
                   PROVE  IInv'
      BY <1>5, <1>a, <1>b DEF Exchanged
    <2>2. wc'[c] = <<>> /\ \A d \in Clients \ {c} : wc'[d] = wc[d]
      BY <2>1 DEF IInv, TypeOK
    <2>3. server \notin Early
      BY <2>1 DEF Moves, IInv, ClientInv
    <2>4. ClientInv(c)'
      BY <2>1, <2>2, <2>3 DEF Moves, IInv, ClientInv, Remote, serverVars
    <2> QED
      BY <2>1, <2>2, <2>4, ClientMovesInv DEF Moves, serverVars
  <1>6. CASE client_remote_memory_ops(c)
    <2>1. CASE /\ Goto(c, "write", "wait_write")
               /\ Complete(c, Connected(c) /\ buffer = "registered", "write")
               /\ memory' = IF Connected(c) /\ buffer = "registered" THEN c ELSE memory
               /\ UNCHANGED <<server, cm_client_id, buffer, cm_events, server_wc, events, dst>>
      <3>1. Moves("write", "wait_write")
        BY <2>1, <1>a
      <3>2. /\ wc'[c] = <<"error">> \/ (wc'[c] = <<"write">> /\ memory' = c)
            /\ \A d \in Clients \ {c} : wc'[d] = wc[d]
        BY SMTT(30), <2>1, <3>1, OneCompletion, Members DEF Moves, Complete, IInv, ClientInv
      <3>3. ClientInv(c)'
        BY <2>1, <3>1, <3>2 DEF Moves, IInv, ClientInv, Remote
      <3> QED
        BY <2>1, <3>1, <3>2, <3>3, ClientMovesInv DEF Moves, Connected
    <2>2. CASE /\ Goto(c, "read", "wait_read")
               /\ Complete(c, Connected(c) /\ buffer = "registered", "read")
               /\ dst' = [dst EXCEPT ![c] = IF Connected(c) /\ buffer = "registered" THEN memory ELSE @]
               /\ UNCHANGED <<serverVars, cm_events, server_wc, events>>
      <3>1. Moves("read", "wait_read")
        BY <2>2, <1>a
      <3>a. wc[c] = <<>> /\ "read" \in Completions /\ "error" \in Completions
        BY <3>1, Members DEF Moves, IInv, ClientInv
      <3>b. /\ dst'[c] = IF Connected(c) /\ buffer = "registered" THEN memory ELSE dst[c]
            /\ \A d \in Clients \ {c} : dst'[d] = dst[d]
        BY <2>2 DEF IInv, TypeOK
      <3>2. /\ wc'[c] = <<"error">> \/ (wc'[c] = <<"read">> /\ dst'[c] = memory)
            /\ \A d \in Clients \ {c} : wc'[d] = wc[d] /\ dst'[d] = dst[d]
        BY <2>2, <3>a, <3>b, OneCompletion DEF Complete
      <3>3. ClientInv(c)'
        BY <2>2, <3>1, <3>2 DEF Moves, IInv, ClientInv, Remote, serverVars
      <3> QED
        BY <2>2, <3>1, <3>2, <3>3, ClientMovesInv DEF Moves, serverVars
    <2> QED
      BY <1>6, <1>b, <2>1, <2>2 DEF client_remote_memory_ops, ClientCallFails
  <1>7. ASSUME NEW from \in {"wait_write", "wait_read"}, NEW to,
               \/ from = "wait_write" /\ to = "read"
               \/ from = "wait_read" /\ to = "check",
               RemoteOpDone(c, from, to)
        PROVE  IInv'
    <2>1. SUFFICES ASSUME Moves(from, to), ~Has(c, "error"), wc' = [wc EXCEPT ![c] = <<>>],
                          UNCHANGED <<serverVars, cm_events, server_wc, events, dst>>
                   PROVE  IInv'
      BY <1>7, <1>a, <1>b DEF RemoteOpDone
    <2>a. wc[c] # <<"error">>
      BY SMTT(30), <2>1 DEF Has
    <2>2. wc'[c] = <<>> /\ wc[c] # <<"error">> /\ \A d \in Clients \ {c} : wc'[d] = wc[d]
      BY <2>1, <2>a DEF IInv, TypeOK
    <2>3. ClientInv(c)'
      BY <1>7, <2>1, <2>2 DEF Moves, IInv, ClientInv, Remote, serverVars
    <2> QED
      BY <1>7, <2>1, <2>2, <2>3, ClientMovesInv DEF Moves, serverVars
  <1>8. CASE client_disconnect_and_clean(c)
    BY <1>8, ClientEndsInv DEF client_disconnect_and_clean
  <1>9. CASE Disconnected(c)
    <2>1. /\ Moves("wait_disconnected", "end")
          /\ UNCHANGED <<serverVars, cm_events, server_wc, wc, dst>>
      BY <1>9, <1>a DEF Disconnected
    <2>2. /\ events \in [Clients -> Seq(Answers)] /\ events[c] \in Seq(Answers) /\ events[c] # <<>>
          /\ events' = [events EXCEPT ![c] = Tail(@)]
      BY <1>9 DEF Disconnected, IInv, TypeOK
    <2>3. /\ Range(events'[c]) \subseteq Range(events[c])
          /\ \A d \in Clients \ {c} : events'[d] = events[d]
      BY <2>2, TailRange
    <2>4. ClientInv(c)'
      BY <2>1 DEF Moves, IInv, ClientInv, Remote, serverVars
    <2> QED
      BY <2>1, <2>3, <2>4, ClientMovesInv DEF Moves, serverVars
  <1>10. CASE RemoteOpDone(c, "wait_write", "read") \/ RemoteOpDone(c, "wait_read", "check")
    BY <1>7, <1>10
  <1> QED
    BY ClientStep(c), <1>1, <1>2, <1>3, <1>4, <1>5, <1>6, <1>8, <1>9, <1>10 DEF ClientStep

\* The second completion of a client that waits for two.
LEMMA AppendSecond ==
  ASSUME NEW S, NEW s \in Seq(S), NEW e \in S, Len(s) = 1
  PROVE  Len(Append(s, e)) = 2 /\ Append(s, e)[1] = s[1] /\ Append(s, e)[2] = e
  <1>1. /\ Len(Append(s, e)) = Len(s) + 1
        /\ \A i \in 1..Len(s) : Append(s, e)[i] = s[i]
        /\ Append(s, e)[Len(s) + 1] = e
    BY SMTT(30), AppendProperties
  <1> QED
    BY SMTT(30), <1>1

\* The timers of the connection manager.
LEMMA TimeoutInv ==
  ASSUME IInv, TypeOK', NEW c \in Clients, Timeout(c)
  PROVE  IInv'
  <1> USE DEF Over, Left
  <1>1. ASSUME NEW e \in {"UNREACHABLE", "REJECTED", "DISCONNECTED"},
               client[c] \in {"wait_established", "wait_disconnected"},
               events' = Told(c, e),
               UNCHANGED <<serverVars, cm_events, server_wc, clientVars, wc>>
        PROVE  IInv'
    <2>1. /\ events \in [Clients -> Seq(Answers)] /\ events[c] \in Seq(Answers)
          /\ e \in Answers
      BY Members DEF IInv, TypeOK
    <2>2. Range(Append(events[c], e)) = Range(events[c]) \cup {e}
      BY SMTT(30), <2>1, AppendRange
    <2>3. /\ "CONNECT_RESPONSE" \in Range(events'[c]) => "CONNECT_RESPONSE" \in Range(events[c])
          /\ \A d \in Clients \ {c} : events'[d] = events[d]
      BY <1>1, <2>1, <2>2 DEF Told
    <2>4. ClientInv(c)'
      BY <1>1 DEF IInv, ClientInv, Remote, serverVars, clientVars
    <2> QED
      BY <1>1, <2>3, <2>4, ClientMovesInv DEF serverVars, clientVars
  <1>2. CASE /\ cm_events' = Append(cm_events, <<"UNREACHABLE", c>>)
             /\ UNCHANGED <<serverVars, server_wc, clientVars, events, wc>>
    <2>1. cm_events \in Seq(CmEvents) /\ <<"UNREACHABLE", c>> \in CmEvents
      BY Members DEF IInv, TypeOK
    <2>2. Range(cm_events') = Range(cm_events) \cup {<<"UNREACHABLE", c>>}
      BY SMTT(30), <1>2, <2>1, AppendRange
    <2>3. EventInv'
      BY SMTT(30), <1>2, <2>2 DEF IInv, EventInv, serverVars, clientVars
    <2>4. ServerInv' /\ \A d \in Clients : ClientInv(d)'
      BY <1>2 DEF IInv, ServerInv, ClientInv, serverVars, clientVars
    <2> QED
      BY <2>3, <2>4 DEF IInv
  <1>3. CASE /\ client[c] = "wait_metadata" /\ server \in Over /\ Len(wc[c]) < 2
             /\ wc' = Done(c, "error")
             /\ UNCHANGED <<serverVars, cm_events, server_wc, clientVars, events>>
    <2>1. /\ wc \in [Clients -> Seq(Completions)] /\ wc[c] \in Seq(Completions)
          /\ "error" \in Completions
      BY Members DEF IInv, TypeOK
    <2>a. Len(wc[c]) = 1
      BY SMTT(30), <1>3 DEF IInv, ClientInv
    <2>2. /\ Len(Append(wc[c], "error")) = 2 /\ Append(wc[c], "error")[1] = wc[c][1]
          /\ Append(wc[c], "error")[2] = "error"
      BY SMTT(30), <2>1, <2>a, AppendSecond
    <2>3. /\ Len(wc'[c]) = 2 /\ wc'[c][1] = wc[c][1] /\ wc'[c][2] = "error"
          /\ \A d \in Clients \ {c} : wc'[d] = wc[d]
      BY <1>3, <2>1, <2>2 DEF Done
    <2>4. ClientInv(c)'
      BY SMTT(30), <1>3, <2>3 DEF IInv, ClientInv, Early, Remote, serverVars, clientVars
    <2> QED
      BY <1>3, <2>3, <2>4, ClientMovesInv DEF serverVars, clientVars
  <1> QED
    BY Timeout(c), <1>1, <1>2, <1>3 DEF Timeout

-----------------------------------------------------------------------------
(* The session *)

\* The inductive invariant holds throughout, with any number of clients and
\* any failures of the calls the two programs make.
THEOREM SessionInvariant == Spec => []IInv
  <1>1. Init => IInv
    BY InitInv
  <1>2. IInv /\ [Next]_vars => IInv'
    <2>1. SUFFICES ASSUME IInv, [Next]_vars PROVE IInv'
      OBVIOUS
    <2>2. TypeOK'
      BY <2>1, TypeStep DEF IInv
    <2>3. CASE UNCHANGED vars
      BY <2>1, <2>3 DEF vars, serverVars, clientVars, IInv, TypeOK, ServerInv, EventInv, ClientInv
    <2>4. CASE ServerStep
      BY <2>1, <2>2, <2>4, ServerStepInv
    <2>5. ASSUME NEW c \in Clients, ClientStep(c)
          PROVE  IInv'
      BY <2>1, <2>2, <2>5, ClientStepInv
    <2>6. ASSUME NEW c \in Clients, Timeout(c)
          PROVE  IInv'
      BY <2>1, <2>2, <2>6, TimeoutInv
    <2> QED
      BY <2>1, <2>3, <2>4, <2>5, <2>6 DEF Next
  <1> QED
    BY <1>1, <1>2, PTL DEF Spec

\* check_src_dst finds the client's own data: no other client can have written
\* between its write and its read, since no other one is connected.
THEOREM OwnData == Spec => []ReadsItsOwnData
  <1>1. IInv => ReadsItsOwnData
    BY DEF IInv, ClientInv, ReadsItsOwnData
  <1> QED
    BY <1>1, SessionInvariant, PTL

\* The server's buffer is registered while its client writes and reads, until
\* the disconnect, unless a call of the server failed.
THEOREM BufferLifetime == Spec => []BufferOutlivesAccess
  <1>1. IInv => BufferOutlivesAccess
    BY DEF IInv, TypeOK, ServerStates, ServerInv, ClientInv, Early, Remote, Over, Left,
           BufferOutlivesAccess
  <1> QED
    BY <1>1, SessionInvariant, PTL

=============================================================================
