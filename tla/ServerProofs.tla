---------------------------- MODULE ServerProofs ----------------------------
(***************************************************************************)
(* Proofs about the server thread, for any number of nodes and sockets:    *)
(* its types, the agreement of its two tables, the order of what it sends, *)
(* and mutual introduction.                                                *)
(***************************************************************************)
EXTENDS Server, FiniteSetTheorems, SequenceTheorems, TLAPS

Statuses == {"UNUSED", "QUEUED", "CONNECTED", "BROKEN", "CLOSED"}
Accepted == {"CONNECTED", "BROKEN", "CLOSED"}

(* A connection has an owner, a request is only read from an accepted      *)
(* socket, and what the thread is about to handle was accepted.            *)
ConnectionsOK ==
    \A s \in Socks :
       /\ status[s] # "UNUSED" => owner[s] \in Ids
       /\ status[s] = "UNUSED" => request[s] = "none"
       /\ s \in watched => status[s] \in Accepted
       /\ s \in readfds \cup {cur} => status[s] \in Accepted

ConnInv == TypeOK /\ ConnectionsOK

\* No socket was used at the start.
LEMMA ConnInvInit == Init => ConnInv
  BY ServerAssumption DEF Init, ConnInv, TypeOK, ConnectionsOK, NoNode, Addrs

(* What dropping a client leaves well typed.                               *)
LEMMA DropTypes ==
    ASSUME TypeOK, NEW s \in Socks, DropClient(s)
    PROVE  /\ watched' = watched \ {s}
           /\ status' = [status EXCEPT ![s] = "CLOSED"]
           /\ status' \in [Socks -> Statuses]
           /\ clientNode' \in [Ids -> [sock : Socks \cup {NoSock}, addr : Addrs]]
           /\ sockIdPair' \in [Socks -> Ids \cup {NoId}]
  BY DEF TypeOK, DropClient, delClientNode, NoNode, Addrs, Statuses

(* A contact the server may hold, and the messages it may send.            *)
LEMMA MessageTypes ==
    ASSUME TypeOK, NEW i \in Ids, NEW s \in Socks
    PROVE  Punch(i, s) \in Messages /\ Answer \in Messages
<1>1. PeerName(s) \in Addrs
  BY DEF PeerName, Addrs
<1>2. \A j \in Registered : ContactOf(j) \in Contacts
  BY DEF Registered, ContactOf, Contacts, TypeOK
<1>3. {ContactOf(j) : j \in Registered} \in SUBSET Contacts
  BY <1>2
<1>4. [id |-> i, addr |-> PeerName(s)] \in Contacts
  BY <1>1 DEF Contacts
<1>. QED
  BY <1>3, <1>4 DEF Punch, Answer, Messages

(* What the handling of a GET_NODE appends to the wires.                   *)
LEMMA IntroduceWires ==
    ASSUME TypeOK, NEW i \in Ids, NEW s \in Socks, Introduce(i, s)
    PROVE  /\ wire' \in [Socks -> Seq(Messages)]
           /\ \A t \in Socks :
                 /\ Sends(i, s, t) \in Seq(Messages)
                 /\ wire'[t] = IF status[t] = "CONNECTED"
                               THEN wire[t] \o Sends(i, s, t) ELSE wire[t]
<1>1. Punch(i, s) \in Messages /\ Answer \in Messages
  BY MessageTypes
<1>2. \A t \in Socks : wire[t] \in Seq(Messages)
  BY DEF TypeOK
<1>. HIDE DEF Messages
<1>3. \A t \in Socks : Sends(i, s, t) \in Seq(Messages)
  BY <1>1 DEF Sends
<1>. QED
  BY <1>2, <1>3 DEF Introduce

(* A request handled: the client is registered and the socket recorded.    *)
LEMMA RegisterTypes ==
    ASSUME TypeOK, NEW i \in Ids, NEW s \in Socks, addClientNode(i, s)
    PROVE  /\ clientNode' \in [Ids -> [sock : Socks \cup {NoSock}, addr : Addrs]]
           /\ sockIdPair' \in [Socks -> Ids \cup {NoId}]
<1>1. PeerName(s) \in Addrs
  BY DEF PeerName, Addrs
<1>. QED
  BY <1>1 DEF addClientNode, TypeOK

\* Every step keeps what is known of the connections.
LEMMA ConnInvNext == ConnInv /\ [Next]_vars => ConnInv'
<1>. SUFFICES ASSUME ConnInv, [Next]_vars PROVE ConnInv'
  OBVIOUS
<1>. USE ServerAssumption DEF ConnInv, thread, tables, remote
<1>1. ASSUME NEW s \in Socks, NEW i \in Ids, Connect(s, i) PROVE ConnInv'
  BY <1>1 DEF Connect, TypeOK, ConnectionsOK, Accepted
<1>2. ASSUME NEW s \in Socks, SendRequest(s) PROVE ConnInv'
  BY <1>2 DEF SendRequest, TypeOK, ConnectionsOK, Accepted
<1>3. ASSUME NEW s \in Socks, Break(s) PROVE ConnInv'
  BY <1>3 DEF Break, TypeOK, ConnectionsOK, Accepted
<1>4. CASE StartServer
  BY <1>4 DEF StartServer, TypeOK, ConnectionsOK
<1>5. CASE EpollWait
  BY <1>5 DEF EpollWait, BrokenSocks, ReadableSocks, Listening, TypeOK, ConnectionsOK
<1>6. CASE EpollFails
  BY <1>6 DEF EpollFails, TypeOK, ConnectionsOK
<1>7. CASE ErrorsHandled
  BY <1>7 DEF ErrorsHandled, TypeOK, ConnectionsOK
<1>8. CASE ReadsHandled
  BY <1>8 DEF ReadsHandled, TypeOK, ConnectionsOK
<1>9. ASSUME NEW s \in Socks, HandleError(s) PROVE ConnInv'
  <2>1. TypeOK'
    BY <1>9, DropTypes DEF HandleError, TypeOK, Statuses
  <2>. QED
    BY <1>9, <2>1, DropTypes DEF HandleError, TypeOK, ConnectionsOK, Accepted
<1>10. ASSUME NEW s \in Socks, HandleBroken(s) PROVE ConnInv'
  <2>1. TypeOK'
    BY <1>10, DropTypes DEF HandleBroken, TypeOK, Statuses
  <2>. QED
    BY <1>10, <2>1, DropTypes DEF HandleBroken, TypeOK, ConnectionsOK, Accepted
<1>11. ASSUME NEW s \in Socks, CheckReadable(s) PROVE ConnInv'
  BY <1>11 DEF CheckReadable, TypeOK, ConnectionsOK
<1>12. CASE Accept
  BY <1>12 DEF Accept, QueuedSocks, TypeOK, ConnectionsOK, Accepted
<1>13. CASE HandleGetNode
  <2>1. cur \in Socks /\ owner[cur] \in Ids
    BY <1>13 DEF HandleGetNode, TypeOK, ConnectionsOK
  <2>2. wire' \in [Socks -> Seq(Messages)]
    BY <1>13, <2>1, IntroduceWires DEF HandleGetNode
  <2>3. /\ clientNode' \in [Ids -> [sock : Socks \cup {NoSock}, addr : Addrs]]
        /\ sockIdPair' \in [Socks -> Ids \cup {NoId}]
    BY <1>13, <2>1, RegisterTypes DEF HandleGetNode
  <2>4. TypeOK'
    BY <1>13, <2>2, <2>3 DEF HandleGetNode, TypeOK
  <2>. QED
    BY <1>13, <2>1, <2>4 DEF HandleGetNode, TypeOK, ConnectionsOK
<1>14. CASE HandleNothing
  BY <1>14 DEF HandleNothing, TypeOK, ConnectionsOK
<1>15. CASE UNCHANGED vars
  BY <1>15 DEF vars, TypeOK, ConnectionsOK
<1>. QED
  BY <1>1, <1>2, <1>3, <1>4, <1>5, <1>6, <1>7, <1>8, <1>9, <1>10, <1>11,
     <1>12, <1>13, <1>14, <1>15 DEF Next, Network, Thread

(* Every variable keeps its type, whatever clients and network do.         *)
THEOREM TypeCorrect == Spec => []TypeOK
<1>1. ConnInv => TypeOK
  BY DEF ConnInv
<1>. QED
  BY <1>1, ConnInvInit, ConnInvNext, PTL DEF Spec

-----------------------------------------------------------------------------
(* The tables.                                                             *)

(* Inductive with ConnInv: a socket is recorded when its request is read,  *)
(* so a request still unread belongs to no registered client.              *)
TablesInv ==
    /\ RegistrationIndexed
    /\ NoStaleSocket
    /\ \A s \in Socks : sockIdPair[s] # NoId =>
          request[s] = "read" /\ owner[s] = sockIdPair[s]

\* The tables are empty at the start.
LEMMA TablesInvInit == Init => TablesInv
  BY DEF Init, TablesInv, RegistrationIndexed, NoStaleSocket, Registered, NoNode

(* Closing a broken socket keeps the tables in agreement: the client it    *)
(* registered goes with it, and the pair of the socket does too.           *)
LEMMA DropKeepsTables ==
    ASSUME ConnInv, TablesInv, NEW s \in Socks, status[s] = "BROKEN",
           DropClient(s), UNCHANGED remote
    PROVE  TablesInv'
<1>. USE ServerAssumption, DropTypes DEF ConnInv, TypeOK, remote
<1>1. \A i \in Registered' :
         /\ i \in Registered /\ clientNode'[i] = clientNode[i] /\ i # sockIdPair[s]
  BY DEF Registered, DropClient, delClientNode, NoNode
<1>2. \A t \in Socks : sockIdPair'[t] = IF t = s THEN NoId ELSE sockIdPair[t]
  BY DEF DropClient, delClientNode
<1>3. RegistrationIndexed'
  BY <1>1, <1>2 DEF TablesInv, RegistrationIndexed, DropClient, Registered
<1>4. NoStaleSocket'
  BY <1>2 DEF TablesInv, NoStaleSocket, DropClient, ConnectionsOK
<1>. QED
  BY <1>2, <1>3, <1>4 DEF TablesInv

\* Every step keeps the tables in agreement.
LEMMA TablesInvNext == ConnInv /\ TablesInv /\ [Next]_vars => TablesInv'
<1>. SUFFICES ASSUME ConnInv, TablesInv, [Next]_vars PROVE TablesInv'
  OBVIOUS
<1>. USE ServerAssumption DEF thread, tables, remote
<1>. USE DEF ConnInv, TypeOK, ConnectionsOK, Accepted
<1>1. ASSUME NEW s \in Socks, NEW i \in Ids, Connect(s, i) PROVE TablesInv'
  BY <1>1 DEF Connect, TablesInv, RegistrationIndexed, NoStaleSocket, Registered
<1>2. ASSUME NEW s \in Socks, SendRequest(s) PROVE TablesInv'
  BY <1>2 DEF SendRequest, TablesInv, RegistrationIndexed, NoStaleSocket, Registered
<1>3. ASSUME NEW s \in Socks, Break(s) PROVE TablesInv'
  BY <1>3 DEF Break, TablesInv, RegistrationIndexed, NoStaleSocket, Registered
<1>4. ASSUME UNCHANGED <<watched, tables, status, remote>> PROVE TablesInv'
  BY <1>4 DEF TablesInv, RegistrationIndexed, NoStaleSocket, Registered
<1>5. CASE \/ StartServer \/ EpollWait \/ EpollFails \/ ErrorsHandled
           \/ ReadsHandled \/ HandleNothing \/ UNCHANGED vars
           \/ \E s \in Socks : CheckReadable(s)
  BY <1>4, <1>5 DEF StartServer, EpollWait, EpollFails, ErrorsHandled,
     ReadsHandled, HandleNothing, CheckReadable, vars
<1>6. ASSUME NEW s \in Socks, HandleError(s) \/ HandleBroken(s) PROVE TablesInv'
  BY <1>6, DropKeepsTables DEF HandleError, HandleBroken
<1>7. CASE Accept
  <2>1. CASE UNCHANGED <<status, watched>>
    BY <1>4, <1>7, <2>1 DEF Accept
  <2>2. ASSUME NEW s \in QueuedSocks, status' = [status EXCEPT ![s] = "CONNECTED"],
               watched' = watched \cup {s}
        PROVE  TablesInv'
    <3>1. s \in Socks /\ status[s] = "QUEUED"
      BY DEF QueuedSocks
    <3>2. RegistrationIndexed'
      BY <1>7, <2>2, <3>1 DEF Accept, TablesInv, RegistrationIndexed, Registered
    <3>3. NoStaleSocket'
      BY <1>7, <2>2, <3>1 DEF Accept, TablesInv, NoStaleSocket
    <3>. QED
      BY <1>7, <3>2, <3>3 DEF Accept, TablesInv
  <2>. QED
    BY <1>7, <2>1, <2>2 DEF Accept
<1>8. CASE HandleGetNode
  <2>1. cur \in Socks /\ owner[cur] \in Ids /\ cur \in watched
    BY <1>8 DEF HandleGetNode, TablesInv, NoStaleSocket
  <2>2. \A t \in Socks : sockIdPair'[t] = IF t = cur THEN owner[cur] ELSE sockIdPair[t]
    BY <1>8, <2>1 DEF HandleGetNode, addClientNode
  <2>3. \A t \in Socks : request'[t] = IF t = cur THEN "read" ELSE request[t]
    BY <1>8, <2>1 DEF HandleGetNode
  <2>4. ASSUME NEW i \in Registered'
        PROVE  \/ i \in Registered /\ clientNode'[i] = clientNode[i]
               \/ i = owner[cur] /\ clientNode'[i].sock = cur
    BY <1>8, <2>1 DEF HandleGetNode, addClientNode, Registered
  <2>5. ASSUME NEW i \in Registered PROVE clientNode[i].sock # cur
    <3>1. i \in Ids /\ clientNode[i].sock \in Socks
      BY DEF Registered
    <3>2. sockIdPair[clientNode[i].sock] = i
      BY DEF TablesInv, RegistrationIndexed
    <3>3. request[clientNode[i].sock] = "read"
      BY <3>1, <3>2 DEF TablesInv
    <3>. QED
      BY <1>8, <3>3 DEF HandleGetNode
  <2>6. RegistrationIndexed'
    BY <1>8, <2>1, <2>2, <2>4, <2>5
    DEF HandleGetNode, TablesInv, RegistrationIndexed, NoStaleSocket, Registered
  <2>7. NoStaleSocket'
    BY <1>8, <2>1, <2>2 DEF HandleGetNode, TablesInv, NoStaleSocket
  <2>. QED
    BY <1>8, <2>2, <2>3, <2>6, <2>7 DEF HandleGetNode, TablesInv
<1>. QED
  BY <1>1, <1>2, <1>3, <1>5, <1>6, <1>7, <1>8 DEF Next, Network, Thread

(* The client table and the socket table agree: a broken connection always *)
(* leads to what it registered.                                            *)
THEOREM TablesAgree == Spec => []RegistrationIndexed
<1>1. TablesInv => RegistrationIndexed
  BY DEF TablesInv
<1>. QED
  BY <1>1, ConnInvInit, ConnInvNext, TablesInvInit, TablesInvNext, PTL DEF Spec

(* An accepted socket is watched by the epoll until it is closed, and no   *)
(* recorded id survives the closing: a reused socket number inherits none. *)
THEOREM NoClosedSocketKept == Spec => []NoStaleSocket
<1>1. TablesInv => NoStaleSocket
  BY DEF TablesInv
<1>. QED
  BY <1>1, ConnInvInit, ConnInvNext, TablesInvInit, TablesInvNext, PTL DEF Spec

\* No step unregisters anyone but the client of the socket it closes.
LEMMA KeepsRegistrationsStep ==
    ConnInv /\ TablesInv /\ [Next]_vars => [KeepsRegistrations]_vars
<1>. SUFFICES ASSUME ConnInv, TablesInv, Next PROVE KeepsRegistrations
  OBVIOUS
<1>. USE ServerAssumption DEF thread, tables, remote, ConnInv, TypeOK
<1>1. CASE UNCHANGED clientNode
  BY <1>1 DEF KeepsRegistrations
<1>2. ASSUME NEW s \in Socks, HandleError(s) \/ HandleBroken(s)
      PROVE  KeepsRegistrations
  <2>1. status[s] = "BROKEN" /\ DropClient(s)
    BY <1>2 DEF HandleError, HandleBroken
  <2>2. status'[s] = "CLOSED"
    BY <2>1, DropTypes
  <2>3. \A i \in Registered :
           IF i = sockIdPair[s] THEN clientNode'[i] = NoNode /\ owner[s] = i
                                ELSE clientNode'[i] = clientNode[i]
    BY <2>1 DEF Registered, DropClient, delClientNode, TablesInv
  <2>. QED
    BY <2>1, <2>2, <2>3 DEF KeepsRegistrations
<1>3. CASE HandleGetNode
  BY <1>3 DEF HandleGetNode, addClientNode, Registered, KeepsRegistrations
<1>4. \/ UNCHANGED clientNode
      \/ \E s \in Socks : HandleError(s) \/ HandleBroken(s)
      \/ HandleGetNode
  BY DEF Next, Network, Thread, Connect, SendRequest, Break, StartServer, EpollWait,
     EpollFails, ErrorsHandled, ReadsHandled, CheckReadable, Accept, HandleNothing
<1>. QED
  BY <1>1, <1>2, <1>3, <1>4

(* A registration ends only with a broken connection of its own client.    *)
THEOREM RegistrationsKept == Spec => RegistrationKept
  BY ConnInvInit, ConnInvNext, TablesInvInit, TablesInvNext,
     KeepsRegistrationsStep, PTL DEF Spec, RegistrationKept

(* A connection that stands after a step stood before it, when it was      *)
(* registered before it.                                                   *)
LEMMA AliveBefore ==
    ASSUME ConnInv, TablesInv, Next, NEW i \in Registered,
           status'[clientNode[i].sock] = "CONNECTED"
    PROVE  status[clientNode[i].sock] = "CONNECTED"
<1>. DEFINE s == clientNode[i].sock
<1>1. s \in Socks /\ status[s] \in {"CONNECTED", "BROKEN"}
  BY DEF ConnInv, TypeOK, TablesInv, RegistrationIndexed, Registered
<1>. HIDE DEF s
<1>2. status'[s] # "CONNECTED" \/ status[s] = status'[s] \/ status[s] = "QUEUED"
  BY <1>1 DEF Next, Network, Thread, Connect, SendRequest, Break, StartServer,
     EpollWait, EpollFails, ErrorsHandled, ReadsHandled, CheckReadable, Accept,
     HandleNothing, HandleError, HandleBroken, DropClient, HandleGetNode,
     ConnInv, TypeOK, QueuedSocks, tables, remote
<1>. QED
  BY <1>1, <1>2 DEF s

\* Every step keeps the addresses of standing connections real.
LEMMA LiveAddressRealNext ==
    ConnInv /\ TablesInv /\ LiveAddressReal /\ [Next]_vars => LiveAddressReal'
<1>. SUFFICES ASSUME ConnInv, TablesInv, LiveAddressReal, [Next]_vars
              PROVE  LiveAddressReal'
  OBVIOUS
<1>. USE ServerAssumption
<1>1. CASE UNCHANGED vars
  BY <1>1 DEF vars, tables, LiveAddressReal, Alive, Registered
<1>2. CASE Next
  <2>. SUFFICES ASSUME NEW i \in Ids, Alive(i)'
                PROVE  clientNode'[i].addr = clientNode'[i].sock
    BY DEF LiveAddressReal
  <2>1. CASE i \in Registered /\ clientNode'[i] = clientNode[i]
    BY <1>2, <2>1, AliveBefore DEF LiveAddressReal, Alive
  <2>2. CASE ~(i \in Registered /\ clientNode'[i] = clientNode[i])
    <3>1. clientNode'[i] # NoNode
      BY DEF Alive, Registered, NoNode
    <3>2. i \notin Registered
      BY <1>2, <2>2, <3>1, KeepsRegistrationsStep
      DEF KeepsRegistrations, vars, tables
    <3>3. HandleGetNode
      BY <1>2, <3>1, <3>2 DEF Next, Network, Thread, Connect, SendRequest, Break,
         StartServer, EpollWait, EpollFails, ErrorsHandled, ReadsHandled,
         CheckReadable, Accept, HandleNothing, HandleError, HandleBroken,
         DropClient, delClientNode, NoNode, Registered, Alive, ConnInv, TypeOK,
         tables, remote
    <3>4. clientNode'[i] = [sock |-> cur, addr |-> PeerName(cur)]
      BY <3>2, <3>3 DEF HandleGetNode, addClientNode, Registered, Alive,
         ConnInv, TypeOK
    <3>5. status[cur] = "CONNECTED"
      BY <3>3, <3>4 DEF HandleGetNode, Alive
    <3>. QED
      BY <3>4, <3>5 DEF PeerName
  <2>. QED
    BY <2>1, <2>2
<1>. QED
  BY <1>1, <1>2

(* While its connection stands, a client is registered with its address.   *)
THEOREM LiveAddressesReal == Spec => []LiveAddressReal
<1>1. Init => LiveAddressReal
  BY ServerAssumption DEF Init, LiveAddressReal, Alive, Registered, NoNode
<1>. QED
  BY <1>1, ConnInvInit, ConnInvNext, TablesInvInit, TablesInvNext,
     LiveAddressRealNext, PTL DEF Spec

-----------------------------------------------------------------------------
(* The wires.                                                              *)

(* The only step that sends, or reads a request, is the handling of a      *)
(* GET_NODE; any other at most accepts, breaks or closes connections.      *)
LEMMA OtherSteps ==
    ASSUME ConnInv, [Next]_vars
    PROVE  \/ HandleGetNode
           \/ /\ UNCHANGED wire
              /\ \A s \in Socks :
                    /\ request'[s] = "read" <=> request[s] = "read"
                    /\ status[s] \in Accepted => status'[s] \in Accepted
                    /\ status'[s] = "CONNECTED" =>
                          status[s] = "CONNECTED" \/ status[s] \notin Accepted
              /\ \A i \in Ids : clientNode'[i] \in {clientNode[i], NoNode}
<1>. USE DEF ConnInv, TypeOK, Accepted, thread, tables, remote
<1>2. CASE \E s \in Socks, i \in Ids : Connect(s, i)
  BY <1>2 DEF Connect
<1>3. CASE \E s \in Socks : SendRequest(s)
  BY <1>3 DEF SendRequest
<1>4. CASE \E s \in Socks : Break(s)
  BY <1>4 DEF Break
<1>5. CASE \E s \in Socks : HandleError(s) \/ HandleBroken(s)
  BY <1>5, DropTypes DEF HandleError, HandleBroken, DropClient, delClientNode
<1>6. CASE Accept
  BY <1>6 DEF Accept, QueuedSocks
<1>7. CASE \/ StartServer \/ EpollWait \/ EpollFails \/ ErrorsHandled
           \/ ReadsHandled \/ HandleNothing \/ UNCHANGED vars
           \/ \E s \in Socks : CheckReadable(s)
  BY <1>7 DEF StartServer, EpollWait, EpollFails, ErrorsHandled, ReadsHandled,
     HandleNothing, CheckReadable, vars
<1>. QED
  BY <1>2, <1>3, <1>4, <1>5, <1>6, <1>7 DEF Next, Network, Thread

(* What is known where a GET_NODE is handled: the socket registers nobody  *)
(* yet; it gets the answer, the sockets of the clients get the PUNCH.      *)
LEMMA GetNodeContext ==
    ASSUME ConnInv, TablesInv, HandleGetNode
    PROVE  /\ cur \in Socks /\ owner[cur] \in Ids /\ cur \notin ClientSocks
           /\ request[cur] = "arrived" /\ request'[cur] = "read"
           /\ status[cur] \in Accepted
           /\ \A t \in ClientSocks : t \in Socks /\ request[t] = "read"
           /\ \A t \in Socks : t # cur => request'[t] = request[t]
           /\ Answer \in Messages /\ Punch(owner[cur], cur) \in Messages
           /\ UNCHANGED status
<1>1. cur \in Socks /\ owner[cur] \in Ids /\ status[cur] \in Accepted
  BY DEF HandleGetNode, ConnInv, TypeOK, ConnectionsOK
<1>2. ASSUME NEW i \in Registered
      PROVE  clientNode[i].sock \in Socks /\ request[clientNode[i].sock] = "read"
  <2>1. i \in Ids /\ clientNode[i].sock \in Socks
    BY DEF Registered, ConnInv, TypeOK
  <2>2. sockIdPair[clientNode[i].sock] = i
    BY DEF TablesInv, RegistrationIndexed
  <2>. QED
    BY <2>1, <2>2, ServerAssumption DEF TablesInv
<1>3. \A t \in ClientSocks : t \in Socks /\ request[t] = "read"
  BY <1>2 DEF ClientSocks
<1>. QED
  BY <1>1, <1>3, MessageTypes DEF HandleGetNode, ConnInv, TypeOK

\* What the GET_NODE branch sends, and where.
LEMMA GetNodeSends ==
    ASSUME ConnInv, TablesInv, HandleGetNode, NEW t \in Socks
    PROVE  /\ wire[t] \in Seq(Messages)
           /\ status[t] = "CONNECTED" /\ t = cur =>
                  wire'[t] = Append(wire[t], Answer)
           /\ status[t] = "CONNECTED" /\ t \in ClientSocks =>
                  wire'[t] = Append(wire[t], Punch(owner[cur], cur))
           /\ ~(status[t] = "CONNECTED" /\ (t = cur \/ t \in ClientSocks)) =>
                  wire'[t] = wire[t]
<1>. DEFINE p == Punch(owner[cur], cur)
            a == Answer
<1>1. /\ p \in Messages /\ a \in Messages
      /\ cur \notin ClientSocks
      /\ wire[t] \in Seq(Messages)
  BY GetNodeContext DEF ConnInv, TypeOK
<1>2. wire'[t] = IF status[t] = "CONNECTED"
                 THEN wire[t] \o ((IF t \in ClientSocks THEN <<p>> ELSE <<>>)
                                  \o (IF t = cur THEN <<a>> ELSE <<>>))
                 ELSE wire[t]
  BY DEF HandleGetNode, Introduce, Sends
<1>. HIDE DEF p, a
<1>3. /\ <<p>> \o <<>> = <<p>> /\ <<>> \o <<a>> = <<a>>
      /\ wire[t] \o (<<>> \o <<>>) = wire[t]
      /\ wire[t] \o <<p>> = Append(wire[t], p)
      /\ wire[t] \o <<a>> = Append(wire[t], a)
  <2>1. <<p>> \in Seq(Messages) /\ <<a>> \in Seq(Messages)
    BY <1>1
  <2>. QED
    BY <1>1, <2>1, ConcatEmptySeq, AppendIsConcat
<1>4. /\ status[t] = "CONNECTED" /\ t = cur => wire'[t] = Append(wire[t], a)
      /\ status[t] = "CONNECTED" /\ t \in ClientSocks => wire'[t] = Append(wire[t], p)
      /\ ~(status[t] = "CONNECTED" /\ (t = cur \/ t \in ClientSocks)) =>
             wire'[t] = wire[t]
  BY <1>1, <1>2, <1>3
<1>. QED
  BY <1>1, <1>4 DEF p, a

(* Nothing is sent before the answer, and a connected client whose request *)
(* was read has its answer.                                                *)
WiresInv ==
    /\ AnswerFirst
    /\ \A s \in Socks :
          /\ request[s] # "read" => wire[s] = <<>>
          /\ request[s] = "read" => status[s] \in Accepted
          /\ request[s] = "read" /\ status[s] = "CONNECTED" => wire[s] # <<>>

\* Nothing was sent at the start.
LEMMA WiresInvInit == Init => WiresInv
  BY DEF Init, WiresInv, AnswerFirst

\* Every step keeps the answer first.
LEMMA WiresInvNext ==
    ConnInv /\ TablesInv /\ WiresInv /\ [Next]_vars => WiresInv'
<1>. SUFFICES ASSUME ConnInv, TablesInv, WiresInv, [Next]_vars PROVE WiresInv'
  OBVIOUS
<1>1. CASE ~HandleGetNode
  BY <1>1, OtherSteps DEF WiresInv, AnswerFirst
<1>2. CASE HandleGetNode
  <2>1. ASSUME NEW t \in Socks
        PROVE  /\ \A k \in DOMAIN wire'[t] : wire'[t][k].type = "PUNCH" <=> k # 1
               /\ request'[t] # "read" => wire'[t] = <<>>
               /\ request'[t] = "read" => status'[t] \in Accepted
               /\ request'[t] = "read" /\ status'[t] = "CONNECTED" => wire'[t] # <<>>
    <3>1. CASE status[t] = "CONNECTED" /\ t = cur
      <4>. DEFINE a == Answer
      <4>1. wire[t] = <<>>
        BY <1>2, <3>1, GetNodeContext DEF WiresInv
      <4>2. a.type # "PUNCH"
        BY DEF Answer
      <4>3. wire'[t] = Append(wire[t], a)
        BY <1>2, <3>1, GetNodeSends
      <4>. HIDE DEF a
      <4>4. wire'[t] = <<a>>
        BY <4>1, <4>3
      <4>. QED
        BY <1>2, <3>1, <4>2, <4>4, GetNodeContext
    <3>2. CASE status[t] = "CONNECTED" /\ t \in ClientSocks
      <4>. DEFINE p == Punch(owner[cur], cur)
      <4>1. request[t] = "read" /\ wire[t] # <<>> /\ t # cur /\ wire[t] \in Seq(Messages)
        BY <1>2, <3>2, GetNodeContext, GetNodeSends DEF WiresInv
      <4>2. wire'[t] = Append(wire[t], p) /\ p.type = "PUNCH" /\ p \in Messages
        BY <1>2, <3>2, <4>1, GetNodeContext, GetNodeSends DEF Punch
      <4>. HIDE DEF p
      <4>3. \A k \in DOMAIN wire[t] : wire[t][k].type = "PUNCH" <=> k # 1
        BY DEF WiresInv, AnswerFirst
      <4>4. /\ \A k \in DOMAIN wire'[t] : wire'[t][k].type = "PUNCH" <=> k # 1
            /\ wire'[t] # <<>>
        BY <4>1, <4>2, <4>3
      <4>. QED
        BY <1>2, <3>2, <4>1, <4>4, GetNodeContext DEF WiresInv
    <3>3. CASE wire'[t] = wire[t] /\ ~(status[t] = "CONNECTED" /\ t = cur)
      BY <1>2, <3>3, GetNodeContext DEF WiresInv, AnswerFirst
    <3>. QED
      BY <1>2, <3>1, <3>2, <3>3, GetNodeSends
  <2>. QED
    BY <2>1 DEF WiresInv, AnswerFirst
<1>. QED
  BY <1>1, <1>2

(* The answer is the first message of every connection, and only that.     *)
THEOREM AnswersComeFirst == Spec => []AnswerFirst
<1>1. WiresInv => AnswerFirst
  BY DEF WiresInv
<1>. QED
  BY <1>1, ConnInvInit, ConnInvNext, TablesInvInit, TablesInvNext,
     WiresInvInit, WiresInvNext, PTL DEF Spec

-----------------------------------------------------------------------------
(* Mutual introduction.                                                    *)

(* What was told on a wire, before and after one more message.             *)
LEMMA ToldAppend ==
    ASSUME NEW w \in Seq(Messages), NEW m \in Messages
    PROVE  Told(Append(w, m)) = Told(w) \cup m.contacts
<1>. DEFINE v == Append(w, m)
<1>1. /\ DOMAIN w = 1 .. Len(w) /\ DOMAIN v = 1 .. Len(w) + 1 /\ Len(w) \in Nat
      /\ \A k \in DOMAIN w : v[k] = w[k] /\ k \in DOMAIN v
      /\ v[Len(w) + 1] = m
  BY AppendProperties
<1>2. \A k \in DOMAIN v : k \in DOMAIN w \/ k = Len(w) + 1
  BY <1>1
<1>. HIDE DEF v
<1>3. ASSUME NEW c
      PROVE  (\E k \in DOMAIN v : c \in v[k].contacts)
                 <=> (\E k \in DOMAIN w : c \in w[k].contacts) \/ c \in m.contacts
  BY <1>1, <1>2
<1>4. Told(v) = Told(w) \cup m.contacts
  <2>1. ASSUME NEW c
        PROVE  /\ c \in Told(v) <=> \E k \in DOMAIN v : c \in v[k].contacts
               /\ c \in Told(w) <=> \E k \in DOMAIN w : c \in w[k].contacts
    BY DEF Told
  <2>. QED
    BY <1>3, <2>1
<1>. QED
  BY <1>4 DEF v

(* The handling of a GET_NODE takes back nothing that was told; it tells   *)
(* the answer to the new node and the PUNCH to the clients.                *)
LEMMA GetNodeTells ==
    ASSUME ConnInv, TablesInv, HandleGetNode, NEW t \in Socks
    PROVE  /\ Told(wire[t]) \subseteq Told(wire'[t])
           /\ status[t] = "CONNECTED" /\ t = cur => Answer.contacts \subseteq Told(wire'[t])
           /\ status[t] = "CONNECTED" /\ t \in ClientSocks =>
                  Punch(owner[cur], cur).contacts \subseteq Told(wire'[t])
<1>. DEFINE p == Punch(owner[cur], cur)
            a == Answer
<1>1. /\ p \in Messages /\ a \in Messages /\ wire[t] \in Seq(Messages)
      /\ cur \notin ClientSocks
      /\ status[t] = "CONNECTED" /\ t = cur => wire'[t] = Append(wire[t], a)
      /\ status[t] = "CONNECTED" /\ t \in ClientSocks => wire'[t] = Append(wire[t], p)
      /\ ~(status[t] = "CONNECTED" /\ (t = cur \/ t \in ClientSocks)) =>
             wire'[t] = wire[t]
  BY GetNodeContext, GetNodeSends
<1>. HIDE DEF p, a
<1>2. CASE status[t] = "CONNECTED" /\ t = cur
  <2>1. wire'[t] = Append(wire[t], a) /\ t \notin ClientSocks
    BY <1>1, <1>2
  <2>2. Told(wire'[t]) = Told(wire[t]) \cup a.contacts
    BY <1>1, <2>1, ToldAppend DEF Told
  <2>. QED
    BY <2>1, <2>2 DEF a
<1>3. CASE status[t] = "CONNECTED" /\ t \in ClientSocks
  <2>1. wire'[t] = Append(wire[t], p) /\ t # cur
    BY <1>1, <1>3
  <2>2. Told(wire'[t]) = Told(wire[t]) \cup p.contacts
    BY <1>1, <2>1, ToldAppend DEF Told
  <2>. QED
    BY <2>1, <2>2 DEF p
<1>4. CASE ~(status[t] = "CONNECTED" /\ (t = cur \/ t \in ClientSocks))
  BY <1>1, <1>4 DEF Told
<1>. QED
  BY <1>2, <1>3, <1>4

\* Nobody is registered at the start.
LEMMA MutualIntroductionInit == Init => MutualIntroduction
  BY DEF Init, MutualIntroduction, Alive, Registered, NoNode

\* Every step keeps all registered clients introduced.
LEMMA MutualIntroductionNext ==
    ASSUME IsFiniteSet(Ids), Cardinality(Ids) <= BufNodes,
           ConnInv, TablesInv, MutualIntroduction, [Next]_vars
    PROVE  MutualIntroduction'
<1>. SUFFICES ASSUME NEW i \in Ids, NEW j \in Ids, i # j, Alive(i)', Alive(j)'
              PROVE  ContactOf(j)' \in Told(wire'[clientNode'[i].sock])
  BY DEF MutualIntroduction
<1>1. CASE ~HandleGetNode
  <2>1. /\ clientNode'[i] = clientNode[i] /\ clientNode'[j] = clientNode[j]
        /\ i \in Registered /\ j \in Registered
    BY <1>1, OtherSteps DEF Alive, Registered, NoNode
  <2>2. Alive(i) /\ Alive(j)
    BY <1>1, <2>1, OtherSteps
    DEF Alive, Registered, TablesInv, RegistrationIndexed, ConnInv, TypeOK, Accepted
  <2>3. wire' = wire
    BY <1>1, OtherSteps
  <2>4. ContactOf(j) \in Told(wire[clientNode[i].sock])
    BY <2>2 DEF MutualIntroduction
  <2>. QED
    BY <2>1, <2>3, <2>4 DEF ContactOf, Told
<1>2. CASE HandleGetNode
  <2>. DEFINE new == owner[cur]
  <2>1. /\ new \in Ids /\ cur \in Socks /\ status' = status
        /\ \A k \in Ids : k # new \/ k \in Registered => clientNode'[k] = clientNode[k]
        /\ new \notin Registered =>
              clientNode'[new] = [sock |-> cur, addr |-> PeerName(cur)]
    BY <1>2, GetNodeContext DEF HandleGetNode, addClientNode, ConnInv, TypeOK
  <2>. HIDE DEF new
  <2>2. ASSUME NEW k \in Ids, Alive(k)', clientNode'[k] = clientNode[k]
        PROVE  Alive(k) /\ ContactOf(k)' = ContactOf(k) /\ clientNode[k].sock \in ClientSocks
    BY <2>1, <2>2 DEF Alive, Registered, ContactOf, ClientSocks
  <2>3. ASSUME NEW k \in Ids, Alive(k)', clientNode'[k] # clientNode[k]
        PROVE  k = new /\ new \notin Registered
    BY <2>1, <2>3
  <2>4. clientNode'[i].sock \in Socks
    <3>1. i \in Registered'
      BY DEF Alive
    <3>2. clientNode'[i] = clientNode[i] \/ clientNode'[i].sock = cur
      BY <2>1
    <3>. QED
      BY <2>1, <3>1, <3>2 DEF Registered, ConnInv, TypeOK
  <2>5. CASE clientNode'[i] = clientNode[i] /\ clientNode'[j] = clientNode[j]
    <3>1. ContactOf(j) \in Told(wire[clientNode[i].sock])
      BY <2>2, <2>5 DEF MutualIntroduction
    <3>. QED
      BY <1>2, <2>2, <2>4, <2>5, <3>1, GetNodeTells
  <2>6. CASE clientNode'[i] # clientNode[i]
    <3>1. /\ i = new /\ clientNode'[i].sock = cur /\ status[cur] = "CONNECTED"
          /\ clientNode'[j] = clientNode[j]
      BY <2>1, <2>3, <2>6 DEF Alive
    <3>2. Registered \subseteq Ids
      BY DEF Registered
    <3>3. Cardinality(Registered) <= BufNodes
      BY <3>2, FS_Subset, FS_CardinalityType, ServerAssumption
    <3>4. ContactOf(j) \in Answer.contacts
      BY <2>2, <3>1, <3>3 DEF Answer, Alive
    <3>. QED
      BY <1>2, <2>1, <2>2, <3>1, <3>4, GetNodeTells
  <2>7. CASE clientNode'[j] # clientNode[j]
    <3>1. /\ j = new /\ clientNode'[j] = [sock |-> cur, addr |-> PeerName(cur)]
          /\ clientNode'[i] = clientNode[i]
      BY <2>1, <2>3, <2>7
    <3>2. /\ clientNode[i].sock \in ClientSocks
          /\ status[clientNode[i].sock] = "CONNECTED"
      BY <2>2, <3>1 DEF Alive
    <3>3. ContactOf(j)' \in Punch(new, cur).contacts
      BY <3>1 DEF ContactOf, Punch
    <3>. QED
      BY <1>2, <2>4, <3>1, <3>2, <3>3, GetNodeTells DEF new
  <2>. QED
    BY <2>5, <2>6, <2>7
<1>. QED
  BY <1>1, <1>2

(* Of any two registered clients whose connections stand, each has been    *)
(* sent the other's contact: for any number of nodes and connections, as   *)
(* long as the contacts of all nodes fit one answer.                       *)
THEOREM ClientsIntroduced ==
    ASSUME IsFiniteSet(Ids), Cardinality(Ids) <= BufNodes
    PROVE  Spec => []MutualIntroduction
<1>1. ConnInv /\ TablesInv /\ MutualIntroduction /\ [Next]_vars => MutualIntroduction'
  BY MutualIntroductionNext
<1>. QED
  BY <1>1, ConnInvInit, ConnInvNext, TablesInvInit, TablesInvNext,
     MutualIntroductionInit, PTL DEF Spec

-----------------------------------------------------------------------------
(* The server implements Rendezvous.                                       *)

(* Whoever is online is registered on a connection of its own.             *)
LEMMA OnlineFacts ==
    ASSUME ConnInv, TablesInv, NEW i \in Ids
    PROVE  /\ OnlineConn[i] \in Socks \cup {NoSock}
           /\ OnlineConn[i] # NoSock <=> Alive(i)
           /\ Alive(i) => OnlineConn[i] = clientNode[i].sock /\ owner[OnlineConn[i]] = i
  BY ServerAssumption
  DEF OnlineConn, Alive, Registered, TablesInv, RegistrationIndexed, ConnInv, TypeOK

(* A client goes offline when its connection breaks, or when a second one  *)
(* that is recorded for it is dropped; no other client goes with it.       *)
LEMMA OneLeaves ==
    ASSUME ConnInv, TablesInv, [Next]_vars, NEW i \in Ids, Alive(i), ~Alive(i)',
           NEW j \in Ids, j # i, Alive(j)
    PROVE  clientNode'[j] = clientNode[j] /\ Alive(j)'
<1>. DEFINE si == clientNode[i].sock
            sj == clientNode[j].sock
<1>1. /\ i \in Registered /\ si \in Socks /\ status[si] = "CONNECTED"
      /\ j \in Registered /\ sj \in Socks /\ status[sj] = "CONNECTED"
      /\ sockIdPair[si] = i /\ sockIdPair[sj] = j
  BY DEF Alive, Registered, TablesInv, RegistrationIndexed, ConnInv, TypeOK
<1>2. CASE UNCHANGED <<clientNode, status>>
  BY <1>2 DEF Alive, Registered
<1>3. CASE HandleGetNode
  BY <1>1, <1>3 DEF HandleGetNode, addClientNode, Alive, Registered
<1>4. ASSUME NEW s \in Socks, Break(s) PROVE sj # s /\ UNCHANGED clientNode
  BY <1>1, <1>4 DEF Break, Alive, Registered, tables, ConnInv, TypeOK
<1>5. ASSUME NEW s \in Socks, Break(s) PROVE clientNode'[j] = clientNode[j] /\ Alive(j)'
  BY <1>1, <1>4, <1>5 DEF Break, Alive, Registered, ConnInv, TypeOK
<1>6. ASSUME NEW s \in Socks, HandleError(s) \/ HandleBroken(s)
      PROVE  clientNode'[j] = clientNode[j] /\ Alive(j)'
  <2>1. DropClient(s) /\ status[s] = "BROKEN"
    BY <1>6 DEF HandleError, HandleBroken
  <2>2. status'[si] = status[si] /\ status'[sj] = status[sj]
    BY <1>1, <2>1 DEF DropClient, ConnInv, TypeOK
  <2>3. sockIdPair[s] = i
    BY <1>1, <2>1, <2>2 DEF DropClient, delClientNode, Alive, Registered
  <2>. QED
    BY <1>1, <2>1, <2>2, <2>3 DEF DropClient, delClientNode, Alive, Registered
<1>7. CASE (\E s \in Socks, k \in Ids : Connect(s, k)) \/ Accept
  BY <1>1, <1>7 DEF Connect, Accept, QueuedSocks, Alive, Registered, tables,
     ConnInv, TypeOK
<1>. QED
  BY <1>2, <1>3, <1>5, <1>6, <1>7 DEF Next, Network, Thread, SendRequest,
     StartServer, EpollWait, EpollFails, ErrorsHandled, ReadsHandled,
     CheckReadable, HandleNothing, tables, vars

(* A step that handles no GET_NODE sends nothing, and at most one client   *)
(* goes offline in it: the one whose connection breaks.                    *)
LEMMA QuietSteps ==
    ASSUME ConnInv, TablesInv, [Next]_vars, ~HandleGetNode
    PROVE  R!Next \/ UNCHANGED <<OnlineConn, KnownOn>>
<1>. USE ServerAssumption
<1>1. wire' = wire /\ KnownOn' = KnownOn
  BY OtherSteps DEF KnownOn, Told
<1>2. ASSUME NEW i \in Ids PROVE OnlineConn'[i] \in {OnlineConn[i], NoSock}
  <2>1. CASE Alive(i)'
    <3>1. clientNode'[i] = clientNode[i] /\ i \in Registered
      BY <2>1, OtherSteps DEF Alive, Registered, NoNode
    <3>2. Alive(i)
      BY <2>1, <3>1, OtherSteps
      DEF Alive, Registered, TablesInv, RegistrationIndexed, ConnInv, TypeOK, Accepted
    <3>. QED
      BY <2>1, <3>1, <3>2 DEF OnlineConn
  <2>2. CASE ~Alive(i)'
    BY <2>2 DEF OnlineConn
  <2>. QED
    BY <2>1, <2>2
<1>3. CASE \A i \in Ids : OnlineConn'[i] = OnlineConn[i]
  <2>1. OnlineConn' = OnlineConn
    BY <1>3 DEF OnlineConn
  <2>. QED
    BY <1>1, <2>1
<1>4. ASSUME NEW i \in Ids, OnlineConn'[i] # OnlineConn[i] PROVE R!Leave(i)
  <2>1. Alive(i) /\ OnlineConn'[i] = NoSock
    BY <1>2, <1>4, OnlineFacts
  <2>2. ~Alive(i)'
    <3>1. ConnInv' /\ TablesInv'
      BY ConnInvNext, TablesInvNext
    <3>. QED
      BY <2>1, <3>1, ServerAssumption
      DEF OnlineConn, Alive, Registered
  <2>3. ASSUME NEW j \in Ids, j # i PROVE OnlineConn'[j] = OnlineConn[j]
    <3>1. CASE Alive(j)
      BY <2>1, <2>2, <2>3, <3>1, OneLeaves DEF OnlineConn
    <3>2. CASE ~Alive(j)
      BY <1>2, <3>2, OnlineFacts
    <3>. QED
      BY <3>1, <3>2
  <2>4. OnlineConn' = [OnlineConn EXCEPT ![i] = NoSock]
    BY <2>1, <2>3 DEF OnlineConn
  <2>. QED
    BY <1>1, <2>1, <2>4, OnlineFacts DEF R!Leave, R!Online
<1>. QED
  BY <1>3, <1>4 DEF R!Next

(* The handling of a GET_NODE is a join when it registers a client whose   *)
(* connection stands; otherwise contacts are sent and nobody comes online. *)
LEMMA GetNodeStep ==
    ASSUME IsFiniteSet(Ids), Cardinality(Ids) <= BufNodes,
           ConnInv, TablesInv, LiveAddressReal, HandleGetNode
    PROVE  R!Next
<1>. DEFINE new == owner[cur]
<1>1. /\ new \in Ids /\ cur \in Socks /\ status' = status
      /\ \A k \in Ids : k # new \/ k \in Registered => clientNode'[k] = clientNode[k]
      /\ new \notin Registered =>
            clientNode'[new] = [sock |-> cur, addr |-> PeerName(cur)]
  BY GetNodeContext DEF HandleGetNode, addClientNode, ConnInv, TypeOK
<1>. HIDE DEF new
<1>2. R!Learn
  BY GetNodeTells DEF R!Learn, KnownOn
<1>3. \A k \in Ids : k # new \/ k \in Registered => OnlineConn'[k] = OnlineConn[k]
  BY <1>1 DEF OnlineConn, Alive, Registered
<1>4. CASE new \notin Registered /\ status[cur] = "CONNECTED"
  <2>1. OnlineConn'[new] = cur /\ new \notin R!Online
    BY <1>1, <1>4, ServerAssumption DEF OnlineConn, Alive, Registered, R!Online
  <2>2. OnlineConn' = [OnlineConn EXCEPT ![new] = cur]
    BY <1>1, <1>3, <2>1 DEF OnlineConn
  <2>3. ASSUME NEW j \in R!Online
        PROVE  /\ R!Contact(new, cur) \in KnownOn'[OnlineConn[j]]
               /\ R!Contact(j, OnlineConn[j]) \in KnownOn'[cur]
    <3>1. /\ j \in Ids /\ Alive(j) /\ OnlineConn[j] = clientNode[j].sock
          /\ OnlineConn[j] \in Socks
      BY OnlineFacts DEF R!Online
    <3>2. /\ OnlineConn[j] \in ClientSocks /\ status[OnlineConn[j]] = "CONNECTED"
          /\ j \in Registered /\ clientNode[j].addr = clientNode[j].sock
      BY <3>1 DEF ClientSocks, Alive, LiveAddressReal
    <3>3. R!Contact(new, cur) \in Punch(new, cur).contacts
      BY <1>4 DEF R!Contact, Punch, PeerName
    <3>4. R!Contact(new, cur) \in KnownOn'[OnlineConn[j]]
      BY <3>1, <3>2, <3>3, GetNodeTells DEF new, KnownOn
    <3>5. Cardinality(Registered) <= BufNodes
      <4>1. Registered \subseteq Ids
        BY DEF Registered
      <4>. QED
        BY <4>1, FS_Subset, FS_CardinalityType, ServerAssumption
    <3>6. R!Contact(j, OnlineConn[j]) = ContactOf(j)
      BY <3>1, <3>2 DEF R!Contact, ContactOf
    <3>7. ContactOf(j) \in Answer.contacts
      BY <3>2, <3>5 DEF Answer
    <3>8. R!Contact(j, OnlineConn[j]) \in KnownOn'[cur]
      BY <1>1, <1>4, <3>6, <3>7, GetNodeTells DEF KnownOn
    <3>. QED
      BY <3>4, <3>8
  <2>. QED
    BY <1>1, <1>2, <2>1, <2>2, <2>3 DEF R!Join, R!Next
<1>5. CASE new \in Registered \/ status[cur] # "CONNECTED"
  <2>1. new \in Registered \/ OnlineConn'[new] = OnlineConn[new]
    BY <1>1, <1>5 DEF OnlineConn, Alive, Registered
  <2>2. OnlineConn' = OnlineConn
    BY <1>3, <2>1 DEF OnlineConn
  <2>. QED
    BY <1>2, <2>2 DEF R!Refer, R!Next
<1>. QED
  BY <1>4, <1>5

(* The server implements Rendezvous, whose invariant is the introduction   *)
(* of everyone online, for any number of nodes and connections, as long as *)
(* the contacts of all nodes fit one answer.                               *)
THEOREM ServerIsRendezvous ==
    ASSUME IsFiniteSet(Ids), Cardinality(Ids) <= BufNodes
    PROVE  Spec => ImplementsRendezvous
<1>1. Init => R!Init
  BY DEF Init, R!Init, OnlineConn, KnownOn, Alive, Registered, NoNode, Told
<1>2. ConnInv /\ TablesInv /\ LiveAddressReal /\ [Next]_vars => [R!Next]_(R!vars)
  BY QuietSteps, GetNodeStep DEF R!vars
<1>3. Init => LiveAddressReal
  BY ServerAssumption DEF Init, LiveAddressReal, Alive, Registered, NoNode
<1>. QED
  BY <1>1, <1>2, <1>3, ConnInvInit, ConnInvNext, TablesInvInit, TablesInvNext,
     LiveAddressRealNext, PTL DEF Spec, ImplementsRendezvous, R!Spec

-----------------------------------------------------------------------------
(* What Rendezvous promises follows from its steps: Introduced holds of    *)
(* whatever implements it, and so of the server.                           *)

\* A node is online with a connection.
RendezvousOK == OnlineConn \in [Ids -> Socks \cup {NoSock}]

\* Steps of Rendezvous keep its types.
LEMMA RendezvousOKNext ==
    ASSUME RendezvousOK, [R!Next]_(R!vars) PROVE RendezvousOK'
  BY DEF RendezvousOK, R!Next, R!vars, R!Leave, R!Join, R!Refer

\* A node that joins is introduced in both directions; nobody forgets.
LEMMA IntroducedNext ==
    ASSUME RendezvousOK, R!Introduced, [R!Next]_(R!vars)
    PROVE  R!Introduced'
<1>. SUFFICES ASSUME NEW i \in (R!Online)', NEW j \in (R!Online)', i # j
              PROVE  R!Contact(j, OnlineConn'[j]) \in KnownOn'[OnlineConn'[i]]
  BY DEF R!Introduced, R!Contact
<1>1. i \in Ids /\ j \in Ids
  BY DEF R!Online
<1>2. CASE UNCHANGED R!vars
  BY <1>2 DEF R!vars, R!Introduced, R!Online, R!Contact
<1>3. ASSUME NEW k \in Ids, R!Leave(k)
      PROVE  R!Contact(j, OnlineConn'[j]) \in KnownOn'[OnlineConn'[i]]
  BY <1>1, <1>3 DEF R!Leave, R!Introduced, R!Online, RendezvousOK, R!Contact
<1>4. CASE R!Refer
  BY <1>1, <1>4 DEF R!Refer, R!Learn, R!Introduced, R!Online, RendezvousOK, R!Contact
<1>5. ASSUME NEW k \in Ids, NEW c \in Socks, R!Join(k, c)
      PROVE  R!Contact(j, OnlineConn'[j]) \in KnownOn'[OnlineConn'[i]]
  <2>1. \A l \in Ids : OnlineConn'[l] = IF l = k THEN c ELSE OnlineConn[l]
    BY <1>5 DEF R!Join, RendezvousOK
  <2>2. CASE i # k /\ j # k
    BY <1>1, <1>5, <2>1, <2>2
       DEF R!Join, R!Learn, R!Introduced, R!Online, RendezvousOK, R!Contact
  <2>3. CASE i = k \/ j = k
    BY <1>1, <1>5, <2>1, <2>3 DEF R!Join, R!Online, R!Contact
  <2>. QED
    BY <2>2, <2>3
<1>. QED
  BY <1>2, <1>3, <1>4, <1>5 DEF R!Next

(* Whatever takes only the steps of Rendezvous keeps everyone online       *)
(* introduced to everyone else online.                                     *)
THEOREM AllIntroduced == R!Spec => []R!Introduced
<1>1. R!Init => RendezvousOK /\ R!Introduced
  BY DEF R!Init, RendezvousOK, R!Introduced, R!Online
<1>2. RendezvousOK /\ R!Introduced /\ [R!Next]_(R!vars) => RendezvousOK' /\ R!Introduced'
  BY RendezvousOKNext, IntroducedNext
<1>. QED
  BY <1>1, <1>2, PTL DEF R!Spec
=============================================================================
