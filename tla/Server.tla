------------------------------- MODULE Server -------------------------------
(***************************************************************************)
(* The server thread of NetEngine (startServer, handleMsg): it accepts     *)
(* clients, keeps them in clientNode, and introduces them to each other.   *)
(*                                                                         *)
(* A GET_NODE makes the server send a PUNCH with the new node's contact to *)
(* every client it knows, register the new node, and answer with the       *)
(* contacts it knew before.  Every connection has its own remote address,  *)
(* so an address is named by the socket that has it.                       *)
(***************************************************************************)
EXTENDS Naturals, Sequences, FiniteSets

CONSTANTS
    Ids,          \* node ids of the clients
    Socks,        \* UDT sockets the server may accept
    NoId, NoSock, \* absence, in sockIdPair and in clientNode
    Srv,          \* the listening socket
    Garbage,      \* the address left in clientInfo when getpeername fails
    BufNodes,     \* contacts that fit the 6 KiB answer buffer
    EpollMayFail  \* may epoll_wait return an error?

ASSUME ServerAssumption ==
    /\ NoId \notin Ids
    /\ NoSock \notin Socks /\ Srv \notin Socks /\ Garbage \notin Socks
    /\ BufNodes \in Nat
    /\ EpollMayFail \in BOOLEAN

VARIABLES
    pc,         \* where the server thread is
    readfds, errfds,  \* the sets the last epoll_wait filled, less those handled
    cur,        \* the socket whose message is about to be handled
    watched,    \* sockets added to the epoll (srv always is)
    clientNode, \* the registered clients
    sockIdPair, \* the client id recorded for a socket
    status,     \* UDT's state of each socket
    owner,      \* whose connection a socket is
    request,    \* the GET_NODE of a connection: not sent, arrived, read
    wire        \* what was sent on each socket, in order

thread == <<pc, readfds, errfds, cur>>
tables == <<clientNode, sockIdPair>>
remote == <<owner, request>>
vars   == <<thread, watched, tables, status, remote, wire>>

Addrs    == Socks \cup {Garbage}
Contacts == [id : Ids, addr : Addrs]
Messages == [type : {"REP", "PUNCH", "GARBLED"}, contacts : SUBSET Contacts]
NoNode   == [sock |-> NoSock, addr |-> Garbage]

Registered  == {i \in Ids : clientNode[i].sock # NoSock}
ClientSocks == {clientNode[i].sock : i \in Registered}
ContactOf(i) == [id |-> i, addr |-> clientNode[i].addr]

Init == /\ pc = "start"
        /\ readfds = {} /\ errfds = {} /\ cur = NoSock
        /\ watched = {}
        /\ clientNode = [i \in Ids |-> NoNode]
        /\ sockIdPair = [s \in Socks |-> NoId]
        /\ status = [s \in Socks |-> "UNUSED"]
        /\ owner = [s \in Socks |-> NoId]
        /\ request = [s \in Socks |-> "none"]
        /\ wire = [s \in Socks |-> <<>>]

-----------------------------------------------------------------------------
(* The clients and the network.                                            *)

\* A client's connection reaches the listening socket.  One node may have
\* several: it connects again when it lost a connection the server still has.
Connect(s, i) ==
    /\ pc # "start" /\ status[s] = "UNUSED"
    /\ status' = [status EXCEPT ![s] = "QUEUED"]
    /\ owner' = [owner EXCEPT ![s] = i]
    /\ UNCHANGED <<thread, watched, tables, request, wire>>

\* A connected client sends its GET_NODE, once.
SendRequest(s) ==
    /\ status[s] \in {"QUEUED", "CONNECTED"} /\ request[s] = "none"
    /\ request' = [request EXCEPT ![s] = "arrived"]
    /\ UNCHANGED <<thread, watched, tables, status, owner, wire>>

\* A connection is lost: before it is accepted it leaves the queue.
Break(s) ==
    /\ status[s] \in {"QUEUED", "CONNECTED"}
    /\ status' = [status EXCEPT ![s] =
                     IF @ = "QUEUED" THEN "CLOSED" ELSE "BROKEN"]
    /\ UNCHANGED <<thread, watched, tables, remote, wire>>

Network == \E s \in Socks : \/ \E i \in Ids : Connect(s, i)
                            \/ SendRequest(s)
                            \/ Break(s)

-----------------------------------------------------------------------------
(* The server thread.                                                      *)

\* startServer: bind and listen, or return.
StartServer ==
    /\ pc = "start"
    /\ pc' \in {"wait", "exited"}
    /\ UNCHANGED <<readfds, errfds, cur, watched, tables, status, remote, wire>>

\* Mutants of BrokenSocks: sockets added without UDT_EPOLL_ERR; the listening
\* socket reported among the broken ones.
BrokenSocks_NoErr == {}
BrokenSocks_Srv == {s \in watched : status[s] = "BROKEN"} \cup {Srv}

BrokenSocks == {s \in watched : status[s] = "BROKEN"}
ReadableSocks == {s \in watched : request[s] = "arrived"}
QueuedSocks   == {s \in Socks : status[s] = "QUEUED"}
Listening     == IF QueuedSocks = {} THEN {} ELSE {Srv}

\* epoll_wait returns what is ready; the library may report a broken socket
\* as readable too.  A timeout changes nothing.
EpollWait ==
    /\ pc = "wait"
    /\ BrokenSocks \cup ReadableSocks \cup Listening # {}
    /\ pc' = "err"
    /\ errfds' = BrokenSocks
    /\ \E also \in {{}, BrokenSocks} :
          readfds' = ReadableSocks \cup Listening \cup also
    /\ UNCHANGED <<cur, watched, tables, status, remote, wire>>

\* epoll_wait returns an error: the thread returns, nobody restarts it.
EpollFails ==
    /\ pc = "wait" /\ EpollMayFail
    /\ pc' = "exited"
    /\ UNCHANGED <<readfds, errfds, cur, watched, tables, status, remote, wire>>

\* Mutants of delClientNode: all clients go, the recorded pair is left.
delClientNode_All(s) ==
    /\ clientNode' = [i \in Ids |-> NoNode]
    /\ sockIdPair' = [sockIdPair EXCEPT ![s] = NoId]
delClientNode_KeepPair(s) ==
    /\ clientNode' = [i \in Ids |->
                         IF i = sockIdPair[s] THEN NoNode ELSE clientNode[i]]
    /\ sockIdPair' = sockIdPair

\* delClientNode(sock): the client the socket is recorded for goes, if any.
delClientNode(s) ==
    /\ clientNode' = [i \in Ids |->
                         IF i = sockIdPair[s] THEN NoNode ELSE clientNode[i]]
    /\ sockIdPair' = [sockIdPair EXCEPT ![s] = NoId]

\* A socket found broken: off the epoll, closed, its client forgotten.
DropClient(s) ==
    /\ watched' = watched \ {s}
    /\ status' = [status EXCEPT ![s] = "CLOSED"]
    /\ delClientNode(s)

\* One turn of the loop over errfds.  Its sockets are broken for good, so the
\* test of their state never fails here.
HandleError(s) ==
    /\ pc = "err" /\ s \in errfds /\ status[s] = "BROKEN"
    /\ errfds' = errfds \ {s}
    /\ DropClient(s)
    /\ UNCHANGED <<pc, readfds, cur, remote, wire>>

ErrorsHandled ==
    /\ pc = "err" /\ errfds = {}
    /\ pc' = "read"
    /\ UNCHANGED <<readfds, errfds, cur, watched, tables, status, remote, wire>>

\* Mutant of Accept: the accepted socket is not added to the epoll.
Accept_NotWatched ==
    /\ pc = "read" /\ Srv \in readfds
    /\ readfds' = readfds \ {Srv}
    /\ \/ \E s \in QueuedSocks : status' = [status EXCEPT ![s] = "CONNECTED"]
       \/ QueuedSocks = {} /\ UNCHANGED status
    /\ UNCHANGED <<pc, errfds, cur, watched, tables, remote, wire>>

\* The listening socket is readable: accept one connection, if it still waits.
Accept ==
    /\ pc = "read" /\ Srv \in readfds
    /\ readfds' = readfds \ {Srv}
    /\ \/ \E s \in QueuedSocks : /\ status' = [status EXCEPT ![s] = "CONNECTED"]
                                 /\ watched' = watched \cup {s}
       \/ QueuedSocks = {} /\ UNCHANGED <<status, watched>>
    /\ UNCHANGED <<pc, errfds, cur, tables, remote, wire>>

\* A readable client is found broken.
HandleBroken(s) ==
    /\ pc = "read" /\ s \in readfds \cap Socks
    /\ status[s] = "BROKEN"
    /\ readfds' = readfds \ {s}
    /\ DropClient(s)
    /\ UNCHANGED <<pc, errfds, cur, remote, wire>>

\* It is not: its message is handled.  (A socket closed in the errfds loop has
\* no state to read; the state stays 0 and recv will fail.)
CheckReadable(s) ==
    /\ pc = "read" /\ s \in readfds \cap Socks
    /\ status[s] # "BROKEN"
    /\ readfds' = readfds \ {s}
    /\ pc' = "handle" /\ cur' = s
    /\ UNCHANGED <<errfds, watched, tables, status, remote, wire>>

\* getpeername of the socket, which may have broken since it was checked.
PeerName(s) == IF status[s] = "CONNECTED" THEN s ELSE Garbage

Punch(i, s) == [type |-> "PUNCH", contacts |-> {[id |-> i, addr |-> PeerName(s)]}]

\* The answer, packed into a buffer that may be too small for it.
Answer == IF Cardinality(Registered) <= BufNodes
          THEN [type |-> "REP", contacts |-> {ContactOf(i) : i \in Registered}]
          ELSE [type |-> "GARBLED", contacts |-> {}]

\* Mutants of addClientNode: the socket is not recorded; the entry the id has
\* gets the new socket but keeps its address.
addClientNode_NoPair(i, s) ==
    /\ clientNode' = [clientNode EXCEPT ![i] =
                         IF i \in Registered THEN @
                         ELSE [sock |-> s, addr |-> PeerName(s)]]
    /\ sockIdPair' = sockIdPair

addClientNode_SockOnly(i, s) ==
    /\ clientNode' = [clientNode EXCEPT ![i] =
                         IF i \in Registered THEN [@ EXCEPT !.sock = s]
                         ELSE [sock |-> s, addr |-> PeerName(s)]]
    /\ sockIdPair' = [sockIdPair EXCEPT ![s] = i]

\* addClientNode: map::insert keeps the entry the id already has, while the
\* socket is recorded in any case.
addClientNode(i, s) ==
    /\ clientNode' = [clientNode EXCEPT ![i] =
                         IF i \in Registered THEN @
                         ELSE [sock |-> s, addr |-> PeerName(s)]]
    /\ sockIdPair' = [sockIdPair EXCEPT ![s] = i]

\* Mutants of Sends: only the new node is told; the new node is already on the
\* list when the list is walked.
Sends_AnswerOnly(i, s, t) == IF t = s THEN <<Answer>> ELSE <<>>
Sends_Registered(i, s, t) ==
    (IF t \in ClientSocks \cup {s} THEN <<Punch(i, s)>> ELSE <<>>)
        \o (IF t = s THEN <<Answer>> ELSE <<>>)

\* What the handling of the GET_NODE of node i on s sends on t: a PUNCH to
\* every registered client, then the answer.
Sends(i, s, t) ==
    (IF t \in ClientSocks THEN <<Punch(i, s)>> ELSE <<>>)
        \o (IF t = s THEN <<Answer>> ELSE <<>>)

\* A send on a socket that is no longer connected fails unnoticed.
Introduce(i, s) ==
    wire' = [t \in Socks |-> IF status[t] = "CONNECTED"
                             THEN wire[t] \o Sends(i, s, t) ELSE wire[t]]

\* handleMsg finds a GET_NODE.
HandleGetNode ==
    /\ pc = "handle"
    /\ status[cur] # "CLOSED" /\ request[cur] = "arrived"
    /\ request' = [request EXCEPT ![cur] = "read"]
    /\ Introduce(owner[cur], cur)
    /\ addClientNode(owner[cur], cur)
    /\ pc' = "read" /\ cur' = NoSock
    /\ UNCHANGED <<readfds, errfds, watched, status, owner>>

\* handleMsg finds nothing: recv fails and it returns.
HandleNothing ==
    /\ pc = "handle"
    /\ status[cur] = "CLOSED" \/ request[cur] # "arrived"
    /\ pc' = "read" /\ cur' = NoSock
    /\ UNCHANGED <<readfds, errfds, watched, tables, status, remote, wire>>

ReadsHandled ==
    /\ pc = "read" /\ readfds = {}
    /\ pc' = "wait"
    /\ UNCHANGED <<readfds, errfds, cur, watched, tables, status, remote, wire>>

Thread == \/ StartServer \/ EpollWait \/ EpollFails
          \/ ErrorsHandled \/ ReadsHandled
          \/ \E s \in Socks : HandleError(s) \/ HandleBroken(s) \/ CheckReadable(s)
          \/ Accept
          \/ HandleGetNode \/ HandleNothing

Next == Network \/ Thread

Spec == Init /\ [][Next]_vars

-----------------------------------------------------------------------------
(* Properties.                                                             *)

TypeOK ==
    /\ pc \in {"start", "wait", "err", "read", "handle", "exited"}
    /\ readfds \subseteq Socks \cup {Srv} /\ errfds \subseteq Socks
    /\ cur \in Socks \cup {NoSock} /\ (pc = "handle" => cur \in Socks)
    /\ watched \subseteq Socks
    /\ clientNode \in [Ids -> [sock : Socks \cup {NoSock}, addr : Addrs]]
    /\ sockIdPair \in [Socks -> Ids \cup {NoId}]
    /\ status \in [Socks -> {"UNUSED", "QUEUED", "CONNECTED", "BROKEN", "CLOSED"}]
    /\ owner \in [Socks -> Ids \cup {NoId}]
    /\ request \in [Socks -> {"none", "arrived", "read"}]
    /\ wire \in [Socks -> Seq(Messages)]

Told(w) == UNION {w[k].contacts : k \in DOMAIN w}     \* by a wire
Alive(i) == i \in Registered /\ status[clientNode[i].sock] = "CONNECTED"

\* The server's purpose: of any two registered clients whose connections
\* stand, each has been sent the other's contact, in a PUNCH or in its answer,
\* whatever the order they came in and whatever was lost and came back between.
MutualIntroduction ==
    \A i, j \in Ids : i # j /\ Alive(i) /\ Alive(j) =>
        ContactOf(j) \in Told(wire[clientNode[i].sock])

\* The two tables agree: the socket of a registered client is one that client
\* opened, is not closed, and leads back to the client, so that a broken
\* connection can always be traced to what it registered.
RegistrationIndexed ==
    \A i \in Registered :
        LET s == clientNode[i].sock
        IN  /\ sockIdPair[s] = i /\ owner[s] = i
            /\ status[s] \in {"CONNECTED", "BROKEN"}
            /\ s \in watched

\* A registered client whose connection stands is registered with the address
\* of that connection: what getpeername left uninitialized is only ever kept
\* for a client that is lost already.
LiveAddressReal ==
    \A i \in Ids : Alive(i) => clientNode[i].addr = clientNode[i].sock

\* No socket outlives its use: one that was accepted is watched until it is
\* closed, and a recorded id never survives the closing of its socket (a
\* socket number that UDT uses again would inherit it).
NoStaleSocket ==
    \A s \in Socks :
        /\ status[s] \in {"CONNECTED", "BROKEN"} <=> s \in watched
        /\ sockIdPair[s] # NoId => s \in watched

\* On every connection the answer is the first message and the only answer:
\* what follows it are notifications.  A client that is notified of others has
\* been told of those before it.
AnswerFirst ==
    \A s \in Socks : \A k \in DOMAIN wire[s] :
        wire[s][k].type = "PUNCH" <=> k # 1

KeepsRegistrations ==
    \A i \in Registered :
        clientNode'[i] = clientNode[i]
        \/ /\ clientNode'[i] = NoNode
           /\ \E s \in Socks : /\ owner[s] = i
                               /\ status[s] = "BROKEN" /\ status'[s] = "CLOSED"

\* A step unregisters a client only by closing a broken connection of that
\* very client, and never changes what a registered client is registered with.
RegistrationKept == [][KeepsRegistrations]_vars

\* A connection that broke is eventually closed, unless the thread ends.
BrokenDropped ==
    \A s \in Socks : s \in watched /\ status[s] = "BROKEN"
                         ~> status[s] = "CLOSED" \/ pc = "exited"

\* Seen from outside, a client is online while it is registered and its
\* connection stands; a connection knows what was sent on it.
OnlineConn == [i \in Ids |-> IF Alive(i) THEN clientNode[i].sock ELSE NoSock]
KnownOn    == [s \in Socks |-> Told(wire[s])]

R == INSTANCE Rendezvous WITH Conns <- Socks, NoConn <- NoSock,
                              online <- OnlineConn, knows <- KnownOn

\* The server does what Rendezvous promises: every step of the thread or the
\* network is a join, a leave, a referral or nothing, and no order of requests,
\* losses and stale entries brings a client online that was not introduced.
ImplementsRendezvous == R!Spec

\* netengine.h says clientNode records the client nodes connected to this one:
\* a connected client whose GET_NODE was handled should be registered.
ConnectedRegistered ==
    \A s \in Socks : status[s] = "CONNECTED" /\ request[s] = "read" =>
                         owner[s] \in Registered
=============================================================================
