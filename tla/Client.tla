------------------------------- MODULE Client -------------------------------
(***************************************************************************)
(* The boot thread of NetEngine (startClient): it keeps the connection to  *)
(* the server, asks it for nodes, punches a hole towards every node it is  *)
(* told of, and keeps those nodes in peerNode.                             *)
(*                                                                         *)
(* The thread is one loop around epoll_wait: failed sockets first, then    *)
(* writable ones (a connect that succeeded), then readable ones.  All      *)
(* three loops read the state of a socket into one variable, which keeps   *)
(* its last value when getsockopt fails.                                   *)
(***************************************************************************)
EXTENDS EbcMsg, FiniteSets

CONSTANTS
    Ids,            \* ids of the nodes the server may tell of
    ZeroId,         \* the id of twenty zero bytes
    Socks,          \* UDT sockets startPunch may get
    Boot,           \* boot_sock
    NoId, NoSock,   \* absence, in sockIdPair and peerNode
    Garbage,        \* what an uninitialized sock field holds
    MaxMsgs,        \* bound: messages of the server on one connection
    MaxReconnects   \* bound: connects after the first that do not fail at once

ASSUME ClientAssumption ==
    /\ ZeroId \notin Ids /\ NoId \notin Ids /\ NoId # ZeroId
    /\ Boot \notin Socks /\ NoSock \notin Socks /\ Garbage \notin Socks
    /\ NoSock # Garbage
    /\ MaxMsgs \in Nat /\ MaxReconnects \in Nat

VARIABLES
    pc,          \* where the boot thread is
    errfds, writefds, readfds,  \* the sets of the last epoll_wait, less those handled
    state,       \* the UDT_STATE read last
    watch,       \* the events each socket is in the epoll for
    peerNode,    \* the known peers
    sockIdPair,  \* the peer id recorded for a socket
    status,      \* UDT's state of each socket
    wire,        \* messages of the server in flight
    sent,        \* how many messages the server sent on this connection
    asked,       \* GET_NODEs sent on this connection
    hello,       \* peer sockets with unread data
    reconnects   \* connects of boot_sock after the first

fds    == <<errfds, writefds, readfds>>
tables == <<peerNode, sockIdPair>>
server == <<wire, sent, asked>>
vars   == <<pc, fds, state, watch, tables, status, server, hello, reconnects>>

All     == Socks \cup {Boot}
PeerIds == Ids \cup {ZeroId}
NoPeer  == [sock |-> NoSock, state |-> "DISCONNECTED"]
Peers   == {i \in PeerIds : peerNode[i].sock # NoSock}    \* the keys of peerNode

\* FAILED: the connect gave up; UDT reports the error, the state still reads
\* CONNECTING.
Statuses == {"UNUSED", "CONNECTING", "FAILED", "CONNECTED", "BROKEN", "CLOSED"}
Events   == {"IN", "OUT", "ERR"}

Init == /\ pc = "start"
        /\ errfds = {} /\ writefds = {} /\ readfds = {}
        /\ state = "INIT"
        /\ watch = [s \in All |-> {}]
        /\ peerNode = [i \in PeerIds |-> NoPeer]
        /\ sockIdPair = [s \in Socks |-> NoId]
        /\ status = [s \in All |-> "UNUSED"]
        /\ wire = <<>> /\ sent = 0 /\ asked = 0
        /\ hello = {}
        /\ reconnects = 0

-----------------------------------------------------------------------------
(* The network, the server and the peers.                                  *)

\* A connect succeeds or gives up; a connection breaks.
Progress(s) ==
    /\ \/ status[s] = "CONNECTING"
          /\ \E st \in {"CONNECTED", "FAILED"} : status' = [status EXCEPT ![s] = st]
       \/ status[s] = "CONNECTED" /\ status' = [status EXCEPT ![s] = "BROKEN"]
    /\ UNCHANGED <<pc, fds, state, watch, tables, server, hello, reconnects>>

\* The server answers the GET_NODE, then notifies of nodes that come online.
ServerSends ==
    /\ status[Boot] = "CONNECTED" /\ asked > 0 /\ sent < MaxMsgs
    /\ sent' = sent + 1
    /\ \E m \in IF sent = 0
                THEN {packNodes("V", "srv", "REP", "NODE", SetToSeq(S)) : S \in SUBSET Ids}
                ELSE {packNodes("V", "srv", "PUNCH", "EMPTY_SUB", <<i>>) : i \in Ids} :
          wire' = Append(wire, m)
    /\ UNCHANGED <<pc, fds, state, watch, tables, status, asked, hello, reconnects>>

\* The sendHello thread of a peer sends a text.
PeerSends(s) ==
    /\ status[s] = "CONNECTED" /\ s \notin hello
    /\ hello' = hello \cup {s}
    /\ UNCHANGED <<pc, fds, state, watch, tables, status, server, reconnects>>

Network == ServerSends \/ (\E s \in All : Progress(s)) \/ (\E s \in Socks : PeerSends(s))

-----------------------------------------------------------------------------
(* The boot thread.                                                        *)

\* startClient and the first connect, asynchronous: on success the socket is
\* watched for the outcome, otherwise the thread is never started or returns.
StartClient ==
    /\ pc = "start"
    /\ \/ /\ pc' = "wait"
          /\ status' = [status EXCEPT ![Boot] = "CONNECTING"]
          /\ watch' = [watch EXCEPT ![Boot] = {"OUT", "ERR"}]
       \/ pc' = "exited" /\ UNCHANGED <<status, watch>>
    /\ UNCHANGED <<fds, state, tables, server, hello, reconnects>>

Watched(event) == {s \in All : event \in watch[s]}
HasData        == hello \cup (IF wire = <<>> THEN {} ELSE {Boot})

\* Mutant of Failing: only broken connections raise UDT_EPOLL_ERR.
Failing_BrokenOnly == {s \in Watched("ERR") : status[s] = "BROKEN"}

Failing   == {s \in Watched("ERR") : status[s] \in {"BROKEN", "FAILED"}}
Writable  == {s \in Watched("OUT") : status[s] = "CONNECTED"}
Readable  == Watched("IN") \cap HasData

\* epoll_wait returns what is ready; the library may report failed sockets as
\* writable and readable too.  An error or a timeout empties all three sets.
EpollWait ==
    /\ pc = "wait"
    /\ Failing \cup Writable \cup Readable # {}
    /\ pc' = "err"
    /\ errfds' = Failing
    /\ \E also \in {{}, Failing} : /\ writefds' = Writable \cup also
                                   /\ readfds' = Readable \cup also
    /\ UNCHANGED <<state, watch, tables, status, server, hello, reconnects>>

\* Mutant of LoopDone: a break for a continue leaves a loop early.
LoopDone_Break ==
    /\ \/ pc = "err"   /\ pc' = "write"
       \/ pc = "write" /\ pc' = "read"
       \/ pc = "read"  /\ pc' = "wait"
    /\ UNCHANGED <<fds, state, watch, tables, status, server, hello, reconnects>>

\* The thread goes from one loop to the next when the set is done.
LoopDone ==
    /\ \/ pc = "err"   /\ errfds = {}   /\ pc' = "write"
       \/ pc = "write" /\ writefds = {} /\ pc' = "read"
       \/ pc = "read"  /\ readfds = {}  /\ pc' = "wait"
    /\ UNCHANGED <<fds, state, watch, tables, status, server, hello, reconnects>>

\* getsockopt(UDT_STATE): fails on a closed socket and leaves state alone.
StateOf(s) == IF status[s] = "CLOSED" THEN state
              ELSE IF status[s] = "FAILED" THEN "CONNECTING" ELSE status[s]

\* Mutants of delPeerNode: the peer stays, only its pair goes; every peer goes.
delPeerNode_KeepPeer(s) ==
    /\ peerNode' = peerNode
    /\ sockIdPair' = [sockIdPair EXCEPT ![s] = NoId]
delPeerNode_All(s) ==
    /\ peerNode' = [i \in PeerIds |-> NoPeer]
    /\ sockIdPair' = [sockIdPair EXCEPT ![s] = NoId]

\* delPeerNode(sock): the peer the socket is recorded for goes, if any.
delPeerNode(s) ==
    /\ peerNode' = [i \in PeerIds |-> IF i = sockIdPair[s] THEN NoPeer ELSE peerNode[i]]
    /\ sockIdPair' = [sockIdPair EXCEPT ![s] = NoId]

\* Mutant of ClosePeer: the socket is taken off the epoll and forgotten, but
\* not closed.
ClosePeer_NoClose(s) ==
    /\ watch' = [watch EXCEPT ![s] = {}]
    /\ delPeerNode(s)
    /\ UNCHANGED <<status, hello>>

\* A failed peer: off the epoll, closed, forgotten.
ClosePeer(s) ==
    /\ watch' = [watch EXCEPT ![s] = {}]
    /\ status' = [status EXCEPT ![s] = "CLOSED"]
    /\ hello' = hello \ {s}
    /\ delPeerNode(s)

\* One turn of the errfds loop.  boot_sock is taken off the epoll and nothing
\* else is done about it.
HandleError(s) ==
    /\ pc = "err" /\ s \in errfds
    /\ errfds' = errfds \ {s}
    /\ state' = StateOf(s)
    /\ IF s = Boot
       THEN watch' = [watch EXCEPT ![Boot] = {}] /\ UNCHANGED <<status, tables, hello>>
       ELSE ClosePeer(s)
    /\ UNCHANGED <<pc, writefds, readfds, server, reconnects>>

\* A turn of the writefds or of the readfds loop takes its socket from the set
\* and reads its state.
Turn(s) ==
    /\ \/ pc = "write" /\ s \in writefds
          /\ writefds' = writefds \ {s} /\ UNCHANGED <<errfds, readfds>>
       \/ pc = "read" /\ s \in readfds
          /\ readfds' = readfds \ {s} /\ UNCHANGED <<errfds, writefds>>
    /\ state' = StateOf(s)

Lost(s) == StateOf(s) \in {"CLOSED", "BROKEN", "CONNECTING"}

\* Both loops: the peer is found failed.
HandleLostPeer(s) ==
    /\ s # Boot /\ Turn(s) /\ Lost(s)
    /\ ClosePeer(s)
    /\ UNCHANGED <<pc, server, reconnects>>

\* Mutant of HandleLostBoot: the new connection is put on the epoll for input,
\* not for the outcome of the connect.
HandleLostBoot_Input ==
    /\ Turn(Boot) /\ Lost(Boot) /\ reconnects < MaxReconnects
    /\ reconnects' = reconnects + 1
    /\ status' = [status EXCEPT ![Boot] = "CONNECTING"]
    /\ watch' = [watch EXCEPT ![Boot] = {"IN", "ERR"}]
    /\ wire' = <<>> /\ sent' = 0 /\ asked' = 0
    /\ UNCHANGED <<pc, tables, hello>>

\* Both loops: the server is found lost, and connect starts a new connection.
HandleLostBoot ==
    /\ Turn(Boot) /\ Lost(Boot) /\ reconnects < MaxReconnects
    /\ reconnects' = reconnects + 1
    /\ status' = [status EXCEPT ![Boot] = "CONNECTING"]
    /\ watch' = [watch EXCEPT ![Boot] = {"OUT", "ERR"}]
    /\ wire' = <<>> /\ sent' = 0 /\ asked' = 0
    /\ UNCHANGED <<pc, tables, hello>>

\* Or connect fails at once, and the thread returns.
ReconnectFails ==
    /\ Turn(Boot) /\ Lost(Boot)
    /\ pc' = "exited"
    /\ watch' = [watch EXCEPT ![Boot] = {}]
    /\ UNCHANGED <<tables, status, server, hello, reconnects>>

\* What a connect that succeeded is watched for next: remove, then add, which
\* fails on a closed socket.
WatchInput(s) ==
    watch' = [watch EXCEPT ![s] = IF status[s] = "CLOSED" THEN {} ELSE {"IN", "ERR"}]

\* The server is connected: ask it for nodes.
BootConnected ==
    /\ pc = "write" /\ Turn(Boot) /\ ~Lost(Boot)
    /\ WatchInput(Boot)
    /\ asked' = asked + 1
    /\ UNCHANGED <<pc, tables, status, wire, sent, hello, reconnects>>

\* What findPeerNode leaves in the node of the caller: the peer known by that
\* id, or the default Node, whose sock is not initialized.
FoundPeer(i) == IF i \in Peers THEN peerNode[i]
                ELSE [sock |-> Garbage, state |-> "DISCONNECTED"]

\* A peer is connected: sockIdPair[sock] (which adds a zero id for a socket
\* that is not there), findPeerNode, updatePeerNode.
PeerConnected(s) ==
    /\ pc = "write" /\ s # Boot /\ Turn(s) /\ ~Lost(s)
    /\ WatchInput(s)
    /\ LET i == IF sockIdPair[s] = NoId THEN ZeroId ELSE sockIdPair[s]
       IN  /\ sockIdPair' = [sockIdPair EXCEPT ![s] = i]
           /\ peerNode' = [peerNode EXCEPT ![i] =
                              [FoundPeer(i) EXCEPT !.state = "CONNECTED"]]
    /\ UNCHANGED <<pc, status, server, hello, reconnects>>

\* startPunch for each contact of the message gives it a socket of its own; the
\* contacts whose socket, bind or connect failed are left out.
Punches(told) ==
    {punch \in UNION {[ids -> {s \in Socks : status[s] = "UNUSED"}] : ids \in SUBSET told} :
        \A i, j \in DOMAIN punch : punch[i] = punch[j] => i = j}

PunchSocks(punch) == {punch[i] : i \in DOMAIN punch}

\* The sockets connect, and are watched for every event.
StartPunches(punch) ==
    /\ status' = [s \in All |-> IF s \in PunchSocks(punch) THEN "CONNECTING" ELSE status[s]]
    /\ watch' = [s \in All |-> IF s \in PunchSocks(punch) THEN Events ELSE watch[s]]

\* addPeerNode of each punched contact: insert keeps the entry the id has, the
\* socket is recorded in any case.
AddPeers(punch) ==
    /\ peerNode' = [i \in PeerIds |->
           IF i \in DOMAIN punch /\ i \notin Peers
           THEN [sock |-> punch[i], state |-> "DISCONNECTED"] ELSE peerNode[i]]
    /\ sockIdPair' = [s \in Socks |->
           IF s \in PunchSocks(punch)
           THEN CHOOSE i \in DOMAIN punch : punch[i] = s ELSE sockIdPair[s]]

\* handleMsg of boot_sock: recv returns some of what is in flight, its last
\* message maybe cut; if unpack accepts it, its contacts are punched.
HandleServerMsg ==
    /\ pc = "read" /\ Turn(Boot) /\ ~Lost(Boot)
    /\ \E r \in (IF wire = <<>> THEN {<<wire, wire>>} ELSE Recvs(wire)), told \in SUBSET Ids :
          /\ told = Contacts(unpack(r[1]))
          /\ wire' = r[2]
          /\ \E punch \in Punches(told) : StartPunches(punch) /\ AddPeers(punch)
    /\ UNCHANGED <<pc, sent, asked, hello, reconnects>>

\* handleMsg of a peer socket: the text is read, REP/DATA has no effect.
HandlePeerMsg(s) ==
    /\ pc = "read" /\ s # Boot /\ Turn(s) /\ ~Lost(s)
    /\ hello' = hello \ {s}
    /\ UNCHANGED <<pc, watch, tables, status, server, reconnects>>

Thread == \/ StartClient \/ EpollWait \/ LoopDone
          \/ HandleLostBoot \/ ReconnectFails \/ BootConnected \/ HandleServerMsg
          \/ \E s \in All : HandleError(s)
          \/ \E s \in Socks : HandleLostPeer(s) \/ PeerConnected(s) \/ HandlePeerMsg(s)

Next == Network \/ Thread

Spec == Init /\ [][Next]_vars

\* The operating system runs the thread; the network and the server owe nothing.
FairSpec == /\ Spec
            /\ WF_vars(Thread)

-----------------------------------------------------------------------------
(* Properties.                                                             *)

TypeOK ==
    /\ pc \in {"start", "wait", "err", "write", "read", "exited"}
    /\ errfds \subseteq All /\ writefds \subseteq All /\ readfds \subseteq All
    /\ pc \in {"write", "read", "wait"} => errfds = {}
    /\ pc \in {"read", "wait"} => writefds = {}
    /\ pc = "wait" => readfds = {}
    /\ state \in {"INIT", "CONNECTING", "CONNECTED", "BROKEN", "CLOSED"}
    /\ watch \in [All -> SUBSET Events]
    /\ peerNode \in [PeerIds -> [sock : Socks \cup {NoSock, Garbage},
                                 state : {"DISCONNECTED", "CONNECTED"}]]
    /\ sockIdPair \in [Socks -> PeerIds \cup {NoId}]
    /\ status \in [All -> Statuses]
    /\ hello \subseteq Socks
    /\ sent \in 0 .. MaxMsgs /\ asked \in Nat /\ reconnects \in 0 .. MaxReconnects

Open(s) == status[s] \in {"CONNECTING", "FAILED", "CONNECTED", "BROKEN"}

\* No peer socket leaks: every open one is recorded for a peer and watched for
\* errors, so its failure will be seen and will find the peer.
OpenSocketTracked ==
    \A s \in Socks : Open(s) => sockIdPair[s] # NoId /\ "ERR" \in watch[s]

\* The peer table never holds a socket that is closed, or one recorded for
\* another peer: sendHello would send to it.
PeerSocketUsable ==
    \A i \in Peers : peerNode[i].sock # Garbage =>
        Open(peerNode[i].sock) /\ sockIdPair[peerNode[i].sock] = i

\* One GET_NODE per connection to the server: none before it stands, one when
\* the thread starts to listen on it, and never another.
AskedOnce ==
    /\ asked <= 1
    /\ "IN" \in watch[Boot] => asked = 1
    /\ asked = 1 => status[Boot] \in {"CONNECTED", "BROKEN"}

KeepsPeers ==
    \A i \in Peers :
        \/ peerNode'[i].sock = peerNode[i].sock
        \/ /\ peerNode'[i] = NoPeer
           /\ \E s \in Socks : /\ sockIdPair[s] = i
                               /\ status[s] \in {"FAILED", "BROKEN", "CLOSED"}
                               /\ status'[s] = "CLOSED"

\* A peer leaves the table only when a failed socket recorded for that very
\* peer is closed, and never changes its socket while it is there.
PeersKept == [][KeepsPeers]_vars

\* A peer socket that failed is eventually closed, unless the thread ends.
FailedPeerClosed ==
    \A s \in Socks : status[s] \in {"FAILED", "BROKEN"}
                         ~> status[s] = "CLOSED" \/ pc = "exited"

\* A connection to the server that stands is eventually asked for nodes,
\* unless it breaks or the thread ends.
ServerAsked == status[Boot] = "CONNECTED" ~> \/ asked = 1
                                             \/ status[Boot] # "CONNECTED"
                                             \/ pc = "exited"

\* The comment where a peer connects says that the socket of the node is
\* recorded: a peer marked CONNECTED should have its socket.
ConnectedHasSocket ==
    \A i \in Ids : peerNode[i].state = "CONNECTED" => peerNode[i].sock # Garbage
=============================================================================
