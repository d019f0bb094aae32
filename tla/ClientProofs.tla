---------------------------- MODULE ClientProofs ----------------------------
(***************************************************************************)
(* Proofs about the boot thread, for any number of nodes and sockets: its  *)
(* types, that no socket leaks, that the peer table holds usable sockets   *)
(* only and loses no peer but a failed one, and that the server is asked   *)
(* once per connection.                                                    *)
(***************************************************************************)
EXTENDS Client, TLAPS

(* What the sets of the last epoll_wait say of their sockets.  A socket in *)
(* errfds has failed and is not closed yet; a peer in the other sets got   *)
(* past its connect.  Only boot_sock may start over meanwhile.             *)
FdsInv ==
    /\ pc = "start" => /\ errfds = {} /\ writefds = {} /\ readfds = {}
                       /\ status[Boot] = "UNUSED"
    /\ pc \notin {"start", "exited"} => status[Boot] # "UNUSED"
    /\ status[Boot] # "CLOSED"
    /\ \A s \in errfds : status[s] \in {"BROKEN", "FAILED"}
    /\ \A s \in Socks : s \in writefds \cup readfds =>
          status[s] \notin {"UNUSED", "CONNECTING"}
    /\ \A s \in hello : status[s] \in {"CONNECTED", "BROKEN"}

(* While boot_sock is watched for the outcome of its connect, or reported  *)
(* connected, nothing was asked on it.                                     *)
BootInv ==
    /\ AskedOnce
    /\ "OUT" \in watch[Boot] => asked = 0
    /\ Boot \in writefds => \/ asked = 0 /\ status[Boot] = "CONNECTED"
                            \/ status[Boot] \in {"FAILED", "BROKEN"}

PeersInv == OpenSocketTracked /\ PeerSocketUsable

ThreadInv == TypeOK /\ FdsInv

\* The boot socket is none of the peers' sockets.
LEMMA BootNotPeer == Boot \in All /\ Socks \subseteq All /\ \A s \in Socks : s # Boot
  BY ClientAssumption DEF All

\* All parts hold at the start.
LEMMA InvInit == Init => ThreadInv /\ BootInv /\ PeersInv
  BY ClientAssumption, BootNotPeer
  DEF Init, ThreadInv, TypeOK, FdsInv, BootInv, PeersInv, AskedOnce,
      OpenSocketTracked, PeerSocketUsable, Open, Peers, NoPeer, Statuses, Events

-----------------------------------------------------------------------------
(* Types, and the sets of the epoll.                                       *)

PeerRecs == [sock : Socks \cup {NoSock, Garbage}, state : {"DISCONNECTED", "CONNECTED"}]

(* What closing a peer socket leaves.                                      *)
LEMMA CloseEffect ==
    ASSUME TypeOK, NEW s \in Socks, ClosePeer(s)
    PROVE  /\ status' \in [All -> Statuses] /\ watch' \in [All -> SUBSET Events]
           /\ peerNode' \in [PeerIds -> PeerRecs]
           /\ sockIdPair' \in [Socks -> PeerIds \cup {NoId}]
           /\ \A t \in All : t # s => status'[t] = status[t] /\ watch'[t] = watch[t]
           /\ status'[s] = "CLOSED"
           /\ hello' = hello \ {s}
           /\ \A i \in PeerIds :
                 peerNode'[i] = IF i = sockIdPair[s] THEN NoPeer ELSE peerNode[i]
           /\ \A t \in Socks : sockIdPair'[t] = IF t = s THEN NoId ELSE sockIdPair[t]
  BY BootNotPeer DEF TypeOK, ClosePeer, delPeerNode, NoPeer, PeerRecs, Statuses, Events

(* What punching leaves: every punched contact has a fresh socket, which   *)
(* connects, is watched for errors and is recorded for that contact.       *)
LEMMA PunchEffect ==
    ASSUME TypeOK, NEW told \in SUBSET Ids, NEW punch \in Punches(told),
           StartPunches(punch), AddPeers(punch)
    PROVE  /\ status' \in [All -> Statuses] /\ watch' \in [All -> SUBSET Events]
           /\ peerNode' \in [PeerIds -> PeerRecs]
           /\ sockIdPair' \in [Socks -> PeerIds \cup {NoId}]
           /\ \A s \in All : s \notin PunchSocks(punch) =>
                 status'[s] = status[s] /\ watch'[s] = watch[s]
           /\ \A s \in PunchSocks(punch) :
                 /\ s \in Socks /\ status[s] = "UNUSED" /\ status'[s] = "CONNECTING"
                 /\ watch'[s] = Events /\ sockIdPair'[s] \in Ids
           /\ \A s \in Socks \ PunchSocks(punch) : sockIdPair'[s] = sockIdPair[s]
           /\ \A i \in DOMAIN punch : sockIdPair'[punch[i]] = i
           /\ \A i \in PeerIds :
                 \/ peerNode'[i] = peerNode[i]
                 \/ /\ i \in DOMAIN punch /\ i \notin Peers
                    /\ peerNode'[i] = [sock |-> punch[i], state |-> "DISCONNECTED"]
<1>1. PICK ids \in SUBSET told : punch \in [ids -> {s \in Socks : status[s] = "UNUSED"}]
  BY DEF Punches
<1>2. /\ DOMAIN punch = ids /\ ids \subseteq Ids /\ ids \subseteq PeerIds
      /\ \A i \in ids : punch[i] \in Socks /\ status[punch[i]] = "UNUSED"
  BY <1>1 DEF PeerIds
<1>3. \A i, j \in ids : punch[i] = punch[j] => i = j
  BY <1>2 DEF Punches
<1>4. \A s \in PunchSocks(punch) : s \in Socks /\ s \in All /\ status[s] = "UNUSED"
  BY <1>2, BootNotPeer DEF PunchSocks
<1>5. \A s \in All :
         /\ s \in PunchSocks(punch) => status'[s] = "CONNECTING" /\ watch'[s] = Events
         /\ s \notin PunchSocks(punch) => status'[s] = status[s] /\ watch'[s] = watch[s]
  BY DEF StartPunches
<1>6. status' \in [All -> Statuses] /\ watch' \in [All -> SUBSET Events]
  <2>1. /\ status' = [s \in All |-> status'[s]] /\ watch' = [s \in All |-> watch'[s]]
    BY DEF StartPunches
  <2>2. \A s \in All : status'[s] \in Statuses /\ watch'[s] \in SUBSET Events
    BY <1>5 DEF TypeOK, Statuses
  <2>. QED
    BY <2>1, <2>2
<1>7. ASSUME NEW i \in ids PROVE punch[i] \in PunchSocks(punch) /\ sockIdPair'[punch[i]] = i
  <2>1. punch[i] \in PunchSocks(punch)
    BY <1>2 DEF PunchSocks
  <2>2. sockIdPair'[punch[i]] = CHOOSE j \in ids : punch[j] = punch[i]
    BY <1>2, <2>1 DEF AddPeers
  <2>3. \E j \in ids : punch[j] = punch[i]
    OBVIOUS
  <2>. QED
    BY <1>3, <2>1, <2>2, <2>3
<1>8. ASSUME NEW s \in PunchSocks(punch) PROVE sockIdPair'[s] \in Ids
  BY <1>2, <1>7 DEF PunchSocks
<1>9. \A s \in Socks \ PunchSocks(punch) : sockIdPair'[s] = sockIdPair[s]
  BY DEF AddPeers
<1>10. sockIdPair' \in [Socks -> PeerIds \cup {NoId}]
  <2>1. sockIdPair' = [s \in Socks |-> sockIdPair'[s]]
    BY DEF AddPeers
  <2>2. \A s \in Socks : sockIdPair'[s] \in PeerIds \cup {NoId}
    BY <1>8, <1>9 DEF TypeOK, PeerIds
  <2>. QED
    BY <2>1, <2>2
<1>11. \A i \in PeerIds : peerNode'[i] = IF i \in DOMAIN punch /\ i \notin Peers
           THEN [sock |-> punch[i], state |-> "DISCONNECTED"] ELSE peerNode[i]
  BY DEF AddPeers
<1>12. peerNode' \in [PeerIds -> PeerRecs]
  <2>1. peerNode' = [i \in PeerIds |-> peerNode'[i]]
    BY DEF AddPeers
  <2>2. \A i \in PeerIds : peerNode'[i] \in PeerRecs
    <3>1. \A i \in ids : [sock |-> punch[i], state |-> "DISCONNECTED"] \in PeerRecs
      BY <1>2 DEF PeerRecs
    <3>2. \A i \in PeerIds : peerNode[i] \in PeerRecs
      BY DEF TypeOK, PeerRecs
    <3>. QED
      BY <1>2, <1>11, <3>1, <3>2
  <2>. QED
    BY <2>1, <2>2
<1>13. \A i \in PeerIds :
          \/ peerNode'[i] = peerNode[i]
          \/ /\ i \in DOMAIN punch /\ i \notin Peers
             /\ peerNode'[i] = [sock |-> punch[i], state |-> "DISCONNECTED"]
  BY <1>11
<1>14. \A s \in All : s \notin PunchSocks(punch) =>
          status'[s] = status[s] /\ watch'[s] = watch[s]
  BY <1>5
<1>15. \A s \in PunchSocks(punch) :
          /\ s \in Socks /\ status[s] = "UNUSED" /\ status'[s] = "CONNECTING"
          /\ watch'[s] = Events /\ sockIdPair'[s] \in Ids
  BY <1>4, <1>5, <1>8
<1>16. \A i \in DOMAIN punch : sockIdPair'[punch[i]] = i
  BY <1>2, <1>7
<1>. QED
  BY <1>6, <1>9, <1>10, <1>12, <1>13, <1>14, <1>15, <1>16

(* A turn takes its socket from the set of its loop, and the state it reads *)
(* is a state UDT reports: its socket got past its connect.                *)
LEMMA TurnTypes ==
    ASSUME ThreadInv, NEW s \in All, Turn(s)
    PROVE  /\ errfds' \subseteq All /\ writefds' \subseteq All /\ readfds' \subseteq All
           /\ errfds = {} /\ errfds' = {} /\ (pc = "read" => writefds = {})
           /\ writefds' \subseteq writefds /\ readfds' \subseteq readfds
           /\ (writefds = {} => writefds' = {})
           /\ s \in writefds \cup readfds /\ pc \in {"write", "read"}
           /\ status[s] \in Statuses \ {"UNUSED"}
           /\ state' \in {"INIT", "CONNECTING", "CONNECTED", "BROKEN", "CLOSED"}
<1>1. /\ errfds' \subseteq All /\ writefds' \subseteq All /\ readfds' \subseteq All
      /\ errfds = {} /\ errfds' = {} /\ (pc = "read" => writefds = {})
      /\ writefds' \subseteq writefds /\ readfds' \subseteq readfds
      /\ (writefds = {} => writefds' = {})
      /\ s \in writefds \cup readfds /\ pc \in {"write", "read"}
  BY DEF Turn, ThreadInv, TypeOK
<1>2. status[s] \in Statuses \ {"UNUSED"}
  BY <1>1 DEF ThreadInv, TypeOK, FdsInv, All
<1>3. state' = StateOf(s)
  BY DEF Turn
<1>4. state' \in {"INIT", "CONNECTING", "CONNECTED", "BROKEN", "CLOSED"}
  BY <1>2, <1>3 DEF StateOf, ThreadInv, TypeOK, Statuses
<1>. QED
  BY <1>1, <1>2, <1>4

\* What the stale sets say is kept by every step of thread and network.
LEMMA ThreadInvNext == ThreadInv /\ [Next]_vars => ThreadInv'
<1>. SUFFICES ASSUME ThreadInv, [Next]_vars PROVE ThreadInv'
  OBVIOUS
<1>. USE ClientAssumption, BootNotPeer DEF fds, tables, server
<1>1. CASE UNCHANGED vars
  BY <1>1 DEF vars, ThreadInv, TypeOK, FdsInv
<1>2. ASSUME NEW s \in All, Progress(s) PROVE ThreadInv'
  <2>1. TypeOK'
    BY <1>2 DEF Progress, ThreadInv, TypeOK, Statuses
  <2>2. FdsInv'
    BY <1>2 DEF Progress, ThreadInv, TypeOK, FdsInv
  <2>. QED
    BY <2>1, <2>2 DEF ThreadInv
<1>3. CASE ServerSends
  BY <1>3 DEF ServerSends, ThreadInv, TypeOK, FdsInv
<1>4. ASSUME NEW s \in Socks, PeerSends(s) PROVE ThreadInv'
  BY <1>4 DEF PeerSends, ThreadInv, TypeOK, FdsInv
<1>5. CASE StartClient
  <2>1. TypeOK'
    BY <1>5 DEF StartClient, ThreadInv, TypeOK, FdsInv, Statuses, Events
  <2>2. FdsInv'
    BY <1>5 DEF StartClient, ThreadInv, TypeOK, FdsInv
  <2>. QED
    BY <2>1, <2>2 DEF ThreadInv
<1>6. CASE EpollWait
  <2>1. TypeOK'
    BY <1>6 DEF EpollWait, ThreadInv, TypeOK, Failing, Writable, Readable, Watched
  <2>2. \A s \in hello : status[s] \in {"CONNECTED", "BROKEN"}
    BY DEF ThreadInv, FdsInv
  <2>3. \A s \in Socks : s \in Failing \cup Writable \cup Readable =>
           status[s] \notin {"UNUSED", "CONNECTING"}
    BY <2>2 DEF Failing, Writable, Readable, HasData
  <2>4. FdsInv'
    BY <1>6, <2>3 DEF EpollWait, ThreadInv, FdsInv, Failing
  <2>. QED
    BY <2>1, <2>4 DEF ThreadInv
<1>7. CASE LoopDone
  BY <1>7 DEF LoopDone, ThreadInv, TypeOK, FdsInv
<1>8. CASE HandleLostBoot
  <2>1. TypeOK'
    BY <1>8, TurnTypes DEF HandleLostBoot, ThreadInv, TypeOK, Statuses, Events
  <2>2. FdsInv'
    BY <1>8, TurnTypes DEF HandleLostBoot, ThreadInv, TypeOK, FdsInv
  <2>. QED
    BY <2>1, <2>2 DEF ThreadInv
<1>9. CASE ReconnectFails
  <2>1. TypeOK'
    BY <1>9, TurnTypes DEF ReconnectFails, ThreadInv, TypeOK, Events
  <2>2. FdsInv'
    BY <1>9, TurnTypes DEF ReconnectFails, ThreadInv, TypeOK, FdsInv
  <2>. QED
    BY <2>1, <2>2 DEF ThreadInv
<1>10. CASE BootConnected
  <2>1. TypeOK'
    BY <1>10, TurnTypes DEF BootConnected, WatchInput, ThreadInv, TypeOK, Events
  <2>2. FdsInv'
    BY <1>10, TurnTypes DEF BootConnected, ThreadInv, TypeOK, FdsInv
  <2>. QED
    BY <2>1, <2>2 DEF ThreadInv
<1>11. CASE HandleServerMsg
  <2>1. PICK told \in SUBSET Ids : \E punch \in Punches(told) :
            StartPunches(punch) /\ AddPeers(punch)
    BY <1>11 DEF HandleServerMsg
  <2>2. PICK punch \in Punches(told) : StartPunches(punch) /\ AddPeers(punch)
    BY <2>1
  <2>3. TypeOK'
    BY <1>11, <2>2, TurnTypes, PunchEffect DEF HandleServerMsg, ThreadInv, TypeOK, PeerRecs
  <2>4. ASSUME NEW s \in All
        PROVE  \/ status'[s] = status[s]
               \/ s # Boot /\ status[s] = "UNUSED" /\ status'[s] = "CONNECTING"
    <3>1. /\ \A t \in All : t \notin PunchSocks(punch) => status'[t] = status[t]
          /\ \A t \in PunchSocks(punch) :
                t \in Socks /\ status[t] = "UNUSED" /\ status'[t] = "CONNECTING"
      BY <2>2, PunchEffect DEF ThreadInv
    <3>. QED
      BY <3>1
  <2>5. FdsInv'
    BY <1>11, <2>4, TurnTypes DEF HandleServerMsg, ThreadInv, TypeOK, FdsInv
  <2>. QED
    BY <2>3, <2>5 DEF ThreadInv
<1>12. ASSUME NEW s \in All, HandleError(s) PROVE ThreadInv'
  <2>1. state' \in {"INIT", "CONNECTING", "CONNECTED", "BROKEN", "CLOSED"}
    BY <1>12 DEF HandleError, StateOf, ThreadInv, TypeOK, FdsInv
  <2>2. CASE s = Boot
    <3>1. TypeOK'
      BY <1>12, <2>1, <2>2 DEF HandleError, ThreadInv, TypeOK, Events
    <3>2. FdsInv'
      BY <1>12, <2>2 DEF HandleError, ThreadInv, FdsInv
    <3>. QED
      BY <3>1, <3>2 DEF ThreadInv
  <2>3. CASE s # Boot
    <3>1. s \in Socks /\ ClosePeer(s)
      BY <1>12, <2>3 DEF HandleError, All
    <3>2. TypeOK'
      BY <1>12, <2>1, <3>1, CloseEffect DEF HandleError, ThreadInv, TypeOK, PeerRecs
    <3>3. FdsInv'
      BY <1>12, <3>1, CloseEffect DEF HandleError, ThreadInv, TypeOK, FdsInv
    <3>. QED
      BY <3>2, <3>3 DEF ThreadInv
  <2>. QED
    BY <2>2, <2>3
<1>13. ASSUME NEW s \in Socks, HandleLostPeer(s) PROVE ThreadInv'
  <2>1. ClosePeer(s)
    BY <1>13 DEF HandleLostPeer
  <2>2. TypeOK'
    BY <1>13, <2>1, TurnTypes, CloseEffect DEF HandleLostPeer, ThreadInv, TypeOK, PeerRecs
  <2>3. FdsInv'
    BY <1>13, <2>1, TurnTypes, CloseEffect DEF HandleLostPeer, ThreadInv, TypeOK, FdsInv
  <2>. QED
    BY <2>2, <2>3 DEF ThreadInv
<1>14. ASSUME NEW s \in Socks, PeerConnected(s) PROVE ThreadInv'
  <2>1. TypeOK'
    BY <1>14, TurnTypes
    DEF PeerConnected, WatchInput, FoundPeer, Peers, PeerIds, ThreadInv, TypeOK, Events
  <2>2. FdsInv'
    BY <1>14, TurnTypes DEF PeerConnected, ThreadInv, TypeOK, FdsInv
  <2>. QED
    BY <2>1, <2>2 DEF ThreadInv
<1>15. ASSUME NEW s \in Socks, HandlePeerMsg(s) PROVE ThreadInv'
  <2>1. TypeOK'
    BY <1>15, TurnTypes DEF HandlePeerMsg, ThreadInv, TypeOK
  <2>2. FdsInv'
    BY <1>15, TurnTypes DEF HandlePeerMsg, ThreadInv, TypeOK, FdsInv
  <2>. QED
    BY <2>1, <2>2 DEF ThreadInv
<1>. QED
  BY <1>1, <1>2, <1>3, <1>4, <1>5, <1>6, <1>7, <1>8, <1>9, <1>10, <1>11, <1>12,
     <1>13, <1>14, <1>15 DEF Next, Network, Thread

-----------------------------------------------------------------------------
(* The connection to the server.                                           *)

\* So is what is known of the boot socket.
LEMMA BootInvNext == ThreadInv /\ BootInv /\ [Next]_vars => BootInv'
<1>. SUFFICES ASSUME ThreadInv, BootInv, [Next]_vars PROVE BootInv'
  OBVIOUS
<1>. USE ClientAssumption, BootNotPeer DEF fds, tables, server
<1>1. ASSUME UNCHANGED <<asked, writefds>>, watch'[Boot] = watch[Boot],
             status'[Boot] = status[Boot]
      PROVE  BootInv'
  BY <1>1 DEF BootInv, AskedOnce
<1>2. ASSUME NEW s \in All, Progress(s) PROVE BootInv'
  BY <1>2 DEF Progress, ThreadInv, TypeOK, BootInv, AskedOnce
<1>3. CASE UNCHANGED vars \/ ServerSends \/ \E s \in Socks : PeerSends(s)
  BY <1>1, <1>3 DEF vars, ServerSends, PeerSends
<1>4. CASE StartClient
  BY <1>4 DEF StartClient, ThreadInv, TypeOK, FdsInv, BootInv, AskedOnce
<1>5. CASE EpollWait
  <2>1. Boot \in Writable \cup Failing =>
           \/ asked = 0 /\ status[Boot] = "CONNECTED"
           \/ status[Boot] \in {"FAILED", "BROKEN"}
    BY DEF Writable, Failing, Watched, BootInv
  <2>. QED
    BY <1>5, <2>1 DEF EpollWait, BootInv, AskedOnce
<1>6. CASE LoopDone
  BY <1>1, <1>6 DEF LoopDone
<1>7. CASE HandleLostBoot
  BY <1>7, TurnTypes DEF HandleLostBoot, Turn, ThreadInv, TypeOK, BootInv, AskedOnce
<1>8. CASE ReconnectFails
  BY <1>8, TurnTypes DEF ReconnectFails, ThreadInv, TypeOK, BootInv, AskedOnce
<1>9. CASE BootConnected
  <2>1. asked = 0 /\ status[Boot] = "CONNECTED"
    BY <1>9 DEF BootConnected, Turn, Lost, StateOf, BootInv
  <2>. QED
    BY <1>9, <2>1 DEF BootConnected, Turn, WatchInput, ThreadInv, TypeOK, BootInv, AskedOnce
<1>10. CASE HandleServerMsg
  <2>1. PICK told \in SUBSET Ids : \E punch \in Punches(told) :
            StartPunches(punch) /\ AddPeers(punch)
    BY <1>10 DEF HandleServerMsg
  <2>2. PICK punch \in Punches(told) : StartPunches(punch) /\ AddPeers(punch)
    BY <2>1
  <2>3. status'[Boot] = status[Boot] /\ watch'[Boot] = watch[Boot]
    BY <2>2, PunchEffect DEF ThreadInv
  <2>. QED
    BY <1>10, <2>3, TurnTypes DEF HandleServerMsg, BootInv, AskedOnce
<1>11. ASSUME NEW s \in All, HandleError(s) PROVE BootInv'
  <2>1. CASE s = Boot
    BY <1>11, <2>1 DEF HandleError, ThreadInv, TypeOK, BootInv, AskedOnce
  <2>2. CASE s # Boot
    <3>1. s \in Socks /\ ClosePeer(s)
      BY <1>11, <2>2 DEF HandleError, All
    <3>2. status'[Boot] = status[Boot] /\ watch'[Boot] = watch[Boot]
      BY <3>1, CloseEffect DEF ThreadInv
    <3>. QED
      BY <1>1, <1>11, <3>2 DEF HandleError
  <2>. QED
    BY <2>1, <2>2
<1>12. ASSUME NEW s \in Socks, HandleLostPeer(s) PROVE BootInv'
  <2>1. status'[Boot] = status[Boot] /\ watch'[Boot] = watch[Boot]
    BY <1>12, CloseEffect DEF HandleLostPeer, ThreadInv
  <2>. QED
    BY <1>12, <2>1, TurnTypes DEF HandleLostPeer, BootInv, AskedOnce
<1>13. ASSUME NEW s \in Socks, PeerConnected(s) \/ HandlePeerMsg(s) PROVE BootInv'
  <2>1. status'[Boot] = status[Boot] /\ watch'[Boot] = watch[Boot]
    BY <1>13 DEF PeerConnected, HandlePeerMsg, WatchInput, ThreadInv, TypeOK
  <2>2. Turn(s) /\ asked' = asked
    BY <1>13 DEF PeerConnected, HandlePeerMsg
  <2>. QED
    BY <2>1, <2>2, TurnTypes DEF BootInv, AskedOnce
<1>. QED
  BY <1>2, <1>3, <1>4, <1>5, <1>6, <1>7, <1>8, <1>9, <1>10, <1>11, <1>12, <1>13
  DEF Next, Network, Thread

-----------------------------------------------------------------------------
(* The peers and their sockets.                                            *)

OpenStates == {"CONNECTING", "FAILED", "CONNECTED", "BROKEN"}

\* Closing a socket takes it out of both tables.
LEMMA CloseKeepsPeersInv ==
    ASSUME TypeOK, PeersInv, NEW s \in Socks, ClosePeer(s)
    PROVE  PeersInv'
<1>1. OpenSocketTracked'
  BY CloseEffect, BootNotPeer DEF PeersInv, OpenSocketTracked, Open
<1>2. ASSUME NEW i \in Peers', peerNode'[i].sock # Garbage
      PROVE  /\ status'[peerNode'[i].sock] \in OpenStates
             /\ sockIdPair'[peerNode'[i].sock] = i
  <2>1. i \in PeerIds /\ i # sockIdPair[s] /\ peerNode'[i] = peerNode[i] /\ i \in Peers
    BY <1>2, CloseEffect DEF Peers, NoPeer
  <2>2. Open(peerNode[i].sock) /\ sockIdPair[peerNode[i].sock] = i
    BY <1>2, <2>1 DEF PeersInv, PeerSocketUsable
  <2>3. peerNode[i].sock \in Socks /\ peerNode[i].sock # s
    BY <1>2, <2>1, <2>2 DEF Peers, TypeOK
  <2>. QED
    BY <2>1, <2>2, <2>3, CloseEffect, BootNotPeer DEF Open, OpenStates
<1>. QED
  BY <1>1, <1>2 DEF PeersInv, PeerSocketUsable, Open, OpenStates

\* Punching enters every new socket into both tables.
LEMMA PunchKeepsPeersInv ==
    ASSUME TypeOK, PeersInv, NEW told \in SUBSET Ids, NEW punch \in Punches(told),
           StartPunches(punch), AddPeers(punch)
    PROVE  PeersInv'
<1>. USE BootNotPeer
<1>1. ASSUME NEW s \in Socks, Open(s)'
      PROVE  sockIdPair'[s] # NoId /\ "ERR" \in watch'[s]
  <2>1. CASE s \in PunchSocks(punch)
    BY <2>1, PunchEffect, ClientAssumption DEF Events
  <2>2. CASE s \notin PunchSocks(punch)
    <3>1. status'[s] = status[s] /\ watch'[s] = watch[s] /\ sockIdPair'[s] = sockIdPair[s]
      BY <2>2, PunchEffect
    <3>. QED
      BY <1>1, <3>1 DEF PeersInv, OpenSocketTracked, Open
  <2>. QED
    BY <2>1, <2>2
<1>2. ASSUME NEW i \in Peers', peerNode'[i].sock # Garbage
      PROVE  /\ status'[peerNode'[i].sock] \in OpenStates
             /\ sockIdPair'[peerNode'[i].sock] = i
  <2>1. i \in PeerIds
    BY DEF Peers
  <2>2. CASE peerNode'[i] = peerNode[i]
    <3>1. i \in Peers
      BY <2>1, <2>2 DEF Peers
    <3>2. Open(peerNode[i].sock) /\ sockIdPair[peerNode[i].sock] = i
      BY <1>2, <2>2, <3>1 DEF PeersInv, PeerSocketUsable
    <3>3. peerNode[i].sock \in Socks
      BY <1>2, <2>2, <3>1 DEF Peers, TypeOK
    <3>4. peerNode[i].sock \notin PunchSocks(punch)
      BY <3>2, PunchEffect DEF Open, OpenStates
    <3>5. /\ status'[peerNode[i].sock] = status[peerNode[i].sock]
          /\ sockIdPair'[peerNode[i].sock] = sockIdPair[peerNode[i].sock]
      BY <3>3, <3>4, PunchEffect
    <3>. QED
      BY <2>2, <3>2, <3>5 DEF Open, OpenStates
  <2>3. CASE peerNode'[i] # peerNode[i]
    <3>1. /\ i \in DOMAIN punch
          /\ peerNode'[i] = [sock |-> punch[i], state |-> "DISCONNECTED"]
      <4>1. \A j \in PeerIds :
              \/ peerNode'[j] = peerNode[j]
              \/ /\ j \in DOMAIN punch /\ j \notin Peers
                 /\ peerNode'[j] = [sock |-> punch[j], state |-> "DISCONNECTED"]
        BY PunchEffect
      <4>. QED
        BY <2>1, <2>3, <4>1, Zenon
    <3>2. punch[i] \in PunchSocks(punch)
      BY <3>1 DEF PunchSocks
    <3>3. status'[punch[i]] = "CONNECTING" /\ sockIdPair'[punch[i]] = i
      BY <3>1, <3>2, PunchEffect
    <3>. QED
      BY <3>1, <3>3 DEF Open, OpenStates
  <2>. QED
    BY <2>2, <2>3
<1>. QED
  BY <1>1, <1>2 DEF PeersInv, OpenSocketTracked, PeerSocketUsable, Open, OpenStates

\* So the two tables agree with the sockets throughout.
LEMMA PeersInvNext == ThreadInv /\ PeersInv /\ [Next]_vars => PeersInv'
<1>. SUFFICES ASSUME ThreadInv, PeersInv, [Next]_vars PROVE PeersInv'
  OBVIOUS
<1>. USE ClientAssumption, BootNotPeer DEF fds, tables, server
<1>1. ASSUME UNCHANGED tables, \A s \in Socks : status'[s] = status[s] /\ watch'[s] = watch[s]
      PROVE  PeersInv'
  <2>1. \A i \in Peers : peerNode[i].sock # Garbage => peerNode[i].sock \in Socks
    BY DEF Peers, ThreadInv, TypeOK
  <2>. QED
    BY <1>1, <2>1 DEF PeersInv, OpenSocketTracked, PeerSocketUsable, Open, Peers
<1>2. ASSUME NEW s \in All, Progress(s) PROVE PeersInv'
  <2>1. \A i \in Peers : peerNode[i].sock # Garbage => peerNode[i].sock \in Socks
    BY DEF Peers, ThreadInv, TypeOK
  <2>2. \A t \in Socks : Open(t)' <=> Open(t)
    BY <1>2 DEF Progress, Open, ThreadInv, TypeOK
  <2>. QED
    BY <1>2, <2>1, <2>2 DEF Progress, PeersInv, OpenSocketTracked, PeerSocketUsable, Peers
<1>3. CASE \/ UNCHANGED vars \/ ServerSends \/ EpollWait \/ LoopDone
           \/ \E s \in Socks : PeerSends(s) \/ HandlePeerMsg(s)
  BY <1>1, <1>3 DEF vars, ServerSends, EpollWait, LoopDone, PeerSends, HandlePeerMsg
<1>4. CASE StartClient \/ HandleLostBoot \/ ReconnectFails \/ BootConnected
  <2>1. \A s \in Socks : status'[s] = status[s] /\ watch'[s] = watch[s]
    BY <1>4 DEF StartClient, HandleLostBoot, ReconnectFails, BootConnected, WatchInput,
       ThreadInv, TypeOK
  <2>. QED
    BY <1>1, <1>4, <2>1 DEF StartClient, HandleLostBoot, ReconnectFails, BootConnected
<1>5. CASE HandleServerMsg
  <2>1. PICK told \in SUBSET Ids : \E punch \in Punches(told) :
            StartPunches(punch) /\ AddPeers(punch)
    BY <1>5 DEF HandleServerMsg
  <2>. QED
    BY <2>1, PunchKeepsPeersInv DEF ThreadInv
<1>6. ASSUME NEW s \in All, HandleError(s) PROVE PeersInv'
  <2>1. CASE s = Boot
    BY <1>1, <1>6, <2>1 DEF HandleError, ThreadInv, TypeOK
  <2>2. CASE s # Boot
    BY <1>6, <2>2, CloseKeepsPeersInv DEF HandleError, All, ThreadInv
  <2>. QED
    BY <2>1, <2>2
<1>7. ASSUME NEW s \in Socks, HandleLostPeer(s) PROVE PeersInv'
  BY <1>7, CloseKeepsPeersInv DEF HandleLostPeer, ThreadInv
<1>8. ASSUME NEW s \in Socks, PeerConnected(s) PROVE PeersInv'
  <2>. DEFINE id == IF sockIdPair[s] = NoId THEN ZeroId ELSE sockIdPair[s]
  <2>1. /\ id \in PeerIds /\ id # NoId
        /\ sockIdPair' = [sockIdPair EXCEPT ![s] = id]
        /\ peerNode' = [peerNode EXCEPT ![id] = [FoundPeer(id) EXCEPT !.state = "CONNECTED"]]
        /\ status' = status
    BY <1>8 DEF PeerConnected, ThreadInv, TypeOK, PeerIds
  <2>2. \A t \in Socks : sockIdPair[t] # NoId => sockIdPair'[t] = sockIdPair[t]
    BY <2>1 DEF ThreadInv, TypeOK
  <2>. HIDE DEF id
  <2>3. OpenSocketTracked'
    <3>1. ASSUME NEW t \in Socks, Open(t) PROVE sockIdPair'[t] # NoId /\ "ERR" \in watch'[t]
      BY <1>8, <2>2, <3>1 DEF PeersInv, OpenSocketTracked, PeerConnected, WatchInput,
         Open, ThreadInv, TypeOK
    <3>. QED
      BY <2>1, <3>1 DEF OpenSocketTracked, Open
  <2>4. ASSUME NEW i \in Peers', peerNode'[i].sock # Garbage
        PROVE  /\ status'[peerNode'[i].sock] \in OpenStates
               /\ sockIdPair'[peerNode'[i].sock] = i
    <3>1. i \in PeerIds /\ peerNode'[i].sock # NoSock
      BY DEF Peers
    <3>2. i \in Peers /\ peerNode'[i].sock = peerNode[i].sock
      BY <2>1, <2>4, <3>1 DEF FoundPeer, Peers, ThreadInv, TypeOK
    <3>3. peerNode[i].sock \in Socks
      BY <2>4, <3>2 DEF Peers, ThreadInv, TypeOK
    <3>4. Open(peerNode[i].sock) /\ sockIdPair[peerNode[i].sock] = i /\ i # NoId
      BY <2>4, <3>1, <3>2 DEF PeersInv, PeerSocketUsable, PeerIds
    <3>. QED
      BY <2>1, <2>2, <3>2, <3>3, <3>4 DEF Open, OpenStates
  <2>. QED
    BY <2>3, <2>4 DEF PeersInv, PeerSocketUsable, Open, OpenStates
<1>. QED
  BY <1>2, <1>3, <1>4, <1>5, <1>6, <1>7, <1>8 DEF Next, Network, Thread

-----------------------------------------------------------------------------
(* The steps keep the peers.                                               *)

\* Closing a failed socket takes out no peer but its own.
LEMMA CloseKeepsPeers ==
    ASSUME TypeOK, NEW s \in Socks, ClosePeer(s),
           status[s] \in {"FAILED", "BROKEN", "CLOSED"}
    PROVE  KeepsPeers
<1>1. status'[s] = "CLOSED"
  BY CloseEffect
<1>2. \A i \in PeerIds : i # sockIdPair[s] => peerNode'[i] = peerNode[i]
  BY CloseEffect
<1>3. \A i \in PeerIds : i = sockIdPair[s] => peerNode'[i] = NoPeer
  BY CloseEffect
<1>. QED
  BY <1>1, <1>2, <1>3 DEF KeepsPeers, Peers

\* No step takes out or changes another peer.
LEMMA KeepsPeersStep == ThreadInv /\ [Next]_vars => [KeepsPeers]_vars
<1>. SUFFICES ASSUME ThreadInv, Next PROVE KeepsPeers
  OBVIOUS
<1>. USE ClientAssumption, BootNotPeer DEF fds, tables, server
<1>1. CASE UNCHANGED peerNode
  BY <1>1 DEF KeepsPeers
<1>2. ASSUME NEW s \in All, HandleError(s) PROVE KeepsPeers
  <2>1. CASE s = Boot
    BY <1>1, <1>2, <2>1 DEF HandleError
  <2>2. CASE s # Boot
    <3>1. s \in Socks /\ ClosePeer(s) /\ s \in errfds
      BY <1>2, <2>2 DEF HandleError, All
    <3>2. status[s] \in {"FAILED", "BROKEN", "CLOSED"}
      BY <3>1 DEF ThreadInv, FdsInv
    <3>. QED
      BY <3>1, <3>2, CloseKeepsPeers DEF ThreadInv
  <2>. QED
    BY <2>1, <2>2
<1>3. ASSUME NEW s \in Socks, HandleLostPeer(s) PROVE KeepsPeers
  <2>1. Turn(s) /\ Lost(s) /\ ClosePeer(s)
    BY <1>3 DEF HandleLostPeer
  <2>2. s \in writefds \cup readfds /\ status[s] \in Statuses
    BY <2>1, TurnTypes
  <2>3. status[s] \notin {"UNUSED", "CONNECTING"}
    BY <2>2 DEF ThreadInv, FdsInv
  <2>4. status[s] \in {"FAILED", "BROKEN", "CLOSED"}
    BY <2>1, <2>2, <2>3 DEF Lost, StateOf, Statuses
  <2>. QED
    BY <2>1, <2>4, CloseKeepsPeers DEF ThreadInv
<1>4. ASSUME NEW s \in Socks, PeerConnected(s) PROVE KeepsPeers
  <2>1. ASSUME NEW i \in Peers PROVE peerNode'[i].sock = peerNode[i].sock
    BY <1>4 DEF PeerConnected, FoundPeer, Peers, ThreadInv, TypeOK
  <2>. QED
    BY <2>1 DEF KeepsPeers
<1>5. CASE HandleServerMsg
  <2>1. PICK told \in SUBSET Ids : \E punch \in Punches(told) :
            StartPunches(punch) /\ AddPeers(punch)
    BY <1>5 DEF HandleServerMsg
  <2>2. PICK punch \in Punches(told) : AddPeers(punch)
    BY <2>1
  <2>3. \A i \in Peers : peerNode'[i] = peerNode[i]
    BY <2>2 DEF AddPeers, Peers
  <2>. QED
    BY <2>3 DEF KeepsPeers
<1>6. \/ UNCHANGED peerNode
      \/ \E s \in All : HandleError(s)
      \/ \E s \in Socks : HandleLostPeer(s) \/ PeerConnected(s)
      \/ HandleServerMsg
  BY DEF Next, Network, Thread, ServerSends, Progress, PeerSends, StartClient, EpollWait,
     LoopDone, HandleLostBoot, ReconnectFails, BootConnected, HandlePeerMsg
<1>. QED
  BY <1>1, <1>2, <1>3, <1>4, <1>5, <1>6

-----------------------------------------------------------------------------
(* The theorems.                                                           *)

(* Every variable of the boot thread keeps its type, and every round of    *)
(* the epoll is worked off before the next.                                *)
THEOREM ThreadTypes == Spec => []TypeOK
<1>1. ThreadInv => TypeOK
  BY DEF ThreadInv
<1>. QED
  BY <1>1, InvInit, ThreadInvNext, PTL DEF Spec

(* The server is asked once per connection: not before the connection      *)
(* stands, and always before the thread listens on it.                     *)
THEOREM ServerAskedOnce == Spec => []AskedOnce
<1>1. BootInv => AskedOnce
  BY DEF BootInv
<1>. QED
  BY <1>1, InvInit, ThreadInvNext, BootInvNext, PTL DEF Spec

(* No socket leaks: an open one is recorded and watched for errors, for any *)
(* number of nodes told of any number of times.                            *)
THEOREM SocketsTracked == Spec => []OpenSocketTracked
<1>1. PeersInv => OpenSocketTracked
  BY DEF PeersInv
<1>. QED
  BY <1>1, InvInit, ThreadInvNext, PeersInvNext, PTL DEF Spec

(* The hello thread finds in peerNode only open sockets that were opened   *)
(* for the very peer, save for the entry whose socket nobody set.          *)
THEOREM PeersUsable == Spec => []PeerSocketUsable
<1>1. PeersInv => PeerSocketUsable
  BY DEF PeersInv
<1>. QED
  BY <1>1, InvInit, ThreadInvNext, PeersInvNext, PTL DEF Spec

(* A peer leaves the table only when a failed socket of its own is closed. *)
THEOREM PeersStay == Spec => PeersKept
  BY InvInit, ThreadInvNext, KeepsPeersStep, PTL DEF Spec, PeersKept

=============================================================================
