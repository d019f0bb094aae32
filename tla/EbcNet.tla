------------------------------- MODULE EbcNet -------------------------------
(***************************************************************************)
(* The server and its nodes together.  Each node talks to the server on    *)
(* one connection at a time (boot_sock), asks once on each, reads what the *)
(* server really sent on it, joined and cut as recv returns it, and        *)
(* punches towards the contacts of what unpack accepts.                    *)
(*                                                                         *)
(* The node is the boot thread of Client with its sockets and tables left  *)
(* out; the environment that Client assumes is here the server of Server,  *)
(* and the clients that Server assumes are here these nodes.               *)
(***************************************************************************)
EXTENDS Server, SequencesExt

CONSTANTS PacketNodes, FitMsgs   \* see EbcMsg

E == INSTANCE EbcMsg

VARIABLES
    conn,     \* the connection each node holds to the server, as it believes
    seen,     \* how many messages of a connection the node has read to their end
    rest,     \* what recv left of the next one, if it was cut
    punched,  \* the contacts each node ever punched towards
    missed    \* the contacts in the messages that were lost, by connection

node    == <<conn, seen, rest, punched, missed>>
netVars == <<vars, node>>

NetInit == /\ Init
           /\ conn = [i \in Ids |-> NoSock]
           /\ seen = [s \in Socks |-> 0] /\ rest = [s \in Socks |-> <<>>]
           /\ punched = [i \in Ids |-> {}]
           /\ missed = [s \in Socks |-> {}]

-----------------------------------------------------------------------------
(* The nodes.                                                              *)

\* A node without a connection connects to the server: its first connect, or
\* the reconnection after it found a connection lost.
NodeConnects(i, s) ==
    /\ conn[i] = NoSock
    /\ Connect(s, i)
    /\ conn' = [conn EXCEPT ![i] = s]
    /\ UNCHANGED <<seen, rest, punched, missed>>

\* A node gives up its connection: it finds it lost, whatever the server still
\* believes of it, or the process ends.  What was not read is gone.
NodeLoses(i) ==
    /\ conn[i] # NoSock
    /\ conn' = [conn EXCEPT ![i] = NoSock]
    /\ UNCHANGED <<vars, seen, rest, punched, missed>>

\* The connect succeeded: the node asks for the others.
NodeAsks(i) ==
    /\ conn[i] # NoSock
    /\ SendRequest(conn[i])
    /\ UNCHANGED node

\* A message of the server, as the codec sees it.
AsMsg(m) ==
    IF m.type = "GARBLED" THEN E!Garbled
    ELSE E!packNodes("V", "srv", m.type,
                     IF m.type = "REP" THEN "NODE" ELSE "EMPTY_SUB", SetToSeq(m.contacts))

\* What a connection has for its node, the first message maybe begun before.
Unread(s) ==
    [k \in 1 .. Len(wire[s]) - seen[s] |->
        IF k = 1 /\ rest[s] # <<>> THEN Head(rest[s]) ELSE AsMsg(wire[s][seen[s] + k])]

\* What handleMsg may punch towards when recv returned this; the order in which
\* a list was written is left open.
Punches(chunk) ==
    LET m == E!unpack(chunk)
    IN  IF m.type = "PUNCH" /\ m.nodes # <<>> THEN {{c} : c \in ToSet(m.nodes)}
        ELSE {E!Contacts(m)}

\* Mutant of NodeReads: the message that was cut is counted as read.
NodeReads_TooFar(i) ==
    LET s == conn[i]
    IN  /\ s # NoSock
        /\ \E r \in E!Recvs(Unread(s)) :
              LET cut == Len(r[1]) + Len(r[2]) > Len(Unread(s))
              IN  /\ seen' = [seen EXCEPT ![s] = @ + Len(r[1])]
                  /\ rest' = [rest EXCEPT ![s] = IF cut THEN <<Head(r[2])>> ELSE <<>>]
        /\ UNCHANGED <<vars, conn, punched, missed>>

\* handleMsg of boot_sock at a node.  The messages that end in what recv returned
\* are read; they are lost if recv cut the last one or unpack refuses them, and
\* the first is if it was cut before.
NodeReads(i) ==
    LET s == conn[i]
    IN  /\ s # NoSock
        /\ \E r \in E!Recvs(Unread(s)) :
              LET left == Len(r[2])
                  cut  == Len(r[1]) + left > Len(Unread(s))
                  ends == SubSeq(wire[s], seen[s] + 1, Len(wire[s]) - left)
                  lost == IF cut \/ E!unpack(r[1]) = E!EmptyMsg THEN ends
                          ELSE SubSeq(ends, 1, Len(rest[s]))
              IN  /\ seen' = [seen EXCEPT ![s] = Len(wire[s]) - left]
                  /\ rest' = [rest EXCEPT ![s] = IF cut THEN <<Head(r[2])>> ELSE <<>>]
                  /\ \E told \in Punches(r[1]) :
                        punched' = [punched EXCEPT ![i] = @ \cup told]
                  /\ missed' = [missed EXCEPT ![s] = @ \cup Told(lost)]
        /\ UNCHANGED <<vars, conn>>

Nodes == \E i \in Ids : \/ \E s \in Socks : NodeConnects(i, s)
                        \/ NodeLoses(i) \/ NodeAsks(i) \/ NodeReads(i)

NetNext == \/ Nodes
           \/ (Thread \/ \E s \in Socks : Break(s)) /\ UNCHANGED node

NetSpec == NetInit /\ [][NetNext]_netVars

\* The server's thread and the boot threads of the nodes are run; no node need
\* connect, or connect again, and nothing need break.
NetFairSpec ==
    /\ NetSpec
    /\ WF_netVars(Thread /\ UNCHANGED node)
    /\ \A i \in Ids : WF_netVars(NodeAsks(i) \/ NodeReads(i))

-----------------------------------------------------------------------------
(* Properties.                                                             *)

NodeTypeOK ==
    /\ conn \in [Ids -> Socks \cup {NoSock}]
    /\ seen \in [Socks -> Nat]
    /\ \A s \in Socks : /\ seen[s] + Len(rest[s]) <= Len(wire[s])
                        /\ rest[s] # <<>> => rest[s][1].head = 0
    /\ punched \in [Ids -> SUBSET Contacts]
    /\ missed \in [Socks -> SUBSET Contacts]
    /\ \A i \in Ids : conn[i] # NoSock => owner[conn[i]] = i

\* Nobody is sent on a wrong track: what a node punches towards is a connection
\* that the named node really opened, or the address that was never filled in;
\* and never the connection the node itself holds, though after a reconnection
\* the stale entry may bring it an old one of its own.
PunchesReal ==
    \A i \in Ids : \A c \in punched[i] :
        \/ c.addr = Garbage
        \/ owner[c.addr] = c.id /\ c.addr # conn[i]

\* The end-to-end promise: when two nodes hold connections on which the server
\* has them registered, and have read what it sent, each has punched towards
\* the other's connection - unless the message that named it was lost: recv had
\* cut it, or returned it with one that was cut or has contacts too.
BothPunched ==
    \A i, j \in Ids :
        /\ i # j /\ Alive(i) /\ Alive(j)
        /\ conn[i] = clientNode[i].sock
        /\ seen[conn[i]] = Len(wire[conn[i]])
        => ContactOf(j) \in punched[i] \cup missed[conn[i]]

\* A node is up while it holds the connection it is registered on.
Up(i) == Alive(i) /\ conn[i] = clientNode[i].sock

\* Of two nodes that stay up each eventually punches towards the other, or has
\* lost the message; nobody waits for somebody else's next request.
NodesMeet ==
    \A i, j \in Ids :
        i # j /\ Up(i) /\ Up(j)
            ~> \/ ~Up(i) \/ ~Up(j)
               \/ ContactOf(j) \in punched[i] \cup missed[conn[i]]

\* A GET_NODE that arrived is eventually answered: its node reads the answer,
\* though it may be unable to parse it, unless the connection breaks or is
\* given up or the thread of the server ends.
AnswerRead ==
    \A s \in Socks : request[s] = "arrived" /\ status[s] \in {"QUEUED", "CONNECTED"}
                         ~> \/ seen[s] > 0
                            \/ status[s] \in {"BROKEN", "CLOSED"}
                            \/ owner[s] # NoId /\ conn[owner[s]] # s
                            \/ pc = "exited"
=============================================================================
