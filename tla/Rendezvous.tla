----------------------------- MODULE Rendezvous -----------------------------
(***************************************************************************)
(* What the server promises, without sockets that break, tables or         *)
(* messages: whoever is online has been introduced to all others who are,  *)
(* in both directions.                                                     *)
(***************************************************************************)
CONSTANTS
    Ids,     \* nodes
    Conns,   \* connections of nodes to the server
    NoConn   \* of a node that is not online

VARIABLES
    online,  \* the connection each node is online with
    knows    \* the contacts that were sent on each connection

vars == <<online, knows>>

Online       == {i \in Ids : online[i] # NoConn}
Contact(i, c) == [id |-> i, addr |-> c]

Init == /\ online = [i \in Ids |-> NoConn]
        /\ knows = [c \in Conns |-> {}]

\* Nobody forgets; a node may be told of more than those online.
Learn == \A c \in Conns : knows[c] \subseteq knows'[c]

\* A node comes online: it is told of all who are, and they of it.
Join(i, c) ==
    /\ i \notin Online
    /\ online' = [online EXCEPT ![i] = c]
    /\ \A j \in Online : /\ Contact(i, c) \in knows'[online[j]]
                         /\ Contact(j, online[j]) \in knows'[c]
    /\ Learn

Leave(i) ==
    /\ i \in Online
    /\ online' = [online EXCEPT ![i] = NoConn]
    /\ UNCHANGED knows

\* Somebody is referred to others without being, or staying, online.
Refer == Learn /\ UNCHANGED online

Next == \/ \E i \in Ids : Leave(i) \/ \E c \in Conns : Join(i, c)
        \/ Refer

Spec == Init /\ [][Next]_vars

\* The promise: any two nodes online know each other's contact.
Introduced ==
    \A i, j \in Online : i # j => Contact(j, online[j]) \in knows[online[i]]
=============================================================================
