------------------------------- MODULE Engine -------------------------------
(***************************************************************************)
(* The life of a NetEngine in main.cpp: it is constructed, started, used   *)
(* by four threads at once, and destroyed while two of them, detached, may *)
(* still run.                                                              *)
(*                                                                         *)
(* All threads share the map peerNode without a lock.  The boot thread     *)
(* changes it, the sendHello thread, the command thread and the destructor *)
(* walk it.  A change takes time, from its first to its last store; a step *)
(* of a walk in that time, or after the map is destroyed, is undefined: it *)
(* may revisit or skip peers, copy anything, loop for ever, end the walk,  *)
(* or end the process.  From then on so is every step of that walk, as it  *)
(* is once the element under its iterator was erased.  (A copy that        *)
(* overlaps a change is a step that is taken during the change.)           *)
(***************************************************************************)
EXTENDS Naturals, FiniteSets

CONSTANTS
    N,          \* peers; their ids, in the order of the map, are 2 .. N + 1
    Socks,      \* UDT sockets of punches
    NoSock,     \* no socket
    Garbage     \* the sock of a Node nobody set

ASSUME EngineAssumption ==
    /\ N \in Nat
    /\ NoSock \notin Socks /\ Garbage \notin Socks /\ NoSock # Garbage

VARIABLES
    main, cmd, hello, boot,  \* where the threads are
    flag,       \* boot_thread_flag
    destroyed,  \* the members of the engine are destroyed
    peerNode,   \* the socket each peer is in the map with
    write,      \* the change of the map under way
    owner,      \* the peer a socket was opened for, 0 for none
    sockIdPair, \* the id recorded for a socket, 0 for none
    open,       \* the open sockets
    ready,      \* sockets the epoll_wait of the boot thread may have returned
    at,         \* of each walk: the key of its iterator
    torn,       \* walks whose iterator may be on no element of the map
    copy,       \* the socket the sendHello thread copied
    sentTo,     \* the socket that accepted the hello for the current element
    late        \* hello rounds begun after the engine was told to stop

threads == <<main, cmd, hello, boot>>
table   == <<peerNode, write, owner, sockIdPair, open, ready>>
walks   == <<at, torn, copy>>
vars    == <<threads, flag, destroyed, table, walks, sentTo, late>>

ZeroId  == 1            \* the id of twenty zero bytes comes before all others
Peers   == 2 .. N + 1
Ids     == 1 .. N + 1
End     == N + 2
Nowhere == 0            \* before the first key, or wherever an undefined step led
Walkers == {"hello", "cmd", "main"}
NoWrite == [op |-> "none", id |-> 0, sock |-> NoSock]
Keys    == {i \in Ids : peerNode[i] # NoSock}
Running == main # "crashed" /\ main # "exited"

\* The constructor leaves boot_thread_flag as it finds it.
Init == /\ main = "construct" /\ cmd = "off" /\ hello = "off" /\ boot = "off"
        /\ flag \in BOOLEAN
        /\ destroyed = FALSE
        /\ peerNode = [i \in Ids |-> NoSock] /\ write = NoWrite
        /\ owner = [s \in Socks |-> 0] /\ sockIdPair = [s \in Socks |-> 0]
        /\ open = {} /\ ready = {}
        /\ at = [w \in Walkers |-> End] /\ torn = {} /\ copy = NoSock
        /\ sentTo = NoSock /\ late = 0

-----------------------------------------------------------------------------
(* Walking the map.                                                        *)

\* begin() of the map.
Begin(w) ==
    /\ at' = [at EXCEPT ![w] = Nowhere]
    /\ torn' = torn \ {w}
    /\ UNCHANGED copy

\* The element an iterator is moved to: the map is ordered by key.
NextKey(k) == {i \in Keys \cup {End} : i > k /\ \A j \in Keys \cup {End} : j > k => i <= j}

Undefined(w) == write # NoWrite \/ destroyed \/ w \in torn

\* Where a step of a walk may end up.
Targets(w) == IF Undefined(w) THEN {Nowhere, End} ELSE NextKey(at[w])

\* Mutant of Element: the loop copies before the iterator moves.
Element_Before(w, k) == IF at[w] \in Keys THEN peerNode[at[w]] ELSE NoSock

\* The socket of the element the iterator has moved to; out of an undefined
\* step anything comes.
Element(w, k) == IF k = End THEN NoSock
                 ELSE IF Undefined(w) THEN Garbage ELSE peerNode[k]

\* A step of a walk.
MoveTo(w, k) ==
    /\ at' = [at EXCEPT ![w] = k]
    /\ torn' = IF Undefined(w) THEN torn \cup {w} ELSE torn

\* An undefined step, or a change of a destroyed map, may also end the process.
Crash ==
    /\ \/ \E w \in Walkers : at[w] # End /\ Undefined(w)
       \/ write # NoWrite /\ destroyed
    /\ main' = "crashed"
    /\ UNCHANGED <<cmd, hello, boot, flag, destroyed, table, walks, sentTo, late>>

-----------------------------------------------------------------------------
(* main and the command thread.                                            *)

\* startClient: the boot thread is started, or an error makes it return
\* before the flag is set.
StartClient ==
    /\ main = "construct"
    /\ main' = "started"
    /\ \/ flag' = TRUE /\ boot' = "check"
       \/ UNCHANGED <<flag, boot>>
    /\ UNCHANGED <<cmd, hello, destroyed, table, walks, sentTo, late>>

StartCmd ==
    /\ main = "started"
    /\ main' = "spawned" /\ cmd' = "read"
    /\ UNCHANGED <<hello, boot, flag, destroyed, table, walks, sentTo, late>>

SendHello ==
    /\ main = "spawned"
    /\ main' = "join" /\ hello' = "check"
    /\ UNCHANGED <<cmd, boot, flag, destroyed, table, walks, sentTo, late>>

\* Mutant of JoinCmd: main does not wait for the command thread.
JoinCmd_NoWait ==
    /\ main = "join"
    /\ main' = "close" /\ flag' = FALSE
    /\ Begin("main")
    /\ UNCHANGED <<cmd, hello, boot, destroyed, table, sentTo, late>>

\* Mutant of JoinCmd: main waits for the sendHello thread as well.
JoinCmd_All ==
    /\ main = "join" /\ cmd = "done" /\ hello = "ended"
    /\ main' = "close" /\ flag' = FALSE
    /\ Begin("main")
    /\ UNCHANGED <<cmd, hello, boot, destroyed, table, sentTo, late>>

\* The command thread is done: main returns and the destructor runs.
JoinCmd ==
    /\ main = "join" /\ cmd = "done"
    /\ main' = "close" /\ flag' = FALSE
    /\ Begin("main")
    /\ UNCHANGED <<cmd, hello, boot, destroyed, table, sentTo, late>>

\* What a socket number may name: one nobody set is anything.
Named(s) == IF s = Garbage THEN Socks \cup {NoSock} ELSE {s}

\* The destructor closes the socket of each peer it finds.
CloseNext ==
    /\ main = "close" /\ at["main"] # End
    /\ \E k \in Targets("main") :
          /\ MoveTo("main", k)
          /\ \E s \in Named(Element("main", k)) : open' = open \ {s}
    /\ UNCHANGED <<threads, flag, destroyed, peerNode, write, owner, sockIdPair, ready,
                   copy, sentTo, late>>

\* Then the members are destroyed, the map maybe in the middle of a change.
Destroy ==
    /\ main = "close" /\ at["main"] = End
    /\ main' = "return" /\ destroyed' = TRUE
    /\ torn' = IF write = NoWrite THEN torn ELSE torn \cup {"main"}
    /\ UNCHANGED <<cmd, hello, boot, flag, table, at, copy, sentTo, late>>

\* main returns, and the process ends with whatever threads it has.
Return ==
    /\ main = "return"
    /\ main' = "exited"
    /\ UNCHANGED <<cmd, hello, boot, flag, destroyed, table, walks, sentTo, late>>

Main == StartClient \/ StartCmd \/ SendHello \/ JoinCmd \/ CloseNext \/ Destroy \/ Return

\* A character is read: q ends the thread, 0 and 1 print the peers, any other
\* (the end of the input too, again and again) changes nothing.
ReadCmd ==
    /\ cmd = "read"
    /\ \/ cmd' = "done" /\ UNCHANGED walks
       \/ cmd' = "walk" /\ Begin("cmd")
    /\ UNCHANGED <<main, hello, boot, flag, destroyed, table, sentTo, late>>

PrintNext ==
    /\ cmd = "walk"
    /\ \E k \in Targets("cmd") : MoveTo("cmd", k) /\ cmd' = IF k = End THEN "read" ELSE cmd
    /\ UNCHANGED <<main, hello, boot, flag, destroyed, table, copy, sentTo, late>>

-----------------------------------------------------------------------------
(* The sendHello thread.                                                   *)

\* What a thread reads as the flag: of an engine that is gone, anything.
FlagRead == IF destroyed THEN BOOLEAN ELSE {flag}

\* Mutant of HelloCheck: the flag is not looked at again.
HelloCheck_Forever ==
    /\ hello = "check"
    /\ hello' = "sleep"
    /\ UNCHANGED <<main, cmd, boot, flag, destroyed, table, walks, sentTo, late>>

\* The loop condition; then the thread sleeps.
HelloCheck ==
    /\ hello = "check"
    /\ \E f \in FlagRead : hello' = IF f THEN "sleep" ELSE "ended"
    /\ UNCHANGED <<main, cmd, boot, flag, destroyed, table, walks, sentTo, late>>

\* Five seconds later it walks the map, whatever has become of the engine.
HelloWakes ==
    /\ hello = "sleep"
    /\ hello' = "walk" /\ Begin("hello")
    /\ late' = IF main = "close" THEN late + 1 ELSE late
    /\ UNCHANGED <<main, cmd, boot, flag, destroyed, table, sentTo>>

HelloNext ==
    /\ hello = "walk"
    /\ \E k \in Targets("hello") : /\ MoveTo("hello", k)
                                   /\ copy' = Element("hello", k)
                                   /\ hello' = IF k = End THEN "check" ELSE "send"
    /\ sentTo' = NoSock
    /\ UNCHANGED <<main, cmd, boot, flag, destroyed, table, late>>

\* The text is sent on the copied socket, which may refuse it.
HelloSends ==
    /\ hello = "send"
    /\ hello' = "walk"
    /\ sentTo' \in {NoSock} \cup (Named(copy) \cap open)
    /\ UNCHANGED <<main, cmd, boot, flag, destroyed, table, walks, late>>

-----------------------------------------------------------------------------
(* The boot thread, as far as peerNode is concerned.                       *)

\* The loop condition; then epoll_wait returns any of the open sockets.
BootCheck ==
    /\ boot = "check"
    /\ \E f \in FlagRead :
          IF f THEN boot' = "round" /\ ready' = open
               ELSE boot' = "ended" /\ UNCHANGED ready
    /\ UNCHANGED <<main, cmd, hello, flag, destroyed, peerNode, write, owner, sockIdPair,
                   open, walks, sentTo, late>>

\* Mutant of BootDone: a change is left half done.
BootDone_Midway ==
    /\ boot = "round"
    /\ boot' \in {"check", "ended"} /\ ready' = {}
    /\ UNCHANGED <<main, cmd, hello, flag, destroyed, peerNode, write, owner, sockIdPair,
                   open, walks, sentTo, late>>

\* A round of the epoll ends, or an error ends the thread.
BootDone ==
    /\ boot = "round" /\ write = NoWrite
    /\ boot' \in {"check", "ended"} /\ ready' = {}
    /\ UNCHANGED <<main, cmd, hello, flag, destroyed, peerNode, write, owner, sockIdPair,
                   open, walks, sentTo, late>>

\* A change of the map begins: addPeerNode for a punched contact.
BeginInsert(i, s) ==
    /\ boot = "round" /\ write = NoWrite /\ owner[s] = 0
    /\ write' = [op |-> "insert", id |-> i, sock |-> s]
    /\ owner' = [owner EXCEPT ![s] = i]
    /\ sockIdPair' = [sockIdPair EXCEPT ![s] = i] /\ open' = open \cup {s}
    /\ UNCHANGED <<threads, flag, destroyed, peerNode, ready, walks, sentTo, late>>

\* delPeerNode, after the socket was closed: it failed, or the destructor
\* closed it before.
BeginErase(s) ==
    /\ boot = "round" /\ write = NoWrite /\ s \in ready /\ sockIdPair[s] # 0
    /\ write' = [op |-> "erase", id |-> sockIdPair[s], sock |-> s]
    /\ sockIdPair' = [sockIdPair EXCEPT ![s] = 0] /\ open' = open \ {s}
    /\ UNCHANGED <<threads, flag, destroyed, peerNode, owner, ready, walks, sentTo, late>>

\* updatePeerNode for a socket that connected - or was closed earlier in the
\* round, or by the destructor, while the state read last says CONNECTED.  One
\* that is no longer recorded gets the zero id.
BeginUpdate(s) ==
    /\ boot = "round" /\ write = NoWrite /\ s \in ready
    /\ sockIdPair' = [sockIdPair EXCEPT ![s] = IF @ = 0 THEN ZeroId ELSE @]
    /\ write' = [op |-> "update", id |-> sockIdPair'[s], sock |-> s]
    /\ UNCHANGED <<threads, flag, destroyed, peerNode, owner, open, ready, walks,
                   sentTo, late>>

\* What the change leaves for its peer: insert keeps an element that is there,
\* and an update of one that is not makes it, with a socket nobody set.
Written ==
    LET old == peerNode[write.id]
    IN  CASE write.op = "insert" -> IF old = NoSock THEN write.sock ELSE old
          [] write.op = "update" -> IF old = NoSock THEN Garbage ELSE old
          [] OTHER               -> NoSock

\* The change is complete; an erased element takes the iterators on it along.
EndWrite ==
    /\ write # NoWrite
    /\ write' = NoWrite
    /\ peerNode' = [peerNode EXCEPT ![write.id] = Written]
    /\ torn' = IF Written = NoSock THEN torn \cup {w \in Walkers : at[w] = write.id}
                                   ELSE torn
    /\ UNCHANGED <<threads, flag, destroyed, owner, sockIdPair, open, ready, at, copy,
                   sentTo, late>>

Boot == \/ BootCheck \/ BootDone \/ EndWrite
        \/ \E s \in Socks : \/ \E i \in Peers : BeginInsert(i, s)
                            \/ BeginErase(s) \/ BeginUpdate(s)

Hello == HelloCheck \/ HelloWakes \/ HelloNext \/ HelloSends

Next == Running /\ (Main \/ ReadCmd \/ PrintNext \/ Hello \/ Boot \/ Crash)

Spec == Init /\ [][Next]_vars

\* Every thread is run, but one whose walk was torn need not get on; the user
\* need not type anything.
FairSpec == /\ Spec
            /\ WF_vars(Running /\ "main" \notin torn /\ Main)
            /\ WF_vars(Running /\ "cmd" \notin torn /\ PrintNext)
            /\ WF_vars(Running /\ "hello" \notin torn /\ Hello)
            /\ WF_vars(Running /\ (BootCheck \/ BootDone \/ EndWrite))

-----------------------------------------------------------------------------
(* Properties.                                                             *)

TypeOK ==
    /\ main \in {"construct", "started", "spawned", "join", "close", "return", "exited",
                 "crashed"}
    /\ cmd \in {"off", "read", "walk", "done"}
    /\ hello \in {"off", "check", "sleep", "walk", "send", "ended"}
    /\ boot \in {"off", "check", "round", "ended"}
    /\ flag \in BOOLEAN /\ destroyed \in BOOLEAN
    /\ peerNode \in [Ids -> Socks \cup {NoSock, Garbage}]
    /\ write \in [op : {"none", "insert", "erase", "update"}, id : 0 .. N + 1,
                 sock : Socks \cup {NoSock}]
    /\ write # NoWrite => write.id \in Ids /\ boot = "round"
    /\ owner \in [Socks -> {0} \cup Peers] /\ sockIdPair \in [Socks -> 0 .. N + 1]
    /\ open \subseteq Socks /\ ready \subseteq Socks
    /\ at \in [Walkers -> 0 .. End]
    /\ torn \subseteq Walkers
    /\ copy \in Socks \cup {NoSock, Garbage}
    /\ sentTo \in Socks \cup {NoSock}
    /\ late \in Nat

\* The command thread is joined, so its walks never meet the destructor: what
\* can touch the engine after its end is what was detached.
PrintsInLife == at["cmd"] # End => ~destroyed /\ main # "close"

\* A hello that is accepted went to the very peer it names, though its socket
\* was copied before the peer may have left and come back - unless the entry
\* held a socket nobody set, or the copy was made by an undefined step.
HelloToNamedPeer ==
    sentTo # NoSock => owner[sentTo] = at["hello"] \/ copy = Garbage

\* The destructor stops the detached sendHello thread after at most one more
\* round: only a thread that was asleep still walks the map of an engine that
\* is being destroyed.
LateRoundOnce == late <= 1

\* After q the process ends, though neither detached thread need ever end -
\* unless the destructor itself met a change of the map.
QuitExits == cmd = "done" ~> ~Running \/ "main" \in torn
=============================================================================
