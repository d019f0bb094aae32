---------------------------- MODULE EngineProofs ----------------------------
(***************************************************************************)
(* Proofs about Engine, for any number of peers and sockets: what the      *)
(* threads of an engine may rely on although they share its table of peers *)
(* without a lock.                                                         *)
(***************************************************************************)
EXTENDS Engine, TLAPS

\* Keys are numbers before End.
LEMMA Bounds == /\ N \in Nat /\ End \in Nat /\ Nowhere \in 0 .. End /\ End \in 0 .. End
                /\ End \notin Ids /\ 0 \notin Ids /\ Nowhere \notin Ids
                /\ Ids \subseteq Nat /\ Ids \subseteq 0 .. N + 1 /\ Ids \subseteq 0 .. End
                /\ Peers \subseteq Ids /\ ZeroId \in Ids
                /\ NoSock \notin Socks /\ Garbage \notin Socks /\ NoSock # Garbage
  BY EngineAssumption DEF End, Ids, Peers, ZeroId, Nowhere

\* The steps of Next, one for each action.
LEMMA Actions ==
    ASSUME [Next]_vars
    PROVE  \/ StartClient \/ StartCmd \/ SendHello \/ JoinCmd \/ CloseNext
           \/ Destroy \/ Return
           \/ ReadCmd \/ PrintNext
           \/ HelloCheck \/ HelloWakes \/ HelloNext \/ HelloSends
           \/ BootCheck \/ BootDone \/ EndWrite
           \/ \E s \in Socks, i \in Peers : BeginInsert(i, s)
           \/ \E s \in Socks : BeginErase(s) \/ BeginUpdate(s)
           \/ Crash \/ UNCHANGED vars
  BY DEF Next, Main, Hello, Boot

-----------------------------------------------------------------------------
(* Types.                                                                  *)

\* A socket that is open was opened for a peer.
SocketsOwned == \A s \in open : owner[s] \in Peers

\* No thread runs before main started it.
NotStarted ==
    /\ main = "construct" => boot = "off"
    /\ main \in {"construct", "started", "spawned"} => hello = "off"

TypeInv == TypeOK /\ SocketsOwned /\ NotStarted

\* Where a step of a walk may lead.
LEMMA TargetsType ==
    ASSUME NEW w, NEW k \in Targets(w)
    PROVE  /\ k \in 0 .. End
           /\ ~Undefined(w) => k \in Keys \cup {End}
           /\ k \in Keys \cup {End} \/ k = Nowhere
  BY Bounds DEF Targets, NextKey, Keys

\* What a step of a walk copies is a socket, or nothing anybody set.
LEMMA ElementType ==
    ASSUME TypeOK, NEW w, NEW k \in Targets(w)
    PROVE  Element(w, k) \in Socks \cup {NoSock, Garbage}
  BY TargetsType DEF Element, Keys, TypeOK

WalkTypeOK == at \in [Walkers -> 0 .. End] /\ torn \subseteq Walkers

\* A walk that begins has a place to begin at.
LEMMA BeginTypes ==
    ASSUME TypeOK, NEW w \in Walkers, Begin(w)
    PROVE  WalkTypeOK'
  BY Bounds DEF WalkTypeOK, Begin, TypeOK

\* A walk moves to an element, to the end, or out of the map.
LEMMA MoveTypes ==
    ASSUME TypeOK, NEW w \in Walkers, NEW k \in Targets(w), MoveTo(w, k)
    PROVE  WalkTypeOK'
  BY TargetsType DEF WalkTypeOK, MoveTo, TypeOK

\* Every step keeps the types.
LEMMA TypesPreserved == TypeInv /\ [Next]_vars => TypeInv'
  <1> SUFFICES ASSUME TypeOK, SocketsOwned, NotStarted, [Next]_vars
               PROVE  TypeOK' /\ SocketsOwned' /\ NotStarted'
    BY DEF TypeInv
  <1> USE Bounds
  <1>1. CASE StartClient
    <2>1. flag' \in BOOLEAN /\ boot' \in {"off", "check", "round", "ended"}
      BY <1>1 DEF StartClient, TypeOK
    <2>2. write = NoWrite /\ hello = "off"
      BY <1>1 DEF StartClient, TypeOK, NotStarted
    <2>3. main' = "started" /\ UNCHANGED <<cmd, hello, destroyed, table, walks, sentTo, late>>
      BY <1>1 DEF StartClient
    <2> HIDE <1>1
    <2> QED
      BY <2>1, <2>2, <2>3 DEF TypeOK, SocketsOwned, NotStarted, table, walks, threads
  <1>2. CASE StartCmd
    BY <1>2 DEF StartCmd, TypeOK, SocketsOwned, NotStarted, table, walks, threads
  <1>3. CASE SendHello
    BY <1>3 DEF SendHello, TypeOK, SocketsOwned, NotStarted, table, walks, threads
  <1>4. CASE Return
    BY <1>4 DEF Return, TypeOK, SocketsOwned, NotStarted, table, walks, threads
  <1>5. CASE HelloCheck
    BY <1>5 DEF HelloCheck, TypeOK, SocketsOwned, NotStarted, table, walks, threads
  <1>6. CASE HelloSends
    BY <1>6 DEF HelloSends, TypeOK, SocketsOwned, NotStarted, table, walks, threads, Named
  <1>7. CASE BootCheck
    BY <1>7 DEF BootCheck, TypeOK, SocketsOwned, NotStarted, table, walks, threads
  <1>8. CASE BootDone
    BY <1>8 DEF BootDone, TypeOK, SocketsOwned, NotStarted, table, walks, threads
  <1>9. CASE JoinCmd
    <2>1. WalkTypeOK'
      BY <1>9, BeginTypes DEF JoinCmd, Walkers
    <2>2. main' = "close" /\ flag' = FALSE /\ copy' = copy
      BY <1>9 DEF JoinCmd, Begin
    <2>3. UNCHANGED <<cmd, hello, boot, destroyed, table, sentTo, late>>
      BY <1>9 DEF JoinCmd
    <2>4. /\ main' \in {"construct", "started", "spawned", "join", "close", "return",
                        "exited", "crashed"}
          /\ flag' \in BOOLEAN /\ copy' \in Socks \cup {NoSock, Garbage}
      BY <2>2 DEF TypeOK
    <2>5. SocketsOwned' /\ NotStarted'
      BY <2>2, <2>3 DEF SocketsOwned, NotStarted, table
    <2>6. UNCHANGED <<cmd, hello, boot, destroyed, peerNode, write, owner, sockIdPair, open,
                      ready, sentTo, late>>
      BY <2>3 DEF table
    <2> HIDE <1>9
    <2> QED
      BY <2>1, <2>4, <2>5, <2>6 DEF WalkTypeOK, TypeOK
  <1>10. CASE HelloWakes
    <2>1. WalkTypeOK'
      BY <1>10, BeginTypes DEF HelloWakes, Walkers
    <2> QED
      BY <1>10, <2>1 DEF HelloWakes, Begin, WalkTypeOK, TypeOK, SocketsOwned, NotStarted, table, walks, threads
  <1>11. CASE ReadCmd
    <2>1. WalkTypeOK'
      BY <1>11, BeginTypes DEF ReadCmd, Walkers, walks, WalkTypeOK, TypeOK
    <2> QED
      BY <1>11, <2>1 DEF ReadCmd, Begin, WalkTypeOK, TypeOK, SocketsOwned, NotStarted, table, walks, threads
  <1>12. CASE CloseNext
    <2>1. WalkTypeOK'
      BY <1>12, MoveTypes DEF CloseNext, Walkers
    <2> QED
      BY <1>12, <2>1 DEF CloseNext, WalkTypeOK, TypeOK, SocketsOwned, NotStarted, table, walks, threads
  <1>13. CASE PrintNext
    <2>1. WalkTypeOK'
      BY <1>13, MoveTypes DEF PrintNext, Walkers
    <2> QED
      BY <1>13, <2>1 DEF PrintNext, WalkTypeOK, TypeOK, SocketsOwned, NotStarted, table, walks, threads
  <1>14. CASE HelloNext
    <2>1. WalkTypeOK'
      BY <1>14, MoveTypes DEF HelloNext, Walkers
    <2>2. copy' \in Socks \cup {NoSock, Garbage}
      BY <1>14, ElementType DEF HelloNext
    <2> QED
      BY <1>14, <2>1, <2>2 DEF HelloNext, WalkTypeOK, TypeOK, SocketsOwned, NotStarted, table, walks, threads
  <1>15. CASE Destroy
    <2>1. main' = "return" /\ destroyed' \in BOOLEAN
      BY <1>15 DEF Destroy
    <2>2. torn' \subseteq Walkers
      BY <1>15 DEF Destroy, TypeOK, Walkers
    <2>3. UNCHANGED <<cmd, hello, boot, flag, table, at, copy, sentTo, late>>
      BY <1>15 DEF Destroy
    <2> HIDE <1>15
    <2> QED
      BY <2>1, <2>2, <2>3 DEF TypeOK, SocketsOwned, NotStarted, table
  <1>16. CASE Crash
    BY <1>16 DEF Crash, TypeOK, SocketsOwned, NotStarted, table, walks, threads
  <1>17. CASE EndWrite
    <2>1. write.id \in Ids /\ Written \in Socks \cup {NoSock, Garbage}
      BY <1>17 DEF EndWrite, Written, TypeOK
    <2>2. peerNode' \in [Ids -> Socks \cup {NoSock, Garbage}]
      BY <1>17, <2>1 DEF EndWrite, TypeOK
    <2>3. torn' \subseteq Walkers
      BY <1>17 DEF EndWrite, TypeOK
    <2>4. write' = NoWrite /\ NoWrite \in [op : {"none", "insert", "erase", "update"},
                                           id : 0 .. N + 1, sock : Socks \cup {NoSock}]
      BY <1>17 DEF EndWrite, NoWrite
    <2>5. UNCHANGED <<threads, flag, destroyed, owner, sockIdPair, open, ready, at, copy,
                      sentTo, late>>
      BY <1>17 DEF EndWrite
    <2>6. SocketsOwned' /\ NotStarted'
      BY <2>5 DEF SocketsOwned, NotStarted, threads
    <2>7. UNCHANGED <<main, cmd, hello, boot, flag, destroyed, owner, sockIdPair, open, ready,
                      at, copy, sentTo, late>>
      BY <2>5 DEF threads
    <2>8. /\ write' \in [op : {"none", "insert", "erase", "update"}, id : 0 .. N + 1,
                         sock : Socks \cup {NoSock}]
          /\ write' # NoWrite => write'.id \in Ids /\ boot' = "round"
      BY <2>4
    <2> HIDE <1>17
    <2> QED
      BY <2>2, <2>3, <2>6, <2>7, <2>8 DEF TypeOK
  <1>18. CASE \E s \in Socks, i \in Peers : BeginInsert(i, s)
    BY <1>18 DEF BeginInsert, Ids, TypeOK, SocketsOwned, NotStarted, table, walks, threads
  <1>19. CASE \E s \in Socks : BeginErase(s)
    BY <1>19 DEF BeginErase, Ids, TypeOK, SocketsOwned, NotStarted, table, walks, threads
  <1>20. CASE \E s \in Socks : BeginUpdate(s)
    BY <1>20 DEF BeginUpdate, Ids, TypeOK, SocketsOwned, NotStarted, table, walks, threads
  <1>21. CASE UNCHANGED vars
    BY <1>21 DEF vars, TypeOK, SocketsOwned, NotStarted, table, walks, threads
  <1> QED
    BY <1>1, <1>2, <1>3, <1>4, <1>5, <1>6, <1>7, <1>8, <1>9, <1>10, <1>11, <1>12, <1>13, <1>14, <1>15, <1>16, <1>17, <1>18, <1>19, <1>20, <1>21, Actions

-----------------------------------------------------------------------------
(* The command thread and the end of the engine.                           *)

CmdInv ==
    /\ cmd # "walk" => at["cmd"] = End
    /\ main \in {"construct", "started"} => cmd = "off"
    /\ main \in {"close", "return"} \/ destroyed => cmd = "done"
    /\ destroyed => main \in {"return", "exited", "crashed"}

\* Every step keeps main waiting for the command thread.
LEMMA CmdPreserved == TypeInv /\ CmdInv /\ [Next]_vars => CmdInv'
  <1> SUFFICES ASSUME TypeOK, CmdInv, [Next]_vars
               PROVE  CmdInv'
    BY DEF TypeInv
  <1>1. CASE StartClient
    BY <1>1 DEF StartClient, CmdInv, MoveTo, Begin, Walkers, table, walks, threads, TypeOK
  <1>2. CASE StartCmd
    BY <1>2 DEF StartCmd, CmdInv, MoveTo, Begin, Walkers, table, walks, threads, TypeOK
  <1>3. CASE SendHello
    BY <1>3 DEF SendHello, CmdInv, MoveTo, Begin, Walkers, table, walks, threads, TypeOK
  <1>4. CASE JoinCmd
    BY <1>4 DEF JoinCmd, CmdInv, MoveTo, Begin, Walkers, table, walks, threads, TypeOK
  <1>5. CASE CloseNext
    BY <1>5 DEF CloseNext, CmdInv, MoveTo, Begin, Walkers, table, walks, threads, TypeOK
  <1>6. CASE Destroy
    BY <1>6 DEF Destroy, CmdInv, MoveTo, Begin, Walkers, table, walks, threads, TypeOK
  <1>7. CASE Return
    BY <1>7 DEF Return, CmdInv, MoveTo, Begin, Walkers, table, walks, threads, TypeOK
  <1>8. CASE ReadCmd
    BY <1>8 DEF ReadCmd, CmdInv, MoveTo, Begin, Walkers, table, walks, threads, TypeOK
  <1>9. CASE PrintNext
    BY <1>9 DEF PrintNext, CmdInv, MoveTo, Begin, Walkers, table, walks, threads, TypeOK
  <1>10. CASE HelloCheck
    BY <1>10 DEF HelloCheck, CmdInv, MoveTo, Begin, Walkers, table, walks, threads, TypeOK
  <1>11. CASE HelloWakes
    BY <1>11 DEF HelloWakes, CmdInv, MoveTo, Begin, Walkers, table, walks, threads, TypeOK
  <1>12. CASE HelloNext
    BY <1>12 DEF HelloNext, CmdInv, MoveTo, Begin, Walkers, table, walks, threads, TypeOK
  <1>13. CASE HelloSends
    BY <1>13 DEF HelloSends, CmdInv, MoveTo, Begin, Walkers, table, walks, threads, TypeOK
  <1>14. CASE BootCheck
    BY <1>14 DEF BootCheck, CmdInv, MoveTo, Begin, Walkers, table, walks, threads, TypeOK
  <1>15. CASE BootDone
    BY <1>15 DEF BootDone, CmdInv, MoveTo, Begin, Walkers, table, walks, threads, TypeOK
  <1>16. CASE EndWrite
    BY <1>16 DEF EndWrite, CmdInv, MoveTo, Begin, Walkers, table, walks, threads, TypeOK
  <1>17. CASE \E s \in Socks, i \in Peers : BeginInsert(i, s)
    BY <1>17 DEF BeginInsert, CmdInv, MoveTo, Begin, Walkers, table, walks, threads, TypeOK
  <1>18. CASE \E s \in Socks : BeginErase(s)
    BY <1>18 DEF BeginErase, CmdInv, MoveTo, Begin, Walkers, table, walks, threads, TypeOK
  <1>19. CASE \E s \in Socks : BeginUpdate(s)
    BY <1>19 DEF BeginUpdate, CmdInv, MoveTo, Begin, Walkers, table, walks, threads, TypeOK
  <1>20. CASE Crash
    BY <1>20 DEF Crash, CmdInv, MoveTo, Begin, Walkers, table, walks, threads, TypeOK
  <1>21. CASE UNCHANGED vars
    BY <1>21 DEF vars, CmdInv, MoveTo, Begin, Walkers, table, walks, threads, TypeOK
  <1> QED
    BY <1>1, <1>2, <1>3, <1>4, <1>5, <1>6, <1>7, <1>8, <1>9, <1>10, <1>11, <1>12,
       <1>13, <1>14, <1>15, <1>16, <1>17, <1>18, <1>19, <1>20, <1>21, Actions

LateInv ==
    /\ main \in {"close", "return"} => ~flag
    /\ destroyed => main \in {"return", "exited", "crashed"}
    /\ late \in {0, 1}
    /\ late = 1 => /\ hello = "sleep" => destroyed
                   /\ ~flag
                   /\ main \in {"close", "return", "exited", "crashed"}

\* Every step keeps the late round the only one.
LEMMA LatePreserved == TypeInv /\ LateInv /\ [Next]_vars => LateInv'
  <1> SUFFICES ASSUME TypeOK, LateInv, [Next]_vars
               PROVE  LateInv'
    BY DEF TypeInv
  <1>1. CASE StartClient
    BY <1>1 DEF StartClient, LateInv, table, walks, threads, TypeOK
  <1>2. CASE StartCmd
    BY <1>2 DEF StartCmd, LateInv, table, walks, threads, TypeOK
  <1>3. CASE SendHello
    BY <1>3 DEF SendHello, LateInv, table, walks, threads, TypeOK
  <1>4. CASE JoinCmd
    BY <1>4 DEF JoinCmd, LateInv, table, walks, threads, TypeOK
  <1>5. CASE CloseNext
    BY <1>5 DEF CloseNext, LateInv, table, walks, threads, TypeOK
  <1>6. CASE Destroy
    BY <1>6 DEF Destroy, LateInv, table, walks, threads, TypeOK
  <1>7. CASE Return
    BY <1>7 DEF Return, LateInv, table, walks, threads, TypeOK
  <1>8. CASE ReadCmd
    BY <1>8 DEF ReadCmd, LateInv, table, walks, threads, TypeOK
  <1>9. CASE PrintNext
    BY <1>9 DEF PrintNext, LateInv, table, walks, threads, TypeOK
  <1>10. CASE HelloCheck
    BY <1>10 DEF HelloCheck, FlagRead, LateInv, table, walks, threads, TypeOK
  <1>11. CASE HelloWakes
    BY <1>11 DEF HelloWakes, LateInv, table, walks, threads, TypeOK
  <1>12. CASE HelloNext
    BY <1>12 DEF HelloNext, LateInv, table, walks, threads, TypeOK
  <1>13. CASE HelloSends
    BY <1>13 DEF HelloSends, LateInv, table, walks, threads, TypeOK
  <1>14. CASE BootCheck
    BY <1>14 DEF BootCheck, LateInv, table, walks, threads, TypeOK
  <1>15. CASE BootDone
    BY <1>15 DEF BootDone, LateInv, table, walks, threads, TypeOK
  <1>16. CASE EndWrite
    BY <1>16 DEF EndWrite, LateInv, table, walks, threads, TypeOK
  <1>17. CASE \E s \in Socks, i \in Peers : BeginInsert(i, s)
    BY <1>17 DEF BeginInsert, LateInv, table, walks, threads, TypeOK
  <1>18. CASE \E s \in Socks : BeginErase(s)
    BY <1>18 DEF BeginErase, LateInv, table, walks, threads, TypeOK
  <1>19. CASE \E s \in Socks : BeginUpdate(s)
    BY <1>19 DEF BeginUpdate, LateInv, table, walks, threads, TypeOK
  <1>20. CASE Crash
    BY <1>20 DEF Crash, LateInv, table, walks, threads, TypeOK
  <1>21. CASE UNCHANGED vars
    BY <1>21 DEF vars, LateInv, table, walks, threads, TypeOK
  <1> QED
    BY <1>1, <1>2, <1>3, <1>4, <1>5, <1>6, <1>7, <1>8, <1>9, <1>10, <1>11, <1>12,
       <1>13, <1>14, <1>15, <1>16, <1>17, <1>18, <1>19, <1>20, <1>21, Actions

-----------------------------------------------------------------------------
(* Hellos.                                                                 *)

\* The sockets of the table, and of the change under way, were opened for the
\* very peer; so was the socket that the hello thread copied.
OwnersInv ==
    /\ \A i \in Ids : peerNode[i] \in Socks => owner[peerNode[i]] = i
    /\ write # NoWrite => write.op # "none"
    /\ write.op = "insert" => write.sock \in Socks /\ owner[write.sock] = write.id

HelloInv ==
    /\ hello # "walk" => sentTo = NoSock
    /\ hello = "send" /\ copy \in Socks =>
          at["hello"] \in Ids /\ owner[copy] = at["hello"]
    /\ sentTo # NoSock /\ copy # Garbage =>
          at["hello"] \in Ids /\ owner[sentTo] = at["hello"]

\* Every step keeps sockets with the peer they were opened for.
LEMMA HelloPreserved ==
    TypeInv /\ OwnersInv /\ HelloInv /\ [Next]_vars => OwnersInv' /\ HelloInv'
  <1> SUFFICES ASSUME TypeOK, SocketsOwned, NotStarted, OwnersInv, HelloInv, [Next]_vars
               PROVE  OwnersInv' /\ HelloInv'
    BY DEF TypeInv
  <1>1. CASE StartClient
    BY <1>1 DEF StartClient, OwnersInv, HelloInv, table, walks, threads
  <1>2. CASE StartCmd
    BY <1>2 DEF StartCmd, OwnersInv, HelloInv, table, walks, threads
  <1>3. CASE SendHello
    BY <1>3 DEF SendHello, NotStarted, OwnersInv, HelloInv, table, walks, threads
  <1>4. CASE JoinCmd
    BY <1>4 DEF JoinCmd, OwnersInv, HelloInv, MoveTo, Begin, Walkers, table, walks, threads, TypeOK
  <1>5. CASE CloseNext
    BY <1>5 DEF CloseNext, OwnersInv, HelloInv, MoveTo, Begin, Walkers, table, walks, threads, TypeOK
  <1>6. CASE Destroy
    BY <1>6 DEF Destroy, OwnersInv, HelloInv, table, walks, threads
  <1>7. CASE Return
    BY <1>7 DEF Return, OwnersInv, HelloInv, table, walks, threads
  <1>8. CASE ReadCmd
    BY <1>8 DEF ReadCmd, OwnersInv, HelloInv, MoveTo, Begin, Walkers, table, walks, threads, TypeOK
  <1>9. CASE PrintNext
    BY <1>9 DEF PrintNext, OwnersInv, HelloInv, MoveTo, Begin, Walkers, table, walks, threads, TypeOK
  <1>10. CASE HelloCheck
    BY <1>10 DEF HelloCheck, OwnersInv, HelloInv, MoveTo, Begin, Walkers, table, walks, threads, TypeOK
  <1>11. CASE HelloWakes
    BY <1>11 DEF HelloWakes, OwnersInv, HelloInv, MoveTo, Begin, Walkers, table, walks, threads, TypeOK
  <1>12. CASE HelloNext
    <2>1. PICK k \in Targets("hello") : /\ MoveTo("hello", k)
                                        /\ hello' = IF k = End THEN "check" ELSE "send"
      BY <1>12 DEF HelloNext
    <2>2. k \in 0 .. End /\ (~Undefined("hello") => k \in Keys \cup {End})
      BY TargetsType
    <2>3. at'["hello"] = k /\ copy' = Element("hello", k)
      BY <1>12, <2>1 DEF HelloNext, MoveTo, TypeOK, Walkers
    <2>4. sentTo' = NoSock /\ UNCHANGED <<peerNode, write, owner>>
      BY <1>12 DEF HelloNext, table
    <2>5. copy' \in Socks => at'["hello"] \in Ids /\ copy' = peerNode[at'["hello"]]
      BY <2>2, <2>3, Bounds DEF Element, Keys
    <2> QED
      BY <2>1, <2>4, <2>5, Bounds DEF OwnersInv, HelloInv
  <1>13. CASE HelloSends
    BY <1>13, Bounds DEF HelloSends, Named, OwnersInv, HelloInv, table, walks, threads, TypeOK
  <1>14. CASE BootCheck
    BY <1>14 DEF BootCheck, OwnersInv, HelloInv, table, walks, threads
  <1>15. CASE BootDone
    BY <1>15 DEF BootDone, OwnersInv, HelloInv, table, walks, threads
  <1>16. CASE EndWrite
    <2>1. write.id \in Ids /\ write' = NoWrite
      BY <1>16 DEF EndWrite, TypeOK
    <2>2. Written \in Socks => owner[Written] = write.id
      BY <1>16, <2>1, Bounds DEF EndWrite, Written, OwnersInv, TypeOK
    <2>3. OwnersInv'
      BY <1>16, <2>1, <2>2 DEF EndWrite, OwnersInv, TypeOK, NoWrite
    <2> QED
      BY <1>16, <2>3 DEF EndWrite, HelloInv, threads
  <1>17. CASE \E s \in Socks, i \in Peers : BeginInsert(i, s)
    <2>1. PICK s \in Socks, i \in Ids : BeginInsert(i, s)
      BY <1>17 DEF Peers, Ids
    <2>2. owner[s] = 0 /\ owner' = [owner EXCEPT ![s] = i]
      BY <2>1 DEF BeginInsert
    <2>3. \A t \in Socks : owner[t] \in Ids => owner'[t] = owner[t]
      BY <2>2, Bounds DEF TypeOK
    <2>4. OwnersInv'
      BY <2>1, <2>2, <2>3, Bounds DEF BeginInsert, OwnersInv, TypeOK
    <2>5. UNCHANGED <<hello, sentTo, at, copy>>
      BY <2>1 DEF BeginInsert, threads, walks
    <2> QED
      BY <2>3, <2>4, <2>5 DEF HelloInv, TypeOK
  <1>18. CASE \E s \in Socks : BeginErase(s)
    BY <1>18 DEF BeginErase, OwnersInv, HelloInv, table, walks, threads
  <1>19. CASE \E s \in Socks : BeginUpdate(s)
    BY <1>19 DEF BeginUpdate, OwnersInv, HelloInv, table, walks, threads
  <1>20. CASE Crash
    BY <1>20 DEF Crash, OwnersInv, HelloInv, table, walks, threads
  <1>21. CASE UNCHANGED vars
    BY <1>21 DEF vars, OwnersInv, HelloInv, table, walks, threads
  <1> QED
    BY <1>1, <1>2, <1>3, <1>4, <1>5, <1>6, <1>7, <1>8, <1>9, <1>10, <1>11, <1>12,
       <1>13, <1>14, <1>15, <1>16, <1>17, <1>18, <1>19, <1>20, <1>21, Actions

-----------------------------------------------------------------------------
(* The theorems.                                                           *)

EngineInv == TypeInv /\ CmdInv /\ LateInv /\ OwnersInv /\ HelloInv

\* All parts hold at the start.
LEMMA InitInv == Init => EngineInv
  <1> SUFFICES ASSUME Init PROVE EngineInv
    OBVIOUS
  <1> USE Bounds DEF Init
  <1>1. TypeOK
    <2>1. NoWrite \in [op : {"none", "insert", "erase", "update"}, id : 0 .. N + 1,
                       sock : Socks \cup {NoSock}]
      BY DEF NoWrite
    <2>2. /\ peerNode \in [Ids -> Socks \cup {NoSock, Garbage}]
          /\ owner \in [Socks -> {0} \cup Peers] /\ sockIdPair \in [Socks -> 0 .. N + 1]
          /\ open \subseteq Socks /\ ready \subseteq Socks
      OBVIOUS
    <2>3. /\ at \in [Walkers -> 0 .. End] /\ torn \subseteq Walkers
          /\ copy \in Socks \cup {NoSock, Garbage}
      OBVIOUS
    <2>4. flag \in BOOLEAN /\ destroyed \in BOOLEAN
      OBVIOUS
    <2> QED
      BY <2>1, <2>2, <2>3, <2>4 DEF TypeOK
  <1>2. SocketsOwned /\ NotStarted /\ CmdInv /\ LateInv
    BY DEF SocketsOwned, NotStarted, CmdInv, LateInv, Walkers
  <1>3. OwnersInv /\ HelloInv
    BY DEF OwnersInv, HelloInv, NoWrite
  <1> QED
    BY <1>1, <1>2, <1>3 DEF EngineInv, TypeInv

\* So all parts hold throughout.
LEMMA EngineSafe == Spec => []EngineInv
  <1>1. EngineInv /\ [Next]_vars => EngineInv'
    BY TypesPreserved, CmdPreserved, LatePreserved, HelloPreserved DEF EngineInv
  <1> QED
    BY InitInv, <1>1, PTL DEF Spec

\* The variables keep their types; a thread that leaves a round of its epoll
\* has completed its changes of the table.
THEOREM EngineTypes == Spec => []TypeOK
  BY EngineSafe, PTL DEF EngineInv, TypeInv

\* A hello goes to the peer it names, although the socket it goes to was copied
\* from a table that changed since.
THEOREM HellosNamed == Spec => []HelloToNamedPeer
  <1>1. EngineInv => HelloToNamedPeer
    BY DEF EngineInv, HelloInv, HelloToNamedPeer
  <1> QED
    BY EngineSafe, <1>1, PTL

\* The command thread never walks the table of an engine that is being, or has
\* been, destroyed.
THEOREM PrintsSafe == Spec => []PrintsInLife
  <1>1. EngineInv => PrintsInLife
    BY DEF EngineInv, CmdInv, PrintsInLife
  <1> QED
    BY EngineSafe, <1>1, PTL

\* The sendHello thread begins at most one round after the engine was told to
\* stop.
THEOREM OneLateRound == Spec => []LateRoundOnce
  <1>1. EngineInv => LateRoundOnce
    BY DEF EngineInv, LateInv, LateRoundOnce
  <1> QED
    BY EngineSafe, <1>1, PTL
=============================================================================
