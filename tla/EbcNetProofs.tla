---------------------------- MODULE EbcNetProofs ----------------------------
(***************************************************************************)
(* Proofs about the server and its nodes together: the network behaves as  *)
(* the server's environment should, so what holds of the server holds      *)
(* here; nodes punch towards real connections only; and nodes that are up  *)
(* and have read their messages have punched towards each other, unless    *)
(* the message was lost.                                                   *)
(***************************************************************************)
EXTENDS EbcNet, ServerProofs

(* The connection a node holds.                                            *)
ConnOK == conn \in [Ids -> Socks \cup {NoSock}]

\* The connection a node holds stays its own.
LEMMA ConnOKNext == ConnOK /\ [NetNext]_netVars => ConnOK'
  BY DEF ConnOK, NetNext, Nodes, NodeConnects, NodeLoses, NodeAsks, NodeReads,
     node, netVars

\* Each step of the network is one of Server or leaves its variables alone.
LEMMA NetStepsServer == ConnOK /\ [NetNext]_netVars => [Next]_vars
<1>. SUFFICES ASSUME ConnOK, NetNext PROVE [Next]_vars
  BY DEF netVars, vars
<1>1. ASSUME NEW i \in Ids, NEW s \in Socks, NodeConnects(i, s) PROVE [Next]_vars
  BY <1>1 DEF NodeConnects, Next, Network
<1>2. ASSUME NEW i \in Ids, NodeLoses(i) \/ NodeReads(i) PROVE [Next]_vars
  BY <1>2 DEF NodeLoses, NodeReads
<1>3. ASSUME NEW i \in Ids, NodeAsks(i) PROVE [Next]_vars
  BY <1>3 DEF NodeAsks, ConnOK, Next, Network
<1>4. CASE (Thread \/ \E s \in Socks : Break(s)) /\ UNCHANGED node
  BY <1>4 DEF Next, Network
<1>. QED
  BY <1>1, <1>2, <1>3, <1>4 DEF NetNext, Nodes

(* The nodes are among the clients the server allows for: every property   *)
(* of the server is one of the network.                                    *)
THEOREM NetRunsServer == NetSpec => Spec
<1>1. NetInit => Init /\ ConnOK
  BY DEF NetInit, ConnOK
<1>. QED
  BY <1>1, ConnOKNext, NetStepsServer, PTL DEF NetSpec, Spec

(* What the proofs about the server provide here.                          *)
ServerInv == ConnInv /\ TablesInv /\ LiveAddressReal

\* The invariant of the server holds at the start.
LEMMA ServerInvInit == Init => ServerInv
<1>1. Init => LiveAddressReal
  BY ServerAssumption DEF Init, LiveAddressReal, Alive, Registered, NoNode
<1>. QED
  BY <1>1, ConnInvInit, TablesInvInit DEF ServerInv

\* Every step of the server keeps it.
LEMMA ServerInvNext == ServerInv /\ [Next]_vars => ServerInv'
  BY ConnInvNext, TablesInvNext, LiveAddressRealNext DEF ServerInv

(* An unused socket has no owner; an owner is for ever.                    *)
OwnersOK == \A s \in Socks : status[s] = "UNUSED" <=> owner[s] = NoId

\* Only Connect gives a socket an owner.
LEMMA OwnersStep ==
    ASSUME ServerInv, OwnersOK, [Next]_vars
    PROVE  /\ OwnersOK'
           /\ \A s \in Socks : owner[s] # NoId => owner'[s] = owner[s]
<1>. USE ServerAssumption DEF ServerInv, ConnInv, TypeOK, thread, tables, remote
<1>1. CASE \E s \in Socks, i \in Ids : Connect(s, i)
  BY <1>1 DEF Connect, OwnersOK
<1>2. CASE \E s \in Socks : SendRequest(s) \/ Break(s)
  BY <1>2 DEF SendRequest, Break, OwnersOK
<1>3. CASE \E s \in Socks : HandleError(s) \/ HandleBroken(s)
  <2>1. PICK s \in Socks : HandleError(s) \/ HandleBroken(s)
    BY <1>3
  <2>2. status[s] = "BROKEN" /\ status' = [status EXCEPT ![s] = "CLOSED"] /\ owner' = owner
    BY <2>1 DEF HandleError, HandleBroken, DropClient
  <2>. QED
    BY <2>2 DEF OwnersOK
<1>4. CASE Accept \/ HandleGetNode
  BY <1>4 DEF Accept, HandleGetNode, QueuedSocks, OwnersOK
<1>5. CASE \/ StartServer \/ EpollWait \/ EpollFails \/ ErrorsHandled
           \/ ReadsHandled \/ HandleNothing \/ UNCHANGED vars
           \/ \E s \in Socks : CheckReadable(s)
  BY <1>5 DEF StartServer, EpollWait, EpollFails, ErrorsHandled, ReadsHandled,
     HandleNothing, CheckReadable, vars, OwnersOK
<1>. QED
  BY <1>1, <1>2, <1>3, <1>4, <1>5 DEF Next, Network, Thread

-----------------------------------------------------------------------------
(* What is on the wires, and what the codec makes of it.                   *)

(* Only contacts are told on a wire.                                       *)
LEMMA WireContacts ==
    ASSUME TypeOK, NEW t \in Socks
    PROVE  Told(wire[t]) \subseteq Contacts
<1>1. wire[t] \in Seq(Messages)
  BY DEF TypeOK
<1>2. \A k \in DOMAIN wire[t] : wire[t][k] \in Messages
  BY <1>1
<1>3. \A k \in DOMAIN wire[t] : wire[t][k].contacts \subseteq Contacts
  BY <1>2 DEF Messages
<1>. QED
  BY <1>3 DEF Told

(* What was sent stays.                                                    *)
LEMMA WiresGrow ==
    ASSUME ConnInv, TablesInv, [Next]_vars, NEW t \in Socks
    PROVE  /\ wire[t] \in Seq(Messages) /\ Len(wire'[t]) \in Nat
           /\ Len(wire[t]) <= Len(wire'[t])
           /\ \A k \in 1 .. Len(wire[t]) : wire'[t][k] = wire[t][k]
<1>1. wire[t] \in Seq(Messages)
  BY DEF ConnInv, TypeOK
<1>2. CASE ~HandleGetNode
  BY <1>1, <1>2, OtherSteps
<1>3. CASE HandleGetNode
  <2>. DEFINE p == Punch(owner[cur], cur)
              a == Answer
  <2>1. /\ p \in Messages /\ a \in Messages
        /\ wire'[t] \in {wire[t], Append(wire[t], a), Append(wire[t], p)}
    BY <1>3, GetNodeContext, GetNodeSends
  <2>. HIDE DEF p, a
  <2>. QED
    BY <1>1, <2>1
<1>. QED
  BY <1>2, <1>3

P == INSTANCE EbcMsgProofs WITH EbcNodes <- Contacts

\* The operators of EbcMsg are those that EbcMsgProofs is about.
LEMMA SameCodec ==
    /\ E!EmptyMsg = P!EmptyMsg /\ E!Garbled = P!Garbled
    /\ \A v, self, type, sub, nodes :
          E!packNodes(v, self, type, sub, nodes) = P!packNodes(v, self, type, sub, nodes)
    /\ \A m, n : E!MergeFrom(m, n) = P!MergeFrom(m, n)
    /\ \A m : E!Contacts(m) = P!Contacts(m)
<1>1. /\ E!EmptyMsg = P!EmptyMsg /\ E!Garbled = P!Garbled
      /\ \A v, self, type, sub, nodes :
            E!packNodes(v, self, type, sub, nodes) = P!packNodes(v, self, type, sub, nodes)
  BY DEF E!EmptyMsg, P!EmptyMsg, E!Garbled, P!Garbled, E!packNodes, P!packNodes,
         E!MsgHead, P!MsgHead
<1>2. \A m, n : E!MergeFrom(m, n) = P!MergeFrom(m, n)
  BY DEF E!MergeFrom, P!MergeFrom, E!Over, P!Over
<1>3. \A m : E!Contacts(m) = P!Contacts(m)
  BY Zenon DEF E!Contacts, P!Contacts, E!ToSet, P!ToSet
<1>. QED
  BY <1>1, <1>2, <1>3

\* It unpacks the same.
LEMMA SameUnpack == ASSUME NEW c PROVE E!unpack(c) = P!unpack(c)
<1>1. E!Parse(c) = P!Parse(c)
  BY DEF E!Parse, P!Parse, E!MergeFrom, P!MergeFrom, E!Over, P!Over,
         E!FoldLeft, E!MapThenFoldSet, E!Max, P!FoldLeft, P!MapThenFoldSet, P!Max,
         E!EmptyMsg, P!EmptyMsg
<1>2. E!Parses(c) = P!Parses(c)
  BY DEF E!Parses, P!Parses
<1>3. \A m : E!Wellformed(m) = P!Wellformed(m)
  BY DEF E!Wellformed, P!Wellformed, E!BodyLength, P!BodyLength, E!MsgHead, P!MsgHead
<1>. QED
  BY <1>1, <1>2, <1>3, SameCodec DEF E!unpack, P!unpack

\* A finite set in some order.
LEMMA InOrder ==
    ASSUME NEW S, IsFiniteSet(S)
    PROVE  /\ SetToSeq(S) \in Seq(S)
           /\ {SetToSeq(S)[k] : k \in DOMAIN SetToSeq(S)} = S
           /\ SetToSeq(S) = <<>> <=> S = {}
           /\ Len(SetToSeq(S)) = Cardinality(S)
<1>. DEFINE n == Cardinality(S)
            D == 1 .. n
            f == CHOOSE g \in [D -> S] : IsInjective(g)
<1>1. n \in Nat /\ ExistsBijection(D, S)
  BY FS_CardinalityType
<1>2. \E g \in [D -> S] : IsInjective(g)
  BY <1>1 DEF ExistsBijection, Bijection, Injection
<1>3. f \in [D -> S] /\ IsInjective(f)
  BY <1>2
<1>4. SetToSeq(S) = f
  BY DEF SetToSeq
<1>. HIDE DEF f
<1>5. Cardinality(D) = n
  BY <1>1, FS_Interval
<1>6. f \in Surjection(D, S)
  <2>1. f \in Injection(D, S)
    BY <1>3 DEF Injection
  <2>. HIDE DEF D, n
  <2>2. Cardinality(D) = Cardinality(S) <=> f \in Surjection(D, S)
    BY <2>1, FS_Injection
  <2>. QED
    BY <1>5, <2>2 DEF n
<1>7. {f[k] : k \in DOMAIN f} = S
  BY <1>3, <1>6 DEF Surjection
<1>8. f \in Seq(S)
  BY <1>1, <1>3
<1>9. f = <<>> <=> S = {}
  BY <1>7, <1>8
<1>10. Len(f) = n
  BY <1>1, <1>3
<1>. QED
  BY <1>4, <1>7, <1>8, <1>9, <1>10

(* What the server packs: finitely many contacts, and a single one in a    *)
(* notification.                                                           *)
Packed(m) == /\ m \in Messages /\ IsFiniteSet(m.contacts)
             /\ m.type = "PUNCH" => \E c : m.contacts = {c}

(* Inductive with ServerInv: finitely many clients are registered, and all *)
(* that is on a wire was packed so.                                        *)
PackedInv ==
    /\ IsFiniteSet(Registered)
    /\ \A t \in Socks : \A k \in 1 .. Len(wire[t]) : Packed(wire[t][k])

\* Nothing was sent at the start.
LEMMA PackedInvInit == Init => PackedInv
<1>. SUFFICES ASSUME Init PROVE PackedInv
  OBVIOUS
<1>1. Registered = {}
  BY DEF Init, Registered, NoNode
<1>2. \A t \in Socks : Len(wire[t]) = 0
  BY DEF Init
<1>. QED
  BY <1>1, <1>2, FS_EmptySet DEF PackedInv

\* A PUNCH has the contact of its node; an answer has those of the registered.
LEMMA ServerPacks ==
    ASSUME ConnInv, TablesInv, HandleGetNode, IsFiniteSet(Registered)
    PROVE  Packed(Answer) /\ Packed(Punch(owner[cur], cur))
<1>1. Answer \in Messages /\ Punch(owner[cur], cur) \in Messages
  BY GetNodeContext
<1>2. Packed(Punch(owner[cur], cur))
  <2>. DEFINE c == [id |-> owner[cur], addr |-> PeerName(cur)]
  <2>1. Punch(owner[cur], cur).contacts = {c}
    BY DEF Punch
  <2>. HIDE DEF c
  <2>. QED
    BY <1>1, <2>1, FS_Singleton DEF Packed
<1>3. Packed(Answer)
  <2>. DEFINE S == {ContactOf(i) : i \in Registered}
              f == [i \in Registered |-> ContactOf(i)]
  <2>1. IsFiniteSet(S)
    <3>1. f \in Surjection(Registered, S)
      BY DEF Surjection
    <3>. HIDE DEF f, S
    <3>. QED
      BY <3>1, FS_Surjection
  <2>2. Answer.contacts \in {S, {}} /\ Answer.type # "PUNCH"
    BY DEF Answer
  <2>. HIDE DEF S
  <2>. QED
    BY <1>1, <2>1, <2>2, FS_EmptySet DEF Packed
<1>. QED
  BY <1>2, <1>3

\* Whatever a handler sends is a packed message.
LEMMA PackedInvNext ==
    ASSUME ConnInv, TablesInv, PackedInv, [Next]_vars
    PROVE  PackedInv'
<1>1. CASE ~HandleGetNode
  <2>1. UNCHANGED wire /\ \A i \in Ids : clientNode'[i] \in {clientNode[i], NoNode}
    BY <1>1, OtherSteps
  <2>2. Registered' \in SUBSET Registered
    BY <2>1 DEF Registered, NoNode
  <2>3. IsFiniteSet(Registered')
    BY <2>2, FS_Subset DEF PackedInv
  <2>. QED
    BY <2>1, <2>3 DEF PackedInv, Packed, Messages, Contacts, Addrs
<1>2. CASE HandleGetNode
  <2>. DEFINE p == Punch(owner[cur], cur)
              a == Answer
  <2>1. Packed(a) /\ Packed(p)
    BY <1>2, ServerPacks DEF PackedInv
  <2>2. ASSUME NEW t \in Socks
        PROVE  /\ wire[t] \in Seq(Messages)
               /\ wire'[t] \in {wire[t], Append(wire[t], a), Append(wire[t], p)}
    BY <1>2, GetNodeContext, GetNodeSends
  <2>3. IsFiniteSet(Registered')
    <3>1. Registered' \in SUBSET (Registered \cup {owner[cur]})
      BY <1>2 DEF HandleGetNode, addClientNode, Registered, ConnInv, TypeOK
    <3>2. IsFiniteSet(Registered \cup {owner[cur]})
      BY FS_AddElement DEF PackedInv
    <3>. QED
      BY <3>1, <3>2, FS_Subset
  <2>. HIDE DEF p, a
  <2>4. ASSUME NEW t \in Socks, NEW k \in 1 .. Len(wire'[t]) PROVE Packed(wire'[t][k])
    <3>1. CASE k \in 1 .. Len(wire[t])
      <4>1. wire'[t][k] = wire[t][k]
        BY <2>2, <3>1
      <4>. QED
        BY <3>1, <4>1 DEF PackedInv
    <3>2. CASE k \notin 1 .. Len(wire[t])
      <4>1. wire'[t][k] \in {a, p}
        BY <2>2, <2>4, <3>2
      <4>. QED
        BY <2>1, <4>1
    <3>. QED
      BY <3>1, <3>2
  <2>. QED
    BY <2>3, <2>4 DEF PackedInv, Packed, Messages, Contacts, Addrs
<1>. QED
  BY <1>1, <1>2

\* Such a message, as the codec sees it, is a listing of its contacts.
LEMMA PackedIsListing ==
    ASSUME NEW m, Packed(m)
    PROVE  /\ m.type = "GARBLED" => AsMsg(m) = P!Garbled
           /\ m.type # "GARBLED" =>
                 /\ P!Listing(AsMsg(m))
                 /\ AsMsg(m).type = m.type /\ AsMsg(m).nodes = SetToSeq(m.contacts)
                 /\ m.type = "REP" => AsMsg(m).sub = "NODE"
<1>1. m.type = "GARBLED" => AsMsg(m) = P!Garbled
  BY SameCodec DEF AsMsg
<1>2. ASSUME m.type # "GARBLED"
      PROVE  /\ P!Listing(AsMsg(m))
             /\ AsMsg(m).type = m.type /\ AsMsg(m).nodes = SetToSeq(m.contacts)
             /\ m.type = "REP" => AsMsg(m).sub = "NODE"
  <2>. DEFINE sub == IF m.type = "REP" THEN "NODE" ELSE "EMPTY_SUB"
              nodes == SetToSeq(m.contacts)
  <2>1. AsMsg(m) = P!packNodes("V", "srv", m.type, sub, nodes)
    BY <1>2, SameCodec DEF AsMsg
  <2>2. nodes \in Seq(Contacts) /\ m.type # "EMPTY"
    <3>1. m.contacts \in SUBSET Contacts /\ m.type \in {"REP", "PUNCH", "GARBLED"}
      BY DEF Packed, Messages
    <3>2. nodes \in Seq(m.contacts)
      BY InOrder DEF Packed
    <3>. HIDE DEF nodes
    <3>. QED
      BY <3>1, <3>2
  <2>. HIDE DEF nodes, sub
  <2>3. P!Listing(AsMsg(m))
    BY <2>1, <2>2, Zenon DEF P!Listing
  <2>4. AsMsg(m).type = m.type /\ AsMsg(m).nodes = nodes /\ AsMsg(m).sub = sub
    BY <2>1 DEF P!packNodes
  <2>. QED
    BY <2>3, <2>4 DEF nodes, sub
<1>. QED
  BY <1>1, <1>2

-----------------------------------------------------------------------------
(* What a recv returns to a node, and what it leaves.                      *)

(* A message of contacts, or a piece of one, that names some of C: only a  *)
(* list has a length above one.                                            *)
Piece(p, C) == /\ p.nodes \in Seq(C)
               /\ p = P!Garbled \/ (P!Part(p) /\ (p.sub # "NODE" => p.length <= 1))

\* A queue of them.
Pieces(q, C) == \A k \in 1 .. Len(q) : Piece(q[k], C)

\* Bytes that do not parse, and those that are skipped, are pieces.
LEMMA NothingIsPiece ==
    ASSUME NEW C
    PROVE  /\ Piece(E!Garbled, C) /\ Piece(E!EmptyMsg, C)
           /\ E!Garbled.head = 0 /\ E!EmptyMsg.head = 0
<1>1. /\ E!Garbled.nodes = <<>> /\ E!Garbled.head = 0
      /\ E!EmptyMsg.nodes = <<>> /\ E!EmptyMsg.head = 0 /\ E!EmptyMsg.length = 0
  BY DEF E!Garbled, E!EmptyMsg
<1>2. <<>> \in Seq(C)
  OBVIOUS
<1>. QED
  BY <1>1, <1>2, SameCodec, P!ListingIsPart DEF Piece

\* The fields of the two pieces of a message that is cut between two fields.
LEMMA PieceFields ==
    ASSUME NEW m, NEW k \in 1 .. 7
    PROVE  /\ k # 7 => /\ E!First(m, k).nodes = <<>> /\ E!First(m, k).body = "none"
                       /\ E!First(m, k).length \in {0, m.length}
                       /\ E!First(m, k).sub \in {"EMPTY_SUB", m.sub}
           /\ E!Rest(m, k).head = 0
           /\ \/ E!Rest(m, k).nodes = <<>> /\ E!Rest(m, k).body = "none"
              \/ E!Rest(m, k).nodes = m.nodes /\ E!Rest(m, k).body = m.body
           /\ E!Rest(m, k).length = m.length => E!Rest(m, k).nodes = m.nodes \/ m.length = 0
           /\ E!Rest(m, k).length \in {0, m.length}
           /\ E!Rest(m, k).sub \in {"EMPTY_SUB", m.sub}
<1>1. /\ {"head", "nodes", "body", "length", "sub"} \subseteq DOMAIN E!EmptyMsg
      /\ E!EmptyMsg.nodes = <<>> /\ E!EmptyMsg.body = "none" /\ E!EmptyMsg.length = 0
      /\ E!EmptyMsg.head = 0 /\ E!EmptyMsg.sub = "EMPTY_SUB"
  BY DEF E!EmptyMsg
<1>2. /\ E!Place.nodes = 7 /\ E!Place.body = 7 /\ E!Place.length = 6
      /\ E!Place.head = 1 /\ E!Place.sub = 5
  BY DEF E!Place
<1>3. \A f \in {"head", "nodes", "body", "length", "sub"} :
         /\ E!First(m, k)[f] = IF E!Place[f] <= k THEN m[f] ELSE E!EmptyMsg[f]
         /\ E!Rest(m, k)[f] = IF E!Place[f] > k THEN m[f] ELSE E!EmptyMsg[f]
  BY <1>1 DEF E!First, E!Rest
<1>4. k # 7 => E!First(m, k).nodes = <<>> /\ E!First(m, k).body = "none"
  BY <1>1, <1>2, <1>3
<1>5. /\ E!First(m, k).length \in {0, m.length} /\ E!Rest(m, k).length \in {0, m.length}
      /\ E!First(m, k).sub \in {"EMPTY_SUB", m.sub} /\ E!Rest(m, k).sub \in {"EMPTY_SUB", m.sub}
  BY <1>1, <1>2, <1>3
<1>6. E!Rest(m, k).head = 0
  BY <1>1, <1>2, <1>3
<1>7. /\ \/ E!Rest(m, k).nodes = <<>> /\ E!Rest(m, k).body = "none"
         \/ E!Rest(m, k).nodes = m.nodes /\ E!Rest(m, k).body = m.body
      /\ E!Rest(m, k).length = m.length => E!Rest(m, k).nodes = m.nodes \/ m.length = 0
  <2>1. CASE k = 7
    BY <1>1, <1>2, <1>3, <2>1
  <2>2. CASE k # 7
    BY <1>1, <1>2, <1>3, <2>2
  <2>. QED
    BY <2>1, <2>2
<1>. QED
  BY <1>4, <1>5, <1>6, <1>7

\* The pieces of a message, or of a piece, are pieces, and what is left does not
\* begin with a header that unpack would know.
LEMMA CutPieces ==
    ASSUME NEW C, NEW m, Piece(m, C), NEW c \in E!Cuts(m)
    PROVE  Piece(c[1], C) /\ Piece(c[2], C) /\ c[2].head = 0
<1>1. CASE m \in {E!Garbled, E!EmptyMsg}
  <2>1. c \in {E!Garbled, E!EmptyMsg} \X {E!Garbled, E!EmptyMsg}
    BY <1>1 DEF E!Cuts
  <2>. QED
    BY <2>1, NothingIsPiece
<1>2. CASE m \notin {E!Garbled, E!EmptyMsg} /\ m.sub = "NODE"
  <2>1. c \in {E!Garbled} \X {E!Garbled, E!EmptyMsg}
    BY <1>2 DEF E!Cuts
  <2>. QED
    BY <2>1, NothingIsPiece
<1>3. CASE m \notin {E!Garbled, E!EmptyMsg} /\ m.sub # "NODE"
  <2>1. /\ m.nodes \in Seq(C) /\ P!Part(m) /\ m.length <= 1 /\ m.length \in Nat
        /\ m.nodes \in Seq(Contacts) /\ m.body \in {"none", "nodes"}
        /\ m.nodes # <<>> => m.body = "nodes"
    BY <1>3, SameCodec DEF Piece, P!Part
  <2>2. <<>> \in Seq(C) /\ <<>> \in Seq(Contacts) /\ 0 \in Nat
    OBVIOUS
  <2>3. ASSUME NEW k \in 1 .. 6 PROVE Piece(E!First(m, k), C)
    <3>1. k \in 1 .. 7 /\ k # 7
      OBVIOUS
    <3>2. /\ E!First(m, k).nodes = <<>> /\ E!First(m, k).body = "none"
          /\ E!First(m, k).length \in {0, m.length}
      BY <3>1, PieceFields
    <3>3. E!First(m, k).length \in Nat /\ E!First(m, k).length <= 1
      BY <2>1, <3>2
    <3>. QED
      BY <2>2, <3>2, <3>3 DEF Piece, P!Part
  <2>4. ASSUME NEW k \in 1 .. 7 PROVE Piece(E!Rest(m, k), C) /\ E!Rest(m, k).head = 0
    <3>1. /\ E!Rest(m, k).head = 0 /\ E!Rest(m, k).length \in {0, m.length}
          /\ \/ E!Rest(m, k).nodes = <<>> /\ E!Rest(m, k).body = "none"
             \/ E!Rest(m, k).nodes = m.nodes /\ E!Rest(m, k).body = m.body
      BY PieceFields
    <3>2. E!Rest(m, k).length \in Nat /\ E!Rest(m, k).length <= 1
      BY <2>1, <3>1
    <3>3. /\ E!Rest(m, k).nodes \in Seq(C) /\ E!Rest(m, k).nodes \in Seq(Contacts)
          /\ E!Rest(m, k).body \in {"none", "nodes"}
          /\ E!Rest(m, k).nodes # <<>> => E!Rest(m, k).body = "nodes"
      BY <2>1, <2>2, <3>1
    <3>. QED
      BY <3>1, <3>2, <3>3 DEF Piece, P!Part
  <2>5. \/ c \in {<<E!First(m, k), E!Rest(m, k)>> : k \in 1 .. 6}
        \/ c \in {E!Garbled} \X ({E!Garbled} \cup {E!Rest(m, k) : k \in 1 .. 7})
    BY <1>3 DEF E!Cuts
  <2>6. 1 .. 6 \subseteq 1 .. 7
    OBVIOUS
  <2>. QED
    BY <2>3, <2>4, <2>5, <2>6, NothingIsPiece
<1>. QED
  BY <1>1, <1>2, <1>3

\* The parts of a queue before and behind its nth member.
LEMMA Sliced ==
    ASSUME NEW D, NEW q \in Seq(D), NEW n \in 1 .. Len(q)
    PROVE  /\ SubSeq(q, 1, n) \in Seq(D) /\ SubSeq(q, 1, n - 1) \in Seq(D)
           /\ SubSeq(q, n + 1, Len(q)) \in Seq(D)
           /\ Len(SubSeq(q, 1, n)) = n /\ Len(SubSeq(q, 1, n - 1)) = n - 1
           /\ Len(SubSeq(q, n + 1, Len(q))) = Len(q) - n
           /\ \A k \in 1 .. n : SubSeq(q, 1, n)[k] = q[k]
           /\ \A k \in 1 .. n - 1 : SubSeq(q, 1, n - 1)[k] = q[k]
<1>1. Len(q) \in Nat /\ \A k \in 1 .. Len(q) : q[k] \in D
  OBVIOUS
<1>. DEFINE L == Len(q)
<1>. HIDE DEF L
<1>2. /\ SubSeq(q, 1, n) \in Seq(D) /\ Len(SubSeq(q, 1, n)) = n
      /\ \A k \in 1 .. n : SubSeq(q, 1, n)[k] = q[k]
  BY <1>1
<1>3. /\ SubSeq(q, 1, n - 1) \in Seq(D) /\ Len(SubSeq(q, 1, n - 1)) = n - 1
      /\ \A k \in 1 .. n - 1 : SubSeq(q, 1, n - 1)[k] = q[k]
  BY <1>1
<1>4. SubSeq(q, n + 1, L) \in Seq(D) /\ Len(SubSeq(q, n + 1, L)) = L - n
  BY <1>1 DEF L
<1>. QED
  BY <1>2, <1>3, <1>4 DEF L

\* Two queues, one behind the other.
LEMMA Joined ==
    ASSUME NEW D, NEW a \in Seq(D), NEW b \in Seq(D)
    PROVE  /\ a \o b \in Seq(D) /\ Len(a \o b) = Len(a) + Len(b)
           /\ \A k \in 1 .. Len(a) : (a \o b)[k] = a[k]
  OBVIOUS

\* A queue with something put back at its head.
LEMMA OnTop ==
    ASSUME NEW D, NEW b \in Seq(D), NEW z
    PROVE  Len(<<z>> \o b) = Len(b) + 1 /\ Head(<<z>> \o b) = z
<1>. DEFINE X == D \cup {z}
            a == <<z>>
<1>1. a \in Seq(X) /\ b \in Seq(X) /\ Len(a) = 1 /\ a[1] = z
  OBVIOUS
<1>. HIDE DEF a, X
<1>2. /\ a \o b \in Seq(X) /\ Len(a \o b) = Len(a) + Len(b)
      /\ \A k \in 1 .. Len(a) : (a \o b)[k] = a[k]
  BY <1>1, Joined
<1>. DEFINE e == a \o b
<1>. HIDE DEF e
<1>3. e \in Seq(X) /\ Len(e) = Len(b) + 1 /\ e[1] = z /\ Len(b) \in Nat
  BY <1>1, <1>2 DEF e
<1>4. Head(e) = e[1]
  BY <1>3
<1>. QED
  BY <1>3, <1>4 DEF e, a

\* What recv returns of a queue, and leaves: whole messages of it, or the last
\* one cut.
LEMMA RecvCases ==
    ASSUME NEW C, NEW D, NEW q \in Seq(D), Pieces(q, C),
           NEW r \in E!Recvs(q)
    PROVE  \E n \in 1 .. Len(q) :
              /\ DOMAIN r[1] = 1 .. n /\ Len(r[1]) = n
              /\ \A k \in 1 .. n : Piece(r[1][k], C)
              /\ \A k \in 1 .. n - 1 : r[1][k] = q[k]
              /\ \/ r[1][n] = q[n] /\ Len(r[2]) = Len(q) - n
                 \/ /\ Len(r[2]) = Len(q) - n + 1
                    /\ Piece(Head(r[2]), C) /\ Head(r[2]).head = 0
<1>1. \/ \E n \in DOMAIN q : r = <<SubSeq(q, 1, n), SubSeq(q, n + 1, Len(q))>>
      \/ \E n \in DOMAIN q : \E c \in E!Cuts(q[n]) :
            r = <<Append(SubSeq(q, 1, n - 1), c[1]), <<c[2]>> \o SubSeq(q, n + 1, Len(q))>>
  BY Zenon DEF E!Recvs
<1>2. DOMAIN q = 1 .. Len(q) /\ Len(q) \in Nat
  OBVIOUS
<1>3. ASSUME NEW n \in 1 .. Len(q), r = <<SubSeq(q, 1, n), SubSeq(q, n + 1, Len(q))>>
      PROVE  /\ DOMAIN r[1] = 1 .. n /\ Len(r[1]) = n
             /\ \A k \in 1 .. n : r[1][k] = q[k]
             /\ Len(r[2]) = Len(q) - n
  <2>. DEFINE a == SubSeq(q, 1, n)
              b == SubSeq(q, n + 1, Len(q))
  <2>1. /\ a \in Seq(D) /\ Len(a) = n /\ \A k \in 1 .. n : a[k] = q[k]
        /\ Len(b) = Len(q) - n
    BY Sliced
  <2>2. r[1] = a /\ r[2] = b
    BY <1>3
  <2>. HIDE DEF a, b
  <2>3. DOMAIN a = 1 .. n
    BY <2>1
  <2>. QED
    BY <2>1, <2>2, <2>3
<1>4. ASSUME NEW n \in 1 .. Len(q), NEW c \in E!Cuts(q[n]),
             r = <<Append(SubSeq(q, 1, n - 1), c[1]), <<c[2]>> \o SubSeq(q, n + 1, Len(q))>>
      PROVE  /\ DOMAIN r[1] = 1 .. n /\ Len(r[1]) = n
             /\ r[1][n] = c[1] /\ \A k \in 1 .. n - 1 : r[1][k] = q[k]
             /\ Len(r[2]) = Len(q) - n + 1 /\ Head(r[2]) = c[2]
  <2>. DEFINE a == SubSeq(q, 1, n - 1)
              b == SubSeq(q, n + 1, Len(q))
              X == D \cup {c[1]}
  <2>1. /\ a \in Seq(D) /\ b \in Seq(D) /\ Len(a) = n - 1 /\ Len(b) = Len(q) - n
        /\ \A k \in 1 .. n - 1 : a[k] = q[k]
    BY Sliced
  <2>2. r[1] = Append(a, c[1]) /\ r[2] = <<c[2]>> \o b
    BY <1>4
  <2>. HIDE DEF a, b
  <2>3. a \in Seq(X) /\ c[1] \in X /\ n \in Nat
    BY <1>2, <2>1
  <2>. HIDE DEF X
  <2>4. /\ Append(a, c[1]) \in Seq(X) /\ Len(Append(a, c[1])) = n
        /\ Append(a, c[1])[n] = c[1] /\ \A k \in 1 .. n - 1 : Append(a, c[1])[k] = a[k]
        /\ DOMAIN Append(a, c[1]) = 1 .. n
    BY <2>1, <2>3
  <2>5. Len(<<c[2]>> \o b) = Len(b) + 1 /\ Head(<<c[2]>> \o b) = c[2]
    BY <2>1, OnTop
  <2>6. Len(q) - n + 1 = Len(b) + 1
    BY <2>1
  <2>. QED
    BY <2>1, <2>2, <2>4, <2>5, <2>6
<1>5. ASSUME NEW n \in 1 .. Len(q), r = <<SubSeq(q, 1, n), SubSeq(q, n + 1, Len(q))>>
      PROVE  \A k \in 1 .. n : Piece(r[1][k], C)
  <2>1. \A k \in 1 .. n : r[1][k] = q[k]
    BY <1>3, <1>5
  <2>2. \A k \in 1 .. n : k \in 1 .. Len(q)
    BY <1>2
  <2>. QED
    BY <2>1, <2>2 DEF Pieces
<1>6. ASSUME NEW n \in 1 .. Len(q), NEW c \in E!Cuts(q[n]),
             r = <<Append(SubSeq(q, 1, n - 1), c[1]), <<c[2]>> \o SubSeq(q, n + 1, Len(q))>>
      PROVE  /\ \A k \in 1 .. n : Piece(r[1][k], C)
             /\ Piece(Head(r[2]), C) /\ Head(r[2]).head = 0
  <2>1. Piece(c[1], C) /\ Piece(c[2], C) /\ c[2].head = 0
    BY <1>2, <1>6, CutPieces DEF Pieces
  <2>2. \A k \in 1 .. n : k \in 1 .. n - 1 \/ k = n
    OBVIOUS
  <2>3. \A k \in 1 .. n - 1 : k \in 1 .. Len(q)
    BY <1>2
  <2>. QED
    BY <1>4, <1>6, <2>1, <2>2, <2>3 DEF Pieces
<1>7. ASSUME NEW n \in 1 .. Len(q) PROVE n \in 1 .. n /\ \A k \in 1 .. n - 1 : k \in 1 .. n
  OBVIOUS
<1>8. CASE \E n \in 1 .. Len(q) : r = <<SubSeq(q, 1, n), SubSeq(q, n + 1, Len(q))>>
  <2>1. PICK n \in 1 .. Len(q) : r = <<SubSeq(q, 1, n), SubSeq(q, n + 1, Len(q))>>
    BY <1>8
  <2>2. /\ DOMAIN r[1] = 1 .. n /\ Len(r[1]) = n
        /\ \A k \in 1 .. n : r[1][k] = q[k]
        /\ Len(r[2]) = Len(q) - n
        /\ \A k \in 1 .. n : Piece(r[1][k], C)
    BY <1>3, <1>5, <2>1
  <2>. QED
    BY <1>7, <2>2
<1>9. CASE \E n \in 1 .. Len(q) : \E c \in E!Cuts(q[n]) :
              r = <<Append(SubSeq(q, 1, n - 1), c[1]), <<c[2]>> \o SubSeq(q, n + 1, Len(q))>>
  BY <1>4, <1>6, <1>9
<1>. QED
  BY <1>1, <1>2, <1>8, <1>9

(* Inductive with ServerInv and PackedInv: a node never reads past what    *)
(* was sent, and what recv left of a message is a piece of it.             *)
RestOf(s) ==
    /\ seen[s] <= Len(wire[s])
    /\ rest[s] # <<>> => /\ Len(rest[s]) = 1 /\ seen[s] < Len(wire[s])
                         /\ rest[s][1] = Head(rest[s])
                         /\ Head(rest[s]).head = 0
                         /\ Piece(Head(rest[s]), Told(wire[s]))

RestInv == /\ seen \in [Socks -> Nat] /\ DOMAIN rest = Socks
           /\ \A s \in Socks : RestOf(s)

\* What a connection has for its node are messages and, first, a piece of one.
LEMMA UnreadPieces ==
    ASSUME ConnInv, PackedInv, RestInv, NEW s \in Socks
    PROVE  /\ wire[s] \in Seq(Messages) /\ seen[s] \in Nat /\ Len(wire[s]) \in Nat
           /\ \E D : Unread(s) \in Seq(D)
           /\ Len(Unread(s)) = Len(wire[s]) - seen[s]
           /\ \A k \in 1 .. Len(Unread(s)) :
                 /\ seen[s] + k \in 1 .. Len(wire[s])
                 /\ Packed(wire[s][seen[s] + k])
                 /\ Piece(Unread(s)[k], Told(wire[s]))
                 /\ rest[s] = <<>> \/ k # 1 => Unread(s)[k] = AsMsg(wire[s][seen[s] + k])
<1>. DEFINE L == Len(wire[s]) - seen[s]
            u(k) == IF k = 1 /\ rest[s] # <<>> THEN Head(rest[s]) ELSE AsMsg(wire[s][seen[s] + k])
            D == {u(k) : k \in 1 .. L}
<1>1. wire[s] \in Seq(Messages) /\ seen[s] \in Nat /\ Len(wire[s]) \in Nat /\ L \in Nat
  <2>1. wire[s] \in Seq(Messages) /\ seen[s] \in Nat /\ seen[s] <= Len(wire[s])
    BY DEF ConnInv, TypeOK, RestInv, RestOf
  <2>. QED
    BY <2>1
<1>2. Unread(s) = [k \in 1 .. L |-> u(k)]
  BY DEF Unread
<1>3. \A k \in 1 .. L : seen[s] + k \in 1 .. Len(wire[s])
  BY <1>1
<1>4. \A k \in 1 .. L : Packed(wire[s][seen[s] + k])
  BY <1>3 DEF PackedInv
<1>. HIDE DEF L
<1>5. ASSUME NEW k \in 1 .. L PROVE Piece(u(k), Told(wire[s]))
  <2>1. CASE k = 1 /\ rest[s] # <<>>
    BY <2>1 DEF RestInv, RestOf
  <2>2. CASE ~(k = 1 /\ rest[s] # <<>>)
    <3>. DEFINE w == wire[s][seen[s] + k]
    <3>1. u(k) = AsMsg(w) /\ Packed(w)
      BY <1>4, <2>2
    <3>2. w.contacts \subseteq Told(wire[s])
      BY <1>1, <1>3 DEF Told
    <3>. HIDE DEF w
    <3>3. Piece(AsMsg(w), Told(wire[s]))
      <4>1. CASE w.type = "GARBLED"
        BY <3>1, <4>1, PackedIsListing, NothingIsPiece, SameCodec
      <4>2. CASE w.type # "GARBLED"
        <5>1. /\ P!Listing(AsMsg(w)) /\ AsMsg(w).nodes = SetToSeq(w.contacts)
              /\ w.type = "REP" => AsMsg(w).sub = "NODE"
          BY <3>1, <4>2, PackedIsListing
        <5>2. P!Part(AsMsg(w)) /\ AsMsg(w).length = Len(AsMsg(w).nodes)
          BY <5>1, P!ListingIsPart, P!ListingFacts
        <5>3. AsMsg(w).nodes \in Seq(Told(wire[s]))
          <6>1. SetToSeq(w.contacts) \in Seq(w.contacts)
            BY <3>1, InOrder DEF Packed
          <6>. HIDE DEF Told
          <6>. QED
            BY <3>2, <5>1, <6>1
        <5>4. w.type = "PUNCH" => AsMsg(w).length <= 1
          <6>1. ASSUME NEW c, w.contacts = {c} PROVE Len(SetToSeq(w.contacts)) = 1
            <7>1. Cardinality(w.contacts) = 1 /\ IsFiniteSet(w.contacts)
              BY <6>1, FS_Singleton
            <7>. QED
              BY <7>1, InOrder
          <6>2. w.type = "PUNCH" => Len(SetToSeq(w.contacts)) = 1
            BY <3>1, <6>1 DEF Packed
          <6>3. AsMsg(w).length = Len(SetToSeq(w.contacts))
            BY <5>1, <5>2
          <6>4. 1 <= 1
            OBVIOUS
          <6>. QED
            BY <6>2, <6>3, <6>4
        <5>5. w.type \in {"REP", "PUNCH"}
          BY <3>1, <4>2 DEF Packed, Messages
        <5>. QED
          BY <5>1, <5>2, <5>3, <5>4, <5>5 DEF Piece
      <4>. QED
        BY <4>1, <4>2
    <3>. QED
      BY <3>1, <3>3
  <2>. QED
    BY <2>1, <2>2
<1>6. Unread(s) \in Seq(D) /\ Len(Unread(s)) = L
  <2>1. Unread(s) \in [1 .. L -> D]
    BY <1>2
  <2>. HIDE DEF D
  <2>. QED
    BY <1>1, <2>1
<1>7. \A k \in 1 .. L : Unread(s)[k] = u(k)
  BY <1>2
<1>. HIDE DEF D
<1>. QED
  BY <1>1, <1>3, <1>4, <1>5, <1>6, <1>7 DEF L

\* What is punched towards was read.
LEMMA PunchesFrom ==
    ASSUME NEW C, NEW chunk, NEW n \in Nat, DOMAIN chunk = 1 .. n,
           \A k \in 1 .. n : Piece(chunk[k], C), NEW told \in Punches(chunk)
    PROVE  told \subseteq C
<1>. DEFINE m == E!unpack(chunk)
<1>1. m = P!unpack(chunk) /\ E!Contacts(m) = P!Contacts(m)
  BY SameCodec, SameUnpack
<1>2. P!Parse(chunk).nodes \in Seq(C) /\ P!Contacts(P!unpack(chunk)) \subseteq C
  BY P!NodesFrom DEF Piece
<1>3. m.nodes \in Seq(C)
  <2>1. <<>> \in Seq(C) /\ P!EmptyMsg.nodes = <<>>
    BY DEF P!EmptyMsg
  <2>. QED
    BY <1>1, <1>2, <2>1 DEF P!unpack
<1>4. E!ToSet(m.nodes) \subseteq C
  <2>. HIDE DEF m
  <2>. QED
    BY <1>3 DEF E!ToSet
<1>5. told \in {{c} : c \in ToSet(m.nodes)} \/ told = E!Contacts(m)
  BY DEF Punches
<1>6. ToSet(m.nodes) = E!ToSet(m.nodes)
  BY DEF ToSet, E!ToSet
<1>. QED
  BY <1>1, <1>2, <1>4, <1>5, <1>6

\* Of messages that unpack accepts, the contacts of all that arrived whole, in
\* that chunk and not before, are punched towards.
LEMMA PunchesAll ==
    ASSUME NEW chunk, NEW n \in Nat, DOMAIN chunk = 1 .. n,
           \A k \in 1 .. n : P!Part(chunk[k]) \/ chunk[k] = P!Garbled,
           E!unpack(chunk) # E!EmptyMsg, NEW told \in Punches(chunk),
           NEW w, Packed(w), NEW l, Packed(l),
           NEW j \in 1 .. n, chunk[j] = AsMsg(w), chunk[n] = AsMsg(l)
    PROVE  w.contacts \subseteq told
<1>. DEFINE m == E!unpack(chunk)
<1>. SUFFICES ASSUME w.contacts # {} PROVE w.contacts \subseteq told
  OBVIOUS
<1>1. m = P!unpack(chunk) /\ m # P!EmptyMsg /\ E!Contacts(m) = P!Contacts(m)
  BY SameCodec, SameUnpack
<1>2. n \in 1 .. n /\ n \in Nat \ {0}
  OBVIOUS
<1>3. chunk[j] # P!Garbled /\ chunk[n] # P!Garbled
  <2>1. P!Parses(chunk)
    BY <1>1 DEF P!unpack
  <2>. QED
    BY <1>2, <2>1, P!GarbledBody DEF P!Parses
<1>4. w.type # "GARBLED" /\ l.type # "GARBLED"
  BY <1>3, PackedIsListing
<1>5. /\ chunk[j].nodes = SetToSeq(w.contacts) /\ chunk[n].nodes = SetToSeq(l.contacts)
      /\ chunk[n].type = l.type /\ (l.type = "REP" => chunk[n].sub = "NODE")
  BY <1>4, PackedIsListing
<1>6. /\ E!ToSet(SetToSeq(w.contacts)) = w.contacts
      /\ SetToSeq(w.contacts) # <<>> /\ (l.contacts # {} => SetToSeq(l.contacts) # <<>>)
  BY InOrder DEF Packed, E!ToSet
<1>7. j \in P!Bearers(chunk)
  BY <1>5, <1>6 DEF P!Bearers
<1>8. m = P!Parse(chunk) /\ P!Bearers(chunk) = {j} /\ m.nodes = chunk[j].nodes
  BY <1>1, <1>7, P!UnpackParts
<1>9. l.type \in {"REP", "PUNCH"}
  BY <1>4 DEF Packed, Messages
<1>10. m.type = l.type /\ (l.type = "REP" => m.sub = "NODE")
  <2>1. l.type # "EMPTY" /\ "NODE" # "EMPTY_SUB"
    BY <1>9
  <2>. QED
    BY <1>2, <1>5, <1>8, <2>1, P!LastNames
<1>11. ToSet(m.nodes) = w.contacts /\ E!ToSet(m.nodes) = w.contacts /\ m.nodes # <<>>
  <2>1. ToSet(m.nodes) = E!ToSet(m.nodes)
    BY DEF ToSet, E!ToSet
  <2>. QED
    BY <1>5, <1>6, <1>8, <2>1
<1>. HIDE DEF m
<1>12. CASE l.type = "REP"
  <2>1. E!Contacts(m) = w.contacts
    BY <1>10, <1>11, <1>12 DEF E!Contacts
  <2>2. told = E!Contacts(m)
    BY <1>10, <1>12 DEF Punches, m
  <2>. QED
    BY <2>1, <2>2
<1>13. CASE l.type = "PUNCH"
  <2>1. PICK c : l.contacts = {c}
    BY <1>13 DEF Packed
  <2>2. n \in P!Bearers(chunk)
    BY <1>2, <1>5, <1>6, <2>1 DEF P!Bearers
  <2>3. chunk[n] = chunk[j]
    BY <1>8, <2>2
  <2>4. w.contacts = {c}
    <3>1. E!ToSet(SetToSeq(l.contacts)) = l.contacts
      BY InOrder DEF Packed, E!ToSet
    <3>. QED
      BY <1>5, <1>6, <2>1, <2>3, <3>1
  <2>5. told \in {{d} : d \in ToSet(m.nodes)}
    BY <1>10, <1>11, <1>13 DEF Punches, m
  <2>. QED
    BY <1>11, <2>4, <2>5
<1>. QED
  BY <1>9, <1>12, <1>13

\* What was told by messages that are read is part of what was told.
LEMMA ToldOf ==
    ASSUME TypeOK, NEW s \in Socks, NEW a \in Nat, NEW b \in Nat, a <= b, b <= Len(wire[s]),
           NEW l \in Nat, l <= b - a
    PROVE  LET ends == SubSeq(wire[s], a + 1, b)
           IN  /\ Told(ends) \subseteq Told(wire[s])
               /\ Told(SubSeq(ends, 1, l)) \subseteq Told(wire[s])
               /\ \A k \in a + 1 .. b : wire[s][k].contacts \subseteq Told(ends)
               /\ \A k \in a + 1 .. a + l : wire[s][k].contacts \subseteq Told(SubSeq(ends, 1, l))
<1>. DEFINE w == wire[s]
            ends == SubSeq(w, a + 1, b)
            first == SubSeq(ends, 1, l)
<1>1. w \in Seq(Messages)
  BY DEF TypeOK
<1>. HIDE DEF w
<1>2. /\ ends \in Seq(Messages) /\ DOMAIN ends = 1 .. b - a
      /\ \A k \in 1 .. b - a : ends[k] = w[a + k] /\ a + k \in DOMAIN w
  BY <1>1 DEF w
<1>3. /\ DOMAIN first = 1 .. l /\ \A k \in 1 .. l : first[k] = ends[k] /\ k \in 1 .. b - a
  <2>. HIDE DEF ends
  <2>. QED
    BY <1>2
<1>. HIDE DEF ends, first
<1>4. /\ \A k \in a + 1 .. b : k - a \in DOMAIN ends /\ ends[k - a] = w[k]
      /\ \A k \in a + 1 .. a + l : k - a \in DOMAIN first /\ first[k - a] = w[k]
  <2>1. \A k \in a + 1 .. b : k - a \in 1 .. b - a /\ a + (k - a) = k
    OBVIOUS
  <2>2. \A k \in a + 1 .. a + l : k - a \in 1 .. l /\ k \in a + 1 .. b
    OBVIOUS
  <2>. QED
    BY <1>2, <1>3, <2>1, <2>2
<1>5. Told(ends) \subseteq Told(w) /\ Told(first) \subseteq Told(w)
  BY <1>2, <1>3 DEF Told
<1>6. /\ \A k \in a + 1 .. b : w[k].contacts \subseteq Told(ends)
      /\ \A k \in a + 1 .. a + l : w[k].contacts \subseteq Told(first)
  BY <1>4 DEF Told
<1>. QED
  BY <1>5, <1>6 DEF w, ends, first

\* What a node that reads does: of the contacts in the messages that end in what
\* recv returned, each is punched towards or gone, and nothing else is.
LEMMA NodeReadsDoes ==
    ASSUME ConnInv, PackedInv, RestInv, ConnOK, NEW i \in Ids, NodeReads(i)
    PROVE  LET s == conn[i]
           IN  /\ s \in Socks /\ UNCHANGED <<vars, conn>>
               /\ RestInv'
               /\ \A t \in Socks : t # s => seen'[t] = seen[t]
               /\ seen[s] <= seen'[s]
               /\ \E told, gone \in SUBSET Told(wire[s]) :
                     /\ punched' = [punched EXCEPT ![i] = @ \cup told]
                     /\ missed' = [missed EXCEPT ![s] = @ \cup gone]
                     /\ \A k \in seen[s] + 1 .. seen'[s] :
                           wire[s][k].contacts \subseteq told \cup gone
<1>. DEFINE s == conn[i]
            q == Unread(s)
            C == Told(wire[s])
<1>1. s \in Socks /\ UNCHANGED <<vars, conn>>
  BY DEF NodeReads, ConnOK
<1>2. /\ wire[s] \in Seq(Messages) /\ seen[s] \in Nat /\ Len(wire[s]) \in Nat
      /\ Len(q) = Len(wire[s]) - seen[s]
      /\ \A k \in 1 .. Len(q) :
            /\ seen[s] + k \in 1 .. Len(wire[s])
            /\ Packed(wire[s][seen[s] + k]) /\ Piece(q[k], C)
            /\ rest[s] = <<>> \/ k # 1 => q[k] = AsMsg(wire[s][seen[s] + k])
  BY <1>1, UnreadPieces
<1>3. PICK D : q \in Seq(D)
  BY <1>1, UnreadPieces
<1>4. PICK r \in E!Recvs(q) :
         LET left == Len(r[2])
             cut  == Len(r[1]) + left > Len(q)
             ends == SubSeq(wire[s], seen[s] + 1, Len(wire[s]) - left)
             lost == IF cut \/ E!unpack(r[1]) = E!EmptyMsg THEN ends
                     ELSE SubSeq(ends, 1, Len(rest[s]))
         IN  /\ seen' = [seen EXCEPT ![s] = Len(wire[s]) - left]
             /\ rest' = [rest EXCEPT ![s] = IF cut THEN <<Head(r[2])>> ELSE <<>>]
             /\ \E told \in Punches(r[1]) :
                   punched' = [punched EXCEPT ![i] = @ \cup told]
             /\ missed' = [missed EXCEPT ![s] = @ \cup Told(lost)]
  BY Zenon DEF NodeReads
<1>. DEFINE left == Len(r[2])
            cut  == Len(r[1]) + left > Len(q)
            b    == Len(wire[s]) - left
            ends == SubSeq(wire[s], seen[s] + 1, b)
            lost == IF cut \/ E!unpack(r[1]) = E!EmptyMsg THEN ends
                    ELSE SubSeq(ends, 1, Len(rest[s]))
<1>5. PICK told \in Punches(r[1]) : punched' = [punched EXCEPT ![i] = @ \cup told]
  BY <1>4
<1>6. PICK n \in 1 .. Len(q) :
              /\ DOMAIN r[1] = 1 .. n /\ Len(r[1]) = n
              /\ \A k \in 1 .. n : Piece(r[1][k], C)
              /\ \A k \in 1 .. n - 1 : r[1][k] = q[k]
              /\ \/ r[1][n] = q[n] /\ Len(r[2]) = Len(q) - n
                 \/ /\ Len(r[2]) = Len(q) - n + 1
                    /\ Piece(Head(r[2]), C) /\ Head(r[2]).head = 0
  <2>. HIDE DEF C, q
  <2>1. q \in Seq(D) /\ r \in E!Recvs(q) /\ Pieces(q, C)
    BY <1>2, <1>3 DEF Pieces
  <2>. QED
    BY <2>1, RecvCases
<1>7. /\ seen' = [seen EXCEPT ![s] = b]
      /\ rest' = [rest EXCEPT ![s] = IF cut THEN <<Head(r[2])>> ELSE <<>>]
      /\ missed' = [missed EXCEPT ![s] = @ \cup Told(lost)]
  BY <1>4, Zenon
<1>. HIDE DEF q, C, s
<1>8. /\ ~cut => r[1][n] = q[n] /\ b = seen[s] + n
      /\ cut => b = seen[s] + n - 1 /\ Piece(Head(r[2]), C) /\ Head(r[2]).head = 0
      /\ seen[s] <= b /\ b <= Len(wire[s]) /\ b \in Nat
      /\ cut => b < Len(wire[s])
  <2>. DEFINE lw == Len(wire[s])
              lq == Len(q)
              at == seen[s]
  <2>1. lw \in Nat /\ at \in Nat /\ lq = lw - at /\ n \in 1 .. lq
    BY <1>2
  <2>2. \/ r[1][n] = q[n] /\ left = lq - n
        \/ Piece(Head(r[2]), C) /\ Head(r[2]).head = 0 /\ left = lq - n + 1
    BY <1>6, Zenon
  <2>3. cut <=> n + left > lq
    BY <1>6
  <2>4. b = lw - left
    OBVIOUS
  <2>. HIDE DEF lw, lq, at, left, cut, b
  <2>5. /\ left = lq - n =>
              ~(n + left > lq) /\ lw - left = at + n /\ at <= lw - left
                 /\ lw - left <= lw /\ lw - left \in Nat
        /\ left = lq - n + 1 =>
              n + left > lq /\ lw - left = at + n - 1 /\ at <= lw - left
                 /\ lw - left < lw /\ lw - left \in Nat /\ lw - left <= lw
    BY <2>1
  <2>. QED
    BY <2>2, <2>3, <2>4, <2>5, Zenon DEF lw, at
<1>. HIDE DEF left, cut, b
<1>9. told \subseteq C
  <2>1. n \in Nat
    BY <1>2
  <2>. QED
    BY <1>6, <2>1, PunchesFrom
<1>10. RestInv'
  <2>1. seen' \in [Socks -> Nat] /\ DOMAIN rest' = Socks /\ wire' = wire
    BY <1>1, <1>7, <1>8 DEF RestInv, vars
  <2>2. ASSUME NEW t \in Socks, t # s PROVE RestOf(t)'
    <3>1. seen'[t] = seen[t] /\ rest'[t] = rest[t] /\ Told(wire[t])' = Told(wire[t])
      BY <1>1, <1>7, <2>1, <2>2 DEF RestInv
    <3>. HIDE DEF Told
    <3>. QED
      BY <2>1, <3>1, Zenon DEF RestInv, RestOf
  <2>3. ASSUME NEW t \in Socks, t = s PROVE RestOf(t)'
    <3>1. seen'[t] = b /\ rest'[t] = IF cut THEN <<Head(r[2])>> ELSE <<>>
      BY <1>1, <1>7, <2>3 DEF RestInv
    <3>2. (Told(wire[t]))' = C /\ wire'[t] = wire[s]
      BY <1>1, <2>1, <2>3 DEF C, s, Told
    <3>3. /\ Len(<<Head(r[2])>>) = 1 /\ <<Head(r[2])>>[1] = Head(r[2])
          /\ Head(<<Head(r[2])>>) = Head(r[2])
      OBVIOUS
    <3>4. CASE cut
      <4>1. rest'[t] = <<Head(r[2])>>
        BY <3>1, <3>4
      <4>2. /\ Len(rest'[t]) = 1 /\ rest'[t][1] = Head(r[2]) /\ Head(rest'[t]) = Head(r[2])
        BY <3>3, <4>1
      <4>. QED
        BY <1>8, <3>1, <3>2, <3>4, <4>2 DEF RestOf
    <3>5. CASE ~cut
      BY <1>8, <3>1, <3>2, <3>5 DEF RestOf
    <3>. QED
      BY <3>4, <3>5
  <2>. QED
    BY <2>1, <2>2, <2>3 DEF RestInv
<1>11. /\ \A t \in Socks : t # s => seen'[t] = seen[t]
       /\ seen'[s] = b
  BY <1>1, <1>7 DEF RestInv
<1>12. Len(rest[s]) \in {0, 1} /\ (Len(rest[s]) = 0 => rest[s] = <<>>)
  <2>1. rest[s] = <<>> => Len(rest[s]) = 0
    OBVIOUS
  <2>. QED
    BY <1>1, <2>1 DEF RestInv, RestOf
<1>13. Told(lost) \subseteq C /\ \A k \in seen[s] + 1 .. b : wire[s][k].contacts \subseteq told \cup Told(lost)
  <2>0. TypeOK
    BY DEF ConnInv
  <2>1. CASE cut \/ E!unpack(r[1]) = E!EmptyMsg
    <3>1. lost = ends
      BY <2>1
    <3>2. 0 \in Nat /\ 0 <= b - seen[s]
      BY <1>2, <1>8
    <3>3. /\ Told(ends) \subseteq C
          /\ \A k \in seen[s] + 1 .. b : wire[s][k].contacts \subseteq Told(ends)
      BY <1>1, <1>2, <1>8, <2>0, <3>2, ToldOf DEF C
    <3>. HIDE DEF lost, ends
    <3>. QED
      BY <3>1, <3>3
  <2>2. CASE ~cut /\ E!unpack(r[1]) # E!EmptyMsg
    <3>1. lost = SubSeq(ends, 1, Len(rest[s]))
      BY <2>2
    <3>2. b = seen[s] + n /\ r[1][n] = q[n] /\ n \in Nat
      BY <1>2, <1>8, <2>2
    <3>3. Len(rest[s]) \in Nat /\ Len(rest[s]) <= b - seen[s]
      <4>. DEFINE l == Len(rest[s])
                  at == seen[s]
      <4>1. l \in {0, 1} /\ at \in Nat /\ n \in Nat /\ 1 <= n /\ b = at + n
        BY <1>2, <1>12, <3>2
      <4>. HIDE DEF l, at
      <4>2. l \in Nat /\ l <= b - at
        BY <4>1
      <4>. QED
        BY <4>2 DEF l, at
    <3>4. /\ Told(lost) \subseteq C
          /\ \A k \in seen[s] + 1 .. seen[s] + Len(rest[s]) :
                wire[s][k].contacts \subseteq Told(lost)
      <4>. HIDE DEF lost
      <4>. QED
        BY <1>1, <1>2, <1>8, <2>0, <3>1, <3>3, ToldOf DEF C
    <3>. HIDE DEF lost, ends
    <3>5. ASSUME NEW j \in 1 .. n, j > Len(rest[s])
          PROVE  wire[s][seen[s] + j].contacts \subseteq told
      <4>1. \A k \in 1 .. n : r[1][k] = q[k]
        <5>1. \A k \in 1 .. n : k \in 1 .. n - 1 \/ k = n
          OBVIOUS
        <5>. QED
          BY <1>6, <3>2, <5>1
      <4>2. /\ j \in 1 .. Len(q) /\ n \in 1 .. Len(q) /\ n \in 1 .. n
            /\ rest[s] = <<>> \/ (j # 1 /\ n # 1)
        BY <1>2, <1>12, <3>5
      <4>3. /\ r[1][j] = AsMsg(wire[s][seen[s] + j]) /\ Packed(wire[s][seen[s] + j])
            /\ r[1][n] = AsMsg(wire[s][seen[s] + n]) /\ Packed(wire[s][seen[s] + n])
        BY <1>2, <4>1, <4>2
      <4>4. \A k \in 1 .. n : P!Part(r[1][k]) \/ r[1][k] = P!Garbled
        BY <1>6 DEF Piece
      <4>. QED
        BY <1>6, <2>2, <3>2, <4>3, <4>4, PunchesAll
    <3>6. ASSUME NEW k \in seen[s] + 1 .. b
          PROVE  wire[s][k].contacts \subseteq told \cup Told(lost)
      <4>1. CASE k \in seen[s] + 1 .. seen[s] + Len(rest[s])
        BY <3>4, <4>1
      <4>2. CASE k \notin seen[s] + 1 .. seen[s] + Len(rest[s])
        <5>1. k - seen[s] \in 1 .. n /\ k - seen[s] > Len(rest[s]) /\ seen[s] + (k - seen[s]) = k
          BY <1>2, <3>2, <3>3, <4>2
        <5>2. wire[s][seen[s] + (k - seen[s])].contacts \subseteq told
          BY <3>5, <5>1
        <5>. QED
          BY <5>1, <5>2
      <4>. QED
        BY <4>1, <4>2
    <3>. QED
      BY <3>4, <3>6
  <2>. QED
    BY <2>1, <2>2
<1>14. missed' = [missed EXCEPT ![s] = @ \cup Told(lost)]
  BY <1>7
<1>. HIDE DEF ends, lost
<1>15. \E g, h \in SUBSET C :
          /\ punched' = [punched EXCEPT ![i] = @ \cup g]
          /\ missed' = [missed EXCEPT ![s] = @ \cup h]
          /\ \A k \in seen[s] + 1 .. seen'[s] : wire[s][k].contacts \subseteq g \cup h
  BY <1>5, <1>9, <1>11, <1>13, <1>14
<1>16. seen[s] <= seen'[s]
  BY <1>8, <1>11
<1>. QED
  BY <1>1, <1>10, <1>11, <1>15, <1>16 DEF s, C

(* A piece that names some of C names some of any larger set.              *)
LEMMA PieceGrows ==
    ASSUME NEW C, NEW D, C \subseteq D, NEW p, Piece(p, C)
    PROVE  Piece(p, D)
<1>1. p.nodes \in Seq(D)
  BY DEF Piece
<1>. QED
  BY <1>1 DEF Piece

\* What recv left stays a piece of the message that was cut.
LEMMA RestInvNext ==
    ASSUME ServerInv, PackedInv, RestInv, ConnOK, [NetNext]_netVars
    PROVE  RestInv'
<1>. USE DEF ServerInv
<1>1. [Next]_vars
  BY NetStepsServer
<1>2. CASE UNCHANGED <<seen, rest>>
  <2>1. ASSUME NEW t \in Socks PROVE RestOf(t)'
    <3>1. /\ wire[t] \in Seq(Messages) /\ Len(wire[t]) \in Nat /\ Len(wire'[t]) \in Nat
          /\ Len(wire[t]) <= Len(wire'[t])
          /\ \A k \in 1 .. Len(wire[t]) : wire'[t][k] = wire[t][k]
      BY <1>1, WiresGrow
    <3>2. Told(wire[t]) \subseteq Told(wire'[t])
      <4>1. TypeOK /\ TypeOK'
        BY <1>1, ServerInvNext DEF ConnInv
      <4>2. DOMAIN wire[t] = 1 .. Len(wire[t]) /\ DOMAIN wire'[t] = 1 .. Len(wire'[t])
        BY <4>1 DEF TypeOK
      <4>3. \A k \in DOMAIN wire[t] : k \in DOMAIN wire'[t] /\ wire'[t][k] = wire[t][k]
        BY <3>1, <4>2
      <4>. QED
        BY <4>3 DEF Told
    <3>3. seen[t] \in Nat /\ RestOf(t) /\ seen'[t] = seen[t] /\ rest'[t] = rest[t]
      BY <1>2 DEF RestInv
    <3>4. seen[t] <= Len(wire'[t]) /\ (seen[t] < Len(wire[t]) => seen[t] < Len(wire'[t]))
      BY <3>1, <3>3 DEF RestOf
    <3>. HIDE DEF Told
    <3>5. rest[t] # <<>> => Piece(Head(rest[t]), Told(wire'[t]))
      BY <3>2, <3>3, PieceGrows DEF RestOf
    <3>. QED
      BY <3>3, <3>4, <3>5 DEF RestOf
  <2>. QED
    BY <1>2, <2>1 DEF RestInv
<1>3. ASSUME NEW i \in Ids, NodeReads(i) PROVE RestInv'
  BY <1>3, NodeReadsDoes
<1>4. ASSUME NEW i \in Ids, NEW s \in Socks, NodeConnects(i, s) PROVE RestInv'
  BY <1>2, <1>4 DEF NodeConnects
<1>5. ASSUME NEW i \in Ids, NodeLoses(i) \/ NodeAsks(i) PROVE RestInv'
  BY <1>2, <1>5 DEF NodeLoses, NodeAsks, node
<1>6. CASE UNCHANGED node
  BY <1>2, <1>6 DEF node
<1>. QED
  BY <1>3, <1>4, <1>5, <1>6 DEF NetNext, Nodes, netVars

-----------------------------------------------------------------------------
(* Punches are real.                                                       *)

(* The handling of a GET_NODE tells nothing but the answer and the PUNCH.  *)
LEMMA GetNodeTellsOnly ==
    ASSUME ConnInv, TablesInv, HandleGetNode, NEW t \in Socks
    PROVE  \A c \in Told(wire'[t]) :
              \/ c \in Told(wire[t])
              \/ t = cur /\ c \in Answer.contacts
              \/ t \in ClientSocks /\ c \in Punch(owner[cur], cur).contacts
<1>. DEFINE p == Punch(owner[cur], cur)
            a == Answer
<1>1. /\ p \in Messages /\ a \in Messages /\ wire[t] \in Seq(Messages)
      /\ \/ t = cur /\ wire'[t] = Append(wire[t], a)
         \/ t \in ClientSocks /\ wire'[t] = Append(wire[t], p)
         \/ wire'[t] = wire[t]
  BY GetNodeContext, GetNodeSends
<1>. HIDE DEF p, a
<1>2. CASE t = cur /\ wire'[t] = Append(wire[t], a)
  <2>1. Told(wire'[t]) = Told(wire[t]) \cup a.contacts
    BY <1>1, <1>2, ToldAppend
  <2>. QED
    BY <1>2, <2>1 DEF a
<1>3. CASE t \in ClientSocks /\ wire'[t] = Append(wire[t], p)
  <2>1. Told(wire'[t]) = Told(wire[t]) \cup p.contacts
    BY <1>1, <1>3, ToldAppend
  <2>. QED
    BY <1>3, <2>1 DEF p
<1>4. CASE wire'[t] = wire[t]
  BY <1>4
<1>. QED
  BY <1>1, <1>2, <1>3, <1>4

\* The server thread opens no connection.
LEMMA ThreadKeepsOwners == Thread => owner' = owner
  BY DEF Thread, StartServer, EpollWait, EpollFails, ErrorsHandled, ReadsHandled,
     HandleError, HandleBroken, CheckReadable, Accept, HandleGetNode, HandleNothing, remote

(* A contact that may be told on t: an address never filled in, or another *)
(* connection, opened by the node that is named.                           *)
Real(c, t) == c.addr = Garbage \/ (owner[c.addr] = c.id /\ c.addr # t)

(* Inductive with ServerInv and OwnersOK: a registered address is that of  *)
(* the registered socket or was not filled in, and what is on a wire is    *)
(* real.                                                                   *)
RealInv ==
    /\ \A i \in Registered : clientNode[i].addr \in {clientNode[i].sock, Garbage}
    /\ \A t \in Socks : \A c \in Told(wire[t]) : Real(c, t)

\* Contacts that are registered and sent stay real.
LEMMA RealInvNext ==
    ASSUME ServerInv, OwnersOK, RealInv, [Next]_vars
    PROVE  RealInv'
<1>. USE DEF ServerInv
<1>1. \A s \in Socks : owner[s] # NoId => owner'[s] = owner[s]
  BY OwnersStep
<1>2. \A t \in Socks : Told(wire[t]) \subseteq Contacts
  BY WireContacts DEF ConnInv
<1>3. \A t \in Socks : \A c \in Told(wire[t]) : Real(c, t)'
  <2>1. ASSUME NEW t \in Socks, NEW c \in Told(wire[t]), c.addr # Garbage
        PROVE  owner'[c.addr] = c.id /\ c.addr # t
    <3>1. owner[c.addr] = c.id /\ c.addr # t
      BY <2>1 DEF RealInv, Real
    <3>2. c.addr \in Socks /\ c.id \in Ids
      BY <1>2, <2>1 DEF Contacts, Addrs
    <3>. QED
      BY <1>1, <3>1, <3>2, ServerAssumption
  <2>. QED
    BY <2>1 DEF Real
<1>4. CASE ~HandleGetNode
  <2>1. \A i \in Registered' : i \in Registered /\ clientNode'[i] = clientNode[i]
    BY <1>4, OtherSteps DEF Registered, NoNode
  <2>2. \A t \in Socks : Told(wire'[t]) = Told(wire[t])
    BY <1>4, OtherSteps DEF Told
  <2>. QED
    BY <1>3, <2>1, <2>2 DEF RealInv
<1>5. CASE HandleGetNode
  <2>. DEFINE new == owner[cur]
              p   == Punch(new, cur)
  <2>1. /\ new \in Ids /\ cur \in Socks /\ cur \notin ClientSocks /\ owner' = owner
        /\ \A k \in Ids : k # new \/ k \in Registered => clientNode'[k] = clientNode[k]
        /\ new \notin Registered =>
              clientNode'[new] = [sock |-> cur, addr |-> PeerName(cur)]
    BY <1>5, GetNodeContext DEF HandleGetNode, addClientNode, ConnInv, TypeOK
  <2>2. ASSUME NEW i \in Registered'
        PROVE  clientNode'[i].addr \in {clientNode'[i].sock, Garbage}
    <3>1. CASE i = new /\ i \notin Registered
      BY <2>1, <3>1 DEF PeerName
    <3>2. CASE i # new \/ i \in Registered
      BY <2>1, <3>2 DEF RealInv, Registered
    <3>. QED
      BY <3>1, <3>2
  <2>3. ASSUME NEW t \in ClientSocks, NEW c \in p.contacts PROVE Real(c, t)'
    BY <2>1, <2>3 DEF Punch, PeerName, Real
  <2>4. ASSUME NEW c \in Answer.contacts, NEW t \in Socks, t = cur PROVE Real(c, t)'
    <3>1. PICK j \in Registered : c = ContactOf(j)
      BY DEF Answer
    <3>2. clientNode[j].sock \in Socks /\ clientNode[j].sock # cur /\ owner[clientNode[j].sock] = j
      BY <2>1, <3>1 DEF ClientSocks, Registered, TablesInv, RegistrationIndexed,
         ConnInv, TypeOK
    <3>. QED
      BY <2>1, <2>4, <3>1, <3>2 DEF RealInv, ContactOf, Real
  <2>5. ASSUME NEW t \in Socks
        PROVE  \A c \in Told(wire'[t]) :
                  \/ c \in Told(wire[t])
                  \/ t = cur /\ c \in Answer.contacts
                  \/ t \in ClientSocks /\ c \in p.contacts
    BY <1>5, GetNodeTellsOnly
  <2>. QED
    BY <1>3, <2>2, <2>3, <2>4, <2>5 DEF RealInv
<1>. QED
  BY <1>4, <1>5

(* Adding the nodes: a node's connection is its own, and what it punches   *)
(* towards was told on a connection of its own.                            *)
PunchInv ==
    /\ \A i \in Ids : conn[i] # NoSock => owner[conn[i]] = i
    /\ punched \in [Ids -> SUBSET Contacts]
    /\ PunchesReal

\* Nodes punch only at contacts that were sent to them.
LEMMA PunchInvNext ==
    ASSUME ServerInv, OwnersOK, RealInv, PackedInv, RestInv, ConnOK, PunchInv,
           [NetNext]_netVars
    PROVE  PunchInv'
<1>. USE ServerAssumption DEF ServerInv
<1>1. \A s \in Socks : owner[s] # NoId => owner'[s] = owner[s]
  BY OwnersStep, NetStepsServer
<1>2. ASSUME NEW i \in Ids, NEW c \in punched[i], c.addr # Garbage
      PROVE  c.addr \in Socks /\ c.id \in Ids /\ owner'[c.addr] = c.id
  <2>1. c.addr \in Socks /\ c.id \in Ids
    BY <1>2 DEF PunchInv, Contacts, Addrs
  <2>. QED
    BY <1>1, <1>2, <2>1 DEF PunchInv, PunchesReal
<1>3. ASSUME NEW i \in Ids, NEW s \in Socks, NodeConnects(i, s) PROVE PunchInv'
  <2>1. /\ conn' = [conn EXCEPT ![i] = s] /\ owner' = [owner EXCEPT ![s] = i]
        /\ punched' = punched /\ owner[s] = NoId /\ owner \in [Socks -> Ids \cup {NoId}]
    BY <1>3 DEF NodeConnects, Connect, OwnersOK, ConnInv, TypeOK
  <2>2. \A j \in Ids : \A c \in punched[j] : c.addr # Garbage => c.addr # s
    <3>1. \A j \in Ids : \A c \in punched[j] : c.addr # Garbage =>
             owner[c.addr] = c.id /\ c.id \in Ids
      BY <1>2 DEF PunchInv, PunchesReal
    <3>. QED
      BY <2>1, <3>1
  <2>3. PunchesReal'
    BY <1>2, <2>1, <2>2 DEF PunchInv, PunchesReal, ConnOK
  <2>4. \A j \in Ids : conn'[j] # NoSock => owner'[conn'[j]] = j
    BY <2>1 DEF PunchInv, ConnOK
  <2>. QED
    BY <2>1, <2>3, <2>4 DEF PunchInv
<1>4. ASSUME NEW i \in Ids, NodeLoses(i) PROVE PunchInv'
  <2>1. conn' = [conn EXCEPT ![i] = NoSock] /\ punched' = punched /\ owner' = owner
    BY <1>4 DEF NodeLoses, vars, remote
  <2>2. PunchesReal'
    BY <1>2, <2>1 DEF PunchInv, PunchesReal, ConnOK
  <2>. QED
    BY <2>1, <2>2 DEF PunchInv, ConnOK
<1>5. ASSUME NEW i \in Ids, NodeReads(i) PROVE PunchInv'
  <2>1. conn[i] \in Socks /\ conn' = conn /\ owner' = owner
    BY <1>5 DEF NodeReads, ConnOK, vars, remote
  <2>2. PICK told \in SUBSET Told(wire[conn[i]]) :
           punched' = [punched EXCEPT ![i] = @ \cup told]
    BY <1>5, NodeReadsDoes
  <2>4. \A c \in Told(wire[conn[i]]) : c \in Contacts /\ Real(c, conn[i])
    BY <2>1, WireContacts DEF RealInv, ConnInv
  <2>5. \A j \in Ids : \A c \in punched'[j] :
           \/ c \in punched[j]
           \/ j = i /\ c \in Contacts /\ Real(c, conn[i])
    BY <2>2, <2>4 DEF PunchInv
  <2>6. punched' \in [Ids -> SUBSET Contacts]
    BY <2>2, <2>4 DEF PunchInv
  <2>7. PunchesReal'
    BY <2>1, <2>5 DEF PunchInv, PunchesReal, Real
  <2>. QED
    BY <2>1, <2>6, <2>7 DEF PunchInv
<1>6. CASE UNCHANGED <<conn, punched>> /\ owner' = owner
  BY <1>6 DEF PunchInv, PunchesReal
<1>7. ASSUME NEW i \in Ids, NodeAsks(i) PROVE UNCHANGED <<conn, punched>> /\ owner' = owner
  BY <1>7 DEF NodeAsks, SendRequest, node
<1>8. CASE (Thread \/ \E s \in Socks : Break(s)) /\ UNCHANGED node
  BY <1>6, <1>8, ThreadKeepsOwners DEF node, Break, remote
<1>9. CASE UNCHANGED netVars
  BY <1>6, <1>9 DEF netVars, vars, remote, node
<1>. QED
  BY <1>3, <1>4, <1>5, <1>6, <1>7, <1>8, <1>9 DEF NetNext, Nodes

\* These parts hold at the start.
LEMMA NetPartsInit == NetInit => OwnersOK /\ RealInv /\ RestInv /\ ConnOK /\ PunchInv
<1>. SUFFICES ASSUME NetInit PROVE OwnersOK /\ RealInv /\ RestInv /\ ConnOK /\ PunchInv
  OBVIOUS
<1>1. OwnersOK /\ RealInv /\ ConnOK /\ PunchInv
  BY DEF NetInit, Init, OwnersOK, RealInv, ConnOK, PunchInv, PunchesReal, Registered,
     NoNode, Told
<1>2. \A s \in Socks : wire[s] = <<>> /\ seen[s] = 0 /\ rest[s] = <<>>
  BY DEF NetInit, Init
<1>3. seen \in [Socks -> Nat] /\ DOMAIN rest = Socks
  BY DEF NetInit
<1>. QED
  BY <1>1, <1>2, <1>3 DEF RestInv, RestOf

(* No node is sent on a wrong track: it punches towards connections that   *)
(* the named nodes opened and never towards the one it holds itself.       *)
THEOREM PunchesAreReal == NetSpec => []PunchesReal
<1>. DEFINE Inv == ServerInv /\ OwnersOK /\ RealInv /\ PackedInv /\ RestInv /\ ConnOK /\ PunchInv
<1>1. NetInit => Inv
  <2>1. NetInit => OwnersOK /\ RealInv /\ RestInv /\ ConnOK /\ PunchInv
    BY NetPartsInit
  <2>. QED
    BY <2>1, ServerInvInit, PackedInvInit DEF NetInit
<1>2. Inv /\ [NetNext]_netVars => Inv'
  <2>1. Inv /\ [NetNext]_netVars => PackedInv'
    BY NetStepsServer, PackedInvNext DEF ServerInv
  <2>. QED
    BY <2>1, NetStepsServer, ServerInvNext, OwnersStep, RealInvNext, RestInvNext,
       ConnOKNext, PunchInvNext
<1>3. Inv => PunchesReal
  BY DEF PunchInv
<1>. QED
  BY <1>1, <1>2, <1>3, PTL DEF NetSpec

-----------------------------------------------------------------------------
(* Who is up meets.                                                        *)

(* What a node has read on its connection it punched towards or missed.    *)
ReadInv ==
    /\ missed \in [Socks -> SUBSET Contacts]
    /\ \A i \in Ids : conn[i] # NoSock =>
          \A k \in 1 .. seen[conn[i]] :
             wire[conn[i]][k].contacts \subseteq punched[i] \cup missed[conn[i]]

NetInv == /\ ServerInv /\ WiresInv /\ OwnersOK /\ RealInv
          /\ PackedInv /\ RestInv /\ ConnOK /\ PunchInv

\* All parts are kept together.
LEMMA NetInvNext == NetInv /\ [NetNext]_netVars => NetInv'
<1>1. ServerInv /\ WiresInv /\ [Next]_vars => WiresInv'
  BY WiresInvNext DEF ServerInv
<1>2. ServerInv /\ PackedInv /\ [Next]_vars => PackedInv'
  BY PackedInvNext DEF ServerInv
<1>. QED
  BY <1>1, <1>2, NetStepsServer, ServerInvNext, OwnersStep, RealInvNext, RestInvNext,
     ConnOKNext, PunchInvNext DEF NetInv

\* Every contact a node reads is punched or missed.
LEMMA ReadInvNext ==
    ASSUME NetInv, ReadInv, [NetNext]_netVars
    PROVE  ReadInv'
<1>. USE ServerAssumption DEF NetInv, ServerInv, ConnOK
<1>1. [Next]_vars
  BY NetStepsServer
<1>2. \A t \in Socks : /\ wire[t] \in Seq(Messages) /\ Len(wire'[t]) \in Nat
                       /\ Len(wire[t]) <= Len(wire'[t])
                       /\ \A k \in 1 .. Len(wire[t]) : wire'[t][k] = wire[t][k]
  BY <1>1, WiresGrow
<1>. DEFINE grown == \A s \in Socks : \A k \in 1 .. seen[s] : wire'[s][k] = wire[s][k]
<1>3. grown /\ \A s \in Socks : seen[s] \in Nat /\ seen[s] <= Len(wire[s])
  <2>1. \A s \in Socks : seen[s] \in Nat /\ Len(wire[s]) \in Nat /\ seen[s] <= Len(wire[s])
    BY <1>2 DEF RestInv, RestOf
  <2>2. ASSUME NEW s \in Socks, NEW k \in 1 .. seen[s] PROVE wire'[s][k] = wire[s][k]
    <3>1. k \in 1 .. Len(wire[s])
      BY <2>1
    <3>. QED
      BY <1>2, <3>1
  <2>. QED
    BY <2>1, <2>2
<1>9. CASE UNCHANGED node
  <2>1. UNCHANGED <<conn, seen, punched, missed>>
    BY <1>9 DEF node
  <2>2. ASSUME NEW i \in Ids, conn[i] # NoSock, NEW k \in 1 .. seen[conn[i]]
        PROVE  wire'[conn[i]][k].contacts \subseteq punched[i] \cup missed[conn[i]]
    <3>1. conn[i] \in Socks
      BY <2>2
    <3>. QED
      BY <1>3, <2>2, <3>1 DEF ReadInv
  <2>. QED
    BY <2>1, <2>2 DEF ReadInv
<1>4. ASSUME NEW i \in Ids, NEW s \in Socks, NodeConnects(i, s) PROVE ReadInv'
  <2>1. /\ conn' = [conn EXCEPT ![i] = s] /\ UNCHANGED <<wire, seen, punched, missed>>
        /\ status[s] = "UNUSED"
    BY <1>4 DEF NodeConnects, Connect
  <2>2. wire[s] = <<>>
    BY <2>1 DEF WiresInv, ConnInv, ConnectionsOK
  <2>3. seen[s] = 0
    BY <1>3, <2>2
  <2>. QED
    BY <2>1, <2>3 DEF ReadInv
<1>5. ASSUME NEW i \in Ids, NodeLoses(i) PROVE ReadInv'
  BY <1>5 DEF NodeLoses, ReadInv, vars
<1>6. ASSUME NEW i \in Ids, NodeReads(i) PROVE ReadInv'
  <2>. DEFINE s == conn[i]
  <2>1. /\ s \in Socks /\ UNCHANGED <<conn, wire>>
        /\ \A t \in Socks : t # s => seen'[t] = seen[t]
        /\ Told(wire[s]) \subseteq Contacts
    BY <1>6, NodeReadsDoes, WireContacts DEF vars, ConnInv
  <2>2. PICK told \in SUBSET Told(wire[s]), gone \in SUBSET Told(wire[s]) :
           /\ punched' = [punched EXCEPT ![i] = @ \cup told]
           /\ missed' = [missed EXCEPT ![s] = @ \cup gone]
           /\ \A k \in seen[s] + 1 .. seen'[s] : wire[s][k].contacts \subseteq told \cup gone
    BY <1>6, NodeReadsDoes
  <2>3. \A j \in Ids : j # i => conn[j] # s
    BY <2>1 DEF PunchInv
  <2>4. seen[s] \in Nat /\ seen'[s] \in Nat
    BY <1>6, <2>1, NodeReadsDoes DEF RestInv
  <2>. HIDE DEF s
  <2>5. missed' \in [Socks -> SUBSET Contacts]
    BY <2>1, <2>2 DEF ReadInv
  <2>6. /\ punched'[i] \cup missed'[s] = punched[i] \cup missed[s] \cup told \cup gone
        /\ \A j \in Ids : j # i => punched'[j] = punched[j]
        /\ \A t \in Socks : t # s => missed'[t] = missed[t]
    BY <2>1, <2>2 DEF PunchInv, ReadInv
  <2>7. ASSUME NEW k \in 1 .. seen'[s]
        PROVE  wire[s][k].contacts \subseteq punched'[i] \cup missed'[s]
    <3>1. CASE k \in 1 .. seen[s]
      BY <2>1, <2>6, <3>1 DEF ReadInv, s
    <3>2. CASE k \in seen[s] + 1 .. seen'[s]
      BY <2>2, <2>6, <3>2
    <3>. QED
      BY <2>4, <3>1, <3>2
  <2>8. ASSUME NEW j \in Ids, conn'[j] # NoSock, NEW k \in 1 .. seen'[conn'[j]]
        PROVE  wire'[conn'[j]][k].contacts \subseteq punched'[j] \cup missed'[conn'[j]]
    <3>1. CASE j = i
      BY <2>1, <2>7, <2>8, <3>1 DEF s
    <3>2. CASE j # i
      <4>1. conn[j] \in Socks /\ conn[j] # s
        BY <2>1, <2>3, <2>8, <3>2
      <4>. QED
        BY <2>1, <2>6, <2>8, <3>2, <4>1 DEF ReadInv
    <3>. QED
      BY <3>1, <3>2
  <2>. QED
    BY <2>5, <2>8 DEF ReadInv
<1>7. ASSUME NEW i \in Ids, NodeAsks(i) PROVE UNCHANGED node
  BY <1>7 DEF NodeAsks
<1>8. CASE UNCHANGED netVars
  BY <1>8, <1>9 DEF netVars
<1>. QED
  BY <1>9, <1>4, <1>5, <1>6, <1>7, <1>8 DEF NetNext, Nodes

\* All parts hold at the start.
LEMMA NetInvInit == NetInit => NetInv /\ ReadInv
<1>1. NetInit => ReadInv
  BY DEF NetInit, ReadInv
<1>. QED
  BY <1>1, NetPartsInit, ServerInvInit, WiresInvInit, PackedInvInit DEF NetInit, NetInv

(* The node's variables keep their types: a node never reads past what was *)
(* sent, and the connection it holds is its own.                           *)
THEOREM NodeTypes == NetSpec => []NodeTypeOK
<1>1. NetInv /\ ReadInv /\ [NetNext]_netVars => ReadInv'
  BY ReadInvNext
<1>2. NetInv /\ ReadInv => NodeTypeOK
  <2>. SUFFICES ASSUME NetInv, ReadInv PROVE NodeTypeOK
    OBVIOUS
  <2>1. ASSUME NEW s \in Socks
        PROVE  /\ seen[s] + Len(rest[s]) <= Len(wire[s])
               /\ rest[s] # <<>> => rest[s][1].head = 0
    <3>1. seen[s] \in Nat /\ RestOf(s) /\ wire[s] \in Seq(Messages)
      BY DEF NetInv, RestInv, ServerInv, ConnInv, TypeOK
    <3>2. Len(wire[s]) \in Nat
      BY <3>1
    <3>3. CASE rest[s] = <<>>
      <4>1. Len(rest[s]) = 0
        BY <3>3
      <4>. QED
        BY <3>1, <3>2, <3>3, <4>1 DEF RestOf
    <3>4. CASE rest[s] # <<>>
      <4>. DEFINE a == seen[s]
                  l == Len(rest[s])
      <4>1. a \in Nat /\ l = 1 /\ a < Len(wire[s]) /\ rest[s][1].head = 0
        BY <3>1, <3>4 DEF RestOf
      <4>. HIDE DEF a, l
      <4>2. a + l <= Len(wire[s])
        BY <3>2, <4>1
      <4>. QED
        BY <4>1, <4>2 DEF a, l
    <3>. QED
      BY <3>3, <3>4
  <2>. QED
    BY <2>1 DEF NetInv, ConnOK, RestInv, PunchInv, ReadInv, NodeTypeOK
<1>. QED
  BY <1>1, <1>2, NetInvInit, NetInvNext, PTL DEF NetSpec

(* Any two nodes that hold the connections they are registered on, and     *)
(* have read what the server sent, have punched towards each other, unless *)
(* the message that matters was lost - recv cut it, or returned it with    *)
(* one that was cut or has contacts too: for any number of nodes, of       *)
(* connections and reconnections, and however the stream was joined and    *)
(* cut.                                                                    *)
THEOREM NodesPunch ==
    ASSUME IsFiniteSet(Ids), Cardinality(Ids) <= BufNodes
    PROVE  NetSpec => []BothPunched
<1>1. NetInit => NetInv /\ ReadInv /\ MutualIntroduction
  BY NetInvInit, MutualIntroductionInit DEF NetInit
<1>2. ConnOK /\ ConnInv /\ TablesInv /\ MutualIntroduction /\ [NetNext]_netVars
         => MutualIntroduction'
  BY MutualIntroductionNext, NetStepsServer
<1>3. NetInv => ConnOK /\ ConnInv /\ TablesInv
  BY DEF NetInv, ServerInv
<1>4. NetInv /\ ReadInv /\ [NetNext]_netVars => ReadInv'
  BY ReadInvNext
<1>5. NetInv /\ ReadInv /\ MutualIntroduction => BothPunched
  <2>. SUFFICES ASSUME NetInv, ReadInv, MutualIntroduction,
                       NEW i \in Ids, NEW j \in Ids, i # j, Alive(i), Alive(j),
                       conn[i] = clientNode[i].sock, seen[conn[i]] = Len(wire[conn[i]])
                PROVE  ContactOf(j) \in punched[i] \cup missed[conn[i]]
    BY DEF BothPunched
  <2>1. conn[i] \in Socks /\ conn[i] # NoSock /\ wire[conn[i]] \in Seq(Messages)
    BY ServerAssumption DEF Alive, Registered, NetInv, ServerInv, ConnOK, ConnInv, TypeOK
  <2>2. PICK k \in DOMAIN wire[conn[i]] : ContactOf(j) \in wire[conn[i]][k].contacts
    BY DEF MutualIntroduction, Told
  <2>3. k \in 1 .. seen[conn[i]]
    BY <2>1, <2>2
  <2>. QED
    BY <2>1, <2>2, <2>3 DEF ReadInv
<1>. QED
  BY <1>1, <1>2, <1>3, <1>4, <1>5, NetInvNext, PTL DEF NetSpec
=============================================================================
