--------------------------- MODULE MsgStreamProofs ---------------------------
(***************************************************************************)
(* Proofs about MsgStream: what unpack accepts of a stream that joins and  *)
(* cuts messages, and that the codec reads back what it wrote, for any     *)
(* number of messages, contacts and bytes.                                 *)
(***************************************************************************)
EXTENDS MsgStream, FiniteSetTheorems, TLAPS

P == INSTANCE EbcMsgProofs WITH EbcNodes <- Nodes

-----------------------------------------------------------------------------
(* What EbcMsgProofs says of parsing, said of the operators of MsgStream.  *)

\* The same messages are packed.
LEMMA SameMessages ==
    /\ EmptyMsg = P!EmptyMsg /\ Garbled = P!Garbled
    /\ \A v, self, type, sub, nodes :
          packNodes(v, self, type, sub, nodes) = P!packNodes(v, self, type, sub, nodes)
    /\ \A v, self, text : packText(v, self, text) = P!packText(v, self, text)
  BY DEF EmptyMsg, P!EmptyMsg, Garbled, P!Garbled, packNodes, P!packNodes,
         packText, P!packText, MsgHead, P!MsgHead

\* Parsing folds with the same operation.
LEMMA SameParse == ASSUME NEW c PROVE Parse(c) = P!Parse(c)
  BY DEF Parse, P!Parse, MergeFrom, P!MergeFrom, Over, P!Over, EmptyMsg, P!EmptyMsg,
         FoldLeft, MapThenFoldSet, Max, P!FoldLeft, P!MapThenFoldSet, P!Max

\* unpack asks the same of them.
LEMMA SameUnpack == ASSUME NEW c PROVE unpack(c) = P!unpack(c)
<1>1. Parses(c) = P!Parses(c)
  BY DEF Parses, P!Parses
<1>2. \A m : Wellformed(m) = P!Wellformed(m)
  BY DEF Wellformed, P!Wellformed, BodyLength, P!BodyLength, MsgHead, P!MsgHead
<1>. QED
  BY <1>1, <1>2, SameParse, SameMessages DEF unpack, P!unpack

\* handleMsg takes the same contacts from them.
LEMMA SameContacts == ASSUME NEW m PROVE Contacts(m) = P!Contacts(m)
  BY Zenon DEF Contacts, P!Contacts, ToSet, P!ToSet

-----------------------------------------------------------------------------
(* The messages on the stream.                                             *)

\* What the sender may have packed, and what may be sent of it; the messages
\* that may be cut between two fields, and their pieces.
Packed   == IF role = "peer" THEN Hellos ELSE Answers \cup Notices
Sendable == Packed \cup {Garbled}
Single   == IF role = "peer" THEN Hellos ELSE Notices
Firsts   == {First(m, k) : m \in Single, k \in 1 .. 6}
Rests    == {Rest(m, k) : m \in Single, k \in 1 .. 7}

\* What may be left of a message, and what may be on the stream.
Left   == {Garbled, EmptyMsg} \cup Rests
OnWire == Packed \cup Firsts \cup Left

\* What the server packs is a listing of contacts.
LEMMA PackedByServer ==
    ASSUME NEW m \in Answers \cup Notices
    PROVE  P!Listing(m)
<1>1. CASE m \in Answers
  <2>1. PICK s \in Listings : m = packNodes(version, "srv", "REP", "NODE", s)
    BY <1>1 DEF Answers
  <2>2. s \in Seq(Nodes)
    BY DEF Listings, SeqOf
  <2>. QED
    BY <2>1, <2>2, SameMessages DEF P!Listing
<1>2. CASE m \in Notices
  <2>1. PICK n \in Nodes : m = packNodes(version, "srv", "PUNCH", "EMPTY_SUB", <<n>>)
    BY <1>2 DEF Notices
  <2>2. <<n>> \in Seq(Nodes)
    OBVIOUS
  <2>. QED
    BY <2>1, <2>2, SameMessages DEF P!Listing
<1>. QED
  BY <1>1, <1>2

\* What a peer packs is a text.
LEMMA PackedByPeer ==
    ASSUME NEW m \in Hellos
    PROVE  P!Hello(m)
  BY MsgStreamAssumption, SameMessages DEF Hellos, P!Hello

\* The fields of the pieces, as far as lengths and contacts go.
LEMMA PieceFields ==
    ASSUME NEW m, NEW k \in 1 .. 7
    PROVE  /\ First(m, k).nodes = IF k = 7 THEN m.nodes ELSE <<>>
           /\ First(m, k).body = IF k = 7 THEN m.body ELSE "none"
           /\ First(m, k).length = IF k >= 6 THEN m.length ELSE 0
           /\ Rest(m, k).nodes = IF k = 7 THEN <<>> ELSE m.nodes
           /\ Rest(m, k).body = IF k = 7 THEN "none" ELSE m.body
           /\ Rest(m, k).length = IF k >= 6 THEN 0 ELSE m.length
<1>1. /\ {"nodes", "body", "length"} \subseteq DOMAIN EmptyMsg
      /\ EmptyMsg.nodes = <<>> /\ EmptyMsg.body = "none" /\ EmptyMsg.length = 0
  BY DEF EmptyMsg
<1>2. Place.nodes = 7 /\ Place.body = 7 /\ Place.length = 6
  BY DEF Place
<1>3. \A f \in {"nodes", "body", "length"} :
         /\ First(m, k)[f] = IF Place[f] <= k THEN m[f] ELSE EmptyMsg[f]
         /\ Rest(m, k)[f] = IF Place[f] > k THEN m[f] ELSE EmptyMsg[f]
  BY <1>1 DEF First, Rest
<1>. QED
  BY <1>1, <1>2, <1>3

\* What recv leaves of a message that fits a packet, or takes of one, is part of
\* a message and has its contacts, or none.
LEMMA PiecesOfSingle ==
    ASSUME NEW m \in Firsts \cup Rests
    PROVE  /\ role # "peer" => P!Part(m) /\ m.nodes \in Seq(Nodes) /\ Len(m.nodes) <= 1
           /\ role = "peer" => m.nodes = <<>>
<1>1. PICK s \in Single, k \in 1 .. 7 : (m = First(s, k) /\ k <= 6) \/ m = Rest(s, k)
  BY DEF Firsts, Rests
<1>2. CASE role # "peer"
  <2>1. PICK n \in Nodes : s = packNodes(version, "srv", "PUNCH", "EMPTY_SUB", <<n>>)
    BY <1>2 DEF Single, Notices
  <2>2. s.nodes = <<n>> /\ s.length = 1 /\ s.body = "nodes"
    BY <2>1 DEF packNodes
  <2>3. /\ m.nodes \in {<<>>, <<n>>} /\ m.length \in {0, 1}
        /\ \/ m.nodes = <<>> /\ m.body = "none"
           \/ m.nodes = <<n>> /\ m.body = "nodes"
    <3>1. ASSUME m = First(s, k), k <= 6
          PROVE  m.nodes = <<>> /\ m.body = "none" /\ m.length \in {0, 1}
      BY <2>2, <3>1, PieceFields
    <3>2. ASSUME m = Rest(s, k)
          PROVE  /\ m.length \in {0, 1}
                 /\ \/ m.nodes = <<>> /\ m.body = "none"
                    \/ m.nodes = <<n>> /\ m.body = "nodes"
      <4>1. CASE k = 7
        BY <2>2, <3>2, <4>1, PieceFields
      <4>2. CASE k # 7
        BY <2>2, <3>2, <4>2, PieceFields
      <4>. QED
        BY <4>1, <4>2
    <3>. QED
      BY <1>1, <3>1, <3>2
  <2>4. m.nodes \in Seq(Nodes) /\ Len(m.nodes) <= 1
    <3>1. <<>> \in Seq(Nodes) /\ <<n>> \in Seq(Nodes) /\ Len(<<>>) <= 1 /\ Len(<<n>>) <= 1
      OBVIOUS
    <3>. QED
      BY <2>3, <3>1
  <2>5. P!Part(m)
    <3>1. m.length \in Nat /\ m.length <= 1 /\ m.body \in {"none", "nodes"}
      BY <2>3
    <3>2. m.nodes # <<>> => m.body = "nodes"
      BY <2>3
    <3>. QED
      BY <2>4, <3>1, <3>2 DEF P!Part
  <2>. QED
    BY <1>2, <2>4, <2>5
<1>3. CASE role = "peer"
  <2>1. s.nodes = <<>>
    BY <1>3, PackedByPeer, P!HelloFacts DEF Single
  <2>. QED
    BY <1>1, <1>3, <2>1, PieceFields
<1>. QED
  BY <1>2, <1>3

\* The contacts of what is on the stream; of a peer there are none.
LEMMA ContactsOnWire ==
    ASSUME NEW m \in OnWire
    PROVE  /\ m.nodes \in Seq(Nodes)
           /\ role = "peer" => m.nodes = <<>>
           /\ role # "peer" => P!Part(m) \/ m = P!Garbled
<1>1. CASE m \in Firsts \cup Rests
  <2>1. <<>> \in Seq(Nodes)
    OBVIOUS
  <2>. QED
    BY <1>1, <2>1, PiecesOfSingle
<1>2. CASE m \in {Garbled, EmptyMsg}
  <2>1. Garbled.nodes = <<>> /\ EmptyMsg.nodes = <<>> /\ <<>> \in Seq(Nodes)
    BY DEF Garbled, EmptyMsg
  <2>. QED
    BY <1>2, <2>1, SameMessages, P!ListingIsPart
<1>3. CASE m \in Packed /\ role = "peer"
  <2>1. m.nodes = <<>> /\ <<>> \in Seq(Nodes)
    BY <1>3, PackedByPeer, P!HelloFacts DEF Packed
  <2>. QED
    BY <1>3, <2>1
<1>4. CASE m \in Packed /\ role # "peer"
  <2>1. P!Part(m)
    BY <1>4, PackedByServer, P!ListingIsPart DEF Packed
  <2>. QED
    BY <1>4, <2>1 DEF P!Part
<1>. QED
  BY <1>1, <1>2, <1>3, <1>4 DEF OnWire, Left

\* Only a message that is sent is cut, or a remainder of which nothing is read:
\* what was left of a message that fits a packet is read at once.
LEMMA CutPieces ==
    ASSUME NEW m, m \in Sendable \/ (m \in Left /\ Large(m)), NEW c \in Cuts(m)
    PROVE  c[1] \in OnWire /\ c[2] \in Left
<1>1. CASE m \in {Garbled, EmptyMsg}
  <2>1. c \in {Garbled, EmptyMsg} \X {Garbled, EmptyMsg}
    BY <1>1 DEF Cuts
  <2>. QED
    BY <2>1 DEF OnWire, Left
<1>2. CASE m \notin {Garbled, EmptyMsg} /\ m.sub = "NODE"
  <2>1. c \in {Garbled} \X {Garbled, EmptyMsg}
    BY <1>2 DEF Cuts
  <2>. QED
    BY <2>1 DEF OnWire, Left
<1>3. CASE m \notin {Garbled, EmptyMsg} /\ m.sub # "NODE"
  <2>1. m \in Single
    <3>1. CASE m \in Packed /\ role = "peer"
      BY <3>1 DEF Packed, Single
    <3>2. CASE m \in Packed /\ role # "peer"
      <4>1. m \notin Answers
        BY <1>3 DEF Answers, packNodes
      <4>. QED
        BY <3>2, <4>1 DEF Packed, Single
    <3>3. CASE m \in Rests /\ Large(m)
      <4>1. m.nodes = <<>> \/ Len(m.nodes) <= 1
        BY <3>3, PiecesOfSingle
      <4>2. Len(m.nodes) <= PacketNodes
        <5>1. PacketNodes \in Nat \ {0} /\ Len(<<>>) = 0
          BY MsgStreamAssumption
        <5>2. m.nodes \in Seq(Nodes)
          BY <3>3, ContactsOnWire DEF OnWire, Left
        <5>. QED
          BY <4>1, <5>1, <5>2
      <4>3. Len(m.nodes) \in Nat /\ PacketNodes \in Nat
        BY <3>3, ContactsOnWire, MsgStreamAssumption DEF OnWire, Left
      <4>. QED
        BY <1>3, <3>3, <4>2, <4>3 DEF Large
    <3>. QED
      BY <1>3, <3>1, <3>2, <3>3 DEF Sendable, Left
  <2>2. \/ c \in {<<First(m, k), Rest(m, k)>> : k \in 1 .. 6}
        \/ c \in {Garbled} \X ({Garbled} \cup {Rest(m, k) : k \in 1 .. 7})
    BY <1>3 DEF Cuts
  <2>3. /\ \A k \in 1 .. 6 : First(m, k) \in Firsts
        /\ \A k \in 1 .. 7 : Rest(m, k) \in Rests
    BY <2>1 DEF Firsts, Rests
  <2>4. 1 .. 6 \subseteq 1 .. 7
    OBVIOUS
  <2>. QED
    BY <2>2, <2>3, <2>4 DEF OnWire, Left
<1>. QED
  BY <1>1, <1>2, <1>3

-----------------------------------------------------------------------------
(* The invariant: only messages of the sender, and pieces of them, are on  *)
(* the stream, and read is what unpack made of the last chunk.             *)

\* Only the first message in flight may have been cut.
InFlight(w) ==
    /\ w \in Seq(OnWire)
    /\ \A k \in DOMAIN w : w[k] \in Sendable \/ (k = 1 /\ w[k] \in Left)

StreamInv ==
    /\ role \in {"server", "peer"} /\ version \in Versions
    /\ sent \in Seq(Packed) /\ Len(sent) <= MaxSent
    /\ InFlight(wire) /\ chunk \in Seq(OnWire)
    /\ read = unpack(chunk)
    /\ got \subseteq Nodes

\* A chunk of the stream, in the terms of EbcMsgProofs.
LEMMA ChunkOfParts ==
    ASSUME NEW c \in Seq(OnWire)
    PROVE  /\ DOMAIN c = 1 .. Len(c) /\ Len(c) \in Nat
           /\ \A k \in 1 .. Len(c) : c[k].nodes \in Seq(Nodes)
           /\ role = "peer" => \A k \in 1 .. Len(c) : c[k].nodes \in Seq({})
           /\ role # "peer" => \A k \in 1 .. Len(c) : P!Part(c[k]) \/ c[k] = P!Garbled
<1>1. DOMAIN c = 1 .. Len(c) /\ Len(c) \in Nat /\ \A k \in 1 .. Len(c) : c[k] \in OnWire
  OBVIOUS
<1>2. <<>> \in Seq({})
  OBVIOUS
<1>. HIDE DEF OnWire
<1>. QED
  BY <1>1, <1>2, ContactsOnWire

\* Nothing read is nothing accepted.
LEMMA UnpackNothing == unpack(<<>>) = EmptyMsg
<1>1. PICK p : /\ p[0] = P!EmptyMsg
               /\ \A k \in 1 .. 0 : p[k] = P!MergeFrom(p[k - 1], <<>>[k])
               /\ P!Parse(<<>>) = p[0]
  BY P!ParsePartials, 0 \in Nat, DOMAIN <<>> = 1 .. 0
<1>2. ~Wellformed(EmptyMsg)
  BY DEF Wellformed, EmptyMsg, MsgHead
<1>. QED
  BY <1>1, <1>2, SameParse, SameMessages DEF unpack

\* unpack of a chunk of the stream finds contacts of the sender's nodes only.
LEMMA ContactsFound ==
    ASSUME NEW c \in Seq(OnWire)
    PROVE  Contacts(unpack(c)) \subseteq Nodes
<1>1. P!Contacts(P!unpack(c)) \subseteq Nodes
  BY ChunkOfParts, P!NodesFrom
<1>. QED
  BY <1>1, SameUnpack, SameContacts

\* Nothing has been sent.
LEMMA StreamInvInit == Init => StreamInv
<1>. SUFFICES ASSUME Init PROVE StreamInv
  OBVIOUS
<1>1. Len(<<>>) <= MaxSent
  BY MsgStreamAssumption
<1>. QED
  BY <1>1, UnpackNothing DEF Init, StreamInv, InFlight

\* What is packed next is the sender's, and arrives as it is or as zeroes.
LEMMA PackableArrives ==
    ASSUME role \in {"server", "peer"}, NEW m \in Packable
    PROVE  m \in Packed /\ Serialize(m, BufNodes) \in Sendable
  BY DEF Packable, Packed, Sendable, Serialize

\* The elements of two sequences joined.
LEMMA Joined ==
    ASSUME NEW S, NEW s \in Seq(S), NEW t \in Seq(S)
    PROVE  /\ s \o t \in Seq(S) /\ Len(s \o t) = Len(s) + Len(t)
           /\ \A k \in 1 .. Len(s) : (s \o t)[k] = s[k]
           /\ \A k \in 1 .. Len(s) + Len(t) : ~(k <= Len(s)) =>
                 k - Len(s) \in 1 .. Len(t) /\ (s \o t)[k] = t[k - Len(s)]
  OBVIOUS

\* A queue with something put back at its head.
LEMMA OnTop ==
    ASSUME NEW C, NEW b \in Seq(C), NEW z \in C
    PROVE  LET e == <<z>> \o b
           IN  /\ e \in Seq(C) /\ Len(e) = Len(b) + 1 /\ e[1] = z
               /\ \A k \in 2 .. Len(e) : e[k] = b[k - 1] /\ k - 1 \in 1 .. Len(b)
<1>. DEFINE a == <<z>>
            e == a \o b
<1>1. a \in Seq(C) /\ Len(a) = 1 /\ a[1] = z
  OBVIOUS
<1>. HIDE DEF a
<1>2. /\ e \in Seq(C) /\ Len(e) = Len(a) + Len(b)
      /\ \A k \in 1 .. Len(a) : e[k] = a[k]
      /\ \A k \in 1 .. Len(a) + Len(b) : ~(k <= Len(a)) =>
            k - Len(a) \in 1 .. Len(b) /\ e[k] = b[k - Len(a)]
  BY <1>1, Joined
<1>. HIDE DEF e
<1>3. e[1] = z /\ Len(e) = Len(b) + 1
  BY <1>1, <1>2
<1>4. \A k \in 2 .. Len(e) : e[k] = b[k - 1] /\ k - 1 \in 1 .. Len(b)
  BY <1>1, <1>2
<1>. QED
  BY <1>2, <1>3, <1>4 DEF e, a

\* The two parts of a sequence, around its element n.
LEMMA Slices ==
    ASSUME NEW C, NEW w \in Seq(C), NEW n \in 1 .. Len(w)
    PROVE  LET b == SubSeq(w, n + 1, Len(w))
           IN  /\ SubSeq(w, 1, n) \in Seq(C) /\ SubSeq(w, 1, n - 1) \in Seq(C)
               /\ b \in Seq(C) /\ Len(b) = Len(w) - n
               /\ \A k \in 1 .. Len(b) : b[k] = w[n + k] /\ n + k \in 1 .. Len(w) /\ n + k # 1
<1>. DEFINE b == SubSeq(w, n + 1, Len(w))
<1>1. SubSeq(w, 1, n) \in Seq(C)
  BY SMTT(30)
<1>2. SubSeq(w, 1, n - 1) \in Seq(C)
  BY SMTT(30)
<1>3. b \in Seq(C)
  BY SMTT(30)
<1>4. Len(b) = Len(w) - n
  BY SMTT(30)
<1>5. ASSUME NEW k \in 1 .. Len(b) PROVE b[k] = w[n + k]
  BY <1>4, SMTT(30)
<1>6. ASSUME NEW k \in 1 .. Len(b) PROVE n + k \in 1 .. Len(w) /\ n + k # 1
  <2>. HIDE DEF b
  <2>. QED
    BY <1>4, SMTT(30)
<1>. QED
  BY <1>1, <1>2, <1>3, <1>4, <1>5, <1>6

\* Whatever recv returns and leaves are messages of the sender and pieces.
LEMMA RecvParts ==
    ASSUME InFlight(wire), NEW r \in Recvs(wire)
    PROVE  r[1] \in Seq(OnWire) /\ InFlight(r[2])
<1>. DEFINE w == wire
<1>1. w \in Seq(OnWire) /\ \A k \in 1 .. Len(w) : w[k] \in Sendable \/ (k = 1 /\ w[k] \in Left)
  BY DEF InFlight
<1>2. Sendable \subseteq OnWire /\ Left \subseteq OnWire
  BY DEF Sendable, OnWire, Left
<1>. HIDE DEF w
<1>3. ASSUME NEW n \in 1 .. Len(w),
             r = <<SubSeq(w, 1, n), SubSeq(w, n + 1, Len(w))>>
      PROVE  r[1] \in Seq(OnWire) /\ InFlight(r[2])
  <2>. DEFINE b == SubSeq(w, n + 1, Len(w))
  <2>1. /\ SubSeq(w, 1, n) \in Seq(OnWire) /\ b \in Seq(OnWire)
        /\ Len(b) = Len(w) - n
        /\ \A k \in 1 .. Len(b) : b[k] = w[n + k] /\ n + k \in 1 .. Len(w) /\ n + k # 1
    BY <1>1, Slices
  <2>2. r[1] = SubSeq(w, 1, n) /\ r[2] = b
    BY <1>3
  <2>3. \A k \in 1 .. Len(b) : b[k] \in Sendable
    BY <1>1, <2>1
  <2>. HIDE DEF b
  <2>. QED
    BY <2>1, <2>2, <2>3 DEF InFlight
<1>4. ASSUME NEW n \in 1 .. Len(w), NEW c \in Cuts(w[n]),
             Large(w[n]) \/ n # 1,
             r = <<Append(SubSeq(w, 1, n - 1), c[1]), <<c[2]>> \o SubSeq(w, n + 1, Len(w))>>
      PROVE  r[1] \in Seq(OnWire) /\ InFlight(r[2])
  <2>. DEFINE b == SubSeq(w, n + 1, Len(w))
              d == <<c[2]>> \o b
  <2>1. c[1] \in OnWire /\ c[2] \in Left /\ c[2] \in OnWire
    BY <1>1, <1>2, <1>4, CutPieces
  <2>2. /\ SubSeq(w, 1, n - 1) \in Seq(OnWire) /\ b \in Seq(OnWire)
        /\ Len(b) = Len(w) - n
        /\ \A k \in 1 .. Len(b) : b[k] = w[n + k] /\ n + k \in 1 .. Len(w) /\ n + k # 1
    BY <1>1, Slices
  <2>3. r[1] = Append(SubSeq(w, 1, n - 1), c[1]) /\ r[2] = d
    BY <1>4
  <2>4. \A k \in 1 .. Len(b) : b[k] \in Sendable
    BY <1>1, <2>2
  <2>. HIDE DEF b
  <2>5. /\ d \in Seq(OnWire) /\ Len(d) = Len(b) + 1 /\ d[1] = c[2]
        /\ \A k \in 2 .. Len(d) : d[k] = b[k - 1] /\ k - 1 \in 1 .. Len(b)
    BY <2>1, <2>2, OnTop
  <2>6. \A k \in 1 .. Len(d) : d[k] \in Sendable \/ (k = 1 /\ d[k] \in Left)
    <3>. SUFFICES ASSUME NEW k \in 1 .. Len(d) PROVE d[k] \in Sendable \/ (k = 1 /\ d[k] \in Left)
      OBVIOUS
    <3>1. CASE k = 1
      BY <2>1, <2>5, <3>1
    <3>2. CASE k # 1
      BY <2>4, <2>5, <3>2
    <3>. QED
      BY <3>1, <3>2
  <2>7. r[1] \in Seq(OnWire)
    BY <2>1, <2>2, <2>3
  <2>. HIDE DEF d
  <2>. QED
    BY <2>3, <2>5, <2>6, <2>7 DEF InFlight
<1>5. \/ \E n \in 1 .. Len(w) : r = <<SubSeq(w, 1, n), SubSeq(w, n + 1, Len(w))>>
      \/ \E n \in 1 .. Len(w) : \E c \in Cuts(w[n]) :
            /\ Large(w[n]) \/ n > FitMsgs \/ \E k \in 1 .. n - 1 : Large(w[k])
            /\ r = <<Append(SubSeq(w, 1, n - 1), c[1]), <<c[2]>> \o SubSeq(w, n + 1, Len(w))>>
  <2>1. DOMAIN wire = 1 .. Len(wire)
    BY DEF InFlight
  <2>2. r \in Recvs(wire)
    OBVIOUS
  <2>3. \/ \E n \in DOMAIN wire : r = <<SubSeq(wire, 1, n), SubSeq(wire, n + 1, Len(wire))>>
        \/ \E n \in DOMAIN wire :
              /\ Large(wire[n]) \/ n > FitMsgs \/ \E k \in 1 .. n - 1 : Large(wire[k])
              /\ \E c \in Cuts(wire[n]) :
                    r = <<Append(SubSeq(wire, 1, n - 1), c[1]),
                          <<c[2]>> \o SubSeq(wire, n + 1, Len(wire))>>
    BY <2>2, Zenon DEF Recvs
  <2>. QED
    BY <2>1, <2>3 DEF w
<1>6. \A n \in 1 .. Len(w) :
         n > FitMsgs \/ (\E k \in 1 .. n - 1 : Large(w[k])) => n # 1
  BY <1>1, MsgStreamAssumption
<1>. QED
  BY <1>3, <1>4, <1>5, <1>6

\* Every step keeps to the messages of the sender and their pieces.
LEMMA StreamInvNext == StreamInv /\ [Next]_vars => StreamInv'
<1>. SUFFICES ASSUME StreamInv, [Next]_vars PROVE StreamInv'
  OBVIOUS
<1>. USE DEF StreamInv
<1>1. role' = role /\ version' = version
  BY DEF Next, Send, Recv, vars
<1>2. /\ Packed' = Packed /\ OnWire' = OnWire /\ Sendable' = Sendable /\ Left' = Left
      /\ \A w : InFlight(w)' <=> InFlight(w)
  BY <1>1 DEF Packed, OnWire, Sendable, Left, Single, Firsts, Rests, Answers, Notices, Hellos,
              InFlight
<1>3. CASE UNCHANGED vars
  BY <1>2, <1>3 DEF vars
<1>4. CASE Send
  <2>1. PICK m \in Packable : /\ sent' = Append(sent, m)
                              /\ wire' = Append(wire, Serialize(m, BufNodes))
    BY <1>4 DEF Send
  <2>2. m \in Packed /\ Serialize(m, BufNodes) \in Sendable
    BY PackableArrives
  <2>3. sent' \in Seq(Packed) /\ Len(sent') = Len(sent) + 1
    BY <2>1, <2>2
  <2>4. Len(sent') <= MaxSent
    BY <1>4, <2>3, MsgStreamAssumption DEF Send
  <2>5. InFlight(wire')
    <3>. DEFINE s == Serialize(m, BufNodes)
                w == wire
    <3>1. w \in Seq(OnWire) /\ \A k \in 1 .. Len(w) : w[k] \in Sendable \/ (k = 1 /\ w[k] \in Left)
      BY DEF InFlight
    <3>2. s \in OnWire /\ s \in Sendable
      BY <2>2 DEF Sendable, OnWire, Left
    <3>. HIDE DEF s, w
    <3>3. /\ Append(w, s) \in Seq(OnWire) /\ DOMAIN Append(w, s) = 1 .. Len(w) + 1
          /\ Append(w, s)[Len(w) + 1] = s
          /\ \A k \in 1 .. Len(w) : Append(w, s)[k] = w[k]
      BY <3>1, <3>2
    <3>4. \A k \in 1 .. Len(w) + 1 : k \in 1 .. Len(w) \/ k = Len(w) + 1
      BY <3>1
    <3>5. InFlight(Append(w, s))
      BY <3>1, <3>2, <3>3, <3>4 DEF InFlight
    <3>. QED
      BY <2>1, <3>5 DEF s, w
  <2>. QED
    BY <1>1, <1>2, <1>4, <2>3, <2>4, <2>5 DEF Send
<1>5. CASE Recv
  <2>1. PICK r \in Recvs(wire) :
            /\ chunk' = r[1] /\ wire' = r[2]
            /\ read' = unpack(chunk')
            /\ got' = got \cup Contacts(read')
            /\ UNCHANGED <<role, version, sent>>
    BY <1>5 DEF Recv
  <2>2. chunk' \in Seq(OnWire) /\ InFlight(wire')
    BY <2>1, RecvParts
  <2>3. Contacts(read') \subseteq Nodes
    BY <2>1, <2>2, ContactsFound
  <2>. QED
    BY <1>2, <2>1, <2>2, <2>3
<1>. QED
  BY <1>3, <1>4, <1>5 DEF Next

\* So the invariant holds throughout.
LEMMA StreamInvariant == Spec => []StreamInv
  BY StreamInvInit, StreamInvNext, PTL DEF Spec

(* The stream carries messages of the sender and pieces of them, and the   *)
(* contacts acted upon are contacts of nodes.                              *)
THEOREM StreamTypes == Spec => []TypeOK
<1>1. StreamInv => TypeOK
  <2>. SUFFICES ASSUME StreamInv PROVE TypeOK
    OBVIOUS
  <2>1. OnWire \subseteq Messages \cup Pieces
    <3>1. Packed \subseteq Messages /\ Single \subseteq Messages
      BY DEF Packed, Single, Messages
    <3>2. Firsts \subseteq Pieces /\ Rests \subseteq Pieces /\ {Garbled, EmptyMsg} \subseteq Pieces
      BY <3>1 DEF Firsts, Rests, Pieces
    <3>. QED
      BY <3>1, <3>2 DEF OnWire, Left
  <2>2. \A c \in Seq(OnWire) : \A k \in DOMAIN c : c[k] \in OnWire
    OBVIOUS
  <2>. QED
    BY <2>1, <2>2 DEF StreamInv, InFlight, TypeOK
<1>. QED
  BY <1>1, StreamInvariant, PTL

-----------------------------------------------------------------------------
(* What is accepted.                                                       *)

\* The messages that carry contacts.
LEMMA CarriersAre == ASSUME NEW c PROVE Carriers(c) = P!Bearers(c)
  BY DEF Carriers, P!Bearers

\* A message of the chunk that was sent so is one that was packed.
LEMMA WholeMessage ==
    ASSUME sent \in Seq(Packed), role \in {"server", "peer"}, NEW m \in ToSet(sent)
    PROVE  /\ role = "server" => P!Listing(m)
           /\ role = "peer" => P!Hello(m)
<1>1. m \in Packed
  BY DEF ToSet
<1>. QED
  BY <1>1, PackedByServer, PackedByPeer DEF Packed

(* Whatever recv joined and cut, an accepted message carries the contacts  *)
(* of one message of the chunk, the only one there that has any.           *)
THEOREM NeverMixed == Spec => []AcceptedIsOneMessage
<1>1. StreamInv => AcceptedIsOneMessage
  <2>. SUFFICES ASSUME StreamInv, read.type # "EMPTY", read.body = "nodes", read.nodes # <<>>
                PROVE  \E k \in Carriers(chunk) : /\ Carriers(chunk) = {k}
                                                  /\ read.nodes = chunk[k].nodes
    BY DEF AcceptedIsOneMessage
  <2>. DEFINE n == Len(chunk)
  <2>1. chunk \in Seq(OnWire) /\ read = P!unpack(chunk)
    BY SameUnpack DEF StreamInv
  <2>2. read # P!EmptyMsg
    <3>1. EmptyMsg.type = "EMPTY"
      BY DEF EmptyMsg
    <3>. QED
      BY <3>1, SameMessages
  <2>3. n \in Nat /\ DOMAIN chunk = 1 .. n
    BY <2>1
  <2>4. role # "peer"
    <3>1. CASE role = "peer"
      <4>1. \A k \in 1 .. n : chunk[k].nodes \in Seq({})
        BY <2>1, <3>1, ChunkOfParts
      <4>2. P!Parse(chunk).nodes \in Seq({})
        <5>. HIDE DEF n
        <5>. QED
          BY <2>3, <4>1, P!NodesFrom
      <4>3. read = P!Parse(chunk)
        BY <2>1, <2>2 DEF P!unpack
      <4>. QED
        BY <4>2, <4>3
    <3>. QED
      BY <3>1
  <2>5. \A k \in 1 .. n : P!Part(chunk[k]) \/ chunk[k] = P!Garbled
    BY <2>1, <2>4, ChunkOfParts
  <2>. HIDE DEF n
  <2>6. /\ P!Bearers(chunk) = {} => P!unpack(chunk).nodes = <<>>
        /\ \A k \in P!Bearers(chunk) : /\ P!Bearers(chunk) = {k}
                                       /\ P!unpack(chunk).nodes = chunk[k].nodes
    BY <2>1, <2>2, <2>3, <2>5, P!UnpackParts
  <2>. QED
    BY <2>1, <2>6, CarriersAre
<1>. QED
  BY <1>1, StreamInvariant, PTL

(* A message of the reader's version that is read alone and whole is       *)
(* accepted as it was packed.                                              *)
THEOREM AloneAsPacked == Spec => []AloneIsAccepted
<1>1. StreamInv => AloneIsAccepted
  <2>. SUFFICES ASSUME StreamInv, Len(chunk) = 1, Whole(chunk)
                PROVE  read = chunk[1]
    BY DEF AloneIsAccepted
  <2>1. chunk \in Seq(OnWire) /\ read = P!unpack(chunk) /\ DOMAIN chunk = 1 .. 1
    BY SameUnpack DEF StreamInv
  <2>2. P!Parse(chunk) = P!MergeFrom(P!EmptyMsg, chunk[1])
    BY <2>1, P!ParseAlone
  <2>3. P!Listing(chunk[1]) \/ P!Hello(chunk[1])
    BY <2>1, WholeMessage, 1 \in 1 .. 1 DEF StreamInv, Whole
  <2>4. P!Parse(chunk) = chunk[1] /\ P!Wellformed(chunk[1])
    BY <2>2, <2>3, P!AloneAccepted, P!HelloAlone
  <2>5. chunk[1].body # "garbled"
    BY <2>3, P!ListingFacts, P!HelloFacts
  <2>6. P!Parses(chunk)
    BY <2>1, <2>5 DEF P!Parses
  <2>. QED
    BY <2>1, <2>4, <2>6 DEF P!unpack
<1>. QED
  BY <1>1, StreamInvariant, PTL

\* More than one element, or two that differ.
LEMMA TwoOrMore ==
    ASSUME NEW n \in Nat, NEW S \in SUBSET (1 .. n)
    PROVE  Cardinality(S) > 1 <=> \E j, k \in S : j # k
<1>1. IsFiniteSet(S)
  <2>1. 1 \in Int /\ n \in Int
    OBVIOUS
  <2>2. IsFiniteSet(1 .. n)
    BY <2>1, FS_Interval
  <2>. QED
    BY <2>2, FS_Subset
<1>2. ASSUME NEW j \in S, NEW k \in S, j # k PROVE Cardinality(S) > 1
  <2>1. IsFiniteSet({j}) /\ Cardinality({j}) = 1
    BY FS_Singleton
  <2>2. k \notin {j}
    BY <1>2
  <2>3. /\ IsFiniteSet({j} \cup {k})
        /\ Cardinality({j} \cup {k}) = Cardinality({j}) + 1
    BY <2>1, <2>2, FS_AddElement
  <2>4. {j} \cup {k} \in SUBSET S
    OBVIOUS
  <2>5. Cardinality({j} \cup {k}) <= Cardinality(S)
    BY <1>1, <2>4, FS_Subset
  <2>6. Cardinality(S) \in Nat
    BY <1>1, FS_CardinalityType
  <2>. QED
    BY <2>1, <2>3, <2>5, <2>6
<1>3. ASSUME \A j, k \in S : j = k PROVE ~(Cardinality(S) > 1)
  <2>1. CASE S = {}
    <3>1. Cardinality(S) = 0
      BY <2>1, FS_EmptySet
    <3>. QED
      BY <3>1
  <2>2. CASE S # {}
    <3>1. PICK j \in S : TRUE
      BY <2>2
    <3>2. S = {j}
      BY <1>3, <3>1
    <3>3. Cardinality({j}) = 1
      BY FS_Singleton
    <3>. QED
      BY <3>2, <3>3
  <2>. QED
    BY <2>1, <2>2
<1>. QED
  BY <1>2, <1>3

(* What the server sends is refused for three reasons only, whole or as    *)
(* the rest of a list: bytes that begin or end inside a field, two         *)
(* messages that carry contacts, or nothing but fields to skip.            *)
THEOREM RefusedOnlyThen == Spec => []RejectedExactly
<1>1. StreamInv => RejectedExactly
  <2>. SUFFICES ASSUME StreamInv, role = "server",
                       \A k \in DOMAIN chunk : chunk[k] \in ToSet(sent) \cup {Garbled, EmptyMsg}
                PROVE  read = EmptyMsg <=> \/ \E k \in DOMAIN chunk : chunk[k] = Garbled
                                           \/ Cardinality(Carriers(chunk)) > 1
                                           \/ \A k \in DOMAIN chunk : chunk[k] = EmptyMsg
    BY DEF RejectedExactly
  <2>. DEFINE n == Len(chunk)
  <2>1. chunk \in Seq(OnWire) /\ read = P!unpack(chunk)
    BY SameUnpack DEF StreamInv
  <2>2. n \in Nat /\ DOMAIN chunk = 1 .. n
    BY <2>1
  <2>3. \A k \in 1 .. n : P!Listing(chunk[k]) \/ chunk[k] \in {P!Garbled, P!EmptyMsg}
    BY <2>2, WholeMessage, SameMessages DEF StreamInv
  <2>. HIDE DEF n
  <2>4. P!unpack(chunk) = P!EmptyMsg
            <=> \/ \E k \in 1 .. n : chunk[k] = P!Garbled
                \/ \E j, k \in P!Bearers(chunk) : j # k
                \/ \A k \in 1 .. n : chunk[k] = P!EmptyMsg
    BY <2>2, <2>3, P!UnpackListings
  <2>5. Carriers(chunk) \in SUBSET (1 .. n)
    BY <2>2 DEF Carriers
  <2>6. Cardinality(Carriers(chunk)) > 1 <=> \E j, k \in Carriers(chunk) : j # k
    BY <2>2, <2>5, TwoOrMore
  <2>. QED
    BY <2>1, <2>2, <2>4, <2>6, CarriersAre, SameMessages
<1>. QED
  BY <1>1, StreamInvariant, PTL

-----------------------------------------------------------------------------
(* Varints: the size computed with a logarithm is the number of bytes      *)
(* written seven bits at a time.                                           *)

\* The values from which a varint takes one byte more.
K1 == 128
K2 == 128 * 128
K3 == 128 * 128 * 128
K4 == 128 * 128 * 128 * 128

Has2(v, l)   == v >= 2 ^ l     \* v has a bit l, or a higher one
Has128(v, k) == v >= 128 ^ k   \* v has more than k groups of seven bits

\* Whether there are more groups than k, as a comparison.
LEMMA Groups ==
    ASSUME NEW v \in Nat
    PROVE  /\ Has128(v, 1) <=> v >= K1
           /\ Has128(v, 2) <=> v >= K2
           /\ Has128(v, 3) <=> v >= K3
           /\ Has128(v, 4) <=> v >= K4
  BY SMT DEF K1, K2, K3, K4, Has128

\* The bits of a value, by the groups it fills.
LEMMA Bits ==
    ASSUME NEW v \in Nat
    PROVE  /\ \A l \in 1 .. 6 : (v >= K1 => Has2(v, l))
           /\ \A l \in 7 .. 13 : (v < K1 => ~Has2(v, l)) /\ (v >= K2 => Has2(v, l))
           /\ \A l \in 14 .. 20 : (v < K2 => ~Has2(v, l)) /\ (v >= K3 => Has2(v, l))
           /\ \A l \in 21 .. 27 : (v < K3 => ~Has2(v, l)) /\ (v >= K4 => Has2(v, l))
           /\ \A l \in 28 .. 30 : (v < K4 => ~Has2(v, l))
           /\ (v >= K1 => Has2(v, 7)) /\ (v >= K2 => Has2(v, 14))
           /\ (v >= K3 => Has2(v, 21)) /\ (v >= K4 => Has2(v, 28))
<1>1. \A l \in 1 .. 6 : (v >= K1 => Has2(v, l))
  <2>1. /\ (v >= K1 => Has2(v, 1))
        /\ (v >= K1 => Has2(v, 2))
        /\ (v >= K1 => Has2(v, 3))
        /\ (v >= K1 => Has2(v, 4))
        /\ (v >= K1 => Has2(v, 5))
        /\ (v >= K1 => Has2(v, 6))
    BY SMT DEF K1, K2, K3, K4, Has2
  <2>2. \A l \in 1 .. 6 : l = 1 \/ l = 2 \/ l = 3 \/ l = 4 \/ l = 5 \/ l = 6
    BY SMT
  <2>. QED
    BY <2>1, <2>2, Zenon
<1>2. \A l \in 7 .. 13 : (v < K1 => ~Has2(v, l)) /\ (v >= K2 => Has2(v, l))
  <2>1. /\ (v < K1 => ~Has2(v, 7)) /\ (v >= K2 => Has2(v, 7))
        /\ (v < K1 => ~Has2(v, 8)) /\ (v >= K2 => Has2(v, 8))
        /\ (v < K1 => ~Has2(v, 9)) /\ (v >= K2 => Has2(v, 9))
        /\ (v < K1 => ~Has2(v, 10)) /\ (v >= K2 => Has2(v, 10))
        /\ (v < K1 => ~Has2(v, 11)) /\ (v >= K2 => Has2(v, 11))
        /\ (v < K1 => ~Has2(v, 12)) /\ (v >= K2 => Has2(v, 12))
        /\ (v < K1 => ~Has2(v, 13)) /\ (v >= K2 => Has2(v, 13))
    BY SMT DEF K1, K2, K3, K4, Has2
  <2>2. \A l \in 7 .. 13 : l = 7 \/ l = 8 \/ l = 9 \/ l = 10 \/ l = 11 \/ l = 12 \/ l = 13
    BY SMT
  <2>. QED
    BY <2>1, <2>2, Zenon
<1>3. \A l \in 14 .. 20 : (v < K2 => ~Has2(v, l)) /\ (v >= K3 => Has2(v, l))
  <2>1. /\ (v < K2 => ~Has2(v, 14)) /\ (v >= K3 => Has2(v, 14))
        /\ (v < K2 => ~Has2(v, 15)) /\ (v >= K3 => Has2(v, 15))
        /\ (v < K2 => ~Has2(v, 16)) /\ (v >= K3 => Has2(v, 16))
        /\ (v < K2 => ~Has2(v, 17)) /\ (v >= K3 => Has2(v, 17))
        /\ (v < K2 => ~Has2(v, 18)) /\ (v >= K3 => Has2(v, 18))
        /\ (v < K2 => ~Has2(v, 19)) /\ (v >= K3 => Has2(v, 19))
        /\ (v < K2 => ~Has2(v, 20)) /\ (v >= K3 => Has2(v, 20))
    BY SMT DEF K1, K2, K3, K4, Has2
  <2>2. \A l \in 14 .. 20 : l = 14 \/ l = 15 \/ l = 16 \/ l = 17 \/ l = 18 \/ l = 19 \/ l = 20
    BY SMT
  <2>. QED
    BY <2>1, <2>2, Zenon
<1>4. \A l \in 21 .. 27 : (v < K3 => ~Has2(v, l)) /\ (v >= K4 => Has2(v, l))
  <2>1. /\ (v < K3 => ~Has2(v, 21)) /\ (v >= K4 => Has2(v, 21))
        /\ (v < K3 => ~Has2(v, 22)) /\ (v >= K4 => Has2(v, 22))
        /\ (v < K3 => ~Has2(v, 23)) /\ (v >= K4 => Has2(v, 23))
        /\ (v < K3 => ~Has2(v, 24)) /\ (v >= K4 => Has2(v, 24))
        /\ (v < K3 => ~Has2(v, 25)) /\ (v >= K4 => Has2(v, 25))
        /\ (v < K3 => ~Has2(v, 26)) /\ (v >= K4 => Has2(v, 26))
        /\ (v < K3 => ~Has2(v, 27)) /\ (v >= K4 => Has2(v, 27))
    BY SMT DEF K1, K2, K3, K4, Has2
  <2>2. \A l \in 21 .. 27 : l = 21 \/ l = 22 \/ l = 23 \/ l = 24 \/ l = 25 \/ l = 26 \/ l = 27
    BY SMT
  <2>. QED
    BY <2>1, <2>2, Zenon
<1>5. \A l \in 28 .. 30 : (v < K4 => ~Has2(v, l))
  <2>1. /\ (v < K4 => ~Has2(v, 28))
        /\ (v < K4 => ~Has2(v, 29))
        /\ (v < K4 => ~Has2(v, 30))
    BY SMT DEF K1, K2, K3, K4, Has2
  <2>2. \A l \in 28 .. 30 : l = 28 \/ l = 29 \/ l = 30
    BY SMT
  <2>. QED
    BY <2>1, <2>2, Zenon
<1>6. /\ (v >= K1 => Has2(v, 7)) /\ (v >= K2 => Has2(v, 14))
      /\ (v >= K3 => Has2(v, 21)) /\ (v >= K4 => Has2(v, 28))
  BY SMT DEF K1, K2, K3, K4, Has2
<1>. QED
  BY <1>1, <1>2, <1>3, <1>4, <1>5, <1>6

\* A set between two intervals has as many elements as they allow.
LEMMA Between ==
    ASSUME NEW m \in Nat, NEW a \in 0 .. m, NEW b \in a .. m,
           NEW S, 1 .. a \subseteq S, S \subseteq 1 .. b
    PROVE  Cardinality(S) \in a .. b
<1>1. /\ IsFiniteSet(1 .. b) /\ Cardinality(1 .. b) = b
      /\ Cardinality(1 .. a) = a
  <2>1. 1 \in Int /\ a \in Int /\ b \in Int
    OBVIOUS
  <2>2. /\ IsFiniteSet(1 .. b) /\ Cardinality(1 .. b) = IF 1 > b THEN 0 ELSE b - 1 + 1
        /\ Cardinality(1 .. a) = IF 1 > a THEN 0 ELSE a - 1 + 1
    BY <2>1, FS_Interval
  <2>. QED
    BY <2>2
<1>2. IsFiniteSet(S) /\ Cardinality(S) <= Cardinality(1 .. b)
  BY <1>1, FS_Subset
<1>3. Cardinality(1 .. a) <= Cardinality(S)
  BY <1>2, FS_Subset
<1>4. Cardinality(S) \in Nat
  BY <1>2, FS_CardinalityType
<1>. QED
  BY <1>1, <1>2, <1>3, <1>4

\* The size computed from the logarithm is the number of groups of seven
\* bits that are written, at every boundary, and never more than five.
LEMMA VarintSizeIsBytes ==
    ASSUME NEW v \in Nat
    PROVE  VarintSize(v) = VarintBytes(v) /\ VarintSize(v) \in 1 .. 5
<1>. DEFINE L == {l \in 1 .. 30 : Has2(v, l)}
            B == {k \in 1 .. 4 : Has128(v, k)}
<1>1. K1 \in Nat /\ K2 \in Nat /\ K3 \in Nat /\ K4 \in Nat /\ K1 < K2 /\ K2 < K3 /\ K3 < K4
  BY SMT DEF K1, K2, K3, K4
<1>2. \A k \in 1 .. 4 : k = 1 \/ k = 2 \/ k = 3 \/ k = 4
  BY SMT
<1>3. VarintSize(v) = (Cardinality(L) * 9 + 73) \div 64 /\ VarintBytes(v) = 1 + Cardinality(B)
  BY Zenon DEF VarintSize, Log2Floor, VarintBytes, Has2, Has128
<1>4. CASE v < K1
  <2>0. v < K1 /\ v < K2 /\ v < K3 /\ v < K4
    BY <1>1, <1>4
  <2>1. 1 .. 0 \subseteq L /\ L \subseteq 1 .. 6
    BY <1>1, <1>4, <2>0, Bits
  <2>2. 1 .. 0 \subseteq B /\ B \subseteq 1 .. 0
    BY <1>1, <1>2, <1>4, Groups
  <2>3. 30 \in Nat /\ 0 \in 0 .. 30 /\ 6 \in 0 .. 30
    BY SMT
  <2>4. 4 \in Nat /\ 0 \in 0 .. 4 /\ 0 \in 0 .. 4
    BY SMT
  <2>. HIDE DEF L, B
  <2>5. Cardinality(L) \in 0 .. 6 /\ Cardinality(B) \in 0 .. 0
    BY <2>1, <2>2, <2>3, <2>4, Between
  <2>. QED
    BY <1>3, <2>5, SMT
<1>5. CASE K1 <= v /\ v < K2
  <2>0. v >= K1 /\ v < K2 /\ v < K3 /\ v < K4
    BY <1>1, <1>5
  <2>1. 1 .. 7 \subseteq L /\ L \subseteq 1 .. 13
    BY <1>1, <1>5, <2>0, Bits
  <2>2. 1 .. 1 \subseteq B /\ B \subseteq 1 .. 1
    BY <1>1, <1>2, <1>5, Groups
  <2>3. 30 \in Nat /\ 7 \in 0 .. 30 /\ 13 \in 7 .. 30
    BY SMT
  <2>4. 4 \in Nat /\ 1 \in 0 .. 4 /\ 1 \in 1 .. 4
    BY SMT
  <2>. HIDE DEF L, B
  <2>5. Cardinality(L) \in 7 .. 13 /\ Cardinality(B) \in 1 .. 1
    BY <2>1, <2>2, <2>3, <2>4, Between
  <2>. QED
    BY <1>3, <2>5, SMT
<1>6. CASE K2 <= v /\ v < K3
  <2>0. v >= K1 /\ v >= K2 /\ v < K3 /\ v < K4
    BY <1>1, <1>6
  <2>1. 1 .. 14 \subseteq L /\ L \subseteq 1 .. 20
    BY <1>1, <1>6, <2>0, Bits
  <2>2. 1 .. 2 \subseteq B /\ B \subseteq 1 .. 2
    BY <1>1, <1>2, <1>6, Groups
  <2>3. 30 \in Nat /\ 14 \in 0 .. 30 /\ 20 \in 14 .. 30
    BY SMT
  <2>4. 4 \in Nat /\ 2 \in 0 .. 4 /\ 2 \in 2 .. 4
    BY SMT
  <2>. HIDE DEF L, B
  <2>5. Cardinality(L) \in 14 .. 20 /\ Cardinality(B) \in 2 .. 2
    BY <2>1, <2>2, <2>3, <2>4, Between
  <2>. QED
    BY <1>3, <2>5, SMT
<1>7. CASE K3 <= v /\ v < K4
  <2>0. v >= K1 /\ v >= K2 /\ v >= K3 /\ v < K4
    BY <1>1, <1>7
  <2>1. 1 .. 21 \subseteq L /\ L \subseteq 1 .. 27
    BY <1>1, <1>7, <2>0, Bits
  <2>2. 1 .. 3 \subseteq B /\ B \subseteq 1 .. 3
    BY <1>1, <1>2, <1>7, Groups
  <2>3. 30 \in Nat /\ 21 \in 0 .. 30 /\ 27 \in 21 .. 30
    BY SMT
  <2>4. 4 \in Nat /\ 3 \in 0 .. 4 /\ 3 \in 3 .. 4
    BY SMT
  <2>. HIDE DEF L, B
  <2>5. Cardinality(L) \in 21 .. 27 /\ Cardinality(B) \in 3 .. 3
    BY <2>1, <2>2, <2>3, <2>4, Between
  <2>. QED
    BY <1>3, <2>5, SMT
<1>8. CASE K4 <= v
  <2>0. v >= K1 /\ v >= K2 /\ v >= K3 /\ v >= K4
    BY <1>1, <1>8
  <2>1. 1 .. 28 \subseteq L /\ L \subseteq 1 .. 30
    BY <1>1, <1>8, <2>0, Bits
  <2>2. 1 .. 4 \subseteq B /\ B \subseteq 1 .. 4
    BY <1>1, <1>2, <1>8, Groups
  <2>3. 30 \in Nat /\ 28 \in 0 .. 30 /\ 30 \in 28 .. 30
    BY SMT
  <2>4. 4 \in Nat /\ 4 \in 0 .. 4 /\ 4 \in 4 .. 4
    BY SMT
  <2>. HIDE DEF L, B
  <2>5. Cardinality(L) \in 28 .. 30 /\ Cardinality(B) \in 4 .. 4
    BY <2>1, <2>2, <2>3, <2>4, Between
  <2>. QED
    BY <1>3, <2>5, SMT
<1>. HIDE DEF L, B
<1>. QED
  BY <1>1, <1>4, <1>5, <1>6, <1>7, <1>8
-----------------------------------------------------------------------------
(* Sizes: what ByteSizeLong adds up is what is written.                    *)

Sizes    == INSTANCE FoldProofs WITH M <- AddBytes
Rows     == INSTANCE FoldProofs WITH M <- AddNodeSize

\* A sequence of fields, of whatever values.
Fields(s) == \E S : s \in Seq(S) /\ \A f \in S : f.bytes \in Nat

\* To show that it is one.
LEMMA AreFields ==
    ASSUME NEW S, NEW s \in Seq(S), \A f \in S : f.bytes \in Nat
    PROVE  Fields(s)
  BY DEF Fields

\* Both sums are folds.
LEMMA SumFolds ==
    ASSUME NEW s
    PROVE  /\ BytesOf(s) = Sizes!Fold(0, s)
           /\ NodesSize(s) = Rows!Fold(0, s)
<1>1. BytesOf(s) = Sizes!Fold(0, s)
  BY DEF BytesOf, FoldLeft, MapThenFoldSet, Max,
         Sizes!Fold, Sizes!FoldLeft, Sizes!MapThenFoldSet, Sizes!Max
<1>2. NodesSize(s) = Rows!Fold(0, s)
  BY DEF NodesSize, FoldLeft, MapThenFoldSet, Max,
         Rows!Fold, Rows!FoldLeft, Rows!MapThenFoldSet, Rows!Max
<1>. QED
  BY <1>1, <1>2

\* Adding up from any number.
LEMMA SumFrom ==
    ASSUME NEW base \in Nat, NEW s, Fields(s)
    PROVE  BytesOf(s) \in Nat /\ Sizes!Fold(base, s) = base + BytesOf(s)
<1>1. PICK S : s \in Seq(S) /\ \A f \in S : f.bytes \in Nat
  BY DEF Fields
<1>. DEFINE n == Len(s)
<1>2. n \in Nat /\ DOMAIN s = 1 .. n /\ \A k \in 1 .. n : s[k].bytes \in Nat
  BY <1>1
<1>. HIDE DEF n
<1>3. PICK p : Sizes!Partials(p, 0, s, n) /\ Sizes!Fold(0, s) = p[n]
  BY <1>2, 0 \in Nat, Sizes!FoldPartials
<1>. DEFINE T == {k \in 0 .. n : p[k] \in Nat}
            q == [k \in 0 .. n |-> base + p[k]]
<1>4. \A k \in 1 .. n : p[k] = p[k - 1] + s[k].bytes
  BY <1>3 DEF Sizes!Partials, AddBytes
<1>5. p[0] = 0
  BY <1>3 DEF Sizes!Partials
<1>6. \A k \in 0 .. n : p[k] \in Nat
  <2>1. 0 \in T
    BY <1>2, <1>5
  <2>2. ASSUME NEW k \in 0 .. n - 1, k \in T PROVE k + 1 \in T
    <3>1. k + 1 \in 1 .. n /\ k + 1 \in 0 .. n /\ (k + 1) - 1 = k
      BY <1>2
    <3>. QED
      BY <1>2, <1>4, <2>2, <3>1
  <2>3. \A k \in 0 .. n : k \in T
    <3>. HIDE DEF T
    <3>. QED
      BY <1>2, <2>1, <2>2, Sizes!UpTo
  <2>. QED
    BY <2>3
<1>7. Sizes!Partials(q, base, s, n)
  <2>1. q[0] = base
    BY <1>2, <1>5
  <2>2. ASSUME NEW k \in 1 .. n PROVE q[k] = q[k - 1] + s[k].bytes
    <3>1. k \in 0 .. n /\ k - 1 \in 0 .. n
      BY <1>2
    <3>. QED
      BY <1>2, <1>4, <1>6, <3>1
  <2>. QED
    BY <2>1, <2>2 DEF Sizes!Partials, AddBytes
<1>8. n \in 0 .. n /\ q[n] = base + p[n]
  BY <1>2
<1>. HIDE DEF q
<1>9. Sizes!Fold(base, s) = q[n]
  BY <1>2, <1>7, Sizes!FoldIs
<1>. QED
  BY <1>3, <1>6, <1>8, <1>9, SumFolds

\* No field takes nothing.
LEMMA NoFields == Fields(<<>>) /\ BytesOf(<<>>) = 0
<1>1. Fields(<<>>)
  <2>. DEFINE S == {}
  <2>1. <<>> \in Seq(S) /\ \A f \in S : f.bytes \in Nat
    OBVIOUS
  <2>. HIDE DEF S
  <2>. QED
    BY <2>1, AreFields
<1>. QED
  BY <1>1, SumFolds, Sizes!FoldEmpty

\* One field takes its bytes.
LEMMA OneField ==
    ASSUME NEW f, f.bytes \in Nat
    PROVE  Fields(<<f>>) /\ BytesOf(<<f>>) = f.bytes
<1>1. Fields(<<f>>)
  <2>. DEFINE S == {f}
  <2>1. <<f>> \in Seq(S) /\ \A g \in S : g.bytes \in Nat
    OBVIOUS
  <2>. HIDE DEF S
  <2>. QED
    BY <2>1, AreFields
<1>2. Sizes!Fold(0, <<f>>) = 0 + f.bytes
  BY Sizes!FoldSingle DEF AddBytes
<1>. QED
  BY <1>1, <1>2, SumFolds

\* Two pieces take what both take.
LEMMA MoreFields ==
    ASSUME NEW s, NEW t, Fields(s), Fields(t)
    PROVE  Fields(s \o t) /\ BytesOf(s \o t) = BytesOf(s) + BytesOf(t)
<1>1. PICK S : s \in Seq(S) /\ \A f \in S : f.bytes \in Nat
  BY DEF Fields
<1>2. PICK T : t \in Seq(T) /\ \A f \in T : f.bytes \in Nat
  BY DEF Fields
<1>. DEFINE U == S \cup T
<1>3. /\ s \in Seq(U) /\ t \in Seq(U)
      /\ s \o t \in Seq(U)
      /\ \A f \in U : f.bytes \in Nat
  BY <1>1, <1>2
<1>4. Fields(s \o t)
  BY <1>3, AreFields
<1>. HIDE DEF U
<1>5. Sizes!Fold(0, s \o t) = Sizes!Fold(Sizes!Fold(0, s), t)
  BY <1>3, Sizes!FoldConcat
<1>6. BytesOf(s) \in Nat
  BY SumFrom, 0 \in Nat
<1>. QED
  BY <1>4, <1>5, <1>6, SumFrom, SumFolds

\* A field that is left out, or takes b bytes and a tag.
LEMMA FieldSizes ==
    ASSUME NEW tag, NEW v \in Nat, NEW x, NEW n \in Nat, NEW e
    PROVE  /\ Fields(UInt32Field(tag, v)) /\ BytesOf(UInt32Field(tag, v)) = UInt32Size(v)
           /\ Fields(EnumField(tag, x, e)) /\ BytesOf(EnumField(tag, x, e)) = EnumSize(x, e)
           /\ Fields(StringField(tag, x, n)) /\ BytesOf(StringField(tag, x, n)) = StringSize(x, n)
           /\ UInt32Size(v) \in Nat /\ EnumSize(x, e) \in Nat /\ StringSize(x, n) \in Nat
<1>1. /\ VarintBytes(v) \in Nat /\ VarintSize(v) = VarintBytes(v)
      /\ VarintBytes(n) \in Nat /\ VarintSize(n) = VarintBytes(n)
  BY VarintSizeIsBytes
<1>2. \A b \in Nat : \A y : Field(tag, b, y).bytes = 1 + b
  BY DEF Field
<1>3. \A b \in Nat : \A y : /\ Fields(<<Field(tag, b, y)>>)
                             /\ BytesOf(<<Field(tag, b, y)>>) = 1 + b
  <2>. SUFFICES ASSUME NEW b \in Nat, NEW y
                PROVE  /\ Fields(<<Field(tag, b, y)>>)
                       /\ BytesOf(<<Field(tag, b, y)>>) = 1 + b
    OBVIOUS
  <2>1. Field(tag, b, y).bytes = 1 + b /\ 1 + b \in Nat
    BY <1>2
  <2>. QED
    BY <2>1, OneField
<1>4. Fields(UInt32Field(tag, v)) /\ BytesOf(UInt32Field(tag, v)) = UInt32Size(v)
  BY <1>1, <1>3, NoFields DEF UInt32Field, UInt32Size
<1>5. Fields(EnumField(tag, x, e)) /\ BytesOf(EnumField(tag, x, e)) = EnumSize(x, e)
  BY 1 \in Nat, 1 + 1 = 2, <1>3, NoFields DEF EnumField, EnumSize
<1>6. VarintBytes(n) + n \in Nat /\ 1 + (n + VarintBytes(n)) = 1 + (VarintBytes(n) + n)
  BY <1>1
<1>7. Fields(StringField(tag, x, n)) /\ BytesOf(StringField(tag, x, n)) = StringSize(x, n)
  BY <1>1, <1>3, <1>6, NoFields DEF StringField, StringSize, LengthDelimitedSize
<1>8. UInt32Size(v) \in Nat /\ EnumSize(x, e) \in Nat /\ StringSize(x, n) \in Nat
  <2>1. 0 \in Nat /\ 2 \in Nat /\ 1 + VarintSize(v) \in Nat /\ 1 + (n + VarintSize(n)) \in Nat
    BY <1>1
  <2>. QED
    BY <2>1, Zenon DEF UInt32Size, EnumSize, StringSize, LengthDelimitedSize
<1>. QED
  BY <1>4, <1>5, <1>7, <1>8

\* A contact takes what NodeSize says.
LEMMA NodeSizeIsBytes ==
    ASSUME NEW c, c.ip \in Nat, c.port_nat \in Nat
    PROVE  /\ NodeSize(c) \in Nat /\ Fields(EncNode(c))
           /\ BytesOf(EncNode(c)) = NodeSize(c)
<1>. DEFINE a == StringField(10, c.id, ID_LENGTH)
            b == UInt32Field(16, c.ip)
            d == UInt32Field(24, c.port_nat)
<1>1. /\ Fields(a) /\ BytesOf(a) = StringSize(c.id, ID_LENGTH)
      /\ Fields(b) /\ BytesOf(b) = UInt32Size(c.ip)
      /\ Fields(d) /\ BytesOf(d) = UInt32Size(c.port_nat)
      /\ StringSize(c.id, ID_LENGTH) \in Nat /\ UInt32Size(c.ip) \in Nat
      /\ UInt32Size(c.port_nat) \in Nat
  <2>1. ID_LENGTH \in Nat
    BY DEF ID_LENGTH
  <2>. QED
    BY <2>1, FieldSizes
<1>. HIDE DEF a, b, d
<1>2. Fields(a \o b) /\ BytesOf(a \o b) = BytesOf(a) + BytesOf(b)
  BY <1>1, MoreFields
<1>3. Fields(a \o b \o d) /\ BytesOf(a \o b \o d) = BytesOf(a \o b) + BytesOf(d)
  BY <1>1, <1>2, MoreFields
<1>4. EncNode(c) = a \o b \o d
  BY DEF EncNode, a, b, d
<1>. QED
  BY <1>1, <1>2, <1>3, <1>4 DEF NodeSize

\* The contacts there are.
NodeRecords == [id : STRING, ip : Nat, port_nat : Nat]

\* A contact in a list takes its bytes, their number and a tag.
LEMMA RowSize ==
    ASSUME NEW c \in NodeRecords
    PROVE  /\ Message(10, EncNode(c)).bytes = 1 + LengthDelimitedSize(NodeSize(c))
           /\ 1 + LengthDelimitedSize(NodeSize(c)) \in Nat \ {0}
<1>1. /\ NodeSize(c) \in Nat /\ BytesOf(EncNode(c)) = NodeSize(c)
  BY NodeSizeIsBytes DEF NodeRecords
<1>2. /\ VarintSize(NodeSize(c)) = VarintBytes(NodeSize(c))
      /\ VarintSize(NodeSize(c)) \in 1 .. 5
  BY <1>1, VarintSizeIsBytes
<1>. QED
  BY <1>1, <1>2 DEF Message, Field, LengthDelimitedSize

\* A list of contacts takes what NodesSize says.
LEMMA NodesSizeIsBytes ==
    ASSUME NEW nodes \in Seq(NodeRecords)
    PROVE  /\ NodesSize(nodes) \in Nat /\ Fields(EncNodes(nodes))
           /\ BytesOf(EncNodes(nodes)) = NodesSize(nodes)
<1>. DEFINE n == Len(nodes)
            e == EncNodes(nodes)
            S == {e[k] : k \in 1 .. n}
<1>1. n \in Nat /\ DOMAIN nodes = 1 .. n /\ \A k \in 1 .. n : nodes[k] \in NodeRecords
  OBVIOUS
<1>2. e = [k \in 1 .. n |-> Message(10, EncNode(nodes[k]))]
  BY <1>1 DEF EncNodes
<1>. HIDE DEF n, e
<1>3. /\ DOMAIN e = 1 .. n
      /\ \A k \in 1 .. n : /\ e[k].bytes = 1 + LengthDelimitedSize(NodeSize(nodes[k]))
                           /\ e[k].bytes \in Nat
  BY <1>1, <1>2, RowSize
<1>4. e \in Seq(S)
  BY <1>1, <1>2
<1>5. Fields(e)
  <2>1. \A f \in S : f.bytes \in Nat
    BY <1>3
  <2>. HIDE DEF S
  <2>. QED
    BY <1>4, <2>1, AreFields
<1>6. PICK p : Sizes!Partials(p, 0, e, n) /\ Sizes!Fold(0, e) = p[n]
  BY <1>1, <1>3, Sizes!FoldPartials
<1>7. Rows!Partials(p, 0, nodes, n)
  <2>1. \A k \in 1 .. n : p[k] = p[k - 1] + e[k].bytes
    BY <1>6 DEF Sizes!Partials, AddBytes
  <2>2. p[0] = 0
    BY <1>6 DEF Sizes!Partials
  <2>. QED
    BY <1>3, <2>1, <2>2 DEF Rows!Partials, AddNodeSize
<1>8. Rows!Fold(0, nodes) = p[n]
  BY <1>1, <1>7, Rows!FoldIs
<1>9. BytesOf(e) \in Nat
  BY <1>5, SumFrom, 0 \in Nat
<1>. QED
  BY <1>5, <1>6, <1>8, <1>9, SumFolds DEF e

\* A message that pack has filled in.
Filled(m) == /\ m.head \in Nat /\ m.length \in Nat /\ m.text \in Nat
             /\ m.nodes \in Seq(NodeRecords)

\* What EncMsg joins are fields.
LEMMA PartsAreFields ==
    ASSUME NEW m, Filled(m)
    PROVE  /\ Fields(UInt32Field(8, m.head))
           /\ Fields(StringField(18, m.version, VersionLength))
           /\ Fields(StringField(26, m.src, ID_LENGTH))
           /\ Fields(StringField(34, m.dst, ID_LENGTH))
           /\ Fields(EnumField(56, m.type, "EMPTY"))
           /\ Fields(EnumField(64, m.sub, "EMPTY_SUB"))
           /\ Fields(UInt32Field(72, m.length))
           /\ Fields(IF m.body = "text"
                     THEN <<Field(82, VarintBytes(m.text) + m.text, m.text)>> ELSE <<>>)
           /\ Fields(IF m.body = "nodes" THEN <<Message(90, EncNodes(m.nodes))>> ELSE <<>>)
<1>1. ID_LENGTH \in Nat /\ VersionLength \in Nat /\ m.head \in Nat /\ m.length \in Nat
  BY DEF ID_LENGTH, VersionLength, Filled
<1>2. Fields(<<Field(82, VarintBytes(m.text) + m.text, m.text)>>)
  <2>. DEFINE f == Field(82, VarintBytes(m.text) + m.text, m.text)
  <2>1. f.bytes \in Nat
    BY VarintSizeIsBytes DEF Filled, Field
  <2>. HIDE DEF f
  <2>. QED
    BY <2>1, OneField DEF f
<1>3. Fields(<<Message(90, EncNodes(m.nodes))>>)
  <2>. DEFINE f == Message(90, EncNodes(m.nodes))
  <2>1. BytesOf(EncNodes(m.nodes)) \in Nat
    BY NodesSizeIsBytes DEF Filled
  <2>2. f.bytes \in Nat
    BY <2>1, VarintSizeIsBytes DEF Message, Field
  <2>. HIDE DEF f
  <2>. QED
    BY <2>2, OneField DEF f
<1>. QED
  BY <1>1, <1>2, <1>3, FieldSizes, NoFields, 0 \in Nat, ZenonT(60)

\* A message takes what MsgSize says.
LEMMA MsgSizeIsBytes ==
    ASSUME NEW m, Filled(m)
    PROVE  Fields(EncMsg(m)) /\ MsgSize(m) = BytesOf(EncMsg(m))
<1>. DEFINE f1 == UInt32Field(8, m.head)
            f2 == StringField(18, m.version, VersionLength)
            f3 == StringField(26, m.src, ID_LENGTH)
            f4 == StringField(34, m.dst, ID_LENGTH)
            f7 == EnumField(56, m.type, "EMPTY")
            f8 == EnumField(64, m.sub, "EMPTY_SUB")
            f9 == UInt32Field(72, m.length)
            text  == IF m.body = "text"
                     THEN <<Field(82, VarintBytes(m.text) + m.text, m.text)>> ELSE <<>>
            nodes == IF m.body = "nodes" THEN <<Message(90, EncNodes(m.nodes))>> ELSE <<>>
            TextSize  == IF m.body = "text" THEN 1 + LengthDelimitedSize(m.text) ELSE 0
            ListSize == IF m.body = "nodes"
                         THEN 1 + LengthDelimitedSize(NodesSize(m.nodes)) ELSE 0
<1>1. /\ Fields(f1) /\ BytesOf(f1) = UInt32Size(m.head)
      /\ Fields(f9) /\ BytesOf(f9) = UInt32Size(m.length)
      /\ UInt32Size(m.head) \in Nat /\ UInt32Size(m.length) \in Nat
  BY FieldSizes, 0 \in Nat DEF Filled
<1>2. /\ Fields(f2) /\ BytesOf(f2) = StringSize(m.version, VersionLength)
      /\ Fields(f3) /\ BytesOf(f3) = StringSize(m.src, ID_LENGTH)
      /\ Fields(f4) /\ BytesOf(f4) = StringSize(m.dst, ID_LENGTH)
      /\ StringSize(m.version, VersionLength) \in Nat
      /\ StringSize(m.src, ID_LENGTH) \in Nat /\ StringSize(m.dst, ID_LENGTH) \in Nat
  <2>1. ID_LENGTH \in Nat /\ VersionLength \in Nat
    BY DEF ID_LENGTH, VersionLength
  <2>. QED
    BY <2>1, FieldSizes
<1>3. /\ Fields(f7) /\ BytesOf(f7) = EnumSize(m.type, "EMPTY")
      /\ Fields(f8) /\ BytesOf(f8) = EnumSize(m.sub, "EMPTY_SUB")
      /\ EnumSize(m.type, "EMPTY") \in Nat /\ EnumSize(m.sub, "EMPTY_SUB") \in Nat
  <2>1. \A tag, x, e : /\ Fields(EnumField(tag, x, e))
                       /\ BytesOf(EnumField(tag, x, e)) = EnumSize(x, e)
                       /\ EnumSize(x, e) \in Nat
    BY FieldSizes, 0 \in Nat
  <2>. QED
    BY <2>1, Zenon
<1>4. Fields(text) /\ BytesOf(text) = TextSize /\ TextSize \in Nat
  <2>. DEFINE f == Field(82, VarintBytes(m.text) + m.text, m.text)
  <2>1. f.bytes = 1 + LengthDelimitedSize(m.text) /\ 1 + LengthDelimitedSize(m.text) \in Nat
    BY VarintSizeIsBytes DEF Filled, Field, LengthDelimitedSize
  <2>. HIDE DEF f
  <2>2. Fields(<<f>>) /\ BytesOf(<<f>>) = f.bytes
    BY <2>1, OneField
  <2>. QED
    BY <2>1, <2>2, NoFields, 0 \in Nat, Zenon DEF f
<1>5. Fields(nodes) /\ BytesOf(nodes) = ListSize /\ ListSize \in Nat
  <2>. DEFINE f == Message(90, EncNodes(m.nodes))
  <2>1. NodesSize(m.nodes) \in Nat /\ BytesOf(EncNodes(m.nodes)) = NodesSize(m.nodes)
    BY NodesSizeIsBytes DEF Filled
  <2>2. /\ f.bytes = 1 + LengthDelimitedSize(NodesSize(m.nodes))
        /\ 1 + LengthDelimitedSize(NodesSize(m.nodes)) \in Nat
    BY <2>1, VarintSizeIsBytes DEF Message, Field, LengthDelimitedSize
  <2>. HIDE DEF f
  <2>3. Fields(<<f>>) /\ BytesOf(<<f>>) = f.bytes
    BY <2>2, OneField
  <2>. QED
    BY <2>2, <2>3, NoFields, 0 \in Nat, Zenon DEF f
<1>6. EncMsg(m) = f1 \o f2 \o f3 \o f4 \o f7 \o f8 \o f9 \o text \o nodes
  BY Zenon DEF EncMsg
<1>7. MsgSize(m) = StringSize(m.version, VersionLength) + StringSize(m.src, ID_LENGTH)
                   + StringSize(m.dst, ID_LENGTH) + UInt32Size(m.head)
                   + EnumSize(m.type, "EMPTY") + EnumSize(m.sub, "EMPTY_SUB")
                   + UInt32Size(m.length) + (TextSize + ListSize)
  <2>1. TextSize + ListSize =
            CASE m.body = "text"  -> 1 + LengthDelimitedSize(m.text)
              [] m.body = "nodes" -> 1 + LengthDelimitedSize(NodesSize(m.nodes))
              [] OTHER            -> 0
    BY <1>4, <1>5
  <2>. QED
    BY <2>1, Zenon DEF MsgSize
<1>. HIDE DEF f1, f2, f3, f4, f7, f8, f9, text, nodes, TextSize, ListSize
<1>8. /\ Fields(f1 \o f2)
      /\ BytesOf(f1 \o f2) = BytesOf(f1) + BytesOf(f2)
  BY <1>1, <1>2, MoreFields
<1>9. /\ Fields(f1 \o f2 \o f3)
      /\ BytesOf(f1 \o f2 \o f3) = BytesOf(f1 \o f2) + BytesOf(f3)
  BY <1>2, <1>8, MoreFields
<1>10. /\ Fields(f1 \o f2 \o f3 \o f4)
       /\ BytesOf(f1 \o f2 \o f3 \o f4) = BytesOf(f1 \o f2 \o f3) + BytesOf(f4)
  BY <1>2, <1>9, MoreFields
<1>11. /\ Fields(f1 \o f2 \o f3 \o f4 \o f7)
       /\ BytesOf(f1 \o f2 \o f3 \o f4 \o f7) = BytesOf(f1 \o f2 \o f3 \o f4) + BytesOf(f7)
  BY <1>3, <1>10, MoreFields
<1>. DEFINE h == f1 \o f2 \o f3 \o f4 \o f7
<1>. HIDE DEF h
<1>12. /\ Fields(h \o f8) /\ BytesOf(h \o f8) = BytesOf(h) + BytesOf(f8)
  BY <1>3, <1>11, MoreFields DEF h
<1>13. /\ Fields(h \o f8 \o f9)
       /\ BytesOf(h \o f8 \o f9) = BytesOf(h \o f8) + BytesOf(f9)
  BY <1>1, <1>12, MoreFields
<1>14. /\ Fields(h \o f8 \o f9 \o text)
       /\ BytesOf(h \o f8 \o f9 \o text) = BytesOf(h \o f8 \o f9) + BytesOf(text)
  BY <1>4, <1>13, MoreFields
<1>15. /\ Fields(h \o f8 \o f9 \o text \o nodes)
       /\ BytesOf(h \o f8 \o f9 \o text \o nodes)
             = BytesOf(h \o f8 \o f9 \o text) + BytesOf(nodes)
  BY <1>5, <1>14, MoreFields
<1>16. EncMsg(m) = h \o f8 \o f9 \o text \o nodes
  BY <1>6 DEF h
<1>17. BytesOf(h) = BytesOf(f1) + BytesOf(f2) + BytesOf(f3) + BytesOf(f4) + BytesOf(f7)
  BY <1>8, <1>9, <1>10, <1>11 DEF h
<1>18. BytesOf(EncMsg(m)) = BytesOf(h) + BytesOf(f8) + BytesOf(f9) + BytesOf(text) + BytesOf(nodes)
  BY <1>12, <1>13, <1>14, <1>15, <1>16, Zenon
<1>19. /\ BytesOf(h) = UInt32Size(m.head) + StringSize(m.version, VersionLength)
                         + StringSize(m.src, ID_LENGTH) + StringSize(m.dst, ID_LENGTH)
                         + EnumSize(m.type, "EMPTY")
       /\ BytesOf(f8) = EnumSize(m.sub, "EMPTY_SUB") /\ BytesOf(f9) = UInt32Size(m.length)
       /\ BytesOf(text) = TextSize /\ BytesOf(nodes) = ListSize
  BY <1>1, <1>2, <1>3, <1>4, <1>5, <1>17, Zenon
<1>20. MsgSize(m) = BytesOf(EncMsg(m))
  <2>. HIDE DEF h
  <2>. QED
    BY <1>1, <1>2, <1>3, <1>4, <1>5, <1>7, <1>18, <1>19, SMTT(30)
<1>. QED
  BY <1>15, <1>16, <1>20, Zenon

-----------------------------------------------------------------------------
(* The messages of the stream, field by field.                             *)

\* The fields of a list of contacts.
LEMMA ContactFields ==
    ASSUME NEW s \in Seq(Nodes)
    PROVE  /\ FieldsOf(s) \in Seq(NodeRecords) /\ Len(FieldsOf(s)) = Len(s)
           /\ DOMAIN FieldsOf(s) = 1 .. Len(s)
           /\ \A k \in 1 .. Len(s) : FieldsOf(s)[k] = EbcNode[s[k]]
<1>. DEFINE n == Len(s)
<1>1. n \in Nat /\ DOMAIN s = 1 .. n /\ \A k \in 1 .. n : s[k] \in Nodes
  OBVIOUS
<1>2. FieldsOf(s) = [k \in 1 .. n |-> EbcNode[s[k]]]
  BY <1>1 DEF FieldsOf
<1>3. \A k \in 1 .. n : EbcNode[s[k]] \in NodeRecords
  BY <1>1, MsgStreamAssumption DEF NodeRecords
<1>. HIDE DEF n
<1>4. FieldsOf(s) \in Seq(NodeRecords) /\ Len(FieldsOf(s)) = n
  BY <1>1, <1>2, <1>3
<1>. QED
  BY <1>1, <1>2, <1>4 DEF n

\* What pack fills in for a message of the server, and for one of a peer.
LEMMA ListingFilled ==
    ASSUME NEW n, P!Listing(n)
    PROVE  /\ Filled(AsPacked(n)) /\ n.nodes \in Seq(Nodes)
           /\ AsPacked(n).nodes = FieldsOf(n.nodes)
           /\ AsPacked(n).length = NodesSize(FieldsOf(n.nodes))
           /\ AsPacked(n).body = "nodes" /\ AsPacked(n).head = MsgHead
<1>1. /\ n.nodes \in Seq(Nodes) /\ n.head = MsgHead /\ n.body = "nodes" /\ n.text = 0
  BY P!ListingFacts DEF P!Partial, MsgHead, P!MsgHead
<1>2. /\ FieldsOf(n.nodes) \in Seq(NodeRecords)
      /\ NodesSize(FieldsOf(n.nodes)) \in Nat
  BY <1>1, ContactFields, NodesSizeIsBytes
<1>3. MsgHead \in Nat
  BY DEF MsgHead
<1>. QED
  BY <1>1, <1>2, <1>3 DEF AsPacked, Filled

\* A message with a text as pack fills it in.
LEMMA HelloFilled ==
    ASSUME NEW n, P!Hello(n)
    PROVE  /\ Filled(AsPacked(n)) /\ AsPacked(n).nodes = <<>>
           /\ AsPacked(n).length = n.text /\ AsPacked(n).text = n.text
           /\ AsPacked(n).body = "text" /\ AsPacked(n).head = MsgHead
<1>1. /\ n.nodes = <<>> /\ n.head = MsgHead /\ n.body = "text" /\ n.text \in Nat
  BY P!HelloFacts DEF MsgHead, P!MsgHead
<1>2. FieldsOf(<<>>) = <<>> /\ <<>> \in Seq(NodeRecords)
  BY DEF FieldsOf
<1>3. MsgHead \in Nat
  BY DEF MsgHead
<1>. QED
  BY <1>1, <1>2, <1>3 DEF AsPacked, Filled
-----------------------------------------------------------------------------
(* Reading back what was written.                                          *)

Reading  == INSTANCE FoldProofs WITH M <- DecField
Contents == INSTANCE FoldProofs WITH M <- DecNodeField

\* Both parsers are folds.
LEMMA DecFolds ==
    ASSUME NEW s
    PROVE  /\ DecMsg(s) = Reading!Fold(EmptyWire, s)
           /\ DecNode(s) = Contents!Fold(EmptyNode, s)
<1>1. DecMsg(s) = Reading!Fold(EmptyWire, s)
  BY DEF DecMsg, FoldLeft, MapThenFoldSet, Max,
         Reading!Fold, Reading!FoldLeft, Reading!MapThenFoldSet, Reading!Max
<1>2. DecNode(s) = Contents!Fold(EmptyNode, s)
  BY DEF DecNode, FoldLeft, MapThenFoldSet, Max,
         Contents!Fold, Contents!FoldLeft, Contents!MapThenFoldSet, Contents!Max
<1>. QED
  BY <1>1, <1>2

\* Fields in two pieces are read one piece after the other.
LEMMA ReadMore ==
    ASSUME NEW w, NEW s, NEW t, Fields(s), Fields(t)
    PROVE  /\ Reading!Fold(w, s \o t) = Reading!Fold(Reading!Fold(w, s), t)
           /\ Contents!Fold(w, s \o t) = Contents!Fold(Contents!Fold(w, s), t)
<1>1. PICK S : s \in Seq(S) /\ \A f \in S : f.bytes \in Nat
  BY DEF Fields
<1>2. PICK T : t \in Seq(T) /\ \A f \in T : f.bytes \in Nat
  BY DEF Fields
<1>. DEFINE U == S \cup T
<1>3. s \in Seq(U) /\ t \in Seq(U)
  BY <1>1, <1>2
<1>. HIDE DEF U
<1>. QED
  BY <1>3, Reading!FoldConcat, Contents!FoldConcat

\* A field that is missing changes nothing.
LEMMA ReadNone ==
    ASSUME NEW w
    PROVE  Contents!Fold(w, <<>>) = w /\ Reading!Fold(w, <<>>) = w
  BY Contents!FoldEmpty, Reading!FoldEmpty

\* A single field is stored.
LEMMA ReadOne ==
    ASSUME NEW w, NEW f
    PROVE  /\ Contents!Fold(w, <<f>>) = DecNodeField(w, f)
           /\ Reading!Fold(w, <<f>>) = DecField(w, f)
  BY Contents!FoldSingle, Reading!FoldSingle

\* The tag and the value of a field.
LEMMA FieldIs ==
    ASSUME NEW tag, NEW b, NEW v
    PROVE  Field(tag, b, v).tag = tag /\ Field(tag, b, v).val = v
  BY DEF Field

\* Where the fields of a contact are stored.
LEMMA StoreInNode ==
    ASSUME NEW c, NEW b, NEW v
    PROVE  /\ DecNodeField(c, Field(10, b, v)) = [c EXCEPT !.id = v]
           /\ DecNodeField(c, Field(16, b, v)) = [c EXCEPT !.ip = v]
           /\ DecNodeField(c, Field(24, b, v)) = [c EXCEPT !.port_nat = v]
<1>1. 10 # 16 /\ 10 # 24 /\ 16 # 24
  OBVIOUS
<1>. QED
  BY <1>1, FieldIs DEF DecNodeField

\* The fields of a contact, each written unless it has its default.
LEMMA ReadId ==
    ASSUME NEW c, NEW v, NEW n
    PROVE  Contents!Fold(c, StringField(10, v, n)) = IF v = "" THEN c ELSE [c EXCEPT !.id = v]
<1>1. \A b : Contents!Fold(c, <<Field(10, b, v)>>) = [c EXCEPT !.id = v]
  BY StoreInNode, ReadOne
<1>. QED
  BY <1>1, ReadNone DEF StringField

\* The address of a contact, unless it was left out as zero.
LEMMA ReadIp ==
    ASSUME NEW c, NEW v
    PROVE  Contents!Fold(c, UInt32Field(16, v)) = IF v = 0 THEN c ELSE [c EXCEPT !.ip = v]
<1>1. \A b : Contents!Fold(c, <<Field(16, b, v)>>) = [c EXCEPT !.ip = v]
  BY StoreInNode, ReadOne
<1>. QED
  BY <1>1, ReadNone DEF UInt32Field

\* Its port.
LEMMA ReadPortNat ==
    ASSUME NEW c, NEW v
    PROVE  Contents!Fold(c, UInt32Field(24, v)) = IF v = 0 THEN c ELSE [c EXCEPT !.port_nat = v]
<1>1. \A b : Contents!Fold(c, <<Field(24, b, v)>>) = [c EXCEPT !.port_nat = v]
  BY StoreInNode, ReadOne
<1>. QED
  BY <1>1, ReadNone DEF UInt32Field

\* Every contact is read as it was written.
LEMMA NodeReadBack ==
    ASSUME NEW c \in NodeRecords
    PROVE  DecNode(EncNode(c)) = c
<1>. DEFINE f1 == StringField(10, c.id, ID_LENGTH)
            f2 == UInt32Field(16, c.ip)
            f3 == UInt32Field(24, c.port_nat)
<1>1. Fields(f1) /\ Fields(f2) /\ Fields(f3)
  <2>1. ID_LENGTH \in Nat /\ c.ip \in Nat /\ c.port_nat \in Nat
    BY DEF NodeRecords, ID_LENGTH
  <2>. QED
    BY <2>1, FieldSizes
<1>2. /\ Contents!Fold(EmptyNode, f1) = [id |-> c.id, ip |-> 0, port_nat |-> 0]
      /\ Contents!Fold([id |-> c.id, ip |-> 0, port_nat |-> 0], f2)
            = [id |-> c.id, ip |-> c.ip, port_nat |-> 0]
      /\ Contents!Fold([id |-> c.id, ip |-> c.ip, port_nat |-> 0], f3)
            = [id |-> c.id, ip |-> c.ip, port_nat |-> c.port_nat]
  <2>. DEFINE i == c.id
              n == ID_LENGTH
              d == [id |-> "", ip |-> 0, port_nat |-> 0]
  <2>. HIDE DEF i, n
  <2>1. Contents!Fold(d, StringField(10, i, n)) = IF i = "" THEN d ELSE [d EXCEPT !.id = i]
    BY ReadId
  <2>2. Contents!Fold(d, StringField(10, i, n)) = [id |-> i, ip |-> 0, port_nat |-> 0]
    BY <2>1
  <2>3. Contents!Fold([id |-> i, ip |-> 0, port_nat |-> 0], f2)
            = [id |-> i, ip |-> c.ip, port_nat |-> 0]
    BY ReadIp
  <2>4. Contents!Fold([id |-> i, ip |-> c.ip, port_nat |-> 0], f3)
            = [id |-> i, ip |-> c.ip, port_nat |-> c.port_nat]
    BY ReadPortNat
  <2>. QED
    BY <2>2, <2>3, <2>4, Zenon DEF i, n, EmptyNode
<1>3. EncNode(c) = f1 \o f2 \o f3
  BY DEF EncNode
<1>. HIDE DEF f1, f2, f3
<1>4. Fields(f1 \o f2)
  BY <1>1, MoreFields
<1>5. Contents!Fold(EmptyNode, f1 \o f2 \o f3)
          = Contents!Fold(Contents!Fold(Contents!Fold(EmptyNode, f1), f2), f3)
  BY <1>1, <1>4, ReadMore
<1>6. [id |-> c.id, ip |-> c.ip, port_nat |-> c.port_nat] = c
  BY DEF NodeRecords
<1>. QED
  BY <1>2, <1>3, <1>5, <1>6, DecFolds, Zenon

\* A list of contacts is read back, after those there were.
LEMMA NodesReadBack ==
    ASSUME NEW old, NEW nodes \in Seq(NodeRecords)
    PROVE  DecNodes(old, EncNodes(nodes)) = old \o nodes
<1>. DEFINE n == Len(nodes)
            e == EncNodes(nodes)
<1>1. n \in Nat /\ DOMAIN nodes = 1 .. n /\ \A k \in 1 .. n : nodes[k] \in NodeRecords
  OBVIOUS
<1>2. nodes = [k \in 1 .. n |-> nodes[k]]
  OBVIOUS
<1>3. e = [k \in 1 .. n |-> Message(10, EncNode(nodes[k]))]
  BY <1>1 DEF EncNodes
<1>. HIDE DEF n, e
<1>4. DOMAIN e = 1 .. n /\ \A k \in 1 .. n : e[k].val = EncNode(nodes[k])
  BY <1>3 DEF Message, Field
<1>5. \A k \in 1 .. n : DecNode(e[k].val) = nodes[k]
  BY <1>1, <1>4, NodeReadBack
<1>6. [k \in DOMAIN e |-> DecNode(e[k].val)] = nodes
  BY <1>2, <1>4, <1>5
<1>. QED
  BY <1>6 DEF DecNodes, e
-----------------------------------------------------------------------------
(* What one message more makes of what was read.                           *)

\* A message that is read into.
Wired(h, v, s, d, t, u, l, b, ns, x) ==
    [head |-> h, version |-> v, src |-> s, dst |-> d, type |-> t, sub |-> u,
     length |-> l, body |-> b, nodes |-> ns, text |-> x]

\* A text that replaces the one before unless it is empty.
Restated(old, new) == IF new = "" THEN old ELSE new

\* Each header replaces the one before unless it was left out as a default.
LEMMA ReadHead ==
    ASSUME NEW h, NEW v, NEW s, NEW d, NEW t, NEW u, NEW l, NEW b, NEW ns, NEW x,
           NEW y
    PROVE  Reading!Fold(Wired(h, v, s, d, t, u, l, b, ns, x), UInt32Field(8, y))
               = Wired(Over(h, y, 0), v, s, d, t, u, l, b, ns, x)
<1>. DEFINE w == Wired(h, v, s, d, t, u, l, b, ns, x)
<1>1. \A z : Reading!Fold(w, <<Field(8, z, y)>>) = [w EXCEPT !.head = y]
  <2>. HIDE DEF w
  <2>. TAKE z
  <2>. DEFINE f == Field(8, z, y)
  <2>1. f.tag = 8 /\ f.val = y
    BY FieldIs
  <2>. HIDE DEF f
  <2>2. DecField(w, f) = [w EXCEPT !.head = f.val]
    BY <2>1, SMT DEF DecField
  <2>. QED
    BY <2>1, <2>2, ReadOne, Zenon DEF f
<1>2. Reading!Fold(w, UInt32Field(8, y))
          = IF y = 0 THEN w ELSE [w EXCEPT !.head = y]
  <2>. HIDE DEF w
  <2>. QED
    BY <1>1, ReadNone DEF UInt32Field
<1>. QED
  BY <1>2 DEF Over, Restated, Wired

\* The version.
LEMMA ReadVersion ==
    ASSUME NEW h, NEW v, NEW s, NEW d, NEW t, NEW u, NEW l, NEW b, NEW ns, NEW x,
           NEW y
    PROVE  Reading!Fold(Wired(h, v, s, d, t, u, l, b, ns, x), StringField(18, y, VersionLength))
               = Wired(h, Restated(v, y), s, d, t, u, l, b, ns, x)
<1>. DEFINE w == Wired(h, v, s, d, t, u, l, b, ns, x)
<1>1. \A z : Reading!Fold(w, <<Field(18, z, y)>>) = [w EXCEPT !.version = y]
  <2>. HIDE DEF w
  <2>. TAKE z
  <2>. DEFINE f == Field(18, z, y)
  <2>1. f.tag = 18 /\ f.val = y
    BY FieldIs
  <2>. HIDE DEF f
  <2>2. DecField(w, f) = [w EXCEPT !.version = f.val]
    BY <2>1, SMT DEF DecField
  <2>. QED
    BY <2>1, <2>2, ReadOne, Zenon DEF f
<1>2. Reading!Fold(w, StringField(18, y, VersionLength))
          = IF y = "" THEN w ELSE [w EXCEPT !.version = y]
  <2>. HIDE DEF w
  <2>. QED
    BY <1>1, ReadNone DEF StringField
<1>. QED
  BY <1>2 DEF Over, Restated, Wired

\* The source.
LEMMA ReadSrc ==
    ASSUME NEW h, NEW v, NEW s, NEW d, NEW t, NEW u, NEW l, NEW b, NEW ns, NEW x,
           NEW y
    PROVE  Reading!Fold(Wired(h, v, s, d, t, u, l, b, ns, x), StringField(26, y, ID_LENGTH))
               = Wired(h, v, Restated(s, y), d, t, u, l, b, ns, x)
<1>. DEFINE w == Wired(h, v, s, d, t, u, l, b, ns, x)
<1>1. \A z : Reading!Fold(w, <<Field(26, z, y)>>) = [w EXCEPT !.src = y]
  <2>. HIDE DEF w
  <2>. TAKE z
  <2>. DEFINE f == Field(26, z, y)
  <2>1. f.tag = 26 /\ f.val = y
    BY FieldIs
  <2>. HIDE DEF f
  <2>2. DecField(w, f) = [w EXCEPT !.src = f.val]
    BY <2>1, SMT DEF DecField
  <2>. QED
    BY <2>1, <2>2, ReadOne, Zenon DEF f
<1>2. Reading!Fold(w, StringField(26, y, ID_LENGTH))
          = IF y = "" THEN w ELSE [w EXCEPT !.src = y]
  <2>. HIDE DEF w
  <2>. QED
    BY <1>1, ReadNone DEF StringField
<1>. QED
  BY <1>2 DEF Over, Restated, Wired

\* The destination.
LEMMA ReadDst ==
    ASSUME NEW h, NEW v, NEW s, NEW d, NEW t, NEW u, NEW l, NEW b, NEW ns, NEW x,
           NEW y
    PROVE  Reading!Fold(Wired(h, v, s, d, t, u, l, b, ns, x), StringField(34, y, ID_LENGTH))
               = Wired(h, v, s, Restated(d, y), t, u, l, b, ns, x)
<1>. DEFINE w == Wired(h, v, s, d, t, u, l, b, ns, x)
<1>1. \A z : Reading!Fold(w, <<Field(34, z, y)>>) = [w EXCEPT !.dst = y]
  <2>. HIDE DEF w
  <2>. TAKE z
  <2>. DEFINE f == Field(34, z, y)
  <2>1. f.tag = 34 /\ f.val = y
    BY FieldIs
  <2>. HIDE DEF f
  <2>2. DecField(w, f) = [w EXCEPT !.dst = f.val]
    BY <2>1, SMT DEF DecField
  <2>. QED
    BY <2>1, <2>2, ReadOne, Zenon DEF f
<1>2. Reading!Fold(w, StringField(34, y, ID_LENGTH))
          = IF y = "" THEN w ELSE [w EXCEPT !.dst = y]
  <2>. HIDE DEF w
  <2>. QED
    BY <1>1, ReadNone DEF StringField
<1>. QED
  BY <1>2 DEF Over, Restated, Wired

\* The type.
LEMMA ReadType ==
    ASSUME NEW h, NEW v, NEW s, NEW d, NEW t, NEW u, NEW l, NEW b, NEW ns, NEW x,
           NEW y
    PROVE  Reading!Fold(Wired(h, v, s, d, t, u, l, b, ns, x), EnumField(56, y, "EMPTY"))
               = Wired(h, v, s, d, Over(t, y, "EMPTY"), u, l, b, ns, x)
<1>. DEFINE w == Wired(h, v, s, d, t, u, l, b, ns, x)
<1>1. \A z : Reading!Fold(w, <<Field(56, z, y)>>) = [w EXCEPT !.type = y]
  <2>. HIDE DEF w
  <2>. TAKE z
  <2>. DEFINE f == Field(56, z, y)
  <2>1. f.tag = 56 /\ f.val = y
    BY FieldIs
  <2>. HIDE DEF f
  <2>2. DecField(w, f) = [w EXCEPT !.type = f.val]
    BY <2>1, SMT DEF DecField
  <2>. QED
    BY <2>1, <2>2, ReadOne, Zenon DEF f
<1>2. Reading!Fold(w, EnumField(56, y, "EMPTY"))
          = IF y = "EMPTY" THEN w ELSE [w EXCEPT !.type = y]
  <2>. HIDE DEF w
  <2>. QED
    BY <1>1, ReadNone DEF EnumField
<1>. QED
  BY <1>2 DEF Over, Restated, Wired

\* The subtype.
LEMMA ReadSub ==
    ASSUME NEW h, NEW v, NEW s, NEW d, NEW t, NEW u, NEW l, NEW b, NEW ns, NEW x,
           NEW y
    PROVE  Reading!Fold(Wired(h, v, s, d, t, u, l, b, ns, x), EnumField(64, y, "EMPTY_SUB"))
               = Wired(h, v, s, d, t, Over(u, y, "EMPTY_SUB"), l, b, ns, x)
<1>. DEFINE w == Wired(h, v, s, d, t, u, l, b, ns, x)
<1>1. \A z : Reading!Fold(w, <<Field(64, z, y)>>) = [w EXCEPT !.sub = y]
  <2>. HIDE DEF w
  <2>. TAKE z
  <2>. DEFINE f == Field(64, z, y)
  <2>1. f.tag = 64 /\ f.val = y
    BY FieldIs
  <2>. HIDE DEF f
  <2>2. DecField(w, f) = [w EXCEPT !.sub = f.val]
    BY <2>1, SMT DEF DecField
  <2>. QED
    BY <2>1, <2>2, ReadOne, Zenon DEF f
<1>2. Reading!Fold(w, EnumField(64, y, "EMPTY_SUB"))
          = IF y = "EMPTY_SUB" THEN w ELSE [w EXCEPT !.sub = y]
  <2>. HIDE DEF w
  <2>. QED
    BY <1>1, ReadNone DEF EnumField
<1>. QED
  BY <1>2 DEF Over, Restated, Wired

\* The length.
LEMMA ReadLength ==
    ASSUME NEW h, NEW v, NEW s, NEW d, NEW t, NEW u, NEW l, NEW b, NEW ns, NEW x,
           NEW y
    PROVE  Reading!Fold(Wired(h, v, s, d, t, u, l, b, ns, x), UInt32Field(72, y))
               = Wired(h, v, s, d, t, u, Over(l, y, 0), b, ns, x)
<1>. DEFINE w == Wired(h, v, s, d, t, u, l, b, ns, x)
<1>1. \A z : Reading!Fold(w, <<Field(72, z, y)>>) = [w EXCEPT !.length = y]
  <2>. HIDE DEF w
  <2>. TAKE z
  <2>. DEFINE f == Field(72, z, y)
  <2>1. f.tag = 72 /\ f.val = y
    BY FieldIs
  <2>. HIDE DEF f
  <2>2. DecField(w, f) = [w EXCEPT !.length = f.val]
    BY <2>1, SMT DEF DecField
  <2>. QED
    BY <2>1, <2>2, ReadOne, Zenon DEF f
<1>2. Reading!Fold(w, UInt32Field(72, y))
          = IF y = 0 THEN w ELSE [w EXCEPT !.length = y]
  <2>. HIDE DEF w
  <2>. QED
    BY <1>1, ReadNone DEF UInt32Field
<1>. QED
  BY <1>2 DEF Over, Restated, Wired

\* One field of a message is replaced.
LEMMA Stored ==
    ASSUME NEW h, NEW v, NEW s, NEW d, NEW t, NEW u, NEW l, NEW b, NEW ns, NEW x,
           NEW c, NEW e, NEW y
    PROVE  /\ [Wired(h, v, s, d, t, u, l, b, ns, x) EXCEPT !.body = c]
                 = Wired(h, v, s, d, t, u, l, c, ns, x)
           /\ [Wired(h, v, s, d, t, u, l, b, ns, x) EXCEPT !.text = y]
                 = Wired(h, v, s, d, t, u, l, b, ns, y)
           /\ [Wired(h, v, s, d, t, u, l, b, ns, x) EXCEPT !.nodes = e]
                 = Wired(h, v, s, d, t, u, l, b, e, x)
  BY SMTT(30) DEF Wired

\* A text clears the contacts that were read.
LEMMA ReadText ==
    ASSUME NEW h, NEW v, NEW s, NEW d, NEW t, NEW u, NEW l, NEW b, NEW ns, NEW x,
           NEW y
    PROVE  Reading!Fold(Wired(h, v, s, d, t, u, l, b, ns, x), <<Field(82, VarintBytes(y) + y, y)>>)
               = Wired(h, v, s, d, t, u, l, "text", <<>>, y)
<1>. DEFINE w == Wired(h, v, s, d, t, u, l, b, ns, x)
            f == Field(82, VarintBytes(y) + y, y)
<1>1. f.tag = 82 /\ f.val = y
  BY FieldIs
<1>2. DecField(w, f) = [w EXCEPT !.body = "text", !.text = f.val, !.nodes = <<>>]
  <2>. HIDE DEF w, f
  <2>. QED
    BY <1>1, SMT DEF DecField
<1>3. Reading!Fold(w, <<f>>) = [w EXCEPT !.body = "text", !.text = y, !.nodes = <<>>]
  <2>. HIDE DEF w, f
  <2>. QED
    BY <1>1, <1>2, ReadOne, Zenon
<1>4. [w EXCEPT !.body = "text", !.text = y, !.nodes = <<>>]
          = Wired(h, v, s, d, t, u, l, "text", <<>>, y)
  <2>. DEFINE w1 == Wired(h, v, s, d, t, u, l, "text", ns, x)
              w2 == Wired(h, v, s, d, t, u, l, "text", ns, y)
              w3 == Wired(h, v, s, d, t, u, l, "text", <<>>, y)
  <2>1. /\ [w EXCEPT !.body = "text"] = w1 /\ [w1 EXCEPT !.text = y] = w2
        /\ [w2 EXCEPT !.nodes = <<>>] = w3
    BY Stored
  <2>. HIDE DEF w, w1, w2, w3
  <2>2. [w EXCEPT !.body = "text", !.text = y, !.nodes = <<>>]
            = [[[w EXCEPT !.body = "text"] EXCEPT !.text = y] EXCEPT !.nodes = <<>>]
    OBVIOUS
  <2>3. [w EXCEPT !.body = "text", !.text = y, !.nodes = <<>>] = w3
    BY <2>1, <2>2, Zenon
  <2>. QED
    BY <2>3 DEF w3
<1>. HIDE DEF f, w
<1>. QED
  BY <1>3, <1>4 DEF w, f

\* Contacts clear the text that was read, and are added to those there are.
LEMMA ReadNodes ==
    ASSUME NEW h, NEW v, NEW s, NEW d, NEW t, NEW u, NEW l, NEW b, NEW ns, NEW x,
           NEW y
    PROVE  Reading!Fold(Wired(h, v, s, d, t, u, l, b, ns, x), <<Message(90, y)>>)
               = Wired(h, v, s, d, t, u, l, "nodes",
                       DecNodes(IF b = "nodes" THEN ns ELSE <<>>, y), 0)
<1>. DEFINE w == Wired(h, v, s, d, t, u, l, b, ns, x)
            f == Message(90, y)
            r == DecNodes(IF b = "nodes" THEN ns ELSE <<>>, y)
<1>1. f.tag = 90 /\ f.val = y
  BY FieldIs DEF Message
<1>2. DecField(w, f)
          = [w EXCEPT !.body = "nodes", !.text = 0,
                      !.nodes = DecNodes(IF w.body = "nodes" THEN @ ELSE <<>>, f.val)]
  <2>. HIDE DEF w, f
  <2>. QED
    BY <1>1, SMT DEF DecField
<1>3. DecNodes(IF w.body = "nodes" THEN w.nodes ELSE <<>>, f.val) = r
  BY <1>1 DEF Wired
<1>. HIDE DEF r
<1>4. Reading!Fold(w, <<f>>) = [w EXCEPT !.body = "nodes", !.text = 0, !.nodes = r]
  <2>. HIDE DEF w, f
  <2>1. Reading!Fold(w, <<f>>) = DecField(w, f)
    BY ReadOne
  <2>. QED
    BY <1>2, <1>3, <2>1
<1>5. [w EXCEPT !.body = "nodes", !.text = 0, !.nodes = r]
          = Wired(h, v, s, d, t, u, l, "nodes", r, 0)
  <2>. DEFINE w1 == Wired(h, v, s, d, t, u, l, "nodes", ns, x)
              w2 == Wired(h, v, s, d, t, u, l, "nodes", ns, 0)
              w3 == Wired(h, v, s, d, t, u, l, "nodes", r, 0)
  <2>1. /\ [w EXCEPT !.body = "nodes"] = w1 /\ [w1 EXCEPT !.text = 0] = w2
        /\ [w2 EXCEPT !.nodes = r] = w3
    BY Stored
  <2>. HIDE DEF w, w1, w2, w3
  <2>2. [w EXCEPT !.body = "nodes", !.text = 0, !.nodes = r]
            = [[[w EXCEPT !.body = "nodes"] EXCEPT !.text = 0] EXCEPT !.nodes = r]
    OBVIOUS
  <2>3. [w EXCEPT !.body = "nodes", !.text = 0, !.nodes = r] = w3
    BY <2>1, <2>2, Zenon
  <2>. QED
    BY <2>3 DEF w3
<1>. HIDE DEF w, f
<1>6. Reading!Fold(w, <<f>>) = Wired(h, v, s, d, t, u, l, "nodes", r, 0)
  BY <1>4, <1>5
<1>. QED
  BY <1>6, Zenon DEF w, f, r

\* The fields that both kinds of message have, on top of what was read.
HeadersOver(h, v, s, d, t, u, l, b, ns, x, n) ==
    Wired(Over(h, n.head, 0), Restated(v, n.version), Restated(s, n.src),
          Restated(d, n.dst), Over(t, n.type, "EMPTY"), Over(u, n.sub, "EMPTY_SUB"),
          Over(l, n.length, 0), b, ns, x)

\* The fields of the member of the oneof.
TextPart(n) == IF n.body = "text"
               THEN <<Field(82, VarintBytes(n.text) + n.text, n.text)>> ELSE <<>>
ListPart(n) == IF n.body = "nodes" THEN <<Message(90, EncNodes(n.nodes))>> ELSE <<>>

\* A message is read header by header, then its body.
LEMMA ReadHeaders ==
    ASSUME NEW h, NEW v, NEW s, NEW d, NEW t, NEW u, NEW l, NEW b, NEW ns, NEW x,
           NEW n, Filled(n)
    PROVE  Reading!Fold(Wired(h, v, s, d, t, u, l, b, ns, x), EncMsg(n))
               = Reading!Fold(Reading!Fold(HeadersOver(h, v, s, d, t, u, l, b, ns, x, n),
                                           TextPart(n)), ListPart(n))
<1>. DEFINE f1 == UInt32Field(8, n.head)
            f2 == StringField(18, n.version, VersionLength)
            f3 == StringField(26, n.src, ID_LENGTH)
            f4 == StringField(34, n.dst, ID_LENGTH)
            f7 == EnumField(56, n.type, "EMPTY")
            f8 == EnumField(64, n.sub, "EMPTY_SUB")
            f9 == UInt32Field(72, n.length)
            body == TextPart(n)
            list == ListPart(n)
            w0 == Wired(h, v, s, d, t, u, l, b, ns, x)
            w == HeadersOver(h, v, s, d, t, u, l, b, ns, x, n)
<1>1. /\ Fields(f1) /\ Fields(f2) /\ Fields(f3) /\ Fields(f4) /\ Fields(f7) /\ Fields(f8)
      /\ Fields(f9) /\ Fields(body) /\ Fields(list)
  BY PartsAreFields DEF TextPart, ListPart
<1>2. EncMsg(n) = f1 \o f2 \o f3 \o f4 \o f7 \o f8 \o f9 \o body \o list
  BY Zenon DEF EncMsg, TextPart, ListPart
<1>. DEFINE w1 == Wired(Over(h, n.head, 0), v, s, d, t, u, l, b, ns, x)
            w2 == Wired(Over(h, n.head, 0), Restated(v, n.version), s, d, t, u, l, b, ns, x)
            w3 == Wired(Over(h, n.head, 0), Restated(v, n.version), Restated(s, n.src),
                        d, t, u, l, b, ns, x)
            w4 == Wired(Over(h, n.head, 0), Restated(v, n.version), Restated(s, n.src),
                        Restated(d, n.dst), t, u, l, b, ns, x)
            w7 == Wired(Over(h, n.head, 0), Restated(v, n.version), Restated(s, n.src),
                        Restated(d, n.dst), Over(t, n.type, "EMPTY"), u, l, b, ns, x)
            w8 == Wired(Over(h, n.head, 0), Restated(v, n.version), Restated(s, n.src),
                        Restated(d, n.dst), Over(t, n.type, "EMPTY"),
                        Over(u, n.sub, "EMPTY_SUB"), l, b, ns, x)
<1>3. Reading!Fold(Reading!Fold(Reading!Fold(Reading!Fold(Reading!Fold(Reading!Fold(
          Reading!Fold(w0, f1), f2), f3), f4), f7), f8), f9) = w
  <2>. DEFINE hh == Over(h, n.head, 0)
              vv == Restated(v, n.version)
              ss == Restated(s, n.src)
              dd == Restated(d, n.dst)
              tt == Over(t, n.type, "EMPTY")
              uu == Over(u, n.sub, "EMPTY_SUB")
  <2>1. Reading!Fold(w0, f1) = w1
    BY ReadHead
  <2>. HIDE DEF hh, vv, ss, dd, tt, uu
  <2>2. Reading!Fold(Wired(hh, v, s, d, t, u, l, b, ns, x),
                     StringField(18, n.version, VersionLength))
            = Wired(hh, Restated(v, n.version), s, d, t, u, l, b, ns, x)
    BY ReadVersion
  <2>3. Reading!Fold(Wired(hh, vv, s, d, t, u, l, b, ns, x),
                     StringField(26, n.src, ID_LENGTH))
            = Wired(hh, vv, Restated(s, n.src), d, t, u, l, b, ns, x)
    BY ReadSrc
  <2>4. Reading!Fold(Wired(hh, vv, ss, d, t, u, l, b, ns, x),
                     StringField(34, n.dst, ID_LENGTH))
            = Wired(hh, vv, ss, Restated(d, n.dst), t, u, l, b, ns, x)
    BY ReadDst
  <2>5. Reading!Fold(Wired(hh, vv, ss, dd, t, u, l, b, ns, x), f7)
            = Wired(hh, vv, ss, dd, Over(t, n.type, "EMPTY"), u, l, b, ns, x)
    BY ReadType
  <2>6. Reading!Fold(Wired(hh, vv, ss, dd, tt, u, l, b, ns, x), f8)
            = Wired(hh, vv, ss, dd, tt, Over(u, n.sub, "EMPTY_SUB"), l, b, ns, x)
    BY ReadSub
  <2>7. Reading!Fold(Wired(hh, vv, ss, dd, tt, uu, l, b, ns, x), f9)
            = Wired(hh, vv, ss, dd, tt, uu, Over(l, n.length, 0), b, ns, x)
    BY ReadLength
  <2>8. /\ Reading!Fold(w1, f2) = w2 /\ Reading!Fold(w2, f3) = w3
        /\ Reading!Fold(w3, f4) = w4 /\ Reading!Fold(w4, f7) = w7
        /\ Reading!Fold(w7, f8) = w8 /\ Reading!Fold(w8, f9) = w
    BY <2>2, <2>3, <2>4, <2>5, <2>6, <2>7, Zenon
       DEF hh, vv, ss, dd, tt, uu, HeadersOver
  <2>. HIDE DEF f1, f2, f3, f4, f7, f8, f9, w0, w1, w2, w3, w4, w7, w8, w
  <2>. QED
    BY <2>1, <2>8
<1>. HIDE DEF f1, f2, f3, f4, f7, f8, f9, body, list, w0, w, w1, w2, w3, w4, w7, w8
<1>4. Fields(f1 \o f2) /\ Fields(f1 \o f2 \o f3) /\ Fields(f1 \o f2 \o f3 \o f4)
      /\ Fields(f1 \o f2 \o f3 \o f4 \o f7)
  BY <1>1, MoreFields
<1>. DEFINE g == f1 \o f2 \o f3 \o f4 \o f7
<1>5. Reading!Fold(w0, g) = Reading!Fold(Reading!Fold(Reading!Fold(Reading!Fold(
          Reading!Fold(w0, f1), f2), f3), f4), f7)
  BY <1>1, <1>4, ReadMore
<1>6. Fields(g)
  BY <1>4
<1>7. EncMsg(n) = g \o f8 \o f9 \o body \o list
  BY <1>2
<1>. HIDE DEF g
<1>8. Fields(g \o f8) /\ Fields(g \o f8 \o f9) /\ Fields(g \o f8 \o f9 \o body)
  BY <1>1, <1>6, MoreFields
<1>9. Reading!Fold(w0, g \o f8 \o f9 \o body \o list) = Reading!Fold(Reading!Fold(
          Reading!Fold(Reading!Fold(Reading!Fold(w0, g), f8), f9), body), list)
  BY <1>1, <1>6, <1>8, ReadMore
<1>. QED
  BY <1>3, <1>5, <1>7, <1>9, Zenon DEF w0, w, body, list

\* A message with a text, and one with contacts, on top of what was read.
LEMMA ReadHello ==
    ASSUME NEW h, NEW v, NEW s, NEW d, NEW t, NEW u, NEW l, NEW b, NEW ns, NEW x,
           NEW n, Filled(n), n.body = "text"
    PROVE  Reading!Fold(Wired(h, v, s, d, t, u, l, b, ns, x), EncMsg(n))
               = HeadersOver(h, v, s, d, t, u, l, "text", <<>>, n.text, n)
<1>. DEFINE body == <<Field(82, VarintBytes(n.text) + n.text, n.text)>>
            w == HeadersOver(h, v, s, d, t, u, l, b, ns, x, n)
<1>1. Reading!Fold(Wired(h, v, s, d, t, u, l, b, ns, x), EncMsg(n))
          = Reading!Fold(Reading!Fold(w, body), <<>>)
  <2>. HIDE DEF w
  <2>1. TextPart(n) = body /\ ListPart(n) = <<>>
    BY DEF TextPart, ListPart
  <2>2. Reading!Fold(Wired(h, v, s, d, t, u, l, b, ns, x), EncMsg(n))
            = Reading!Fold(Reading!Fold(w, TextPart(n)), ListPart(n))
    BY ReadHeaders DEF w
  <2>. QED
    BY <2>1, <2>2
<1>2. Reading!Fold(w, body) = HeadersOver(h, v, s, d, t, u, l, "text", <<>>, n.text, n)
  <2>. DEFINE hh == Over(h, n.head, 0)
              vv == Restated(v, n.version)
              ss == Restated(s, n.src)
              dd == Restated(d, n.dst)
              tt == Over(t, n.type, "EMPTY")
              uu == Over(u, n.sub, "EMPTY_SUB")
              ll == Over(l, n.length, 0)
              y  == n.text
  <2>. HIDE DEF hh, vv, ss, dd, tt, uu, ll, y
  <2>1. Reading!Fold(Wired(hh, vv, ss, dd, tt, uu, ll, b, ns, x),
                     <<Field(82, VarintBytes(y) + y, y)>>)
            = Wired(hh, vv, ss, dd, tt, uu, ll, "text", <<>>, y)
    BY ReadText
  <2>. QED
    BY <2>1, Zenon DEF HeadersOver, hh, vv, ss, dd, tt, uu, ll, y
<1>. HIDE DEF w, body
<1>. QED
  BY <1>1, <1>2, ReadNone

\* A message of contacts: its contacts are added to those there are.
LEMMA ReadListing ==
    ASSUME NEW h, NEW v, NEW s, NEW d, NEW t, NEW u, NEW l, NEW b, NEW ns, NEW x,
           NEW n, Filled(n), n.body = "nodes"
    PROVE  Reading!Fold(Wired(h, v, s, d, t, u, l, b, ns, x), EncMsg(n))
               = HeadersOver(h, v, s, d, t, u, l, "nodes",
                             (IF b = "nodes" THEN ns ELSE <<>>) \o n.nodes, 0, n)
<1>. DEFINE list == <<Message(90, EncNodes(n.nodes))>>
            w == HeadersOver(h, v, s, d, t, u, l, b, ns, x, n)
            old == IF b = "nodes" THEN ns ELSE <<>>
<1>1. Reading!Fold(Wired(h, v, s, d, t, u, l, b, ns, x), EncMsg(n))
          = Reading!Fold(Reading!Fold(w, <<>>), list)
  <2>. HIDE DEF w
  <2>1. TextPart(n) = <<>> /\ ListPart(n) = list
    BY DEF TextPart, ListPart
  <2>2. Reading!Fold(Wired(h, v, s, d, t, u, l, b, ns, x), EncMsg(n))
            = Reading!Fold(Reading!Fold(w, TextPart(n)), ListPart(n))
    BY ReadHeaders DEF w
  <2>. QED
    BY <2>1, <2>2
<1>2. Reading!Fold(w, list) = HeadersOver(h, v, s, d, t, u, l, "nodes",
                                          DecNodes(old, EncNodes(n.nodes)), 0, n)
  <2>. DEFINE hh == Over(h, n.head, 0)
              vv == Restated(v, n.version)
              ss == Restated(s, n.src)
              dd == Restated(d, n.dst)
              tt == Over(t, n.type, "EMPTY")
              uu == Over(u, n.sub, "EMPTY_SUB")
              ll == Over(l, n.length, 0)
              y  == EncNodes(n.nodes)
  <2>. HIDE DEF hh, vv, ss, dd, tt, uu, ll, y
  <2>1. Reading!Fold(Wired(hh, vv, ss, dd, tt, uu, ll, b, ns, x), <<Message(90, y)>>)
            = Wired(hh, vv, ss, dd, tt, uu, ll, "nodes", DecNodes(old, y), 0)
    BY ReadNodes
  <2>. QED
    BY <2>1, Zenon DEF HeadersOver, hh, vv, ss, dd, tt, uu, ll, y
<1>3. n.nodes \in Seq(NodeRecords)
  BY DEF Filled
<1>. HIDE DEF w, list, old
<1>4. DecNodes(old, EncNodes(n.nodes)) = old \o n.nodes
  BY <1>3, NodesReadBack
<1>. QED
  BY <1>1, <1>2, <1>4, ReadNone, Zenon DEF old

-----------------------------------------------------------------------------
(* Fields and messages: what is read field by field is what Parse says.    *)

\* The length read last belongs to the contacts read last, in bytes in the one
\* and in contacts in the other.
SameLength(l, m) ==
    IF m.body = "nodes"
    THEN \E a, b \in Seq(Nodes) :
            m.nodes = a \o b /\ m.length = Len(b) /\ l = NodesSize(FieldsOf(b))
    ELSE m.nodes = <<>> /\ l = m.length /\ (m.body = "none" => l = 0)

SameMessage(w, m) ==
    \E d, l : /\ w = Wired(m.head, m.version, m.src, d, m.type, m.sub, l, m.body,
                           FieldsOf(m.nodes), m.text)
              /\ SameLength(l, m)

\* The contacts of two lists, and their sizes.
LEMMA ContactsJoined ==
    ASSUME NEW a \in Seq(Nodes), NEW b \in Seq(Nodes)
    PROVE  /\ FieldsOf(a \o b) = FieldsOf(a) \o FieldsOf(b)
           /\ NodesSize(FieldsOf(a \o b)) = NodesSize(FieldsOf(a)) + NodesSize(FieldsOf(b))
<1>. DEFINE fa == FieldsOf(a)
            fb == FieldsOf(b)
            fab == FieldsOf(a \o b)
            m == Len(a)
            n == Len(b)
<1>1. /\ fa \in Seq(NodeRecords) /\ Len(fa) = m /\ \A k \in 1 .. m : fa[k] = EbcNode[a[k]]
      /\ fb \in Seq(NodeRecords) /\ Len(fb) = n /\ \A k \in 1 .. n : fb[k] = EbcNode[b[k]]
  BY ContactFields
<1>2. a \o b \in Seq(Nodes) /\ Len(a \o b) = m + n
  OBVIOUS
<1>3. /\ fab \in Seq(NodeRecords) /\ Len(fab) = m + n
      /\ \A k \in 1 .. m + n : fab[k] = EbcNode[(a \o b)[k]]
  BY <1>2, ContactFields
<1>4. /\ \A k \in 1 .. m : (a \o b)[k] = a[k]
      /\ \A k \in 1 .. m + n : ~(k <= m) => k - m \in 1 .. n /\ (a \o b)[k] = b[k - m]
  BY Joined
<1>5. m \in Nat /\ n \in Nat
  OBVIOUS
<1>6. fa \in Seq(NodeRecords) /\ fb \in Seq(NodeRecords) /\ Len(fa) = m /\ Len(fb) = n
  BY <1>1
<1>. HIDE DEF fa, fb, fab, m, n
<1>7. /\ fa \o fb \in Seq(NodeRecords) /\ Len(fa \o fb) = m + n
      /\ \A k \in 1 .. m : (fa \o fb)[k] = fa[k]
      /\ \A k \in 1 .. m + n : ~(k <= m) => (fa \o fb)[k] = fb[k - m]
  BY <1>6, Joined
<1>8. \A k \in 1 .. m + n : fab[k] = (fa \o fb)[k]
  <2>. TAKE k \in 1 .. m + n
  <2>1. fab[k] = EbcNode[(a \o b)[k]]
    BY <1>3
  <2>2. CASE k <= m
    <3>1. k \in 1 .. m
      BY <1>5, <2>2
    <3>2. fa[k] = EbcNode[a[k]] /\ (a \o b)[k] = a[k] /\ (fa \o fb)[k] = fa[k]
      BY <1>1, <1>4, <1>7, <3>1
    <3>. QED
      BY <2>1, <3>2
  <2>3. CASE ~(k <= m)
    <3>1. k - m \in 1 .. n /\ (a \o b)[k] = b[k - m] /\ (fa \o fb)[k] = fb[k - m]
      BY <1>4, <1>7, <2>3
    <3>2. fb[k - m] = EbcNode[b[k - m]]
      BY <1>1, <3>1
    <3>. QED
      BY <2>1, <3>1, <3>2
  <2>. QED
    BY <2>2, <2>3
<1>9. fab = fa \o fb
  BY <1>3, <1>7, <1>8
<1>10. /\ BytesOf(EncNodes(fa)) = NodesSize(fa) /\ BytesOf(EncNodes(fb)) = NodesSize(fb)
       /\ BytesOf(EncNodes(fab)) = NodesSize(fab)
       /\ Fields(EncNodes(fa)) /\ Fields(EncNodes(fb))
  BY <1>1, <1>3, NodesSizeIsBytes
<1>11. EncNodes(fab) = EncNodes(fa) \o EncNodes(fb)
  <2>. DEFINE Row(c) == Message(10, EncNode(c))
  <2>1. DOMAIN fa = 1 .. m /\ DOMAIN fb = 1 .. n /\ DOMAIN fab = 1 .. m + n
    BY <1>3, <1>6
  <2>. DEFINE ra == [k \in 1 .. m |-> Row(fa[k])]
              rb == [k \in 1 .. n |-> Row(fb[k])]
              rab == [k \in 1 .. m + n |-> Row(fab[k])]
  <2>2. EncNodes(fa) = ra /\ EncNodes(fb) = rb /\ EncNodes(fab) = rab
    BY <2>1 DEF EncNodes
  <2>. HIDE DEF Row
  <2>3. rab = ra \o rb
    BY <1>5, <1>7, <1>9
  <2>. QED
    BY <2>2, <2>3
<1>12. NodesSize(fab) = NodesSize(fa) + NodesSize(fb)
  BY <1>10, <1>11, MoreFields
<1>. QED
  BY <1>9, <1>12 DEF fa, fb, fab

\* A contact takes at least a byte.
LEMMA NoBytesNoContacts ==
    ASSUME NEW s \in Seq(Nodes)
    PROVE  /\ NodesSize(FieldsOf(s)) \in Nat
           /\ NodesSize(FieldsOf(s)) = 0 <=> s = <<>>
<1>. DEFINE fs == FieldsOf(s)
            n == Len(s)
<1>1. /\ fs \in Seq(NodeRecords) /\ DOMAIN fs = 1 .. n /\ n \in Nat
      /\ \A k \in 1 .. n : fs[k] \in NodeRecords
  BY ContactFields
<1>2. s = <<>> <=> n = 0
  OBVIOUS
<1>. HIDE DEF fs, n
<1>3. NodesSize(fs) \in Nat
  BY <1>1, NodesSizeIsBytes
<1>4. PICK p : Rows!Partials(p, 0, fs, n) /\ Rows!Fold(0, fs) = p[n]
  BY <1>1, Rows!FoldPartials
<1>. DEFINE row == [k \in 1 .. n |-> 1 + LengthDelimitedSize(NodeSize(fs[k]))]
<1>5. \A k \in 1 .. n : row[k] \in Nat \ {0}
  BY <1>1, RowSize
<1>6. p[0] = 0 /\ \A k \in 1 .. n : p[k] = p[k - 1] + row[k]
  BY <1>4 DEF Rows!Partials, AddNodeSize
<1>. HIDE DEF row
<1>. DEFINE S == {k \in 0 .. n : p[k] \in Nat /\ (k # 0 => p[k] # 0)}
<1>7. \A k \in 0 .. n : k \in S
  <2>1. 0 \in S
    BY <1>1, <1>6
  <2>2. ASSUME NEW k \in 0 .. n - 1, k \in S PROVE k + 1 \in S
    <3>1. k + 1 \in 1 .. n /\ (k + 1) - 1 = k
      BY <1>1
    <3>2. p[k + 1] = p[k] + row[k + 1] /\ row[k + 1] \in Nat \ {0} /\ p[k] \in Nat
      BY <1>5, <1>6, <2>2, <3>1
    <3>. QED
      BY <1>1, <3>1, <3>2
  <2>. HIDE DEF S
  <2>. QED
    BY <1>1, <2>1, <2>2, Rows!UpTo
<1>8. p[n] = 0 <=> n = 0
  BY <1>1, <1>6, <1>7
<1>9. NodesSize(fs) = p[n]
  BY <1>4, SumFolds
<1>. QED
  BY <1>2, <1>3, <1>8, <1>9 DEF fs

\* The fields of two messages merged, in the terms of the fields read.
LEMMA MergedFields ==
    ASSUME NEW m, NEW c
    PROVE  LET r == MergeFrom(m, c)
               e == AsPacked(c)
           IN  /\ r.head = Over(m.head, e.head, 0)
               /\ r.version = Restated(m.version, e.version)
               /\ r.src = Restated(m.src, e.src)
               /\ r.type = Over(m.type, e.type, "EMPTY")
               /\ r.sub = Over(m.sub, e.sub, "EMPTY_SUB")
               /\ r.length = Over(m.length, c.length, 0)
               /\ r.body = IF c.body = "none" THEN m.body ELSE c.body
               /\ r.nodes = IF c.body = "text" THEN <<>> ELSE m.nodes \o c.nodes
               /\ r.text = IF c.body = "none" THEN m.text ELSE c.text
<1>. DEFINE r == MergeFrom(m, c)
            e == AsPacked(c)
<1>1. /\ e.head = c.head /\ e.version = c.version /\ e.src = c.src /\ e.type = c.type
      /\ e.sub = c.sub
  BY DEF AsPacked
<1>2. /\ r.head = Over(m.head, c.head, 0)
      /\ r.type = Over(m.type, c.type, "EMPTY") /\ r.sub = Over(m.sub, c.sub, "EMPTY_SUB")
      /\ r.length = Over(m.length, c.length, 0)
      /\ r.nodes = IF c.body = "text" THEN <<>> ELSE m.nodes \o c.nodes
      /\ r.text = IF c.body = "none" THEN m.text ELSE c.text
  BY DEF MergeFrom
<1>3. r.version = Restated(m.version, c.version) /\ r.src = Restated(m.src, c.src)
  BY DEF MergeFrom, Over, Restated
<1>4. r.body = IF c.body = "none" THEN m.body ELSE c.body
  BY DEF MergeFrom, Over
<1>. HIDE DEF r, e
<1>5. /\ r.head = Over(m.head, e.head, 0)
      /\ r.version = Restated(m.version, e.version) /\ r.src = Restated(m.src, e.src)
      /\ r.type = Over(m.type, e.type, "EMPTY") /\ r.sub = Over(m.sub, e.sub, "EMPTY_SUB")
  BY <1>1, <1>2, <1>3, Zenon
<1>. QED
  BY <1>2, <1>4, <1>5, Zenon DEF r, e

\* One hello more, after nothing or hellos.
LEMMA SameHello ==
    ASSUME NEW w, NEW m, SameMessage(w, m), m.body \in {"none", "text"},
           NEW c, P!Hello(c)
    PROVE  /\ SameMessage(Reading!Fold(w, EncMsg(AsPacked(c))), MergeFrom(m, c))
           /\ MergeFrom(m, c).body = "text"
<1>. DEFINE e == AsPacked(c)
            r == MergeFrom(m, c)
<1>1. PICK d, l : /\ w = Wired(m.head, m.version, m.src, d, m.type, m.sub, l, m.body,
                               FieldsOf(m.nodes), m.text)
                  /\ SameLength(l, m)
  BY DEF SameMessage
<1>2. l = m.length
  BY <1>1 DEF SameLength
<1>3. /\ Filled(e) /\ e.body = "text" /\ e.text = c.text /\ e.length = c.text
      /\ c.body = "text" /\ c.length = c.text
  BY HelloFilled, P!HelloFacts
<1>4. Reading!Fold(w, EncMsg(e))
          = HeadersOver(m.head, m.version, m.src, d, m.type, m.sub, l, "text", <<>>, e.text, e)
  <2>. DEFINE h == m.head
              v == m.version
              s == m.src
              t == m.type
              u == m.sub
              b == m.body
              ns == FieldsOf(m.nodes)
              x == m.text
  <2>. HIDE DEF h, v, s, t, u, b, ns, x, e
  <2>1. Reading!Fold(Wired(h, v, s, d, t, u, l, b, ns, x), EncMsg(e))
            = HeadersOver(h, v, s, d, t, u, l, "text", <<>>, e.text, e)
    BY <1>3, ReadHello
  <2>. QED
    BY <1>1, <2>1, Zenon DEF h, v, s, t, u, b, ns, x
<1>5. /\ r.head = Over(m.head, e.head, 0)
      /\ r.version = Restated(m.version, e.version)
      /\ r.src = Restated(m.src, e.src)
      /\ r.type = Over(m.type, e.type, "EMPTY")
      /\ r.sub = Over(m.sub, e.sub, "EMPTY_SUB")
  BY MergedFields, Zenon
<1>6. r.length = Over(m.length, c.length, 0) /\ r.body = "text" /\ r.nodes = <<>>
      /\ r.text = c.text
  BY <1>3, MergedFields
<1>7. FieldsOf(<<>>) = <<>>
  BY DEF FieldsOf
<1>. HIDE DEF e, r
<1>8. HeadersOver(m.head, m.version, m.src, d, m.type, m.sub, l, "text", <<>>, e.text, e)
          = Wired(r.head, r.version, r.src, Restated(d, e.dst), r.type, r.sub,
                  r.length, r.body, FieldsOf(r.nodes), r.text)
  BY <1>2, <1>3, <1>5, <1>6, <1>7, Zenon DEF HeadersOver
<1>9. SameLength(r.length, r)
  BY <1>6 DEF SameLength
<1>. QED
  BY <1>4, <1>6, <1>8, <1>9, Zenon DEF SameMessage, e, r

\* One message of contacts more, after nothing or such messages.
LEMMA SameListing ==
    ASSUME NEW w, NEW m, SameMessage(w, m), m.body \in {"none", "nodes"},
           NEW c, P!Listing(c)
    PROVE  /\ SameMessage(Reading!Fold(w, EncMsg(AsPacked(c))), MergeFrom(m, c))
           /\ MergeFrom(m, c).body = "nodes"
<1>. DEFINE e == AsPacked(c)
            r == MergeFrom(m, c)
            old == IF m.body = "nodes" THEN FieldsOf(m.nodes) ELSE <<>>
<1>1. PICK d, l : /\ w = Wired(m.head, m.version, m.src, d, m.type, m.sub, l, m.body,
                               FieldsOf(m.nodes), m.text)
                  /\ SameLength(l, m)
  BY DEF SameMessage
<1>2. /\ Filled(e) /\ e.body = "nodes" /\ e.nodes = FieldsOf(c.nodes)
      /\ e.length = NodesSize(FieldsOf(c.nodes)) /\ c.nodes \in Seq(Nodes)
      /\ c.body = "nodes" /\ c.length = Len(c.nodes) /\ c.text = 0
  BY ListingFilled, P!ListingFacts
<1>3. Reading!Fold(w, EncMsg(e))
          = HeadersOver(m.head, m.version, m.src, d, m.type, m.sub, l, "nodes",
                        old \o e.nodes, 0, e)
  <2>. DEFINE h == m.head
              v == m.version
              s == m.src
              t == m.type
              u == m.sub
              b == m.body
              ns == FieldsOf(m.nodes)
              x == m.text
  <2>. HIDE DEF h, v, s, t, u, b, ns, x, e
  <2>1. Reading!Fold(Wired(h, v, s, d, t, u, l, b, ns, x), EncMsg(e))
            = HeadersOver(h, v, s, d, t, u, l, "nodes",
                          (IF b = "nodes" THEN ns ELSE <<>>) \o e.nodes, 0, e)
    BY <1>2, ReadListing
  <2>. QED
    BY <1>1, <2>1, Zenon DEF h, v, s, t, u, b, ns, x
<1>4. /\ r.head = Over(m.head, e.head, 0)
      /\ r.version = Restated(m.version, e.version)
      /\ r.src = Restated(m.src, e.src)
      /\ r.type = Over(m.type, e.type, "EMPTY")
      /\ r.sub = Over(m.sub, e.sub, "EMPTY_SUB")
  BY MergedFields, Zenon
<1>5. r.length = Over(m.length, c.length, 0) /\ r.body = "nodes"
      /\ r.nodes = m.nodes \o c.nodes /\ r.text = 0
  BY <1>2, MergedFields
\* The contacts read before, those the length was of last.
<1>6. PICK a \in Seq(Nodes), b \in Seq(Nodes) :
            \/ m.nodes = a \o b /\ m.length = Len(b) /\ l = NodesSize(FieldsOf(b))
            \/ m.nodes = <<>> /\ a = <<>> /\ b = <<>> /\ m.length = 0 /\ l = 0
  <2>1. CASE m.body = "nodes"
    BY <1>1, <2>1 DEF SameLength
  <2>2. CASE m.body = "none"
    <3>1. <<>> \in Seq(Nodes)
      OBVIOUS
    <3>2. m.nodes = <<>> /\ m.length = 0 /\ l = 0
      BY <1>1, <2>2 DEF SameLength
    <3>. QED
      BY <3>1, <3>2
  <2>. QED
    BY <2>1, <2>2
<1>7. m.nodes = a \o b /\ m.length = Len(b) /\ l = NodesSize(FieldsOf(b))
  <2>1. <<>> \in Seq(Nodes) /\ <<>> \o <<>> = <<>> /\ Len(<<>>) = 0
    OBVIOUS
  <2>2. NodesSize(FieldsOf(<<>>)) = 0
    BY <2>1, NoBytesNoContacts
  <2>. QED
    BY <1>6, <2>1, <2>2
<1>8. m.nodes \in Seq(Nodes)
  BY <1>7
<1>9. old \o e.nodes = FieldsOf(r.nodes)
  <2>1. old = FieldsOf(m.nodes)
    <3>1. CASE m.body = "nodes"
      BY <3>1
    <3>2. CASE m.body = "none"
      <4>1. m.nodes = <<>>
        BY <1>1, <3>2 DEF SameLength
      <4>2. FieldsOf(<<>>) = <<>>
        BY DEF FieldsOf
      <4>. QED
        BY <3>2, <4>1, <4>2
    <3>. QED
      BY <3>1, <3>2
  <2>2. FieldsOf(m.nodes \o c.nodes) = FieldsOf(m.nodes) \o FieldsOf(c.nodes)
    BY <1>2, <1>8, ContactsJoined
  <2>. QED
    BY <1>2, <1>5, <2>1, <2>2
<1>. HIDE DEF e, r, old
<1>10. HeadersOver(m.head, m.version, m.src, d, m.type, m.sub, l, "nodes",
                   old \o e.nodes, 0, e)
          = Wired(r.head, r.version, r.src, Restated(d, e.dst), r.type, r.sub,
                  Over(l, e.length, 0), r.body, FieldsOf(r.nodes), r.text)
  BY <1>4, <1>5, <1>9, Zenon DEF HeadersOver
<1>11. SameLength(Over(l, e.length, 0), r)
  <2>. SUFFICES \E f, g \in Seq(Nodes) : /\ r.nodes = f \o g /\ r.length = Len(g)
                                         /\ Over(l, e.length, 0) = NodesSize(FieldsOf(g))
    BY <1>5 DEF SameLength
  <2>1. CASE c.nodes = <<>>
    <3>1. e.length = 0 /\ c.length = 0
      BY <1>2, <2>1, NoBytesNoContacts
    <3>2. r.nodes = m.nodes /\ r.length = m.length /\ Over(l, e.length, 0) = l
      BY <1>5, <1>8, <2>1, <3>1 DEF Over
    <3>. QED
      BY <1>7, <3>2
  <2>2. CASE c.nodes # <<>>
    <3>1. e.length # 0 /\ c.length # 0
      BY <1>2, <2>2, NoBytesNoContacts
    <3>2. r.length = Len(c.nodes) /\ Over(l, e.length, 0) = NodesSize(FieldsOf(c.nodes))
      BY <1>2, <1>5, <3>1 DEF Over
    <3>. QED
      BY <1>2, <1>5, <1>8, <3>2
  <2>. QED
    BY <2>1, <2>2
<1>. QED
  BY <1>3, <1>5, <1>10, <1>11, Zenon DEF SameMessage, e, r

\* The fields of a chunk, message after message.
Arriving == INSTANCE FoldProofs WITH M <- AddMsg

\* The fields of the first messages of a chunk, one message after the other.
LEMMA ArrivedPartials ==
    ASSUME NEW c, NEW n \in Nat, DOMAIN c = 1 .. n
    PROVE  \E q : /\ q[0] = <<>>
                  /\ \A k \in 1 .. n : q[k] = q[k - 1] \o EncMsg(AsPacked(c[k]))
                  /\ Arrived(c) = q[n]
<1>1. Arrived(c) = Arriving!Fold(<<>>, c)
  BY DEF Arrived, FoldLeft, MapThenFoldSet, Max,
         Arriving!Fold, Arriving!FoldLeft, Arriving!MapThenFoldSet, Arriving!Max
<1>2. PICK q : Arriving!Partials(q, <<>>, c, n) /\ Arriving!Fold(<<>>, c) = q[n]
  BY Arriving!FoldPartials
<1>. QED
  BY <1>1, <1>2 DEF Arriving!Partials, AddMsg

\* Merging is what EbcMsgProofs is about.
LEMMA SameMerge == ASSUME NEW m, NEW n PROVE MergeFrom(m, n) = P!MergeFrom(m, n)
  BY DEF MergeFrom, P!MergeFrom, Over, P!Over

\* Before anything is read.
LEMMA SameNothing == SameMessage(EmptyWire, EmptyMsg) /\ EmptyMsg.body = "none"
<1>1. FieldsOf(<<>>) = <<>>
  BY DEF FieldsOf
<1>2. EmptyWire = Wired(EmptyMsg.head, EmptyMsg.version, EmptyMsg.src, "", EmptyMsg.type,
                        EmptyMsg.sub, 0, EmptyMsg.body, FieldsOf(EmptyMsg.nodes),
                        EmptyMsg.text)
  BY <1>1 DEF EmptyWire, EmptyMsg, Wired
<1>3. SameLength(0, EmptyMsg) /\ EmptyMsg.body = "none"
  BY DEF SameLength, EmptyMsg
<1>. QED
  BY <1>2, <1>3, Zenon DEF SameMessage

\* Whatever whole messages of one sender arrive together, the message read field
\* by field is the one that Parse says.
LEMMA SameChunk ==
    ASSUME NEW c, NEW n \in Nat, DOMAIN c = 1 .. n,
           \/ \A k \in 1 .. n : P!Listing(c[k])
           \/ \A k \in 1 .. n : P!Hello(c[k])
    PROVE  SameMessage(DecMsg(Arrived(c)), Parse(c))
<1>1. PICK q : /\ q[0] = <<>>
               /\ \A k \in 1 .. n : q[k] = q[k - 1] \o EncMsg(AsPacked(c[k]))
               /\ Arrived(c) = q[n]
  BY ArrivedPartials
<1>2. PICK p : /\ p[0] = EmptyMsg
               /\ \A k \in 1 .. n : p[k] = MergeFrom(p[k - 1], c[k])
               /\ Parse(c) = p[n]
  BY P!ParsePartials, SameParse, SameMerge, SameMessages
<1>. DEFINE kind == IF \A k \in 1 .. n : P!Listing(c[k]) THEN "nodes" ELSE "text"
            T == {k \in 0 .. n : /\ Fields(q[k])
                                 /\ SameMessage(Reading!Fold(EmptyWire, q[k]), p[k])
                                 /\ p[k].body \in {"none", kind}}
<1>3. 0 \in T
  BY <1>1, <1>2, NoFields, ReadNone, SameNothing
<1>4. ASSUME NEW k \in 0 .. n - 1, k \in T PROVE k + 1 \in T
  <2>. DEFINE m == c[k + 1]
              w == Reading!Fold(EmptyWire, q[k])
  <2>1. k + 1 \in 1 .. n /\ k + 1 \in 0 .. n /\ (k + 1) - 1 = k
    OBVIOUS
  <2>2. q[k + 1] = q[k] \o EncMsg(AsPacked(m)) /\ p[k + 1] = MergeFrom(p[k], m)
    BY <1>1, <1>2, <2>1
  <2>3. Fields(q[k]) /\ SameMessage(w, p[k]) /\ p[k].body \in {"none", kind}
    BY <1>4
  <2>4. CASE \A j \in 1 .. n : P!Listing(c[j])
    <3>1. P!Listing(m) /\ kind = "nodes"
      BY <2>1, <2>4
    <3>2. Filled(AsPacked(m))
      BY <3>1, ListingFilled
    <3>. HIDE DEF w, m, kind
    <3>3. Fields(EncMsg(AsPacked(m)))
      BY <3>2, MsgSizeIsBytes
    <3>4. SameMessage(Reading!Fold(w, EncMsg(AsPacked(m))), MergeFrom(p[k], m))
          /\ MergeFrom(p[k], m).body = "nodes"
      BY <2>3, <3>1, SameListing
    <3>5. Fields(q[k + 1])
          /\ Reading!Fold(EmptyWire, q[k + 1]) = Reading!Fold(w, EncMsg(AsPacked(m)))
      BY <2>2, <2>3, <3>3, MoreFields, ReadMore DEF w
    <3>. QED
      BY <2>1, <2>2, <3>1, <3>4, <3>5
  <2>5. CASE ~ \A j \in 1 .. n : P!Listing(c[j])
    <3>1. P!Hello(m) /\ kind = "text"
      BY <2>1, <2>5
    <3>2. Filled(AsPacked(m))
      BY <3>1, HelloFilled
    <3>. HIDE DEF w, m, kind
    <3>3. Fields(EncMsg(AsPacked(m)))
      BY <3>2, MsgSizeIsBytes
    <3>4. SameMessage(Reading!Fold(w, EncMsg(AsPacked(m))), MergeFrom(p[k], m))
          /\ MergeFrom(p[k], m).body = "text"
      BY <2>3, <3>1, SameHello
    <3>5. Fields(q[k + 1])
          /\ Reading!Fold(EmptyWire, q[k + 1]) = Reading!Fold(w, EncMsg(AsPacked(m)))
      BY <2>2, <2>3, <3>3, MoreFields, ReadMore DEF w
    <3>. QED
      BY <2>1, <2>2, <3>1, <3>4, <3>5
  <2>. QED
    BY <2>4, <2>5
<1>5. \A k \in 0 .. n : k \in T
  <2>. HIDE DEF T
  <2>. QED
    BY <1>3, <1>4, Reading!UpTo
<1>6. SameMessage(Reading!Fold(EmptyWire, q[n]), p[n])
  BY <1>5
<1>. QED
  BY <1>1, <1>2, <1>6, DecFolds

\* The lengths that unpack compares are equal in bytes exactly when they are in
\* contacts.
LEMMA SameComparison ==
    ASSUME NEW w, NEW m, SameMessage(w, m)
    PROVE  /\ \A f \in {"head", "version", "src", "type", "sub", "body", "text"} : w[f] = m[f]
           /\ w.nodes = FieldsOf(m.nodes)
           /\ w.length = BodySize(w) <=> m.length = BodyLength(m)
<1>1. PICK d, l : /\ w = Wired(m.head, m.version, m.src, d, m.type, m.sub, l, m.body,
                               FieldsOf(m.nodes), m.text)
                  /\ SameLength(l, m)
  BY DEF SameMessage
<1>2. /\ w.head = m.head /\ w.version = m.version /\ w.src = m.src /\ w.type = m.type
      /\ w.sub = m.sub /\ w.length = l /\ w.body = m.body
      /\ w.nodes = FieldsOf(m.nodes) /\ w.text = m.text
  BY <1>1 DEF Wired
<1>3. \A f \in {"head", "version", "src", "type", "sub", "body", "text"} : w[f] = m[f]
  <2>. TAKE f \in {"head", "version", "src", "type", "sub", "body", "text"}
  <2>. QED
    BY <1>2, Zenon
<1>4. CASE m.body = "nodes"
  <2>1. PICK a \in Seq(Nodes), b \in Seq(Nodes) :
            m.nodes = a \o b /\ m.length = Len(b) /\ l = NodesSize(FieldsOf(b))
    BY <1>1, <1>4 DEF SameLength
  <2>2. /\ NodesSize(FieldsOf(m.nodes)) = NodesSize(FieldsOf(a)) + NodesSize(FieldsOf(b))
        /\ NodesSize(FieldsOf(a)) \in Nat /\ NodesSize(FieldsOf(b)) \in Nat
        /\ NodesSize(FieldsOf(a)) = 0 <=> a = <<>>
    BY <2>1, ContactsJoined, NoBytesNoContacts
  <2>3. l = NodesSize(FieldsOf(m.nodes)) <=> a = <<>>
    BY <2>1, <2>2
  <2>4. m.length = Len(m.nodes) <=> a = <<>>
    BY <2>1
  <2>5. BodySize(w) = NodesSize(FieldsOf(m.nodes)) /\ BodyLength(m) = Len(m.nodes)
    BY <1>2, <1>4 DEF BodySize, BodyLength
  <2>. QED
    BY <1>2, <1>3, <2>3, <2>4, <2>5
<1>5. CASE m.body # "nodes"
  <2>1. l = m.length
    BY <1>1, <1>5 DEF SameLength
  <2>2. BodySize(w) = m.text /\ BodyLength(m) = m.text
    BY <1>2, <1>5 DEF BodySize, BodyLength
  <2>. QED
    BY <1>2, <1>3, <2>1, <2>2
<1>. QED
  BY <1>4, <1>5

(* What is sent takes exactly the bytes that pack computed before writing  *)
(* it, so that the length the caller sends is that of what was written.    *)
THEOREM SizesAreBytes == Spec => []SizeExact
<1>1. StreamInv => SizeExact
  <2>. SUFFICES ASSUME StreamInv, NEW k \in DOMAIN sent
                PROVE  MsgSize(AsPacked(sent[k])) = BytesOf(EncMsg(AsPacked(sent[k])))
    BY Zenon DEF SizeExact
  <2>1. sent[k] \in Packed
    BY DEF StreamInv
  <2>2. P!Listing(sent[k]) \/ P!Hello(sent[k])
    BY <2>1, PackedByServer, PackedByPeer DEF Packed
  <2>3. Filled(AsPacked(sent[k]))
    BY <2>2, ListingFilled, HelloFilled
  <2>. QED
    BY <2>3, MsgSizeIsBytes
<1>. QED
  BY <1>1, StreamInvariant, PTL

(* The generated parser, field by field over the bytes of all messages     *)
(* that recv joined, leaves the message that EbcMsg says it leaves, and    *)
(* the comparison of byte sizes decides as that of the counts does.        *)
THEOREM CodecIsMerging == Spec => []CodecAgrees
<1>1. StreamInv => CodecAgrees
  <2>. SUFFICES ASSUME StreamInv, Whole(chunk)
                PROVE  LET m == Parse(chunk)
                           w == DecMsg(Arrived(chunk))
                       IN  /\ \A f \in {"head", "version", "src", "type", "sub", "body", "text"} :
                                 w[f] = m[f]
                           /\ w.nodes = FieldsOf(m.nodes)
                           /\ w.length = BodySize(w) <=> m.length = BodyLength(m)
    BY Zenon DEF CodecAgrees, SameHeaders
  <2>. DEFINE n == Len(chunk)
  <2>1. chunk \in Seq(OnWire) /\ n \in Nat /\ DOMAIN chunk = 1 .. n
    BY DEF StreamInv
  <2>2. \A k \in 1 .. n : chunk[k] \in ToSet(sent)
    BY <2>1 DEF Whole
  <2>3. CASE role = "server"
    <3>1. \A k \in 1 .. n : P!Listing(chunk[k])
      BY <2>2, <2>3, WholeMessage DEF StreamInv
    <3>. HIDE DEF n
    <3>. QED
      BY <2>1, <3>1, SameChunk, SameComparison
  <2>4. CASE role = "peer"
    <3>1. \A k \in 1 .. n : P!Hello(chunk[k])
      BY <2>2, <2>4, WholeMessage DEF StreamInv
    <3>. HIDE DEF n
    <3>. QED
      BY <2>1, <3>1, SameChunk, SameComparison
  <2>. QED
    BY <2>3, <2>4 DEF StreamInv
<1>. QED
  BY <1>1, StreamInvariant, PTL
=============================================================================
