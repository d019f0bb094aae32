----------------------------- MODULE MsgStream -----------------------------
(***************************************************************************)
(* One UDT stream between two engines.  The sockets are SOCK_STREAM, so a  *)
(* recv returns any non-empty part of what has arrived: several messages   *)
(* together, with a message that is cut at the end, or at the beginning.   *)
(* The reader hands each chunk to unpack as if it were one message.        *)
(***************************************************************************)
EXTENDS Wire

CONSTANTS
    Nodes,       \* contacts the server may send, named by their ids
    Texts,       \* lengths of the texts peers send each other
    Versions,    \* versions of the engines that send
    NET_VERSION, \* the version of the engine that reads
    BufNodes,    \* contacts that fit the 6 KiB reply buffer
    MaxSent      \* bound: messages sent on the stream

ASSUME MsgStreamAssumption ==
    /\ Nodes \subseteq Nat /\ Texts \subseteq Nat /\ NET_VERSION \in Versions
    /\ BufNodes \in Nat /\ MaxSent \in Nat
    /\ PacketNodes \in Nat \ {0} /\ FitMsgs \in Nat \ {0}
    /\ \A n \in Nodes : EbcNode[n] \in [id : STRING, ip : Nat, port_nat : Nat]

VARIABLES
    role,     \* who sends: the server, or a peer node
    version,  \* the version of the sender
    sent,     \* messages sent so far, as packed
    wire,     \* messages in flight, in order, the first maybe cut
    chunk,    \* what the last recv returned
    read,     \* what unpack made of it
    got       \* contacts acted upon so far

vars == <<role, version, sent, wire, chunk, read, got>>

\* An answer lists contacts in id order: the server walks a std::map.
Listings == {s \in SeqOf(Nodes, Cardinality(Nodes)) :
                \A i, j \in DOMAIN s : i < j => s[i] < s[j]}

Answers == {packNodes(version, "srv", "REP", "NODE", s) : s \in Listings}
Notices == {packNodes(version, "srv", "PUNCH", "EMPTY_SUB", <<n>>) : n \in Nodes}
Hellos  == {packText(version, "peer", t) : t \in Texts}

\* What the sender packs next.  The server answers the GET_NODE that made the
\* connection first, and only then can it notify; a peer only sends hellos.
Packable == IF role = "peer" THEN Hellos
            ELSE IF sent = <<>> THEN Answers ELSE Notices

Init == /\ role \in {"server", "peer"}
        /\ version \in Versions
        /\ sent = <<>> /\ wire = <<>> /\ chunk = <<>>
        /\ read = EmptyMsg
        /\ got = {}

\* UDT::send of a packed message.
Send == /\ Len(sent) < MaxSent
        /\ \E m \in Packable :
              /\ sent' = Append(sent, m)
              /\ wire' = Append(wire, Serialize(m, BufNodes))
        /\ UNCHANGED <<role, version, chunk, read, got>>

\* UDT::recv into the 6 KiB buffer, then handleMsg.
Recv == \E r \in Recvs(wire) :
           /\ chunk' = r[1] /\ wire' = r[2]
           /\ read' = unpack(chunk')
           /\ got' = got \cup Contacts(read')
           /\ UNCHANGED <<role, version, sent>>

Next == Send \/ Recv

Spec == Init /\ [][Next]_vars

-----------------------------------------------------------------------------

Messages == Answers \cup Notices \cup Hellos
Pieces   == {Garbled, EmptyMsg} \cup {First(m, k) : m \in Messages, k \in 1 .. 6}
                                \cup {Rest(m, k) : m \in Messages, k \in 1 .. 7}
Carriers(c) == {k \in DOMAIN c : c[k].nodes # <<>>}   \* messages with contacts
Whole(c)    == \A k \in DOMAIN c : c[k] \in ToSet(sent)

TypeOK == /\ role \in {"server", "peer"} /\ version \in Versions
          /\ \A k \in DOMAIN wire  : wire[k]  \in Messages \cup Pieces
          /\ \A k \in DOMAIN chunk : chunk[k] \in Messages \cup Pieces
          /\ got \subseteq Nodes
          /\ Len(sent) <= MaxSent

\* Whatever recv joined and cut, an accepted message never mixes the contacts
\* of two messages: all it carries is what one message of the chunk carried.
\* handleMsg would otherwise punch towards a contact in another's name.
AcceptedIsOneMessage ==
    read.type # "EMPTY" /\ read.body = "nodes" /\ read.nodes # <<>> =>
        \E k \in Carriers(chunk) : Carriers(chunk) = {k} /\ read.nodes = chunk[k].nodes

\* A message of the reader's version that is read alone and whole is accepted
\* exactly as it was packed: pack, the codec and unpack are inverse to each
\* other.
AloneIsAccepted ==
    version = NET_VERSION /\ Len(chunk) = 1 /\ Whole(chunk) => read = chunk[1]

\* What the server sends in the reader's version, whole or as what is left of a
\* list, is refused for three reasons only: bytes that begin or end inside a
\* field, two messages that carry contacts, or nothing but fields to skip.
RejectedExactly ==
    /\ role = "server" /\ version = NET_VERSION
    /\ \A k \in DOMAIN chunk : chunk[k] \in ToSet(sent) \cup {Garbled, EmptyMsg}
    => (read = EmptyMsg <=>
            \/ \E k \in DOMAIN chunk : chunk[k] = Garbled
            \/ Cardinality(Carriers(chunk)) > 1
            \/ \A k \in DOMAIN chunk : chunk[k] = EmptyMsg)

\* msg.proto says of the version that it must be checked, to tell different
\* versions apart: what is accepted should be of the reader's.
VersionVerified == read.type # "EMPTY" => read.version = NET_VERSION

SameHeaders(w, m) == \A f \in {"head", "version", "src", "type", "sub", "body", "text"} :
                        w[f] = m[f]

\* EbcMsg's account of parsing is what the generated parser does field by
\* field, for all whole messages that recv may join: the same message comes
\* out, and the byte sizes that unpack compares are equal exactly when the
\* counts are.
CodecAgrees ==
    Whole(chunk) =>
        LET m == Parse(chunk)
            w == DecMsg(Arrived(chunk))
        IN  /\ SameHeaders(w, m)
            /\ w.nodes = FieldsOf(m.nodes)
            /\ w.length = BodySize(w) <=> m.length = BodyLength(m)

\* And so is its account of the pieces that recv may cut a message into: between
\* two fields the parser finds what First and Rest say; and of the fields that
\* are left of a list, wherever in its contacts they begin, it takes none for
\* one of its own.
CutsAgree ==
    chunk = <<>> /\ sent # <<>> =>
        LET m    == Last(sent)
            all  == EncMsg(AsPacked(m))
            rows == EncNodes(FieldsOf(m.nodes))
            From(s, j) == DecMsg(SubSeq(s, j, Len(s)))
            Like(w, p) == /\ SameHeaders(w, p)
                          /\ w.nodes = FieldsOf(p.nodes) /\ (w.length = 0 <=> p.length = 0)
        IN  /\ \A j \in 1 .. Len(all) - 1 : \E k \in 1 .. 6 :
                  Like(DecMsg(SubSeq(all, 1, j)), First(m, k)) /\ Like(From(all, j + 1), Rest(m, k))
            /\ \A i \in DOMAIN rows : /\ From(rows, i) = EmptyWire
                                      /\ \A j \in DOMAIN rows[i].val : From(rows[i].val, j) = EmptyWire

\* pack returns the size computed before the message is written, and the caller
\* sends that many bytes: it is the number of bytes written, varints at their
\* 7-bit boundaries and nested lengths included.
SizeExact ==
    \A k \in DOMAIN sent :
        LET m == AsPacked(sent[k]) IN MsgSize(m) = BytesOf(EncMsg(m))

\* The comment in handleMsg says each node on the list is notified of the new
\* one: with everything read, the contacts sent should all have been acted on.
AllIntroduced == wire = <<>> =>
    UNION {Contacts(sent[k]) : k \in DOMAIN sent} \subseteq got
=============================================================================
