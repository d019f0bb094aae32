------------------------------- MODULE EbcMsg -------------------------------
(***************************************************************************)
(* The messages of the protocol: what pack builds, what the generated      *)
(* codec does with the bytes of several messages read at once, and what    *)
(* unpack accepts.                                                         *)
(*                                                                         *)
(* A contact (EbcNode) is one value.  The byte size of a list of contacts  *)
(* is abstracted to the number of contacts, and that of a text to a        *)
(* number: unpack only compares sizes, and every contact has a positive    *)
(* one.  The fields that no code reads back (dst_id, ttl, id) are left     *)
(* out.  Proto3 does not write a field that has its default value, so      *)
(* parsing the bytes of two messages is merging the second into the first. *)
(***************************************************************************)
EXTENDS Naturals, Sequences, SequencesExt

CONSTANTS
    PacketNodes,  \* contacts that fit one packet of the stream
    FitMsgs       \* messages within a packet that fit the 6 KiB buffer together

MsgHead == 62970                                          \* 0xF5FA

\* A message after Clear.
EmptyMsg == [head |-> 0, version |-> "", src |-> "", type |-> "EMPTY",
             sub |-> "EMPTY_SUB", length |-> 0,
             body |-> "none", nodes |-> <<>>, text |-> 0]

\* Bytes that no parse gets through: those that end or begin inside a field, or
\* the zeroes that are sent when a message did not fit its buffer.
Garbled == [EmptyMsg EXCEPT !.body = "garbled"]

\* Mutant of packNodes: the length of the reply is not set again.
packNodes_NoLength(version, self, type, sub, nodes) ==
    [head |-> MsgHead, version |-> version, src |-> self, type |-> type, sub |-> sub,
     length |-> 1, body |-> "nodes", nodes |-> nodes, text |-> 0]

\* pack of GET_NODE, PUNCH (one contact) and REP/NODE (any number).
packNodes(version, self, type, sub, nodes) ==
    [head |-> MsgHead, version |-> version, src |-> self, type |-> type, sub |-> sub,
     length |-> Len(nodes), body |-> "nodes", nodes |-> nodes, text |-> 0]

\* pack of REP/DATA.
packText(version, self, text) ==
    [head |-> MsgHead, version |-> version, src |-> self, type |-> "REP", sub |-> "DATA",
     length |-> text, body |-> "text", nodes |-> <<>>, text |-> text]

\* Mutant of Serialize: the contacts that fit are written.
Serialize_Truncated(m, room) ==
    IF Len(m.nodes) <= room THEN m
    ELSE [m EXCEPT !.nodes = SubSeq(@, 1, room)]

\* SerializeToArray writes nothing into a buffer that is too small, and its
\* result is not looked at: the caller sends the cleared buffer.
Serialize(m, room) == IF Len(m.nodes) <= room THEN m ELSE Garbled

-----------------------------------------------------------------------------

\* A field on the wire replaces the one read before; a default is not sent.
Over(old, new, default) == IF new = default THEN old ELSE new

\* Mutant of MergeFrom: the lengths read add up.
MergeFrom_LengthSum(m, n) ==
    [head    |-> Over(m.head, n.head, 0),
     version |-> Over(m.version, n.version, ""),
     src     |-> Over(m.src, n.src, ""),
     type    |-> Over(m.type, n.type, "EMPTY"),
     sub     |-> Over(m.sub, n.sub, "EMPTY_SUB"),
     length  |-> m.length + n.length,
     body    |-> Over(m.body, n.body, "none"),
     nodes   |-> m.nodes \o n.nodes,
     text    |-> n.text]

\* Members of the oneof clear each other; the repeated contacts append.
MergeFrom(m, n) ==
    [head    |-> Over(m.head, n.head, 0),
     version |-> Over(m.version, n.version, ""),
     src     |-> Over(m.src, n.src, ""),
     type    |-> Over(m.type, n.type, "EMPTY"),
     sub     |-> Over(m.sub, n.sub, "EMPTY_SUB"),
     length  |-> Over(m.length, n.length, 0),
     body    |-> Over(m.body, n.body, "none"),
     nodes   |-> IF n.body = "text" THEN <<>> ELSE m.nodes \o n.nodes,
     text    |-> IF n.body = "none" THEN m.text ELSE n.text]

\* ParseFromArray of a chunk of the stream, as the message it leaves.
Parse(chunk)  == FoldLeft(MergeFrom, EmptyMsg, chunk)
Parses(chunk) == \A k \in DOMAIN chunk : chunk[k].body # "garbled"

BodyLength(m) == IF m.body = "nodes" THEN Len(m.nodes) ELSE m.text

\* Mutant of Wellformed: the length is not compared.
Wellformed_NoLength(m) == m.head = MsgHead /\ m.type # "EMPTY"

\* What unpack asks of a parsed message.
Wellformed(m) == /\ m.head = MsgHead
                 /\ m.type # "EMPTY"
                 /\ m.length = BodyLength(m)

\* unpack: the accepted message, or EmptyMsg (whose type none is accepted with).
unpack(chunk) ==
    LET m == Parse(chunk)
    IN  IF Parses(chunk) /\ Wellformed(m) THEN m ELSE EmptyMsg

\* Mutant of Contacts: of a list, only the first contact is handled.
Contacts_First(m) ==
    IF m.type \in {"REP", "PUNCH"} /\ m.nodes # <<>> THEN {Head(m.nodes)} ELSE {}

\* The contacts handleMsg punches towards on behalf of an accepted message.  (For
\* an accepted PUNCH whose contact was cut off it reads past the end of the list,
\* which is undefined and may end the process: no contact comes of it here.)
Contacts(m) ==
    CASE m.type = "REP" /\ m.sub = "NODE"    -> ToSet(m.nodes)
      [] m.type = "PUNCH" /\ m.nodes # <<>>  -> {Head(m.nodes)}
      [] OTHER                               -> {}

-----------------------------------------------------------------------------
(* Messages that recv cuts: what their pieces are to the parser.           *)

\* Mutant of Place: the length is written before the types.
Place_LengthFirst == [head |-> 1, version |-> 2, src |-> 3, length |-> 4, type |-> 5,
                      sub |-> 6, body |-> 7, nodes |-> 7, text |-> 7]

\* The order in which the fields are written.
Place == [head |-> 1, version |-> 2, src |-> 3, type |-> 4, sub |-> 5, length |-> 6,
          body |-> 7, nodes |-> 7, text |-> 7]

\* A message of which only the first k fields were read, or only the others.
First(m, k) == [f \in DOMAIN EmptyMsg |-> IF Place[f] <= k THEN m[f] ELSE EmptyMsg[f]]
Rest(m, k)  == [f \in DOMAIN EmptyMsg |-> IF Place[f] > k THEN m[f] ELSE EmptyMsg[f]]

\* A message that does not fit a packet may arrive in parts.
Large(m) == Len(m.nodes) > PacketNodes \/ m \in {Garbled, EmptyMsg}

\* The two pieces of a message.  A list is cut inside, as its header is in the
\* first packet; what is left of it begins inside a field, or at one, and then
\* all that follows are fields that an EbcMsg does not know and skips.  Any
\* other message may be cut between two fields, or inside one: then the bytes
\* left of it may be skipped like a field, and fields behind them.
Cuts(m) ==
    CASE m \in {Garbled, EmptyMsg} -> {Garbled, EmptyMsg} \X {Garbled, EmptyMsg}
      [] m.sub = "NODE" -> {Garbled} \X {Garbled, EmptyMsg}
      [] OTHER -> {<<First(m, k), Rest(m, k)>> : k \in 1 .. 6}
                  \cup {Garbled} \X ({Garbled} \cup {Rest(m, k) : k \in 1 .. 7})

\* What one UDT::recv may return of a queue of messages, and what it leaves:
\* all or some of them, the last maybe cut - between packets if it is large, or
\* by the end of the buffer behind a large one or many.
Recvs(queue) ==
    LET Cut(n) == Large(queue[n]) \/ n > FitMsgs \/ \E k \in 1 .. n - 1 : Large(queue[k])
    IN  {<<SubSeq(queue, 1, n), SubSeq(queue, n + 1, Len(queue))>> : n \in DOMAIN queue}
        \cup UNION {{<<Append(SubSeq(queue, 1, n - 1), c[1]),
                      <<c[2]>> \o SubSeq(queue, n + 1, Len(queue))>> : c \in Cuts(queue[n])} :
                    n \in {k \in DOMAIN queue : Cut(k)}}
=============================================================================
