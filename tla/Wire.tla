-------------------------------- MODULE Wire --------------------------------
(***************************************************************************)
(* The codec of EbcMsg one level down: the fields that msg.pb.cc writes    *)
(* and reads, one after the other, with the bytes each takes.              *)
(*                                                                         *)
(* EbcMsg says what a message, or several joined by the stream, are parsed *)
(* as, and counts contacts instead of bytes.  Here a message is written as *)
(* the sequence of its fields, messages that arrive together are the       *)
(* concatenation of their fields, and lengths are in bytes.                *)
(***************************************************************************)
EXTENDS EbcMsg, FiniteSets

CONSTANT EbcNode   \* the fields of each contact: its id, ip and port_nat

ID_LENGTH     == 20   \* bytes of an id, of the version
VersionLength == 6

\* A message with all fields at their defaults, and a contact.
EmptyWire == [head |-> 0, version |-> "", src |-> "", dst |-> "", type |-> "EMPTY",
              sub |-> "EMPTY_SUB", length |-> 0, body |-> "none", nodes |-> <<>>,
              text |-> 0]
EmptyNode == [id |-> "", ip |-> 0, port_nat |-> 0]

-----------------------------------------------------------------------------
(* Sizes, as ByteSizeLong computes them before anything is written.        *)

\* Of values below 2^31; one above takes five bytes like those from 2^28 on.
Log2Floor(v) == Cardinality({l \in 1 .. 30 : v >= 2 ^ l})

\* Mutant of VarintSize: a rounding that is off at the 7-bit boundaries.
VarintSize_Rounded(v) == (Log2Floor(v) * 9 + 64) \div 64

VarintSize(v) == (Log2Floor(v) * 9 + 73) \div 64

LengthDelimitedSize(n) == n + VarintSize(n)

\* A field of its default value takes nothing, any other a tag of one byte.
UInt32Size(v)       == IF v = 0 THEN 0 ELSE 1 + VarintSize(v)
EnumSize(v, empty)  == IF v = empty THEN 0 ELSE 2
StringSize(s, n)    == IF s = "" THEN 0 ELSE 1 + LengthDelimitedSize(n)

NodeSize(c) == StringSize(c.id, ID_LENGTH) + UInt32Size(c.ip) + UInt32Size(c.port_nat)

AddNodeSize(n, c) == n + (1 + LengthDelimitedSize(NodeSize(c)))
NodesSize(nodes)  == FoldLeft(AddNodeSize, 0, nodes)

MsgSize(m) ==
    StringSize(m.version, VersionLength) + StringSize(m.src, ID_LENGTH)
    + StringSize(m.dst, ID_LENGTH) + UInt32Size(m.head)
    + EnumSize(m.type, "EMPTY") + EnumSize(m.sub, "EMPTY_SUB") + UInt32Size(m.length)
    + CASE m.body = "text"  -> 1 + LengthDelimitedSize(m.text)
        [] m.body = "nodes" -> 1 + LengthDelimitedSize(NodesSize(m.nodes))
        [] OTHER            -> 0

-----------------------------------------------------------------------------
(* Writing.  A field is its tag, its value, and the bytes it takes.        *)

\* A varint is written seven bits at a time.
VarintBytes(v) == 1 + Cardinality({k \in 1 .. 4 : v >= 128 ^ k})

Field(tag, bytes, val) == [tag |-> tag, bytes |-> 1 + bytes, val |-> val]

UInt32Field(tag, v)      == IF v = 0 THEN <<>> ELSE <<Field(tag, VarintBytes(v), v)>>
EnumField(tag, v, empty) == IF v = empty THEN <<>> ELSE <<Field(tag, 1, v)>>
StringField(tag, s, n)   == IF s = "" THEN <<>> ELSE <<Field(tag, VarintBytes(n) + n, s)>>

AddBytes(n, f)  == n + f.bytes
BytesOf(fields) == FoldLeft(AddBytes, 0, fields)

\* WriteMessage: the size of the sub-message, then its fields.
Message(tag, fields) ==
    Field(tag, VarintBytes(BytesOf(fields)) + BytesOf(fields), fields)

EncNode(c) == StringField(10, c.id, ID_LENGTH) \o UInt32Field(16, c.ip) \o UInt32Field(24, c.port_nat)

EncNodes(nodes) == [k \in DOMAIN nodes |-> Message(10, EncNode(nodes[k]))]

\* The member of the oneof is written even when it is empty.
EncMsg(m) ==
    UInt32Field(8, m.head) \o StringField(18, m.version, VersionLength)
    \o StringField(26, m.src, ID_LENGTH) \o StringField(34, m.dst, ID_LENGTH)
    \o EnumField(56, m.type, "EMPTY") \o EnumField(64, m.sub, "EMPTY_SUB") \o UInt32Field(72, m.length)
    \o (IF m.body = "text" THEN <<Field(82, VarintBytes(m.text) + m.text, m.text)>> ELSE <<>>)
    \o (IF m.body = "nodes" THEN <<Message(90, EncNodes(m.nodes))>> ELSE <<>>)

-----------------------------------------------------------------------------
(* Reading: each field that is found is stored, whatever was read before.  *)

DecNodeField(c, f) ==
    CASE f.tag = 10 -> [c EXCEPT !.id = f.val]
      [] f.tag = 16 -> [c EXCEPT !.ip = f.val]
      [] f.tag = 24 -> [c EXCEPT !.port_nat = f.val]

DecNode(fields) == FoldLeft(DecNodeField, EmptyNode, fields)

\* Mutant of DecNodes: the list that is read replaces the one before.
DecNodes_Replace(nodes, fields) == [k \in DOMAIN fields |-> DecNode(fields[k].val)]

\* Every contact is added to the list there is.
DecNodes(nodes, fields) == nodes \o [k \in DOMAIN fields |-> DecNode(fields[k].val)]

\* A tag is the number of a field with the type of its value; a field of any
\* other tag is skipped.
DecField(m, f) ==
    CASE f.tag = 8  -> [m EXCEPT !.head = f.val]
      [] f.tag = 18 -> [m EXCEPT !.version = f.val]
      [] f.tag = 26 -> [m EXCEPT !.src = f.val]
      [] f.tag = 34 -> [m EXCEPT !.dst = f.val]
      [] f.tag = 56 -> [m EXCEPT !.type = f.val]
      [] f.tag = 64 -> [m EXCEPT !.sub = f.val]
      [] f.tag = 72 -> [m EXCEPT !.length = f.val]
      [] f.tag = 82 -> [m EXCEPT !.body = "text", !.text = f.val, !.nodes = <<>>]
      [] f.tag = 90 -> [m EXCEPT !.body = "nodes", !.text = 0,
                                 !.nodes = DecNodes(IF m.body = "nodes" THEN @ ELSE <<>>, f.val)]
      [] OTHER      -> m

DecMsg(fields) == FoldLeft(DecField, EmptyWire, fields)

-----------------------------------------------------------------------------
(* The messages of EbcMsg.                                                 *)

FieldsOf(nodes) == [k \in DOMAIN nodes |-> EbcNode[nodes[k]]]

\* A message as pack fills it in: only a REP has a destination, twenty zero
\* bytes; the length of contacts is their size in bytes.
AsPacked(m) ==
    [head |-> m.head, version |-> m.version, src |-> m.src,
     dst |-> IF m.type = "REP" THEN "zero" ELSE "",
     type |-> m.type, sub |-> m.sub, body |-> m.body, text |-> m.text,
     nodes |-> FieldsOf(m.nodes),
     length |-> IF m.body = "nodes" THEN NodesSize(FieldsOf(m.nodes)) ELSE m.text]

\* What unpack compares the length field with.
BodySize(m) == IF m.body = "nodes" THEN NodesSize(m.nodes) ELSE m.text

\* The fields of messages that were read together.
AddMsg(fields, m) == fields \o EncMsg(AsPacked(m))
Arrived(chunk)    == FoldLeft(AddMsg, <<>>, chunk)
=============================================================================
