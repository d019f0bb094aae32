---------------------------- MODULE MCMsgStream ----------------------------
(* Three contacts, so that an answer may be empty, single, larger than a   *)
(* packet and larger than the buffer; three messages, so that a chunk may  *)
(* join an empty answer and two notifications, or what is left of a list   *)
(* and two.  The fields of the contacts are defaults, or at the boundaries *)
(* where a varint takes one byte more.                                     *)
EXTENDS MsgStream

MCNodes    == 1 .. 3
MCTexts    == {0, 1, 2}
MCVersions == {"V0.0.0", "V0.0.1"}
MCEbcNode  == <<[id |-> "n1", ip |-> 0,          port_nat |-> 16383],
                [id |-> "n2", ip |-> 127,        port_nat |-> 16384],
                [id |-> "n3", ip |-> 2147483647, port_nat |-> 128]>>
=============================================================================
