----------------------------- MODULE MCClient ------------------------------
(* Two nodes to be told of and two sockets to punch with: one node told of *)
(* twice has two sockets, two nodes have one each.                         *)
EXTENDS Client

CONSTANTS i1, i2, p1, p2

MCIds   == {i1, i2}
MCSocks == {p1, p2}
=============================================================================
