------------------------------ MODULE MCEngine ------------------------------
(* Two peers and two sockets: both peers may be there, or one is told of   *)
(* twice, leaves and comes back on its other socket.                       *)
EXTENDS Engine

CONSTANTS s1, s2

TwoSocks == {s1, s2}
=============================================================================
