----------------------------- MODULE MCServer ------------------------------
(* Three nodes and three connections: each node may have a connection, so  *)
(* that an answer carries two others and a GET_NODE notifies two, or one   *)
(* node may lose its connection and come back while the server still has   *)
(* the old one.                                                            *)
EXTENDS Server, TLC

CONSTANTS i1, i2, i3, s1, s2, s3

TwoIds     == {i1, i2}
ThreeIds   == {i1, i2, i3}
TwoSocks   == {s1, s2}
ThreeSocks == {s1, s2, s3}
Symmetry   == Permutations(ThreeIds) \cup Permutations(ThreeSocks)
=============================================================================
