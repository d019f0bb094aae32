------------------------------ MODULE MCEbcNet ------------------------------
(* Three nodes with three connections for safety: three nodes that join in *)
(* any order, or one that loses its connection and comes back next to      *)
(* another.  Two nodes with two connections for liveness.                  *)
EXTENDS EbcNet, TLC

CONSTANTS i1, i2, i3, s1, s2, s3

TwoIds     == {i1, i2}
ThreeIds   == {i1, i2, i3}
TwoSocks   == {s1, s2}
ThreeSocks == {s1, s2, s3}
Symmetry   == Permutations(ThreeIds) \cup Permutations(ThreeSocks)
=============================================================================
