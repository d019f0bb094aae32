----------------------------- MODULE MCContact -----------------------------
(* Ports on both sides of every boundary of the packing: zero, the byte    *)
(* boundary, the sign bit of the shifted int, the largest port.            *)
EXTENDS Contact

MCPorts == {0, 1, 255, 256, 9444, 32767, 32768, 65535}
MCNats  == 0 .. 3
=============================================================================
