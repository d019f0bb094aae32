------------------------------ MODULE Contact ------------------------------
(***************************************************************************)
(* The contact of a node on its way from the node to the peers that punch  *)
(* a hole towards it: the node announces its NAT class, the server adds    *)
(* the port it saw, stores both, and sends them on in a PUNCH (at once) or *)
(* in a later REP/NODE answer; the peer punches towards that port.         *)
(*                                                                         *)
(* A sin_port is the raw 16-bit value in the structure (network order).  A *)
(* uint32 word is represented by the signed number with the same 32 bits,  *)
(* the value the C macro's int arithmetic yields.                          *)
(***************************************************************************)
EXTENDS Integers

CONSTANTS
    Ports,   \* the sin_port values a node may be seen at
    Nats     \* the NAT classes a node may have (Node::NatType)

Uint16 == {n \in Nat : n < 65536}
Words  == {w \in Int : -2147483647 - 1 <= w /\ w <= 2147483647}

ASSUME ContactAssumption == Ports \subseteq Uint16 /\ Nats \subseteq 0 .. 3

\* nat & 0xf000: what "(nat)&(0xf)<<(12)" means, << binding tighter than &.
NatBits(nat) == ((nat \div 4096) % 16) * 4096

\* The int (port << 16): the top bit of the port becomes the sign.
ShiftedPort(port) == (IF port < 32768 THEN port ELSE port - 65536) * 65536

\* Mutants of comPortNat: the port in host order, the NAT class not masked.
comPortNat_HostOrder(port, nat) ==
    ShiftedPort((port % 256) * 256 + port \div 256) + NatBits(nat)
comPortNat_Unmasked(port, nat)  == ShiftedPort(port) + nat

comPortNat(port, nat) == ShiftedPort(port) + NatBits(nat)

\* Mutant of parPort: an arithmetic shift that keeps the sign.
parPort_Signed(value) == value \div 65536

parPort(value)        == (value \div 65536) % 65536
parNat(value)         == (value \div 4096) % 16

\* ntohs on the little-endian hosts the program is built for.
ntohs(p) == (p % 256) * 256 + p \div 256

\* SockAddr: setPort stores its argument as it is, getPort converts.
setPort(p)   == p
getPort(raw) == ntohs(raw)

VARIABLES
    stage,    \* where the contact is
    sinPort,  \* the port the server sees the node at (getpeername)
    natType,  \* self.getNatType() of the node
    word,     \* the port_nat field of the last message sent
    client,   \* what the server stored of the node (clientNode)
    peer,     \* what the peer stored of the node (peerNode)
    punched   \* the sin_port the peer punches towards (startPunch)

vars == <<stage, sinPort, natType, word, client, peer, punched>>

Unset    == [port |-> 0, nat |-> 3]             \* Node's default NAT is SYMMTRIC
Contacts == [port : Uint16, nat : 0 .. 15]

Init == /\ stage = "online"
        /\ sinPort \in Ports
        /\ natType \in Nats
        /\ word = 0
        /\ client = Unset
        /\ peer = Unset
        /\ punched = 0

\* The node sends GET_NODE with its NAT class and port 0.
SendGetNode ==
    /\ stage = "online"
    /\ stage' = "asked"
    /\ word' = comPortNat(0, natType)
    /\ UNCHANGED <<sinPort, natType, client, peer, punched>>

\* The server pairs the NAT class with the port it sees, announces both to
\* the clients it knows and stores the node (addClientNode).
HandleGetNode ==
    /\ stage = "asked"
    /\ stage' = "announced"
    /\ LET nat == parNat(word)
       IN  /\ word' = comPortNat(sinPort, nat)
           /\ client' = [port |-> setPort(sinPort), nat |-> nat]
    /\ UNCHANGED <<sinPort, natType, peer, punched>>

\* A later GET_NODE of another node: the stored contact goes into the answer.
AnswerWithStored ==
    /\ stage \in {"announced", "punched"}
    /\ stage' = "listed"
    /\ word' = comPortNat(client.port, client.nat)
    /\ UNCHANGED <<sinPort, natType, client, peer, punched>>

\* The peer handles the PUNCH or the answer: startPunch, then addPeerNode.
HandleContact ==
    /\ stage \in {"announced", "listed"}
    /\ stage' = IF stage = "announced" THEN "punched" ELSE "done"
    /\ punched' = parPort(word)
    /\ peer' = [port |-> setPort(parPort(word)), nat |-> parNat(word)]
    /\ UNCHANGED <<sinPort, natType, word, client>>

Next == SendGetNode \/ HandleGetNode \/ AnswerWithStored \/ HandleContact

Spec == Init /\ [][Next]_vars

-----------------------------------------------------------------------------

TypeOK == /\ stage \in {"online", "asked", "announced", "listed", "punched", "done"}
          /\ sinPort \in Ports /\ natType \in Nats
          /\ word \in Words
          /\ client \in Contacts /\ peer \in Contacts
          /\ punched \in Uint16

Known == stage \in {"punched", "done"}   \* a peer has acted on the contact

\* Whatever way the contact took, the peer punches towards the very port the
\* server saw the node at, and remembers that port: the packing of port and
\* NAT into one signed 32-bit shift loses nothing of the port.
PunchReachesNode == Known => punched = sinPort /\ peer.port = sinPort

\* The word that carries a contact never sets the 12 reserved low bits.
ReservedBitsClear == word % 4096 = 0
=============================================================================
