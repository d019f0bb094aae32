--------------------------- MODULE ContactProofs ---------------------------
(* Proofs about Contact: the port of a node survives every relay of it.    *)
EXTENDS Contact, TLAPS

(* The low half of a word made by comPortNat holds NAT bits only, so       *)
(* parPort returns the port comPortNat was given.                          *)
LEMMA PortRoundTrip ==
    ASSUME NEW port \in Uint16, NEW nat \in 0 .. 15
    PROVE  /\ comPortNat(port, nat) \in Words
           /\ parPort(comPortNat(port, nat)) = port
           /\ parNat(comPortNat(port, nat)) \in 0 .. 15
           /\ comPortNat(port, nat) % 4096 = 0
<1>. DEFINE high == IF port < 32768 THEN port ELSE port - 65536
<1>1. /\ high \in Int /\ -32768 <= high /\ high <= 32767
      /\ high % 65536 = port
  BY DEF Uint16
<1>2. NatBits(nat) = 0
  BY DEF NatBits
<1>3. comPortNat(port, nat) = high * 65536
  BY <1>1, <1>2 DEF comPortNat, ShiftedPort
<1>. HIDE DEF high
<1>4. /\ (high * 65536) \div 65536 = high
      /\ (high * 65536) % 4096 = 0
  BY <1>1
<1>5. high * 65536 \in Words
  BY <1>1 DEF Words
<1>6. ((high * 65536) \div 4096) % 16 \in 0 .. 15
  BY <1>1
<1>. QED
  BY <1>1, <1>3, <1>4, <1>5, <1>6 DEF parPort, parNat

(* What is known of the contact at every stage of its way: the word in     *)
(* flight and the server's record carry the port the server saw.           *)
RelayInv ==
    /\ TypeOK
    /\ ReservedBitsClear
    /\ stage \in {"announced", "punched", "listed", "done"} =>
           parPort(word) = sinPort /\ client.port = sinPort
    /\ PunchReachesNode

\* The words hold nothing at the start.
LEMMA RelayInvInit == Init => RelayInv
<1>. SUFFICES ASSUME Init PROVE RelayInv
  OBVIOUS
<1>1. Unset \in Contacts
  BY DEF Unset, Contacts, Uint16
<1>. QED
  BY <1>1 DEF Init, RelayInv, TypeOK, ReservedBitsClear, PunchReachesNode, Known,
              Words, Uint16

(* A NAT class read out of any word fits its four bits, a port its sixteen. *)
LEMMA ParRanges ==
    ASSUME NEW w \in Words
    PROVE  parNat(w) \in 0 .. 15 /\ parPort(w) \in Uint16
  BY DEF parNat, parPort, Words, Uint16

\* Each packing keeps the port it was given.
LEMMA RelayInvNext == RelayInv /\ [Next]_vars => RelayInv'
<1>. SUFFICES ASSUME RelayInv, [Next]_vars PROVE RelayInv'
  OBVIOUS
<1>. USE DEF RelayInv, ReservedBitsClear, PunchReachesNode, Known, Contacts, setPort
<1>. /\ sinPort \in Uint16 /\ natType \in 0 .. 15
     /\ parNat(word) \in 0 .. 15 /\ parPort(word) \in Uint16
  BY ContactAssumption, ParRanges DEF TypeOK
<1>1. CASE SendGetNode
  <2>. 0 \in Uint16
    BY DEF Uint16
  <2>1. word' \in Words /\ word' % 4096 = 0
    BY <1>1, PortRoundTrip DEF SendGetNode
  <2>. QED
    BY <1>1, <2>1 DEF SendGetNode, TypeOK
<1>2. CASE HandleGetNode
  <2>1. word' \in Words /\ word' % 4096 = 0 /\ parPort(word') = sinPort
    BY <1>2, PortRoundTrip DEF HandleGetNode
  <2>. QED
    BY <1>2, <2>1 DEF HandleGetNode, TypeOK
<1>3. CASE AnswerWithStored
  <2>. client.port \in Uint16 /\ client.nat \in 0 .. 15
    BY DEF TypeOK
  <2>1. word' \in Words /\ word' % 4096 = 0 /\ parPort(word') = client.port
    BY <1>3, PortRoundTrip DEF AnswerWithStored
  <2>. QED
    BY <1>3, <2>1 DEF AnswerWithStored, TypeOK
<1>4. CASE HandleContact
  BY <1>4 DEF HandleContact, TypeOK
<1>5. CASE UNCHANGED vars
  BY <1>5 DEF vars, TypeOK
<1>. QED
  BY <1>1, <1>2, <1>3, <1>4, <1>5 DEF Next

(* In every behaviour, for every port and NAT class: a peer that acts on a *)
(* contact punches towards the port the server saw (PUNCH and REP/NODE     *)
(* alike).                                                                 *)
THEOREM PortReachesPeer == Spec => []PunchReachesNode
<1>1. RelayInv => PunchReachesNode
  BY DEF RelayInv
<1>. QED
  BY <1>1, RelayInvInit, RelayInvNext, PTL DEF Spec

(* comPortNat never sets the 12 reserved low bits of port_nat, whoever     *)
(* packed the word: the node or, twice, the server.                        *)
THEOREM ReservedStayClear == Spec => []ReservedBitsClear
<1>1. RelayInv => ReservedBitsClear
  BY DEF RelayInv
<1>. QED
  BY <1>1, RelayInvInit, RelayInvNext, PTL DEF Spec

(* Words stay 32 bits wide, ports 16 and NAT classes 4, over every packing *)
(* and unpacking on the way from the node to its peer.                     *)
THEOREM RelayTypes == Spec => []TypeOK
<1>1. RelayInv => TypeOK
  BY DEF RelayInv
<1>. QED
  BY <1>1, RelayInvInit, RelayInvNext, PTL DEF Spec
=============================================================================
