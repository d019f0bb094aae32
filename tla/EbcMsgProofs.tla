----------------------------- MODULE EbcMsgProofs -----------------------------
(***************************************************************************)
(* What unpack makes of a chunk of the stream, for any number of messages  *)
(* of any content.  A chunk is parsed by folding MergeFrom over its        *)
(* messages: first what one more message does to what was parsed, then     *)
(* the whole chunk, by induction on its messages.                          *)
(***************************************************************************)
EXTENDS EbcMsg, TLAPS

Merging == INSTANCE FoldProofs WITH M <- MergeFrom

CONSTANT EbcNodes   \* the contacts there may be

\* A message of contacts, as the server packs it, and what a parse that has
\* read some of them may hold.
Listing(n) ==
    \E version, self, type, sub : \E nodes \in Seq(EbcNodes) :
        type # "EMPTY" /\ n = packNodes(version, self, type, sub, nodes)

Partial(m) == m.nodes \in Seq(EbcNodes) /\ m.length \in Nat

\* There are more contacts than the length accounts for.
Overfull(m) == m.body = "nodes" /\ m.length < Len(m.nodes)

\* The new length is below the new number of contacts.
LEMMA Less ==
    ASSUME NEW a \in Nat, NEW b \in Nat, NEW c \in Nat, c < a
    PROVE  b < a + b
  OBVIOUS

\* What pack guarantees of a listing.
LEMMA ListingFacts ==
    ASSUME NEW n, Listing(n)
    PROVE  /\ Partial(n)
           /\ n.head = MsgHead /\ n.type # "EMPTY" /\ n.body = "nodes"
           /\ n.length = Len(n.nodes) /\ n.text = 0
  BY DEF Listing, packNodes, Partial

\* The fields of MergeFrom when the second message is a listing.
LEMMA MergeListing ==
    ASSUME NEW m, NEW n, Partial(m), Listing(n)
    PROVE  /\ Partial(MergeFrom(m, n))
           /\ MergeFrom(m, n).head = MsgHead /\ MergeFrom(m, n).type = n.type
           /\ MergeFrom(m, n).body = "nodes"
           /\ MergeFrom(m, n).nodes = m.nodes \o n.nodes
           /\ Len(MergeFrom(m, n).nodes) = Len(m.nodes) + Len(n.nodes)
           /\ Len(n.nodes) = 0 => MergeFrom(m, n).length = m.length
           /\ Len(n.nodes) # 0 => MergeFrom(m, n).length = Len(n.nodes)
  <1>1. /\ Partial(n) /\ n.head = MsgHead /\ n.type # "EMPTY"
        /\ n.body = "nodes" /\ n.length = Len(n.nodes)
    BY ListingFacts
  <1>2. /\ MergeFrom(m, n).head = MsgHead /\ MergeFrom(m, n).type = n.type
        /\ MergeFrom(m, n).body = "nodes"
        /\ MergeFrom(m, n).nodes = m.nodes \o n.nodes
        /\ Len(n.nodes) = 0 => MergeFrom(m, n).length = m.length
        /\ Len(n.nodes) # 0 => MergeFrom(m, n).length = Len(n.nodes)
    <2>1. Over(m.head, n.head, 0) = MsgHead
      BY <1>1 DEF Over, MsgHead
    <2>2. Over(m.type, n.type, "EMPTY") = n.type /\ Over(m.body, n.body, "none") = "nodes"
      BY <1>1 DEF Over
    <2>3. Over(m.length, n.length, 0) = IF Len(n.nodes) = 0 THEN m.length ELSE Len(n.nodes)
      BY <1>1 DEF Over
    <2> QED
      BY <1>1, <2>1, <2>2, <2>3 DEF MergeFrom
  <1>3. /\ m.nodes \o n.nodes \in Seq(EbcNodes)
        /\ Len(m.nodes \o n.nodes) = Len(m.nodes) + Len(n.nodes)
    BY <1>1 DEF Partial
  <1> QED
    BY <1>1, <1>2, <1>3 DEF Partial

\* Contacts that are read drop a text.
LEMMA MergeListingText ==
    ASSUME NEW m, NEW n, Listing(n)
    PROVE  MergeFrom(m, n).text = 0
  BY ListingFacts DEF MergeFrom

\* A listing that is read alone is the message that was packed, and unpack
\* accepts it.
THEOREM AloneAccepted ==
    ASSUME NEW n, Listing(n)
    PROVE  MergeFrom(EmptyMsg, n) = n /\ Wellformed(n)
  <1>0. PICK version, self, type, sub :
            \E nodes \in Seq(EbcNodes) :
                type # "EMPTY" /\ n = packNodes(version, self, type, sub, nodes)
    BY DEF Listing
  <1>1. PICK nodes \in Seq(EbcNodes) :
            type # "EMPTY" /\ n = packNodes(version, self, type, sub, nodes)
    BY <1>0
  <1>2. <<>> \o nodes = nodes /\ Len(nodes) \in Nat
    OBVIOUS
  <1>3. n = [head |-> MsgHead, version |-> version, src |-> self, type |-> type,
             sub |-> sub, length |-> Len(nodes), body |-> "nodes", nodes |-> nodes,
             text |-> 0]
    BY <1>1 DEF packNodes
  <1>4. Wellformed(n)
    BY <1>1, <1>3 DEF Wellformed, BodyLength
  <1>5. MergeFrom(EmptyMsg, n) = n
    <2>1. /\ Over(EmptyMsg.head, n.head, 0) = n.head
          /\ Over(EmptyMsg.version, n.version, "") = n.version
          /\ Over(EmptyMsg.src, n.src, "") = n.src
          /\ Over(EmptyMsg.type, n.type, "EMPTY") = n.type
          /\ Over(EmptyMsg.sub, n.sub, "EMPTY_SUB") = n.sub
          /\ Over(EmptyMsg.length, n.length, 0) = n.length
          /\ Over(EmptyMsg.body, n.body, "none") = n.body
      BY DEF EmptyMsg, Over
    <2>2. EmptyMsg.nodes \o n.nodes = n.nodes
      BY <1>2, <1>3 DEF EmptyMsg
    <2> QED
      BY <1>3, <2>1, <2>2 DEF MergeFrom
  <1> QED
    BY <1>4, <1>5

\* unpack refuses a message with more contacts than its length says.
LEMMA OverfullRefused ==
    ASSUME NEW m, Partial(m), Overfull(m)
    PROVE  ~Wellformed(m)
  BY DEF Partial, Overfull, Wellformed, BodyLength

\* A listing read on top of contacts brings more contacts than it accounts for,
\* unless it has none and those before were accounted for.
LEMMA StaysOverfull ==
    ASSUME NEW m, NEW n, Partial(m), Listing(n),
           NEW c \in Nat, c < Len(m.nodes),
           Len(n.nodes) = 0 => m.length < Len(m.nodes)
    PROVE  Overfull(MergeFrom(m, n)) /\ ~Wellformed(MergeFrom(m, n))
  <1>1. Partial(n)
    BY ListingFacts
  <1>2. Len(n.nodes) \in Nat /\ Len(m.nodes) \in Nat
    BY <1>1 DEF Partial
  <1>3. /\ Partial(MergeFrom(m, n)) /\ MergeFrom(m, n).body = "nodes"
        /\ Len(MergeFrom(m, n).nodes) = Len(m.nodes) + Len(n.nodes)
        /\ Len(n.nodes) = 0 => MergeFrom(m, n).length = m.length
        /\ Len(n.nodes) # 0 => MergeFrom(m, n).length = Len(n.nodes)
    BY MergeListing
  <1>4. MergeFrom(m, n).length < Len(MergeFrom(m, n).nodes)
    <2>1. CASE Len(n.nodes) = 0
      BY <2>1, <1>2, <1>3
    <2>2. CASE Len(n.nodes) # 0
      <3>1. MergeFrom(m, n).length = Len(n.nodes)
        BY <2>2, <1>3
      <3>2. Len(n.nodes) < Len(m.nodes) + Len(n.nodes)
        BY <1>2, Less
      <3> QED
        BY <3>1, <3>2, <1>3
    <2> QED
      BY <2>1, <2>2
  <1>5. Overfull(MergeFrom(m, n))
    BY <1>3, <1>4 DEF Overfull
  <1> QED
    BY <1>3, <1>5, OverfullRefused

\* Once there are contacts, another message with contacts makes the message
\* one that unpack refuses, whatever was read before and in what order.
THEOREM JoinedRefused ==
    ASSUME NEW m, NEW n, Partial(m), Listing(n),
           m.nodes # <<>>, n.nodes # <<>>
    PROVE  Overfull(MergeFrom(m, n)) /\ ~Wellformed(MergeFrom(m, n))
  <1>1. Partial(n)
    BY ListingFacts
  <1>2. 0 \in Nat /\ 0 < Len(m.nodes) /\ Len(n.nodes) # 0
    BY <1>1 DEF Partial
  <1> QED
    BY <1>2, StaysOverfull

\* And no later message of contacts mends it.
THEOREM RefusedForGood ==
    ASSUME NEW m, NEW n, Partial(m), Listing(n), Overfull(m)
    PROVE  Overfull(MergeFrom(m, n)) /\ ~Wellformed(MergeFrom(m, n))
  BY StaysOverfull DEF Partial, Overfull

\* An answer without contacts does no harm to the notification it is read
\* with: the contacts are those of the notification, and they are accepted.
THEOREM EmptyAnswerHarmless ==
    ASSUME NEW m, NEW n, Listing(m), Listing(n),
           m.nodes = <<>>, n.nodes # <<>>
    PROVE  MergeFrom(m, n).nodes = n.nodes /\ Wellformed(MergeFrom(m, n))
  <1>1. Partial(m) /\ Partial(n) /\ n.type # "EMPTY"
    BY ListingFacts
  <1>2. <<>> \o n.nodes = n.nodes
    BY <1>1 DEF Partial
  <1>3. /\ MergeFrom(m, n).head = MsgHead /\ MergeFrom(m, n).type = n.type
        /\ MergeFrom(m, n).body = "nodes" /\ MergeFrom(m, n).nodes = m.nodes \o n.nodes
        /\ Len(n.nodes) = 0 => MergeFrom(m, n).length = m.length
        /\ Len(n.nodes) # 0 => MergeFrom(m, n).length = Len(n.nodes)
    BY <1>1, MergeListing
  <1> QED
    BY <1>1, <1>2, <1>3 DEF Wellformed, BodyLength

-----------------------------------------------------------------------------
(* Whole chunks.                                                           *)

\* A chunk is parsed message by message, each on top of those before it.
LEMMA ParseFolds ==
    ASSUME NEW chunk
    PROVE  Parse(chunk) = Merging!Fold(EmptyMsg, chunk)
  BY DEF Parse, FoldLeft, MapThenFoldSet, Max,
         Merging!Fold, Merging!FoldLeft, Merging!MapThenFoldSet, Merging!Max

\* Parsing a chunk goes through the results for its beginnings.
LEMMA ParsePartials ==
    ASSUME NEW chunk, NEW n \in Nat, DOMAIN chunk = 1 .. n
    PROVE  \E p : /\ p[0] = EmptyMsg
                  /\ \A k \in 1 .. n : p[k] = MergeFrom(p[k - 1], chunk[k])
                  /\ Parse(chunk) = p[n]
<1>1. PICK p : /\ Merging!Partials(p, EmptyMsg, chunk, n)
               /\ Merging!Fold(EmptyMsg, chunk) = p[n]
  BY Merging!FoldPartials
<1>. QED
  BY <1>1, ParseFolds DEF Merging!Partials

\* One message read alone is merged into the cleared message.
LEMMA ParseAlone ==
    ASSUME NEW chunk, DOMAIN chunk = 1 .. 1
    PROVE  Parse(chunk) = MergeFrom(EmptyMsg, chunk[1])
<1>1. PICK p : /\ p[0] = EmptyMsg
               /\ \A k \in 1 .. 1 : p[k] = MergeFrom(p[k - 1], chunk[k])
               /\ Parse(chunk) = p[1]
  BY ParsePartials, 1 \in Nat
<1>. QED
  BY <1>1, 1 \in 1 .. 1, 1 - 1 = 0

\* The messages of a chunk that carry contacts.
Bearers(chunk) == {k \in DOMAIN chunk : chunk[k].nodes # <<>>}

\* What was skipped changes nothing.
LEMMA MergeSkipped ==
    ASSUME NEW m, m.nodes \in Seq(EbcNodes)
    PROVE  \A f \in {"head", "type", "sub", "length", "body", "nodes", "text"} :
              MergeFrom(m, EmptyMsg)[f] = m[f]
<1>1. m.nodes \o <<>> = m.nodes
  OBVIOUS
<1>. QED
  BY <1>1 DEF MergeFrom, Over, EmptyMsg

\* Contacts that come out of the parser went into it.
LEMMA NodesFrom ==
    ASSUME NEW C, NEW chunk, NEW n \in Nat, DOMAIN chunk = 1 .. n,
           \A k \in 1 .. n : chunk[k].nodes \in Seq(C)
    PROVE  Parse(chunk).nodes \in Seq(C) /\ Contacts(unpack(chunk)) \subseteq C
<1>1. PICK p : /\ p[0] = EmptyMsg
               /\ \A k \in 1 .. n : p[k] = MergeFrom(p[k - 1], chunk[k])
               /\ Parse(chunk) = p[n]
  BY ParsePartials
<1>. DEFINE S == {k \in 0 .. n : p[k].nodes \in Seq(C)}
<1>0. EmptyMsg.nodes = <<>> /\ EmptyMsg.type = "EMPTY"
  BY DEF EmptyMsg
<1>2. 0 \in S
  <2>1. p[0].nodes = <<>>
    BY <1>0, <1>1, Zenon
  <2>2. <<>> \in Seq(C) /\ 0 \in 0 .. n
    OBVIOUS
  <2>3. p[0].nodes \in Seq(C)
    BY <2>1, <2>2, Zenon
  <2>. QED
    BY <2>2, <2>3, Zenon
<1>3. ASSUME NEW k \in 0 .. n - 1, k \in S PROVE k + 1 \in S
  <2>1. k + 1 \in 1 .. n /\ k + 1 \in 0 .. n /\ (k + 1) - 1 = k
    OBVIOUS
  <2>2. p[k + 1] = MergeFrom(p[k], chunk[k + 1])
    BY <1>1, <2>1
  <2>3. MergeFrom(p[k], chunk[k + 1]).nodes
            = IF chunk[k + 1].body = "text" THEN <<>> ELSE p[k].nodes \o chunk[k + 1].nodes
    BY DEF MergeFrom
  <2>4. chunk[k + 1].nodes \in Seq(C) /\ p[k].nodes \in Seq(C)
    BY <1>3, <2>1
  <2>5. p[k + 1].nodes \in Seq(C)
    BY <2>2, <2>3, <2>4
  <2>. QED
    BY <2>1, <2>5
<1>4. \A k \in 0 .. n : k \in S
  <2>. HIDE DEF S
  <2>. QED
    BY <1>2, <1>3, Merging!UpTo
<1>5. Parse(chunk).nodes \in Seq(C)
  BY <1>1, <1>4
<1>6. \A m : m.nodes \in Seq(C) => ToSet(m.nodes) \subseteq C /\ (m.nodes # <<>> => Head(m.nodes) \in C)
  BY DEF ToSet
<1>7. Contacts(Parse(chunk)) \subseteq C /\ Contacts(EmptyMsg) \subseteq C
  BY <1>0, <1>5, <1>6 DEF Contacts
<1>. QED
  BY <1>5, <1>7 DEF unpack

\* The last message names the type and the sub-type.
LEMMA LastNames ==
    ASSUME NEW chunk, NEW n \in Nat \ {0}, DOMAIN chunk = 1 .. n
    PROVE  /\ chunk[n].type # "EMPTY" => Parse(chunk).type = chunk[n].type
           /\ chunk[n].sub # "EMPTY_SUB" => Parse(chunk).sub = chunk[n].sub
<1>1. PICK p : /\ p[0] = EmptyMsg
               /\ \A k \in 1 .. n : p[k] = MergeFrom(p[k - 1], chunk[k])
               /\ Parse(chunk) = p[n]
  BY ParsePartials
<1>2. Parse(chunk) = MergeFrom(p[n - 1], chunk[n])
  BY <1>1
<1>3. /\ MergeFrom(p[n - 1], chunk[n]).type = Over(p[n - 1].type, chunk[n].type, "EMPTY")
      /\ MergeFrom(p[n - 1], chunk[n]).sub = Over(p[n - 1].sub, chunk[n].sub, "EMPTY_SUB")
  BY DEF MergeFrom
<1>. QED
  BY <1>2, <1>3 DEF Over

-----------------------------------------------------------------------------
(* Chunks that begin or end with a piece of a message.                     *)

\* Two lists, one behind the other.
LEMMA TwoLists ==
    ASSUME NEW C, NEW a \in Seq(C), NEW b \in Seq(C)
    PROVE  /\ a \o b \in Seq(C) /\ Len(a \o b) = Len(a) + Len(b)
           /\ Len(a) \in Nat /\ Len(b) \in Nat
           /\ a = <<>> <=> Len(a) = 0
           /\ b = <<>> <=> Len(b) = 0
           /\ a = <<>> => a \o b = b
           /\ b = <<>> => a \o b = a
  OBVIOUS

\* Lengths that are accounted for, and not: a and b contacts, of which l and k
\* are the lengths that came with them.
LEMMA Accounted ==
    ASSUME NEW a \in Nat, NEW b \in Nat, NEW l \in Nat, NEW k \in Nat,
           l <= 1 \/ l <= a, k <= 1 \/ k <= b,
           NEW r, r = IF k = 0 THEN l ELSE k
    PROVE  /\ r \in Nat /\ (r <= 1 \/ r <= a + b)
           /\ a # 0 /\ b # 0 => a + b > 1 /\ r < a + b
           /\ a > 1 /\ l < a => a + b > 1 /\ (b = 0 => r < a + b)
  OBVIOUS

\* A message of contacts, or a piece of one: the length may have come without
\* the contacts, but only of a message that has one.
Part(n) ==
    /\ n.nodes \in Seq(EbcNodes) /\ n.length \in Nat
    /\ n.length <= 1 \/ n.length <= Len(n.nodes)
    /\ n.body \in {"none", "nodes"} /\ (n.nodes # <<>> => n.body = "nodes")

\* A listing is one, and nothing is.
LEMMA ListingIsPart ==
    /\ \A n : Listing(n) => Part(n)
    /\ Part(EmptyMsg)
<1>1. Part(EmptyMsg)
  BY DEF Part, EmptyMsg
<1>. QED
  BY <1>1, ListingFacts DEF Part, Partial

\* What the first k parts leave of the contacts.
Gathered(m, chunk, k) ==
    /\ Partial(m) /\ (m.length <= 1 \/ m.length <= Len(m.nodes))
    /\ m.nodes # <<>> => m.body = "nodes"
    /\ (\A j \in 1 .. k : chunk[j].nodes = <<>>) => m.nodes = <<>>
    /\ \A j \in 1 .. k :
          chunk[j].nodes # <<>> /\ (\A i \in 1 .. k : i # j => chunk[i].nodes = <<>>)
          => m.nodes = chunk[j].nodes
    /\ \A i, j \in 1 .. k :
          i # j /\ chunk[i].nodes # <<>> /\ chunk[j].nodes # <<>>
          => Overfull(m) /\ Len(m.nodes) > 1

\* No part yet.
LEMMA GatheredNone == ASSUME NEW chunk PROVE Gathered(EmptyMsg, chunk, 0)
<1>1. 1 .. 0 = {}
  OBVIOUS
<1>2. EmptyMsg.nodes = <<>> /\ EmptyMsg.length = 0
  BY DEF EmptyMsg
<1>. QED
  BY <1>1, <1>2 DEF Gathered, Partial

\* One part more.
LEMMA GatheredOneMore ==
    ASSUME NEW chunk, NEW k \in Nat, NEW m, Gathered(m, chunk, k), Part(chunk[k + 1])
    PROVE  Gathered(MergeFrom(m, chunk[k + 1]), chunk, k + 1)
<1>. DEFINE n == chunk[k + 1]
            r == MergeFrom(m, n)
<1>. SUFFICES Gathered(r, chunk, k + 1)
  OBVIOUS
<1>1. /\ Partial(m) /\ (m.length <= 1 \/ m.length <= Len(m.nodes))
      /\ Part(n) /\ (m.nodes # <<>> => m.body = "nodes")
  BY DEF Gathered
<1>2. /\ r.nodes = m.nodes \o n.nodes
      /\ r.length = IF n.length = 0 THEN m.length ELSE n.length
      /\ r.body = IF n.body = "none" THEN m.body ELSE n.body
  BY <1>1 DEF MergeFrom, Over, Part
<1>3. \A j \in 1 .. k + 1 : j \in 1 .. k \/ j = k + 1
  OBVIOUS
<1>4. 1 .. k \subseteq 1 .. k + 1 /\ k + 1 \in 1 .. k + 1 /\ k + 1 \notin 1 .. k
  OBVIOUS
<1>. HIDE DEF r, n
<1>. DEFINE a == Len(m.nodes)
            b == Len(n.nodes)
<1>5. /\ r.nodes \in Seq(EbcNodes) /\ Len(r.nodes) = a + b
      /\ a \in Nat /\ b \in Nat /\ m.length \in Nat /\ n.length \in Nat
      /\ m.nodes = <<>> <=> a = 0
      /\ n.nodes = <<>> <=> b = 0
      /\ m.nodes = <<>> => r.nodes = n.nodes
      /\ n.nodes = <<>> => r.nodes = m.nodes
  <2>1. m.nodes \in Seq(EbcNodes) /\ n.nodes \in Seq(EbcNodes)
    BY <1>1 DEF Partial, Part
  <2>2. m.length \in Nat /\ n.length \in Nat
    BY <1>1 DEF Partial, Part
  <2>3. r.nodes = m.nodes \o n.nodes
    BY <1>2
  <2>4. /\ m.nodes \o n.nodes \in Seq(EbcNodes) /\ Len(m.nodes \o n.nodes) = a + b
        /\ a \in Nat /\ b \in Nat
        /\ m.nodes = <<>> <=> a = 0
        /\ n.nodes = <<>> <=> b = 0
        /\ m.nodes = <<>> => m.nodes \o n.nodes = n.nodes
        /\ n.nodes = <<>> => m.nodes \o n.nodes = m.nodes
    <3>. DEFINE x == m.nodes
                y == n.nodes
    <3>. HIDE DEF x, y
    <3>1. /\ x \o y \in Seq(EbcNodes) /\ Len(x \o y) = Len(x) + Len(y)
          /\ Len(x) \in Nat /\ Len(y) \in Nat
          /\ x = <<>> <=> Len(x) = 0
          /\ y = <<>> <=> Len(y) = 0
          /\ x = <<>> => x \o y = y
          /\ y = <<>> => x \o y = x
      <4>1. x \in Seq(EbcNodes) /\ y \in Seq(EbcNodes)
        BY <2>1 DEF x, y
      <4>. QED
        BY <4>1, TwoLists
    <3>. QED
      BY <3>1 DEF x, y
  <2>. HIDE DEF a, b
  <2>. QED
    BY <2>2, <2>3, <2>4
<1>6. /\ r.length \in Nat /\ (r.length <= 1 \/ r.length <= a + b)
      /\ a # 0 /\ b # 0 => a + b > 1 /\ r.length < a + b
      /\ a > 1 /\ m.length < a => a + b > 1 /\ (b = 0 => r.length < a + b)
  <2>1. (m.length <= 1 \/ m.length <= a) /\ (n.length <= 1 \/ n.length <= b)
    BY <1>1 DEF Part
  <2>2. r.length = IF n.length = 0 THEN m.length ELSE n.length
    BY <1>2
  <2>. HIDE DEF a, b
  <2>. QED
    BY <1>5, <2>1, <2>2, Accounted
<1>7. /\ Partial(r) /\ (r.length <= 1 \/ r.length <= Len(r.nodes))
      /\ r.nodes # <<>> => r.body = "nodes"
  <2>1. CASE n.nodes = <<>>
    BY <1>1, <1>2, <1>5, <1>6, <2>1 DEF Partial, Part
  <2>2. CASE n.nodes # <<>>
    BY <1>1, <1>2, <1>5, <1>6, <2>2 DEF Partial, Part
  <2>. QED
    BY <2>1, <2>2
<1>8. CASE n.nodes = <<>>
  <2>1. r.nodes = m.nodes
    BY <1>5, <1>8
  <2>2. Overfull(m) /\ Len(m.nodes) > 1 => Overfull(r) /\ Len(r.nodes) > 1
    <3>. SUFFICES ASSUME Overfull(m), a > 1 PROVE Overfull(r) /\ Len(r.nodes) > 1
      OBVIOUS
    <3>1. m.length < a /\ b = 0
      BY <1>5, <1>8 DEF Overfull
    <3>2. Len(r.nodes) > 1 /\ r.length < Len(r.nodes)
      BY <1>5, <1>6, <3>1
    <3>3. r.nodes # <<>>
      BY <1>5, <2>1
    <3>. QED
      BY <1>7, <3>2, <3>3 DEF Overfull
  <2>. QED
    BY <1>3, <1>4, <1>7, <1>8, <2>1, <2>2 DEF Gathered, n
<1>9. CASE n.nodes # <<>>
  <2>1. CASE \A j \in 1 .. k : chunk[j].nodes = <<>>
    <3>1. m.nodes = <<>>
      BY <2>1 DEF Gathered
    <3>2. r.nodes = n.nodes
      BY <1>5, <3>1
    <3>. QED
      BY <1>3, <1>4, <1>7, <1>9, <2>1, <3>2 DEF Gathered, n
  <2>2. CASE \E j \in 1 .. k : chunk[j].nodes # <<>>
    <3>1. PICK j \in 1 .. k : chunk[j].nodes # <<>>
      BY <2>2
    <3>2. a # 0
      <4>1. CASE \A i \in 1 .. k : i # j => chunk[i].nodes = <<>>
        <5>1. m.nodes # <<>>
          BY <3>1, <4>1 DEF Gathered
        <5>. QED
          BY <1>5, <5>1
      <4>2. CASE \E i \in 1 .. k : i # j /\ chunk[i].nodes # <<>>
        <5>1. a > 1
          BY <3>1, <4>2 DEF Gathered
        <5>. QED
          BY <5>1
      <4>. QED
        BY <4>1, <4>2
    <3>3. Len(r.nodes) > 1 /\ r.length < Len(r.nodes)
      BY <1>5, <1>6, <1>9, <3>2
    <3>4. Overfull(r)
      <4>1. n.body = "nodes"
        BY <1>1, <1>9 DEF Part
      <4>. QED
        BY <1>2, <3>3, <4>1 DEF Overfull
    <3>. QED
      BY <1>3, <1>4, <1>7, <1>9, <3>1, <3>3, <3>4 DEF Gathered, n
  <2>. QED
    BY <2>1, <2>2
<1>. QED
  BY <1>8, <1>9

\* So after all of them.
LEMMA PartsGathered ==
    ASSUME NEW chunk, NEW n \in Nat, DOMAIN chunk = 1 .. n,
           \A k \in 1 .. n : Part(chunk[k])
    PROVE  Gathered(Parse(chunk), chunk, n)
<1>1. PICK p : /\ p[0] = EmptyMsg
               /\ \A k \in 1 .. n : p[k] = MergeFrom(p[k - 1], chunk[k])
               /\ Parse(chunk) = p[n]
  BY ParsePartials
<1>. DEFINE S == {k \in 0 .. n : Gathered(p[k], chunk, k)}
<1>2. 0 \in S
  BY <1>1, GatheredNone
<1>3. ASSUME NEW k \in 0 .. n - 1, k \in S PROVE k + 1 \in S
  <2>1. k \in Nat /\ k + 1 \in 1 .. n /\ k + 1 \in 0 .. n /\ (k + 1) - 1 = k
    OBVIOUS
  <2>2. p[k + 1] = MergeFrom(p[k], chunk[k + 1])
    BY <1>1, <2>1
  <2>3. Gathered(MergeFrom(p[k], chunk[k + 1]), chunk, k + 1)
    BY <1>3, <2>1, GatheredOneMore
  <2>. QED
    BY <2>1, <2>2, <2>3
<1>4. \A k \in 0 .. n : k \in S
  <2>. HIDE DEF S
  <2>. QED
    BY <1>2, <1>3, Merging!UpTo
<1>. QED
  BY <1>1, <1>4

\* What a cut or cleared message is known by.
LEMMA GarbledBody == Garbled.body = "garbled"
  BY DEF Garbled, EmptyMsg

\* A message that was not filled in has no type.
LEMMA EmptyType == EmptyMsg.type = "EMPTY"
  BY DEF EmptyMsg

\* However the stream joined the server's messages and cut them, between fields
\* or inside: of a chunk in which two carry contacts unpack accepts nothing, and
\* what it accepts of another has the contacts of the one that carries them.
THEOREM UnpackParts ==
    ASSUME NEW chunk, NEW n \in Nat, DOMAIN chunk = 1 .. n,
           \A k \in 1 .. n : Part(chunk[k]) \/ chunk[k] = Garbled
    PROVE  unpack(chunk) # EmptyMsg =>
                 /\ unpack(chunk) = Parse(chunk)
                 /\ Bearers(chunk) = {} => unpack(chunk).nodes = <<>>
                 /\ \A k \in Bearers(chunk) : /\ Bearers(chunk) = {k}
                                              /\ unpack(chunk).nodes = chunk[k].nodes
<1>. SUFFICES ASSUME unpack(chunk) # EmptyMsg
              PROVE  /\ unpack(chunk) = Parse(chunk)
                     /\ Bearers(chunk) = {} => unpack(chunk).nodes = <<>>
                     /\ \A k \in Bearers(chunk) : /\ Bearers(chunk) = {k}
                                                  /\ unpack(chunk).nodes = chunk[k].nodes
  OBVIOUS
<1>. DEFINE m == Parse(chunk)
<1>1. Parses(chunk) /\ Wellformed(m) /\ unpack(chunk) = m
  BY DEF unpack
<1>2. \A k \in 1 .. n : Part(chunk[k])
  BY <1>1, GarbledBody DEF Parses
<1>3. Gathered(m, chunk, n)
  BY <1>2, PartsGathered
<1>. HIDE DEF m
<1>4. ~Overfull(m)
  BY <1>1, <1>3, OverfullRefused DEF Gathered
<1>5. \A j, k \in Bearers(chunk) : j = k
  BY <1>3, <1>4 DEF Gathered, Bearers
<1>6. Bearers(chunk) = {} => m.nodes = <<>>
  BY <1>3 DEF Gathered, Bearers
<1>7. ASSUME NEW k \in Bearers(chunk) PROVE Bearers(chunk) = {k} /\ m.nodes = chunk[k].nodes
  <2>1. Bearers(chunk) = {k}
    BY <1>5
  <2>2. \A i \in 1 .. n : i # k => chunk[i].nodes = <<>>
    BY <2>1 DEF Bearers
  <2>3. k \in 1 .. n /\ chunk[k].nodes # <<>>
    BY DEF Bearers
  <2>. QED
    BY <1>3, <2>1, <2>2, <2>3 DEF Gathered
<1>. QED
  BY <1>1, <1>6, <1>7 DEF m

-----------------------------------------------------------------------------
(* Chunks of whole messages, of remains to skip and of cleared ones.       *)

\* What the first k messages of a chunk of listings, and of remains that are
\* skipped, are parsed as.
Parsed(m, chunk, k) ==
    /\ Partial(m) /\ m.text = 0
    /\ (\E j \in 1 .. k : chunk[j] # EmptyMsg)
            => m.head = MsgHead /\ m.type # "EMPTY" /\ m.body = "nodes"
    /\ (\A j \in 1 .. k : chunk[j] = EmptyMsg) => m.type = "EMPTY"
    /\ (\A j \in 1 .. k : chunk[j].nodes = <<>>) => m.length = 0
    /\ \A j \in 1 .. k :
          chunk[j].nodes # <<>> /\ (\A i \in 1 .. k : i # j => chunk[i].nodes = <<>>)
          => m.length = Len(chunk[j].nodes)

\* Nothing was parsed yet.
LEMMA ParsedNone == ASSUME NEW chunk PROVE Parsed(EmptyMsg, chunk, 0)
<1>1. 1 .. 0 = {}
  OBVIOUS
<1>2. /\ EmptyMsg.nodes = <<>> /\ EmptyMsg.length = 0 /\ EmptyMsg.text = 0
      /\ EmptyMsg.type = "EMPTY"
  BY DEF EmptyMsg
<1>. QED
  BY <1>1, <1>2 DEF Parsed, Partial

\* One message more.
LEMMA ParsedOneMore ==
    ASSUME NEW chunk, NEW k \in Nat, NEW m, Parsed(m, chunk, k),
           Listing(chunk[k + 1]) \/ chunk[k + 1] = EmptyMsg
    PROVE  Parsed(MergeFrom(m, chunk[k + 1]), chunk, k + 1)
<1>. DEFINE n == chunk[k + 1]
            r == MergeFrom(m, n)
<1>. SUFFICES Parsed(r, chunk, k + 1)
  OBVIOUS
<1>0. EmptyMsg.nodes = <<>>
  BY DEF EmptyMsg
<1>1. Partial(m) /\ m.text = 0
  BY DEF Parsed
<1>2. \A j \in 1 .. k + 1 : j \in 1 .. k \/ j = k + 1
  OBVIOUS
<1>3. 1 .. k \subseteq 1 .. k + 1 /\ k + 1 \in 1 .. k + 1 /\ k + 1 \notin 1 .. k
  OBVIOUS
<1>4. CASE n = EmptyMsg
  <2>1. /\ r.head = m.head /\ r.type = m.type /\ r.length = m.length
        /\ r.body = m.body /\ r.nodes = m.nodes /\ r.text = m.text
    BY <1>1, <1>4, MergeSkipped DEF Partial
  <2>2. n.nodes = <<>>
    BY <1>0, <1>4
  <2>. HIDE DEF r, n
  <2>. QED
    BY <1>1, <1>2, <1>3, <1>4, <2>1, <2>2 DEF Parsed, Partial, n
<1>5. CASE Listing(n)
  <2>1. /\ Partial(n) /\ n.type # "EMPTY" /\ n # EmptyMsg
    BY <1>5, ListingFacts, EmptyType
  <2>2. /\ Partial(r)
        /\ r.head = MsgHead /\ r.type = n.type /\ r.body = "nodes"
        /\ Len(n.nodes) = 0 => r.length = m.length
        /\ Len(n.nodes) # 0 => r.length = Len(n.nodes)
    <3>. HIDE DEF n
    <3>. QED
      BY <1>1, <1>5, MergeListing
  <2>3. r.text = 0
    BY <1>5, MergeListingText
  <2>4. n.nodes = <<>> <=> Len(n.nodes) = 0
    BY <2>1 DEF Partial
  <2>. HIDE DEF r, n
  <2>5. CASE n.nodes = <<>>
    BY <1>2, <1>3, <2>1, <2>2, <2>3, <2>4, <2>5 DEF Parsed, n
  <2>6. CASE n.nodes # <<>>
    BY <1>2, <1>3, <2>1, <2>2, <2>3, <2>4, <2>6 DEF Parsed, n
  <2>. QED
    BY <2>5, <2>6
<1>. QED
  BY <1>4, <1>5

\* So after all of them.
LEMMA ListingsParsed ==
    ASSUME NEW chunk, NEW n \in Nat, DOMAIN chunk = 1 .. n,
           \A k \in 1 .. n : Listing(chunk[k]) \/ chunk[k] = EmptyMsg
    PROVE  Parsed(Parse(chunk), chunk, n)
<1>1. PICK p : /\ p[0] = EmptyMsg
               /\ \A k \in 1 .. n : p[k] = MergeFrom(p[k - 1], chunk[k])
               /\ Parse(chunk) = p[n]
  BY ParsePartials
<1>. DEFINE S == {k \in 0 .. n : Parsed(p[k], chunk, k)}
<1>2. 0 \in S
  BY <1>1, ParsedNone
<1>3. ASSUME NEW k \in 0 .. n - 1, k \in S PROVE k + 1 \in S
  <2>1. k \in Nat /\ k + 1 \in 1 .. n /\ k + 1 \in 0 .. n /\ (k + 1) - 1 = k
    OBVIOUS
  <2>2. p[k + 1] = MergeFrom(p[k], chunk[k + 1])
    BY <1>1, <2>1
  <2>3. Parsed(MergeFrom(p[k], chunk[k + 1]), chunk, k + 1)
    BY <1>3, <2>1, ParsedOneMore
  <2>. QED
    BY <2>1, <2>2, <2>3
<1>4. \A k \in 0 .. n : k \in S
  <2>. HIDE DEF S
  <2>. QED
    BY <1>2, <1>3, Merging!UpTo
<1>. QED
  BY <1>1, <1>4

\* However many of the server's messages the stream joined, and whatever it left
\* of a list before them: unpack refuses the chunk exactly when bytes in it do
\* not parse, when two messages carry contacts, or when all is skipped.
THEOREM UnpackListings ==
    ASSUME NEW chunk, NEW n \in Nat, DOMAIN chunk = 1 .. n,
           \A k \in 1 .. n : Listing(chunk[k]) \/ chunk[k] \in {Garbled, EmptyMsg}
    PROVE  unpack(chunk) = EmptyMsg
                  <=> \/ \E k \in 1 .. n : chunk[k] = Garbled
                      \/ \E j, k \in Bearers(chunk) : j # k
                      \/ \A k \in 1 .. n : chunk[k] = EmptyMsg
<1>. DEFINE m == Parse(chunk)
<1>1. CASE \E k \in 1 .. n : chunk[k] = Garbled
  <2>1. ~Parses(chunk)
    BY <1>1, GarbledBody DEF Parses
  <2>. QED
    BY <1>1, <2>1 DEF unpack
<1>2. CASE \A k \in 1 .. n : chunk[k] # Garbled
  <2>1. \A k \in 1 .. n : Listing(chunk[k]) \/ chunk[k] = EmptyMsg
    BY <1>2
  <2>2. Parses(chunk)
    <3>1. EmptyMsg.body # "garbled"
      BY DEF EmptyMsg
    <3>. QED
      BY <2>1, <3>1, ListingFacts DEF Parses
  <2>3. Parsed(m, chunk, n)
    BY <2>1, ListingsParsed
  <2>4. \A k \in 1 .. n : Part(chunk[k])
    BY <2>1, ListingIsPart
  <2>5. Gathered(m, chunk, n)
    BY <2>4, PartsGathered
  <2>. HIDE DEF m
  <2>6. unpack(chunk) = IF Wellformed(m) THEN m ELSE EmptyMsg
    BY <2>2 DEF unpack, m
  <2>7. CASE \E j, k \in Bearers(chunk) : j # k
    <3>1. Overfull(m) /\ Partial(m)
      BY <2>5, <2>7 DEF Gathered, Bearers
    <3>. QED
      BY <2>6, <2>7, <3>1, OverfullRefused
  <2>8. CASE \A k \in 1 .. n : chunk[k] = EmptyMsg
    <3>1. m.type = "EMPTY"
      BY <2>3, <2>8 DEF Parsed
    <3>. QED
      BY <2>6, <2>8, <3>1 DEF Wellformed
  <2>9. CASE (\A j, k \in Bearers(chunk) : j = k) /\ (\E k \in 1 .. n : chunk[k] # EmptyMsg)
    <3>1. m.head = MsgHead /\ m.type # "EMPTY" /\ m.body = "nodes"
      BY <2>3, <2>9 DEF Parsed
    <3>2. m.length = Len(m.nodes)
      <4>1. CASE Bearers(chunk) = {}
        <5>1. m.nodes = <<>> /\ m.length = 0
          BY <2>3, <2>5, <4>1 DEF Parsed, Gathered, Bearers
        <5>. QED
          BY <5>1
      <4>2. ASSUME NEW k \in Bearers(chunk) PROVE m.length = Len(m.nodes)
        <5>1. k \in 1 .. n /\ chunk[k].nodes # <<>>
          BY DEF Bearers
        <5>2. \A i \in 1 .. n : i # k => chunk[i].nodes = <<>>
          BY <2>9 DEF Bearers
        <5>. QED
          BY <2>3, <2>5, <5>1, <5>2 DEF Parsed, Gathered
      <4>. QED
        BY <4>1, <4>2
    <3>3. Wellformed(m)
      BY <3>1, <3>2 DEF Wellformed, BodyLength
    <3>4. m # EmptyMsg
      BY <3>1, EmptyType
    <3>. QED
      BY <1>2, <2>6, <2>9, <3>3, <3>4
  <2>. QED
    BY <2>7, <2>8, <2>9
<1>. QED
  BY <1>1, <1>2

-----------------------------------------------------------------------------
(* Texts of a peer.                                                        *)

Hello(n) == \E version, self : \E t \in Nat : n = packText(version, self, t)

\* What packText fills in.
LEMMA HelloFacts ==
    ASSUME NEW n, Hello(n)
    PROVE  /\ n.head = MsgHead /\ n.type = "REP" /\ n.sub = "DATA" /\ n.body = "text"
           /\ n.nodes = <<>> /\ n.text \in Nat /\ n.length = n.text
  BY DEF Hello, packText

\* Every text read replaces the one before, but an empty one brings no length.
LEMMA MergeHello ==
    ASSUME NEW m, NEW n, Hello(n)
    PROVE  LET r == MergeFrom(m, n)
           IN  /\ r.head = MsgHead /\ r.type = "REP" /\ r.sub = "DATA" /\ r.body = "text"
               /\ r.nodes = <<>> /\ r.text = n.text
               /\ r.length = IF n.text = 0 THEN m.length ELSE n.text
<1>1. /\ n.head = MsgHead /\ n.type = "REP" /\ n.sub = "DATA" /\ n.body = "text"
      /\ n.nodes = <<>> /\ n.text \in Nat /\ n.length = n.text
  BY HelloFacts
<1>2. /\ Over(m.head, n.head, 0) = MsgHead /\ Over(m.type, n.type, "EMPTY") = "REP"
      /\ Over(m.sub, n.sub, "EMPTY_SUB") = "DATA" /\ Over(m.body, n.body, "none") = "text"
      /\ Over(m.length, n.length, 0) = IF n.text = 0 THEN m.length ELSE n.text
  BY <1>1 DEF Over, MsgHead
<1>. QED
  BY <1>1, <1>2 DEF MergeFrom

\* A text that is read alone is the message that was packed, and is accepted.
THEOREM HelloAlone ==
    ASSUME NEW n, Hello(n)
    PROVE  MergeFrom(EmptyMsg, n) = n /\ Wellformed(n)
<1>1. PICK version, self : \E t \in Nat : n = packText(version, self, t)
  BY DEF Hello
<1>2. PICK t \in Nat : n = packText(version, self, t)
  BY <1>1
<1>3. n = [head |-> MsgHead, version |-> version, src |-> self, type |-> "REP",
           sub |-> "DATA", length |-> t, body |-> "text", nodes |-> <<>>, text |-> t]
  BY <1>2 DEF packText
<1>4. Wellformed(n)
  BY <1>3 DEF Wellformed, BodyLength
<1>5. /\ Over(EmptyMsg.head, n.head, 0) = n.head
      /\ Over(EmptyMsg.version, n.version, "") = n.version
      /\ Over(EmptyMsg.src, n.src, "") = n.src
      /\ Over(EmptyMsg.type, n.type, "EMPTY") = n.type
      /\ Over(EmptyMsg.sub, n.sub, "EMPTY_SUB") = n.sub
      /\ Over(EmptyMsg.length, n.length, 0) = n.length
      /\ Over(EmptyMsg.body, n.body, "none") = n.body
  BY DEF EmptyMsg, Over
<1>. QED
  BY <1>3, <1>4, <1>5 DEF MergeFrom

\* What the first k of a chunk of texts are parsed as.
Heard(m, chunk, k) ==
    /\ m.nodes = <<>> /\ m.length \in Nat
    /\ k # 0 => /\ m.head = MsgHead /\ m.type = "REP" /\ m.sub = "DATA" /\ m.body = "text"
                /\ m.text = chunk[k].text
                /\ chunk[k].text # 0 => m.length = chunk[k].text
    /\ m.length = 0 <=> \A j \in 1 .. k : chunk[j].text = 0

\* No text was parsed yet.
LEMMA HeardNone == ASSUME NEW chunk PROVE Heard(EmptyMsg, chunk, 0)
<1>1. 1 .. 0 = {}
  OBVIOUS
<1>2. EmptyMsg.nodes = <<>> /\ EmptyMsg.length = 0
  BY DEF EmptyMsg
<1>. QED
  BY <1>1, <1>2 DEF Heard

\* One text more.
LEMMA HeardOneMore ==
    ASSUME NEW chunk, NEW k \in Nat, NEW m, Heard(m, chunk, k), Hello(chunk[k + 1])
    PROVE  Heard(MergeFrom(m, chunk[k + 1]), chunk, k + 1)
<1>. DEFINE n == chunk[k + 1]
            r == MergeFrom(m, n)
<1>. SUFFICES Heard(r, chunk, k + 1)
  OBVIOUS
<1>1. /\ r.head = MsgHead /\ r.type = "REP" /\ r.sub = "DATA" /\ r.body = "text"
      /\ r.nodes = <<>> /\ r.text = n.text
      /\ r.length = IF n.text = 0 THEN m.length ELSE n.text
  BY MergeHello
<1>2. n.text \in Nat
  BY HelloFacts
<1>3. \A j \in 1 .. k + 1 : j \in 1 .. k \/ j = k + 1
  OBVIOUS
<1>4. 1 .. k \subseteq 1 .. k + 1 /\ k + 1 \in 1 .. k + 1 /\ k + 1 # 0
  OBVIOUS
<1>. HIDE DEF r
<1>. QED
  BY <1>1, <1>2, <1>3, <1>4 DEF Heard

\* So after all of them.
LEMMA HellosHeard ==
    ASSUME NEW chunk, NEW n \in Nat, DOMAIN chunk = 1 .. n,
           \A k \in 1 .. n : Hello(chunk[k])
    PROVE  Heard(Parse(chunk), chunk, n)
<1>1. PICK p : /\ p[0] = EmptyMsg
               /\ \A k \in 1 .. n : p[k] = MergeFrom(p[k - 1], chunk[k])
               /\ Parse(chunk) = p[n]
  BY ParsePartials
<1>. DEFINE S == {k \in 0 .. n : Heard(p[k], chunk, k)}
<1>2. 0 \in S
  BY <1>1, HeardNone
<1>3. ASSUME NEW k \in 0 .. n - 1, k \in S PROVE k + 1 \in S
  <2>1. k \in Nat /\ k + 1 \in 1 .. n /\ k + 1 \in 0 .. n /\ (k + 1) - 1 = k
    OBVIOUS
  <2>2. p[k + 1] = MergeFrom(p[k], chunk[k + 1])
    BY <1>1, <2>1
  <2>3. Heard(MergeFrom(p[k], chunk[k + 1]), chunk, k + 1)
    BY <1>3, <2>1, HeardOneMore
  <2>. QED
    BY <2>1, <2>2, <2>3
<1>4. \A k \in 0 .. n : k \in S
  <2>. HIDE DEF S
  <2>. QED
    BY <1>2, <1>3, Merging!UpTo
<1>. QED
  BY <1>1, <1>4

\* Of texts that the stream joined only the last one is heard, and none when the
\* last is empty and another is not: unpack refuses those.  Never does handleMsg
\* find contacts in them.
THEOREM UnpackHellos ==
    ASSUME NEW chunk, NEW n \in Nat \ {0}, DOMAIN chunk = 1 .. n,
           \A k \in 1 .. n : Hello(chunk[k]) \/ chunk[k] = Garbled
    PROVE  /\ unpack(chunk) = EmptyMsg
                  <=> \/ \E k \in 1 .. n : chunk[k] = Garbled
                      \/ chunk[n].text = 0 /\ \E k \in 1 .. n : chunk[k].text # 0
           /\ unpack(chunk) # EmptyMsg => unpack(chunk).text = chunk[n].text
           /\ unpack(chunk).nodes = <<>> /\ unpack(chunk).body # "nodes"
           /\ Contacts(unpack(chunk)) = {}
<1>. DEFINE m == Parse(chunk)
<1>1. n \in 1 .. n /\ n # 0 /\ n \in Nat
  OBVIOUS
<1>2. /\ EmptyMsg.nodes = <<>> /\ EmptyMsg.body = "none"
      /\ EmptyMsg.type = "EMPTY" /\ EmptyMsg.sub = "EMPTY_SUB"
  BY DEF EmptyMsg
<1>3. Contacts(EmptyMsg) = {}
  BY <1>2 DEF Contacts
<1>4. CASE \E k \in 1 .. n : chunk[k] = Garbled
  <2>1. ~Parses(chunk)
    BY <1>4, GarbledBody DEF Parses
  <2>. QED
    BY <1>2, <1>3, <1>4, <2>1 DEF unpack
<1>5. CASE \A k \in 1 .. n : chunk[k] # Garbled
  <2>1. \A k \in 1 .. n : Hello(chunk[k])
    BY <1>5
  <2>2. Parses(chunk)
    BY <2>1, HelloFacts DEF Parses
  <2>3. Heard(m, chunk, n)
    BY <1>1, <2>1, HellosHeard
  <2>4. /\ m.head = MsgHead /\ m.type = "REP" /\ m.sub = "DATA" /\ m.body = "text"
        /\ m.nodes = <<>> /\ m.text = chunk[n].text
    BY <1>1, <2>3 DEF Heard
  <2>5. m # EmptyMsg /\ Contacts(m) = {}
    BY <1>2, <2>4 DEF Contacts
  <2>. HIDE DEF m
  <2>6. Wellformed(m) <=> m.length = chunk[n].text
    BY <2>4 DEF Wellformed, BodyLength
  <2>7. m.length = chunk[n].text
            <=> ~(chunk[n].text = 0 /\ \E k \in 1 .. n : chunk[k].text # 0)
    BY <1>1, <2>3 DEF Heard
  <2>8. unpack(chunk) = IF Wellformed(m) THEN m ELSE EmptyMsg
    BY <2>2 DEF unpack, m
  <2>. QED
    BY <1>2, <1>3, <1>5, <2>4, <2>5, <2>6, <2>7, <2>8
<1>. QED
  BY <1>4, <1>5
=============================================================================
