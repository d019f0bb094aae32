# A TLA+ model of ebc_node

`ebc_node` is a peer-to-peer node over UDT. A *server* accepts nodes, remembers
their public addresses and tells them of each other; a *node* connects to the
server, asks for other nodes, and punches a hole through its NAT towards every
node it is told of (a UDT rendezvous connection). All of it is one class,
`NetEngine` (`src/src/netengine.cpp`), around two epoll loops.

This directory holds TLA+ models of that code, TLC configurations that check
them on small instances, and TLAPS proofs of the main safety properties for
every value of the constants. `PROJECT.json` lists the components, the runs,
the lines each definition models, the hazards and the theorems.

## 1. Inventory

| component | code | state | operations | correct when |
|---|---|---|---|---|
| server thread | `startServer` (netengine.cpp 26-141), GET_NODE branch of `handleMsg` (457-502), `addClientNode`, `delClientNode` | `clientNode`, `sockIdPair`, the epoll, the sockets | epoll round, accept, drop a broken client, handle a GET_NODE | clients that are registered and connected know each other; the two tables agree; no socket or pair is left behind |
| boot thread | `startClient` (143-342), REP and PUNCH branches of `handleMsg` (503-539), `startPunch`, `addPeerNode`, `delPeerNode`, `findPeerNode`, `updatePeerNode` | `peerNode`, `sockIdPair`, `boot_sock`, the epoll, the shared `state` | epoll round, connect and reconnect, ask the server, punch, drop a failed peer | no socket leaks; the table holds usable sockets; one GET_NODE per connection; failures are handled in the end |
| message codec | `msgPack::pack`, `unpack` (msgpack.cpp), generated `msg.pb.cc` | one message | pack, compute sizes, write, parse, validate | what is packed is accepted unchanged; what is accepted was packed; the size that is sent is the size written |
| message stream | `UDT::send`, `UDT::recv` on `SOCK_STREAM` sockets (441, 487, 499, 287, 386) | bytes in flight | send, recv of any part | no message is taken for another |
| contact relay | `comPortNat`, `parPort`, `parNat` (utils.h 15-17), `SockAddr::setPort`/`getPort` | the `port_nat` word | pack at the node, unpack and pack again at the server, unpack at the peer | the peer punches at the port the server saw |
| hello thread | `sendHello` (370-393) | an iterator over `peerNode`, a copied socket | every 5 s, send a text to each peer | a hello that arrives goes to the peer it names |
| engine life cycle | constructor, destructor (7-24), `main.cpp` | thread flags, detached threads | construct, start, destroy | the threads that are joined are done with the engine, those that are detached stop soon, the process ends |
| Node, SockAddr | `node.h`, `node.cpp`, `sockaddr.h` | one node, one owned address | setters, copies, moves, id conversions | the port keeps its byte order; the rest is sequential code without a caller at its edges |
| command thread and main | `main.cpp`, `printNodesInfo` (344-368) | an iterator over `peerNode` | read a character, print, join, return | prints only while the engine lives |
| printing, `resolve`, `bucket`, `ebcCryptoLib.h` | `utils.cpp`, ... | none | output | - |
| UDT, protobuf | binary libraries | - | - | external |

How they interact: the server and the nodes exchange messages over UDT streams
only. Inside a process the boot thread, the hello thread and the command thread
share `peerNode` without a lock. The libraries are called
synchronously; sockets are non-blocking, and their states change between any
two calls.

What is hard here: the interleaving of joins, notifications, losses and
reconnections; sockets that fail between the check of their state and their
use; several sockets for one node id in maps that keep one entry per id; a
stream that does not keep message boundaries, and a parser that takes any bytes
that happen to be fields; a map that is walked by three threads while a fourth
changes it; detached threads that outlive the engine; 16-bit ports shifted into
signed 32-bit words. `PROJECT.json`, `hazards`, has each at its line.

## 2. Modules

| module | models | notes |
|---|---|---|
| `Contact` | the relay of one contact, with its word bit by bit | a word is the signed number with the same 32 bits, because the macro computes in `int` |
| `EbcMsg` | messages, `pack`, merge-on-parse, `unpack`, what `recv` may return of a queue of messages | operators only; used by `Wire`, `Client` and `EbcNet` |
| `Wire` | the generated codec: sizes, writing and reading, field by field | operators only; checked against `EbcMsg` in `MsgStream` |
| `MsgStream` | one stream from a server or a peer to a reader | chunks join messages and cut them |
| `Rendezvous` | the abstract promise of the server: who is online has been introduced to all who are | implemented by `Server` |
| `Server` | the server thread, its clients and the network | one action per turn of a loop |
| `Client` | the boot thread, the server as it sees it, its peers | one action per turn of a loop |
| `EbcNet` | `Server` together with the nodes that talk to it | extends `Server`; the nodes read what was really sent |
| `Engine` | `main`, the command thread, the hello thread and the boot thread on one `peerNode` | changes of the map take time |
| `ContactProofs`, `EbcMsgProofs`, `MsgStreamProofs`, `ServerProofs`, `EbcNetProofs`, `ClientProofs`, `EngineProofs` | theorems | extend the module they are about; those of `Rendezvous` are in `ServerProofs`, those of `Wire` in `MsgStreamProofs` |
| `FoldProofs` | what folding a sequence computes, for any operation | the induction the codec proofs rest on |
| `MC...` | constants for TLC | |

How they compose. `Server` assumes of its clients that each asks once on a
connection; `Client` assumes of its server that an answer comes first and
notifications follow. `EbcNet` puts both together: its nodes connect, ask, lose
connections and come back as the boot thread does, take from a connection what
the server of `Server` put there, joined and cut as `recv` returns it, and act on
what `unpack` accepts. `Server` implements `Rendezvous` under the mapping `OnlineConn`,
`KnownOn` (a node is online while it is registered and its connection stands; a
connection knows the contacts that were sent on it). `Engine` looks at the same
boot thread from the other side: of the turns of `Client` only the changes of
`peerNode` are left, each of them now with a beginning and an end, and the
other threads step in between.

Correspondence to the code, beyond the `map` of `PROJECT.json`:

* **Loops.** `epoll_wait` fills sets of sockets; the code then walks each set.
  `EpollWait` fills the same sets (`errfds`, `writefds`, `readfds`), each turn
  of a walk is one action that takes one socket out, in any order (a
  `std::set` of socket numbers has an order, but numbers are arbitrary), and
  `LoopDone`, `ErrorsHandled`, `ReadsHandled` move on when a set is empty. The
  network may act between any two turns, so what a set says is stale by the
  time it is used. In the server a turn is split once more: `CheckReadable`
  reads the state of a socket, `HandleGetNode` or `HandleNothing` runs
  `handleMsg` on it, and the connection may break in between.
* **Maps.** `clientNode` and `peerNode` are functions over all ids with an
  absent entry; `insert` keeps an entry that is there, `operator[]` replaces
  or makes one. `sockIdPair[sock]` in an expression makes an entry of zeroes
  (`ZeroId`) for a socket that is not there.
* **Uninitialised data.** `Garbage` is the address that `getpeername` did not
  fill, and the `sock` of a default-constructed `Node`.
* **State reads.** `StateOf` is the boot thread's `getsockopt`, whose `state`
  variable lives outside the loops and keeps its value when the call fails.
  The server declares its `state` inside the loop, as zero.
* **Addresses.** Every connection has an address of its own, so `Server` names
  an address by its socket.
* **Failing calls.** A send on a lost connection is dropped. `socket`, `bind`
  and `connect` may fail for each punch (left out of `Punches`) and for the
  boot socket (`StartClient`, `ReconnectFails`). `bind` and `listen` may fail
  (`StartServer`), `epoll_wait` may return an error (`EpollFails`), `accept`
  may find nothing.
* **What `recv` returns.** A stream socket returns any non-empty beginning of what
  has arrived, and `handleMsg` gives it to `unpack` as one message. `Recvs` in
  `EbcMsg` is all that one call may return of a queue of messages, and what it
  leaves, for `MsgStream`, `Client` and `EbcNet` alike. A message may be cut when
  it is larger than a packet, or when it lies behind a larger one or behind more
  messages than fit the buffer of 6 KiB together (`FitMsgs`). `Cuts` gives the two
  pieces. Between two fields, the first piece has the fields before the cut
  (`First`), the second those after it (`Rest`): a PUNCH that is cut before its
  length, for one, has equal length and contents, none, and `unpack` accepts it.
  Inside a field, the first piece does not parse; the second may start with bytes
  that do not parse either, or with bytes that the parser skips like fields it
  does not know, so that it is a `Rest` again. What is left of a list of contacts,
  if it begins at a contact or at a field of one, is all unknown fields (a contact
  has the tag of the field `head` with another type): it reads as nothing,
  `EmptyMsg`, and the PUNCH behind it is accepted. `CutsAgree` checks these pieces
  against the codec of `Wire`.
* **What a node has read.** In `EbcNet`, `rest` is what a cut left on a
  connection; `seen` counts the messages read to their end. `missed` collects the
  contacts of messages that were lost: the last when it is cut, all that `unpack`
  refuses together, and the one whose beginning was read before.
* **Unlocked walks.** `for(auto it : peerNode)` is `Begin`, then one `MoveTo` per
  element and, in `sendHello`, a copy of the `Element` it leads to. A step while a
  change is under way, or after the map was destroyed, is undefined, and so is
  every step of a walk after one that was, or after the element under its iterator
  was erased (`torn`). An undefined step may lead to the end or anywhere else
  (`Nowhere`, again and again: peers are revisited or skipped, or the walk never
  ends), copies anything (`Garbage`, which names any socket or none), and may end
  the process (`Crash`). Copying the element field by field while a change begins
  is such a step taken during the change. A change that falls between two steps of
  a walk is seen whole.
* **End of the engine.** `JoinCmd` is `cmd.join()`, `return` and the first
  statement of the destructor; `CloseNext` its loop; `Destroy` the end of the
  members; `Return` the end of the process, which the detached threads may beat
  or not. `boot_thread_flag` has any value when `startClient` returns early.
* **Sizes.** In `EbcMsg` byte sizes are counts: `BufNodes` contacts fit the 6 KiB
  buffer a reply is packed into, `PacketNodes` fit one packet. `unpack` compares
  sizes only for equality, and `Wire` has them in bytes.
* **UDT.** States go UNUSED, CONNECTING, CONNECTED or FAILED, BROKEN, CLOSED.
  A FAILED connect raises an error event while the state still reads
  CONNECTING: the three tests for CONNECTING in the code are for this. The
  library may or may not report a failed socket as readable and writable too;
  both are modelled. A socket number is not used twice (UDT counts them down).

## 3. Runs

| run | question | instance | states |
|---|---|---|---|
| `contact` | does a port survive two relays? | 8 ports: 0, the default 9444, and both sides of the byte and sign-bit boundaries; 4 NAT classes | 224 |
| `msg_stream` | what does `unpack` make of what `recv` returns, and does the byte codec agree? | 3 contacts, 3 texts, 2 versions, 3 messages, buffer of 2 contacts, packet of 1, one message fits the buffer | 49 k |
| `server` | introductions, tables, sockets; does the server implement `Rendezvous`? | 3 ids, 3 sockets, symmetry, `epoll_wait` may fail | 69 k |
| `client` | sockets, peers, the server connection | 2 ids, 2 sockets, 2 messages per connection, 1 reconnection, packet of 1 contact, one message fits the buffer | 2.7 M |
| `client_live` | is every failed punch closed, every connection asked, the one made again too? | 2 ids, 2 sockets, 1 message per connection, 1 reconnection | 305 k |
| `ebc_net` | do nodes punch at the right connections, and at all? | 3 ids, 3 sockets, symmetry, `epoll_wait` may fail, packet of 1 contact | 2.2 M |
| `ebc_net_live` | do nodes meet, is every loss and every request handled? | 2 ids, 2 sockets, no symmetry | 48 k |
| `engine` | what do unlocked walks and detached threads do? | 2 peers, 2 sockets, all four threads, fairness | 1.8 M |

Four more runs expect a violation: `msg_stream_introduced`, `msg_stream_version`,
`server_reconnect`, `client_socket` (below).

Why the bounds are enough to be interesting. A stream of three messages lets a
chunk join an empty answer and two notifications, or what is left of a list and
two notifications; three contacts make an answer that is empty, single, larger
than a packet, larger than the buffer. The real buffer holds some eighty messages
of one contact and a packet some forty contacts; `FitMsgs` and `PacketNodes` scale
this down, so that short streams have the cuts of long ones. With `FitMsgs = 1`
any message behind another may be cut (`msg_stream`, `client`); in `ebc_net` and
`ebc_net_live` it is 4, more than is ever queued there, so that only lists of two
contacts, and what follows them, are cut - with more cuts the run does not end in
time. With two nodes (`ebc_net_live`) no answer has two contacts and nothing is
cut; messages are joined and refused. Three sockets and three ids in `Server`
cover three nodes that join in any order (an answer with two contacts, a GET_NODE
that notifies two) and also a node with two connections next to another node.
(Three ids with four sockets, 2.2 million states, holds as well; it takes minutes,
so it is not among the runs.) In `Client` one id told of twice has two sockets,
two ids have one each; the bounds are `MaxMsgs` and `MaxReconnects`, in the guards
of `ServerSends` and `HandleLostBoot`. `asked`, `sent` and `wire` are bounded by
them. `MaxSent` bounds `MsgStream`. The contacts of `MsgStream` have default
fields and fields at both sides of the boundaries where a varint takes one byte
more, so that contacts, and lists of them, differ in size. `EbcNet` is bounded by
its sockets, as every connection uses one: three nodes that join, or a node that
comes back next to another. In `Engine` one peer with two sockets can be erased
and come back under a walk, and two peers make a walk of several steps; sockets
are used once, which bounds the changes of the map. Deadlock is not checked:
threads exit, nodes have nothing left to send, and sockets run out.

### Properties

`Server`: `MutualIntroduction` - of any two registered clients with standing
connections each has been sent the other's current contact - is what the server
is for. It spans several handlers and all interleavings: the second GET_NODE
must both notify the first node and answer with it, and a node that came back
must be introduced anew. `AnswerFirst` fixes the order of the three steps of the
handler. `RegistrationIndexed`, `NoStaleSocket` and `RegistrationKept` relate
`clientNode`, `sockIdPair`, the epoll and the sockets; `LiveAddressReal` says
that the unfilled address of a failed `getpeername` is never kept for a
connection that stands. `ImplementsRendezvous` is the same promise seen from
outside: no step of the server does anything but let a node in that is
introduced at once, in both directions, lose one, or refer somebody to others.

`EbcNet`: `PunchesReal` - a node punches only towards a connection that the named
node really opened, or the address that was never filled in, and never towards the
one it holds - and `BothPunched`, the end-to-end promise: two nodes that hold the
connections they are registered on and have read what was sent have punched
towards each other, unless the message that named the other was lost: `recv` cut
it, or returned it with one that was cut or has contacts too. The exception is as
narrow as the code allows: an answer without contacts or what is left of a list,
read together with a notification, loses nothing. `BrokenDropped`, `NodesMeet` and
`AnswerRead` are liveness.

`Engine`: `HelloToNamedPeer` (the copied socket may be closed by the time it is
used, but never leads to another peer, though peers leave and come back under the
walk), `PrintsInLife`, `LateRoundOnce`; `QuitExits` is liveness. The first excuses
a copy made by an undefined step and the last a destructor whose own walk met a
change: of those the code promises nothing. That a walk visits every peer is not a
property here: where no change meets it, it is a property of `std::map`, and where
one does, it does not hold.

`Client`: `OpenSocketTracked` (no leak), `PeerSocketUsable` (the table holds
open sockets recorded for that very peer, or the uninitialised one discussed
below), `AskedOnce`, `PeersKept`; `FailedPeerClosed` and `ServerAsked` are
liveness.

`MsgStream`: `AcceptedIsOneMessage`, `AloneIsAccepted`, `RejectedExactly`: the
length field is what stands between the reader and contacts merged under another's
name. The last two speak of messages of the reader's version, as `msg.proto` wants any
other refused. `CodecAgrees`, `CutsAgree` and `SizeExact` show that the generated
code, field by field and byte by byte, is what `EbcMsg` says, of joined messages
and of pieces. `Contact`: `PunchReachesNode`, `ReservedBitsClear`.

### Fairness

Weak fairness of the program's own threads and of nothing else. A thread is an
operating system thread in a loop with no lock and no blocking call but
`epoll_wait` with a timeout or a sleep. Nothing is assumed of the network: a
connection need not break, a connect need not end, the server need not send.
Thus the liveness properties speak of events that happened (a socket failed, a
request arrived) and except the end of the thread, which the code allows.

* `Client`: `WF_vars(Thread)`.
* `EbcNet`: the server thread, and for each node the steps of its boot thread
  that need nobody else (`NodeAsks`, `NodeReads`); a node need not connect.
  `ebc_net_live` runs with `EpollMayFail = FALSE`, as an `epoll_wait` that returns
  an error ends the thread.
* `Engine`: main, the printing of the command thread, the hello thread and the
  boot thread's own steps; of none of them once a walk of its own was torn, as it
  may loop for ever. `QuitExits` thus says that main does not wait for the
  detached threads. The user need not type: `ReadCmd` has no fairness, and
  `QuitExits` begins with the q. Nor need a punch be made or a socket fail.

### Where the code departs from its own words

Four runs expect a violation; each checks what a comment or `msg.proto` says.

* `msg_stream_introduced`: two messages read by one `recv` are parsed as one and
  dropped together; the nodes in them are never introduced to the reader.
* `msg_stream_version`: `msg.proto` says that the version tells versions apart and
  must be verified; `unpack` never reads it and accepts any.
* `server_reconnect`: a node that comes back before its old connection is
  dropped keeps the old entry and loses it with the old connection.
* `client_socket`: a node told of twice has two sockets, the failure of one
  removes the peer, and the connection of the other enters the peer again, with
  an uninitialised socket.

Noted while modelling and not run: `comPortNat` loses the NAT class, as
`(nat)&(0xf)<<(12)` is `nat & 0xf000` and `msg.proto` wants four bits of NAT there
(`NatBits` in `Contact` says so; nothing acts on the class, it is only relayed and
printed); the failure of one of two sockets of a peer removes it from `peerNode`
while the other is connected (`netengine.cpp` 740; the first half of
`client_socket`); the error loop of the boot thread says "re-connecting" and only
takes the server's socket off the epoll (219-230, where a TODO says so); a node
that reconnects may be listed to itself under its old connection; the end of the
input makes the command thread spin; a PUNCH that is cut before its length is
accepted and its contact read past the end of an empty list (531); `setPort` is
documented for host order and always given network order, so `getPort` of a stored
address is byte-swapped; an answer larger than its buffer is sent as zeroes; the
zero id may enter `peerNode` through `sockIdPair[sock]`; the address of a failed
`getpeername` is sent to all clients.

## 4. Proofs

`tlapm` proves, with no unproved leaf:

| theorem | says | assumes |
|---|---|---|
| `ContactProofs!PortReachesPeer` | `[]PunchReachesNode` | ports are 16-bit, NAT classes 0..3 |
| `ContactProofs!ReservedStayClear` | `[]ReservedBitsClear` | the same |
| `ContactProofs!RelayTypes` | `[]TypeOK` | the same |
| `ServerProofs!TypeCorrect` | `[]TypeOK` | `ServerAssumption` |
| `ServerProofs!TablesAgree` | `[]RegistrationIndexed` | |
| `ServerProofs!NoClosedSocketKept` | `[]NoStaleSocket` | |
| `ServerProofs!RegistrationsKept` | `RegistrationKept` | |
| `ServerProofs!LiveAddressesReal` | `[]LiveAddressReal` | |
| `ServerProofs!AnswersComeFirst` | `[]AnswerFirst` | |
| `ServerProofs!ClientsIntroduced` | `[]MutualIntroduction` | finitely many ids, whose contacts fit one answer (`Cardinality(Ids) <= BufNodes`) |
| `ServerProofs!ServerIsRendezvous` | `ImplementsRendezvous` | the same |
| `ServerProofs!AllIntroduced` | `Rendezvous!Spec => []Introduced` | `NoConn` is no connection |
| `EbcMsgProofs!AloneAccepted` | a message of contacts read alone is accepted as packed | |
| `EbcMsgProofs!JoinedRefused`, `RefusedForGood` | contacts of two messages are never accepted, whatever follows | |
| `EbcMsgProofs!EmptyAnswerHarmless` | an empty answer joined with a notification is accepted as the notification | |
| `EbcMsgProofs!UnpackParts` | of messages and pieces, cut anywhere, contacts of two are never accepted together | |
| `EbcMsgProofs!UnpackListings` | which chunks of the server's messages and of what is left of lists are refused | |
| `EbcMsgProofs!HelloAlone`, `UnpackHellos` | the same of the texts of peers | |
| `MsgStreamProofs!StreamTypes` | `[]TypeOK` | `MsgStreamAssumption` |
| `MsgStreamProofs!NeverMixed` | `[]AcceptedIsOneMessage` | |
| `MsgStreamProofs!AloneAsPacked` | `[]AloneIsAccepted` | |
| `MsgStreamProofs!RefusedOnlyThen` | `[]RejectedExactly` | |
| `MsgStreamProofs!SizesAreBytes` | `[]SizeExact` | |
| `MsgStreamProofs!CodecIsMerging` | `[]CodecAgrees` | |
| `EbcNetProofs!NetRunsServer` | `NetSpec => Spec` of `Server` | |
| `EbcNetProofs!NodeTypes` | `[]NodeTypeOK` | |
| `EbcNetProofs!PunchesAreReal` | `[]PunchesReal` | |
| `EbcNetProofs!NodesPunch` | `[]BothPunched` | as `ClientsIntroduced` |
| `EngineProofs!EngineTypes` | `[]TypeOK` | `EngineAssumption` |
| `EngineProofs!HellosNamed` | `[]HelloToNamedPeer` | |
| `EngineProofs!PrintsSafe` | `[]PrintsInLife` | |
| `EngineProofs!OneLateRound` | `[]LateRoundOnce` | |
| `ClientProofs!ThreadTypes` | `[]TypeOK` | `ClientAssumption` |
| `ClientProofs!ServerAskedOnce` | `[]AskedOnce` | |
| `ClientProofs!SocketsTracked` | `[]OpenSocketTracked` | |
| `ClientProofs!PeersUsable` | `[]PeerSocketUsable` | |
| `ClientProofs!PeersStay` | `PeersKept` | |

`ServerAssumption`, `ClientAssumption` and `EngineAssumption` only say that the
special values (`NoId`, `Garbage`, ...) are none of the ids or sockets. The last
assumption of `ClientsIntroduced` is needed: a larger answer is sent as zeroes,
and the node that asked learns of nobody. `MsgStreamAssumption` says that ids and
the lengths of texts are numbers (the order of the numbers stands for that of the
keys of the `std::map` an answer is made from) and that the fields of a contact
have the types `msg.proto` gives them.

*Server.* `ConnInv` adds to the types that a used socket has an owner and that a
socket in `watched`, `readfds` or `cur` was accepted. `TablesInv` is
`RegistrationIndexed`, `NoStaleSocket` and one more fact: a recorded socket has
had its request read, and is recorded for its owner. Without it the tables are not
inductive, since the GET_NODE on `cur` could replace the pair of another client.
`WiresInv` is `AnswerFirst` with what carries it through a step: nothing was sent
on a socket before its request was read, a socket whose request was read was
accepted, and a connected client whose request was read has its answer.
`MutualIntroduction` is inductive given these: only `HandleGetNode` registers
anyone, either the new client is `i` and the answer holds `j`, or it is `j` and
`i` was in `clientNode` and is sent the PUNCH.

*Rendezvous.* The refinement takes the invariants of the server as they are. Only
two handlers change who is online: a GET_NODE lets at most its own node in
(`OnlineFacts`, `GetNodeStep`: the answer and the notifications it appends are the
two introductions of `Join`), and a broken or dropped connection takes at most
its own out (`OneLeaves`). All other steps leave who is online and what was sent
alone (`QuietSteps`).

*EbcNet.* Every step of the network is a step of `Server` or leaves its variables
alone (`NetRunsServer`), so that the theorems about the server hold there. What
is added says where knowledge comes from: every contact in a message, in a table
or in `punched` is the unfilled address or a connection its node opened, and
nothing on a connection names that connection itself. `BothPunched` follows from
`MutualIntroduction` and the fact that every contact among the messages a node
has read is in `punched` or in `missed`.

*EbcNet and `recv`.* `NodesPunch` needs to know what is on a connection, and what
`recv` may leave of it. `PackedInv` says that each message was packed by
`packNodes`, a notification with one contact, from finitely many registered
clients (only those that joined, so that nothing need be assumed of the number of
ids). `RestInv` says that what a cut left is a piece without a head. `RecvCases`
takes `Recvs` apart, `NodeReadsDoes` says what one read does to `seen`, `rest`,
`punched` and `missed`: when nothing was refused and nothing cut, the one message
with contacts is whole, or the piece that was counted in `missed` before, and
`UnpackParts` says that its contacts are the accepted ones. Nothing is assumed of
`PacketNodes` and `FitMsgs`, so that the theorem covers cuts that `ebc_net` leaves
out.

*Folds.* `Parse`, the reader and the sizes are folds (`FoldLeft`). The induction
theorems of the library take the predicate as an operator, which cannot be
instantiated here; `NatInd` and `UpTo` in `FoldProofs` state induction over a *set*
of numbers instead and are cited like any lemma. From them: a fold goes through the
results for the beginnings of the sequence (`FoldPartials`), is determined by them,
and takes a sequence in pieces (`FoldConcat`). The operation is the constant `M` of
the module, which is instantiated once for each operation that is folded.

*EbcMsg.* The invariant of parsing is `Parsed(m, chunk, k)`: after `k` messages
`m` has no contacts, or the contacts and the length of the only listing that had
any, or is `Overfull`. `Overfull`, more contacts than the length accounts for, is
brought about by the second message with contacts, is kept by every later one, and
is refused. `Heard` is the same for texts, which replace each other.

`Gathered` is the weaker fact that holds of pieces too, whose headers or lengths
are missing: two that carry contacts leave an `Overfull` message, and one leaves
its contacts.

*MsgStream.* `StreamInv` says that the messages in flight are packed messages,
cleared ones, or the rest of a cut one, that the chunk is made of those and of
first pieces, and what was made of it. The first three properties of `unpack` then are
`UnpackParts`, `AloneAccepted`, `HelloAlone` and `UnpackListings`, applied to the chunk.

*The codec.* `VarintSizeIsBytes`: the size from the logarithm (`(9 log + 73) / 64`) is
the number of seven-bit groups, proved from the powers of two on either side of each
boundary. `MsgSizeIsBytes` adds up fields, contacts and nested lengths, by induction
over the contacts. `NodesReadBack`: a contact, and a list of them, is read as it was
written. `SameChunk`: after each message that was read, field by field, all fields but
the length are those of `MergeFrom`, so that joined messages are merged the same way;
`SameComparison`: the length that is left is the size of the same contacts whose number
`EbcMsg` has left (`SameLength`), and these are the end of the list: the bytes of the
whole list are as many exactly when nothing comes before them.

*Engine.* `EngineInv` has a part per property. `CmdInv`: main closes and destroys
only after the command thread is done, and only a walk that is on holds an
iterator. `LateInv`: after the flag is cleared the hello thread can only finish
the round it slept through. `OwnersInv`: each entry of the map, and a change under
way, holds a socket opened for that very key, or one nobody set; sockets are never
opened for another peer, so the copy of the hello thread keeps its meaning however
stale it is. `HelloInv`: while the hello thread sends, what it copied was opened
for the element its iterator is on, or is `Garbage`. Neither `HelloToNamedPeer`
nor `LateRoundOnce` is inductive without its part.

*Client.* `FdsInv` says what the stale sets still guarantee: a socket in
`errfds` has failed and is not closed, a peer in the other two got past its
connect. It rests on the walk being complete (`TypeOK` says that a set is empty
when its loop is left). `BootInv` adds to `AskedOnce` that a boot socket watched
for output, or reported connected, was not asked yet. `OpenSocketTracked /\
PeerSocketUsable` is inductive as it stands; the work is in `PunchEffect`, what
one message of contacts does to four tables.

Each invariant was checked by TLC before it was proved.

Only model-checked: the liveness properties (`FailedPeerClosed`, `ServerAsked`,
`BrokenDropped`, `NodesMeet`, `AnswerRead`, `QuitExits`), as the prover has no
`ENABLED` and so no fairness; and `CutsAgree`, which asks of every suffix of every
field what the folds of the codec make of it. Every other invariant and every
action property that a passing run checks is proved. `ClientProofs` does not
depend on what `unpack` accepts: it holds for every set of contacts the server
could have sent.

## 5. Not modelled

* `SockAddr` and `Node` beyond the fields the engine uses: length and storage of
  an address under copies and moves, and the conversions between ids and
  strings. It is sequential code, and no caller uses a moved-from address. One
  conversion is given an id that is not twenty bytes long: `msgPrint` converts the
  empty `dst_id` of every GET_NODE and PUNCH, and `String2NodeId` reads twenty bytes
  from it (msgpack.cpp 115, node.cpp 174). What it reads is only printed.
* A process that is a server and a client at once: no caller starts both.
* The sockets and tables of the nodes in `EbcNet`, and the epoll of the boot
  thread in `Engine`: `Client` has them.
* Bytes inside an id, an address or a text that happen to read as fields an `EbcMsg`
  knows, when a cut makes a parse begin there: `Cuts` lets such a piece fail, or be
  skipped up to the next field, or to its end.
* What `ebcnodes(0)` of an empty list does, for a PUNCH that was cut before its contact.
* Messages no engine sends: a GET_NODE without a contact, a GET_NODE to a node,
  a REP to the server. GET_DATA, PING and HEART have no code.
* `recv` errors on a standing connection, and answers to a PUNCH that are lost:
  UDT is reliable while a connection stands.
* Printing, `resolve`, `Bucket`, `getReadableByte`, `findClientNode`, the
  expiry and ping fields of `Node`: no effect on any state, or no caller.
* UDT, a binary library, and the protobuf runtime. The repository carries the
  protobuf headers (`src/include/google`, most of its lines): third-party code of
  which `Wire` models only what `msg.pb.cc` calls.

## 6. Plan

Done: `Contact`, `EbcMsg`, `MsgStream`, `Server`, `Client`; `Rendezvous` and its
implementation by `Server`; `EbcNet`; `Engine`; `Wire`; the proofs above.

What would come next, should the code change or more be wanted:

1. A version test in `unpack`, or framing in `recv`, would turn
   `msg_stream_introduced` into a passing run and remove `missed` from `EbcNet`.
2. Two `Client`s in one network, with their rendezvous connections to each other
   (today `EbcNet` ends with the punch, and `Client` begins with it).
3. `SockAddr`: length and storage under construction, copy, move and
   `setFamily`, once a caller moves addresses.
