---------------------------------- MODULE Links ----------------------------------
(***************************************************************************)
(* Packets on the links (src/packet.c), from the moment that the first     *)
(* node process runs while others are still being made (NetInit).          *)
(*                                                                         *)
(* A pipe is a sequence of bytes.  A packet is written at once or, when    *)
(* the pipe is full, not at all.  A read takes what is there up to the     *)
(* size of the longest packet, decodes the packet in front, and drops the  *)
(* rest: also the first part of a packet whose second part stays behind.   *)
(* A socket carries one packet per connection.                             *)
(***************************************************************************)
EXTENDS NetInit, FiniteSets

CONSTANTS
  HEADER,         \* bytes in front of the payload, 8
  PAYLOAD_MAX,    \* 100
  BACKLOG,        \* connections that wait to be accepted, 10
  Capacities,     \* bound: the sizes of pipes that are looked at
  MaxSent         \* bound: how many packets are sent

ReadSize == HEADER + PAYLOAD_MAX

ASSUME SizeAssumption ==
  /\ HEADER \in Nat \ {0} /\ PAYLOAD_MAX \in Nat /\ BACKLOG \in Nat \ {0}
  /\ Capacities \subseteq Nat /\ \A n \in Capacities : n >= ReadSize
  /\ MaxSent \in Nat

\* A packet, with the port that it was sent from: process, index.
Packet == [number : 1 .. MaxSent, from : Nat \X Nat, length : 0 .. PAYLOAD_MAX]
None == [number |-> 0]
Garbled == [number |-> -1]
Size(p) == HEADER + p.length

\* The links of the configuration, the pipes, and the addresses listened to.
Lines == IF config = NoConfig THEN <<>> ELSE config.links
LinesOf(type) == {i \in 1 .. Len(Lines) : Lines[i].type = type}
Pipes == LinesOf("PIPE") \X {"fd01", "fd10"}
Addresses == {Lines[i].listen : i \in LinesOf("SOCKET")}

VARIABLES
  capacity,       \* the size of every pipe
  bytes,          \* what is in each pipe: bytes, given as <<packet, place>>
  first,          \* history: the packet that was written when the pipe was empty
  listener,       \* the process that listens at each address, 0 for none
  setup,          \* processes that have called setupListeningSocket
  waiting,        \* connections that wait at each address
  sent,
  got             \* history: what was received last, and where

linkVars == <<capacity, bytes, first, listener, setup, waiting, sent, got>>

LinksInit ==
  /\ Init
  /\ capacity \in Capacities
  /\ bytes = [q \in Pipes |-> <<>>]
  /\ first = [q \in Pipes |-> None]
  /\ listener = [a \in Addresses |-> 0]
  /\ setup = {}
  /\ waiting = [a \in Addresses |-> <<>>]
  /\ sent = 0
  /\ got = None

--------------------------------------------------------------------------------
(* Pipes.                                                                       *)

\* Process c uses its port k, which is of this type.
Use(c, k, type) ==
  /\ Ready(c)
  /\ PortAt(<<c, k>>).type = type
  /\ UNCHANGED <<vars, capacity>>

NewPacket(c, k, length) == [number |-> sent + 1, from |-> <<c, k>>, length |-> length]

Send(c, k, type) ==
  /\ Use(c, k, type)
  /\ sent < MaxSent
  /\ sent' = sent + 1
  /\ UNCHANGED <<setup, listener, got>>

\* Mutated: room for one byte is enough.
FitsPartly(q, p) == Len(bytes[q]) < capacity

\* A write to a pipe is all or nothing.
Fits(q, p) == Len(bytes[q]) + Size(p) <= capacity

packet_send_pipe(c, k, length) ==
  LET p == NewPacket(c, k, length)
      q == PortAt(<<c, k>>).send
      fits == Fits(q, p)
  IN /\ Send(c, k, "PIPE")
     /\ bytes' = IF fits THEN [bytes EXCEPT ![q] = @ \o [i \in 1 .. Size(p) |-> <<p, i>>]]
                 ELSE bytes
     /\ first' = IF fits /\ bytes[q] = <<>> THEN [first EXCEPT ![q] = p] ELSE first
     /\ UNCHANGED waiting

\* Mutated: room for the payload only.
TakenShort(q) == IF Len(bytes[q]) <= PAYLOAD_MAX THEN Len(bytes[q]) ELSE PAYLOAD_MAX

\* Mutated: the packet in front and no more.
TakenOne(q) == IF bytes[q] = <<>> THEN 0 ELSE Size(bytes[q][1][1])

\* How many bytes a read takes.
Taken(q) == IF Len(bytes[q]) <= ReadSize THEN Len(bytes[q]) ELSE ReadSize

\* What n bytes from the front of a pipe are taken for: a packet, if they begin
\* with all of it; otherwise payload is taken for a header.
Decoded(q, n) ==
  LET p == bytes[q][1][1]
  IN IF bytes[q][1][2] = 1 /\ n >= Size(p) THEN p ELSE Garbled

Received(c, k, packet) == got' = [at |-> <<c, k>>, number |-> packet.number, packet |-> packet]

packet_recv_pipe(c, k) ==
  LET q == PortAt(<<c, k>>).recv
  IN /\ Use(c, k, "PIPE")
     /\ bytes[q] # <<>>
     /\ Received(c, k, Decoded(q, Taken(q)))
     /\ bytes' = [bytes EXCEPT ![q] = SubSeq(@, Taken(q) + 1, Len(@))]
     /\ first' = [first EXCEPT ![q] = None]
     /\ UNCHANGED <<listener, setup, waiting, sent>>

--------------------------------------------------------------------------------
(* Sockets.                                                                     *)

\* The connection is refused and the packet lost where nobody listens; where
\* too many connections wait, connect blocks until one is accepted.
packet_send_socket(c, k, length) ==
  LET to == PortAt(<<c, k>>).send
      listening == to \in Addresses /\ listener[to] # 0
  IN /\ Send(c, k, "SOCKET")
     /\ listening => Len(waiting[to]) < BACKLOG
     /\ waiting' = IF listening
                     THEN [waiting EXCEPT ![to] = Append(@, NewPacket(c, k, length))]
                     ELSE waiting
     /\ UNCHANGED <<bytes, first>>

\* A process listens for the first of its socket ports only; the address may be
\* taken.
setupListeningSocket(c, k) ==
  LET a == PortAt(<<c, k>>).recv
  IN /\ Use(c, k, "SOCKET")
     /\ \A j \in 1 .. k - 1 : PortAt(<<c, j>>).type = "PIPE"
     /\ c \notin setup
     /\ setup' = setup \cup {c}
     /\ listener' = IF listener[a] = 0 THEN [listener EXCEPT ![a] = c] ELSE listener
     /\ UNCHANGED <<bytes, first, waiting, sent, got>>

\* The descriptor is the same for all socket ports of the process.
packet_recv_socket(c, k) ==
  /\ Use(c, k, "SOCKET")
  /\ \E a \in Addresses :
       /\ listener[a] = c
       /\ waiting[a] # <<>>
       /\ Received(c, k, Head(waiting[a]))
       /\ waiting' = [waiting EXCEPT ![a] = Tail(@)]
  /\ UNCHANGED <<bytes, first, listener, setup, sent>>

--------------------------------------------------------------------------------
PortStep(c, k) ==
  \/ \E length \in 0 .. PAYLOAD_MAX :
       packet_send_pipe(c, k, length) \/ packet_send_socket(c, k, length)
  \/ packet_recv_pipe(c, k)
  \/ setupListeningSocket(c, k) \/ packet_recv_socket(c, k)

LinksNext ==
  \/ NetInitNext /\ UNCHANGED linkVars
  \/ \E c \in 1 .. Len(child) : \E k \in 1 .. Len(child[c].ports) : PortStep(c, k)

LinksSpec == LinksInit /\ [][LinksNext]_<<vars, linkVars>>

--------------------------------------------------------------------------------
LinksTypeOK ==
  /\ TypeOK
  /\ capacity \in Capacities
  /\ \A q \in Pipes : /\ bytes[q] \in Seq(Packet \X (1 .. ReadSize)) /\ Len(bytes[q]) <= capacity
                      /\ first[q] \in Packet \cup {None}
  /\ \A a \in Addresses : /\ listener[a] \in 0 .. Len(config.nodes)
                          /\ waiting[a] \in Seq(Packet) /\ Len(waiting[a]) <= BACKLOG
  /\ sent \in 0 .. MaxSent

OneSocket(c) ==
  Cardinality({k \in 1 .. Len(child[c].ports) : PortAt(<<c, k>>).type = "SOCKET"}) <= 1

\* Does the configuration say that what node a sends may come to node b?
Linked(a, b) ==
  \/ \E i \in LinesOf("PIPE") : {a, b} = {Lines[i].node0, Lines[i].node1}
  \/ \E i, j \in LinesOf("SOCKET") :
       Lines[i].node0 = a /\ Lines[j].node0 = b /\ Lines[i].to = Lines[j].listen

\* What a process receives was sent by a neighbour that the configuration gives
\* it, and on the port at the other end of the one it was received on; also
\* when the sender was running long before the receiver.  (With two socket
\* ports, one listening socket serves both, line 178 of packet.c: the neighbour
\* is right and the port may be wrong.)
FromPeer ==
  WellFormed /\ got.number > 0 /\ child # <<>> =>
    /\ Linked(IdAt(got.packet.from), IdAt(got.at))
    /\ OneSocket(got.at[1]) => PortAt(got.packet.from).send = PortAt(got.at).recv

\* A packet that was written into an empty pipe is received whole by the next
\* read, whatever was written behind it and however much of that is cut off.
FirstWhole ==
  [][\A q \in Pipes : first[q] # None /\ first'[q] = None => got'.packet = first[q]]_linkVars

\* A pipe that never holds more than one read takes is a slot that keeps its
\* first packet: this is how SwitchNet models a pipe.
SlotWhenShort ==
  capacity <= ReadSize => \A q \in Pipes : bytes[q] # <<>> => first[q] # None
================================================================================
