------------------------------- MODULE LinksProofs -------------------------------
(***************************************************************************)
(* Theorems about Links, for every configuration, size of pipe and number  *)
(* of packets.                                                             *)
(*                                                                         *)
(* The argument: a process that has its ports keeps them (PortsStay), so   *)
(* what is on a link was sent by the port that is still at its end         *)
(* (Sources), and a packet that was written into an empty pipe stays in    *)
(* front of it (FirstInv).                                                 *)
(***************************************************************************)
EXTENDS Links, NetInitProofs, SequenceTheorems, FiniteSetTheorems

--------------------------------------------------------------------------------
(* How the network comes up (NetInit), and what is true of it from then on.     *)

\* Without a configuration there are no nodes.
Unloaded == ~Loadable => g_node_list = <<>>

NetInv == IInv /\ Unloaded /\ (main = "quit" => child = <<>>)

LEMMA NetInvInit == Init => NetInv
BY TypeInit, ListInit, ShareInit DEF IInv, NetInv, Unloaded, Init

LEMMA NetInvStep == NetInv /\ [NetInitNext]_vars => NetInv'
<1> SUFFICES ASSUME NetInv, [NetInitNext]_vars PROVE NetInv'
  OBVIOUS
<1>1. IInv'
  BY TypeStep, NodeStep, PortListStep, ShareStep DEF IInv, NetInv
<1>2. config' = config
  BY DEF NetInitNext, MainStep, LoadFails, LoadRefused, Load, create_node_list, Finish,
         create_port_list, create_man_ports, Fork, Manage, ForkFails, Quit, TakePort, vars
<1>3. Unloaded'
  BY <1>2 DEF Unloaded, Loadable, NetInv, IInv, Loading, NetInitNext, MainStep, LoadFails,
         LoadRefused, Load, create_node_list, Iterate, Finish, create_port_list,
         create_man_ports, Fork, Manage, ForkFails, Quit, TakePort, vars, lists
<1>4. (main = "quit" => child = <<>>)'
  <2>1. CASE \E c \in 1 .. Len(child) : TakePort(c)
    BY <2>1 DEF TakePort, NetInv
  <2>2. CASE MainStep
    BY <2>2 DEF MainStep, LoadFails, LoadRefused, Load, create_node_list, Iterate, Finish, Goto,
         create_port_list, create_man_ports, Fork, Manage
  <2>3. CASE ForkFails \/ Quit \/ UNCHANGED vars
    BY <2>3 DEF ForkFails, Quit, Goto, vars, NetInv
  <2>q. QED
    BY <2>1, <2>2, <2>3 DEF NetInitNext
<1>q. QED
  BY <1>1, <1>3, <1>4 DEF NetInv

\* A process that has its ports keeps them until the user quits.
LEMMA PortsStay ==
  ASSUME NetInv, [NetInitNext]_vars, main' # "quit"
  PROVE  /\ main # "quit"
         /\ \A c \in 1 .. Len(child) : Ready(c) =>
              c \in 1 .. Len(child') /\ child'[c] = child[c]
<1>1. child \in Seq(NodeProcess)
  BY DEF NetInv, IInv, TypeOK, NodeProcess
<1>2. main # "quit"
  BY DEF NetInitNext, MainStep, LoadFails, LoadRefused, Load, create_node_list, Iterate, Finish,
         Goto, create_port_list, create_man_ports, Fork, Manage, ForkFails, Quit, TakePort, vars
<1> SUFFICES ASSUME NEW c \in 1 .. Len(child), Ready(c)
             PROVE  c \in 1 .. Len(child') /\ child'[c] = child[c]
  BY <1>2
<1>3. ASSUME NEW d \in 1 .. Len(child), TakePort(d)
      PROVE  c \in 1 .. Len(child') /\ child'[c] = child[c]
  <2>1. c # d
    BY <1>3 DEF TakePort, Ready
  <2>q. QED
    BY <1>1, <1>3, <2>1, TakenPort
<1>4. CASE Fork
  <2>1. child' = Append(child, [node |-> g_node_list[at + 1],
                                unseen |-> g_port_list, ports |-> <<>>])
    BY <1>4 DEF Fork
  <2>q. QED
    BY <1>1, <2>1
<1>5. CASE ~Fork /\ ~\E d \in 1 .. Len(child) : TakePort(d)
  <2>1. child' = child
    BY <1>5 DEF NetInitNext, MainStep, LoadFails, LoadRefused, Load, create_node_list,
         Finish, Goto, create_port_list, create_man_ports, Manage, ForkFails, Quit, vars
  <2>q. QED
    BY <2>1
<1>q. QED
  BY <1>3, <1>4, <1>5

LEMMA ConfigStays == [NetInitNext]_vars => config' = config
BY DEF NetInitNext, MainStep, LoadFails, LoadRefused, Load, create_node_list, Finish,
       create_port_list, create_man_ports, Fork, Manage, ForkFails, Quit, TakePort, vars

\* Where there is a process there is a file, and one node of it for each process.
LEMMA FileOfProcess ==
  ASSUME NetInv, NEW c \in 1 .. Len(child)
  PROVE  /\ Loadable /\ config.nodes \in Seq(NodeLine) /\ config.links \in Seq(LinkLine)
         /\ Lines = config.links
         /\ c \in 1 .. Len(config.nodes)
         /\ g_port_list \in Seq(NetPort)
         /\ Items(g_port_list) = UNION {Items(LinkPorts(i)) : i \in 1 .. Len(config.links)}
<1>1. /\ child \in Seq(NodeProcess) /\ g_node_list \in Seq(NodeLine)
      /\ g_port_list \in Seq(NetPort)
      /\ Len(child) <= Len(g_node_list) /\ child # <<>>
  BY DEF NetInv, IInv, TypeOK, NodeProcess, ShareInv
<1>2. main \in Late /\ Loadable
  BY <1>1 DEF NetInv, IInv, ShareInv, Unloaded
<1>3. config.nodes \in Seq(NodeLine) /\ config.links \in Seq(LinkLine)
  BY <1>2, ConfigType DEF NetInv, IInv
<1>4. NodesLoaded(Len(config.nodes)) /\ PortsLoaded(Len(config.links))
  BY <1>2 DEF NetInv, IInv, NodeInv, PortInv
<1>q. QED
  BY <1>1, <1>2, <1>3, <1>4 DEF NodesLoaded, PortsLoaded, Lines, Loadable

\* The port of a link by a socket.
Mouth(i) == [type |-> "SOCKET", host |-> config.links[i].node0,
             send |-> config.links[i].to, recv |-> config.links[i].listen]

\* Every port of a process is an end of a link, on the node of the process.
LEMMA PortOfLink ==
  ASSUME NetInv, NEW c \in 1 .. Len(child), NEW k \in 1 .. Len(child[c].ports)
  PROVE  /\ PortAt(<<c, k>>).host = child[c].node.id
         /\ \/ \E i \in LinesOf("PIPE") : PortAt(<<c, k>>) \in {Near(i), Far(i)}
            \/ \E i \in LinesOf("SOCKET") : PortAt(<<c, k>>) = Mouth(i)
<1>1. /\ config.links \in Seq(LinkLine) /\ Lines = config.links
      /\ Items(g_port_list) = UNION {Items(LinkPorts(i)) : i \in 1 .. Len(config.links)}
  BY FileOfProcess
<1> DEFINE p == PortAt(<<c, k>>)
<1>2. p \in Items(child[c].ports)
  BY DEF PortAt, Items
<1>3. p \in Items(g_port_list) /\ p.host = child[c].node.id
  BY <1>2 DEF NetInv, IInv, ShareInv, Shared
<1> HIDE DEF p
<1>4. PICK i \in 1 .. Len(config.links) : p \in Items(LinkPorts(i))
  BY <1>1, <1>3
<1>5. CASE config.links[i].type = "PIPE"
  <2>1. Items(LinkPorts(i)) = {Near(i), Far(i)}
    BY <1>1, <1>5, LinkEnds
  <2>q. QED
    BY <1>1, <1>3, <1>4, <1>5, <2>1 DEF LinesOf, p
<1>6. CASE config.links[i].type # "PIPE"
  <2>1. LinkPorts(i) = <<Mouth(i)>>
    BY <1>6 DEF LinkPorts, Mouth
  <2>2. p = Mouth(i)
    BY <1>4, <2>1 DEF Items
  <2>3. config.links[i] \in LinkLine
    BY <1>1
  <2>4. config.links[i].type = "SOCKET"
    BY <1>6, <2>3 DEF LinkLine
  <2>q. QED
    BY <1>1, <1>3, <2>2, <2>4 DEF LinesOf, p
<1>q. QED
  BY <1>5, <1>6

--------------------------------------------------------------------------------
(* What is on the links.                                                        *)

Byte == Packet \X (1 .. ReadSize)

FlowType ==
  /\ capacity \in Capacities
  /\ bytes \in [Pipes -> Seq(Byte)] /\ \A q \in Pipes : Len(bytes[q]) <= capacity
  /\ first \in [Pipes -> Packet \cup {None}]
  /\ listener \in [Addresses -> Nat]
  /\ \A a \in Addresses : listener[a] # 0 => listener[a] \in 1 .. Len(config.nodes)
  /\ waiting \in [Addresses -> Seq(Packet)]
  /\ \A a \in Addresses : Len(waiting[a]) <= BACKLOG
  /\ sent \in 0 .. MaxSent

\* A packet that was written into an empty pipe is in front of it, with all of
\* its bytes; and a pipe of the size of a read has such a packet in front.
Front(s, p) == p # None => Len(s) >= Size(p) /\ s[1] = <<p, 1>>

FirstInv == \A q \in Pipes : Front(bytes[q], first[q])

FlowInv == FlowType /\ FirstInv /\ SlotWhenShort

LEMMA Sizes ==
  /\ ReadSize \in Nat /\ ReadSize >= 1
  /\ \A n \in Capacities : n \in Nat /\ n >= ReadSize
  /\ \A p \in Packet : Size(p) \in 1 .. ReadSize /\ p # None /\ p.number > 0
<1>1. ASSUME NEW p \in Packet PROVE Size(p) \in 1 .. ReadSize /\ p # None /\ p.number > 0
  <2>1. p.length \in 0 .. PAYLOAD_MAX /\ p.number \in 1 .. MaxSent
    BY <1>1 DEF Packet
  <2>2. Size(p) \in 1 .. ReadSize
    BY <2>1, SizeAssumption DEF Size, ReadSize
  <2>3. None.number = 0
    BY DEF None
  <2>q. QED
    BY <2>1, <2>2, <2>3
<1>q. QED
  BY <1>1, SizeAssumption DEF ReadSize

LEMMA FunctionSeq ==
  ASSUME NEW S, NEW n \in Nat, NEW w \in [1 .. n -> S]
  PROVE  w \in Seq(S) /\ Len(w) = n
OBVIOUS

\* The bytes of a packet.
BytesOf(p) == [i \in 1 .. Size(p) |-> <<p, i>>]

\* A packet is written behind what is in the pipe.
Behind(s, p) == s \o BytesOf(p)

LEMMA Written ==
  ASSUME NEW p \in Packet, NEW s \in Seq(Byte)
  PROVE  /\ Behind(s, p) \in Seq(Byte) /\ Len(Behind(s, p)) = Len(s) + Size(p)
         /\ \A i \in 1 .. Len(s) : Behind(s, p)[i] = s[i]
         /\ \A i \in Len(s) + 1 .. Len(Behind(s, p)) : Behind(s, p)[i][1] = p
         /\ s = <<>> => Behind(s, p)[1] = <<p, 1>>
<1> DEFINE t == Behind(s, p)
<1> DEFINE w == BytesOf(p)
<1>1. Size(p) \in Nat /\ Size(p) <= ReadSize /\ Size(p) >= 1 /\ ReadSize \in Nat
  BY Sizes
<1>2. \A i \in 1 .. Size(p) : <<p, i>> \in Byte
  BY <1>1 DEF Byte
<1>3. \A i \in 1 .. Size(p) : w[i] = <<p, i>>
  BY DEF BytesOf
<1>4. w \in [1 .. Size(p) -> Byte] /\ t = s \o w
  BY <1>2 DEF BytesOf, Behind
<1> HIDE DEF w, t
<1>5. /\ t \in Seq(Byte) /\ Len(t) = Len(s) + Size(p)
      /\ \A i \in 1 .. Len(s) + Size(p) : t[i] = IF i <= Len(s) THEN s[i] ELSE w[i - Len(s)]
  <2>1. w \in Seq(Byte) /\ Len(w) = Size(p)
    BY <1>1, <1>4, FunctionSeq
  <2>2. \A u \in Seq(Byte) :
           /\ s \o u \in Seq(Byte) /\ Len(s \o u) = Len(s) + Len(u)
           /\ \A i \in 1 .. Len(s) + Len(u) :
                (s \o u)[i] = IF i <= Len(s) THEN s[i] ELSE u[i - Len(s)]
    BY ConcatProperties
  <2>q. QED
    BY <1>4, <2>1, <2>2
<1>6. ASSUME NEW i \in Len(s) + 1 .. Len(t) PROVE t[i][1] = p
  <2>1. i - Len(s) \in 1 .. Size(p) /\ ~(i <= Len(s)) /\ i \in 1 .. Len(s) + Size(p)
    BY <1>1, <1>5
  <2>2. t[i] = <<p, i - Len(s)>>
    BY <1>3, <1>5, <2>1
  <2>3. \A j : <<p, j>>[1] = p
    OBVIOUS
  <2>q. QED
    BY <2>2, <2>3
<1>7. s = <<>> => t[1] = <<p, 1>>
  BY <1>1, <1>3, <1>5
<1>q. QED
  BY <1>1, <1>5, <1>6, <1>7 DEF t

\* What a port sends is a packet.
LEMMA PacketMade ==
  ASSUME NetInv, FlowType, NEW c \in 1 .. Len(child), NEW k \in 1 .. Len(child[c].ports),
         NEW length \in 0 .. PAYLOAD_MAX, sent < MaxSent
  PROVE  /\ NewPacket(c, k, length) \in Packet /\ NewPacket(c, k, length).from = <<c, k>>
         /\ sent + 1 \in 0 .. MaxSent
<1>1. MaxSent \in Nat /\ sent \in 0 .. MaxSent
  BY SizeAssumption DEF FlowType
<1>2. sent + 1 \in 1 .. MaxSent /\ c \in Nat /\ k \in Nat
  BY <1>1
<1>q. QED
  BY <1>2 DEF NewPacket, Packet

\* A read takes all that is there, if that is no more than a packet can be.
LEMMA Read ==
  ASSUME NEW q, NEW s \in Seq(Byte), bytes[q] = s
  PROVE  /\ Taken(q) \in 0 .. Len(s) /\ (Len(s) <= ReadSize => Taken(q) = Len(s))
         /\ SubSeq(s, Taken(q) + 1, Len(s)) \in Seq(Byte)
         /\ Len(SubSeq(s, Taken(q) + 1, Len(s))) = Len(s) - Taken(q)
         /\ \A i \in 1 .. Len(s) - Taken(q) : /\ i + Taken(q) \in 1 .. Len(s)
              /\ SubSeq(s, Taken(q) + 1, Len(s))[i] = s[i + Taken(q)]
<1>1. ReadSize \in Nat /\ Len(s) \in Nat
  BY Sizes
<1> DEFINE n == Taken(q)
<1>2. n \in 0 .. Len(s) /\ (Len(s) <= ReadSize => n = Len(s))
  BY <1>1 DEF Taken
<1> HIDE DEF n
<1>3. SubSeq(s, n + 1, Len(s)) \in Seq(Byte) /\ Len(SubSeq(s, n + 1, Len(s))) = Len(s) - n
  BY <1>1, <1>2
<1>4. \A i \in 1 .. Len(s) - n : i + n \in 1 .. Len(s) /\ SubSeq(s, n + 1, Len(s))[i] = s[i + n]
  BY <1>1, <1>2
<1>q. QED
  BY <1>2, <1>3, <1>4 DEF n

LEMMA LinksStay ==
  ASSUME config' = config
  PROVE  Lines' = Lines /\ Pipes' = Pipes /\ Addresses' = Addresses
BY DEF Lines, Pipes, Addresses, LinesOf

LEMMA FlowInit == LinksInit => FlowInv
<1> SUFFICES ASSUME LinksInit PROVE FlowInv
  OBVIOUS
<1>1. /\ bytes = [q \in Pipes |-> <<>>] /\ first = [q \in Pipes |-> None]
      /\ listener = [a \in Addresses |-> 0] /\ waiting = [a \in Addresses |-> <<>>]
      /\ sent = 0 /\ capacity \in Capacities
  BY DEF LinksInit
<1>2. capacity \in Nat /\ MaxSent \in Nat /\ BACKLOG \in Nat
  BY <1>1, SizeAssumption
<1>3. /\ bytes \in [Pipes -> Seq(Byte)] /\ waiting \in [Addresses -> Seq(Packet)]
      /\ first \in [Pipes -> Packet \cup {None}] /\ listener \in [Addresses -> Nat]
  BY <1>1
<1>4. /\ \A q \in Pipes : bytes[q] = <<>> /\ Len(bytes[q]) = 0 /\ first[q] = None
      /\ \A a \in Addresses : listener[a] = 0 /\ Len(waiting[a]) = 0
  BY <1>1
<1>5. FlowType
  BY <1>1, <1>2, <1>3, <1>4 DEF FlowType
<1>q. QED
  BY <1>4, <1>5 DEF FlowInv, FirstInv, Front, SlotWhenShort

LEMMA SendPipeFlow ==
  ASSUME NetInv, FlowInv, NEW c \in 1 .. Len(child), NEW k \in 1 .. Len(child[c].ports),
         NEW length \in 0 .. PAYLOAD_MAX, packet_send_pipe(c, k, length)
  PROVE  FlowInv'
<1>1. /\ UNCHANGED <<config, capacity, listener, waiting>> /\ sent < MaxSent /\ sent' = sent + 1
  BY DEF packet_send_pipe, Send, Use, vars
<1>2. Lines' = Lines /\ Pipes' = Pipes /\ Addresses' = Addresses
  BY <1>1, LinksStay
<1> DEFINE x == PortAt(<<c, k>>).send
<1>3. PICK p : p = NewPacket(c, k, length)
  OBVIOUS
<1>4. p \in Packet /\ sent + 1 \in 0 .. MaxSent
  BY <1>1, <1>3, PacketMade DEF FlowInv
<1>5. p # None /\ Size(p) \in Nat /\ capacity \in Nat
  BY <1>4, Sizes DEF FlowInv, FlowType
<1> DEFINE fits == Fits(x, p)
<1>6. /\ bytes' = IF fits THEN [bytes EXCEPT ![x] = Behind(@, p)]
                  ELSE bytes
      /\ first' = IF fits /\ bytes[x] = <<>> THEN [first EXCEPT ![x] = p] ELSE first
  BY <1>3 DEF packet_send_pipe, BytesOf, Behind
<1>7. /\ bytes \in [Pipes -> Seq(Byte)] /\ first \in [Pipes -> Packet \cup {None}]
      /\ \A q \in Pipes : Len(bytes[q]) <= capacity /\ Front(bytes[q], first[q])
      /\ SlotWhenShort
  BY DEF FlowInv, FlowType, FirstInv
<1> HIDE DEF x
<1>8. CASE ~fits
  <2>1. bytes' = bytes /\ first' = first
    BY <1>6, <1>8
  <2>q. QED
    BY <1>1, <1>2, <1>4, <2>1 DEF FlowInv, FlowType, FirstInv, SlotWhenShort
<1>9. CASE fits /\ x \notin Pipes
  <2>1. bytes' = bytes /\ first' = first
    <3> HIDE DEF fits
    <3>q. QED
      BY <1>6, <1>7, <1>9
  <2>q. QED
    BY <1>1, <1>2, <1>4, <2>1 DEF FlowInv, FlowType, FirstInv, SlotWhenShort
<1>10. CASE fits /\ x \in Pipes
  <2>1. PICK s, t : s = bytes[x] /\ t = Behind(s, p)
    OBVIOUS
  <2>2. s \in Seq(Byte) /\ Len(s) + Size(p) <= capacity
    BY <1>7, <1>10, <2>1 DEF Fits
  <2> HIDE DEF fits
  <2>3. bytes' = [bytes EXCEPT ![x] = t]
    BY <1>6, <1>10, <2>1
  <2>4. /\ t \in Seq(Byte) /\ Len(t) = Len(s) + Size(p)
        /\ \A i \in 1 .. Len(s) : t[i] = s[i]
        /\ \A i \in Len(s) + 1 .. Len(t) : t[i][1] = p
        /\ s = <<>> => t[1] = <<p, 1>>
    <3>1. s \in Seq(Byte) /\ t = Behind(s, p)
      BY <2>1, <2>2
    <3>2. p \in Packet
      BY <1>4
    <3>q. QED
      BY <3>1, <3>2, Written
  <2>5. bytes' \in [Pipes -> Seq(Byte)] /\ bytes'[x] = t
        /\ \A q \in Pipes : q # x => bytes'[q] = bytes[q]
    BY <1>7, <1>10, <2>3, <2>4
  <2>6. first' \in [Pipes -> Packet \cup {None}]
        /\ first'[x] = (IF s = <<>> THEN p ELSE first[x])
        /\ \A q \in Pipes : q # x => first'[q] = first[q]
    BY <1>4, <1>6, <1>7, <1>10, <2>1
  <2>7. Front(t, first'[x])
    <3>1. CASE s = <<>>
      BY <1>5, <2>4, <2>6, <3>1 DEF Front
    <3>2. CASE s # <<>>
      <4>1. Len(s) >= 1 /\ Len(s) \in Nat
        BY <2>2, <3>2
      <4>2. first'[x] = first[x] /\ t[1] = s[1] /\ Front(s, first[x])
        BY <1>7, <1>10, <2>1, <2>4, <2>6, <3>2, <4>1
      <4>3. first[x] # None => Size(first[x]) \in Nat
        BY <1>7, <1>10, Sizes
      <4>q. QED
        BY <1>5, <2>4, <4>1, <4>2, <4>3 DEF Front
    <3>q. QED
      BY <3>1, <3>2
  <2>8. FirstInv'
    BY <1>2, <1>7, <2>5, <2>6, <2>7 DEF FirstInv
  <2>9. SlotWhenShort'
    <3>1. s = <<>> => first'[x] # None
      BY <1>5, <2>6
    <3>2. capacity <= ReadSize /\ s # <<>> => first'[x] # None
      BY <1>7, <1>10, <2>1, <2>6 DEF SlotWhenShort
    <3>q. QED
      BY <1>1, <1>2, <1>7, <2>5, <2>6, <3>1, <3>2 DEF SlotWhenShort
  <2>10. \A q \in Pipes : Len(bytes'[q]) <= capacity
    BY <1>7, <2>2, <2>4, <2>5
  <2>q. QED
    BY <1>1, <1>2, <1>4, <2>5, <2>6, <2>8, <2>9, <2>10 DEF FlowInv, FlowType
<1>q. QED
  BY <1>8, <1>9, <1>10

LEMMA RecvPipeFlow ==
  ASSUME NetInv, FlowInv, NEW c \in 1 .. Len(child), NEW k \in 1 .. Len(child[c].ports),
         packet_recv_pipe(c, k)
  PROVE  /\ FlowInv'
         /\ \A q \in Pipes : first[q] # None /\ first'[q] = None => got'.packet = first[q]
<1> DEFINE x == PortAt(<<c, k>>).recv
<1>1. /\ UNCHANGED <<config, capacity, listener, waiting, sent>>
      /\ bytes' = [bytes EXCEPT ![x] = SubSeq(@, Taken(x) + 1, Len(@))]
      /\ first' = [first EXCEPT ![x] = None]
      /\ got'.packet = Decoded(x, Taken(x))
  BY DEF packet_recv_pipe, Received, Use, vars
<1>2. Lines' = Lines /\ Pipes' = Pipes /\ Addresses' = Addresses
  BY <1>1, LinksStay
<1>3. /\ bytes \in [Pipes -> Seq(Byte)] /\ first \in [Pipes -> Packet \cup {None}]
      /\ \A q \in Pipes : Len(bytes[q]) <= capacity /\ Front(bytes[q], first[q])
      /\ SlotWhenShort /\ capacity \in Nat
  BY SizeAssumption DEF FlowInv, FlowType, FirstInv
<1> HIDE DEF x
<1>4. CASE x \notin Pipes
  <2>1. bytes' = bytes /\ first' = first
    BY <1>1, <1>3, <1>4
  <2>q. QED
    BY <1>1, <1>2, <2>1 DEF FlowInv, FlowType, FirstInv, SlotWhenShort
<1>5. CASE x \in Pipes
  <2>1. PICK s, t : s = bytes[x] /\ t = SubSeq(s, Taken(x) + 1, Len(s))
    OBVIOUS
  <2>2. s \in Seq(Byte) /\ Len(s) <= capacity /\ Front(s, first[x])
    BY <1>3, <1>5, <2>1
  <2>3. /\ Taken(x) \in 0 .. Len(s) /\ (Len(s) <= ReadSize => Taken(x) = Len(s))
        /\ t \in Seq(Byte) /\ Len(t) = Len(s) - Taken(x)
    BY <2>1, <2>2, Read
  <2>4. bytes' = [bytes EXCEPT ![x] = t]
    BY <1>1, <2>1
  <2>5. /\ bytes' \in [Pipes -> Seq(Byte)] /\ bytes'[x] = t
        /\ \A q \in Pipes : q # x => bytes'[q] = bytes[q]
    BY <1>3, <1>5, <2>3, <2>4
  <2>6. /\ first' \in [Pipes -> Packet \cup {None}] /\ first'[x] = None
        /\ \A q \in Pipes : q # x => first'[q] = first[q]
    BY <1>1, <1>3, <1>5
  <2>7. FirstInv'
    BY <1>2, <1>3, <2>5, <2>6 DEF FirstInv, Front
  <2>8. SlotWhenShort'
    <3>1. capacity <= ReadSize => t = <<>>
      <4>1. ReadSize \in Nat /\ Len(s) \in Nat
        BY <2>2, Sizes
      <4>2. capacity <= ReadSize => Len(t) = 0
        BY <1>3, <2>2, <2>3, <4>1
      <4>q. QED
        BY <2>3, <4>2
    <3>q. QED
      BY <1>1, <1>2, <1>3, <2>5, <2>6, <3>1 DEF SlotWhenShort
  <2>9. \A q \in Pipes : Len(bytes'[q]) <= capacity
    <3>1. Len(t) <= capacity
      BY <1>3, <2>2, <2>3
    <3>q. QED
      BY <1>3, <2>5, <3>1
  \* The packet in front is there with all of its bytes, and a read takes them.
  <2>10. first[x] # None => got'.packet = first[x]
    <3> SUFFICES ASSUME first[x] # None PROVE got'.packet = first[x]
      OBVIOUS
    <3>1. PICK p \in Packet : p = first[x]
      BY <1>3, <1>5
    <3>2. Size(p) \in 1 .. ReadSize /\ ReadSize \in Nat
      BY Sizes
    <3>3. Len(s) >= Size(p) /\ s[1] = <<p, 1>>
      BY <2>2, <3>1 DEF Front
    <3>4. Taken(x) >= Size(p)
      BY <2>1, <2>2, <3>2, <3>3 DEF Taken
    <3>5. <<p, 1>>[1] = p /\ <<p, 1>>[2] = 1
      OBVIOUS
    <3>6. Decoded(x, Taken(x)) = p
      BY <2>1, <3>3, <3>4, <3>5 DEF Decoded
    <3>q. QED
      BY <1>1, <3>1, <3>6
  <2>11. \A q \in Pipes : first[q] # None /\ first'[q] = None => q = x
    BY <2>6
  <2>q. QED
    BY <1>1, <1>2, <2>5, <2>6, <2>7, <2>8, <2>9, <2>10, <2>11 DEF FlowInv, FlowType
<1>q. QED
  BY <1>4, <1>5

LEMMA SendSocketFlow ==
  ASSUME NetInv, FlowInv, NEW c \in 1 .. Len(child), NEW k \in 1 .. Len(child[c].ports),
         NEW length \in 0 .. PAYLOAD_MAX, packet_send_socket(c, k, length)
  PROVE  FlowInv'
<1>1. /\ UNCHANGED <<config, capacity, listener, bytes, first>>
      /\ sent < MaxSent /\ sent' = sent + 1
  BY DEF packet_send_socket, Send, Use, vars
<1>2. Lines' = Lines /\ Pipes' = Pipes /\ Addresses' = Addresses
  BY <1>1, LinksStay
<1> DEFINE x == PortAt(<<c, k>>).send
           listening == x \in Addresses /\ listener[x] # 0
<1>3. PICK p : p = NewPacket(c, k, length)
  OBVIOUS
<1>4. p \in Packet /\ sent + 1 \in 0 .. MaxSent
  BY <1>1, <1>3, PacketMade DEF FlowInv
<1>5. /\ listening => Len(waiting[x]) < BACKLOG
      /\ waiting' = IF listening THEN [waiting EXCEPT ![x] = Append(@, p)] ELSE waiting
  BY <1>3 DEF packet_send_socket
<1>6. /\ waiting \in [Addresses -> Seq(Packet)] /\ BACKLOG \in Nat
      /\ \A a \in Addresses : Len(waiting[a]) <= BACKLOG
  BY SizeAssumption DEF FlowInv, FlowType
<1> HIDE DEF x
<1>7. /\ waiting' \in [Addresses -> Seq(Packet)]
      /\ \A a \in Addresses : Len(waiting'[a]) <= BACKLOG
  <2>1. CASE ~listening
    BY <1>5, <1>6, <2>1
  <2>2. CASE listening
    <3>1. PICK s, t : s = waiting[x] /\ t = Append(s, p)
      OBVIOUS
    <3>2. s \in Seq(Packet) /\ Len(s) < BACKLOG
      BY <1>5, <1>6, <2>2, <3>1
    <3>3. t \in Seq(Packet) /\ Len(t) <= BACKLOG
      BY <1>4, <1>6, <3>1, <3>2
    <3>4. waiting' = [waiting EXCEPT ![x] = t]
      BY <1>5, <2>2, <3>1
    <3>q. QED
      BY <1>6, <2>2, <3>3, <3>4
  <2>q. QED
    BY <2>1, <2>2
<1>q. QED
  BY <1>1, <1>2, <1>4, <1>7 DEF FlowInv, FlowType, FirstInv, SlotWhenShort

LEMMA ListenFlow ==
  ASSUME NetInv, FlowInv, NEW c \in 1 .. Len(child), NEW k \in 1 .. Len(child[c].ports),
         setupListeningSocket(c, k)
  PROVE  FlowInv'
<1> DEFINE x == PortAt(<<c, k>>).recv
<1>1. /\ UNCHANGED <<config, capacity, bytes, first, waiting, sent>>
      /\ listener' = IF listener[x] = 0 THEN [listener EXCEPT ![x] = c] ELSE listener
  BY DEF setupListeningSocket, Use, vars
<1>2. Lines' = Lines /\ Pipes' = Pipes /\ Addresses' = Addresses
  BY <1>1, LinksStay
<1>3. c \in 1 .. Len(config.nodes) /\ c \in Nat
  BY FileOfProcess
<1> HIDE DEF x
<1>4. listener \in [Addresses -> Nat]
  BY DEF FlowInv, FlowType
<1>5. listener' \in [Addresses -> Nat] /\ \A a \in Addresses : listener'[a] \in {c, listener[a]}
  BY <1>1, <1>3, <1>4
<1>6. \A a \in Addresses : listener'[a] # 0 => listener'[a] \in 1 .. Len(config.nodes)
  BY <1>3, <1>5 DEF FlowInv, FlowType
<1>q. QED
  BY <1>1, <1>2, <1>5, <1>6 DEF FlowInv, FlowType, FirstInv, SlotWhenShort

LEMMA RecvSocketFlow ==
  ASSUME FlowInv, NEW c, NEW k, packet_recv_socket(c, k)
  PROVE  FlowInv'
<1>1. UNCHANGED <<config, capacity, bytes, first, listener, sent>>
  BY DEF packet_recv_socket, Use, vars
<1>2. PICK x \in Addresses : waiting[x] # <<>> /\ waiting' = [waiting EXCEPT ![x] = Tail(@)]
  BY DEF packet_recv_socket
<1>3. Lines' = Lines /\ Pipes' = Pipes /\ Addresses' = Addresses
  BY <1>1, LinksStay
<1>4. /\ waiting \in [Addresses -> Seq(Packet)] /\ BACKLOG \in Nat
      /\ \A a \in Addresses : Len(waiting[a]) <= BACKLOG
  BY SizeAssumption DEF FlowInv, FlowType
<1>5. /\ waiting' \in [Addresses -> Seq(Packet)]
      /\ \A a \in Addresses : Len(waiting'[a]) <= BACKLOG
  <2>1. PICK s, t : s = waiting[x] /\ t = Tail(s)
    OBVIOUS
  <2>2. s \in Seq(Packet) /\ Len(s) <= BACKLOG /\ s # <<>>
    BY <1>2, <1>4, <2>1
  <2>3. t \in Seq(Packet) /\ Len(t) <= BACKLOG
    BY <1>4, <2>1, <2>2
  <2>4. waiting' = [waiting EXCEPT ![x] = t]
    BY <1>2, <2>1
  <2>q. QED
    BY <1>4, <2>3, <2>4
<1>q. QED
  BY <1>1, <1>3, <1>5 DEF FlowInv, FlowType, FirstInv, SlotWhenShort

LEMMA FlowStep ==
  ASSUME NetInv, FlowInv, [LinksNext]_<<vars, linkVars>>
  PROVE  /\ FlowInv'
         /\ \A q \in Pipes : first[q] # None /\ first'[q] = None => got'.packet = first[q]
<1>1. CASE (NetInitNext /\ UNCHANGED linkVars) \/ UNCHANGED <<vars, linkVars>>
  <2>1. config' = config /\ UNCHANGED linkVars
    BY <1>1, ConfigStays DEF vars
  <2>2. Lines' = Lines /\ Pipes' = Pipes /\ Addresses' = Addresses
    BY <2>1, LinksStay
  <2>q. QED
    BY <2>1, <2>2 DEF linkVars, FlowInv, FlowType, FirstInv, SlotWhenShort
<1>2. ASSUME NEW c \in 1 .. Len(child), NEW k \in 1 .. Len(child[c].ports), PortStep(c, k)
      PROVE  /\ FlowInv'
             /\ \A q \in Pipes : first[q] # None /\ first'[q] = None => got'.packet = first[q]
  <2>1. ASSUME NEW length \in 0 .. PAYLOAD_MAX, packet_send_pipe(c, k, length)
        PROVE  FlowInv' /\ \A q \in Pipes : first[q] # None => first'[q] # None
    <3>1. sent < MaxSent
      BY <2>1 DEF packet_send_pipe, Send
    <3>2. PICK p : p = NewPacket(c, k, length)
      OBVIOUS
    <3>3. p # None
      BY <3>1, <3>2, PacketMade, Sizes DEF FlowInv
    <3>4. \/ first' = first
          \/ first' = [first EXCEPT ![PortAt(<<c, k>>).send] = p]
      BY <2>1, <3>2 DEF packet_send_pipe
    <3>5. first \in [Pipes -> Packet \cup {None}]
      BY DEF FlowInv, FlowType
    <3>q. QED
      BY <2>1, <3>3, <3>4, <3>5, SendPipeFlow
  <2>2. ASSUME NEW length \in 0 .. PAYLOAD_MAX, packet_send_socket(c, k, length)
        PROVE  FlowInv' /\ first' = first
    BY <2>2, SendSocketFlow DEF packet_send_socket
  <2>3. CASE packet_recv_pipe(c, k)
    BY <2>3, RecvPipeFlow
  <2>4. CASE setupListeningSocket(c, k)
    <3>1. FlowInv' /\ first' = first
      BY <2>4, ListenFlow DEF setupListeningSocket
    <3>q. QED
      BY <3>1
  <2>5. CASE packet_recv_socket(c, k)
    <3>1. FlowInv' /\ first' = first
      BY <2>5, RecvSocketFlow DEF packet_recv_socket
    <3>q. QED
      BY <3>1
  <2>q. QED
    BY <1>2, <2>1, <2>2, <2>3, <2>4, <2>5 DEF PortStep
<1>q. QED
  BY <1>1, <1>2 DEF LinksNext

LEMMA NetStep ==
  ASSUME NetInv, [LinksNext]_<<vars, linkVars>>
  PROVE  NetInv' /\ [NetInitNext]_vars
<1>1. [NetInitNext]_vars
  <2>1. ASSUME NEW c, NEW k, PortStep(c, k) PROVE UNCHANGED vars
    BY <2>1 DEF PortStep, packet_send_pipe, packet_send_socket, Send, packet_recv_pipe,
                setupListeningSocket, packet_recv_socket, Use
  <2>q. QED
    BY <2>1 DEF LinksNext
<1>q. QED
  BY <1>1, NetInvStep

--------------------------------------------------------------------------------
(* Where packets come from.                                                     *)

\* Port e = <<process, index>> belongs to a process that has its ports.
Held(procs, e, type) ==
  /\ e[1] \in 1 .. Len(procs) /\ procs[e[1]].unseen = <<>>
  /\ e[2] \in 1 .. Len(procs[e[1]].ports) /\ procs[e[1]].ports[e[2]].type = type

\* The packet was sent on this link; the process has a socket port for this address.
SentOn(procs, p, type, link) ==
  Held(procs, p.from, type) /\ procs[p.from[1]].ports[p.from[2]].send = link
Accepts(procs, c, address) ==
  \E k \in 1 .. Len(procs[c].ports) :
    Held(procs, <<c, k>>, "SOCKET") /\ procs[c].ports[k].recv = address

Delivered(procs, g) ==
  \/ /\ Held(procs, g.at, "PIPE")
     /\ SentOn(procs, g.packet, "PIPE", procs[g.at[1]].ports[g.at[2]].recv)
  \/ /\ Held(procs, g.at, "SOCKET")
     /\ \E a \in Addresses : /\ Accepts(procs, g.at[1], a)
                            /\ SentOn(procs, g.packet, "SOCKET", a)

\* Until the user quits: what is on a link was sent on it, by a port that is
\* still there; and so was what was received last.
SourceInv ==
  main # "quit" =>
    /\ \A q \in Pipes : \A i \in 1 .. Len(bytes[q]) : SentOn(child, bytes[q][i][1], "PIPE", q)
    /\ \A a \in Addresses : \A i \in 1 .. Len(waiting[a]) :
         SentOn(child, waiting[a][i], "SOCKET", a)
    /\ \A a \in Addresses : listener[a] # 0 => Accepts(child, listener[a], a)
    /\ got.number > 0 => Delivered(child, got)

\* Later, the processes that had their ports are there.
Keeps(procs, later) ==
  \A c \in 1 .. Len(procs) :
    procs[c].unseen = <<>> => c \in 1 .. Len(later) /\ later[c] = procs[c]

LEMMA HeldStays ==
  ASSUME NEW procs, NEW later, Keeps(procs, later)
  PROVE  /\ \A p, type, link : SentOn(procs, p, type, link) => SentOn(later, p, type, link)
         /\ \A a, c : c \in 1 .. Len(procs) /\ Accepts(procs, c, a) => Accepts(later, c, a)
         /\ \A g : Delivered(procs, g) => Delivered(later, g)
<1>1. \A e, type : Held(procs, e, type) => Held(later, e, type) /\ later[e[1]] = procs[e[1]]
  BY DEF Held, Keeps
<1>2. \A p, type, link : SentOn(procs, p, type, link) => SentOn(later, p, type, link)
  BY <1>1 DEF SentOn
<1>3. ASSUME NEW a, NEW c, Accepts(procs, c, a) PROVE Accepts(later, c, a)
  <2>1. PICK k \in 1 .. Len(procs[c].ports) :
          Held(procs, <<c, k>>, "SOCKET") /\ procs[c].ports[k].recv = a
    BY <1>3 DEF Accepts
  <2>2. <<c, k>>[1] = c
    OBVIOUS
  <2>3. Held(later, <<c, k>>, "SOCKET") /\ later[c] = procs[c]
    BY <1>1, <2>1, <2>2
  <2>q. QED
    BY <2>1, <2>3 DEF Accepts
<1>4. ASSUME NEW g, Delivered(procs, g) PROVE Delivered(later, g)
  BY <1>1, <1>2, <1>3, <1>4 DEF Delivered
<1>q. QED
  BY <1>2, <1>3, <1>4

LEMMA UseHeld ==
  ASSUME NEW c \in 1 .. Len(child), NEW k \in 1 .. Len(child[c].ports), NEW type,
         Use(c, k, type)
  PROVE  /\ Held(child, <<c, k>>, type) /\ PortAt(<<c, k>>) = child[c].ports[k]
         /\ UNCHANGED <<config, main, child>>
         /\ Lines' = Lines /\ Pipes' = Pipes /\ Addresses' = Addresses
<1>1. UNCHANGED <<config, main, child>>
  BY DEF Use, vars
<1>q. QED
  BY <1>1, LinksStay DEF Use, Ready, Held, PortAt

LEMMA SendPipeSource ==
  ASSUME NetInv, FlowInv, SourceInv, main # "quit",
         NEW c \in 1 .. Len(child), NEW k \in 1 .. Len(child[c].ports),
         NEW length \in 0 .. PAYLOAD_MAX, packet_send_pipe(c, k, length)
  PROVE  SourceInv'
<1> DEFINE x == PortAt(<<c, k>>).send
<1>1. PICK p : p = NewPacket(c, k, length)
  OBVIOUS
<1>2. /\ p \in Packet /\ p.from = <<c, k>>
  <2>1. sent < MaxSent
    BY DEF packet_send_pipe, Send
  <2>q. QED
    BY <1>1, <2>1, PacketMade DEF FlowInv
<1>3. /\ Use(c, k, "PIPE") /\ UNCHANGED <<listener, waiting, got>>
      /\ \/ bytes' = [bytes EXCEPT ![x] = Behind(@, p)]
         \/ bytes' = bytes
  BY <1>1 DEF packet_send_pipe, Send, BytesOf, Behind
<1>4. /\ Held(child, <<c, k>>, "PIPE") /\ x = child[c].ports[k].send
      /\ UNCHANGED <<main, child>> /\ Pipes' = Pipes /\ Addresses' = Addresses
  BY <1>3, UseHeld
<1>5. SentOn(child, p, "PIPE", x)
  <2>1. <<c, k>>[1] = c /\ <<c, k>>[2] = k
    OBVIOUS
  <2>q. QED
    BY <1>2, <1>4, <2>1 DEF SentOn
<1>6. bytes \in [Pipes -> Seq(Byte)]
  BY DEF FlowInv, FlowType
<1> HIDE DEF x
<1>7. ASSUME NEW q \in Pipes, NEW i \in 1 .. Len(bytes'[q])
      PROVE  SentOn(child, bytes'[q][i][1], "PIPE", q)
  <2>1. CASE bytes'[q] = bytes[q]
    BY <1>7, <2>1 DEF SourceInv
  <2>2. CASE bytes'[q] # bytes[q]
    <3>1. q = x /\ bytes'[q] = Behind(bytes[q], p)
      BY <1>3, <1>6, <2>2
    <3>2. PICK s, t : s = bytes[q] /\ t = bytes'[q]
      OBVIOUS
    <3>3. s \in Seq(Byte) /\ t = Behind(s, p)
      BY <1>6, <3>1, <3>2
    <3>4. /\ t \in Seq(Byte) /\ \A j \in 1 .. Len(s) : t[j] = s[j]
          /\ \A j \in Len(s) + 1 .. Len(t) : t[j][1] = p
      BY <1>2, <3>3, Written
    <3>5. CASE i <= Len(s)
      <4>1. i \in 1 .. Len(s)
        BY <3>2, <3>3, <3>4, <3>5
      <4>2. SentOn(child, s[i][1], "PIPE", q)
        BY <3>2, <4>1 DEF SourceInv
      <4>q. QED
        BY <3>2, <3>4, <4>1, <4>2
    <3>6. CASE i > Len(s)
      <4>1. i \in Len(s) + 1 .. Len(t)
        BY <3>2, <3>3, <3>4, <3>6
      <4>q. QED
        BY <1>5, <3>1, <3>2, <3>4, <4>1
    <3>q. QED
      BY <3>2, <3>3, <3>4, <3>5, <3>6
  <2>q. QED
    BY <2>1, <2>2
<1>q. QED
  BY <1>3, <1>4, <1>7 DEF SourceInv, Delivered

LEMMA RecvPipeSource ==
  ASSUME NetInv, FlowInv, SourceInv, main # "quit",
         NEW c \in 1 .. Len(child), NEW k \in 1 .. Len(child[c].ports), packet_recv_pipe(c, k)
  PROVE  SourceInv'
<1> DEFINE x == PortAt(<<c, k>>).recv
<1>1. /\ Use(c, k, "PIPE") /\ UNCHANGED <<listener, waiting>> /\ bytes[x] # <<>>
      /\ bytes' = [bytes EXCEPT ![x] = SubSeq(@, Taken(x) + 1, Len(@))]
      /\ got'.at = <<c, k>> /\ got'.packet = Decoded(x, Taken(x))
      /\ got'.number = Decoded(x, Taken(x)).number
  BY DEF packet_recv_pipe, Received
<1>2. /\ Held(child, <<c, k>>, "PIPE") /\ x = child[c].ports[k].recv
      /\ UNCHANGED <<main, child>> /\ Pipes' = Pipes /\ Addresses' = Addresses
  BY <1>1, UseHeld
<1>3. x \in Pipes
  <2>1. PICK i : \/ i \in LinesOf("PIPE") /\ PortAt(<<c, k>>) \in {Near(i), Far(i)}
                 \/ PortAt(<<c, k>>) = Mouth(i)
    BY PortOfLink
  <2>2. PortAt(<<c, k>>).type = "PIPE"
    BY <1>1 DEF Use
  <2>q. QED
    BY <2>1, <2>2 DEF Near, Far, Mouth, Pipes
<1>4. bytes \in [Pipes -> Seq(Byte)]
  BY DEF FlowInv, FlowType
<1> HIDE DEF x
<1>5. PICK s, t : s = bytes[x] /\ t = SubSeq(s, Taken(x) + 1, Len(s))
  OBVIOUS
<1>6. s \in Seq(Byte) /\ s # <<>> /\ bytes' = [bytes EXCEPT ![x] = t]
  BY <1>1, <1>3, <1>4, <1>5
<1>7. /\ Taken(x) \in 0 .. Len(s) /\ t \in Seq(Byte) /\ Len(t) = Len(s) - Taken(x)
      /\ \A i \in 1 .. Len(s) - Taken(x) : i + Taken(x) \in 1 .. Len(s) /\ t[i] = s[i + Taken(x)]
  BY <1>5, <1>6, Read
<1>8. \A i \in 1 .. Len(s) : SentOn(child, s[i][1], "PIPE", x)
  BY <1>3, <1>5 DEF SourceInv
<1>9. ASSUME NEW q \in Pipes, NEW i \in 1 .. Len(bytes'[q])
      PROVE  SentOn(child, bytes'[q][i][1], "PIPE", q)
  <2>1. CASE q # x
    <3>1. bytes'[q] = bytes[q]
      BY <1>4, <1>6, <2>1
    <3>q. QED
      BY <1>9, <3>1 DEF SourceInv
  <2>2. CASE q = x
    <3>1. bytes'[q] = t
      BY <1>4, <1>6, <2>2
    <3>2. i \in 1 .. Len(s) - Taken(x)
      BY <1>7, <1>9, <3>1
    <3>q. QED
      BY <1>7, <1>8, <2>2, <3>1, <3>2
  <2>q. QED
    BY <2>1, <2>2
<1>10. got'.number > 0 => Delivered(child, got')
  <2> SUFFICES ASSUME got'.number > 0 PROVE Delivered(child, got')
    OBVIOUS
  <2>1. Decoded(x, Taken(x)) = s[1][1]
    <3>1. Garbled.number = -1
      BY DEF Garbled
    <3>q. QED
      BY <1>1, <1>5, <3>1 DEF Decoded
  <2>2. 1 \in 1 .. Len(s)
    BY <1>6
  <2>3. SentOn(child, got'.packet, "PIPE", x)
    BY <1>1, <1>8, <2>1, <2>2
  <2>4. <<c, k>>[1] = c /\ <<c, k>>[2] = k
    OBVIOUS
  <2>q. QED
    BY <1>1, <1>2, <2>3, <2>4 DEF Delivered
<1>11. Delivered(child, got') => Delivered(child, got)'
  BY <1>2 DEF Delivered
<1>q. QED
  BY <1>1, <1>2, <1>9, <1>10, <1>11 DEF SourceInv

LEMMA SendSocketSource ==
  ASSUME NetInv, FlowInv, SourceInv, main # "quit",
         NEW c \in 1 .. Len(child), NEW k \in 1 .. Len(child[c].ports),
         NEW length \in 0 .. PAYLOAD_MAX, packet_send_socket(c, k, length)
  PROVE  SourceInv'
<1> DEFINE x == PortAt(<<c, k>>).send
<1>1. PICK p : p = NewPacket(c, k, length)
  OBVIOUS
<1>2. /\ p \in Packet /\ p.from = <<c, k>>
  <2>1. sent < MaxSent
    BY DEF packet_send_socket, Send
  <2>q. QED
    BY <1>1, <2>1, PacketMade DEF FlowInv
<1>3. /\ Use(c, k, "SOCKET") /\ UNCHANGED <<listener, bytes, got>>
      /\ \/ waiting' = [waiting EXCEPT ![x] = Append(@, p)]
         \/ waiting' = waiting
  BY <1>1 DEF packet_send_socket, Send
<1>4. /\ Held(child, <<c, k>>, "SOCKET") /\ x = child[c].ports[k].send
      /\ UNCHANGED <<main, child>> /\ Pipes' = Pipes /\ Addresses' = Addresses
  BY <1>3, UseHeld
<1>5. SentOn(child, p, "SOCKET", x)
  <2>1. <<c, k>>[1] = c /\ <<c, k>>[2] = k
    OBVIOUS
  <2>q. QED
    BY <1>2, <1>4, <2>1 DEF SentOn
<1>6. waiting \in [Addresses -> Seq(Packet)]
  BY DEF FlowInv, FlowType
<1> HIDE DEF x
<1>7. ASSUME NEW a \in Addresses, NEW i \in 1 .. Len(waiting'[a])
      PROVE  SentOn(child, waiting'[a][i], "SOCKET", a)
  <2>1. CASE waiting'[a] = waiting[a]
    BY <1>7, <2>1 DEF SourceInv
  <2>2. CASE waiting'[a] # waiting[a]
    <3>1. a = x /\ waiting'[a] = Append(waiting[a], p)
      BY <1>3, <1>6, <2>2
    <3>2. PICK s, t : s = waiting[a] /\ t = waiting'[a]
      OBVIOUS
    <3>3. s \in Seq(Packet) /\ t = Append(s, p)
      BY <1>6, <3>1, <3>2
    <3>4. (i \in 1 .. Len(s) /\ t[i] = s[i]) \/ t[i] = p
      BY <1>2, <1>7, <3>2, <3>3
    <3>5. \A j \in 1 .. Len(s) : SentOn(child, s[j], "SOCKET", a)
      BY <3>2 DEF SourceInv
    <3>q. QED
      BY <1>5, <3>1, <3>2, <3>4, <3>5
  <2>q. QED
    BY <2>1, <2>2
<1>q. QED
  BY <1>3, <1>4, <1>7 DEF SourceInv, Delivered

LEMMA ListenSource ==
  ASSUME NetInv, FlowInv, SourceInv, main # "quit",
         NEW c \in 1 .. Len(child), NEW k \in 1 .. Len(child[c].ports),
         setupListeningSocket(c, k)
  PROVE  SourceInv'
<1> DEFINE x == PortAt(<<c, k>>).recv
<1>1. /\ Use(c, k, "SOCKET") /\ UNCHANGED <<bytes, waiting, got>>
      /\ listener' = IF listener[x] = 0 THEN [listener EXCEPT ![x] = c] ELSE listener
  BY DEF setupListeningSocket
<1>2. /\ Held(child, <<c, k>>, "SOCKET") /\ x = child[c].ports[k].recv
      /\ UNCHANGED <<main, child>> /\ Pipes' = Pipes /\ Addresses' = Addresses
  BY <1>1, UseHeld
<1>3. Accepts(child, c, x)
  BY <1>2 DEF Accepts
<1>4. listener \in [Addresses -> Nat]
  BY DEF FlowInv, FlowType
<1> HIDE DEF x
<1>5. ASSUME NEW a \in Addresses, listener'[a] # 0
      PROVE  Accepts(child, listener'[a], a)
  <2>1. listener'[a] = listener[a] \/ (a = x /\ listener'[a] = c)
    BY <1>1, <1>4
  <2>q. QED
    BY <1>3, <1>5, <2>1 DEF SourceInv
<1>q. QED
  BY <1>1, <1>2, <1>5 DEF SourceInv, Delivered, Accepts

LEMMA RecvSocketSource ==
  ASSUME NetInv, FlowInv, SourceInv, main # "quit",
         NEW c \in 1 .. Len(child), NEW k \in 1 .. Len(child[c].ports),
         packet_recv_socket(c, k)
  PROVE  SourceInv'
<1>1. PICK x \in Addresses :
        /\ listener[x] = c /\ waiting[x] # <<>>
        /\ waiting' = [waiting EXCEPT ![x] = Tail(@)]
        /\ Received(c, k, Head(waiting[x]))
  BY DEF packet_recv_socket
<1>2. /\ Use(c, k, "SOCKET") /\ UNCHANGED <<bytes, listener>>
      /\ got'.at = <<c, k>> /\ got'.packet = Head(waiting[x])
  BY <1>1 DEF packet_recv_socket, Received
<1>3. /\ Held(child, <<c, k>>, "SOCKET")
      /\ UNCHANGED <<main, child>> /\ Pipes' = Pipes /\ Addresses' = Addresses
  BY <1>2, UseHeld
<1>4. waiting \in [Addresses -> Seq(Packet)]
  BY DEF FlowInv, FlowType
<1>5. PICK s, t : s = waiting[x] /\ t = Tail(s)
  OBVIOUS
<1>6. /\ s \in Seq(Packet) /\ s # <<>> /\ waiting' = [waiting EXCEPT ![x] = t]
      /\ \A j \in 1 .. Len(s) : SentOn(child, s[j], "SOCKET", x)
  BY <1>1, <1>4, <1>5 DEF SourceInv
<1>7. Head(s) = s[1] /\ 1 \in 1 .. Len(s) /\ \A j \in 1 .. Len(t) : j + 1 \in 1 .. Len(s) /\ t[j] = s[j + 1]
  BY <1>5, <1>6
<1>8. ASSUME NEW a \in Addresses, NEW i \in 1 .. Len(waiting'[a])
      PROVE  SentOn(child, waiting'[a][i], "SOCKET", a)
  <2>1. CASE a # x
    <3>1. waiting'[a] = waiting[a]
      BY <1>4, <1>6, <2>1
    <3>q. QED
      BY <1>8, <3>1 DEF SourceInv
  <2>2. CASE a = x
    <3>1. waiting'[a] = t
      BY <1>4, <1>6, <2>2
    <3>q. QED
      BY <1>6, <1>7, <1>8, <2>2, <3>1
  <2>q. QED
    BY <2>1, <2>2
<1>9. Delivered(child, got')
  <2>1. SentOn(child, got'.packet, "SOCKET", x)
    BY <1>2, <1>5, <1>6, <1>7
  <2>2. c # 0
    OBVIOUS
  <2>3. Accepts(child, c, x)
    BY <1>1, <2>2 DEF SourceInv
  <2>4. <<c, k>>[1] = c
    OBVIOUS
  <2>q. QED
    BY <1>2, <1>3, <2>1, <2>3, <2>4 DEF Delivered
<1>10. Delivered(child, got') => Delivered(child, got)'
  BY <1>3 DEF Delivered
<1>q. QED
  BY <1>2, <1>3, <1>8, <1>9, <1>10 DEF SourceInv

LEMMA SourceStep ==
  ASSUME NetInv, FlowInv, SourceInv, [LinksNext]_<<vars, linkVars>>
  PROVE  SourceInv'
<1>1. CASE main' = "quit"
  BY <1>1 DEF SourceInv
<1>2. CASE main' # "quit" /\ UNCHANGED linkVars
  <2>1. main # "quit" /\ Keeps(child, child') /\ config' = config
    BY <1>2, NetStep, PortsStay, ConfigStays DEF Keeps, Ready
  <2>2. /\ Lines' = Lines /\ Pipes' = Pipes /\ Addresses' = Addresses
        /\ UNCHANGED <<bytes, listener, waiting, got>>
    BY <1>2, <2>1, LinksStay DEF linkVars
  <2>3. PICK procs, later : procs = child /\ later = child'
    OBVIOUS
  <2>4. /\ \A p, type, link : SentOn(procs, p, type, link) => SentOn(later, p, type, link)
        /\ \A a, c : c \in 1 .. Len(procs) /\ Accepts(procs, c, a) => Accepts(later, c, a)
        /\ \A g : Delivered(procs, g) => Delivered(later, g)
    BY <2>1, <2>3, HeldStays
  <2>5. /\ \A q \in Pipes : \A i \in 1 .. Len(bytes[q]) : SentOn(later, bytes[q][i][1], "PIPE", q)
        /\ \A a \in Addresses : \A i \in 1 .. Len(waiting[a]) :
             SentOn(later, waiting[a][i], "SOCKET", a)
        /\ got.number > 0 => Delivered(later, got)
    BY <2>1, <2>3, <2>4 DEF SourceInv
  <2>6. ASSUME NEW a \in Addresses, listener[a] # 0 PROVE Accepts(later, listener[a], a)
    <3>1. Accepts(procs, listener[a], a)
      BY <2>1, <2>3, <2>6 DEF SourceInv
    <3>2. PICK k \in 1 .. Len(procs[listener[a]].ports) : Held(procs, <<listener[a], k>>, "SOCKET")
      BY <3>1 DEF Accepts
    <3>3. <<listener[a], k>>[1] = listener[a]
      OBVIOUS
    <3>4. listener[a] \in 1 .. Len(procs)
      BY <3>2, <3>3 DEF Held
    <3>q. QED
      BY <2>4, <3>1, <3>4
  <2>7. Delivered(later, got) => Delivered(child, got)'
    BY <2>2, <2>3 DEF Delivered
  <2>q. QED
    BY <2>2, <2>3, <2>5, <2>6, <2>7 DEF SourceInv
<1>3. ASSUME main # "quit", NEW c \in 1 .. Len(child), NEW k \in 1 .. Len(child[c].ports),
             PortStep(c, k)
      PROVE  SourceInv'
  BY <1>3, SendPipeSource, SendSocketSource, RecvPipeSource, ListenSource, RecvSocketSource
     DEF PortStep
<1>4. main # "quit" \/ main' = "quit"
  BY NetStep, PortsStay
<1>q. QED
  BY <1>1, <1>2, <1>3, <1>4 DEF LinksNext

\* A set of at most one element.
LEMMA AtMostOneElement ==
  ASSUME NEW S, IsFiniteSet(S), Cardinality(S) <= 1, NEW x \in S, NEW y \in S
  PROVE  x = y
<1> SUFFICES ASSUME x # y PROVE FALSE
  OBVIOUS
<1>1. IsFiniteSet({x}) /\ Cardinality({x}) = 1
  BY FS_Singleton
<1>2. {x} \in SUBSET S /\ Cardinality(S) \in Nat /\ Cardinality({x}) <= Cardinality(S)
  BY FS_Subset, FS_CardinalityType
<1>3. Cardinality({x}) = Cardinality(S)
  BY <1>1, <1>2
<1>4. S = {x}
  BY <1>2, <1>3, FS_Subset
<1>q. QED
  BY <1>4

\* A port that is held is an end of a link, on the node of its process.
LEMMA HeldEnd ==
  ASSUME NetInv, NEW e, NEW type, Held(child, e, type)
  PROVE  /\ PortAt(e) = child[e[1]].ports[e[2]] /\ IdAt(e) = PortAt(e).host
         /\ type = "PIPE" => \E i \in LinesOf("PIPE") : PortAt(e) \in {Near(i), Far(i)}
         /\ type = "SOCKET" => \E i \in LinesOf("SOCKET") : PortAt(e) = Mouth(i)
<1>0. PICK c \in 1 .. Len(child) : c = e[1] /\ e[2] \in 1 .. Len(child[c].ports)
  BY DEF Held
<1>1. PICK k \in 1 .. Len(child[c].ports) : c = e[1] /\ k = e[2]
  BY <1>0
<1>2. PortAt(<<c, k>>) = child[c].ports[k] /\ PortAt(e) = child[c].ports[k]
  BY <1>1 DEF PortAt
<1>3. IdAt(e) = child[c].node.id
  BY <1>1 DEF IdAt
<1>4. PortAt(e).type = type
  BY <1>1, <1>2 DEF Held
<1>5. /\ PortAt(e).host = child[c].node.id
      /\ \/ \E i \in LinesOf("PIPE") : PortAt(e) \in {Near(i), Far(i)}
         \/ \E i \in LinesOf("SOCKET") : PortAt(e) = Mouth(i)
  BY <1>2, PortOfLink
<1>6. \A i : Near(i).type = "PIPE" /\ Far(i).type = "PIPE" /\ Mouth(i).type = "SOCKET"
  BY DEF Near, Far, Mouth
<1> HIDE DEF Near, Far, Mouth
<1>q. QED
  BY <1>1, <1>2, <1>3, <1>4, <1>5, <1>6

LEMMA PeerFollows == NetInv /\ SourceInv => FromPeer
<1> SUFFICES ASSUME NetInv, SourceInv, got.number > 0, child # <<>>
             PROVE  /\ Linked(IdAt(got.packet.from), IdAt(got.at))
                    /\ OneSocket(got.at[1]) =>
                         PortAt(got.packet.from).send = PortAt(got.at).recv
  BY DEF FromPeer
<1> DEFINE e == got.packet.from
           f == got.at
<1>1. Delivered(child, got)
  BY DEF NetInv, SourceInv
<1>2. \A i : /\ Near(i).send = <<i, "fd01">> /\ Near(i).recv = <<i, "fd10">>
             /\ Far(i).send = <<i, "fd10">> /\ Far(i).recv = <<i, "fd01">>
             /\ Near(i).host = config.links[i].node0 /\ Far(i).host = config.links[i].node1
             /\ Mouth(i).send = config.links[i].to /\ Mouth(i).recv = config.links[i].listen
             /\ Mouth(i).host = config.links[i].node0
  BY DEF Near, Far, Mouth
<1>3. Lines = config.links
  BY <1>1, FileOfProcess DEF Delivered, Held
<1> HIDE DEF e, f
<1>4. CASE /\ Held(child, f, "PIPE")
           /\ SentOn(child, got.packet, "PIPE", child[f[1]].ports[f[2]].recv)
  <2>1. Held(child, e, "PIPE") /\ child[e[1]].ports[e[2]].send = child[f[1]].ports[f[2]].recv
    BY <1>4 DEF SentOn, e
  <2>2. PICK i \in LinesOf("PIPE") : PortAt(e) \in {Near(i), Far(i)}
    BY <2>1, HeldEnd
  <2>3. PICK j \in LinesOf("PIPE") : PortAt(f) \in {Near(j), Far(j)}
    BY <1>4, HeldEnd
  <2>4. PortAt(e).send = PortAt(f).recv /\ IdAt(e) = PortAt(e).host /\ IdAt(f) = PortAt(f).host
    BY <1>4, <2>1, HeldEnd
  <2>5. \/ i = j /\ PortAt(e) = Near(i) /\ PortAt(f) = Far(i)
        \/ i = j /\ PortAt(e) = Far(i) /\ PortAt(f) = Near(i)
    BY <1>2, <2>2, <2>3, <2>4
  <2>6. {IdAt(e), IdAt(f)} = {Lines[i].node0, Lines[i].node1}
    BY <1>2, <1>3, <2>4, <2>5
  <2>7. Linked(IdAt(e), IdAt(f))
    BY <2>6 DEF Linked
  <2>q. QED
    BY <2>4, <2>7 DEF e, f
<1>5. CASE /\ Held(child, f, "SOCKET")
           /\ \E a \in Addresses : /\ Accepts(child, f[1], a)
                                  /\ SentOn(child, got.packet, "SOCKET", a)
  <2>1. PICK a \in Addresses : Accepts(child, f[1], a) /\ SentOn(child, got.packet, "SOCKET", a)
    BY <1>5
  <2>2. Held(child, e, "SOCKET") /\ child[e[1]].ports[e[2]].send = a
    BY <2>1 DEF SentOn, e
  <2>3. PICK k \in 1 .. Len(child[f[1]].ports) :
          Held(child, <<f[1], k>>, "SOCKET") /\ child[f[1]].ports[k].recv = a
    BY <2>1 DEF Accepts
  <2> DEFINE h == <<f[1], k>>
  <2>4. h = <<f[1], k>> /\ h[1] = f[1] /\ h[2] = k
    OBVIOUS
  <2> HIDE DEF h
  <2>5. PICK i \in LinesOf("SOCKET") : PortAt(e) = Mouth(i)
    BY <2>2, HeldEnd
  <2>6. PICK j \in LinesOf("SOCKET") : PortAt(h) = Mouth(j)
    BY <2>3, <2>4, HeldEnd
  <2>7. /\ PortAt(e).send = a /\ IdAt(e) = PortAt(e).host
        /\ PortAt(h).recv = a /\ IdAt(h) = PortAt(h).host
    BY <2>2, <2>3, <2>4, HeldEnd
  <2>8. IdAt(f) = IdAt(h)
    BY <2>4 DEF IdAt
  <2>9. Linked(IdAt(e), IdAt(f))
    <3>1. Lines[i].node0 = IdAt(e) /\ Lines[i].to = a
      BY <1>2, <1>3, <2>5, <2>7
    <3>2. Lines[j].node0 = IdAt(f) /\ Lines[j].listen = a
      BY <1>2, <1>3, <2>6, <2>7, <2>8
    <3>q. QED
      BY <3>1, <3>2 DEF Linked
  <2>10. OneSocket(f[1]) => PortAt(f).recv = a
    <3> SUFFICES ASSUME OneSocket(f[1]) PROVE PortAt(f).recv = a
      OBVIOUS
    <3> DEFINE K == {n \in 1 .. Len(child[f[1]].ports) : PortAt(<<f[1], n>>).type = "SOCKET"}
    <3>1. \A n : PortAt(<<f[1], n>>) = child[f[1]].ports[n]
      BY DEF PortAt
    <3>2. k \in K
      BY <2>3, <2>4, <3>1 DEF Held
    <3>3. f[2] \in K
      BY <1>5, <3>1 DEF Held
    <3>4. IsFiniteSet(K)
      <4>1. child \in Seq(NodeProcess) /\ f[1] \in 1 .. Len(child)
        BY <1>5 DEF NetInv, IInv, TypeOK, NodeProcess, Held
      <4>2. child[f[1]] \in NodeProcess
        BY <4>1
      <4>3. child[f[1]].ports \in Seq(NetPort)
        BY <4>2 DEF NodeProcess
      <4>4. IsFiniteSet(1 .. Len(child[f[1]].ports))
        BY <4>3, FS_Interval
      <4>q. QED
        BY <4>4, FS_Subset
    <3>5. Cardinality(K) <= 1
      BY DEF OneSocket
    <3> HIDE DEF K
    <3>6. k = f[2]
      BY <3>2, <3>3, <3>4, <3>5, AtMostOneElement
    <3>q. QED
      BY <2>3, <3>6 DEF PortAt
  <2>q. QED
    BY <2>7, <2>9, <2>10 DEF e, f
<1>q. QED
  BY <1>1, <1>4, <1>5 DEF Delivered, f

--------------------------------------------------------------------------------
(* The theorems.                                                                *)

LinksInv == NetInv /\ FlowInv /\ SourceInv

LEMMA LinksAlways == LinksSpec => []LinksInv
<1>1. LinksInit => LinksInv
  <2> SUFFICES ASSUME LinksInit PROVE LinksInv
    OBVIOUS
  <2>1. NetInv /\ FlowInv
    BY NetInvInit, FlowInit DEF LinksInit
  <2>2. /\ \A q \in Pipes : Len(bytes[q]) = 0
        /\ \A a \in Addresses : Len(waiting[a]) = 0 /\ listener[a] = 0
        /\ ~(got.number > 0)
    BY DEF LinksInit, None
  <2>q. QED
    BY <2>1, <2>2 DEF LinksInv, SourceInv
<1>2. LinksInv /\ [LinksNext]_<<vars, linkVars>> => LinksInv'
  BY NetStep, FlowStep, SourceStep DEF LinksInv
<1>q. QED
  BY <1>1, <1>2, PTL DEF LinksSpec

\* The variables of Links hold what they should: pipes and the connections that
\* wait are within their limits (pipe(7), listen(2)), and an address is listened
\* to by one process of this program at most.
THEOREM LinksTypeCorrect == LinksSpec => []LinksTypeOK
<1>1. LinksInv => LinksTypeOK
  <2> SUFFICES ASSUME LinksInv PROVE LinksTypeOK
    OBVIOUS
  <2>1. /\ TypeOK /\ FlowType
    BY DEF LinksInv, NetInv, IInv, FlowInv
  <2>2. ASSUME NEW a \in Addresses PROVE listener[a] \in 0 .. Len(config.nodes)
    <3>1. config # NoConfig
      BY <2>2 DEF Addresses, LinesOf, Lines
    <3>2. config \in Configuration
      BY <2>1, <3>1, ConfigAssumption DEF TypeOK
    <3>3. Len(config.nodes) \in Nat
      BY <3>2 DEF Configuration
    <3>q. QED
      BY <2>1, <3>3 DEF FlowType
  <2>q. QED
    BY <2>1, <2>2 DEF LinksTypeOK, FlowType, Byte
<1>q. QED
  BY <1>1, LinksAlways, PTL

\* Whatever is received over a pipe or a socket was sent by a neighbour that the
\* configuration gives the process (packet_recv), from the first process that
\* runs to the user's quit.
THEOREM AlwaysFromPeer == LinksSpec => []FromPeer
<1>1. LinksInv => FromPeer
  BY PeerFollows DEF LinksInv
<1>q. QED
  BY <1>1, LinksAlways, PTL

\* A pipe that is no longer than one read keeps its first packet (packet_recv
\* reads it empty), as the slots of SwitchNet do.
THEOREM SlotAlways == LinksSpec => []SlotWhenShort
<1>1. LinksInv => SlotWhenShort
  BY DEF LinksInv, FlowInv
<1>q. QED
  BY <1>1, LinksAlways, PTL

\* What was written into an empty pipe is received whole (packet_recv), for
\* every size of the pipe and every length of the packets behind it.
THEOREM FirstAlwaysWhole == LinksSpec => FirstWhole
<1>1. LinksInv /\ [LinksNext]_<<vars, linkVars>> =>
        [\A q \in Pipes : first[q] # None /\ first'[q] = None => got'.packet = first[q]]_linkVars
  BY FlowStep DEF LinksInv
<1>q. QED
  BY <1>1, LinksAlways, PTL DEF LinksSpec, FirstWhole
================================================================================
