------------------------------- MODULE SwitchNet -------------------------------
(***************************************************************************)
(* A network of SWITCH nodes (src/switch2.c) and the pipes between them    *)
(* (src/packet.c, src/net.c).  Every switch is a process that repeats one  *)
(* loop for ever: perhaps queue a control packet, poll each port once,     *)
(* execute one job, sleep.  Processes share nothing but the pipes, so a    *)
(* step of the model is what one process does around one access to the     *)
(* pipes: the poll of one port, or the execution of one job and the way    *)
(* from there to the next poll, over the top of the loop.                  *)
(*                                                                         *)
(* HOST and SERVER nodes are leaves.  What they do to the network is       *)
(* modelled here: they send control packets, they send packets, and they   *)
(* read packets and drop those that are not theirs.  What they compute is  *)
(* the subject of the other modules.                                       *)
(*                                                                         *)
(* Packets are the 8-byte ones (control packets, pings): length is 0.      *)
(***************************************************************************)
EXTENDS Integers, Sequences, FiniteSets

CONSTANTS
  Switch,         \* ids of the SWITCH nodes
  Leaf,           \* ids of the HOST and SERVER nodes
  Dst,            \* the ids that users address, of existing nodes or not
  NumPorts,       \* node_port_num of every node
  Peer,           \* the port at the other end of the link of every port
  CONTROL_COUNT,  \* iterations of the loop between two control packets
  MaxData,        \* bound: number of packets the leaves send altogether
  NoPacket        \* the content of a pipe with nothing to read

Node == Switch \cup Leaf
Id   == Node \cup Dst

\* Index k of node n's node_port[] array.  -1 is "no port" in the code.
PortIndex(n) == 0 .. NumPorts[n] - 1
NoPort == -1

\* A port is named by the node that reads it and its index there.
Port == UNION {{n} \X PortIndex(n) : n \in Node}

SwitchPort == {p \in Port : p[1] \in Switch}

\* The node at the other end of port k of n.
Neighbour(n, k) == Peer[<<n, k>>][1]

ASSUME NodeAssumption ==
  /\ Switch \subseteq Nat /\ Leaf \subseteq Nat /\ Dst \subseteq Nat
  /\ Switch \cap Leaf = {}

\* No configuration file links a node to itself; a link is bidirectional.
ASSUME LinkAssumption ==
  /\ NumPorts \in [Node -> Nat]
  /\ Peer \in [Port -> Port]
  /\ \A p \in Port : Peer[Peer[p]] = p /\ Peer[p][1] # p[1]

\* A configuration file lists finitely many nodes.
ASSUME FiniteAssumption == IsFiniteSet(Switch)

ASSUME BoundAssumption ==
  /\ CONTROL_COUNT \in Nat \ {0}
  /\ MaxData \in Nat

--------------------------------------------------------------------------------
(* struct packet, as far as a switch or a leaf looks at it.                     *)

\* The control packet of a switch carries the root it believes in and its
\* distance to it; child tells the receiver "you are my parent".
SwitchControl ==
  [type : {"control"}, src : Switch, sender : {"S"},
   root : Switch, dist : Nat, child : BOOLEAN]

\* The control packet of a host or server only says that it is there.
LeafControl == [type : {"control"}, src : Leaf, sender : {"H"}]

Data == [type : {"data"}, src : Leaf, dst : Dst, id : 1 .. MaxData]

Packet == SwitchControl \cup LeafControl \cup Data

ASSUME NoPacketAssumption == NoPacket \notin Packet

\* struct switch_job.  in_port_index and out_port_index are -1 where the code
\* leaves them unset: no branch reads them there.
Job ==
  [type : {"all", "forward"}, packet : SwitchControl \cup Data,
   in : Int, out : Int]

VARIABLES
  localRootID,     \* the root each switch believes in
  localRootDist,   \* and its distance to it
  localParent,     \* index of the port towards the root, -1 at a root
  localPortTree,   \* which ports belong to the spanning tree (YES / NO)
  lookupTable,     \* port towards an id, -1 while isValid is False
  controlCount,
  jobs,            \* job_q
  scan,            \* where in its loop a switch is: before the poll of port
                   \* k, or, after the last port, before it executes a job
  pipe,            \* what the next read of each port returns
  sent,            \* number of packets the leaves have sent
  delivered        \* how often each packet reached its destination, up to 2

electionVars == <<localRootID, localRootDist, localParent, localPortTree>>
\* The members of a queue.
Items(q) == {q[i] : i \in 1 .. Len(q)}

vars == <<electionVars, lookupTable, controlCount, jobs, scan, pipe,
          sent, delivered>>

--------------------------------------------------------------------------------
(* The pipes.  A read takes up to 108 bytes, all that is waiting, decodes the   *)
(* packet at the front and throws the rest away.  As long as a reader is at     *)
(* most 13 of these packets behind, a packet written while another one waits    *)
(* is therefore lost, and the pipe is a slot that keeps its first packet.       *)

Write(content, packet) == IF content = NoPacket THEN packet ELSE content

\* Node n sends packet[k] on each port k of the set ports.
Send(n, ports, packet) ==
  [p \in Port |->
     IF Peer[p][1] = n /\ Peer[p][2] \in ports
       THEN Write(pipe[p], packet[Peer[p][2]])
       ELSE pipe[p]]

--------------------------------------------------------------------------------
\* The root and distance are copied when the packet is made; child is filled
\* in for each port when it is sent.
ControlJob(s) ==
  [type |-> "all", in |-> NoPort, out |-> NoPort,
   packet |-> [type |-> "control", src |-> s, sender |-> "S",
               root |-> localRootID[s], dist |-> localRootDist[s],
               child |-> FALSE]]

\* The top of the loop, for a switch with queue q whose counter is at n: every
\* CONTROL_COUNT iterations, queue a control packet.
TopCountLate(n) == IF n > CONTROL_COUNT THEN 0 ELSE n + 1  \* mutated
TopCount(n) == IF n + 1 >= CONTROL_COUNT THEN 0 ELSE n + 1
TopQueue(s, n, q) == IF n + 1 >= CONTROL_COUNT THEN Append(q, ControlJob(s)) ELSE q

\* Every switch has passed the top of its loop for the first time.
Init ==
  /\ localRootID   = [s \in Switch |-> s]
  /\ localRootDist = [s \in Switch |-> 0]
  /\ localParent   = [s \in Switch |-> NoPort]
  /\ localPortTree = [p \in SwitchPort |-> FALSE]
  /\ lookupTable   = [s \in Switch |-> [d \in Id |-> NoPort]]
  /\ controlCount  = [s \in Switch |-> TopCount(0)]
  /\ jobs          = [s \in Switch |-> TopQueue(s, 0, <<>>)]
  /\ scan          = [s \in Switch |-> 0]
  /\ pipe          = [p \in Port |-> NoPacket]
  /\ sent          = 0
  /\ delivered     = [i \in 1 .. MaxData |-> 0]

\* Poll port scan[s] of s and find there one of the contents S.
Poll(s, S) ==
  /\ scan[s] \in PortIndex(s)
  /\ pipe[<<s, scan[s]>>] \in S
  /\ scan' = [scan EXCEPT ![s] = @ + 1]
  /\ pipe' = [pipe EXCEPT ![<<s, scan[s]>>] = NoPacket]
  /\ UNCHANGED <<controlCount, sent, delivered>>

RecvNothing(s) ==
  /\ Poll(s, {NoPacket})
  /\ UNCHANGED <<electionVars, lookupTable, jobs>>

LearnNot(s, id, k) == UNCHANGED lookupTable  \* mutated: nothing is learned

\* Mutated: the table follows the last packet instead of the first.
LearnLast(s, id, k) == lookupTable' = [lookupTable EXCEPT ![s][id] = k]

\* The first port a packet of id came in from is kept for ever.
Learn(s, id, k) ==
  lookupTable' = IF lookupTable[s][id] = NoPort
                   THEN [lookupTable EXCEPT ![s][id] = k]
                   ELSE lookupTable

\* Mutated: a route to the same root is always taken.
BetterAnyDist(s, c) == c.root <= localRootID[s]

\* Is the route through the sender of c better than the one s has?
Better(s, c) ==
  \/ c.root < localRootID[s]
  \/ c.root = localRootID[s] /\ localRootDist[s] > c.dist + 1

RecvSwitchControl(s) ==
  LET k == scan[s]
      c == pipe[<<s, k>>]
  IN /\ Poll(s, SwitchControl)
     /\ IF Better(s, c)
          THEN /\ localRootID'   = [localRootID EXCEPT ![s] = c.root]
               /\ localRootDist' = [localRootDist EXCEPT ![s] = c.dist + 1]
               /\ localParent'   = [localParent EXCEPT ![s] = k]
          ELSE UNCHANGED <<localRootID, localRootDist, localParent>>
     /\ localPortTree' = [localPortTree EXCEPT
                            ![<<s, k>>] = localParent'[s] = k \/ c.child]
     /\ Learn(s, c.src, k)
     /\ UNCHANGED jobs

RecvLeafControl(s) ==
  LET k == scan[s]
  IN /\ Poll(s, LeafControl)
     /\ localPortTree' = [localPortTree EXCEPT ![<<s, k>>] = TRUE]
     /\ Learn(s, pipe[<<s, k>>].src, k)
     /\ UNCHANGED <<localRootID, localRootDist, localParent, jobs>>

\* Forward a packet for a known destination, otherwise flood it; the choice is
\* made when the packet is read, with the table as it is then.
DataJob(s, k, d) ==
  IF lookupTable[s][d.dst] # NoPort
    THEN [type |-> "forward", packet |-> d, in |-> k,
          out |-> lookupTable[s][d.dst]]
    ELSE [type |-> "all", packet |-> d, in |-> k, out |-> NoPort]

\* Mutated: a packet for a known destination is flooded as well.
RecvDataBoth(s) ==
  LET k == scan[s]
      d == pipe[<<s, k>>]
      all == [type |-> "all", packet |-> d, in |-> k, out |-> NoPort]
  IN /\ Poll(s, Data)
     /\ jobs' = [jobs EXCEPT ![s] = IF DataJob(s, k, d) = all THEN Append(@, all)
                                    ELSE @ \o <<DataJob(s, k, d), all>>]
     /\ Learn(s, d.src, k)
     /\ UNCHANGED electionVars

RecvData(s) ==
  LET k == scan[s]
      d == pipe[<<s, k>>]
  IN /\ Poll(s, Data)
     /\ jobs' = [jobs EXCEPT ![s] = Append(@, DataJob(s, k, d))]
     /\ Learn(s, d.src, k)
     /\ UNCHANGED electionVars

\* The ports a job is sent on.
OutPorts(s, j) ==
  IF j.type = "forward" THEN {j.out}
  ELSE IF j.packet.type = "control" THEN PortIndex(s)
  ELSE {k \in PortIndex(s) :
          /\ localPortTree[<<s, k>>] \/ localParent[s] = NoPort
          /\ k # j.in}

\* Mutated: once set, child stays set for the ports that follow.
OutgoingSticky(s, j, k) ==
  IF j.packet.type = "control"
    THEN [j.packet EXCEPT !.child = localParent[s] \in 0 .. k]
    ELSE j.packet

\* Mutated: child is never set.
OutgoingOrphan(s, j, k) == j.packet

\* The packet of a job as it leaves through port k.
Outgoing(s, j, k) ==
  IF j.packet.type = "control"
    THEN [j.packet EXCEPT !.child = localParent[s] = k]
    ELSE j.packet

\* Execute the job at the head of the queue, if any, sleep, and begin the next
\* iteration.
Execute(s) ==
  LET j    == Head(jobs[s])
      rest == IF jobs[s] = <<>> THEN <<>> ELSE Tail(jobs[s])
  IN /\ scan[s] = NumPorts[s]
     /\ scan' = [scan EXCEPT ![s] = 0]
     /\ pipe' = IF jobs[s] = <<>> THEN pipe
                ELSE Send(s, OutPorts(s, j),
                          [k \in PortIndex(s) |-> Outgoing(s, j, k)])
     /\ jobs' = [jobs EXCEPT ![s] = TopQueue(s, controlCount[s], rest)]
     /\ controlCount' = [controlCount EXCEPT ![s] = TopCount(@)]
     /\ UNCHANGED <<electionVars, lookupTable, sent, delivered>>

--------------------------------------------------------------------------------
(* The leaves.                                                                  *)

Broadcast(h, packet) ==
  pipe' = Send(h, PortIndex(h), [k \in PortIndex(h) |-> packet])

\* A host or server executes the job that carries its control packet.
LeafControlSend(h) ==
  /\ Broadcast(h, [type |-> "control", src |-> h, sender |-> "H"])
  /\ UNCHANGED <<electionVars, lookupTable, controlCount, jobs, scan,
                 sent, delivered>>

\* It executes a job that carries a packet for d.
LeafDataSend(h, d) ==
  /\ sent < MaxData
  /\ sent' = sent + 1
  /\ Broadcast(h, [type |-> "data", src |-> h, dst |-> d, id |-> sent + 1])
  /\ UNCHANGED <<electionVars, lookupTable, controlCount, jobs, scan,
                 delivered>>


\* It reads port k; it looks only at packets that carry its own id.
LeafRecv(h, k) ==
  LET c == pipe[<<h, k>>]
  IN /\ c # NoPacket
     /\ pipe' = [pipe EXCEPT ![<<h, k>>] = NoPacket]
     /\ delivered' = IF c \in Data /\ c.dst = h /\ delivered[c.id] < 2
                       THEN [delivered EXCEPT ![c.id] = @ + 1]
                       ELSE delivered
     /\ UNCHANGED <<electionVars, lookupTable, controlCount, jobs, scan, sent>>

--------------------------------------------------------------------------------
SwitchStep(s) ==
  \/ RecvNothing(s)
  \/ RecvSwitchControl(s)
  \/ RecvLeafControl(s)
  \/ RecvData(s)
  \/ Execute(s)

LeafStep(h) ==
  \/ LeafControlSend(h)
  \/ \E d \in Dst \ {h} : LeafDataSend(h, d)
  \/ \E k \in PortIndex(h) : LeafRecv(h, k)

Next == (\E s \in Switch : SwitchStep(s)) \/ (\E h \in Leaf : LeafStep(h))

Spec == Init /\ [][Next]_vars

\* Every process keeps running: its loop has no blocking call and the scheduler
\* of the operating system is fair.  Sending data is up to the user.
Fairness ==
  /\ \A s \in Switch : WF_vars(SwitchStep(s))
  /\ \A h \in Leaf :
       /\ WF_vars(LeafControlSend(h))
       /\ \A k \in PortIndex(h) : WF_vars(LeafRecv(h, k))

FairSpec == Spec /\ Fairness

--------------------------------------------------------------------------------
ElectionType ==
  /\ localRootID   \in [Switch -> Switch]
  /\ localRootDist \in [Switch -> Nat]
  /\ localParent   \in [Switch -> Int]
  /\ \A s \in Switch : localParent[s] \in PortIndex(s) \cup {NoPort}
  /\ localPortTree \in [SwitchPort -> BOOLEAN]

TableType ==
  /\ lookupTable \in [Switch -> [Id -> Int]]
  /\ \A s \in Switch : \A d \in Id :
       lookupTable[s][d] \in PortIndex(s) \cup {NoPort}

JobOf(s) == {j \in Job : j.type = "forward" => /\ j.out \in PortIndex(s)
                                              /\ j.packet \in Data}
QueueType ==
  /\ jobs \in [Switch -> Seq(Job)]
  /\ \A s \in Switch : Items(jobs[s]) \subseteq JobOf(s)

LoopType ==
  /\ controlCount \in [Switch -> 0 .. CONTROL_COUNT - 1]
  /\ scan \in [Switch -> Nat]
  /\ \A s \in Switch : scan[s] <= NumPorts[s]

PipeType == pipe \in [Port -> Packet \cup {NoPacket}]

CountType == sent \in 0 .. MaxData /\ delivered \in [1 .. MaxData -> 0 .. 2]

\* Every variable keeps its type; in particular a job never names a port that
\* its switch does not have, and a lookup table never leads to one.
TypeOK ==
  ElectionType /\ TableType /\ QueueType /\ LoopType /\ PipeType /\ CountType

--------------------------------------------------------------------------------
(* The election of the root.                                                    *)

\* Adjacent[s]: the switches linked to s.
Adjacent == [s \in Switch |-> {Neighbour(s, k) : k \in PortIndex(s)} \cap Switch]

\* Within[n]: the pairs of switches joined by a path of at most n links.
Within[n \in Nat] ==
  IF n = 0
    THEN {<<s, s>> : s \in Switch}
    ELSE Within[n - 1] \cup
         {e \in Switch \X Switch :
            \E s \in Adjacent[e[2]] : <<e[1], s>> \in Within[n - 1]}

\* Following localParent from switch to switch never leads back: the parent of
\* a switch is always strictly closer to the root, or knows a better root, and
\* the switches without a parent are those that believe themselves the root.
\* Concerns lines 160-171 of switch2.c: the parent may have been chosen from a
\* control packet that was queued or in a pipe while its sender moved on.
ParentCloser ==
  \A s \in Switch :
    IF localParent[s] = NoPort
      THEN localRootID[s] = s /\ localRootDist[s] = 0
      ELSE LET t == Neighbour(s, localParent[s])
           IN /\ t \in Switch
              /\ \/ localRootID[t] < localRootID[s]
                 \/ /\ localRootID[t] = localRootID[s]
                    /\ localRootDist[t] < localRootDist[s]

\* Does c announce nothing better than what s believes now?
NoBetter(s, c) ==
  \/ c.root > localRootID[s]
  \/ c.root = localRootID[s] /\ c.dist >= localRootDist[s]

\* A control packet on its way, in a queue or in a pipe, is its sender's own,
\* and its sender has not moved to something worse since: a receiver that acts
\* on an old packet is late, but never believes something better than the
\* sender does.  (The packet is made at line 129, sent some iterations later.)
AnnouncementsOld ==
  /\ \A p \in Port : pipe[p] \in SwitchControl =>
       pipe[p].src = Peer[p][1] /\ NoBetter(Peer[p][1], pipe[p])
  /\ \A s \in Switch : \A j \in Items(jobs[s]) : j.packet \in SwitchControl =>
       j.packet.src = s /\ NoBetter(s, j.packet)

\* The belief of a switch, and its parent, are those of an election without
\* packets: every change of them is an improvement to something that a neighbour
\* knows or knew once - in whatever order packets are made, queued, lost and read.
Parents == INSTANCE Election WITH
  None   <- NoPort,
  belief <- [s \in Switch |-> [root |-> localRootID[s], dist |-> localRootDist[s]]],
  parent <- [s \in Switch |-> IF localParent[s] = NoPort THEN NoPort
                              ELSE Neighbour(s, localParent[s])]

ImplementsElection == Parents!Spec

\* The distance a switch announces is never too small: there is a path of that
\* length to the root it names, however stale the packets it learned it from.
RouteReal ==
  \A s \in Switch :
    /\ localRootDist[s] < Cardinality(Switch)
    /\ <<localRootID[s], s>> \in Within[localRootDist[s]]

\* Every switch has the smallest id it is connected to for its root, and the
\* length of a shortest path to it for its distance.
Elected ==
  \A s \in Switch :
    LET r == localRootID[s]
        d == localRootDist[s]
    IN /\ <<r, s>> \in Within[d]
       /\ \A t \in Switch : <<t, s>> \in Within[Cardinality(Switch)] => r <= t
       /\ d > 0 => <<r, s>> \notin Within[d - 1]

\* A port is in the tree exactly when a leaf is behind it or one of its ends is
\* the other's parent port.
TreeAgreed ==
  \A s \in Switch : \A k \in PortIndex(s) :
    LET t == Neighbour(s, k)
        inTree == \/ t \in Leaf
                  \/ localParent[s] = k
                  \/ localParent[t] = Peer[<<s, k>>][2]
    IN localPortTree[<<s, k>>] = inTree

\* Whatever the order of the first packets, and although control packets are
\* lost when two of them meet in a pipe, the switches end up with one spanning
\* tree on which both ends of every link agree, and keep it.
Stabilizes == <>[](Elected /\ TreeAgreed)

--------------------------------------------------------------------------------
(* The lookup table.                                                            *)

Known(d) == {s \in Switch : lookupTable[s][d] # NoPort}
NextHop(s, d) == Neighbour(s, lookupTable[s][d])

\* From a switch that knows d, the tables lead from switch to switch until d
\* itself: the next one is d or knows d too, and no set of switches that know d
\* has all its next hops within the set (no forwarding loop).  Entries are
\* learned from whatever copy of a packet comes first, also from copies that
\* were flooded round a cycle before there was a tree, and are never revised.
LookupLeadsHome ==
  \A d \in Id :
    /\ \A s \in Known(d) : NextHop(s, d) \in Known(d) \cup {d}
    /\ \A S \in SUBSET Known(d) :
         S # {} => \E s \in S : NextHop(s, d) \notin S

\* Whoever passes on a packet of d can be sent packets for d: it is d, or it
\* knows d.  (A job is queued at line 231 and executed iterations later.)
TrailKnown ==
  /\ \A p \in Port : pipe[p] # NoPacket =>
       LET d == pipe[p].src
       IN Peer[p][1] = d \/ Peer[p][1] \in Known(d)
  /\ \A s \in Switch : \A j \in Items(jobs[s]) :
       LET d == j.packet.src
       IN s = d \/ s \in Known(d)

--------------------------------------------------------------------------------
(* The packets.                                                                 *)

InFlight ==
  \/ \E p \in Port : pipe[p] \in Data
  \/ \E s \in Switch : \E j \in Items(jobs[s]) : j.packet \in Data

\* The sets of nodes that include the far end of port p, not its owner, and that
\* no other link leads into or out of.
Cuts(p) ==
  {B \in SUBSET Node :
     /\ Peer[p][1] \in B /\ p[1] \notin B
     /\ \A q \in Port \ {p, Peer[p]} : q[1] \in B <=> Peer[q][1] \in B}

\* The links form no cycle: the loss of any of them separates its two ends.
Forest == \A p \in Port : Cuts(p) # {}

\* No packet is delivered twice when the links form a tree.  (A packet that was
\* flooded may meet a switch that would send it back: see DataJob.)
AtMostOnce == \A i \in 1 .. MaxData : delivered[i] <= 1

================================================================================
