---------------------------- MODULE SwitchNetProofs ----------------------------
(***************************************************************************)
(* Theorems about SwitchNet, for any number of nodes, ports and links, any *)
(* CONTROL_COUNT and any number of packets.                                *)
(***************************************************************************)
EXTENDS SwitchNet, FiniteSetTheorems, TLAPS

--------------------------------------------------------------------------------
(* Ports, queues and packets.                                                   *)

\* A port is a node and an index of that node.
LEMMA PortParts ==
  ASSUME NEW p \in Port
  PROVE  p[1] \in Node /\ p[2] \in PortIndex(p[1]) /\ p = <<p[1], p[2]>>
BY DEF Port

LEMMA PortMade ==
  ASSUME NEW n \in Node, NEW k \in PortIndex(n)
  PROVE  <<n, k>> \in Port
BY DEF Port

\* What Append and Tail leave in a queue.
LEMMA AppendItems ==
  ASSUME NEW S, NEW q \in Seq(S), NEW x \in S
  PROVE  Append(q, x) \in Seq(S) /\ Items(Append(q, x)) = Items(q) \cup {x}
BY DEF Items

LEMMA TailItems ==
  ASSUME NEW S, NEW q \in Seq(S), q # <<>>
  PROVE  /\ Head(q) \in S /\ Head(q) \in Items(q)
         /\ Tail(q) \in Seq(S) /\ Items(Tail(q)) \subseteq Items(q)
BY DEF Items

\* The three kinds of packets are told apart by type and sender.
LEMMA Kinds ==
  /\ SwitchControl \cap Data = {} /\ LeafControl \cap Data = {}
  /\ SwitchControl \cap LeafControl = {}
BY DEF SwitchControl, LeafControl, Data

--------------------------------------------------------------------------------
(* The type invariant.                                                          *)

\* A control packet made by s, and what the top of the loop leaves in a queue.
LEMMA ControlJobType ==
  ASSUME ElectionType, NEW s \in Switch
  PROVE  /\ ControlJob(s) \in JobOf(s)
         /\ ControlJob(s).packet \in SwitchControl
         /\ ControlJob(s).packet.src = s
         /\ ControlJob(s).packet.root = localRootID[s]
         /\ ControlJob(s).packet.dist = localRootDist[s]
BY DEF ElectionType, ControlJob, Job, JobOf, SwitchControl, NoPort

LEMMA TopQueueItems ==
  ASSUME ElectionType, NEW s \in Switch, NEW n, NEW q \in Seq(Job)
  PROVE  /\ TopQueue(s, n, q) \in Seq(Job)
         /\ Items(TopQueue(s, n, q)) \subseteq Items(q) \cup {ControlJob(s)}
BY ControlJobType, AppendItems DEF TopQueue, JobOf

\* What a switch sends is a packet, and comes from the job.
LEMMA OutgoingType ==
  ASSUME NEW s \in Switch, NEW j \in Job, NEW k
  PROVE  /\ Outgoing(s, j, k) \in SwitchControl \cup Data
         /\ Outgoing(s, j, k).src = j.packet.src
         /\ j.packet \in Data => Outgoing(s, j, k) \in Data
         /\ j.packet \in SwitchControl =>
              /\ Outgoing(s, j, k) \in SwitchControl
              /\ Outgoing(s, j, k).root = j.packet.root
              /\ Outgoing(s, j, k).dist = j.packet.dist
<1>1. CASE j.packet \in Data
  BY <1>1, Kinds DEF Outgoing, Data
<1>2. CASE j.packet \in SwitchControl
  BY <1>2, Kinds DEF Outgoing, SwitchControl
<1>q. QED
  BY <1>1, <1>2 DEF Job

\* Every pipe holds after a Send what it held before, or a packet that was sent
\* by the node at the other end.
LEMMA SendPipe ==
  ASSUME NEW n, NEW ports, NEW packet, NEW p \in Port
  PROVE  \/ Send(n, ports, packet)[p] = pipe[p]
         \/ /\ Peer[p][1] = n /\ Peer[p][2] \in PortIndex(n)
            /\ Send(n, ports, packet)[p] = packet[Peer[p][2]]
BY PortParts, LinkAssumption DEF Send, Write

LEMMA SendType ==
  ASSUME PipeType, NEW n, NEW ports, NEW packet,
         \A k \in PortIndex(n) : packet[k] \in Packet
  PROVE  Send(n, ports, packet) \in [Port -> Packet \cup {NoPacket}]
<1>1. \A p \in Port : pipe[p] \in Packet \cup {NoPacket}
  BY DEF PipeType
<1>2. \A p \in Port : Send(n, ports, packet)[p] \in Packet \cup {NoPacket}
  BY <1>1, SendPipe
<1>q. QED
  BY <1>2 DEF Send

\* What a poll changes.
LEMMA PollType ==
  ASSUME LoopType, PipeType, NEW s \in Switch, NEW S, Poll(s, S)
  PROVE  /\ scan[s] \in PortIndex(s) /\ <<s, scan[s]>> \in SwitchPort
         /\ pipe[<<s, scan[s]>>] \in S
         /\ LoopType' /\ PipeType'
         /\ sent' = sent /\ delivered' = delivered
<1>1. NumPorts[s] \in Nat
  BY LinkAssumption DEF Node
<1>2. scan[s] \in PortIndex(s) /\ <<s, scan[s]>> \in SwitchPort
  BY PortMade DEF Poll, SwitchPort, Node
<1>3. LoopType'
  BY <1>1 DEF Poll, LoopType, PortIndex
<1>4. PipeType'
  BY DEF Poll, PipeType
<1>q. QED
  BY <1>2, <1>3, <1>4 DEF Poll

LEMMA LearnType ==
  ASSUME TableType, NEW s \in Switch, NEW d \in Id, NEW k \in PortIndex(s),
         Learn(s, d, k)
  PROVE  TableType'
BY DEF Learn, TableType, PortIndex

\* A job added to a queue, or what the end of an iteration leaves of it.
LEMMA QueueAdd ==
  ASSUME QueueType, NEW s \in Switch, NEW q \in Seq(Job),
         Items(q) \subseteq JobOf(s), jobs' = [jobs EXCEPT ![s] = q]
  PROVE  QueueType'
BY DEF QueueType

\* The queues begin with nothing but the first control packet.
LEMMA FirstQueue ==
  ASSUME Init, NEW s \in Switch
  PROVE  /\ ControlJob(s) \in JobOf(s)
         /\ jobs[s] \in Seq(Job) /\ Items(jobs[s]) \subseteq {ControlJob(s)}
<1> DEFINE c == ControlJob(s).packet
<1>0. localRootID[s] = s /\ localRootDist[s] = 0
  BY DEF Init
<1>a. c \in SwitchControl
  BY <1>0 DEF ControlJob, SwitchControl
<1>b. ControlJob(s) = [type |-> "all", in |-> NoPort, out |-> NoPort, packet |-> c]
  BY DEF ControlJob
<1> HIDE DEF c
<1>c. ControlJob(s) \in Job /\ ControlJob(s).type = "all"
  BY <1>a, <1>b DEF Job, NoPort
<1>1. ControlJob(s) \in JobOf(s)
  BY <1>c DEF JobOf
<1>2. <<>> \in Seq(Job) /\ Items(<<>>) = {}
  BY DEF Items
<1>3. \A j \in Job : /\ Append(<<>>, j) \in Seq(Job)
                      /\ Items(Append(<<>>, j)) = {j}
  <2> SUFFICES ASSUME NEW j \in Job
               PROVE  Append(<<>>, j) \in Seq(Job) /\ Items(Append(<<>>, j)) = {j}
    OBVIOUS
  <2> DEFINE e == <<>>
  <2>1. e \in Seq(Job) /\ Items(e) = {}
    BY <1>2
  <2> HIDE DEF e
  <2>2. Append(e, j) \in Seq(Job) /\ Items(Append(e, j)) = Items(e) \cup {j}
    BY <2>1, AppendItems
  <2>q. QED
    BY <2>1, <2>2 DEF e
<1>4. jobs[s] = <<>> \/ jobs[s] = Append(<<>>, ControlJob(s))
  BY DEF Init, TopQueue
<1>q. QED
  BY <1>1, <1>2, <1>3, <1>4, <1>c

LEMMA InitType == Init => TypeOK
<1> SUFFICES ASSUME Init PROVE TypeOK
  OBVIOUS
<1>1. ElectionType /\ TableType /\ PipeType
  BY DEF Init, ElectionType, TableType, PipeType, NoPort
<1>2. QueueType
  BY FirstQueue DEF Init, QueueType
<1>3. LoopType
  BY LinkAssumption, BoundAssumption DEF Init, LoopType, TopCount, Node
<1>4. CountType
  BY BoundAssumption DEF Init, CountType
<1>q. QED
  BY <1>1, <1>2, <1>3, <1>4 DEF TypeOK

LEMMA StepType == TypeOK /\ [Next]_vars => TypeOK'
<1> SUFFICES ASSUME TypeOK, [Next]_vars PROVE TypeOK'
  OBVIOUS
<1> USE DEF TypeOK
<1>3. ASSUME NEW s \in Switch, RecvNothing(s) PROVE TypeOK'
  BY <1>3, PollType
     DEF RecvNothing, ElectionType, TableType, QueueType, CountType, electionVars
<1>4. ASSUME NEW s \in Switch, RecvSwitchControl(s) PROVE TypeOK'
  <2> DEFINE c == pipe[<<s, scan[s]>>]
  <2>1. /\ scan[s] \in PortIndex(s) /\ <<s, scan[s]>> \in SwitchPort
        /\ c \in SwitchControl
        /\ LoopType' /\ PipeType' /\ sent' = sent /\ delivered' = delivered
    BY <1>4, PollType DEF RecvSwitchControl
  <2>2. c.root \in Switch /\ c.dist \in Nat /\ c.child \in BOOLEAN /\ c.src \in Id
    BY <2>1 DEF SwitchControl, Id, Node
  <2>3. ElectionType'
    BY <1>4, <2>1, <2>2 DEF RecvSwitchControl, ElectionType, PortIndex
  <2>4. TableType'
    BY <1>4, <2>1, <2>2, LearnType DEF RecvSwitchControl
  <2>q. QED
    BY <1>4, <2>1, <2>3, <2>4 DEF RecvSwitchControl, QueueType, CountType
<1>5. ASSUME NEW s \in Switch, RecvLeafControl(s) PROVE TypeOK'
  <2> DEFINE c == pipe[<<s, scan[s]>>]
  <2>1. /\ scan[s] \in PortIndex(s) /\ <<s, scan[s]>> \in SwitchPort
        /\ c \in LeafControl
        /\ LoopType' /\ PipeType' /\ sent' = sent /\ delivered' = delivered
    BY <1>5, PollType DEF RecvLeafControl
  <2>2. c.src \in Id
    BY <2>1 DEF LeafControl, Id, Node
  <2>3. TableType'
    BY <1>5, <2>1, <2>2, LearnType DEF RecvLeafControl
  <2>q. QED
    BY <1>5, <2>1, <2>3 DEF RecvLeafControl, ElectionType, QueueType, CountType
<1>6. ASSUME NEW s \in Switch, RecvData(s) PROVE TypeOK'
  <2> DEFINE d == pipe[<<s, scan[s]>>]
             j == DataJob(s, scan[s], d)
  <2>1. /\ scan[s] \in PortIndex(s) /\ d \in Data
        /\ LoopType' /\ PipeType' /\ sent' = sent /\ delivered' = delivered
    BY <1>6, PollType DEF RecvData
  <2>2. d.src \in Id /\ d.dst \in Id
    BY <2>1 DEF Data, Id, Node
  <2>3. j \in JobOf(s)
    <3>1. scan[s] \in Int /\ NoPort \in Int
      BY DEF LoopType, NoPort
    <3>2. CASE lookupTable[s][d.dst] = NoPort
      BY <2>1, <3>1, <3>2 DEF DataJob, JobOf, Job
    <3>3. CASE lookupTable[s][d.dst] # NoPort
      <4>1. /\ lookupTable[s][d.dst] \in PortIndex(s)
            /\ lookupTable[s][d.dst] \in Int
        BY <2>2, <3>3 DEF TableType
      <4>2. j = [type |-> "forward", packet |-> d, in |-> scan[s],
                 out |-> lookupTable[s][d.dst]]
        BY <3>3 DEF DataJob
      <4> HIDE DEF d, j
      <4>q. QED
        BY <2>1, <3>1, <4>1, <4>2 DEF JobOf, Job
    <3>q. QED
      BY <3>2, <3>3
  <2>4. /\ Append(jobs[s], j) \in Seq(Job)
        /\ Items(Append(jobs[s], j)) = Items(jobs[s]) \cup {j}
    <3>1. j \in Job /\ jobs[s] \in Seq(Job)
      BY <2>3 DEF QueueType, JobOf
    <3> HIDE DEF j
    <3>q. QED
      BY <3>1, AppendItems
  <2>5. QueueType'
    <3>1. Items(Append(jobs[s], j)) \subseteq JobOf(s)
      BY <2>3, <2>4 DEF QueueType
    <3>2. jobs' = [jobs EXCEPT ![s] = Append(jobs[s], j)]
      BY <1>6 DEF RecvData
    <3>q. QED
      BY <2>4, <3>1, <3>2, QueueAdd
  <2>6. TableType'
    BY <1>6, <2>1, <2>2, LearnType DEF RecvData
  <2>q. QED
    BY <1>6, <2>1, <2>5, <2>6 DEF RecvData, ElectionType, CountType, electionVars
<1>7. ASSUME NEW s \in Switch, Execute(s) PROVE TypeOK'
  <2> DEFINE j    == Head(jobs[s])
             rest == IF jobs[s] = <<>> THEN <<>> ELSE Tail(jobs[s])
             q    == TopQueue(s, controlCount[s], rest)
  <2>1. rest \in Seq(Job) /\ Items(rest) \subseteq Items(jobs[s])
    BY TailItems DEF QueueType
  <2>2. q \in Seq(Job) /\ Items(q) \subseteq JobOf(s)
    <3> HIDE DEF rest
    <3>1. q \in Seq(Job) /\ Items(q) \subseteq Items(rest) \cup {ControlJob(s)}
      BY <2>1, TopQueueItems
    <3>q. QED
      BY <2>1, <3>1, ControlJobType DEF QueueType
  <2>3. QueueType'
    <3>1. jobs' = [jobs EXCEPT ![s] = q]
      BY <1>7 DEF Execute
    <3> HIDE DEF q
    <3>q. QED
      BY <2>2, <3>1, QueueAdd
  <2>4. PipeType'
    <3>1. CASE jobs[s] = <<>>
      BY <1>7, <3>1 DEF Execute, PipeType
    <3>2. CASE jobs[s] # <<>>
      <4>1. j \in Job
        BY <3>2, TailItems DEF QueueType
      <4>2. \A k \in PortIndex(s) :
              [i \in PortIndex(s) |-> Outgoing(s, j, i)][k] \in Packet
        BY <4>1, OutgoingType DEF Packet
      <4>3. pipe' = Send(s, OutPorts(s, j), [i \in PortIndex(s) |-> Outgoing(s, j, i)])
        BY <1>7, <3>2 DEF Execute
      <4>q. QED
        BY <4>2, <4>3, SendType DEF PipeType
    <3>q. QED
      BY <3>1, <3>2
  <2>5. LoopType'
    BY <1>7, BoundAssumption, LinkAssumption DEF Execute, TopCount, LoopType, Node
  <2>q. QED
    BY <1>7, <2>3, <2>4, <2>5
       DEF Execute, ElectionType, TableType, CountType, electionVars
<1>8. ASSUME NEW h \in Leaf, LeafControlSend(h) PROVE TypeOK'
  <2> DEFINE c == [type |-> "control", src |-> h, sender |-> "H"]
  <2>1. c \in Packet
    BY DEF Packet, LeafControl
  <2>2. PipeType'
    BY <1>8, <2>1, SendType DEF LeafControlSend, Broadcast, PipeType
  <2>q. QED
    BY <1>8, <2>2
       DEF LeafControlSend, ElectionType, TableType, QueueType, LoopType,
           CountType, electionVars
<1>9. ASSUME NEW h \in Leaf, NEW d \in Dst, LeafDataSend(h, d) PROVE TypeOK'
  <2> DEFINE c == [type |-> "data", src |-> h, dst |-> d, id |-> sent + 1]
  <2>1. sent + 1 \in 1 .. MaxData
    BY <1>9, BoundAssumption DEF LeafDataSend, CountType
  <2>2. c \in Packet
    BY <2>1 DEF Packet, Data
  <2>3. PipeType'
    BY <1>9, <2>2, SendType DEF LeafDataSend, Broadcast, PipeType
  <2>q. QED
    BY <1>9, <2>1, <2>3
       DEF LeafDataSend, ElectionType, TableType, QueueType, LoopType,
           CountType, electionVars
<1>10. ASSUME NEW h \in Leaf, NEW k \in PortIndex(h), LeafRecv(h, k) PROVE TypeOK'
  <2> DEFINE c == pipe[<<h, k>>]
  <2>1. CountType'
    <3>1. c \in Data => c.id \in 1 .. MaxData
      BY DEF Data
    <3>q. QED
      BY <1>10, <3>1 DEF LeafRecv, CountType
  <2>2. PipeType'
    BY <1>10 DEF LeafRecv, PipeType
  <2>q. QED
    BY <1>10, <2>1, <2>2
       DEF LeafRecv, ElectionType, TableType, QueueType, LoopType, electionVars
<1>11. CASE UNCHANGED vars
  BY <1>11 DEF vars, electionVars, ElectionType, TableType, QueueType,
               LoopType, PipeType, CountType
<1>q. QED
  BY <1>3, <1>4, <1>5, <1>6, <1>7, <1>8, <1>9, <1>10, <1>11
     DEF Next, SwitchStep, LeafStep

\* Every variable keeps its type; in particular a job never names a port that
\* its switch does not have, and a lookup table never leads to one.
THEOREM TypeCorrect == Spec => []TypeOK
BY InitType, StepType, PTL DEF Spec

--------------------------------------------------------------------------------
(* The election.  What a receiver acts on may be old, but a sender only ever    *)
(* improves, so whatever it announced is no better than what it has now.        *)

\* What t believes is at least as good after the step as before.
Improves(t) ==
  \/ localRootID'[t] < localRootID[t]
  \/ localRootID'[t] = localRootID[t] /\ localRootDist'[t] <= localRootDist[t]

LEMMA SwitchIsNat == \A s \in Switch : s \in Nat
BY NodeAssumption

\* An announcement that is no better than what t has stays so.
LEMMA NoBetterStays ==
  ASSUME ElectionType, ElectionType', NEW t \in Switch, NEW c \in SwitchControl,
         Improves(t), NoBetter(t, c)
  PROVE  NoBetter(t, c)'
<1>1. /\ c.root \in Nat /\ c.dist \in Nat
      /\ localRootID[t] \in Nat /\ localRootDist[t] \in Nat
      /\ localRootID'[t] \in Nat /\ localRootDist'[t] \in Nat
  BY SwitchIsNat DEF SwitchControl, ElectionType
<1>q. QED
  BY <1>1 DEF Improves, NoBetter

\* A step that only empties pipes keeps what is said about their contents.
LEMMA PollPipe ==
  ASSUME PipeType, NEW s \in Switch, NEW S, Poll(s, S), NEW p \in Port
  PROVE  pipe'[p] = pipe[p] \/ pipe'[p] = NoPacket
BY DEF Poll, PipeType

LEMMA NoPacketKind == NoPacket \notin SwitchControl
BY NoPacketAssumption DEF Packet

LEMMA OldInit == Init => AnnouncementsOld /\ ParentCloser
<1> SUFFICES ASSUME Init PROVE AnnouncementsOld /\ ParentCloser
  OBVIOUS
<1>1. ParentCloser
  BY DEF Init, ParentCloser
<1>2. \A p \in Port : pipe[p] \notin SwitchControl
  BY NoPacketKind DEF Init
<1>3. ASSUME NEW s \in Switch, NEW j \in Items(jobs[s])
      PROVE  j.packet.src = s /\ NoBetter(s, j.packet)
  <2>1. j = ControlJob(s)
    BY <1>3, FirstQueue
  <2>2. /\ j.packet.src = s /\ j.packet.root = localRootID[s]
        /\ j.packet.dist = localRootDist[s]
    BY <2>1 DEF ControlJob
  <2>q. QED
    BY <2>2 DEF NoBetter, Init
<1>q. QED
  BY <1>1, <1>2, <1>3 DEF AnnouncementsOld

\* A step that changes no switch's beliefs keeps both, if what it adds to the
\* pipes and the queues is as they require.
LEMMA OldKept ==
  ASSUME AnnouncementsOld, ParentCloser, UNCHANGED electionVars,
         \A p \in Port : \/ pipe'[p] = pipe[p]
                         \/ pipe'[p] \notin SwitchControl
                         \/ /\ pipe'[p].src = Peer[p][1]
                            /\ NoBetter(Peer[p][1], pipe'[p]),
         \A s \in Switch : \A j \in Items(jobs'[s]) :
            \/ j \in Items(jobs[s])
            \/ j.packet \notin SwitchControl
            \/ j.packet.src = s /\ NoBetter(s, j.packet)
  PROVE  AnnouncementsOld' /\ ParentCloser'
<1>1. ParentCloser'
  BY DEF ParentCloser, electionVars
<1>2. localRootID' = localRootID /\ localRootDist' = localRootDist
  BY DEF electionVars
<1>q. QED
  BY <1>1, <1>2 DEF AnnouncementsOld, NoBetter

\* Adopting the route announced in c: s improves, and the announcing switch,
\* which is now its parent, is strictly closer.
LEMMA AdoptImproves ==
  ASSUME TypeOK, TypeOK', AnnouncementsOld, NEW s \in Switch, RecvSwitchControl(s)
  PROVE  /\ \A t \in Switch : Improves(t)
         /\ ParentCloser => ParentCloser'
<1> DEFINE k == scan[s]
           c == pipe[<<s, k>>]
           u == Neighbour(s, k)
<1>1. k \in PortIndex(s) /\ c \in SwitchControl /\ <<s, k>> \in Port
  BY PollType DEF RecvSwitchControl, TypeOK, SwitchPort
<1>2. c.root \in Nat /\ c.dist \in Nat /\ c.root \in Switch /\ c.src \in Switch
  BY <1>1, SwitchIsNat DEF SwitchControl
<1>3. u \in Switch /\ u # s /\ NoBetter(u, c)
  BY <1>1, <1>2, LinkAssumption DEF AnnouncementsOld, Neighbour
<1>4. \A t \in Switch : localRootID[t] \in Nat /\ localRootDist[t] \in Nat
  BY SwitchIsNat DEF TypeOK, ElectionType
<1>5. \A t \in Switch \ {s} : /\ localRootID'[t] = localRootID[t]
                              /\ localRootDist'[t] = localRootDist[t]
                              /\ localParent'[t] = localParent[t]
  BY DEF RecvSwitchControl, TypeOK, ElectionType
<1>6. CASE Better(s, c)
  <2>1. /\ localRootID'[s] = c.root /\ localRootDist'[s] = c.dist + 1
        /\ localParent'[s] = k
    BY <1>6 DEF RecvSwitchControl, TypeOK, ElectionType
  <2>2. Improves(s)
    BY <1>2, <1>4, <1>6, <2>1 DEF Better, Improves
  <2>3. \A t \in Switch : Improves(t)
    BY <1>4, <1>5, <2>2 DEF Improves
  <2>4. ASSUME ParentCloser, NEW t \in Switch, t # s, localParent[t] # NoPort
        PROVE  LET v == Neighbour(t, localParent[t])
               IN /\ v \in Switch
                  /\ \/ localRootID'[v] < localRootID'[t]
                     \/ /\ localRootID'[v] = localRootID'[t]
                        /\ localRootDist'[v] < localRootDist'[t]
    <3> DEFINE v == Neighbour(t, localParent[t])
    <3>1. /\ v \in Switch
          /\ \/ localRootID[v] < localRootID[t]
             \/ /\ localRootID[v] = localRootID[t]
                /\ localRootDist[v] < localRootDist[t]
      BY <2>4 DEF ParentCloser
    <3>2. Improves(v)
      BY <2>3, <3>1
    <3>3. /\ localRootID'[v] \in Nat /\ localRootDist'[v] \in Nat
      BY <3>1, SwitchIsNat DEF TypeOK, ElectionType
    <3> HIDE DEF v
    <3>4. \/ localRootID'[v] < localRootID'[t]
          \/ /\ localRootID'[v] = localRootID'[t]
             /\ localRootDist'[v] < localRootDist'[t]
      BY <1>4, <1>5, <2>4, <3>1, <3>2, <3>3 DEF Improves
    <3>q. QED
      BY <3>1, <3>4 DEF v
  <2>5. \/ localRootID'[u] < localRootID'[s]
        \/ /\ localRootID'[u] = localRootID'[s]
           /\ localRootDist'[u] < localRootDist'[s]
    BY <1>2, <1>3, <1>4, <1>5, <2>1 DEF NoBetter
  <2>6. k # NoPort
    BY <1>1 DEF NoPort, PortIndex
  <2>7. ASSUME ParentCloser PROVE ParentCloser'
    BY <1>3, <1>5, <2>1, <2>4, <2>5, <2>6, <2>7 DEF ParentCloser
  <2>q. QED
    BY <2>3, <2>7
<1>7. CASE ~Better(s, c)
  BY <1>4, <1>7 DEF RecvSwitchControl, Improves, ParentCloser
<1>q. QED
  BY <1>6, <1>7

\* What the execution of a job puts into a queue and into the pipes: the next
\* control packet, and the packet of the job.
LEMMA ExecuteEffect ==
  ASSUME TypeOK, NEW s \in Switch, Execute(s)
  PROVE  /\ \A t \in Switch : \A i \in Items(jobs'[t]) :
              i \in Items(jobs[t]) \/ (t = s /\ i = ControlJob(s))
         /\ \A p \in Port :
              \/ pipe'[p] = pipe[p]
              \/ /\ Peer[p][1] = s
                 /\ \E j \in Items(jobs[s]) : \E k : pipe'[p] = Outgoing(s, j, k)
<1> DEFINE j    == Head(jobs[s])
           rest == IF jobs[s] = <<>> THEN <<>> ELSE Tail(jobs[s])
           q    == TopQueue(s, controlCount[s], rest)
<1>1. rest \in Seq(Job) /\ Items(rest) \subseteq Items(jobs[s])
  <2>1. <<>> \in Seq(Job) /\ Items(<<>>) = {}
    BY DEF Items
  <2>q. QED
    BY <2>1, TailItems DEF TypeOK, QueueType
<1>2. Items(q) \subseteq Items(jobs[s]) \cup {ControlJob(s)}
  <2> HIDE DEF rest
  <2>q. QED
    BY <1>1, TopQueueItems DEF TypeOK
<1>3. \A t \in Switch : \A i \in Items(jobs'[t]) :
        i \in Items(jobs[t]) \/ (t = s /\ i = ControlJob(s))
  <2>1. jobs' = [jobs EXCEPT ![s] = q] /\ jobs \in [Switch -> Seq(Job)]
    BY DEF Execute, TypeOK, QueueType
  <2> HIDE DEF q
  <2>q. QED
    BY <1>2, <2>1
<1>4. ASSUME NEW p \in Port, pipe'[p] # pipe[p]
      PROVE  /\ Peer[p][1] = s
             /\ \E i \in Items(jobs[s]) : \E k : pipe'[p] = Outgoing(s, i, k)
  <2>1. jobs[s] # <<>>
    BY <1>4 DEF Execute
  <2>2. pipe' = Send(s, OutPorts(s, j), [k \in PortIndex(s) |-> Outgoing(s, j, k)])
    BY <2>1 DEF Execute
  <2>3. j \in Items(jobs[s])
    BY <2>1, TailItems DEF TypeOK, QueueType
  <2>4. /\ Peer[p][1] = s /\ Peer[p][2] \in PortIndex(s)
        /\ pipe'[p] = [k \in PortIndex(s) |-> Outgoing(s, j, k)][Peer[p][2]]
    BY <1>4, <2>2, SendPipe
  <2> HIDE DEF j
  <2>5. pipe'[p] = Outgoing(s, j, Peer[p][2])
    BY <2>4
  <2>q. QED
    BY <2>3, <2>4, <2>5
<1>q. QED
  BY <1>3, <1>4

\* A leaf's packet in a pipe comes from the leaf at the other end.
LEMMA BroadcastEffect ==
  ASSUME NEW h, NEW c, Broadcast(h, c), NEW p \in Port, pipe'[p] # pipe[p]
  PROVE  Peer[p][1] = h /\ pipe'[p] = c
<1>1. pipe' = Send(h, PortIndex(h), [k \in PortIndex(h) |-> c])
  BY DEF Broadcast
<1>2. /\ Peer[p][1] = h /\ Peer[p][2] \in PortIndex(h)
      /\ pipe'[p] = [k \in PortIndex(h) |-> c][Peer[p][2]]
  BY <1>1, SendPipe
<1>q. QED
  BY <1>2

\* The queues after a packet was read.
LEMMA RecvDataQueue ==
  ASSUME TypeOK, NEW s \in Switch, RecvData(s), NEW t \in Switch,
         NEW i \in Items(jobs'[t])
  PROVE  i \in Items(jobs[t]) \/ (t = s /\ i = DataJob(s, scan[s], pipe[<<s, scan[s]>>]))
<1> DEFINE j == DataJob(s, scan[s], pipe[<<s, scan[s]>>])
<1>1. jobs' = [jobs EXCEPT ![s] = Append(jobs[s], j)]
  BY DEF RecvData
<1>2. jobs \in [Switch -> Seq(Job)] /\ jobs' \in [Switch -> Seq(Job)]
  BY StepType DEF Next, SwitchStep, TypeOK, QueueType
<1> HIDE DEF j
<1>3. jobs'[t] = IF t = s THEN Append(jobs[s], j) ELSE jobs[t]
  BY <1>1, <1>2
<1>4. Items(Append(jobs[s], j)) \subseteq Items(jobs[s]) \cup {j}
  BY <1>2 DEF Items
<1>q. QED
  BY <1>3, <1>4 DEF j

\* The leaves put no switch's control packet into a pipe.
LEMMA LeafPipes ==
  ASSUME PipeType, NEW h \in Leaf,
         \/ LeafControlSend(h)
         \/ \E d \in Dst : LeafDataSend(h, d)
         \/ \E k \in PortIndex(h) : LeafRecv(h, k)
  PROVE  \A p \in Port : pipe'[p] = pipe[p] \/ pipe'[p] \notin SwitchControl
<1>1. CASE LeafControlSend(h)
  <2>1. [type |-> "control", src |-> h, sender |-> "H"] \notin SwitchControl
    BY DEF SwitchControl
  <2>q. QED
    BY <1>1, <2>1, BroadcastEffect DEF LeafControlSend
<1>2. ASSUME NEW d \in Dst, LeafDataSend(h, d)
      PROVE  \A p \in Port : pipe'[p] = pipe[p] \/ pipe'[p] \notin SwitchControl
  <2>1. [type |-> "data", src |-> h, dst |-> d, id |-> sent + 1] \notin SwitchControl
    BY DEF SwitchControl
  <2>q. QED
    BY <1>2, <2>1, BroadcastEffect DEF LeafDataSend
<1>3. ASSUME NEW k \in PortIndex(h), LeafRecv(h, k)
      PROVE  \A p \in Port : pipe'[p] = pipe[p] \/ pipe'[p] \notin SwitchControl
  BY <1>3, NoPacketKind DEF LeafRecv, PipeType
<1>q. QED
  BY <1>1, <1>2, <1>3

LEMMA OldStep ==
  TypeOK /\ TypeOK' /\ AnnouncementsOld /\ ParentCloser /\ [Next]_vars
    => AnnouncementsOld' /\ ParentCloser'
<1> SUFFICES ASSUME TypeOK, TypeOK', AnnouncementsOld, ParentCloser, [Next]_vars
             PROVE  AnnouncementsOld' /\ ParentCloser'
  OBVIOUS
<1>1. PipeType /\ ElectionType /\ ElectionType' /\ QueueType
  BY DEF TypeOK
<1>2. ASSUME NEW s \in Switch, RecvNothing(s) \/ RecvLeafControl(s)
      PROVE  AnnouncementsOld' /\ ParentCloser'
  <2>1. \E S : Poll(s, S)
    BY <1>2 DEF RecvNothing, RecvLeafControl
  <2>2. \A p \in Port : pipe'[p] = pipe[p] \/ pipe'[p] \notin SwitchControl
    BY <1>1, <2>1, PollPipe, NoPacketKind
  <2>3. /\ localRootID' = localRootID /\ localRootDist' = localRootDist
        /\ localParent' = localParent /\ jobs' = jobs
    BY <1>2 DEF RecvNothing, RecvLeafControl, electionVars
  <2>q. QED
    BY <2>2, <2>3 DEF AnnouncementsOld, ParentCloser, NoBetter
<1>3. ASSUME NEW s \in Switch, RecvSwitchControl(s)
      PROVE  AnnouncementsOld' /\ ParentCloser'
  <2>1. (\A t \in Switch : Improves(t)) /\ ParentCloser'
    BY <1>3, AdoptImproves
  <2>2. \A p \in Port : pipe'[p] = pipe[p] \/ pipe'[p] \notin SwitchControl
    BY <1>1, <1>3, PollPipe, NoPacketKind DEF RecvSwitchControl
  <2>3. jobs' = jobs
    BY <1>3 DEF RecvSwitchControl
  <2>4. ASSUME NEW p \in Port, pipe'[p] \in SwitchControl
        PROVE  pipe'[p].src = Peer[p][1] /\ NoBetter(Peer[p][1], pipe[p])'
    <3>1. /\ pipe'[p] = pipe[p] /\ pipe[p].src = Peer[p][1]
          /\ NoBetter(Peer[p][1], pipe[p])
      BY <2>2, <2>4 DEF AnnouncementsOld
    <3>2. Peer[p][1] \in Switch
      BY <2>4, <3>1 DEF SwitchControl
    <3>3. ASSUME NEW c \in SwitchControl, NoBetter(Peer[p][1], c)
          PROVE  NoBetter(Peer[p][1], c)'
      BY <1>1, <2>1, <3>2, <3>3, NoBetterStays
    <3>q. QED
      BY <2>4, <3>1, <3>3 DEF NoBetter
  <2>5. ASSUME NEW t \in Switch, NEW j \in Items(jobs[t]), j.packet \in SwitchControl
        PROVE  j.packet.src = t /\ NoBetter(t, j.packet)'
    <3>1. j.packet.src = t /\ NoBetter(t, j.packet)
      BY <2>5 DEF AnnouncementsOld
    <3>q. QED
      BY <1>1, <2>1, <2>5, <3>1, NoBetterStays
  <2>q. QED
    BY <2>1, <2>3, <2>4, <2>5 DEF AnnouncementsOld
<1>4. ASSUME NEW s \in Switch, RecvData(s)
      PROVE  AnnouncementsOld' /\ ParentCloser'
  <2> DEFINE d == pipe[<<s, scan[s]>>]
             j == DataJob(s, scan[s], d)
  <2>1. d \in Data
    BY <1>4 DEF RecvData, Poll
  <2>2. j.packet \notin SwitchControl
    BY <2>1, Kinds DEF DataJob
  <2>3. \A p \in Port : pipe'[p] = pipe[p] \/ pipe'[p] \notin SwitchControl
    BY <1>1, <1>4, PollPipe, NoPacketKind DEF RecvData
  <2>4. \A t \in Switch : \A i \in Items(jobs'[t]) : i \in Items(jobs[t]) \/ i = j
    BY <1>4, RecvDataQueue
  <2>5. UNCHANGED electionVars
    BY <1>4 DEF RecvData
  <2> HIDE DEF j
  <2>q. QED
    BY <2>2, <2>3, <2>4, <2>5, OldKept
<1>5. ASSUME NEW s \in Switch, Execute(s)
      PROVE  AnnouncementsOld' /\ ParentCloser'
  <2>1. UNCHANGED electionVars
    BY <1>5 DEF Execute
  <2>2. ASSUME NEW t \in Switch, NEW j \in Items(jobs'[t])
        PROVE  \/ j \in Items(jobs[t])
               \/ j.packet.src = t /\ NoBetter(t, j.packet)
    <3>1. CASE t = s /\ j = ControlJob(s)
      <4>1. /\ j.packet.src = s /\ j.packet.root = localRootID[s]
            /\ j.packet.dist = localRootDist[s] /\ localRootDist[s] \in Nat
        BY <1>1, <3>1, ControlJobType DEF ElectionType
      <4>q. QED
        BY <3>1, <4>1 DEF NoBetter
    <3>q. QED
      BY <1>5, <2>2, <3>1, ExecuteEffect
  <2>3. ASSUME NEW p \in Port, pipe'[p] # pipe[p], pipe'[p] \in SwitchControl
        PROVE  pipe'[p].src = Peer[p][1] /\ NoBetter(Peer[p][1], pipe'[p])
    <3>1. Peer[p][1] = s
      BY <1>5, <2>3, ExecuteEffect
    <3>2. PICK j \in Items(jobs[s]) : \E k : pipe'[p] = Outgoing(s, j, k)
      BY <1>5, <2>3, ExecuteEffect
    <3>3. PICK k : pipe'[p] = Outgoing(s, j, k)
      BY <3>2
    <3>4. j \in Job
      BY <1>1 DEF QueueType, JobOf
    <3>5. j.packet \in SwitchControl
      BY <2>3, <3>3, <3>4, OutgoingType, Kinds DEF Job
    <3>6. /\ pipe'[p].src = j.packet.src /\ pipe'[p].root = j.packet.root
          /\ pipe'[p].dist = j.packet.dist
      BY <3>3, <3>4, <3>5, OutgoingType
    <3>7. j.packet.src = s /\ NoBetter(s, j.packet)
      BY <3>5 DEF AnnouncementsOld
    <3>q. QED
      BY <3>1, <3>6, <3>7 DEF NoBetter
  <2>q. QED
    BY <2>1, <2>2, <2>3, OldKept
<1>6. ASSUME NEW h \in Leaf,
             \/ LeafControlSend(h)
             \/ \E d \in Dst : LeafDataSend(h, d)
             \/ \E k \in PortIndex(h) : LeafRecv(h, k)
      PROVE  AnnouncementsOld' /\ ParentCloser'
  <2>1. UNCHANGED electionVars /\ jobs' = jobs
    BY <1>6 DEF LeafControlSend, LeafDataSend, LeafRecv
  <2>2. \A p \in Port : pipe'[p] = pipe[p] \/ pipe'[p] \notin SwitchControl
    BY <1>1, <1>6, LeafPipes
  <2>q. QED
    BY <2>1, <2>2, OldKept
<1>7. CASE UNCHANGED vars
  BY <1>7, OldKept DEF vars
<1>q. QED
  BY <1>2, <1>3, <1>4, <1>5, <1>6, <1>7 DEF Next, SwitchStep, LeafStep

\* A control packet on its way, however old, announces nothing better than what
\* its sender believes by now.
THEOREM AnnouncementsAreOld == Spec => []AnnouncementsOld
<1>1. Init => TypeOK /\ AnnouncementsOld /\ ParentCloser
  BY InitType, OldInit
<1>2. TypeOK /\ AnnouncementsOld /\ ParentCloser /\ [Next]_vars
        => (TypeOK /\ AnnouncementsOld /\ ParentCloser)'
  BY StepType, OldStep
<1>q. QED
  BY <1>1, <1>2, PTL DEF Spec

\* In every network, whatever control packets are lost or late, the parent of a
\* switch is strictly closer to the root than the switch: following the parents
\* never leads round a cycle.
THEOREM ParentsLeadToRoot == Spec => []ParentCloser
<1>1. Init => TypeOK /\ AnnouncementsOld /\ ParentCloser
  BY InitType, OldInit
<1>2. TypeOK /\ AnnouncementsOld /\ ParentCloser /\ [Next]_vars
        => (TypeOK /\ AnnouncementsOld /\ ParentCloser)'
  BY StepType, OldStep
<1>q. QED
  BY <1>1, <1>2, PTL DEF Spec

--------------------------------------------------------------------------------
(* The election without packets.                                                *)

LEMMA ElectionInit == Init => Parents!Init
BY DEF Init, Parents!Init, NoPort

\* A switch that acts on a control packet adopts what its sender knows or knew.
LEMMA AdoptStep ==
  ASSUME TypeOK, TypeOK', AnnouncementsOld, NEW s \in Switch,
         RecvSwitchControl(s), Better(s, pipe[<<s, scan[s]>>])
  PROVE  Parents!Next
<1> DEFINE k == scan[s]
           c == pipe[<<s, k>>]
           u == Neighbour(s, k)
           belief == [t \in Switch |-> [root |-> localRootID[t], dist |-> localRootDist[t]]]
           parent == [t \in Switch |-> IF localParent[t] = NoPort THEN NoPort
                                       ELSE Neighbour(t, localParent[t])]
<1>1. k \in PortIndex(s) /\ c \in SwitchControl /\ <<s, k>> \in Port
  BY PollType DEF RecvSwitchControl, TypeOK, SwitchPort
<1>2. c.root \in Switch /\ c.root \in Nat /\ c.dist \in Nat
  BY <1>1, SwitchIsNat DEF SwitchControl
<1>3. u \in Adjacent[s] /\ u \in Switch /\ NoBetter(u, c)
  <2>1. c.src = u /\ NoBetter(u, c)
    BY <1>1 DEF AnnouncementsOld, Neighbour
  <2>2. u \in Switch
    BY <1>1, <2>1 DEF SwitchControl
  <2>q. QED
    BY <1>1, <2>1, <2>2 DEF Adjacent
<1>4. \A t \in Switch : localRootID[t] \in Nat /\ localRootDist[t] \in Nat
  BY SwitchIsNat DEF TypeOK, ElectionType
<1>5. /\ localRootID' = [localRootID EXCEPT ![s] = c.root]
      /\ localRootDist' = [localRootDist EXCEPT ![s] = c.dist + 1]
      /\ localParent' = [localParent EXCEPT ![s] = k]
  BY DEF RecvSwitchControl
<1>6. /\ localRootID \in [Switch -> Switch] /\ localRootDist \in [Switch -> Nat]
      /\ localParent \in [Switch -> Int]
  BY DEF TypeOK, ElectionType
<1>7. belief'[s] = [root |-> c.root, dist |-> c.dist + 1]
  BY <1>5, <1>6
<1>8. belief' = [belief EXCEPT ![s] = belief'[s]]
  BY <1>5, <1>6
<1>9. parent' = [parent EXCEPT ![s] = u]
  <2>1. k # NoPort
    BY <1>1 DEF NoPort, PortIndex
  <2>2. \A t \in Switch : parent'[t] = [parent EXCEPT ![s] = u][t]
    BY <1>5, <1>6, <2>1 DEF Neighbour
  <2>q. QED
    BY <2>2
<1>10. belief[s] = [root |-> localRootID[s], dist |-> localRootDist[s]]
  OBVIOUS
<1>11. belief[u] = [root |-> localRootID[u], dist |-> localRootDist[u]]
  BY <1>3
<1> HIDE DEF c, u, belief, parent
<1>12. belief'[s] \in Parents!Belief
  BY <1>2, <1>7 DEF Parents!Belief
<1>13. Parents!Improves(belief'[s], belief[s])
  BY <1>2, <1>4, <1>7, <1>10 DEF Parents!Improves, Better, c, k
<1>14. ~Parents!Improves([belief'[s] EXCEPT !.dist = @ - 1], belief[u])
  <2>1. [belief'[s] EXCEPT !.dist = @ - 1] = [root |-> c.root, dist |-> c.dist]
    BY <1>2, <1>7
  <2>2. ~Parents!Improves([root |-> c.root, dist |-> c.dist], belief[u])
    BY <1>2, <1>3, <1>4, <1>11 DEF Parents!Improves, NoBetter
  <2>q. QED
    BY <2>1, <2>2
<1>15. PICK t \in Adjacent[s] : t = u
  BY <1>3
<1>16. Parents!Adopt(s, t)
  BY <1>8, <1>9, <1>12, <1>13, <1>14, <1>15 DEF Parents!Adopt, belief, parent
<1>q. QED
  BY <1>15, <1>16 DEF Parents!Next

\* Every other step leaves beliefs and parents alone.
LEMMA ElectionStep ==
  TypeOK /\ TypeOK' /\ AnnouncementsOld /\ [Next]_vars => [Parents!Next]_(Parents!vars)
<1> SUFFICES ASSUME TypeOK, TypeOK', AnnouncementsOld, [Next]_vars
             PROVE  Parents!Next \/ UNCHANGED Parents!vars
  OBVIOUS
<1>1. ASSUME UNCHANGED <<localRootID, localRootDist, localParent>>
      PROVE  UNCHANGED Parents!vars
  BY <1>1 DEF Parents!vars
<1>2. ASSUME NEW s \in Switch, SwitchStep(s)
      PROVE  Parents!Next \/ UNCHANGED Parents!vars
  <2>1. CASE RecvSwitchControl(s) /\ Better(s, pipe[<<s, scan[s]>>])
    BY <2>1, AdoptStep
  <2>2. CASE RecvSwitchControl(s) /\ ~Better(s, pipe[<<s, scan[s]>>])
    BY <1>1, <2>2 DEF RecvSwitchControl
  <2>3. CASE RecvNothing(s) \/ RecvLeafControl(s) \/ RecvData(s) \/ Execute(s)
    BY <1>1, <2>3 DEF RecvNothing, RecvLeafControl, RecvData, Execute, electionVars
  <2>q. QED
    BY <1>2, <2>1, <2>2, <2>3 DEF SwitchStep
<1>3. ASSUME NEW h \in Leaf, LeafStep(h)
      PROVE  UNCHANGED Parents!vars
  BY <1>1, <1>3 DEF LeafStep, LeafControlSend, LeafDataSend, LeafRecv, electionVars
<1>4. CASE UNCHANGED vars
  BY <1>1, <1>4 DEF vars, electionVars
<1>q. QED
  BY <1>2, <1>3, <1>4 DEF Next

\* In every network, whatever control packets are lost or late, the switches
\* implement an election in which they adopt what a neighbour knows or knew.
THEOREM ElectionImplemented == Spec => ImplementsElection
<1>1. Init => TypeOK /\ AnnouncementsOld /\ ParentCloser /\ Parents!Init
  BY InitType, OldInit, ElectionInit
<1>2. TypeOK /\ AnnouncementsOld /\ ParentCloser /\ [Next]_vars
        => (TypeOK /\ AnnouncementsOld /\ ParentCloser)'
  BY StepType, OldStep
<1>3. TypeOK /\ TypeOK' /\ AnnouncementsOld /\ [Next]_vars => [Parents!Next]_(Parents!vars)
  BY ElectionStep
<1>q. QED
  BY <1>1, <1>2, <1>3, PTL DEF Spec, ImplementsElection, Parents!Spec

--------------------------------------------------------------------------------
(* The lookup tables.  An entry for d is learned from a neighbour that is d or  *)
(* already knows d, and is never changed: the newest entry has no predecessor.  *)

\* What learning changes: at most the entry of s for d, from none to port k.
LEMMA LearnEffect ==
  ASSUME TableType, NEW s \in Switch, NEW d \in Id, NEW k \in PortIndex(s),
         Learn(s, d, k)
  PROVE  /\ s \in Known(d)'
         /\ \A e \in Id : Known(e) \subseteq Known(e)'
         /\ \A e \in Id : Known(e)' \subseteq Known(e) \cup (IF e = d THEN {s} ELSE {})
         /\ \A e \in Id : \A t \in Known(e) : NextHop(t, e)' = NextHop(t, e)
         /\ s \notin Known(d) => NextHop(s, d)' = Neighbour(s, k)
<1>1. k # NoPort
  BY DEF PortIndex, NoPort
<1>2. CASE lookupTable[s][d] # NoPort
  BY <1>2 DEF Learn, Known, NextHop
<1>3. CASE lookupTable[s][d] = NoPort
  BY <1>1, <1>3 DEF Learn, Known, NextHop, TableType
<1>q. QED
  BY <1>2, <1>3

LEMMA LearnLeadsHome ==
  ASSUME TableType, LookupLeadsHome,
         NEW s \in Switch, NEW d \in Id, NEW k \in PortIndex(s), Learn(s, d, k),
         s # d, Neighbour(s, k) # s,
         Neighbour(s, k) \in Known(d) \cup {d}
  PROVE  LookupLeadsHome'
<1> SUFFICES ASSUME NEW e \in Id
             PROVE  /\ \A t \in Known(e)' : NextHop(t, e)' \in Known(e)' \cup {e}
                    /\ \A S \in SUBSET Known(e)' :
                         S # {} => \E t \in S : NextHop(t, e)' \notin S
  BY DEF LookupLeadsHome
<1> DEFINE K  == Known(e)
           K2 == Known(e)'
<1>1. /\ K \subseteq K2 /\ K2 \subseteq K \cup (IF e = d THEN {s} ELSE {})
      /\ \A t \in K : NextHop(t, e)' = NextHop(t, e)
  BY LearnEffect
<1>2. /\ \A t \in K : NextHop(t, e) \in K \cup {e}
      /\ \A S \in SUBSET K : S # {} => \E t \in S : NextHop(t, e) \notin S
  BY DEF LookupLeadsHome
<1>3. CASE K2 = K
  BY <1>1, <1>2, <1>3
<1>4. CASE K2 # K
  <2>1. e = d /\ s \notin K /\ K2 = K \cup {s}
    BY <1>1, <1>4
  <2>2. NextHop(s, e)' = Neighbour(s, k)
    BY <2>1, LearnEffect
  <2> DEFINE u == Neighbour(s, k)
  <2>3. u # s /\ u \in K \cup {e} /\ s # e
    BY <2>1
  <2> HIDE DEF K, K2, u
  <2>4. \A t \in K2 : NextHop(t, e)' \in K2 \cup {e}
    BY <1>1, <1>2, <2>1, <2>2, <2>3 DEF u
  <2>5. ASSUME NEW S \in SUBSET K2, S # {}
        PROVE  \E t \in S : NextHop(t, e)' \notin S
    <3>1. CASE s \notin S
      BY <1>1, <1>2, <2>1, <2>5, <3>1
    <3>2. CASE s \in S /\ u \notin S
      BY <2>2, <3>2 DEF u
    <3>3. CASE s \in S /\ u \in S
      <4>1. S \ {s} \in SUBSET K /\ S \ {s} # {}
        BY <2>1, <2>3, <3>3
      <4>2. PICK t \in S \ {s} : NextHop(t, e) \notin S \ {s}
        BY <1>2, <4>1
      <4>3. t \in K /\ NextHop(t, e) # s
        BY <1>2, <2>1, <2>3, <4>1, <4>2
      <4>q. QED
        BY <1>1, <4>2, <4>3
    <3>q. QED
      BY <3>1, <3>2, <3>3
  <2>q. QED
    BY <2>4, <2>5 DEF K, K2
<1>q. QED
  BY <1>3, <1>4

\* A packet that a switch reads from port k was passed on by the neighbour
\* there, which knows its source or is it; the switch itself is not.
LEMMA ReadTrail ==
  ASSUME TypeOK, TrailKnown, NEW s \in Switch, NEW S, Poll(s, S),
         NoPacket \notin S, S \subseteq Packet,
         \A p \in Port : pipe[p] \in SwitchControl => pipe[p].src = Peer[p][1]
  PROVE  LET k == scan[s]
             d == pipe[<<s, k>>].src
         IN /\ k \in PortIndex(s) /\ d \in Id /\ s # d /\ Neighbour(s, k) # s
            /\ Neighbour(s, k) \in Known(d) \cup {d}
<1> DEFINE k == scan[s]
           c == pipe[<<s, k>>]
<1>1. k \in PortIndex(s) /\ <<s, k>> \in Port /\ c \in S /\ c \in Packet
  BY PollType DEF TypeOK, SwitchPort
<1>2. Neighbour(s, k) # s
  BY <1>1, LinkAssumption DEF Neighbour
<1>3. c.src \in Id
  BY <1>1 DEF Packet, SwitchControl, LeafControl, Data, Id, Node
<1>4. s # c.src
  <2>1. CASE c \in SwitchControl
    BY <1>1, <1>2, <2>1 DEF Neighbour
  <2>2. CASE c \in LeafControl \cup Data
    BY <2>2, NodeAssumption DEF LeafControl, Data
  <2>q. QED
    BY <1>1, <2>1, <2>2 DEF Packet
<1>5. Neighbour(s, k) \in Known(c.src) \cup {c.src}
  BY <1>1 DEF TrailKnown, Neighbour
<1>q. QED
  BY <1>1, <1>2, <1>3, <1>4, <1>5

\* Nothing known is forgotten, so it is enough to look at what a step adds.
LEMMA TrailKept ==
  ASSUME TypeOK, TrailKnown,
         \A e \in Id : Known(e) \subseteq Known(e)',
         \A p \in Port :
            \/ pipe'[p] = pipe[p] \/ pipe'[p] = NoPacket
            \/ \E e \in Id : e = pipe'[p].src /\ Peer[p][1] \in {e} \cup Known(e)',
         \A s \in Switch : \A j \in Items(jobs'[s]) :
            \/ j \in Items(jobs[s])
            \/ s \in {j.packet.src} \cup Known(j.packet.src)'
  PROVE  TrailKnown'
<1>1. ASSUME NEW p \in Port, pipe'[p] # NoPacket
      PROVE  \E e \in Id : e = pipe'[p].src /\ Peer[p][1] \in {e} \cup Known(e)'
  <2>1. CASE pipe'[p] = pipe[p]
    <3>1. pipe[p].src \in Id
      <4>1. pipe[p] \in Packet
        BY <1>1, <2>1 DEF TypeOK, PipeType
      <4>q. QED
        BY <4>1 DEF Packet, SwitchControl, LeafControl, Data, Id, Node
    <3>2. Peer[p][1] \in {pipe[p].src} \cup Known(pipe[p].src)
      BY <1>1, <2>1 DEF TrailKnown
    <3>3. PICK e \in Id : e = pipe[p].src
      BY <3>1
    <3>4. Peer[p][1] \in {e} \cup Known(e)'
      BY <3>2, <3>3
    <3>q. QED
      BY <2>1, <3>3, <3>4
  <2>q. QED
    BY <1>1, <2>1
<1>2. ASSUME NEW s \in Switch, NEW j \in Items(jobs'[s])
      PROVE  s = j.packet.src \/ s \in Known(j.packet.src)'
  <2>1. CASE j \in Items(jobs[s])
    <3>1. j \in Job
      BY <2>1 DEF TypeOK, QueueType, JobOf
    <3>2. j.packet.src \in Id
      BY <3>1 DEF Job, SwitchControl, Data, Id, Node
    <3>3. s = j.packet.src \/ s \in Known(j.packet.src)
      BY <2>1 DEF TrailKnown
    <3>q. QED
      BY <3>2, <3>3
  <2>q. QED
    BY <1>2, <2>1
<1>3. \A p \in Port : pipe'[p] # NoPacket =>
        \/ Peer[p][1] = pipe'[p].src
        \/ Peer[p][1] \in {s \in Switch : lookupTable'[s][pipe'[p].src] # NoPort}
  BY <1>1 DEF Known
<1>q. QED
  BY <1>2, <1>3 DEF TrailKnown, Known

\* The same for a step that does not touch the tables.
LEMMA TableKept ==
  ASSUME UNCHANGED lookupTable
  PROVE  /\ \A e : Known(e)' = Known(e)
         /\ LookupLeadsHome => LookupLeadsHome'
BY DEF LookupLeadsHome, Known, NextHop

LEMMA TrailInit == Init => TrailKnown /\ LookupLeadsHome
<1> SUFFICES ASSUME Init PROVE TrailKnown /\ LookupLeadsHome
  OBVIOUS
<1>1. \A e \in Id : Known(e) = {}
  BY DEF Init, Known
<1>2. \A s \in Switch : \A j \in Items(jobs[s]) : j.packet.src = s
  <2>1. \A s \in Switch : ControlJob(s).packet.src = s
    BY DEF ControlJob
  <2>q. QED
    BY <2>1, FirstQueue
<1>3. TrailKnown
  BY <1>2 DEF Init, TrailKnown
<1>4. LookupLeadsHome
  <2> SUFFICES ASSUME NEW d \in Id
               PROVE  /\ \A s \in Known(d) : NextHop(s, d) \in Known(d) \cup {d}
                      /\ \A S \in SUBSET Known(d) :
                           S # {} => \E s \in S : NextHop(s, d) \notin S
    BY DEF LookupLeadsHome
  <2>q. QED
    BY <1>1
<1>q. QED
  BY <1>3, <1>4

LEMMA TrailStep ==
  TypeOK /\ AnnouncementsOld /\ TrailKnown /\ LookupLeadsHome /\ [Next]_vars
    => TrailKnown' /\ LookupLeadsHome'
<1> SUFFICES ASSUME TypeOK, AnnouncementsOld, TrailKnown, LookupLeadsHome, [Next]_vars
             PROVE  TrailKnown' /\ LookupLeadsHome'
  OBVIOUS
<1>1. TableType /\ PipeType
  BY DEF TypeOK
<1>2. \A p \in Port : pipe[p] \in SwitchControl => pipe[p].src = Peer[p][1]
  BY DEF AnnouncementsOld
<1>3. /\ NoPacket \notin SwitchControl /\ SwitchControl \subseteq Packet
      /\ NoPacket \notin LeafControl /\ LeafControl \subseteq Packet
      /\ NoPacket \notin Data /\ Data \subseteq Packet
  BY NoPacketAssumption DEF Packet
<1>4. ASSUME NEW s \in Switch, RecvNothing(s)
      PROVE  TrailKnown' /\ LookupLeadsHome'
  <2>1. UNCHANGED lookupTable /\ jobs' = jobs
    BY <1>4 DEF RecvNothing
  <2>2. \A p \in Port : pipe'[p] = pipe[p] \/ pipe'[p] = NoPacket
    BY <1>1, <1>4, PollPipe DEF RecvNothing
  <2>q. QED
    BY <2>1, <2>2, TableKept, TrailKept
<1>5. ASSUME NEW s \in Switch, RecvSwitchControl(s) \/ RecvLeafControl(s)
      PROVE  TrailKnown' /\ LookupLeadsHome'
  <2> DEFINE k == scan[s]
             c == pipe[<<s, k>>]
  <2>1. /\ k \in PortIndex(s) /\ c.src \in Id /\ s # c.src /\ Neighbour(s, k) # s
        /\ Neighbour(s, k) \in Known(c.src) \cup {c.src}
    BY <1>2, <1>3, <1>5, ReadTrail DEF RecvSwitchControl, RecvLeafControl
  <2>2. PICK e \in Id : e = c.src
    BY <2>1
  <2>3. Learn(s, e, k) /\ jobs' = jobs
    BY <1>5, <2>2 DEF RecvSwitchControl, RecvLeafControl
  <2>4. \A p \in Port : pipe'[p] = pipe[p] \/ pipe'[p] = NoPacket
    BY <1>1, <1>5, PollPipe DEF RecvSwitchControl, RecvLeafControl
  <2> HIDE DEF k, c
  <2>5. \A f \in Id : Known(f) \subseteq Known(f)'
    BY <1>1, <2>1, <2>2, <2>3, LearnEffect
  <2>6. LookupLeadsHome'
    BY <1>1, <2>1, <2>2, <2>3, LearnLeadsHome
  <2>q. QED
    BY <2>3, <2>4, <2>5, <2>6, TrailKept
<1>6. ASSUME NEW s \in Switch, RecvData(s)
      PROVE  TrailKnown' /\ LookupLeadsHome'
  <2> DEFINE k == scan[s]
             c == pipe[<<s, k>>]
             j == DataJob(s, k, c)
  <2>1. /\ k \in PortIndex(s) /\ c.src \in Id /\ s # c.src /\ Neighbour(s, k) # s
        /\ Neighbour(s, k) \in Known(c.src) \cup {c.src}
    BY <1>2, <1>3, <1>6, ReadTrail DEF RecvData
  <2>2. PICK e \in Id : e = c.src
    BY <2>1
  <2>3. Learn(s, e, k) /\ j.packet.src = e
    BY <1>6, <2>2 DEF RecvData, DataJob
  <2>4. \A p \in Port : pipe'[p] = pipe[p] \/ pipe'[p] = NoPacket
    BY <1>1, <1>6, PollPipe DEF RecvData
  <2>5. \A t \in Switch : \A i \in Items(jobs'[t]) :
          i \in Items(jobs[t]) \/ (t = s /\ i = j)
    BY <1>6, RecvDataQueue
  <2> HIDE DEF k, c, j
  <2>6. s \in Known(e)' /\ \A f \in Id : Known(f) \subseteq Known(f)'
    BY <1>1, <2>1, <2>2, <2>3, LearnEffect
  <2>7. LookupLeadsHome'
    BY <1>1, <2>1, <2>2, <2>3, LearnLeadsHome
  <2>8. ASSUME NEW t \in Switch, NEW i \in Items(jobs'[t])
        PROVE  \/ i \in Items(jobs[t])
               \/ t \in {i.packet.src} \cup Known(i.packet.src)'
    <3>1. CASE t = s /\ i = j
      <4>1. i.packet.src = e
        BY <2>3, <3>1
      <4>q. QED
        BY <2>6, <3>1, <4>1 DEF Known
    <3>q. QED
      BY <2>5, <3>1
  <2>q. QED
    BY <2>4, <2>6, <2>7, <2>8, TrailKept
<1>7. ASSUME NEW s \in Switch, Execute(s)
      PROVE  TrailKnown' /\ LookupLeadsHome'
  <2>1. UNCHANGED lookupTable
    BY <1>7 DEF Execute
  <2>2. ASSUME NEW t \in Switch, NEW i \in Items(jobs'[t])
        PROVE  \/ i \in Items(jobs[t])
               \/ t \in {i.packet.src} \cup Known(i.packet.src)'
    BY <1>7, <2>2, ExecuteEffect, ControlJobType DEF TypeOK
  <2>3. ASSUME NEW p \in Port, pipe'[p] # pipe[p]
        PROVE  \E e \in Id : e = pipe'[p].src /\ Peer[p][1] \in {e} \cup Known(e)'
    <3>1. Peer[p][1] = s
      BY <1>7, <2>3, ExecuteEffect
    <3>2. PICK j \in Items(jobs[s]) : \E k : pipe'[p] = Outgoing(s, j, k)
      BY <1>7, <2>3, ExecuteEffect
    <3>3. PICK k : pipe'[p] = Outgoing(s, j, k)
      BY <3>2
    <3>4. j \in Job
      BY DEF TypeOK, QueueType, JobOf
    <3>5. pipe'[p].src = j.packet.src
      BY <3>3, <3>4, OutgoingType
    <3>6. j.packet.src \in Id
      BY <3>4 DEF Job, SwitchControl, Data, Id, Node
    <3>7. s = j.packet.src \/ s \in Known(j.packet.src)
      BY DEF TrailKnown
    <3>q. QED
      BY <2>1, <3>1, <3>5, <3>6, <3>7, TableKept
  <2>q. QED
    BY <2>1, <2>2, <2>3, TableKept, TrailKept
<1>8. ASSUME NEW h \in Leaf,
             \/ LeafControlSend(h)
             \/ \E d \in Dst : LeafDataSend(h, d)
             \/ \E k \in PortIndex(h) : LeafRecv(h, k)
      PROVE  TrailKnown' /\ LookupLeadsHome'
  <2>1. UNCHANGED lookupTable /\ jobs' = jobs
    BY <1>8 DEF LeafControlSend, LeafDataSend, LeafRecv
  <2>2. ASSUME NEW p \in Port
        PROVE  \/ pipe'[p] = pipe[p] \/ pipe'[p] = NoPacket
               \/ \E e \in Id : e = pipe'[p].src /\ Peer[p][1] \in {e} \cup Known(e)'
    <3> h \in Id
      BY DEF Id, Node
    <3>1. CASE LeafControlSend(h)
      BY <3>1, BroadcastEffect DEF LeafControlSend
    <3>2. ASSUME NEW d \in Dst, LeafDataSend(h, d)
          PROVE  \/ pipe'[p] = pipe[p]
                 \/ pipe'[p].src = h /\ Peer[p][1] = h
      BY <3>2, BroadcastEffect DEF LeafDataSend
    <3>3. ASSUME NEW k \in PortIndex(h), LeafRecv(h, k)
          PROVE  pipe'[p] = pipe[p] \/ pipe'[p] = NoPacket
      BY <1>1, <3>3 DEF LeafRecv, PipeType
    <3>q. QED
      BY <1>8, <3>1, <3>2, <3>3
  <2>q. QED
    BY <2>1, <2>2, TableKept, TrailKept
<1>9. CASE UNCHANGED vars
  <2>1. UNCHANGED <<lookupTable, jobs, pipe>>
    BY <1>9 DEF vars
  <2>2. LookupLeadsHome' /\ \A e : Known(e)' = Known(e)
    BY <2>1, TableKept
  <2>q. QED
    BY <2>1, <2>2, TrailKept
<1>q. QED
  BY <1>4, <1>5, <1>6, <1>7, <1>8, <1>9 DEF Next, SwitchStep, LeafStep

\* In every network, also while packets are flooded round cycles before there is
\* a tree: the lookup tables never send a packet for d round in circles, and
\* never to a switch that does not know where to send it on.
THEOREM TablesLeadHome == Spec => []LookupLeadsHome
<1> DEFINE Inv == /\ TypeOK /\ AnnouncementsOld /\ ParentCloser
                  /\ TrailKnown /\ LookupLeadsHome
<1>1. Init => Inv
  BY InitType, OldInit, TrailInit
<1>2. Inv /\ [Next]_vars => Inv'
  BY StepType, OldStep, TrailStep
<1>q. QED
  BY <1>1, <1>2, PTL DEF Spec

\* In every network: a node that passes on a packet of d is d or knows d, so an
\* answer to the packet finds its way back from wherever the packet got to.
THEOREM TrailsAreKnown == Spec => []TrailKnown
<1> DEFINE Inv == /\ TypeOK /\ AnnouncementsOld /\ ParentCloser
                  /\ TrailKnown /\ LookupLeadsHome
<1>1. Init => Inv
  BY InitType, OldInit, TrailInit
<1>2. Inv /\ [Next]_vars => Inv'
  BY StepType, OldStep, TrailStep
<1>q. QED
  BY <1>1, <1>2, PTL DEF Spec
--------------------------------------------------------------------------------
(* The routes.  A belief at distance d needs d + 1 switches that are at least   *)
(* as well off at 0, 1, ..., d: whoever adopted it left a worse place for it.   *)

\* The switches whose belief is as good as root r at distance i, when rid and
\* rdist are the roots and distances of all.
Ahead(rid, rdist, r, i) ==
  {u \in Switch : rid[u] < r \/ (rid[u] = r /\ rdist[u] <= i)}

Crowd(rid, rdist, r, d) ==
  \A i \in 0 .. d : Cardinality(Ahead(rid, rdist, r, i)) >= i + 1

\* That s is at distance d of r, or once was.
Real(rid, rdist, s, r, d) ==
  <<r, s>> \in Within[d] /\ Crowd(rid, rdist, r, d)

RealBelief ==
  \A s \in Switch : Real(localRootID, localRootDist, s, localRootID[s], localRootDist[s])

RealPacket(c) == Real(localRootID, localRootDist, c.src, c.root, c.dist)

RoutesReal ==
  /\ RealBelief
  /\ \A p \in Port : pipe[p] \in SwitchControl => RealPacket(pipe[p])
  /\ \A s \in Switch : \A j \in Items(jobs[s]) :
       j.packet \in SwitchControl => RealPacket(j.packet)

\* Within[n] in closed form: the pairs joined by a walk of n steps, each over one
\* link or none.
Walks(n) ==
  {e \in Switch \X Switch :
     \E f \in [Nat -> Switch] :
       /\ f[0] = e[1] /\ f[n] = e[2]
       /\ \A i \in 1 .. n : f[i] = f[i - 1] \/ f[i - 1] \in Adjacent[f[i]]}

\* One step more.
Longer(S) ==
  S \cup {e \in Switch \X Switch : \E s \in Adjacent[e[2]] : <<e[1], s>> \in S}

LEMMA WalksBegin == Walks(0) = {<<s, s>> : s \in Switch}
<1>1. ASSUME NEW s \in Switch PROVE <<s, s>> \in Walks(0)
  <2> DEFINE f == [i \in Nat |-> s]
  <2>1. f \in [Nat -> Switch] /\ f[0] = s
    OBVIOUS
  <2>2. <<s, s>> \in Switch \X Switch /\ <<s, s>>[1] = s /\ <<s, s>>[2] = s
    OBVIOUS
  <2> HIDE DEF f
  <2>q. QED
    BY <2>1, <2>2 DEF Walks
<1>2. ASSUME NEW e \in Walks(0) PROVE \E s \in Switch : e = <<s, s>>
  BY DEF Walks
<1>q. QED
  BY <1>1, <1>2

LEMMA WalksStep ==
  ASSUME NEW n \in Nat \ {0}
  PROVE  Walks(n) = Longer(Walks(n - 1))
<1>0. n - 1 \in Nat /\ n \in Nat /\ n # n - 1 /\ 0 # n
  OBVIOUS
<1>1. ASSUME NEW e \in Walks(n) PROVE e \in Longer(Walks(n - 1))
  <2>1. e \in Switch \X Switch
    BY DEF Walks
  <2>2. PICK f \in [Nat -> Switch] :
          /\ f[0] = e[1] /\ f[n] = e[2]
          /\ \A i \in 1 .. n : f[i] = f[i - 1] \/ f[i - 1] \in Adjacent[f[i]]
    BY DEF Walks
  <2>3. f[n - 1] \in Switch /\ (f[n] = f[n - 1] \/ f[n - 1] \in Adjacent[f[n]])
    BY <1>0, <2>2
  <2>4. \A i \in 1 .. n - 1 : f[i] = f[i - 1] \/ f[i - 1] \in Adjacent[f[i]]
    BY <2>2
  <2>5. \A t \in Switch : t = f[n - 1] => <<e[1], t>> \in Walks(n - 1)
    <3> SUFFICES ASSUME NEW t \in Switch, t = f[n - 1]
                 PROVE  <<e[1], t>> \in Walks(n - 1)
      OBVIOUS
    <3>1. <<e[1], t>> \in Switch \X Switch /\ <<e[1], t>>[1] = e[1] /\ <<e[1], t>>[2] = t
      BY <2>1
    <3>q. QED
      BY <2>2, <2>4, <3>1 DEF Walks
  <2>6. CASE f[n] = f[n - 1]
    <3>1. e = <<e[1], e[2]>>
      BY <2>1
    <3>2. e[2] = f[n - 1]
      BY <2>2, <2>6
    <3>3. e \in Walks(n - 1)
      BY <2>3, <2>5, <3>1, <3>2
    <3>q. QED
      BY <3>3 DEF Longer
  <2>7. CASE f[n - 1] \in Adjacent[f[n]]
    BY <2>1, <2>2, <2>3, <2>5, <2>7 DEF Longer
  <2>q. QED
    BY <2>3, <2>6, <2>7
<1>2. ASSUME NEW e \in Switch \X Switch, NEW s \in Switch, <<e[1], s>> \in Walks(n - 1),
             e[2] = s \/ s \in Adjacent[e[2]]
      PROVE  e \in Walks(n)
  <2>0. <<e[1], s>>[1] = e[1] /\ <<e[1], s>>[2] = s
    OBVIOUS
  <2>1. PICK f \in [Nat -> Switch] :
          /\ f[0] = e[1] /\ f[n - 1] = s
          /\ \A i \in 1 .. n - 1 : f[i] = f[i - 1] \/ f[i - 1] \in Adjacent[f[i]]
    BY <1>2, <2>0 DEF Walks
  <2> DEFINE g == [f EXCEPT ![n] = e[2]]
  <2>2. g \in [Nat -> Switch] /\ g[n] = e[2] /\ \A i \in Nat : i # n => g[i] = f[i]
    BY <1>0, <2>1
  <2> HIDE DEF g
  <2>3. g[0] = e[1] /\ g[n - 1] = s
    BY <1>0, <2>1, <2>2
  <2>4. ASSUME NEW i \in 1 .. n PROVE g[i] = g[i - 1] \/ g[i - 1] \in Adjacent[g[i]]
    <3>1. CASE i = n
      BY <1>2, <2>2, <2>3, <3>1
    <3>2. CASE i # n
      <4>1. i \in 1 .. n - 1 /\ i \in Nat /\ i - 1 \in Nat /\ i - 1 # n
        BY <3>2
      <4>q. QED
        BY <2>1, <2>2, <3>2, <4>1
    <3>q. QED
      BY <3>1, <3>2
  <2>q. QED
    BY <2>2, <2>3, <2>4 DEF Walks
<1>3. ASSUME NEW e \in Longer(Walks(n - 1)) PROVE e \in Walks(n)
  <2>1. CASE e \in Walks(n - 1)
    <3>1. e \in Switch \X Switch /\ e[2] \in Switch /\ e = <<e[1], e[2]>>
      BY <2>1 DEF Walks
    <3>q. QED
      BY <1>2, <2>1, <3>1
  <2>2. CASE e \notin Walks(n - 1)
    <3>1. e \in Switch \X Switch /\ e[2] \in Switch
      BY <2>2 DEF Longer
    <3>2. PICK s \in Adjacent[e[2]] : <<e[1], s>> \in Walks(n - 1)
      BY <2>2 DEF Longer
    <3>3. s \in Switch
      BY <3>1 DEF Adjacent
    <3>q. QED
      BY <1>2, <3>1, <3>2, <3>3
  <2>q. QED
    BY <2>1, <2>2
<1>q. QED
  BY <1>1, <1>3

\* The equation that defines Within has a solution, so Within satisfies it.
LEMMA WithinEquation ==
  /\ Within[0] = {<<s, s>> : s \in Switch}
  /\ \A n \in Nat \ {0} : Within[n] = Longer(Within[n - 1])
<1> DEFINE Step(f, n) == IF n = 0 THEN {<<s, s>> : s \in Switch}
                         ELSE f[n - 1] \cup
                              {e \in Switch \X Switch :
                                 \E s \in Adjacent[e[2]] : <<e[1], s>> \in f[n - 1]}
           Solves(f) == f = [n \in Nat |-> Step(f, n)]
           w == [n \in Nat |-> Walks(n)]
<1>1. ASSUME NEW n \in Nat PROVE w[n] = Step(w, n)
  <2>1. CASE n = 0
    BY <2>1, WalksBegin
  <2>2. CASE n # 0
    <3>1. n \in Nat \ {0} /\ n - 1 \in Nat
      BY <2>2
    <3>2. w[n] = Walks(n) /\ w[n - 1] = Walks(n - 1)
      BY <3>1
    <3>3. Walks(n) = Longer(Walks(n - 1))
      BY <3>1, WalksStep
    <3> HIDE DEF w
    <3>q. QED
      BY <2>2, <3>2, <3>3 DEF Longer
  <2>q. QED
    BY <2>1, <2>2
<1>2. Solves(w)
  BY <1>1
<1>3. Within = CHOOSE f : Solves(f)
  BY DEF Within
<1>4. Solves(Within)
  <2> HIDE DEF Solves
  <2>q. QED
    BY <1>2, <1>3
<1>5. \A n \in Nat : Within[n] = Step(Within, n)
  BY <1>4
<1>q. QED
  BY <1>5 DEF Longer

\* The crowd only grows while beliefs improve.
LEMMA AheadFinite ==
  ASSUME NEW rid, NEW rdist, NEW r, NEW i
  PROVE  /\ IsFiniteSet(Ahead(rid, rdist, r, i))
         /\ Cardinality(Ahead(rid, rdist, r, i)) \in Nat
         /\ Cardinality(Ahead(rid, rdist, r, i)) <= Cardinality(Switch)
<1>1. Ahead(rid, rdist, r, i) \in SUBSET Switch
  BY DEF Ahead
<1>q. QED
  BY <1>1, FiniteAssumption, FS_Subset, FS_CardinalityType

LEMMA AheadStays ==
  ASSUME ElectionType, ElectionType', \A t \in Switch : Improves(t),
         NEW r \in Switch, NEW i \in Nat
  PROVE  Ahead(localRootID, localRootDist, r, i) \subseteq Ahead(localRootID', localRootDist', r, i)
<1> SUFFICES ASSUME NEW u \in Switch,
                    localRootID[u] < r \/ (localRootID[u] = r /\ localRootDist[u] <= i)
             PROVE  localRootID'[u] < r \/ (localRootID'[u] = r /\ localRootDist'[u] <= i)
  BY DEF Ahead
<1>1. /\ localRootID[u] \in Nat /\ localRootDist[u] \in Nat /\ r \in Nat
      /\ localRootID'[u] \in Nat /\ localRootDist'[u] \in Nat
  BY SwitchIsNat DEF ElectionType
<1>2. Improves(u)
  OBVIOUS
<1>q. QED
  BY <1>1, <1>2 DEF Improves

LEMMA RealStays ==
  ASSUME ElectionType, ElectionType', \A t \in Switch : Improves(t),
         NEW s, NEW r \in Switch, NEW d \in Nat,
         Real(localRootID, localRootDist, s, r, d)
  PROVE  Real(localRootID', localRootDist', s, r, d)
<1> SUFFICES ASSUME NEW i \in 0 .. d
             PROVE  Cardinality(Ahead(localRootID', localRootDist', r, i)) >= i + 1
  BY DEF Real, Crowd
<1> DEFINE A == Ahead(localRootID, localRootDist, r, i)
           B == Ahead(localRootID', localRootDist', r, i)
<1>1. A \subseteq B
  BY AheadStays
<1>2. IsFiniteSet(B) /\ Cardinality(B) \in Nat /\ Cardinality(A) \in Nat
  BY AheadFinite
<1>3. Cardinality(A) >= i + 1
  BY DEF Real, Crowd
<1> HIDE DEF A, B
<1>4. Cardinality(A) <= Cardinality(B)
  BY <1>1, <1>2, FS_Subset
<1>q. QED
  BY <1>2, <1>3, <1>4 DEF B

\* Whoever adopts a real route has a real route.
LEMMA AdoptReal ==
  ASSUME TypeOK, TypeOK', AnnouncementsOld, RoutesReal,
         NEW s \in Switch, RecvSwitchControl(s)
  PROVE  RealBelief'
<1> DEFINE k == scan[s]
           c == pipe[<<s, k>>]
           r == c.root
           d == c.dist + 1
<1>1. k \in PortIndex(s) /\ c \in SwitchControl /\ <<s, k>> \in Port
  BY PollType DEF RecvSwitchControl, TypeOK, SwitchPort
<1>2. r \in Switch /\ c.dist \in Nat /\ d \in Nat \ {0} /\ d - 1 = c.dist /\ c.src \in Switch
  BY <1>1 DEF SwitchControl
<1>3. ElectionType /\ ElectionType'
  BY DEF TypeOK
<1>4. \A t \in Switch : Improves(t)
  BY AdoptImproves
<1>5. \A t \in Switch : Real(localRootID', localRootDist', t, localRootID[t], localRootDist[t])
  BY <1>3, <1>4, RealStays DEF RoutesReal, RealBelief, ElectionType
<1>6. CASE Better(s, c)
  <2>1. /\ localRootID'[s] = r /\ localRootDist'[s] = d
        /\ \A t \in Switch \ {s} : /\ localRootID'[t] = localRootID[t]
                                  /\ localRootDist'[t] = localRootDist[t]
    BY <1>6, <1>3 DEF RecvSwitchControl, ElectionType
  <2>2. Real(localRootID, localRootDist, c.src, r, d - 1)
    BY <1>1, <1>2 DEF RoutesReal, RealPacket
  <2>3. Real(localRootID', localRootDist', c.src, r, d - 1)
    BY <1>2, <1>3, <1>4, <2>2, RealStays
  <2>4. c.src \in Adjacent[s]
    BY <1>1, <1>2 DEF AnnouncementsOld, Adjacent, Neighbour
  <2>5. <<r, s>> \in Within[d]
    <3> HIDE DEF c, d, r
    <3>1. <<r, s>> \in Switch \X Switch /\ <<r, s>>[1] = r /\ <<r, s>>[2] = s
      BY <1>2
    <3>2. <<r, c.src>> \in Within[d - 1]
      BY <2>2 DEF Real
    <3>3. Within[d] = Longer(Within[d - 1])
      BY <1>2, WithinEquation
    <3>q. QED
      BY <2>4, <3>1, <3>2, <3>3 DEF Longer
  <2> DEFINE A == Ahead(localRootID, localRootDist, r, d - 1)
             B == Ahead(localRootID', localRootDist', r, d)
  <2>6. s \notin A
    <3>1. localRootID[s] \in Nat /\ localRootDist[s] \in Nat /\ r \in Nat
      BY <1>2, <1>3, SwitchIsNat DEF ElectionType
    <3>q. QED
      BY <1>2, <1>6, <3>1 DEF Better, Ahead
  <2>7. A \cup {s} \subseteq B
    <3>1. A \subseteq Ahead(localRootID', localRootDist', r, d - 1)
      BY <1>2, <1>3, <1>4, AheadStays
    <3>2. Ahead(localRootID', localRootDist', r, d - 1) \subseteq B
      <4>1. \A u \in Switch : localRootDist'[u] \in Nat
        BY <1>3 DEF ElectionType
      <4>q. QED
        BY <1>2, <4>1 DEF Ahead
    <3>3. s \in B
      BY <1>2, <2>1 DEF Ahead
    <3>q. QED
      BY <3>1, <3>2, <3>3
  <2>8. Cardinality(B) >= d + 1
    <3>1. /\ IsFiniteSet(A) /\ IsFiniteSet(B)
          /\ Cardinality(A) \in Nat /\ Cardinality(B) \in Nat
      BY AheadFinite
    <3>2. Cardinality(A) >= d
      <4>1. d - 1 \in 0 .. d - 1 /\ (d - 1) + 1 = d
        BY <1>2
      <4>2. \A i \in 0 .. d - 1 : Cardinality(Ahead(localRootID, localRootDist, r, i)) >= i + 1
        BY <2>2 DEF Real, Crowd
      <4> HIDE DEF d
      <4>q. QED
        BY <4>1, <4>2
    <3> HIDE DEF A, B, d
    <3>3. IsFiniteSet(A \cup {s}) /\ Cardinality(A \cup {s}) = Cardinality(A) + 1
      BY <2>6, <3>1, FS_AddElement
    <3>4. Cardinality(A \cup {s}) <= Cardinality(B)
      BY <2>7, <3>1, FS_Subset
    <3>q. QED
      BY <1>2, <3>1, <3>2, <3>3, <3>4
  <2>9. Real(localRootID', localRootDist', s, r, d)
    <3>1. \A i \in 0 .. d - 1 : Cardinality(Ahead(localRootID', localRootDist', r, i)) >= i + 1
      BY <2>3 DEF Real, Crowd
    <3>2. \A i \in 0 .. d : i \in 0 .. d - 1 \/ i = d
      BY <1>2
    <3> HIDE DEF d, r
    <3>q. QED
      BY <2>5, <2>8, <3>1, <3>2 DEF Real, Crowd
  <2>10. ASSUME NEW t \in Switch
         PROVE  Real(localRootID', localRootDist', t, localRootID'[t], localRootDist'[t])
    <3>1. CASE t = s
      BY <2>1, <2>9, <3>1
    <3>2. CASE t # s
      <4>1. localRootID'[t] = localRootID[t] /\ localRootDist'[t] = localRootDist[t]
        BY <2>1, <3>2
      <4>q. QED
        BY <1>5, <4>1
    <3>q. QED
      BY <3>1, <3>2
  <2>q. QED
    BY <2>10 DEF RealBelief
<1>7. CASE ~Better(s, c)
  <2>1. localRootID' = localRootID /\ localRootDist' = localRootDist
    BY <1>7 DEF RecvSwitchControl
  <2>q. QED
    BY <1>5, <2>1 DEF RealBelief
<1>q. QED
  BY <1>6, <1>7

LEMMA RealInit == Init => RoutesReal
<1> SUFFICES ASSUME Init PROVE RoutesReal
  OBVIOUS
<1>1. ASSUME NEW s \in Switch PROVE Real(localRootID, localRootDist, s, s, 0)
  <2> DEFINE A == Ahead(localRootID, localRootDist, s, 0)
  <2>1. s \in A
    BY DEF Init, Ahead
  <2>2. IsFiniteSet(A) /\ Cardinality(A) \in Nat
    BY AheadFinite
  <2>3. Cardinality(A) # 0
    BY <2>1, <2>2, FS_EmptySet
  <2>4. Cardinality(A) >= 0 + 1
    BY <2>2, <2>3
  <2>5. \A i \in 0 .. 0 : i = 0
    OBVIOUS
  <2>6. <<s, s>> \in Within[0]
    BY WithinEquation
  <2>q. QED
    BY <2>4, <2>5, <2>6 DEF Real, Crowd
<1>2. \A s \in Switch : localRootID[s] = s /\ localRootDist[s] = 0
  BY DEF Init
<1>3. RealBelief
  BY <1>1, <1>2 DEF RealBelief
<1>4. \A p \in Port : pipe[p] \notin SwitchControl
  BY NoPacketKind DEF Init
<1>5. ASSUME NEW s \in Switch, NEW j \in Items(jobs[s]) PROVE RealPacket(j.packet)
  <2>1. j = ControlJob(s)
    BY FirstQueue
  <2>2. /\ j.packet.src = s /\ j.packet.root = s /\ j.packet.dist = 0
    BY <1>2, <2>1 DEF ControlJob
  <2>q. QED
    BY <1>1, <2>2 DEF RealPacket
<1>q. QED
  BY <1>3, <1>4, <1>5 DEF RoutesReal

\* What holds of the beliefs and of what is new in pipes and queues holds of all.
LEMMA RealKept ==
  ASSUME TypeOK, TypeOK', RoutesReal, \A t \in Switch : Improves(t), RealBelief',
         \A p \in Port : \/ pipe'[p] = pipe[p]
                         \/ pipe'[p] \notin SwitchControl
                         \/ RealPacket(pipe'[p]),
         \A s \in Switch : \A j \in Items(jobs'[s]) :
            \/ j \in Items(jobs[s])
            \/ j.packet \notin SwitchControl
            \/ RealPacket(j.packet)
  PROVE  RoutesReal'
<1>0. ElectionType /\ ElectionType'
  BY DEF TypeOK
<1>1. ASSUME NEW c \in SwitchControl, RealPacket(c)
      PROVE  Real(localRootID', localRootDist', c.src, c.root, c.dist)
  <2>1. c.root \in Switch /\ c.dist \in Nat
    BY DEF SwitchControl
  <2>2. Real(localRootID, localRootDist, c.src, c.root, c.dist)
    BY <1>1 DEF RealPacket
  <2>q. QED
    BY <1>0, <2>1, <2>2, RealStays
<1>2. ASSUME NEW p \in Port, pipe'[p] \in SwitchControl
      PROVE  Real(localRootID', localRootDist', pipe'[p].src, pipe'[p].root, pipe'[p].dist)
  BY <1>1, <1>2 DEF RoutesReal
<1>3. ASSUME NEW s \in Switch, NEW j \in Items(jobs'[s]), j.packet \in SwitchControl
      PROVE  Real(localRootID', localRootDist', j.packet.src, j.packet.root, j.packet.dist)
  BY <1>1, <1>3 DEF RoutesReal
<1>q. QED
  BY <1>2, <1>3 DEF RoutesReal, RealPacket

\* A step that leaves the beliefs alone improves nothing and spoils nothing.
LEMMA SameBelief ==
  ASSUME TypeOK, RoutesReal, localRootID' = localRootID, localRootDist' = localRootDist
  PROVE  RealBelief' /\ \A t \in Switch : Improves(t)
<1>1. \A t \in Switch : localRootDist[t] <= localRootDist[t]
  BY DEF TypeOK, ElectionType
<1>2. \A t \in Switch : Improves(t)
  BY <1>1 DEF Improves
<1>q. QED
  BY <1>2 DEF RoutesReal, RealBelief

LEMMA RealStep ==
  TypeOK /\ TypeOK' /\ AnnouncementsOld /\ RoutesReal /\ [Next]_vars => RoutesReal'
<1> SUFFICES ASSUME TypeOK, TypeOK', AnnouncementsOld, RoutesReal, [Next]_vars
             PROVE  RoutesReal'
  OBVIOUS
<1>1. PipeType /\ ElectionType /\ QueueType
  BY DEF TypeOK
<1>2. ASSUME NEW s \in Switch, RecvNothing(s) \/ RecvLeafControl(s)
      PROVE  RoutesReal'
  <2>1. \E S : Poll(s, S)
    BY <1>2 DEF RecvNothing, RecvLeafControl
  <2>2. \A p \in Port : pipe'[p] = pipe[p] \/ pipe'[p] \notin SwitchControl
    BY <1>1, <2>1, PollPipe, NoPacketKind
  <2>3. localRootID' = localRootID /\ localRootDist' = localRootDist /\ jobs' = jobs
    BY <1>2 DEF RecvNothing, RecvLeafControl, electionVars
  <2>q. QED
    BY <2>2, <2>3, SameBelief, RealKept
<1>3. ASSUME NEW s \in Switch, RecvSwitchControl(s)
      PROVE  RoutesReal'
  <2>1. (\A t \in Switch : Improves(t)) /\ RealBelief'
    BY <1>3, AdoptImproves, AdoptReal
  <2>2. \A p \in Port : pipe'[p] = pipe[p] \/ pipe'[p] \notin SwitchControl
    BY <1>1, <1>3, PollPipe, NoPacketKind DEF RecvSwitchControl
  <2>3. jobs' = jobs
    BY <1>3 DEF RecvSwitchControl
  <2>q. QED
    BY <2>1, <2>2, <2>3, RealKept
<1>4. ASSUME NEW s \in Switch, RecvData(s)
      PROVE  RoutesReal'
  <2> DEFINE d == pipe[<<s, scan[s]>>]
             j == DataJob(s, scan[s], d)
  <2>1. d \in Data
    BY <1>4 DEF RecvData, Poll
  <2>2. j.packet \notin SwitchControl
    BY <2>1, Kinds DEF DataJob
  <2>3. \A p \in Port : pipe'[p] = pipe[p] \/ pipe'[p] \notin SwitchControl
    BY <1>1, <1>4, PollPipe, NoPacketKind DEF RecvData
  <2>4. \A t \in Switch : \A i \in Items(jobs'[t]) : i \in Items(jobs[t]) \/ i = j
    BY <1>4, RecvDataQueue
  <2>5. localRootID' = localRootID /\ localRootDist' = localRootDist
    BY <1>4 DEF RecvData, electionVars
  <2> HIDE DEF j
  <2>q. QED
    BY <2>2, <2>3, <2>4, <2>5, SameBelief, RealKept
<1>5. ASSUME NEW s \in Switch, Execute(s)
      PROVE  RoutesReal'
  <2>1. localRootID' = localRootID /\ localRootDist' = localRootDist
    BY <1>5 DEF Execute, electionVars
  <2>2. ASSUME NEW t \in Switch, NEW j \in Items(jobs'[t])
        PROVE  j \in Items(jobs[t]) \/ RealPacket(j.packet)
    <3>1. CASE t = s /\ j = ControlJob(s)
      <4>1. /\ j.packet.src = s /\ j.packet.root = localRootID[s]
            /\ j.packet.dist = localRootDist[s]
        BY <1>1, <3>1, ControlJobType
      <4>q. QED
        BY <4>1 DEF RoutesReal, RealBelief, RealPacket
    <3>q. QED
      BY <1>5, <2>2, <3>1, ExecuteEffect
  <2>3. ASSUME NEW p \in Port, pipe'[p] # pipe[p], pipe'[p] \in SwitchControl
        PROVE  RealPacket(pipe'[p])
    <3>1. PICK j \in Items(jobs[s]) : \E k : pipe'[p] = Outgoing(s, j, k)
      BY <1>5, <2>3, ExecuteEffect
    <3>2. PICK k : pipe'[p] = Outgoing(s, j, k)
      BY <3>1
    <3>3. j \in Job
      BY <1>1 DEF QueueType, JobOf
    <3>4. j.packet \in SwitchControl
      BY <2>3, <3>2, <3>3, OutgoingType, Kinds DEF Job
    <3>5. /\ pipe'[p].src = j.packet.src /\ pipe'[p].root = j.packet.root
          /\ pipe'[p].dist = j.packet.dist
      BY <3>2, <3>3, <3>4, OutgoingType
    <3>6. RealPacket(j.packet)
      BY <3>4 DEF RoutesReal
    <3>q. QED
      BY <3>5, <3>6 DEF RealPacket
  <2>q. QED
    BY <2>1, <2>2, <2>3, SameBelief, RealKept
<1>6. ASSUME NEW h \in Leaf,
             \/ LeafControlSend(h)
             \/ \E d \in Dst : LeafDataSend(h, d)
             \/ \E k \in PortIndex(h) : LeafRecv(h, k)
      PROVE  RoutesReal'
  <2>1. localRootID' = localRootID /\ localRootDist' = localRootDist /\ jobs' = jobs
    BY <1>6 DEF LeafControlSend, LeafDataSend, LeafRecv, electionVars
  <2>2. \A p \in Port : pipe'[p] = pipe[p] \/ pipe'[p] \notin SwitchControl
    BY <1>1, <1>6, LeafPipes
  <2>q. QED
    BY <2>1, <2>2, SameBelief, RealKept
<1>7. CASE UNCHANGED vars
  <2>1. /\ localRootID' = localRootID /\ localRootDist' = localRootDist
        /\ jobs' = jobs /\ pipe' = pipe
    BY <1>7 DEF vars, electionVars
  <2>q. QED
    BY <2>1, SameBelief, RealKept
<1>q. QED
  BY <1>2, <1>3, <1>4, <1>5, <1>6, <1>7 DEF Next, SwitchStep, LeafStep

\* In every network, however stale the packets are that a switch acts on: a
\* switch at distance d of a root is joined to it by a path of d links, and d is
\* less than the number of switches, so that distances never count up.
THEOREM RoutesAreReal == Spec => []RouteReal
<1> DEFINE Inv == TypeOK /\ AnnouncementsOld /\ ParentCloser /\ RoutesReal
<1>1. Init => Inv
  BY InitType, OldInit, RealInit
<1>2. Inv /\ [Next]_vars => Inv'
  BY StepType, OldStep, RealStep
<1>3. Inv => RouteReal
  <2> SUFFICES ASSUME Inv, NEW s \in Switch
               PROVE  /\ localRootDist[s] < Cardinality(Switch)
                      /\ <<localRootID[s], s>> \in Within[localRootDist[s]]
    BY DEF RouteReal
  <2> DEFINE d == localRootDist[s]
             A == Ahead(localRootID, localRootDist, localRootID[s], d)
  <2>1. Real(localRootID, localRootDist, s, localRootID[s], d)
    BY DEF RoutesReal, RealBelief
  <2>2. d \in Nat /\ d \in 0 .. d
    BY DEF TypeOK, ElectionType
  <2>3. Cardinality(A) >= d + 1
    BY <2>1, <2>2 DEF Real, Crowd
  <2>4. /\ Cardinality(A) \in Nat /\ Cardinality(A) <= Cardinality(Switch)
        /\ Cardinality(Switch) \in Nat
    BY AheadFinite, FiniteAssumption, FS_CardinalityType
  <2> HIDE DEF A, d
  <2>5. d < Cardinality(Switch)
    BY <2>2, <2>3, <2>4
  <2>q. QED
    BY <2>1, <2>5 DEF Real, d
<1>q. QED
  BY <1>1, <1>2, <1>3, PTL DEF Spec
--------------------------------------------------------------------------------
(* Delivery in a network without cycles.  Every port divides the nodes.         *)

\* The nodes that are reached through port p, from its owner.
Beyond(p) == {n \in Node : \A B \in Cuts(p) : n \in B}

\* An entry of a lookup table leads towards its id.
TablesPoint ==
  \A s \in Switch : \A d \in Id :
    lookupTable[s][d] # NoPort => d \in Beyond(<<s, lookupTable[s][d]>>)

\* A packet to leaf d that t has yet to flood comes before every packet of d:
\* none has left t, so no neighbour of t sends packets for d there.
Flood(j, d) == j.type = "all" /\ j.packet \in Data /\ j.packet.dst = d

FloodsFirst ==
  \A t \in Switch : \A d \in Leaf : \A x \in 1 .. Len(jobs[t]) :
    Flood(jobs[t][x], d) =>
      /\ \A p \in Port : Peer[p][1] = t =>
           /\ pipe[p] # NoPacket => pipe[p].src # d
           /\ p[1] \in Switch => lookupTable[p[1]][d] # p[2]
      /\ \A y \in 1 .. x - 1 : jobs[t][y].packet.src # d

\* No packet to a leaf reaches a switch that would send it back.
PipeForward ==
  \A p \in SwitchPort : pipe[p] \in Data /\ pipe[p].dst \in Leaf =>
    lookupTable[p[1]][pipe[p].dst] # p[2]

JobForward ==
  \A s \in Switch : \A j \in Items(jobs[s]) :
    j.type = "forward" /\ j.packet.dst \in Leaf =>
      j.in # j.out /\ j.packet.dst \in Beyond(<<s, j.out>>)

\* A copy of packet i on its way to its destination: in the pipe of p, or at
\* place x of the queue of s.
LivePipe(p, i) ==
  /\ pipe[p] \in Data /\ pipe[p].id = i
  /\ pipe[p].dst \in Leaf /\ pipe[p].dst \in Beyond(Peer[p])

LiveJob(s, x, i) ==
  /\ x \in 1 .. Len(jobs[s])
  /\ jobs[s][x].packet \in Data /\ jobs[s][x].packet.id = i
  /\ jobs[s][x].packet.dst \in Leaf
  /\ \E o \in PortIndex(s) \ {jobs[s][x].in} :
       /\ jobs[s][x].type = "forward" => o = jobs[s][x].out
       /\ jobs[s][x].packet.dst \in Beyond(<<s, o>>)

One(i) ==
  /\ \A p, q \in Port : LivePipe(p, i) /\ LivePipe(q, i) => p = q
  /\ \A p \in Port : \A s \in Switch : \A x \in 1 .. Len(jobs[s]) :
       ~(LivePipe(p, i) /\ LiveJob(s, x, i))
  /\ \A s, t \in Switch :
       \A x \in 1 .. Len(jobs[s]) : \A y \in 1 .. Len(jobs[t]) :
         LiveJob(s, x, i) /\ LiveJob(t, y, i) => s = t /\ x = y
  /\ \A p \in Port : LivePipe(p, i) => delivered[i] = 0
  /\ \A s \in Switch : \A x \in 1 .. Len(jobs[s]) : LiveJob(s, x, i) => delivered[i] = 0
  /\ delivered[i] <= 1

OneCopy == \A i \in 1 .. MaxData : One(i)

\* Packets are numbered as they are sent.
IdsSent ==
  /\ \A p \in Port : pipe[p] \in Data => pipe[p].id <= sent
  /\ \A s \in Switch : \A j \in Items(jobs[s]) :
       j.packet \in Data => j.packet.id <= sent
  /\ \A i \in 1 .. MaxData : i > sent => delivered[i] = 0

TreeInv ==
  /\ TablesPoint /\ FloodsFirst /\ PipeForward /\ JobForward /\ IdsSent /\ OneCopy

\* What is known of the tables in every network.
TrailInv == TypeOK /\ AnnouncementsOld /\ TrailKnown /\ LookupLeadsHome

--------------------------------------------------------------------------------
(* How the ports of a forest divide its nodes.                                  *)

LEMMA PeerParts ==
  ASSUME NEW p \in Port
  PROVE  /\ Peer[p] \in Port /\ Peer[Peer[p]] = p /\ Peer[p][1] # p[1]
         /\ p[1] \in Node /\ Peer[p][1] \in Node
         /\ <<p[1], p[2]>> = p /\ <<Peer[p][1], Peer[p][2]>> = Peer[p]
         /\ p[2] \in PortIndex(p[1]) /\ Peer[p][2] \in PortIndex(Peer[p][1])
<1>1. Peer[p] \in Port /\ Peer[Peer[p]] = p /\ Peer[p][1] # p[1]
  BY LinkAssumption
<1>q. QED
  BY <1>1, PortParts

LEMMA BeyondLeast ==
  ASSUME NEW p \in Port, NEW B \in Cuts(p)
  PROVE  Beyond(p) \subseteq B
BY DEF Beyond

LEMMA BeyondCut ==
  ASSUME Forest, NEW p \in Port
  PROVE  /\ Beyond(p) \in SUBSET Node
         /\ Peer[p][1] \in Beyond(p) /\ p[1] \notin Beyond(p)
         /\ \A q \in Port \ {p, Peer[p]} : q[1] \in Beyond(p) <=> Peer[q][1] \in Beyond(p)
<1>1. PICK B : B \in Cuts(p)
  BY DEF Forest
<1>2. p[1] \notin B /\ Beyond(p) \subseteq B
  BY <1>1, BeyondLeast DEF Cuts
<1>3. Peer[p][1] \in Beyond(p)
  BY PeerParts DEF Beyond, Cuts
<1>4. ASSUME NEW q \in Port \ {p, Peer[p]}
      PROVE  q[1] \in Beyond(p) <=> Peer[q][1] \in Beyond(p)
  <2>1. \A C \in Cuts(p) : q[1] \in C <=> Peer[q][1] \in C
    BY DEF Cuts
  <2>2. q[1] \in Node /\ Peer[q][1] \in Node
    BY PeerParts
  <2>q. QED
    BY <2>1, <2>2 DEF Beyond
<1>5. Beyond(p) \in SUBSET Node
  BY DEF Beyond
<1>q. QED
  BY <1>2, <1>3, <1>4, <1>5

\* Different ports of a node lead to different nodes.
LEMMA BeyondApart ==
  ASSUME Forest, NEW p \in Port, NEW q \in Port, p[1] = q[1], p # q
  PROVE  Beyond(p) \cap Beyond(q) = {}
<1> DEFINE B == Beyond(q) \ Beyond(p)
<1>1. q # Peer[p] /\ p # Peer[q] /\ Peer[q] # Peer[p]
  BY PeerParts
<1>2. Peer[q][1] \in B /\ q[1] \notin B /\ B \in SUBSET Node
  <2>1. Peer[q][1] \in Beyond(q) /\ q[1] \notin Beyond(q) /\ Beyond(q) \in SUBSET Node
    BY BeyondCut
  <2>2. Peer[q][1] \notin Beyond(p)
    BY <1>1, BeyondCut
  <2>q. QED
    BY <2>1, <2>2
<1>3. ASSUME NEW r \in Port \ {q, Peer[q]}
      PROVE  r[1] \in B <=> Peer[r][1] \in B
  <2>1. r[1] \in Beyond(q) <=> Peer[r][1] \in Beyond(q)
    BY BeyondCut
  <2>2. CASE r \notin {p, Peer[p]}
    <3>1. r[1] \in Beyond(p) <=> Peer[r][1] \in Beyond(p)
      BY <2>2, BeyondCut
    <3>q. QED
      BY <2>1, <3>1
  <2>3. CASE r \in {p, Peer[p]}
    <3>1. {r[1], Peer[r][1]} = {p[1], Peer[p][1]}
      BY <2>3, PeerParts
    <3>2. p[1] \notin Beyond(q) /\ Peer[p][1] \in Beyond(p)
      BY BeyondCut
    <3>q. QED
      BY <2>1, <3>1, <3>2
  <2>q. QED
    BY <2>2, <2>3
<1>4. B \in Cuts(q)
  <2> HIDE DEF B
  <2>q. QED
    BY <1>2, <1>3 DEF Cuts
<1>5. Beyond(q) \subseteq B
  BY <1>4, BeyondLeast
<1>q. QED
  BY <1>5

\* What is reached from the far end of p by another port is reached through p.
LEMMA BeyondNested ==
  ASSUME Forest, NEW p \in Port, NEW q \in Port, q[1] = Peer[p][1], q # Peer[p]
  PROVE  Beyond(q) \subseteq Beyond(p)
<1> DEFINE B == Beyond(q) \cap Beyond(p)
<1>1. q # p /\ Peer[q] # p /\ Peer[q] # Peer[p]
  BY PeerParts
<1>2. Peer[q][1] \in B /\ q[1] \notin B /\ B \in SUBSET Node
  <2>1. Peer[q][1] \in Beyond(q) /\ q[1] \notin Beyond(q) /\ Beyond(q) \in SUBSET Node
    BY BeyondCut
  <2>2. Peer[q][1] \in Beyond(p)
    BY <1>1, BeyondCut
  <2>q. QED
    BY <2>1, <2>2
<1>3. ASSUME NEW r \in Port \ {q, Peer[q]}
      PROVE  r[1] \in B <=> Peer[r][1] \in B
  <2>1. r[1] \in Beyond(q) <=> Peer[r][1] \in Beyond(q)
    BY BeyondCut
  <2>2. CASE r \notin {p, Peer[p]}
    <3>1. r[1] \in Beyond(p) <=> Peer[r][1] \in Beyond(p)
      BY <2>2, BeyondCut
    <3>q. QED
      BY <2>1, <3>1
  <2>3. CASE r \in {p, Peer[p]}
    <3>1. {r[1], Peer[r][1]} = {p[1], Peer[p][1]}
      BY <2>3, PeerParts
    <3>2. Peer[p][1] \notin Beyond(q)
      BY BeyondCut
    <3>q. QED
      BY <2>1, <3>1, <3>2
  <2>q. QED
    BY <2>2, <2>3
<1>4. B \in Cuts(q)
  <2> HIDE DEF B
  <2>q. QED
    BY <1>2, <1>3 DEF Cuts
<1>5. Beyond(q) \subseteq B
  BY <1>4, BeyondLeast
<1>q. QED
  BY <1>5

\* No node is on both sides of a link.
LEMMA BeyondSides ==
  ASSUME Forest, NEW p \in Port
  PROVE  Beyond(p) \cap Beyond(Peer[p]) = {}
<1> DEFINE q == Peer[p]
           B == Beyond(q) \ Beyond(p)
<1>1. q \in Port /\ Peer[q] = p
  BY PeerParts
<1>2. Peer[q][1] \in B /\ q[1] \notin B /\ B \in SUBSET Node
  BY <1>1, BeyondCut
<1>3. ASSUME NEW r \in Port \ {q, Peer[q]}
      PROVE  r[1] \in B <=> Peer[r][1] \in B
  <2>1. r[1] \in Beyond(q) <=> Peer[r][1] \in Beyond(q)
    BY <1>1, BeyondCut
  <2>2. r[1] \in Beyond(p) <=> Peer[r][1] \in Beyond(p)
    BY <1>1, BeyondCut
  <2>q. QED
    BY <2>1, <2>2
<1>4. B \in Cuts(q)
  <2> HIDE DEF B, q
  <2>q. QED
    BY <1>2, <1>3 DEF Cuts
<1>5. Beyond(q) \subseteq B
  BY <1>1, <1>4, BeyondLeast
<1>q. QED
  BY <1>5

--------------------------------------------------------------------------------
(* What a step changes: an entry of a table, the content of a pipe, a place of  *)
(* a queue.                                                                     *)

LEMMA ReadLearns ==
  ASSUME TypeOK, AnnouncementsOld, TrailKnown, NEW s \in Switch,
         RecvSwitchControl(s) \/ RecvLeafControl(s) \/ RecvData(s)
  PROVE  LET k == scan[s]
             c == pipe[<<s, k>>]
         IN /\ k \in PortIndex(s) /\ c \in Packet /\ c.src \in Id /\ s # c.src
            /\ Neighbour(s, k) \in Known(c.src) \cup {c.src}
            /\ Learn(s, c.src, k) /\ pipe' = [pipe EXCEPT ![<<s, k>>] = NoPacket]
<1>1. \A p \in Port : pipe[p] \in SwitchControl => pipe[p].src = Peer[p][1]
  BY DEF AnnouncementsOld
<1>2. /\ NoPacket \notin SwitchControl /\ SwitchControl \subseteq Packet
      /\ NoPacket \notin LeafControl /\ LeafControl \subseteq Packet
      /\ NoPacket \notin Data /\ Data \subseteq Packet
  BY NoPacketAssumption DEF Packet
<1>3. \E S : S \subseteq Packet /\ NoPacket \notin S /\ Poll(s, S)
  BY <1>2 DEF RecvSwitchControl, RecvLeafControl, RecvData
<1>4. PICK S : S \subseteq Packet /\ NoPacket \notin S /\ Poll(s, S)
  BY <1>3
<1>5. Learn(s, pipe[<<s, scan[s]>>].src, scan[s])
  BY DEF RecvSwitchControl, RecvLeafControl, RecvData
<1>6. pipe[<<s, scan[s]>>] \in Packet /\ pipe' = [pipe EXCEPT ![<<s, scan[s]>>] = NoPacket]
  BY <1>4 DEF Poll
<1>q. QED
  BY <1>1, <1>4, <1>5, <1>6, ReadTrail

\* An entry changes once, from none to the port of a packet of its id, which is
\* then gone from the pipe.
LEMMA TableChange ==
  ASSUME TypeOK, AnnouncementsOld, TrailKnown, [Next]_vars,
         NEW t \in Switch, NEW e \in Id, lookupTable'[t][e] # lookupTable[t][e]
  PROVE  LET k == lookupTable'[t][e]
         IN /\ lookupTable[t][e] = NoPort /\ <<t, k>> \in Port /\ t # e
            /\ pipe[<<t, k>>] \in Packet /\ pipe[<<t, k>>].src = e
            /\ pipe'[<<t, k>>] = NoPacket
            /\ Neighbour(t, k) \in Known(e) \cup {e}
<1>1. PICK s \in Switch : RecvSwitchControl(s) \/ RecvLeafControl(s) \/ RecvData(s)
  BY DEF Next, SwitchStep, LeafStep, RecvNothing, Execute, LeafControlSend,
         LeafDataSend, LeafRecv, vars
<1> DEFINE k == scan[s]
           c == pipe[<<s, k>>]
<1>2. /\ k \in PortIndex(s) /\ c \in Packet /\ c.src \in Id /\ s # c.src
      /\ Neighbour(s, k) \in Known(c.src) \cup {c.src}
      /\ Learn(s, c.src, k) /\ pipe' = [pipe EXCEPT ![<<s, k>>] = NoPacket]
  BY <1>1, ReadLearns
<1>3. <<s, k>> \in Port
  BY <1>2, PortMade DEF Node
<1>4. pipe'[<<s, k>>] = NoPacket
  BY <1>2, <1>3 DEF TypeOK, PipeType
<1> HIDE DEF k, c
<1>5. t = s /\ e = c.src /\ lookupTable[t][e] = NoPort /\ lookupTable'[t][e] = k
  BY <1>2 DEF Learn, TypeOK, TableType
<1>q. QED
  BY <1>2, <1>3, <1>4, <1>5 DEF c

\* What is new in a pipe was sent by a leaf, or by a switch for its first job.
LEMMA PipeChange ==
  ASSUME TypeOK, [Next]_vars, NEW p \in Port, pipe'[p] # pipe[p], pipe'[p] # NoPacket
  PROVE  \/ /\ Peer[p][1] \in Leaf /\ pipe'[p].src = Peer[p][1]
            /\ UNCHANGED <<jobs, delivered>>
            /\ pipe'[p] \in Data => /\ pipe'[p].dst # Peer[p][1]
                                    /\ pipe'[p].id = sent + 1 /\ sent' = sent + 1
         \/ LET s == Peer[p][1]
                j == Head(jobs[s])
            IN /\ s \in Switch /\ Execute(s) /\ jobs[s] # <<>>
               /\ Peer[p][2] \in OutPorts(s, j)
               /\ pipe'[p] = Outgoing(s, j, Peer[p][2])
<1>1. ASSUME NEW s \in Switch,
             \/ RecvNothing(s) \/ RecvSwitchControl(s) \/ RecvLeafControl(s)
             \/ RecvData(s)
      PROVE  FALSE
  <2>1. \E S : Poll(s, S)
    BY <1>1 DEF RecvNothing, RecvSwitchControl, RecvLeafControl, RecvData
  <2>q. QED
    BY <2>1, PollPipe DEF TypeOK
<1>2. ASSUME NEW s \in Switch, Execute(s)
      PROVE  LET j == Head(jobs[s])
             IN /\ s = Peer[p][1] /\ jobs[s] # <<>>
                /\ Peer[p][2] \in OutPorts(s, j)
                /\ pipe'[p] = Outgoing(s, j, Peer[p][2])
  <2> DEFINE j == Head(jobs[s])
             m == [k \in PortIndex(s) |-> Outgoing(s, j, k)]
  <2>1. jobs[s] # <<>>
    BY <1>2 DEF Execute
  <2>2. pipe' = Send(s, OutPorts(s, j), m)
    BY <1>2, <2>1 DEF Execute
  <2>3. /\ Peer[p][1] = s /\ Peer[p][2] \in OutPorts(s, j)
        /\ pipe'[p] = m[Peer[p][2]]
    <3> HIDE DEF m
    <3>q. QED
      BY <2>2 DEF Send, Write
  <2>4. m[Peer[p][2]] = Outgoing(s, j, Peer[p][2])
    <3> HIDE DEF j
    <3>q. QED
      BY <2>3, PeerParts
  <2>q. QED
    BY <2>1, <2>3, <2>4
<1>3. ASSUME NEW h \in Leaf, LeafControlSend(h)
      PROVE  /\ Peer[p][1] = h /\ pipe'[p].src = h /\ pipe'[p] \notin Data
             /\ UNCHANGED <<jobs, delivered>>
  <2>1. Peer[p][1] = h /\ pipe'[p] = [type |-> "control", src |-> h, sender |-> "H"]
    BY <1>3, BroadcastEffect DEF LeafControlSend
  <2>q. QED
    BY <1>3, <2>1 DEF Data, LeafControlSend
<1>4. ASSUME NEW h \in Leaf, NEW d \in Dst \ {h}, LeafDataSend(h, d)
      PROVE  /\ Peer[p][1] = h /\ pipe'[p].src = h /\ pipe'[p].dst # h
             /\ pipe'[p].id = sent + 1 /\ sent' = sent + 1
             /\ UNCHANGED <<jobs, delivered>>
  <2>1. /\ Peer[p][1] = h
        /\ pipe'[p] = [type |-> "data", src |-> h, dst |-> d, id |-> sent + 1]
    BY <1>4, BroadcastEffect DEF LeafDataSend
  <2>q. QED
    BY <1>4, <2>1 DEF LeafDataSend
<1>5. ASSUME NEW h \in Leaf, NEW k \in PortIndex(h), LeafRecv(h, k)
      PROVE  FALSE
  BY <1>5 DEF LeafRecv, TypeOK, PipeType
<1>6. CASE UNCHANGED vars
  BY <1>6 DEF vars
<1>7. CASE \E s \in Switch : SwitchStep(s)
  BY <1>1, <1>2, <1>7 DEF SwitchStep
<1>8. CASE \E h \in Leaf : LeafStep(h)
  BY <1>3, <1>4, <1>5, <1>8 DEF LeafStep
<1>q. QED
  BY <1>6, <1>7, <1>8 DEF Next

LEMMA TailPlaces ==
  ASSUME NEW S, NEW q \in Seq(S), q # <<>>
  PROVE  /\ Tail(q) \in Seq(S) /\ Len(Tail(q)) = Len(q) - 1
         /\ Len(q) \in Nat \ {0} /\ Head(q) = q[1]
         /\ \A x \in 1 .. Len(Tail(q)) : Tail(q)[x] = q[x + 1]
OBVIOUS

LEMMA AppendPlaces ==
  ASSUME NEW S, NEW q \in Seq(S), NEW e \in S, NEW x \in 1 .. Len(Append(q, e))
  PROVE  \/ x \in 1 .. Len(q) /\ Append(q, e)[x] = q[x]
         \/ x = Len(q) + 1 /\ Append(q, e)[x] = e
OBVIOUS

\* When a job has been executed the others move up, and a control packet may be
\* queued behind them.
LEMMA ExecuteQueue ==
  ASSUME TypeOK, NEW s \in Switch, Execute(s)
  PROVE  /\ \A t \in Switch : t # s => jobs'[t] = jobs[t]
         /\ \A x \in 1 .. Len(jobs'[s]) :
              \/ x + 1 \in 1 .. Len(jobs[s]) /\ jobs'[s][x] = jobs[s][x + 1]
              \/ jobs'[s][x] = ControlJob(s)
<1> DEFINE rest == IF jobs[s] = <<>> THEN <<>> ELSE Tail(jobs[s])
           q    == TopQueue(s, controlCount[s], rest)
<1>1. jobs' = [jobs EXCEPT ![s] = q] /\ jobs \in [Switch -> Seq(Job)]
  BY DEF Execute, TypeOK, QueueType
<1>2. /\ rest \in Seq(Job)
      /\ \A x \in 1 .. Len(rest) : x + 1 \in 1 .. Len(jobs[s]) /\ rest[x] = jobs[s][x + 1]
  <2>1. CASE jobs[s] = <<>>
    BY <2>1
  <2>2. CASE jobs[s] # <<>>
    <3> DEFINE w == jobs[s]
    <3>1. w \in Seq(Job) /\ w # <<>>
      BY <1>1, <2>2
    <3>2. rest = Tail(w)
      BY <2>2
    <3> HIDE DEF w, rest
    <3>3. /\ Tail(w) \in Seq(Job) /\ Len(Tail(w)) = Len(w) - 1
          /\ Len(w) \in Nat \ {0}
          /\ \A x \in 1 .. Len(Tail(w)) : Tail(w)[x] = w[x + 1]
      BY <3>1, TailPlaces
    <3>4. \A x \in 1 .. Len(w) - 1 : x + 1 \in 1 .. Len(w)
      BY <3>3
    <3>q. QED
      BY <3>2, <3>3, <3>4 DEF w
  <2>q. QED
    BY <2>1, <2>2
<1> HIDE DEF rest
<1>3. ControlJob(s) \in Job
  BY ControlJobType DEF TypeOK, JobOf
<1>4. ASSUME NEW x \in 1 .. Len(q)
      PROVE  (x \in 1 .. Len(rest) /\ q[x] = rest[x]) \/ q[x] = ControlJob(s)
  BY <1>2, <1>3, AppendPlaces DEF TopQueue
<1>5. jobs'[s] = q
  <2> HIDE DEF q
  <2>q. QED
    BY <1>1
<1>6. \A t \in Switch : t # s => jobs'[t] = jobs[t]
  BY <1>1
<1>q. QED
  BY <1>2, <1>4, <1>5, <1>6

LEMMA RecvDataPlaces ==
  ASSUME TypeOK, NEW s \in Switch, RecvData(s)
  PROVE  /\ \A t \in Switch : t # s => jobs'[t] = jobs[t]
         /\ \A x \in 1 .. Len(jobs'[s]) :
              \/ x \in 1 .. Len(jobs[s]) /\ jobs'[s][x] = jobs[s][x]
              \/ /\ x = Len(jobs[s]) + 1
                 /\ jobs'[s][x] = DataJob(s, scan[s], pipe[<<s, scan[s]>>])
<1> DEFINE j == DataJob(s, scan[s], pipe[<<s, scan[s]>>])
           w == jobs[s]
<1>1. jobs' = [jobs EXCEPT ![s] = Append(w, j)]
  BY DEF RecvData
<1>2. jobs \in [Switch -> Seq(Job)] /\ w \in Seq(Job) /\ jobs' \in [Switch -> Seq(Job)]
  BY StepType DEF Next, SwitchStep, TypeOK, QueueType
<1> HIDE DEF j, w
<1>3. jobs'[s] = Append(w, j) /\ \A t \in Switch : t # s => jobs'[t] = jobs[t]
  BY <1>1, <1>2
<1>4. \A x \in 1 .. Len(Append(w, j)) :
        \/ x \in 1 .. Len(w) /\ Append(w, j)[x] = w[x]
        \/ x = Len(w) + 1 /\ Append(w, j)[x] = j
  BY <1>2
<1>q. QED
  BY <1>3, <1>4 DEF w, j

\* Every other step leaves the queues alone.
LEMMA QueueSame ==
  ASSUME [Next]_vars, \A s \in Switch : ~RecvData(s) /\ ~Execute(s)
  PROVE  jobs' = jobs
BY DEF Next, SwitchStep, LeafStep, RecvNothing, RecvSwitchControl, RecvLeafControl,
       LeafControlSend, LeafDataSend, LeafRecv, vars
--------------------------------------------------------------------------------
(* The tables point home.                                                       *)

LEMMA PointStep ==
  Forest /\ TrailInv /\ TablesPoint /\ [Next]_vars => TablesPoint'
<1> SUFFICES ASSUME Forest, TrailInv, TablesPoint, [Next]_vars,
                    NEW s \in Switch, NEW d \in Id, lookupTable'[s][d] # NoPort
             PROVE  d \in Beyond(<<s, lookupTable'[s][d]>>)
  BY DEF TablesPoint
<1>1. CASE lookupTable'[s][d] = lookupTable[s][d]
  BY <1>1 DEF TablesPoint
<1>2. CASE lookupTable'[s][d] # lookupTable[s][d]
  <2> DEFINE k == lookupTable'[s][d]
             p == <<s, k>>
             u == Neighbour(s, k)
  <2>1. /\ lookupTable[s][d] = NoPort /\ p \in Port /\ s # d
        /\ u \in Known(d) \cup {d}
    BY <1>2, TableChange DEF TrailInv
  <2>2. u = Peer[p][1] /\ p[1] = s
    BY DEF Neighbour
  <2> HIDE DEF p, k, u
  <2>3. CASE u = d
    <3>1. d \in Beyond(p)
      BY <2>1, <2>2, <2>3, BeyondCut
    <3>q. QED
      BY <3>1 DEF p, k
  <2>4. CASE u # d
    <3> DEFINE i == lookupTable[u][d]
               q == <<u, i>>
    <3>1. u \in Switch /\ i # NoPort
      BY <2>1, <2>4 DEF Known
    <3>2. d \in Beyond(q)
      BY <3>1 DEF TablesPoint
    <3>3. q \in Port /\ q[1] = u
      BY <3>1, PortMade DEF TrailInv, TypeOK, TableType, Node
    <3>4. q # Peer[p]
      <4>1. NextHop(u, d) \in Known(d) \cup {d}
        BY <2>1, <2>4 DEF TrailInv, LookupLeadsHome
      <4>2. NextHop(u, d) = Peer[q][1]
        BY DEF NextHop, Neighbour
      <4>3. s \notin Known(d) \cup {d}
        BY <2>1 DEF Known
      <4>q. QED
        BY <2>1, <2>2, <4>1, <4>2, <4>3, PeerParts
    <3> HIDE DEF q, i
    <3>5. Beyond(q) \subseteq Beyond(p)
      BY <2>1, <2>2, <3>3, <3>4, BeyondNested
    <3>q. QED
      BY <3>2, <3>5 DEF p, k
  <2>q. QED
    BY <2>3, <2>4 DEF p, k
<1>q. QED
  BY <1>1, <1>2

--------------------------------------------------------------------------------
(* A packet that is still to be flooded is ahead of every packet of its         *)
(* destination.                                                                 *)

\* From a switch that does not know d nothing of d has come.
LEMMA Unknown ==
  ASSUME TrailInv, NEW t \in Switch, NEW d \in Leaf, t \notin Known(d)
  PROVE  /\ \A p \in Port : Peer[p][1] = t =>
              /\ pipe[p] # NoPacket => pipe[p].src # d
              /\ p[1] \in Switch => lookupTable[p[1]][d] # p[2]
         /\ \A x \in 1 .. Len(jobs[t]) : jobs[t][x].packet.src # d
<1>1. t # d /\ d \in Id
  BY NodeAssumption DEF Id, Node
<1>2. ASSUME NEW p \in Port, Peer[p][1] = t, pipe[p] # NoPacket
      PROVE  pipe[p].src # d
  BY <1>1, <1>2 DEF TrailInv, TrailKnown
<1>3. ASSUME NEW p \in Port, Peer[p][1] = t, p[1] \in Switch
      PROVE  lookupTable[p[1]][d] # p[2]
  <2> SUFFICES ASSUME lookupTable[p[1]][d] = p[2] PROVE FALSE
    OBVIOUS
  <2>1. p[2] # NoPort
    BY PeerParts DEF PortIndex, NoPort
  <2>2. NextHop(p[1], d) \in Known(d) \cup {d}
    BY <1>1, <1>3, <2>1 DEF TrailInv, LookupLeadsHome, Known
  <2>3. NextHop(p[1], d) = t
    BY <1>3, PeerParts DEF NextHop, Neighbour
  <2>q. QED
    BY <1>1, <2>2, <2>3
<1>4. ASSUME NEW x \in 1 .. Len(jobs[t]) PROVE jobs[t][x].packet.src # d
  <2>1. jobs[t][x] \in Items(jobs[t])
    BY DEF Items
  <2>q. QED
    BY <1>1, <2>1 DEF TrailInv, TrailKnown
<1>q. QED
  BY <1>2, <1>3, <1>4

\* A switch floods what it cannot forward.
LEMMA FloodUnknown ==
  ASSUME NEW s \in Switch, NEW k, NEW c, NEW d, Flood(DataJob(s, k, c), d)
  PROVE  s \notin Known(d)
BY DEF Flood, DataJob, Known

LEMMA ControlNoFlood ==
  ASSUME TypeOK, NEW s \in Switch, NEW d \in Leaf
  PROVE  ~Flood(ControlJob(s), d) /\ ControlJob(s).packet.src # d
<1>1. ControlJob(s).packet \in SwitchControl /\ ControlJob(s).packet.src = s
  BY ControlJobType DEF TypeOK
<1>q. QED
  BY <1>1, Kinds, NodeAssumption DEF Flood

\* What FloodsFirst says of the ports that lead to t.
Silent(t, d, p) ==
  /\ pipe[p] # NoPacket => pipe[p].src # d
  /\ p[1] \in Switch => lookupTable[p[1]][d] # p[2]

LEMMA SilentStays ==
  ASSUME TrailInv, [Next]_vars, NEW t \in Switch, NEW d \in Leaf, NEW p \in Port,
         Peer[p][1] = t, Silent(t, d, p),
         Execute(t) /\ jobs[t] # <<>> => Head(jobs[t]).packet.src # d
  PROVE  Silent(t, d, p)'
<1>1. d \in Id /\ t # d /\ t \notin Leaf
  BY NodeAssumption DEF Id, Node
<1>2. ASSUME pipe'[p] # NoPacket
      PROVE  pipe'[p].src # d
  <2>1. CASE pipe'[p] = pipe[p]
    BY <1>2, <2>1 DEF Silent
  <2>2. CASE pipe'[p] # pipe[p]
    <3> DEFINE j == Head(jobs[t])
    <3>1. Execute(t) /\ jobs[t] # <<>> /\ pipe'[p] = Outgoing(t, j, Peer[p][2])
      BY <1>1, <1>2, <2>2, PipeChange DEF TrailInv
    <3>2. j \in Job
      BY <3>1, TailItems DEF TrailInv, TypeOK, QueueType
    <3> HIDE DEF j
    <3>3. pipe'[p].src = j.packet.src
      BY <3>1, <3>2, OutgoingType
    <3>q. QED
      BY <3>1, <3>3 DEF j
  <2>q. QED
    BY <2>1, <2>2
<1>3. ASSUME p[1] \in Switch
      PROVE  lookupTable'[p[1]][d] # p[2]
  <2> SUFFICES ASSUME lookupTable'[p[1]][d] = p[2] PROVE FALSE
    OBVIOUS
  <2>1. lookupTable'[p[1]][d] # lookupTable[p[1]][d]
    BY <1>3 DEF Silent
  <2>2. <<p[1], p[2]>> = p
    BY PeerParts
  <2>3. pipe[p] \in Packet /\ pipe[p].src = d
    BY <1>1, <1>3, <2>1, <2>2, TableChange DEF TrailInv
  <2>q. QED
    BY <2>3, NoPacketAssumption DEF Silent
<1>q. QED
  BY <1>2, <1>3 DEF Silent

\* FloodsFirst for one place of a queue.
First(t, d, x) ==
  /\ \A p \in Port : Peer[p][1] = t => Silent(t, d, p)
  /\ \A y \in 1 .. x - 1 : jobs[t][y].packet.src # d

LEMMA FloodStep ==
  TrailInv /\ TypeOK' /\ FloodsFirst /\ [Next]_vars => FloodsFirst'
<1> SUFFICES ASSUME TrailInv, TypeOK', FloodsFirst, [Next]_vars,
                    NEW t \in Switch, NEW d \in Leaf, NEW x \in 1 .. Len(jobs'[t]),
                    Flood(jobs'[t][x], d)
             PROVE  /\ \A p \in Port : Peer[p][1] = t => Silent(t, d, p)'
                    /\ \A y \in 1 .. x - 1 : jobs'[t][y].packet.src # d
  BY DEF FloodsFirst, Silent, Flood
<1>0. TypeOK /\ jobs[t] \in Seq(Job) /\ jobs'[t] \in Seq(Job)
  BY DEF TrailInv, TypeOK, QueueType
<1>1. \A z \in 1 .. Len(jobs[t]) : Flood(jobs[t][z], d) =>
        /\ \A p \in Port : Peer[p][1] = t => Silent(t, d, p)
        /\ \A y \in 1 .. z - 1 : jobs[t][y].packet.src # d
  BY DEF FloodsFirst, Silent
<1>2. CASE Execute(t)
  <2>1. \A y \in 1 .. Len(jobs'[t]) :
          \/ y + 1 \in 1 .. Len(jobs[t]) /\ jobs'[t][y] = jobs[t][y + 1]
          \/ jobs'[t][y] = ControlJob(t)
    BY <1>0, <1>2, ExecuteQueue
  <2>2. x + 1 \in 1 .. Len(jobs[t]) /\ Flood(jobs[t][x + 1], d)
    BY <1>0, <2>1, ControlNoFlood
  <2>3. /\ \A p \in Port : Peer[p][1] = t => Silent(t, d, p)
        /\ \A y \in 1 .. x : jobs[t][y].packet.src # d
    BY <1>1, <2>2
  <2>4. jobs[t] # <<>> => Head(jobs[t]).packet.src # d
    BY <1>0, <2>2, <2>3
  <2>5. \A p \in Port : Peer[p][1] = t => Silent(t, d, p)'
    BY <2>3, <2>4, SilentStays
  <2>6. ASSUME NEW y \in 1 .. x - 1
        PROVE  jobs'[t][y].packet.src # d
    <3>1. y \in 1 .. Len(jobs'[t]) /\ y + 1 \in 1 .. x
      BY <1>0
    <3>q. QED
      BY <1>0, <2>1, <2>3, <3>1, ControlNoFlood
  <2>q. QED
    BY <2>5, <2>6
<1>3. CASE ~Execute(t)
  <2>1. \A y \in 1 .. Len(jobs'[t]) :
          \/ y \in 1 .. Len(jobs[t]) /\ jobs'[t][y] = jobs[t][y]
          \/ /\ RecvData(t) /\ y = Len(jobs[t]) + 1
             /\ jobs'[t][y] = DataJob(t, scan[t], pipe[<<t, scan[t]>>])
    <3>1. CASE \E s \in Switch : RecvData(s)
      BY <1>0, <3>1, RecvDataPlaces
    <3>2. CASE \E s \in Switch : Execute(s)
      BY <1>0, <1>3, <3>2, ExecuteQueue
    <3>3. CASE \A s \in Switch : ~RecvData(s) /\ ~Execute(s)
      BY <3>3, QueueSame
    <3>q. QED
      BY <3>1, <3>2, <3>3
  <2>2. /\ \A p \in Port : Peer[p][1] = t => Silent(t, d, p)
        /\ \A y \in 1 .. x - 1 : jobs[t][y].packet.src # d
    <3>1. CASE x \in 1 .. Len(jobs[t]) /\ jobs'[t][x] = jobs[t][x]
      BY <1>1, <3>1
    <3>2. CASE /\ RecvData(t) /\ x = Len(jobs[t]) + 1
               /\ jobs'[t][x] = DataJob(t, scan[t], pipe[<<t, scan[t]>>])
      <4>1. t \notin Known(d)
        BY <3>2, FloodUnknown
      <4>2. \A y \in 1 .. x - 1 : y \in 1 .. Len(jobs[t])
        BY <1>0, <3>2
      <4>q. QED
        BY <4>1, <4>2, Unknown DEF Silent
    <3>q. QED
      BY <2>1, <3>1, <3>2
  <2>3. \A p \in Port : Peer[p][1] = t => Silent(t, d, p)'
    BY <1>3, <2>2, SilentStays
  <2>4. ASSUME NEW y \in 1 .. x - 1
        PROVE  jobs'[t][y] = jobs[t][y]
    <3>1. y \in 1 .. Len(jobs'[t]) /\ y < x /\ x \in Nat
      BY <1>0
    <3>2. y # Len(jobs[t]) + 1
      BY <1>0, <2>1, <3>1
    <3>q. QED
      BY <2>1, <3>1, <3>2
  <2>q. QED
    BY <2>2, <2>3, <2>4
<1>q. QED
  BY <1>2, <1>3

--------------------------------------------------------------------------------
(* No packet to a leaf turns back.                                              *)

LEMMA FirstJob ==
  ASSUME TypeOK, NEW s \in Switch, jobs[s] # <<>>
  PROVE  /\ 1 \in 1 .. Len(jobs[s]) /\ Head(jobs[s]) = jobs[s][1]
         /\ Head(jobs[s]) \in Items(jobs[s]) /\ Head(jobs[s]) \in JobOf(s)
<1> DEFINE w == jobs[s]
<1>1. w \in Seq(Job) /\ Items(w) \subseteq JobOf(s)
  BY DEF TypeOK, QueueType
<1>2. w # <<>>
  OBVIOUS
<1> HIDE DEF w
<1>3. Len(w) \in Nat \ {0} /\ Head(w) = w[1] /\ Head(w) \in Items(w)
  BY <1>1, <1>2, TailPlaces, TailItems
<1>q. QED
  BY <1>1, <1>3 DEF w

\* A data packet that leaves a switch is that of its first job, which is not
\* sent back where it came from unless it is forwarded there.
LEMMA DataOut ==
  ASSUME TypeOK, NEW s \in Switch, jobs[s] # <<>>, NEW o,
         o \in OutPorts(s, Head(jobs[s])),
         Outgoing(s, Head(jobs[s]), o) \in Data
  PROVE  LET j == Head(jobs[s])
         IN /\ j \in JobOf(s) /\ j.packet \in Data
            /\ Outgoing(s, j, o) = j.packet
            /\ o \in PortIndex(s)
            /\ j.type = "forward" => o = j.out
            /\ j.type # "forward" => j.type = "all" /\ o # j.in
<1> DEFINE j == Head(jobs[s])
<1>1. j \in JobOf(s)
  BY FirstJob
<1>2. o \in OutPorts(s, j) /\ Outgoing(s, j, o) \in Data
  OBVIOUS
<1> HIDE DEF j
<1>3. j \in Job /\ j.packet \in SwitchControl \cup Data
  BY <1>1 DEF JobOf, Job
<1>4. j.packet \in Data
  BY <1>2, <1>3, OutgoingType, Kinds
<1>5. j.packet.type = "data"
  BY <1>4 DEF Data
<1>6. j.type \in {"all", "forward"} /\ (j.type = "forward" => j.out \in PortIndex(s))
  BY <1>1 DEF JobOf, Job
<1>7. Outgoing(s, j, o) = j.packet
  BY <1>5 DEF Outgoing
<1>q. QED
  BY <1>1, <1>2, <1>4, <1>5, <1>6, <1>7 DEF OutPorts, j

LEMMA PipeForwardStep ==
  Forest /\ TrailInv /\ TypeOK' /\ TreeInv /\ [Next]_vars => PipeForward'
<1> SUFFICES ASSUME Forest, TrailInv, TypeOK', TreeInv, [Next]_vars,
                    NEW p \in SwitchPort, pipe'[p] \in Data, pipe'[p].dst \in Leaf,
                    lookupTable'[p[1]][pipe'[p].dst] = p[2]
             PROVE  FALSE
  BY DEF PipeForward
<1>1. PICK d \in Leaf : d = pipe'[p].dst
  OBVIOUS
<1>2. p \in Port /\ p[1] \in Switch /\ d \in Id /\ <<p[1], p[2]>> = p
  BY PeerParts DEF SwitchPort, Id, Node
<1>3. p[2] # NoPort
  BY <1>2, PeerParts DEF PortIndex, NoPort
<1>4. pipe'[p] # NoPacket /\ TypeOK
  BY NoPacketAssumption DEF Packet, TrailInv
<1>5. lookupTable[p[1]][d] = p[2]
  <2> SUFFICES ASSUME lookupTable[p[1]][d] # lookupTable'[p[1]][d] PROVE FALSE
    BY <1>1
  <2>1. pipe'[p] = NoPacket
    BY <1>1, <1>2, TableChange DEF TrailInv
  <2>q. QED
    BY <1>4, <2>1
<1>6. pipe'[p] # pipe[p]
  BY <1>1, <1>5 DEF TreeInv, PipeForward
<1>7. CASE Peer[p][1] \in Leaf /\ pipe'[p].dst # Peer[p][1]
  <2>1. NextHop(p[1], d) \in Known(d) \cup {d}
    BY <1>2, <1>3, <1>5 DEF TrailInv, LookupLeadsHome, Known
  <2>2. NextHop(p[1], d) = Peer[p][1]
    BY <1>2, <1>5 DEF NextHop, Neighbour
  <2>q. QED
    BY <1>1, <1>7, <2>1, <2>2, NodeAssumption DEF Known
<1>8. CASE LET s == Peer[p][1]
               j == Head(jobs[s])
           IN /\ s \in Switch /\ Execute(s) /\ jobs[s] # <<>>
              /\ Peer[p][2] \in OutPorts(s, j)
              /\ pipe'[p] = Outgoing(s, j, Peer[p][2])
  <2>1. PICK s \in Switch : s = Peer[p][1]
    BY <1>8
  <2> DEFINE o == Peer[p][2]
             j == Head(jobs[s])
  <2>2. /\ jobs[s] # <<>> /\ o \in OutPorts(s, j) /\ pipe'[p] = Outgoing(s, j, o)
        /\ j = jobs[s][1] /\ 1 \in 1 .. Len(jobs[s]) /\ j \in Items(jobs[s])
    BY <1>4, <1>8, <2>1, FirstJob
  <2>3. /\ j.packet \in Data /\ pipe'[p] = j.packet
        /\ (j.type = "forward" => o = j.out) /\ (j.type # "forward" => j.type = "all")
    BY <1>4, <2>2, DataOut
  <2>4. <<s, o>> = Peer[p]
    BY <1>2, <2>1, PeerParts
  <2> HIDE DEF o, j
  <2>5. CASE j.type = "forward"
    <3>1. d \in Beyond(Peer[p])
      BY <1>1, <2>2, <2>3, <2>4, <2>5 DEF TreeInv, JobForward
    <3>2. d \in Beyond(p)
      BY <1>2, <1>3, <1>5 DEF TreeInv, TablesPoint
    <3>q. QED
      BY <1>2, <3>1, <3>2, BeyondSides
  <2>6. CASE j.type = "all"
    <3>1. Flood(jobs[s][1], d)
      BY <1>1, <2>2, <2>3, <2>6 DEF Flood
    <3>q. QED
      BY <1>2, <1>5, <2>1, <2>2, <3>1 DEF TreeInv, FloodsFirst
  <2>q. QED
    BY <2>3, <2>5, <2>6
<1>q. QED
  BY <1>2, <1>4, <1>6, <1>7, <1>8, PipeChange

\* A job that is made now is not to be sent back.
LEMMA DataJobForward ==
  ASSUME TrailInv, TreeInv, NEW s \in Switch, RecvData(s)
  PROVE  LET k == scan[s]
             c == pipe[<<s, k>>]
             j == DataJob(s, k, c)
         IN /\ k \in PortIndex(s) /\ <<s, k>> \in SwitchPort
            /\ c \in Data /\ j.packet = c /\ j.in = k
            /\ j.type = "forward" /\ c.dst \in Leaf =>
                 k # j.out /\ c.dst \in Beyond(<<s, j.out>>)
<1> DEFINE k == scan[s]
           c == pipe[<<s, k>>]
           j == DataJob(s, k, c)
<1>1. k \in PortIndex(s) /\ <<s, k>> \in SwitchPort /\ c \in Data
  BY PollType DEF RecvData, TrailInv, TypeOK
<1>2. <<s, k>>[1] = s /\ <<s, k>>[2] = k
  OBVIOUS
<1>3. c.dst \in Leaf => lookupTable[s][c.dst] # k
  BY <1>1, <1>2 DEF TreeInv, PipeForward
<1>4. c.dst \in Id
  BY <1>1 DEF Data, Id
<1>5. lookupTable[s][c.dst] # NoPort => c.dst \in Beyond(<<s, lookupTable[s][c.dst]>>)
  BY <1>4 DEF TreeInv, TablesPoint
<1>6. /\ j.packet = c /\ j.in = k
      /\ j.type = "forward" =>
           lookupTable[s][c.dst] # NoPort /\ j.out = lookupTable[s][c.dst]
  BY DEF DataJob
<1> HIDE DEF k, c, j
<1>q. QED
  BY <1>1, <1>3, <1>5, <1>6 DEF j, c, k

LEMMA JobForwardStep ==
  TrailInv /\ TreeInv /\ [Next]_vars => JobForward'
<1> SUFFICES ASSUME TrailInv, TreeInv, [Next]_vars,
                    NEW s \in Switch, NEW j \in Items(jobs'[s]),
                    j.type = "forward", j.packet.dst \in Leaf
             PROVE  j.in # j.out /\ j.packet.dst \in Beyond(<<s, j.out>>)
  BY DEF JobForward
<1>0. TypeOK
  BY DEF TrailInv
<1>1. CASE j \in Items(jobs[s])
  BY <1>1 DEF TreeInv, JobForward
<1>2. CASE j = ControlJob(s)
  BY <1>2 DEF ControlJob
<1>3. CASE RecvData(s) /\ j = DataJob(s, scan[s], pipe[<<s, scan[s]>>])
  BY <1>3, DataJobForward
<1>4. CASE \E t \in Switch : RecvData(t)
  BY <1>0, <1>1, <1>3, <1>4, RecvDataQueue
<1>5. CASE \E t \in Switch : Execute(t)
  BY <1>0, <1>1, <1>2, <1>5, ExecuteEffect
<1>6. CASE \A t \in Switch : ~RecvData(t) /\ ~Execute(t)
  BY <1>1, <1>6, QueueSame
<1>q. QED
  BY <1>4, <1>5, <1>6

--------------------------------------------------------------------------------
(* One copy at most is on its way to the destination of its packet.             *)

\* A packet is delivered by the leaf that takes it out of the pipe.
LEMMA DeliveredChange ==
  ASSUME TypeOK, [Next]_vars, NEW i \in 1 .. MaxData, delivered'[i] # delivered[i]
  PROVE  \E p \in Port :
           /\ p[1] \in Leaf /\ pipe[p] \in Data /\ pipe[p].id = i /\ pipe[p].dst = p[1]
           /\ pipe' = [pipe EXCEPT ![p] = NoPacket] /\ jobs' = jobs
           /\ delivered'[i] = delivered[i] + 1
<1>1. PICK h \in Leaf : \E k \in PortIndex(h) : LeafRecv(h, k)
  BY DEF Next, SwitchStep, LeafStep, RecvNothing, RecvSwitchControl, RecvLeafControl,
         RecvData, Poll, Execute, LeafControlSend, LeafDataSend, vars
<1>2. PICK k \in PortIndex(h) : LeafRecv(h, k)
  BY <1>1
<1>3. <<h, k>> \in Port /\ <<h, k>>[1] = h
  BY PortMade DEF Node
<1>4. /\ pipe[<<h, k>>] \in Data /\ pipe[<<h, k>>].dst = h /\ pipe[<<h, k>>].id = i
      /\ delivered'[i] = delivered[i] + 1
  BY <1>2 DEF LeafRecv, TypeOK, CountType
<1>5. pipe' = [pipe EXCEPT ![<<h, k>>] = NoPacket] /\ jobs' = jobs
  BY <1>2 DEF LeafRecv
<1>q. QED
  BY <1>3, <1>4, <1>5

LEMMA SentStep ==
  ASSUME TypeOK, [Next]_vars
  PROVE  sent' = sent \/ sent' = sent + 1
BY DEF Next, SwitchStep, LeafStep, RecvNothing, RecvSwitchControl, RecvLeafControl,
       RecvData, Poll, Execute, LeafControlSend, LeafDataSend, LeafRecv, vars

LEMMA IdsStep ==
  TrailInv /\ TypeOK' /\ IdsSent /\ [Next]_vars => IdsSent'
<1> SUFFICES ASSUME TrailInv, TypeOK', IdsSent, [Next]_vars PROVE IdsSent'
  OBVIOUS
<1>0. TypeOK /\ sent \in Nat /\ sent' \in Nat /\ (sent' = sent \/ sent' = sent + 1)
  BY SentStep DEF TrailInv, TypeOK, CountType
<1>1. \A c \in Data : c.id \in Nat
  BY DEF Data
<1>2. ASSUME NEW p \in Port, pipe'[p] \in Data
      PROVE  pipe'[p].id <= sent'
  <2>1. CASE pipe'[p] = pipe[p]
    BY <1>0, <1>1, <1>2, <2>1 DEF IdsSent
  <2>2. CASE pipe'[p] # pipe[p]
    <3>1. pipe'[p] # NoPacket
      BY <1>2, NoPacketAssumption DEF Packet
    <3>2. CASE pipe'[p].id = sent + 1 /\ sent' = sent + 1
      BY <1>0, <3>2
    <3>3. ASSUME NEW s \in Switch, NEW o, jobs[s] # <<>>, o \in OutPorts(s, Head(jobs[s])),
                 pipe'[p] = Outgoing(s, Head(jobs[s]), o)
          PROVE  pipe'[p].id <= sent'
      <4>1. /\ pipe'[p] = Head(jobs[s]).packet /\ Head(jobs[s]).packet \in Data
            /\ Head(jobs[s]) \in Items(jobs[s])
        BY <1>0, <1>2, <3>3, DataOut, FirstJob
      <4>2. Head(jobs[s]).packet.id <= sent
        BY <4>1 DEF IdsSent
      <4>q. QED
        BY <1>0, <1>1, <4>1, <4>2
    <3>q. QED
      BY <1>0, <1>2, <2>2, <3>1, <3>2, <3>3, PipeChange
  <2>q. QED
    BY <2>1, <2>2
<1>3. ASSUME NEW s \in Switch, NEW j \in Items(jobs'[s]), j.packet \in Data
      PROVE  j.packet.id <= sent'
  <2>1. CASE j \in Items(jobs[s])
    BY <1>0, <1>1, <1>3, <2>1 DEF IdsSent
  <2>2. CASE j = ControlJob(s)
    BY <1>0, <1>3, <2>2, ControlJobType, Kinds DEF TypeOK
  <2>3. CASE RecvData(s) /\ j = DataJob(s, scan[s], pipe[<<s, scan[s]>>])
    <3>1. j.packet = pipe[<<s, scan[s]>>] /\ <<s, scan[s]>> \in Port
      BY <1>0, <2>3, PollType DEF DataJob, RecvData, TypeOK, SwitchPort
    <3>2. j.packet.id <= sent
      BY <1>3, <3>1 DEF IdsSent
    <3>q. QED
      BY <1>0, <1>1, <1>3, <3>2
  <2>4. CASE \E t \in Switch : RecvData(t)
    BY <1>0, <2>1, <2>3, <2>4, RecvDataQueue
  <2>5. CASE \E t \in Switch : Execute(t)
    BY <1>0, <2>1, <2>2, <2>5, ExecuteEffect
  <2>6. CASE \A t \in Switch : ~RecvData(t) /\ ~Execute(t)
    BY <2>1, <2>6, QueueSame
  <2>q. QED
    BY <2>4, <2>5, <2>6
<1>4. ASSUME NEW i \in 1 .. MaxData, i > sent'
      PROVE  delivered'[i] = 0
  <2>1. i > sent
    BY <1>0, <1>4
  <2>2. delivered[i] = 0
    BY <2>1 DEF IdsSent
  <2>3. ASSUME delivered'[i] # delivered[i] PROVE FALSE
    <3>1. PICK p \in Port : pipe[p] \in Data /\ pipe[p].id = i
      BY <1>0, <2>3, DeliveredChange
    <3>2. i <= sent
      BY <3>1 DEF IdsSent
    <3>q. QED
      BY <1>0, <2>1, <3>2
  <2>q. QED
    BY <2>2, <2>3
<1>q. QED
  BY <1>2, <1>3, <1>4 DEF IdsSent

\* Where no copy comes up, at most one remains.
LEMMA OneStays ==
  ASSUME NEW i \in 1 .. MaxData, One(i),
         \A p \in Port : LivePipe(p, i)' => LivePipe(p, i),
         \A s \in Switch : \A x \in 1 .. Len(jobs'[s]) :
           LiveJob(s, x, i)' => x \in 1 .. Len(jobs[s]) /\ LiveJob(s, x, i),
         delivered'[i] = delivered[i]
  PROVE  One(i)'
BY DEF One

\* Two pipes that one node writes do not lead to the same leaf.
LEMMA WaysApart ==
  ASSUME Forest, NEW p \in Port, NEW q \in Port, Peer[p][1] = Peer[q][1],
         NEW d, d \in Beyond(Peer[p]), d \in Beyond(Peer[q])
  PROVE  p = q
<1>1. Peer[p] \in Port /\ Peer[q] \in Port /\ Peer[Peer[p]] = p /\ Peer[Peer[q]] = q
  BY PeerParts
<1>2. Peer[p] = Peer[q]
  BY <1>1, BeyondApart
<1>q. QED
  BY <1>1, <1>2

LEMMA LivePipeChange ==
  ASSUME TypeOK, NEW p \in Port, NEW i, LivePipe(p, i)', pipe'[p] = pipe[p]
  PROVE  LivePipe(p, i)
BY DEF LivePipe

\* A switch executes a job.
LEMMA OneExecute ==
  ASSUME Forest, TrailInv, TreeInv, [Next]_vars, NEW s \in Switch, Execute(s),
         NEW i \in 1 .. MaxData
  PROVE  One(i)'
<1>0. TypeOK /\ One(i)
  BY DEF TrailInv, TreeInv, OneCopy
<1>1. ASSUME NEW p \in Port, LivePipe(p, i)', ~LivePipe(p, i)
      PROVE  /\ Peer[p][1] = s /\ jobs[s] # <<>> /\ LiveJob(s, 1, i)
             /\ pipe'[p].dst = jobs[s][1].packet.dst
             /\ pipe'[p].dst \in Beyond(Peer[p])
  <2>1. /\ pipe'[p] \in Data /\ pipe'[p].id = i /\ pipe'[p].dst \in Leaf
        /\ pipe'[p].dst \in Beyond(Peer[p])
    BY <1>1 DEF LivePipe
  <2>2. pipe'[p] # pipe[p] /\ pipe'[p] # NoPacket
    BY <1>0, <1>1, <2>1, LivePipeChange, NoPacketAssumption DEF Packet
  <2>3. Peer[p][1] = s
    BY <1>0, <2>2, ExecuteEffect
  <2> DEFINE o == Peer[p][2]
             j == Head(jobs[s])
  <2>4. jobs[s] # <<>> /\ o \in OutPorts(s, j) /\ pipe'[p] = Outgoing(s, j, o)
    BY <1>0, <2>2, <2>3, PipeChange, NodeAssumption
  <2>5. /\ j.packet \in Data /\ pipe'[p] = j.packet /\ o \in PortIndex(s)
        /\ j.type = "forward" => o = j.out
        /\ j.type # "forward" => o # j.in
    BY <1>0, <2>1, <2>4, DataOut
  <2>6. j = jobs[s][1] /\ 1 \in 1 .. Len(jobs[s]) /\ j \in Items(jobs[s])
    BY <1>0, <2>4, FirstJob
  <2>7. <<s, o>> = Peer[p]
    BY <2>3, PeerParts
  <2> HIDE DEF o, j
  <2>8. j.type = "forward" => o # j.in
    BY <2>1, <2>5, <2>6 DEF TreeInv, JobForward
  <2>9. LiveJob(s, 1, i)
    BY <2>1, <2>5, <2>6, <2>7, <2>8 DEF LiveJob
  <2>q. QED
    BY <2>1, <2>3, <2>4, <2>5, <2>6, <2>9
<1>2. ASSUME NEW t \in Switch, NEW x \in 1 .. Len(jobs'[t]), LiveJob(t, x, i)'
      PROVE  IF t = s THEN x + 1 \in 1 .. Len(jobs[s]) /\ LiveJob(s, x + 1, i)
                      ELSE x \in 1 .. Len(jobs[t]) /\ LiveJob(t, x, i)
  <2>1. CASE t = s
    <3>1. jobs'[s][x] # ControlJob(s)
      BY <1>0, <1>2, <2>1, ControlJobType, Kinds DEF LiveJob, TypeOK
    <3>2. x + 1 \in 1 .. Len(jobs[s]) /\ jobs'[s][x] = jobs[s][x + 1]
      BY <1>0, <2>1, <3>1, ExecuteQueue
    <3>q. QED
      BY <1>2, <2>1, <3>2 DEF LiveJob
  <2>2. CASE t # s
    <3>1. jobs'[t] = jobs[t]
      BY <1>0, <2>2, ExecuteQueue
    <3>q. QED
      BY <1>2, <2>2, <3>1 DEF LiveJob
  <2>q. QED
    BY <2>1, <2>2
<1>3. delivered' = delivered
  BY DEF Execute
<1>4. jobs[s] # <<>> => 1 \in 1 .. Len(jobs[s])
  BY <1>0, FirstJob
<1>5. \A t \in Switch : \A x \in 1 .. Len(jobs'[t]) : x \in Nat /\ x >= 1 /\ x + 1 # 1
  OBVIOUS
<1>6. ASSUME NEW p \in Port, NEW q \in Port, LivePipe(p, i)', LivePipe(q, i)'
      PROVE  p = q
  <2>1. CASE LivePipe(p, i) /\ LivePipe(q, i)
    BY <1>0, <2>1 DEF One
  <2>2. CASE LivePipe(p, i) /\ ~LivePipe(q, i)
    BY <1>0, <1>1, <1>4, <1>6, <2>2 DEF One
  <2>3. CASE ~LivePipe(p, i) /\ LivePipe(q, i)
    BY <1>0, <1>1, <1>4, <1>6, <2>3 DEF One
  <2>4. CASE ~LivePipe(p, i) /\ ~LivePipe(q, i)
    <3>1. /\ Peer[p][1] = Peer[q][1]
          /\ pipe'[p].dst \in Beyond(Peer[p]) /\ pipe'[p].dst \in Beyond(Peer[q])
      BY <1>1, <1>6, <2>4
    <3>q. QED
      BY <3>1, WaysApart
  <2>q. QED
    BY <2>1, <2>2, <2>3, <2>4
<1>7. ASSUME NEW p \in Port, NEW t \in Switch, NEW x \in 1 .. Len(jobs'[t]),
             LivePipe(p, i)', LiveJob(t, x, i)'
      PROVE  FALSE
  <2>1. CASE LivePipe(p, i)
    BY <1>0, <1>2, <1>7, <2>1 DEF One
  <2>2. CASE ~LivePipe(p, i)
    <3>1. LiveJob(s, 1, i) /\ 1 \in 1 .. Len(jobs[s])
      BY <1>1, <1>4, <1>7, <2>2
    <3>q. QED
      BY <1>0, <1>2, <1>5, <1>7, <3>1 DEF One
  <2>q. QED
    BY <2>1, <2>2
<1>8. ASSUME NEW t \in Switch, NEW u \in Switch,
             NEW x \in 1 .. Len(jobs'[t]), NEW y \in 1 .. Len(jobs'[u]),
             LiveJob(t, x, i)', LiveJob(u, y, i)'
      PROVE  t = u /\ x = y
  <2> DEFINE a == IF t = s THEN x + 1 ELSE x
             b == IF u = s THEN y + 1 ELSE y
  <2>1. /\ a \in 1 .. Len(jobs[t]) /\ LiveJob(t, a, i)
        /\ b \in 1 .. Len(jobs[u]) /\ LiveJob(u, b, i)
    BY <1>2, <1>8
  <2>2. t = u /\ a = b
    BY <1>0, <2>1 DEF One
  <2>3. x \in Nat /\ y \in Nat
    OBVIOUS
  <2>q. QED
    BY <2>2, <2>3
<1>9. \A p \in Port : LivePipe(p, i)' => delivered[i] = 0
  BY <1>0, <1>1, <1>4 DEF One
<1>10. \A t \in Switch : \A x \in 1 .. Len(jobs'[t]) : LiveJob(t, x, i)' => delivered[i] = 0
  BY <1>0, <1>2 DEF One
<1>q. QED
  BY <1>0, <1>3, <1>6, <1>7, <1>8, <1>9, <1>10 DEF One

\* A switch reads a packet.
LEMMA OneRecvData ==
  ASSUME Forest, TrailInv, TreeInv, [Next]_vars, NEW s \in Switch, RecvData(s),
         NEW i \in 1 .. MaxData
  PROVE  One(i)'
<1> DEFINE k == scan[s]
           r == <<s, k>>
           c == pipe[r]
           j == DataJob(s, k, c)
<1>0. TypeOK /\ One(i)
  BY DEF TrailInv, TreeInv, OneCopy
<1>1. /\ k \in PortIndex(s) /\ r \in Port /\ c \in Data /\ j.packet = c /\ j.in = k
  BY DataJobForward DEF SwitchPort
<1>2. pipe' = [pipe EXCEPT ![r] = NoPacket] /\ delivered' = delivered
  BY DEF RecvData, Poll
<1>3. /\ \A t \in Switch : t # s => jobs'[t] = jobs[t]
      /\ \A x \in 1 .. Len(jobs'[s]) :
           \/ x \in 1 .. Len(jobs[s]) /\ jobs'[s][x] = jobs[s][x]
           \/ x = Len(jobs[s]) + 1 /\ jobs'[s][x] = j
  BY <1>0, RecvDataPlaces
<1>4. r[1] = s /\ r[2] = k
  OBVIOUS
<1> HIDE DEF j, c, r, k
<1>5. ASSUME NEW p \in Port, LivePipe(p, i)'
      PROVE  LivePipe(p, i) /\ p # r
  <2>1. pipe'[p] # NoPacket
    BY <1>5, NoPacketAssumption DEF LivePipe, Packet
  <2>2. p # r /\ pipe'[p] = pipe[p]
    BY <1>0, <1>2, <2>1 DEF TypeOK, PipeType
  <2>q. QED
    BY <1>0, <1>5, <2>2, LivePipeChange
<1>6. ASSUME NEW t \in Switch, NEW x \in 1 .. Len(jobs'[t]), LiveJob(t, x, i)'
      PROVE  \/ x \in 1 .. Len(jobs[t]) /\ LiveJob(t, x, i)
             \/ t = s /\ x = Len(jobs[s]) + 1 /\ LivePipe(r, i)
  <2>1. CASE x \in 1 .. Len(jobs[t]) /\ jobs'[t][x] = jobs[t][x]
    BY <1>6, <2>1 DEF LiveJob
  <2>2. CASE t = s /\ x = Len(jobs[s]) + 1 /\ jobs'[s][x] = j
    <3>1. /\ c.id = i /\ c.dst \in Leaf
          /\ \E o \in PortIndex(s) \ {k} : c.dst \in Beyond(<<s, o>>)
      BY <1>1, <1>6, <2>2 DEF LiveJob
    <3>2. PICK o \in PortIndex(s) \ {k} : c.dst \in Beyond(<<s, o>>)
      BY <3>1
    <3>3. <<s, o>> \in Port /\ <<s, o>>[1] = s /\ <<s, o>>[2] = o
      BY PortMade DEF Node
    <3>4. <<s, o>> # r
      BY <1>4, <3>3
    <3>5. Peer[r] \in Port /\ Peer[Peer[r]] = r
      BY <1>1, PeerParts
    <3>6. Beyond(<<s, o>>) \subseteq Beyond(Peer[r])
      BY <1>4, <3>3, <3>4, <3>5, BeyondNested
    <3>q. QED
      BY <1>1, <2>2, <3>1, <3>2, <3>6 DEF LivePipe, c
  <2>q. QED
    BY <1>3, <2>1, <2>2
<1>7. ASSUME NEW p \in Port, NEW q \in Port, LivePipe(p, i)', LivePipe(q, i)'
      PROVE  p = q
  BY <1>0, <1>5, <1>7 DEF One
<1>8. ASSUME NEW p \in Port, NEW t \in Switch, NEW x \in 1 .. Len(jobs'[t]),
             LivePipe(p, i)', LiveJob(t, x, i)'
      PROVE  FALSE
  <2>1. LivePipe(p, i) /\ p # r
    BY <1>5, <1>8
  <2>q. QED
    BY <1>0, <1>1, <1>6, <1>8, <2>1 DEF One
<1>9. ASSUME NEW t \in Switch, NEW u \in Switch,
             NEW x \in 1 .. Len(jobs'[t]), NEW y \in 1 .. Len(jobs'[u]),
             LiveJob(t, x, i)', LiveJob(u, y, i)'
      PROVE  t = u /\ x = y
  BY <1>0, <1>1, <1>6, <1>9 DEF One
<1>10. /\ \A p \in Port : LivePipe(p, i)' => delivered[i] = 0
       /\ \A t \in Switch : \A x \in 1 .. Len(jobs'[t]) :
            LiveJob(t, x, i)' => delivered[i] = 0
  BY <1>0, <1>1, <1>5, <1>6 DEF One
<1>q. QED
  BY <1>0, <1>2, <1>7, <1>8, <1>9, <1>10 DEF One

\* A leaf sends a packet: it has a number of its own.
LEMMA OneDataSend ==
  ASSUME Forest, TrailInv, TreeInv, [Next]_vars, NEW h \in Leaf, NEW d \in Dst,
         LeafDataSend(h, d), NEW i \in 1 .. MaxData
  PROVE  One(i)'
<1> DEFINE c == [type |-> "data", src |-> h, dst |-> d, id |-> sent + 1]
<1>0. TypeOK /\ One(i) /\ sent \in Nat
  BY DEF TrailInv, TreeInv, OneCopy, TypeOK, CountType
<1>1. jobs' = jobs /\ delivered' = delivered
  BY DEF LeafDataSend
<1>2. \A p \in Port : pipe'[p] # pipe[p] => Peer[p][1] = h /\ pipe'[p] = c
  BY BroadcastEffect DEF LeafDataSend
<1>3. c.id = sent + 1 /\ c.dst = d
  OBVIOUS
<1> HIDE DEF c
<1>4. ASSUME NEW p \in Port, LivePipe(p, i)', ~LivePipe(p, i)
      PROVE  Peer[p][1] = h /\ i = sent + 1 /\ d \in Beyond(Peer[p])
  <2>1. pipe'[p] # pipe[p]
    BY <1>0, <1>4, LivePipeChange
  <2>q. QED
    BY <1>2, <1>3, <1>4, <2>1 DEF LivePipe
<1>5. \A s \in Switch : \A x \in 1 .. Len(jobs'[s]) :
        LiveJob(s, x, i)' => x \in 1 .. Len(jobs[s]) /\ LiveJob(s, x, i)
  BY <1>1 DEF LiveJob
<1>6. CASE i # sent + 1
  BY <1>0, <1>1, <1>4, <1>5, <1>6, OneStays
<1>7. CASE i = sent + 1
  <2>1. i > sent /\ ~(i <= sent)
    BY <1>0, <1>7
  <2>2. \A p \in Port : ~LivePipe(p, i)
    BY <2>1 DEF LivePipe, TreeInv, IdsSent
  <2>3. \A s \in Switch : \A x \in 1 .. Len(jobs'[s]) : ~LiveJob(s, x, i)'
    <3>1. \A s \in Switch : \A x \in 1 .. Len(jobs[s]) : jobs[s][x] \in Items(jobs[s])
      BY DEF Items
    <3>2. \A s \in Switch : \A x \in 1 .. Len(jobs[s]) : ~LiveJob(s, x, i)
      BY <2>1, <3>1 DEF LiveJob, TreeInv, IdsSent
    <3>q. QED
      BY <1>5, <3>2
  <2>4. delivered[i] = 0
    BY <2>1 DEF TreeInv, IdsSent
  <2>5. ASSUME NEW p \in Port, NEW q \in Port, LivePipe(p, i)', LivePipe(q, i)'
        PROVE  p = q
    BY <1>4, <2>2, <2>5, WaysApart
  <2>q. QED
    BY <1>1, <2>3, <2>4, <2>5 DEF One
<1>q. QED
  BY <1>6, <1>7

\* Every other step sends no data; a leaf may take the copy that reached it.
LEMMA OneOther ==
  ASSUME Forest, TrailInv, TreeInv, [Next]_vars, NEW i \in 1 .. MaxData,
         jobs' = jobs,
         \A p \in Port : pipe'[p] = pipe[p] \/ pipe'[p] \notin Data
  PROVE  One(i)'
<1>0. TypeOK /\ One(i)
  BY DEF TrailInv, TreeInv, OneCopy
<1>1. \A p \in Port : LivePipe(p, i)' => LivePipe(p, i)
  BY DEF LivePipe
<1>2. \A s \in Switch : \A x \in 1 .. Len(jobs'[s]) :
        LiveJob(s, x, i)' => x \in 1 .. Len(jobs[s]) /\ LiveJob(s, x, i)
  BY DEF LiveJob
<1>3. CASE delivered'[i] = delivered[i]
  BY <1>0, <1>1, <1>2, <1>3, OneStays
<1>4. CASE delivered'[i] # delivered[i]
  <2>1. PICK p \in Port :
          /\ p[1] \in Leaf /\ pipe[p] \in Data /\ pipe[p].id = i /\ pipe[p].dst = p[1]
          /\ pipe' = [pipe EXCEPT ![p] = NoPacket]
          /\ delivered'[i] = delivered[i] + 1
    BY <1>0, <1>4, DeliveredChange
  <2>2. p[1] \in Beyond(Peer[p])
    BY PeerParts, BeyondCut
  <2>3. LivePipe(p, i)
    BY <2>1, <2>2 DEF LivePipe
  <2>4. pipe'[p] = NoPacket
    BY <1>0, <2>1 DEF TypeOK, PipeType
  <2>5. ~LivePipe(p, i)'
    BY <2>4, NoPacketAssumption DEF LivePipe, Packet
  <2>6. \A q \in Port : ~LivePipe(q, i)'
    BY <1>0, <1>1, <2>3, <2>5 DEF One
  <2>7. \A s \in Switch : \A x \in 1 .. Len(jobs'[s]) : ~LiveJob(s, x, i)'
    BY <1>0, <1>2, <2>3 DEF One
  <2>8. delivered[i] = 0
    BY <1>0, <2>3 DEF One
  <2>9. delivered'[i] <= 1
    BY <2>1, <2>8
  <2>q. QED
    BY <2>6, <2>7, <2>9 DEF One
<1>q. QED
  BY <1>3, <1>4

LEMMA OneStep ==
  Forest /\ TrailInv /\ TreeInv /\ [Next]_vars => OneCopy'
<1> SUFFICES ASSUME Forest, TrailInv, TreeInv, [Next]_vars, NEW i \in 1 .. MaxData
             PROVE  One(i)'
  BY DEF OneCopy
<1>0. PipeType /\ TypeOK
  BY DEF TrailInv, TypeOK
<1>1. NoPacket \notin Data
  BY NoPacketAssumption DEF Packet
<1>2. ASSUME NEW s \in Switch, RecvNothing(s) \/ RecvSwitchControl(s) \/ RecvLeafControl(s)
      PROVE  One(i)'
  <2>1. \E S : Poll(s, S)
    BY <1>2 DEF RecvNothing, RecvSwitchControl, RecvLeafControl
  <2>2. \A p \in Port : pipe'[p] = pipe[p] \/ pipe'[p] \notin Data
    BY <1>0, <1>1, <2>1, PollPipe
  <2>3. jobs' = jobs
    BY <1>2 DEF RecvNothing, RecvSwitchControl, RecvLeafControl
  <2>q. QED
    BY <2>2, <2>3, OneOther
<1>3. ASSUME NEW h \in Leaf, LeafControlSend(h) PROVE One(i)'
  <2>1. [type |-> "control", src |-> h, sender |-> "H"] \notin Data
    BY DEF Data
  <2>2. \A p \in Port : pipe'[p] = pipe[p] \/ pipe'[p] \notin Data
    BY <1>3, <2>1, BroadcastEffect DEF LeafControlSend
  <2>q. QED
    BY <1>3, <2>2, OneOther DEF LeafControlSend
<1>4. ASSUME NEW h \in Leaf, NEW k \in PortIndex(h), LeafRecv(h, k) PROVE One(i)'
  <2>1. \A p \in Port : pipe'[p] = pipe[p] \/ pipe'[p] \notin Data
    BY <1>0, <1>1, <1>4 DEF LeafRecv, PipeType
  <2>q. QED
    BY <1>4, <2>1, OneOther DEF LeafRecv
<1>5. CASE UNCHANGED vars
  BY <1>5, OneOther DEF vars
<1>6. CASE \E s \in Switch : SwitchStep(s)
  BY <1>2, <1>6, OneExecute, OneRecvData DEF SwitchStep
<1>7. CASE \E h \in Leaf : LeafStep(h)
  BY <1>3, <1>4, <1>7, OneDataSend DEF LeafStep
<1>q. QED
  BY <1>5, <1>6, <1>7 DEF Next

--------------------------------------------------------------------------------
LEMMA TreeInit == Init => TreeInv
<1> SUFFICES ASSUME Init PROVE TreeInv
  OBVIOUS
<1>1. \A p \in Port : pipe[p] = NoPacket
  BY DEF Init
<1>2. NoPacket \notin Data
  BY NoPacketAssumption DEF Packet
<1>3. \A s \in Switch : \A d \in Id : lookupTable[s][d] = NoPort
  BY DEF Init
<1>4. ASSUME NEW s \in Switch, NEW j \in Items(jobs[s])
      PROVE  j.packet \notin Data /\ j.type = "all"
  <2>1. j = ControlJob(s)
    BY FirstQueue
  <2>2. ControlJob(s).packet.type = "control" /\ ControlJob(s).type = "all"
    BY DEF ControlJob
  <2>q. QED
    BY <2>1, <2>2 DEF Data
<1>5. \A s \in Switch : \A x \in 1 .. Len(jobs[s]) : jobs[s][x] \in Items(jobs[s])
  BY DEF Items
<1>6. \A i \in 1 .. MaxData : delivered[i] = 0
  BY DEF Init
<1>7. TablesPoint
  BY <1>3 DEF TablesPoint
<1>8. FloodsFirst
  BY <1>4, <1>5 DEF FloodsFirst, Flood
<1>9. PipeForward
  BY <1>1, <1>2 DEF PipeForward, SwitchPort
<1>10. JobForward
  BY <1>4 DEF JobForward
<1>11. IdsSent
  BY <1>1, <1>2, <1>4, <1>6 DEF IdsSent
<1>12. OneCopy
  <2>1. \A p \in Port : \A i : ~LivePipe(p, i)
    BY <1>1, <1>2 DEF LivePipe
  <2>2. \A s \in Switch : \A x \in 1 .. Len(jobs[s]) : \A i : ~LiveJob(s, x, i)
    BY <1>4, <1>5 DEF LiveJob
  <2>q. QED
    BY <1>6, <2>1, <2>2 DEF OneCopy, One
<1>q. QED
  BY <1>7, <1>8, <1>9, <1>10, <1>11, <1>12 DEF TreeInv

LEMMA TreeStep ==
  Forest /\ TrailInv /\ TypeOK' /\ TreeInv /\ [Next]_vars => TreeInv'
BY PointStep, FloodStep, PipeForwardStep, JobForwardStep, IdsStep, OneStep
   DEF TreeInv, TrailInv

\* In every network without a cycle, however large: no packet reaches its
\* destination twice, although packets are flooded before the tables are filled,
\* tables change while packets are under way, and packets are lost.
THEOREM DeliveredOnce == Forest => (Spec => []AtMostOnce)
<1> SUFFICES ASSUME Forest PROVE Spec => []AtMostOnce
  OBVIOUS
<1> DEFINE Inv == TrailInv /\ ParentCloser /\ TreeInv
<1>1. Init => Inv
  BY InitType, OldInit, TrailInit, TreeInit DEF TrailInv
<1>2. Inv /\ [Next]_vars => Inv'
  BY StepType, OldStep, TrailStep, TreeStep DEF TrailInv
<1>3. Inv => AtMostOnce
  BY DEF TreeInv, OneCopy, One, AtMostOnce
<1>q. QED
  BY <1>1, <1>2, <1>3, PTL DEF Spec
================================================================================
