------------------------------ MODULE NetInitProofs ------------------------------
(***************************************************************************)
(* For every configuration: types, and the pairing of ports.               *)
(*                                                                         *)
(* The argument: the list of all ports is made of the ends of the links,   *)
(* each end of a pipe once (ListInv); what a process has taken and what it *)
(* has yet to see are, for its id, that list (ShareInv).                   *)
(***************************************************************************)
EXTENDS NetInit, TLAPS

Items(q) == {q[j] : j \in 1 .. Len(q)}

\* No pipe port is in q twice.
Single(q) == \A j, k \in 1 .. Len(q) : q[j] = q[k] /\ q[j].type = "PIPE" => j = k

LEMMA ConcatItems ==
  ASSUME NEW S, NEW q \in Seq(S), NEW r \in Seq(S)
  PROVE  Items(q \o r) = Items(q) \cup Items(r)
<1>1. /\ q \o r \in Seq(S) /\ Len(q \o r) = Len(q) + Len(r)
      /\ \A j \in 1 .. Len(q) : (q \o r)[j] = q[j]
      /\ \A j \in 1 .. Len(r) : (q \o r)[Len(q) + j] = r[j]
      /\ Len(q) \in Nat /\ Len(r) \in Nat
  OBVIOUS
<1>2. ASSUME NEW x \in Items(q \o r) PROVE x \in Items(q) \cup Items(r)
  <2>1. PICK j \in 1 .. Len(q \o r) : x = (q \o r)[j]
    BY <1>2 DEF Items
  <2>2. CASE j <= Len(q)
    BY <1>1, <2>1, <2>2 DEF Items
  <2>3. CASE j > Len(q)
    <3>1. j - Len(q) \in 1 .. Len(r) /\ j = Len(q) + (j - Len(q))
      BY <1>1, <2>1, <2>3
    <3>q. QED
      BY <1>1, <2>1, <3>1 DEF Items
  <2>q. QED
    BY <1>1, <2>2, <2>3
<1>3. ASSUME NEW x \in Items(q) PROVE x \in Items(q \o r)
  <2>1. PICK j \in 1 .. Len(q) : x = q[j]
    BY <1>3 DEF Items
  <2>2. j \in 1 .. Len(q \o r) /\ x = (q \o r)[j]
    BY <1>1, <2>1
  <2>q. QED
    BY <2>2 DEF Items
<1>4. ASSUME NEW x \in Items(r) PROVE x \in Items(q \o r)
  <2>1. PICK j \in 1 .. Len(r) : x = r[j]
    BY <1>4 DEF Items
  <2>2. Len(q) + j \in 1 .. Len(q \o r) /\ x = (q \o r)[Len(q) + j]
    BY <1>1, <2>1
  <2>q. QED
    BY <2>2 DEF Items
<1>q. QED
  BY <1>2, <1>3, <1>4

LEMMA ConcatSingle ==
  ASSUME NEW S, NEW q \in Seq(S), NEW r \in Seq(S), Single(q), Single(r),
         \A x \in Items(q) \cap Items(r) : x.type # "PIPE"
  PROVE  Single(q \o r)
<1> DEFINE c == q \o r
<1> SUFFICES ASSUME NEW j \in 1 .. Len(c), NEW k \in 1 .. Len(c),
                    c[j] = c[k], c[j].type = "PIPE"
             PROVE  j = k
  BY DEF Single
<1>1. /\ Len(c) = Len(q) + Len(r) /\ Len(q) \in Nat /\ Len(r) \in Nat
      /\ \A m \in 1 .. Len(q) : c[m] = q[m]
      /\ \A m \in 1 .. Len(r) : c[Len(q) + m] = r[m]
  OBVIOUS
<1> HIDE DEF c
<1>2. ASSUME NEW m \in 1 .. Len(c)
      PROVE  \/ m \in 1 .. Len(q) /\ c[m] = q[m] /\ c[m] \in Items(q)
             \/ /\ m - Len(q) \in 1 .. Len(r) /\ c[m] = r[m - Len(q)] /\ c[m] \in Items(r)
  <2>1. CASE m <= Len(q)
    BY <1>1, <2>1 DEF Items
  <2>2. CASE m > Len(q)
    <3>1. m - Len(q) \in 1 .. Len(r) /\ m = Len(q) + (m - Len(q))
      BY <1>1, <2>2
    <3>2. c[m] = r[m - Len(q)]
      BY <1>1, <3>1
    <3>q. QED
      BY <3>1, <3>2 DEF Items
  <2>q. QED
    BY <1>1, <2>1, <2>2
<1>3. CASE c[j] \in Items(q)
  <2>1. c[j] \notin Items(r)
    BY <1>3
  <2>2. j \in 1 .. Len(q) /\ k \in 1 .. Len(q) /\ q[j] = q[k] /\ q[j].type = "PIPE"
    BY <1>2, <2>1
  <2>q. QED
    BY <2>2 DEF Single
<1>4. CASE c[j] \notin Items(q)
  <2>1. /\ j - Len(q) \in 1 .. Len(r) /\ k - Len(q) \in 1 .. Len(r)
        /\ r[j - Len(q)] = r[k - Len(q)] /\ r[j - Len(q)].type = "PIPE"
    BY <1>2, <1>4
  <2>2. j - Len(q) = k - Len(q)
    BY <2>1 DEF Single
  <2>q. QED
    BY <1>1, <2>2
<1>q. QED
  BY <1>3, <1>4

\* The first item of a list and the others.
LEMMA FirstAndRest ==
  ASSUME NEW S, NEW q \in Seq(S), q # <<>>
  PROVE  /\ Head(q) \in S /\ Tail(q) \in Seq(S)
         /\ Items(q) = {Head(q)} \cup Items(Tail(q))
         /\ Single(q) => Single(Tail(q)) /\ (Head(q).type = "PIPE" => Head(q) \notin Items(Tail(q)))
<1>1. /\ Len(q) \in Nat /\ Len(q) >= 1 /\ Len(Tail(q)) = Len(q) - 1
      /\ Head(q) = q[1] /\ Head(q) \in S /\ Tail(q) \in Seq(S)
      /\ \A j \in 1 .. Len(q) - 1 : Tail(q)[j] = q[j + 1]
  OBVIOUS
<1>2. ASSUME NEW x \in Items(q) PROVE x = Head(q) \/ x \in Items(Tail(q))
  <2>1. PICK j \in 1 .. Len(q) : x = q[j]
    BY <1>2 DEF Items
  <2>2. CASE j = 1
    BY <1>1, <2>1, <2>2
  <2>3. CASE j # 1
    <3>1. j - 1 \in 1 .. Len(Tail(q)) /\ Tail(q)[j - 1] = q[j]
      BY <1>1, <2>1, <2>3
    <3>q. QED
      BY <2>1, <3>1 DEF Items
  <2>q. QED
    BY <2>2, <2>3
<1>3. ASSUME NEW x \in Items(Tail(q)) PROVE \E j \in 2 .. Len(q) : x = q[j]
  <2>1. PICK j \in 1 .. Len(Tail(q)) : x = Tail(q)[j]
    BY <1>3 DEF Items
  <2>2. j + 1 \in 2 .. Len(q) /\ x = q[j + 1]
    BY <1>1, <2>1
  <2>q. QED
    BY <2>2
<1>4. Head(q) \in Items(q)
  BY <1>1 DEF Items
<1>5. Items(q) = {Head(q)} \cup Items(Tail(q))
  <2>1. \A j \in 2 .. Len(q) : q[j] \in Items(q)
    BY <1>1 DEF Items
  <2>q. QED
    BY <1>2, <1>3, <1>4, <2>1
<1>6. ASSUME Single(q), Head(q).type = "PIPE" PROVE Head(q) \notin Items(Tail(q))
  <2>1. \A j \in 2 .. Len(q) : q[j] # q[1]
    BY <1>1, <1>6 DEF Single
  <2>q. QED
    BY <1>1, <1>3, <2>1
<1>7. ASSUME Single(q) PROVE Single(Tail(q))
  <2> SUFFICES ASSUME NEW j \in 1 .. Len(Tail(q)), NEW k \in 1 .. Len(Tail(q)),
                      Tail(q)[j] = Tail(q)[k], Tail(q)[j].type = "PIPE"
               PROVE  j = k
    BY DEF Single
  <2>1. /\ j + 1 \in 1 .. Len(q) /\ k + 1 \in 1 .. Len(q)
        /\ q[j + 1] = q[k + 1] /\ q[j + 1].type = "PIPE"
    BY <1>1
  <2>2. j + 1 = k + 1
    BY <1>7, <2>1 DEF Single
  <2>q. QED
    BY <1>1, <2>2
<1>q. QED
  BY <1>1, <1>5, <1>6, <1>7

LEMMA Singleton ==
  ASSUME NEW S, NEW x \in S
  PROVE  <<x>> \in Seq(S) /\ Items(<<x>>) = {x} /\ Single(<<x>>)
BY DEF Items, Single

--------------------------------------------------------------------------------
(* Types.                                                                       *)

LEMMA ConfigType ==
  ASSUME TypeOK, Loadable
  PROVE  config.nodes \in Seq(NodeLine) /\ config.links \in Seq(LinkLine)
BY ConfigAssumption DEF TypeOK, Loadable, Configuration

\* The ports that the two ends of the i-th link get, if it is a pipe.
Near(i) == [type |-> "PIPE", host |-> config.links[i].node0,
            send |-> <<i, "fd01">>, recv |-> <<i, "fd10">>]
Far(i)  == [type |-> "PIPE", host |-> config.links[i].node1,
            send |-> <<i, "fd10">>, recv |-> <<i, "fd01">>]

LEMMA LinkEnds ==
  ASSUME config.links \in Seq(LinkLine), NEW i \in 1 .. Len(config.links)
  PROVE  /\ LinkPorts(i) \in Seq(NetPort) /\ Single(LinkPorts(i))
         /\ \A p \in Items(LinkPorts(i)) : p.type = "PIPE" =>
              config.links[i].type = "PIPE" /\ p \in {Near(i), Far(i)}
         /\ config.links[i].type = "PIPE" => Items(LinkPorts(i)) = {Near(i), Far(i)}
<1>1. i \in Nat /\ config.links[i] \in LinkLine
  OBVIOUS
<1>2. CASE config.links[i].type = "PIPE"
  <2>1. LinkPorts(i) = <<Near(i), Far(i)>>
    BY <1>2 DEF LinkPorts, Near, Far
  <2>2. Near(i) \in NetPort /\ Far(i) \in NetPort
    <3>1. config.links[i].node0 \in Nat /\ config.links[i].node1 \in Nat
      BY <1>1, <1>2 DEF LinkLine
    <3>q. QED
      BY <1>1, <3>1 DEF Near, Far, NetPort, PipeName
  <2>3. Near(i) # Far(i)
    <3>1. Near(i).send[2] = "fd01" /\ Far(i).send[2] = "fd10"
      BY DEF Near, Far
    <3>q. QED
      BY <3>1
  <2> HIDE DEF Near, Far
  <2>4. <<Near(i), Far(i)>> \in Seq(NetPort) /\ Len(<<Near(i), Far(i)>>) = 2
    BY <2>2
  <2>5. Items(<<Near(i), Far(i)>>) = {Near(i), Far(i)}
    BY DEF Items
  <2>6. Single(<<Near(i), Far(i)>>)
    BY <2>3, <2>4 DEF Single
  <2>q. QED
    BY <1>2, <2>1, <2>4, <2>5, <2>6
<1>3. CASE config.links[i].type # "PIPE"
  <2> DEFINE p == [type |-> "SOCKET", host |-> config.links[i].node0,
                   send |-> config.links[i].to, recv |-> config.links[i].listen]
  <2>1. LinkPorts(i) = <<p>>
    BY <1>3 DEF LinkPorts
  <2>2. p \in NetPort /\ p.type = "SOCKET"
    <3>1. /\ config.links[i].node0 \in Nat /\ config.links[i].to \in STRING
          /\ config.links[i].listen \in STRING
      BY <1>1, <1>3 DEF LinkLine
    <3>q. QED
      BY <3>1 DEF NetPort
  <2> HIDE DEF p
  <2>3. <<p>> \in Seq(NetPort) /\ Items(<<p>>) = {p} /\ Single(<<p>>)
    BY <2>2, Singleton
  <2>q. QED
    BY <1>3, <2>1, <2>2, <2>3
<1>q. QED
  BY <1>2, <1>3

NodeProcess == [node : NodeLine, unseen : Seq(NetPort), ports : Seq(NetPort)]

\* One step of a node process: the first of the ports it has not seen is taken
\* or passed, and no other process changes.
LEMMA TakenPort ==
  ASSUME child \in Seq(NodeProcess), NEW c \in 1 .. Len(child), TakePort(c)
  PROVE  LET p == Head(child[c].unseen)
         IN /\ p \in NetPort /\ child[c] \in NodeProcess /\ child[c].unseen # <<>>
            /\ child' \in Seq(NodeProcess) /\ Len(child') = Len(child)
            /\ \A d \in 1 .. Len(child) : d # c => child'[d] = child[d]
            /\ child'[c].node = child[c].node
            /\ child'[c].unseen = Tail(child[c].unseen)
            /\ child'[c].ports = IF p.host = child[c].node.id THEN <<p>> \o child[c].ports
                                                              ELSE child[c].ports
<1> DEFINE p == Head(child[c].unseen)
           ports == IF p.host = child[c].node.id THEN <<p>> \o child[c].ports
                                                 ELSE child[c].ports
           new == [child[c] EXCEPT !.unseen = Tail(@), !.ports = ports]
<1>1. child[c] \in NodeProcess
  OBVIOUS
<1>2. /\ child[c].node \in NodeLine /\ child[c].unseen \in Seq(NetPort)
      /\ child[c].ports \in Seq(NetPort) /\ child[c].unseen # <<>>
  BY <1>1 DEF NodeProcess, TakePort
<1>3. p \in NetPort /\ Tail(child[c].unseen) \in Seq(NetPort)
  BY <1>2, FirstAndRest
<1>4. ports \in Seq(NetPort)
  BY <1>2, <1>3
<1>5. /\ new \in NodeProcess /\ new.node = child[c].node
      /\ new.unseen = Tail(child[c].unseen) /\ new.ports = ports
  <2> HIDE DEF ports
  <2>q. QED
    BY <1>1, <1>2, <1>3, <1>4 DEF NodeProcess
<1>6. child' = [child EXCEPT ![c] = new]
  BY <1>1 DEF TakePort, NodeProcess
<1> HIDE DEF p, ports
<1> HIDE DEF new
<1>7. /\ child' \in Seq(NodeProcess) /\ Len(child') = Len(child) /\ child'[c] = new
      /\ \A d \in 1 .. Len(child) : d # c => child'[d] = child[d]
  BY <1>5, <1>6
<1>q. QED
  BY <1>1, <1>2, <1>3, <1>5, <1>7 DEF p, ports

\* The loops over the file are reached with a file only.
Loading == main \in {"nodes", "links", "consoles"} => Loadable

LEMMA TypeInit == Init => TypeOK /\ Loading
BY DEF Init, TypeOK, Loading

LEMMA TypeStep == TypeOK /\ Loading /\ [NetInitNext]_vars => TypeOK' /\ Loading'
<1> SUFFICES ASSUME TypeOK, Loading, [NetInitNext]_vars PROVE TypeOK' /\ Loading'
  OBVIOUS
<1>t. /\ at \in Nat /\ config \in Configs
      /\ g_node_list \in Seq(NodeLine) /\ g_port_list \in Seq(NetPort)
      /\ g_man_man_port_list \in Seq(Nat) /\ g_man_host_port_list \in Seq(Nat)
      /\ child \in Seq(NodeProcess)
  BY DEF TypeOK, NodeProcess
<1>l. config' = config => Loadable' = Loadable
  BY DEF Loadable
<1>1. CASE LoadFails \/ LoadRefused \/ Load
  <2>1. TypeOK'
    BY <1>1 DEF LoadFails, LoadRefused, Load, Goto, TypeOK, lists
  <2>2. Loading'
    BY <1>1, <1>l DEF LoadFails, LoadRefused, Load, Goto, Loading
  <2>q. QED
    BY <2>1, <2>2
<1>2. ASSUME NEW n, NEW from \in {"nodes", "links", "consoles"},
             NEW to \in {"links", "consoles", "fork"}, Finish(from, n, to)
      PROVE  TypeOK' /\ Loading'
  <2>1. TypeOK'
    BY <1>2 DEF Finish, Goto, TypeOK, lists
  <2>2. Loading'
    BY <1>2, <1>l DEF Finish, Goto, Loading
  <2>q. QED
    BY <2>1, <2>2
<1>3. CASE Manage \/ ForkFails \/ Quit
  <2>1. TypeOK'
    <3>1. CASE Manage
      BY <3>1 DEF Manage, Goto, TypeOK, lists
    <3>2. CASE ForkFails
      BY <3>2 DEF ForkFails, Goto, TypeOK, lists
    <3>3. CASE Quit
      BY <3>3 DEF Quit, Goto, TypeOK, lists
    <3>q. QED
      BY <1>3, <3>1, <3>2, <3>3
  <2>2. Loading'
    BY <1>3 DEF Manage, ForkFails, Quit, Goto, Loading
  <2>q. QED
    BY <2>1, <2>2
<1>4. CASE create_node_list
  <2>1. config.nodes \in Seq(NodeLine) /\ Loadable
    BY <1>4, ConfigType DEF create_node_list, Iterate, Loading
  <2>2. config.nodes[at + 1] \in NodeLine
    BY <1>4, <1>t, <2>1 DEF create_node_list, Iterate
  <2>3. <<config.nodes[at + 1]>> \o g_node_list \in Seq(NodeLine)
    BY <1>t, <2>2
  <2>q. QED
    BY <1>4, <1>l, <2>1, <2>3 DEF create_node_list, Iterate, TypeOK, Loading
<1>5. CASE create_port_list
  <2>1. config.links \in Seq(LinkLine) /\ Loadable
    BY <1>5, ConfigType DEF create_port_list, Iterate, Loading
  <2>2. at + 1 \in 1 .. Len(config.links)
    BY <1>5, <1>t, <2>1 DEF create_port_list, Iterate
  <2>3. LinkPorts(at + 1) \o g_port_list \in Seq(NetPort)
    <3>1. LinkPorts(at + 1) \in Seq(NetPort)
      BY <2>1, <2>2, LinkEnds
    <3>q. QED
      BY <1>t, <3>1
  <2>q. QED
    BY <1>5, <1>l, <2>1, <2>3 DEF create_port_list, Iterate, TypeOK, Loading
<1>6. CASE create_man_ports
  <2> DEFINE node == g_node_list[at + 1]
  <2>1. node \in NodeLine
    BY <1>6, <1>t DEF create_man_ports, Iterate
  <2>2. node.id \in Nat
    BY <2>1 DEF NodeLine
  <2>3. /\ <<node.id>> \o g_man_man_port_list \in Seq(Nat)
        /\ <<node.id>> \o g_man_host_port_list \in Seq(Nat)
    BY <1>t, <2>2
  <2>q. QED
    BY <1>6, <1>t, <1>l, <2>3 DEF create_man_ports, Iterate, TypeOK, Loading
<1>7. CASE Fork
  <2> DEFINE new == [node |-> g_node_list[at + 1], unseen |-> g_port_list, ports |-> <<>>]
  <2>1. g_node_list[at + 1] \in NodeLine
    BY <1>7, <1>t DEF Fork, Iterate
  <2>2. new \in NodeProcess
    BY <1>t, <2>1 DEF NodeProcess
  <2>3. child' \in Seq(NodeProcess)
    BY <1>7, <1>t, <2>2 DEF Fork
  <2>q. QED
    BY <1>7, <1>t, <1>l, <2>3 DEF Fork, Iterate, lists, TypeOK, Loading, NodeProcess
<1>8. ASSUME NEW c \in 1 .. Len(child), TakePort(c) PROVE TypeOK' /\ Loading'
  <2>1. child' \in Seq(NodeProcess)
    BY <1>8, <1>t, TakenPort
  <2>q. QED
    BY <1>8, <1>t, <1>l, <2>1 DEF TakePort, lists, TypeOK, Loading, NodeProcess
<1>9. CASE UNCHANGED vars
  BY <1>9, <1>l DEF vars, TypeOK, Loading
<1>q. QED
  BY <1>1, <1>2, <1>3, <1>4, <1>5, <1>6, <1>7, <1>8, <1>9 DEF NetInitNext, MainStep

\* What the variables hold, for every configuration.
THEOREM TypeCorrect == Spec => []TypeOK
<1>1. Spec => [](TypeOK /\ Loading)
  BY TypeInit, TypeStep, PTL DEF Spec
<1>q. QED
  BY <1>1, PTL

--------------------------------------------------------------------------------
(* The lists.                                                                   *)

\* The main process has read the whole file, or has skipped it.
Late == {"fork", "manager", "quit", "crashed", "failed"}

NodesLoaded(n) ==
  Len(g_node_list) = n /\ \A j \in 1 .. n : g_node_list[j] = config.nodes[n + 1 - j]

PortsLoaded(n) == Items(g_port_list) = UNION {Items(LinkPorts(i)) : i \in 1 .. n}

NodeInv ==
  /\ main = "load" => g_node_list = <<>>
  /\ main = "nodes" => at <= Len(config.nodes) /\ NodesLoaded(at)
  /\ Loadable /\ main \in {"links", "consoles"} \cup Late => NodesLoaded(Len(config.nodes))

PortInv ==
  /\ main \in {"load", "nodes"} => g_port_list = <<>>
  /\ main = "links" => at <= Len(config.links) /\ PortsLoaded(at)
  /\ Loadable /\ main \in {"consoles"} \cup Late => PortsLoaded(Len(config.links))
  /\ Single(g_port_list)

LEMMA ListInit == Init => NodeInv /\ PortInv
BY DEF Init, NodeInv, PortInv, Late, Single

LEMMA NodeStep ==
  TypeOK /\ Loading /\ NodeInv /\ [NetInitNext]_vars => NodeInv'
<1> SUFFICES ASSUME TypeOK, Loading, NodeInv, [NetInitNext]_vars PROVE NodeInv'
  OBVIOUS
<1>t. at \in Nat /\ g_node_list \in Seq(NodeLine)
  BY DEF TypeOK
<1>l. config' = config => Loadable' = Loadable
  BY DEF Loadable
<1>1. CASE LoadFails \/ LoadRefused \/ Load
  <2>1. g_node_list' = <<>> /\ main' \in {"fork", "exited", "nodes"} /\ at' = 0
        /\ config' = config /\ (main' = "fork" => ~Loadable) /\ (main' = "nodes" => Loadable)
    BY <1>1 DEF LoadFails, LoadRefused, Load, Goto, lists, NodeInv
  <2>2. main' = "nodes" => Len(config.nodes) \in Nat
    BY <2>1, ConfigType
  <2>q. QED
    BY <1>l, <2>1, <2>2 DEF NodeInv, NodesLoaded, Late
<1>2. CASE Finish("nodes", Len(config.nodes), "links")
  BY <1>2, <1>l DEF Finish, Goto, lists, NodeInv, NodesLoaded, Late
<1>3. CASE \/ Finish("links", Len(config.links), "consoles")
           \/ Finish("consoles", Len(g_node_list), "fork")
           \/ Manage \/ ForkFails \/ Quit
  <2>1. /\ main \in {"links", "consoles"} \cup Late /\ main' \in {"consoles"} \cup Late
        /\ config' = config /\ g_node_list' = g_node_list
    BY <1>3 DEF Finish, Manage, ForkFails, Quit, Goto, lists, Late
  <2>q. QED
    BY <1>l, <2>1 DEF NodeInv, NodesLoaded, Late
<1>4. CASE create_node_list
  <2>1. config.nodes \in Seq(NodeLine)
    BY <1>4, ConfigType DEF create_node_list, Iterate, Loading
  <2> DEFINE x == config.nodes[at + 1]
  <2>2. /\ at + 1 <= Len(config.nodes) /\ x \in NodeLine /\ NodesLoaded(at)
        /\ main' = "nodes" /\ at' = at + 1 /\ config' = config
        /\ g_node_list' = <<x>> \o g_node_list
    BY <1>4, <1>t, <2>1 DEF create_node_list, Iterate, NodeInv
  <2>3. /\ Len(g_node_list') = at + 1 /\ g_node_list'[1] = x
        /\ \A j \in 2 .. at + 1 : g_node_list'[j] = g_node_list[j - 1]
    BY <1>t, <2>2 DEF NodesLoaded
  <2>4. ASSUME NEW j \in 1 .. at + 1
        PROVE  g_node_list'[j] = config.nodes[at + 1 + 1 - j]
    <3>1. CASE j = 1
      BY <1>t, <2>3, <3>1
    <3>2. CASE j # 1
      <4>1. j \in 2 .. at + 1 /\ j - 1 \in 1 .. at /\ at + 1 - (j - 1) = at + 1 + 1 - j
        BY <1>t, <3>2
      <4>q. QED
        BY <2>2, <2>3, <4>1 DEF NodesLoaded
    <3>q. QED
      BY <3>1, <3>2
  <2>q. QED
    BY <2>2, <2>3, <2>4 DEF NodeInv, NodesLoaded, Late
<1>5. CASE \/ create_port_list \/ create_man_ports \/ Fork
           \/ \E c \in 1 .. Len(child) : TakePort(c)
           \/ UNCHANGED vars
  <2>1. /\ main' = main /\ config' = config /\ g_node_list' = g_node_list
        /\ (main = "nodes" => at' = at)
    BY <1>5 DEF create_port_list, create_man_ports, Fork, TakePort, Iterate, lists, vars
  <2>q. QED
    BY <1>l, <2>1 DEF NodeInv, NodesLoaded, Late
<1>q. QED
  BY <1>1, <1>2, <1>3, <1>4, <1>5 DEF NetInitNext, MainStep

LEMMA PortListStep ==
  TypeOK /\ Loading /\ PortInv /\ [NetInitNext]_vars => PortInv'
<1> SUFFICES ASSUME TypeOK, Loading, PortInv, [NetInitNext]_vars PROVE PortInv'
  OBVIOUS
<1>t. at \in Nat /\ g_port_list \in Seq(NetPort)
  BY DEF TypeOK
<1>l. config' = config => Loadable' = Loadable /\ \A i : LinkPorts(i)' = LinkPorts(i)
  BY DEF Loadable, LinkPorts
<1>p. config' = config =>
        \A n : PortsLoaded(n)' <=> Items(g_port_list') = UNION {Items(LinkPorts(i)) : i \in 1 .. n}
  BY <1>l DEF PortsLoaded
<1>s. g_port_list' = g_port_list => Single(g_port_list)'
  BY DEF PortInv, Single
<1>1. CASE LoadFails \/ LoadRefused \/ Load
  <2>1. /\ main' \in {"fork", "exited", "nodes"} /\ config' = config
        /\ g_port_list' = g_port_list /\ g_port_list = <<>> /\ (main' = "fork" => ~Loadable)
    BY <1>1 DEF LoadFails, LoadRefused, Load, Goto, lists, PortInv
  <2>q. QED
    BY <1>l, <1>s, <2>1 DEF PortInv, Late
<1>2. CASE Finish("nodes", Len(config.nodes), "links")
  <2>1. /\ main' = "links" /\ at' = 0 /\ config' = config /\ g_port_list' = g_port_list
        /\ g_port_list = <<>> /\ Loadable
    BY <1>2 DEF Finish, Goto, lists, PortInv, Loading
  <2>2. Len(config.links) \in Nat
    BY <2>1, ConfigType
  <2>3. Items(g_port_list) = {} /\ 1 .. 0 = {}
    BY <2>1 DEF Items
  <2>4. PortsLoaded(0)'
    BY <2>1, <2>3 DEF PortsLoaded
  <2>q. QED
    BY <1>s, <2>1, <2>2, <2>4 DEF PortInv, Late
<1>3. CASE Finish("links", Len(config.links), "consoles")
  <2>1. /\ main' = "consoles" /\ config' = config /\ g_port_list' = g_port_list
        /\ PortsLoaded(Len(config.links))
    BY <1>3 DEF Finish, Goto, lists, PortInv
  <2>2. PortsLoaded(Len(config.links))'
    BY <1>p, <2>1 DEF PortsLoaded
  <2>q. QED
    BY <1>s, <2>1, <2>2 DEF PortInv, Late
<1>4. CASE \/ Finish("consoles", Len(g_node_list), "fork")
           \/ Manage \/ ForkFails \/ Quit
  <2>1. /\ main \in {"consoles"} \cup Late /\ main' \in Late
        /\ config' = config /\ g_port_list' = g_port_list
    BY <1>4 DEF Finish, Manage, ForkFails, Quit, Goto, lists, Late
  <2>2. Loadable => PortsLoaded(Len(config.links))'
    BY <1>p, <2>1 DEF PortsLoaded, PortInv
  <2>q. QED
    BY <1>l, <1>s, <2>1, <2>2 DEF PortInv, Late
<1>5. CASE create_port_list
  <2> DEFINE new == LinkPorts(at + 1)
  <2>1. /\ config.links \in Seq(LinkLine) /\ main = "links" /\ main' = "links"
        /\ at' = at + 1 /\ at < Len(config.links) /\ config' = config
        /\ g_port_list' = new \o g_port_list /\ PortsLoaded(at)
    BY <1>5, ConfigType DEF create_port_list, Iterate, Loading, PortInv
  <2>2. at + 1 \in 1 .. Len(config.links) /\ at + 1 <= Len(config.links)
    BY <1>t, <2>1
  <2>3. /\ new \in Seq(NetPort) /\ Single(new)
        /\ \A q \in Items(new) : q.type = "PIPE" => q.send[1] = at + 1
    <3>1. \A q \in Items(new) : q.type = "PIPE" => q \in {Near(at + 1), Far(at + 1)}
      BY <2>1, <2>2, LinkEnds
    <3>2. Near(at + 1).send[1] = at + 1 /\ Far(at + 1).send[1] = at + 1
      BY DEF Near, Far
    <3>q. QED
      BY <2>1, <2>2, <3>1, <3>2, LinkEnds
  <2>4. \A q \in Items(g_port_list) : q.type = "PIPE" => q.send[1] \in 1 .. at
    <3> SUFFICES ASSUME NEW q \in Items(g_port_list), q.type = "PIPE"
                 PROVE  q.send[1] \in 1 .. at
      OBVIOUS
    <3>1. PICK i \in 1 .. at : q \in Items(LinkPorts(i))
      BY <2>1 DEF PortsLoaded
    <3>2. i \in 1 .. Len(config.links)
      BY <1>t, <2>1
    <3>3. q \in {Near(i), Far(i)}
      BY <2>1, <3>1, <3>2, LinkEnds
    <3>4. Near(i).send[1] = i /\ Far(i).send[1] = i
      BY DEF Near, Far
    <3>q. QED
      BY <3>3, <3>4
  <2> HIDE DEF new
  <2>5. \A q \in Items(new) \cap Items(g_port_list) : q.type # "PIPE"
    <3>1. at + 1 \notin 1 .. at
      BY <1>t
    <3>q. QED
      BY <2>3, <2>4, <3>1
  <2>6. Single(new \o g_port_list)
    BY <1>t, <2>3, <2>5, ConcatSingle DEF PortInv
  <2>7. Items(new \o g_port_list) = Items(new) \cup Items(g_port_list)
    BY <1>t, <2>3, ConcatItems
  <2>8. Items(new \o g_port_list) = UNION {Items(LinkPorts(i)) : i \in 1 .. at + 1}
    <3>1. 1 .. at + 1 = (1 .. at) \cup {at + 1}
      BY <1>t
    <3>q. QED
      BY <2>1, <2>7, <3>1 DEF PortsLoaded, new
  <2>9. PortsLoaded(at)'
    <3>1. Items(g_port_list') = UNION {Items(LinkPorts(i)) : i \in 1 .. at'}
      BY <2>1, <2>8
    <3>q. QED
      BY <1>p, <2>1, <3>1
  <2>10. Single(g_port_list)'
    BY <2>1, <2>6 DEF Single
  <2>q. QED
    BY <2>1, <2>2, <2>9, <2>10 DEF PortInv, Late
<1>6. CASE \/ create_node_list \/ create_man_ports \/ Fork
           \/ \E c \in 1 .. Len(child) : TakePort(c)
           \/ UNCHANGED vars
  <2>1. /\ main' = main /\ config' = config /\ g_port_list' = g_port_list
        /\ (main = "links" => at' = at)
    BY <1>6 DEF create_node_list, create_man_ports, Fork, TakePort, Iterate, lists, vars
  <2>2. \A n : PortsLoaded(n) => PortsLoaded(n)'
    BY <1>p, <2>1 DEF PortsLoaded
  <2>q. QED
    BY <1>l, <1>s, <2>1, <2>2 DEF PortInv, Late
<1>q. QED
  BY <1>1, <1>2, <1>3, <1>4, <1>5, <1>6 DEF NetInitNext, MainStep

--------------------------------------------------------------------------------
(* The node processes.                                                          *)

\* Process k of this node has taken ports of this node only, has not lost one,
\* and will not take one twice.
Shared(k, node, all) ==
  /\ k.node = node
  /\ Items(k.ports) \subseteq {p \in Items(all) : p.host = node.id}
  /\ Items(k.unseen) \subseteq Items(all)
  /\ {p \in Items(all) : p.host = node.id} \subseteq Items(k.ports) \cup Items(k.unseen)
  /\ Single(k.ports) /\ Single(k.unseen)
  /\ \A p \in Items(k.ports) \cap Items(k.unseen) : p.type # "PIPE"

ShareInv ==
  /\ main \notin Late => child = <<>>
  /\ main = "fork" => Len(child) = at
  /\ Len(child) <= Len(g_node_list)
  /\ \A c \in 1 .. Len(child) : Shared(child[c], g_node_list[c], g_port_list)

LEMMA ShareInit == Init => ShareInv
BY DEF Init, ShareInv, Late

\* A step of net_get_port_list keeps what the process has and has to see.
LEMMA ShareTaken ==
  ASSUME NEW k \in NodeProcess, NEW l \in NodeProcess, NEW node, NEW all,
         Shared(k, node, all), k.unseen # <<>>,
         l.node = k.node, l.unseen = Tail(k.unseen),
         l.ports = IF Head(k.unseen).host = k.node.id THEN <<Head(k.unseen)>> \o k.ports
                                                      ELSE k.ports
  PROVE  Shared(l, node, all)
<1> DEFINE p == Head(k.unseen)
<1>1. k.unseen \in Seq(NetPort) /\ k.ports \in Seq(NetPort)
  BY DEF NodeProcess
<1>2. /\ p \in NetPort /\ Items(k.unseen) = {p} \cup Items(l.unseen)
      /\ Single(l.unseen) /\ (p.type = "PIPE" => p \notin Items(l.unseen))
  BY <1>1, FirstAndRest DEF Shared
<1>3. k.node = node
  BY DEF Shared
<1> HIDE DEF p
<1>4. CASE p.host = node.id
  <2>1. l.ports = <<p>> \o k.ports
    BY <1>3, <1>4 DEF p
  <2>2. <<p>> \in Seq(NetPort) /\ Items(<<p>>) = {p} /\ Single(<<p>>)
    BY <1>2, Singleton
  <2>3. Items(l.ports) = {p} \cup Items(k.ports)
    <3>1. \A q \in Seq(NetPort) : Items(q \o k.ports) = Items(q) \cup Items(k.ports)
      BY <1>1, ConcatItems
    <3>q. QED
      BY <2>1, <2>2, <3>1
  <2>4. p \in Items(k.ports) => p.type # "PIPE"
    BY <1>2 DEF Shared
  <2>5. Single(l.ports)
    <3>1. \A x \in Items(<<p>>) \cap Items(k.ports) : x.type # "PIPE"
      BY <2>2, <2>4
    <3>q. QED
      BY <1>1, <2>1, <2>2, <3>1, ConcatSingle DEF Shared
  <2>6. \A x \in Items(l.ports) \cap Items(l.unseen) : x.type # "PIPE"
    BY <1>2, <2>3 DEF Shared
  <2>q. QED
    BY <1>2, <1>3, <1>4, <2>3, <2>5, <2>6 DEF Shared
<1>5. CASE p.host # node.id
  <2>1. l.ports = k.ports
    BY <1>3, <1>5 DEF p
  <2>2. \A x \in Items(l.ports) \cap Items(l.unseen) : x.type # "PIPE"
    BY <1>2, <2>1 DEF Shared
  <2>q. QED
    BY <1>2, <1>3, <1>5, <2>1, <2>2 DEF Shared
<1>q. QED
  BY <1>4, <1>5

LEMMA ShareStep ==
  TypeOK /\ PortInv /\ ShareInv /\ [NetInitNext]_vars => ShareInv'
<1> SUFFICES ASSUME TypeOK, PortInv, ShareInv, [NetInitNext]_vars PROVE ShareInv'
  OBVIOUS
<1>t. /\ at \in Nat /\ child \in Seq(NodeProcess)
      /\ g_node_list \in Seq(NodeLine) /\ g_port_list \in Seq(NetPort)
  BY DEF TypeOK, NodeProcess
<1>1. CASE \/ LoadFails \/ LoadRefused \/ Load
           \/ \E n : Finish("nodes", n, "links") \/ Finish("links", n, "consoles")
                     \/ Finish("consoles", n, "fork")
           \/ create_node_list \/ create_port_list \/ create_man_ports
  <2>1. main \notin Late /\ child' = child /\ (main' = "fork" => at' = 0)
    BY <1>1 DEF LoadFails, LoadRefused, Load, Finish, Goto, create_node_list,
                create_port_list, create_man_ports, Iterate, Late
  <2>2. child' = <<>> /\ Len(child') = 0
    BY <2>1 DEF ShareInv
  <2>3. Len(g_node_list') >= 0
    BY <1>1, <1>t DEF LoadFails, LoadRefused, Load, Finish, Goto, lists, create_node_list,
                create_port_list, create_man_ports, Iterate
  <2>q. QED
    BY <2>1, <2>2, <2>3 DEF ShareInv
<1>2. CASE Manage \/ ForkFails \/ UNCHANGED vars
  <2>1. /\ main \in Late => main' \in Late
        /\ main \notin Late => main' \notin Late
        /\ (main' = "fork" => at' = at /\ main = "fork")
        /\ child' = child /\ g_node_list' = g_node_list /\ g_port_list' = g_port_list
    BY <1>2 DEF Manage, ForkFails, Goto, lists, vars, Late
  <2>q. QED
    BY <2>1 DEF ShareInv
<1>3. CASE Quit
  <2>1. /\ main' = "quit" /\ child' = <<>> /\ Len(child') = 0 /\ g_node_list' = g_node_list
    BY <1>3 DEF Quit, Goto, lists
  <2>q. QED
    BY <1>t, <2>1 DEF ShareInv
<1>4. CASE Fork
  <2> DEFINE new == [node |-> g_node_list[at + 1], unseen |-> g_port_list, ports |-> <<>>]
  <2>1. /\ main = "fork" /\ main' = main /\ at' = at + 1 /\ at < Len(g_node_list)
        /\ g_node_list' = g_node_list /\ g_port_list' = g_port_list
        /\ child' = Append(child, new) /\ Len(child) = at
    BY <1>4 DEF Fork, Iterate, lists, ShareInv
  <2>2. Shared(new, g_node_list[at + 1], g_port_list)
    <3>1. Items(<<>>) = {} /\ Single(<<>>)
      BY DEF Items, Single
    <3>q. QED
      BY <3>1 DEF Shared, PortInv
  <2> HIDE DEF new
  <2>3. /\ Len(child') = at + 1 /\ child'[at + 1] = new
        /\ \A c \in 1 .. at : child'[c] = child[c]
    BY <1>t, <2>1
  <2>4. 1 .. at + 1 = (1 .. at) \cup {at + 1}
    BY <1>t
  <2>5. \A c \in 1 .. at + 1 : Shared(child'[c], g_node_list[c], g_port_list)
    BY <2>1, <2>2, <2>3, <2>4 DEF ShareInv
  <2>q. QED
    BY <1>t, <2>1, <2>3, <2>5 DEF ShareInv, Late
<1>5. ASSUME NEW c \in 1 .. Len(child), TakePort(c) PROVE ShareInv'
  <2>1. /\ child[c] \in NodeProcess /\ child[c].unseen # <<>>
        /\ child' \in Seq(NodeProcess) /\ Len(child') = Len(child)
        /\ \A d \in 1 .. Len(child) : d # c => child'[d] = child[d]
        /\ child'[c].node = child[c].node
        /\ child'[c].unseen = Tail(child[c].unseen)
        /\ child'[c].ports = IF Head(child[c].unseen).host = child[c].node.id
                               THEN <<Head(child[c].unseen)>> \o child[c].ports
                               ELSE child[c].ports
    BY <1>5, <1>t, TakenPort
  <2>2. Shared(child'[c], g_node_list[c], g_port_list)
    <3>1. child'[c] \in NodeProcess
      BY <2>1
    <3>2. PICK k, l : k = child[c] /\ l = child'[c]
      OBVIOUS
    <3>3. Shared(k, g_node_list[c], g_port_list)
      BY <3>2 DEF ShareInv
    <3>4. Shared(l, g_node_list[c], g_port_list)
      BY <2>1, <3>1, <3>2, <3>3, ShareTaken
    <3>q. QED
      BY <3>2, <3>4
  <2>3. /\ main' = main /\ at' = at /\ g_node_list' = g_node_list /\ g_port_list' = g_port_list
        /\ child # <<>>
    BY <1>5, <1>t DEF TakePort, lists
  <2>4. \A d \in 1 .. Len(child) : Shared(child'[d], g_node_list[d], g_port_list)
    BY <2>1, <2>2 DEF ShareInv
  <2>q. QED
    BY <2>1, <2>3, <2>4 DEF ShareInv
<1>q. QED
  BY <1>1, <1>2, <1>3, <1>4, <1>5 DEF NetInitNext, MainStep

--------------------------------------------------------------------------------
(* The pairing.                                                                 *)

IInv == TypeOK /\ Loading /\ NodeInv /\ PortInv /\ ShareInv

\* In a network that is up, the two ends of a pipe link are ports of its two
\* nodes, and every pipe port is one of these.
LEMMA EndsOfLinks ==
  ASSUME IInv, WellFormed, Up
  PROVE  /\ config.links \in Seq(LinkLine)
         /\ \A e \in End : \E i \in 1 .. Len(config.links) :
              /\ config.links[i].type = "PIPE" /\ PortAt(e) \in {Near(i), Far(i)}
         /\ \A i \in 1 .. Len(config.links) : config.links[i].type = "PIPE" =>
              \A p \in {Near(i), Far(i)} : \E e \in End : PortAt(e) = p
         /\ \A e \in End : IdAt(e) = PortAt(e).host
         /\ \A e, f \in End : PortAt(e) = PortAt(f) => e = f
<1>1. /\ Loadable /\ main \in Late /\ config.nodes \in Seq(NodeLine)
      /\ config.links \in Seq(LinkLine) /\ child \in Seq(NodeProcess)
  <2>1. /\ Loadable /\ config.nodes # <<>> /\ child \in Seq(NodeProcess)
        /\ Len(child) = Len(config.nodes)
    BY DEF IInv, WellFormed, Loadable, Up, TypeOK, NodeProcess
  <2>2. config.nodes \in Seq(NodeLine) /\ config.links \in Seq(LinkLine)
    BY <2>1, ConfigType DEF IInv
  <2>3. child # <<>>
    BY <2>1, <2>2
  <2>q. QED
    BY <2>1, <2>2, <2>3 DEF IInv, ShareInv
<1>2. /\ NodesLoaded(Len(config.nodes)) /\ PortsLoaded(Len(config.links))
      /\ Len(child) = Len(config.nodes) /\ Len(config.nodes) \in Nat
      /\ \A c \in 1 .. Len(child) : Ready(c) /\ Shared(child[c], g_node_list[c], g_port_list)
  BY <1>1 DEF IInv, NodeInv, PortInv, ShareInv, Up
\* What a process has is what its node has.
<1>3. ASSUME NEW c \in 1 .. Len(child)
      PROVE  /\ child[c].node = g_node_list[c]
             /\ Items(child[c].ports) =
                  {p \in Items(g_port_list) : p.host = child[c].node.id}
             /\ Single(child[c].ports)
  <2>1. Items(child[c].unseen) = {}
    BY <1>2 DEF Ready, Items
  <2>q. QED
    BY <1>2, <2>1 DEF Shared
<1>4. /\ \A c, d \in 1 .. Len(child) : child[c].node.id = child[d].node.id => c = d
      /\ \A x \in NodeIds : \E c \in 1 .. Len(child) : child[c].node.id = x
  <2> DEFINE n == Len(config.nodes)
  <2>1. \A c \in 1 .. n : child[c].node = config.nodes[n + 1 - c] /\ n + 1 - c \in 1 .. n
    BY <1>2, <1>3 DEF NodesLoaded
  <2>2. \A i \in 1 .. n : n + 1 - i \in 1 .. n /\ n + 1 - (n + 1 - i) = i
    BY <1>2
  <2>3. ASSUME NEW c \in 1 .. n, NEW d \in 1 .. n, child[c].node.id = child[d].node.id
        PROVE  c = d
    <3>1. n + 1 - c = n + 1 - d
      BY <2>1, <2>3 DEF WellFormed
    <3>q. QED
      BY <1>2, <3>1
  <2>4. ASSUME NEW x \in NodeIds
        PROVE  \E c \in 1 .. n : child[c].node.id = x
    <3>1. PICK i \in 1 .. n : x = config.nodes[i].id
      BY DEF NodeIds
    <3>q. QED
      BY <2>1, <2>2, <3>1
  <2>q. QED
    BY <1>2, <2>3, <2>4
<1>5. \A e \in End : /\ e = <<e[1], e[2]>> /\ e[1] \in 1 .. Len(child)
                    /\ e[2] \in 1 .. Len(child[e[1]].ports)
                    /\ PortAt(e) \in Items(child[e[1]].ports)
                    /\ PortAt(e).type = "PIPE"
  BY DEF End, PortAt, Items
<1>6. \A e \in End : PortAt(e) \in Items(g_port_list) /\ IdAt(e) = PortAt(e).host
  BY <1>3, <1>5 DEF IdAt
<1>7. ASSUME NEW e \in End
      PROVE  \E i \in 1 .. Len(config.links) :
                config.links[i].type = "PIPE" /\ PortAt(e) \in {Near(i), Far(i)}
  <2>1. PICK i \in 1 .. Len(config.links) : PortAt(e) \in Items(LinkPorts(i))
    BY <1>2, <1>6 DEF PortsLoaded
  <2>q. QED
    BY <1>1, <1>5, <2>1, LinkEnds
<1>8. ASSUME NEW i \in 1 .. Len(config.links), config.links[i].type = "PIPE",
             NEW p \in {Near(i), Far(i)}
      PROVE  \E e \in End : PortAt(e) = p
  <2>1. p \in Items(g_port_list)
    BY <1>1, <1>2, <1>8, LinkEnds DEF PortsLoaded
  <2>2. p.host \in NodeIds /\ p.type = "PIPE"
    BY <1>8 DEF WellFormed, Near, Far
  <2>3. PICK c \in 1 .. Len(child) : child[c].node.id = p.host
    BY <1>4, <2>2
  <2>4. PICK k \in 1 .. Len(child[c].ports) : child[c].ports[k] = p
    BY <1>3, <2>1, <2>3 DEF Items
  <2>5. <<c, k>> \in End /\ PortAt(<<c, k>>) = p
    BY <2>2, <2>4 DEF End, PortAt
  <2>q. QED
    BY <2>5
<1>9. ASSUME NEW e \in End, NEW f \in End, PortAt(e) = PortAt(f) PROVE e = f
  <2>1. e[1] = f[1]
    BY <1>4, <1>5, <1>6, <1>9 DEF IdAt
  <2>2. e[2] = f[2]
    BY <1>3, <1>5, <1>9, <2>1 DEF Single, PortAt
  <2>q. QED
    BY <1>5, <2>1, <2>2
<1>q. QED
  BY <1>1, <1>6, <1>7, <1>8, <1>9

LEMMA Pairing == IInv => PortsPaired
<1> SUFFICES ASSUME IInv, WellFormed, Up
             PROVE  PortsPaired
  BY DEF PortsPaired
<1> DEFINE Pipe(i) == i \in 1 .. Len(config.links) /\ config.links[i].type = "PIPE"
<1>1. /\ \A e \in End : \E i : Pipe(i) /\ PortAt(e) \in {Near(i), Far(i)}
      /\ \A i : Pipe(i) => \A p \in {Near(i), Far(i)} : \E e \in End : PortAt(e) = p
      /\ \A e \in End : IdAt(e) = PortAt(e).host
      /\ \A e, f \in End : PortAt(e) = PortAt(f) => e = f
  BY EndsOfLinks
<1>2. \A i : Pipe(i) => config.links[i].node0 # config.links[i].node1
  BY DEF WellFormed
<1> HIDE DEF Pipe
\* Who reads from a pipe is known by its name.
<1>3. \A i : /\ Near(i).send = <<i, "fd01">> /\ Near(i).recv = <<i, "fd10">>
             /\ Far(i).send = <<i, "fd10">> /\ Far(i).recv = <<i, "fd01">>
             /\ Near(i).host = config.links[i].node0 /\ Far(i).host = config.links[i].node1
  BY DEF Near, Far
<1>4. \A i, j : /\ (Near(j).recv = Near(i).send => FALSE)
                /\ (Far(j).recv = Far(i).send => FALSE)
                /\ (Far(j).recv = Near(i).send => i = j)
                /\ (Near(j).recv = Far(i).send => i = j)
  BY <1>3
<1> HIDE DEF Near, Far
<1>5. ASSUME NEW i, Pipe(i), NEW e \in End, NEW f \in End,
             \/ PortAt(e) = Near(i) /\ PortAt(f) = Far(i)
             \/ PortAt(e) = Far(i) /\ PortAt(f) = Near(i)
      PROVE  /\ Joined(e, f) /\ f[1] # e[1]
             /\ \A g \in End : PortAt(g).recv = PortAt(e).send => g = f
  <2>1. Joined(e, f)
    BY <1>3, <1>5 DEF Joined
  <2>2. IdAt(e) # IdAt(f)
    BY <1>1, <1>2, <1>3, <1>5
  <2>3. f[1] # e[1]
    BY <2>2 DEF IdAt
  <2>4. ASSUME NEW g \in End, PortAt(g).recv = PortAt(e).send PROVE g = f
    <3>1. PICK j : Pipe(j) /\ PortAt(g) \in {Near(j), Far(j)}
      BY <1>1
    <3>2. PortAt(g) = PortAt(f)
      BY <1>4, <1>5, <2>4, <3>1
    <3>q. QED
      BY <1>1, <3>2
  <2>q. QED
    BY <2>1, <2>3, <2>4
<1>6. ASSUME NEW e \in End
      PROVE  \E f \in End : /\ Joined(e, f) /\ f[1] # e[1]
                           /\ \A g \in End : PortAt(g).recv = PortAt(e).send => g = f
  <2>1. PICK i : Pipe(i) /\ PortAt(e) \in {Near(i), Far(i)}
    BY <1>1
  <2>2. PICK f \in End : \/ PortAt(e) = Near(i) /\ PortAt(f) = Far(i)
                         \/ PortAt(e) = Far(i) /\ PortAt(f) = Near(i)
    BY <1>1, <2>1
  <2>q. QED
    BY <1>5, <2>1, <2>2
<1>7. ASSUME NEW i \in 1 .. Len(config.links), config.links[i].type = "PIPE"
      PROVE  \E e, f \in End : /\ Joined(e, f)
                              /\ IdAt(e) = config.links[i].node0
                              /\ IdAt(f) = config.links[i].node1
  <2>1. Pipe(i)
    BY <1>7 DEF Pipe
  <2>2. PICK e \in End, f \in End : PortAt(e) = Near(i) /\ PortAt(f) = Far(i)
    BY <1>1, <2>1
  <2>3. Joined(e, f)
    BY <1>5, <2>1, <2>2
  <2>q. QED
    BY <1>1, <1>3, <2>2, <2>3
<1>q. QED
  BY <1>6, <1>7 DEF PortsPaired

\* In every configuration in which ids name one node each and links join two of
\* them, create_port_list and net_get_port_list give each end of a pipe to one
\* process, and the two ends to two.
THEOREM PortsAlwaysPaired == Spec => []PortsPaired
<1>1. Init => IInv
  BY TypeInit, ListInit, ShareInit DEF IInv
<1>2. IInv /\ [NetInitNext]_vars => IInv'
  BY TypeStep, NodeStep, PortListStep, ShareStep DEF IInv
<1>q. QED
  BY <1>1, <1>2, Pairing, PTL DEF Spec
================================================================================
