--------------------------------- MODULE NetInit ---------------------------------
(***************************************************************************)
(* How a network comes up (src/net.c, src/main.c): the main process loads  *)
(* a configuration, makes the pipes of the links and of the consoles, and  *)
(* forks one process per node; each of these picks its own ports out of    *)
(* its copy of the list of all ports.  The main process then becomes the   *)
(* manager.                                                                *)
(*                                                                         *)
(* What the other modules assume - links join ports in pairs, a host's     *)
(* console is connected to that host - is to be shown here.                *)
(***************************************************************************)
EXTENDS Integers, Sequences

CONSTANTS
  Configs,        \* bound: the configuration files, and NoConfig,
  NoConfig        \* a file that cannot be opened

ServerId == 100

NodeLine == [type : {"HOST", "SWITCH", "SERVER"}, id : Nat]

\* A link by a pipe, and one end of a link by a socket with the addresses that
\* the node listens to and sends to.
LinkLine ==
  [type : {"PIPE"}, node0 : Nat, node1 : Nat] \cup
  [type : {"SOCKET"}, node0 : Nat, listen : STRING, to : STRING]

Configuration == [nodes : Seq(NodeLine), links : Seq(LinkLine)]

ASSUME ConfigAssumption == Configs \subseteq Configuration \cup {NoConfig}

\* struct net_port, for a pipe and for a socket.  A pipe is named by its link
\* and by the variable that held its descriptors.
PipeName == (Nat \X {"fd01", "fd10"})
NetPort ==
  [type : {"PIPE"}, host : Nat, send : PipeName, recv : PipeName] \cup
  [type : {"SOCKET"}, host : Nat, send : STRING, recv : STRING]

VARIABLES
  config,         \* the configuration file
  main,           \* what the main process does next
  at,             \* how often its present loop was passed
  g_node_list,    \* from here on, the variables of the code: what was loaded,
  g_port_list,    \* the ports of all nodes,
  g_man_man_port_list, g_man_host_port_list,  \* the hosts with console pipes
  child           \* the node processes: node, ports seen and taken so far

vars == <<config, main, at, g_node_list, g_port_list,
          g_man_man_port_list, g_man_host_port_list, child>>
lists == <<g_node_list, g_port_list, g_man_man_port_list, g_man_host_port_list>>

Init ==
  /\ config \in Configs
  /\ main = "load" /\ at = 0
  /\ g_node_list = <<>> /\ g_port_list = <<>>
  /\ g_man_man_port_list = <<>> /\ g_man_host_port_list = <<>>
  /\ child = <<>>

--------------------------------------------------------------------------------
(* net_init.                                                                    *)

\* The server line has an id of its own.
Accepted(node) == node.type = "SERVER" => node.id = ServerId

Loadable ==
  config # NoConfig /\ config.nodes # <<>> /\ config.links # <<>>

Goto(from, to) == main = from /\ main' = to /\ at' = 0

\* The result of net_init is not looked at: without a network the main process
\* goes on with empty lists.
LoadFails ==
  /\ ~Loadable
  /\ Goto("load", "fork")
  /\ UNCHANGED <<config, lists, child>>

\* A server with another id ends the program.
LoadRefused ==
  /\ Loadable
  /\ \E i \in 1 .. Len(config.nodes) : ~Accepted(config.nodes[i])
  /\ Goto("load", "exited")
  /\ UNCHANGED <<config, lists, child>>

Load ==
  /\ Loadable
  /\ \A i \in 1 .. Len(config.nodes) : Accepted(config.nodes[i])
  /\ Goto("load", "nodes")
  /\ UNCHANGED <<config, lists, child>>

\* One more iteration of the loop in step, over a list of n, or the end of it.
Iterate(step, n) ==
  /\ main = step /\ at < n
  /\ at' = at + 1 /\ main' = main
Finish(step, n, next) ==
  /\ Goto(step, next)
  /\ at = n
  /\ UNCHANGED <<config, lists, child>>

\* A list is built from its front: nodes end up in reverse order.
create_node_list ==
  /\ Iterate("nodes", Len(config.nodes))
  /\ g_node_list' = <<config.nodes[at + 1]>> \o g_node_list
  /\ UNCHANGED <<config, g_port_list, g_man_man_port_list, g_man_host_port_list, child>>

\* Mutated: both ports send on the same pipe.
LinkPortsOneWay(i) ==
  LET link == config.links[i]
      Port(host) == [type |-> "PIPE", host |-> host, send |-> <<i, "fd01">>, recv |-> <<i, "fd01">>]
  IN IF link.type = "PIPE" THEN <<Port(link.node0), Port(link.node1)>>
     ELSE <<[type |-> "SOCKET", host |-> link.node0, send |-> link.to, recv |-> link.listen]>>

\* The ports of the i-th link that are put on the list: both ends of a pipe, the
\* near end of a socket.
LinkPorts(i) ==
  LET link == config.links[i]
      Port(host, send, recv) ==
        [type |-> "PIPE", host |-> host, send |-> <<i, send>>, recv |-> <<i, recv>>]
  IN IF link.type = "PIPE"
       THEN <<Port(link.node0, "fd01", "fd10"), Port(link.node1, "fd10", "fd01")>>
       ELSE <<[type |-> "SOCKET", host |-> link.node0,
               send |-> link.to, recv |-> link.listen]>>

create_port_list ==
  /\ Iterate("links", Len(config.links))
  /\ g_port_list' = LinkPorts(at + 1) \o g_port_list
  /\ UNCHANGED <<config, g_node_list, g_man_man_port_list, g_man_host_port_list, child>>

\* The pipes between the manager and a host have the host's name here.
create_man_ports ==
  LET node == g_node_list[at + 1]
      Push(list) == IF node.type = "HOST" THEN <<node.id>> \o list ELSE list
  IN /\ Iterate("consoles", Len(g_node_list))
     /\ g_man_man_port_list' = Push(g_man_man_port_list)
     /\ g_man_host_port_list' = Push(g_man_host_port_list)
     /\ UNCHANGED <<config, g_node_list, g_port_list, child>>

--------------------------------------------------------------------------------
(* main.                                                                        *)

\* A process for the next node, with its own copies of the lists.
Fork ==
  /\ Iterate("fork", Len(g_node_list))
  /\ child' = Append(child, [node |-> g_node_list[at + 1],
                             unseen |-> g_port_list, ports |-> <<>>])
  /\ UNCHANGED <<config, lists>>

\* The main process ends where it is, and leaves the nodes it has made alone.
ForkFails ==
  /\ main = "fork" /\ at < Len(g_node_list)
  /\ Goto("fork", "failed")
  /\ UNCHANGED <<config, lists, child>>

\* man_main begins with the first host, or with a null pointer.
Manage ==
  /\ Goto("fork", IF g_man_man_port_list = <<>> THEN "crashed" ELSE "manager")
  /\ at = Len(g_node_list)
  /\ UNCHANGED <<config, lists, child>>

\* The user quits: kill(0, SIGKILL) ends the nodes too.
Quit ==
  /\ Goto("manager", "quit")
  /\ child' = <<>>
  /\ UNCHANGED <<config, lists>>

\* Mutated: every port that is passed is taken.
TakePortAny(c) ==
  /\ child[c].unseen # <<>>
  /\ child' = [child EXCEPT ![c].unseen = Tail(@),
                            ![c].ports = <<Head(child[c].unseen)>> \o @]
  /\ UNCHANGED <<config, main, at, lists>>

\* net_get_port_list in node process c: one port is taken, in front, or passed.
TakePort(c) ==
  LET p == Head(child[c].unseen)
  IN /\ child[c].unseen # <<>>
     /\ child' = [child EXCEPT
          ![c].unseen = Tail(@),
          ![c].ports = IF p.host = child[c].node.id THEN <<p>> \o @ ELSE @]
     /\ UNCHANGED <<config, main, at, lists>>

--------------------------------------------------------------------------------
MainStep ==
  \/ LoadFails \/ LoadRefused \/ Load
  \/ create_node_list \/ Finish("nodes", Len(config.nodes), "links")
  \/ create_port_list \/ Finish("links", Len(config.links), "consoles")
  \/ create_man_ports \/ Finish("consoles", Len(g_node_list), "fork")
  \/ Fork \/ Manage

NetInitNext ==
  \/ MainStep \/ ForkFails \/ Quit
  \/ \E c \in 1 .. Len(child) : TakePort(c)

Spec == Init /\ [][NetInitNext]_vars

--------------------------------------------------------------------------------
\* Has node process c taken its ports?
Ready(c) == child[c].unseen = <<>>

NodeIds == {config.nodes[i].id : i \in 1 .. Len(config.nodes)}

\* A configuration as the repository's are: ids name one node each, and a link
\* joins two of them.
WellFormed ==
  /\ Loadable
  /\ \A i, j \in 1 .. Len(config.nodes) :
       config.nodes[i].id = config.nodes[j].id => i = j
  /\ \A i \in 1 .. Len(config.links) :
       LET link == config.links[i]
       IN /\ link.node0 \in NodeIds
          /\ link.type = "PIPE" => link.node1 \in NodeIds \ {link.node0}

\* All nodes run and have their ports.
Up == Len(child) = Len(config.nodes) /\ \A c \in 1 .. Len(child) : Ready(c)

\* The pipe ports of the processes: process, index.
End == {e \in UNION {{c} \X (1 .. Len(child[c].ports)) : c \in 1 .. Len(child)} :
          child[e[1]].ports[e[2]].type = "PIPE"}
PortAt(e) == child[e[1]].ports[e[2]]
IdAt(e) == child[e[1]].node.id

\* What is sent at each of two ends is received at the other.
Joined(e, f) == PortAt(e).send = PortAt(f).recv /\ PortAt(e).recv = PortAt(f).send

\* Every pipe port of a process is joined to one port of another process, and
\* no third port reads from its pipes; and every link of the file has its ends.
\* This is LinkAssumption of SwitchNet.  (The list of all ports is built from
\* its front, copied at each fork, and taken apart by each process while the
\* others are being made.)
PortsPaired ==
  WellFormed /\ Up =>
    /\ \A e \in End : \E f \in End :
         /\ Joined(e, f) /\ f[1] # e[1]
         /\ \A g \in End : PortAt(g).recv = PortAt(e).send => g = f
    /\ \A i \in 1 .. Len(config.links) : config.links[i].type = "PIPE" =>
         \E e, f \in End : /\ Joined(e, f)
                          /\ IdAt(e) = config.links[i].node0
                          /\ IdAt(f) = config.links[i].node1

TypeOK ==
  /\ config \in Configs
  /\ main \in {"load", "nodes", "links", "consoles", "fork",
               "manager", "quit", "crashed", "exited", "failed"}
  /\ at \in Nat
  /\ g_node_list \in Seq(NodeLine) /\ g_port_list \in Seq(NetPort)
  /\ g_man_man_port_list \in Seq(Nat) /\ g_man_host_port_list \in Seq(Nat)
  /\ child \in Seq([node : NodeLine, unseen : Seq(NetPort), ports : Seq(NetPort)])
================================================================================
