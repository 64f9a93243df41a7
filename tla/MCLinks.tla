--------------------------------- MODULE MCLinks ---------------------------------
(***************************************************************************)
(* Small networks that come up and send packets: nodes in a line with a    *)
(* server; two switches with two links; nodes joined by a socket, and by   *)
(* two, with all ends in one program; and files that make no network.      *)
(***************************************************************************)
EXTENDS Links

N(type, id) == [type |-> type, id |-> id]
P(a, b) == [type |-> "PIPE", node0 |-> a, node1 |-> b]
S(a, listen, to) == [type |-> "SOCKET", node0 |-> a, listen |-> listen, to |-> to]

Networks ==
  {[nodes |-> <<N("HOST", 0), N("SWITCH", 1), N("SERVER", 100)>>,
    links |-> <<P(0, 1), P(1, 100)>>],
   [nodes |-> <<N("SWITCH", 1), N("SWITCH", 2)>>, links |-> <<P(1, 2), P(2, 1)>>],
   [nodes |-> <<N("HOST", 1), N("SWITCH", 2)>>,
    links |-> <<S(1, "3502", "3602"), S(2, "3602", "3502")>>],
   [nodes |-> <<N("SWITCH", 1), N("SWITCH", 2)>>,
    links |-> <<S(1, "3502", "3602"), S(2, "3602", "3502"),
                S(2, "3603", "3503"), S(1, "3503", "3603")>>]}

Faulty ==
  {NoConfig, [nodes |-> <<N("HOST", 0)>>, links |-> <<>>],
   [nodes |-> <<N("HOST", 0), N("SERVER", 99)>>, links |-> <<P(0, 99)>>]}

AllConfigs == Networks \cup Faulty
================================================================================
