----------------------------- MODULE MCSwitchPair -----------------------------
(***************************************************************************)
(* Two switches joined by two links, the smallest network with a cycle,    *)
(* and one host on the switch that will not be the root.                   *)
(***************************************************************************)
EXTENDS SwitchNet, TLC

PairPorts == (0 :> 1) @@ (2 :> 2) @@ (3 :> 3)

PairLinks ==
  {<<<<2, 0>>, <<3, 0>>>>, <<<<2, 1>>, <<3, 1>>>>, <<<<0, 0>>, <<3, 2>>>>}
PairPeer ==
  [p \in UNION {{l[1], l[2]} : l \in PairLinks} |->
     LET l == CHOOSE m \in PairLinks : p \in {m[1], m[2]}
     IN IF p = l[1] THEN l[2] ELSE l[1]]
================================================================================
