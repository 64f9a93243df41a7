----------------------------- MODULE MCSwitchLine -----------------------------
(***************************************************************************)
(* Two switches in a line with one host at each end, the backbone of       *)
(* test1.config: host 0 - switch 2 - switch 3 - host 1.                    *)
(***************************************************************************)
EXTENDS SwitchNet

LineSwitch == {2, 3}
LineLeaf == {0, 1}
LinePorts == [n \in LineSwitch \cup LineLeaf |-> IF n \in LineSwitch THEN 2 ELSE 1]

LineLinks ==
  {<<<<0, 0>>, <<2, 0>>>>, <<<<2, 1>>, <<3, 1>>>>, <<<<3, 0>>, <<1, 0>>>>}
LinePeer ==
  [p \in UNION {{l[1], l[2]} : l \in LineLinks} |->
     LET l == CHOOSE m \in LineLinks : p \in {m[1], m[2]}
     IN IF p = l[1] THEN l[2] ELSE l[1]]

\* The network of this instance is one that AtMostOnce is about.
ASSUME LineIsForest == Forest
================================================================================
