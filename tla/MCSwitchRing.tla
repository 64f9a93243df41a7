----------------------------- MODULE MCSwitchRing -----------------------------
(***************************************************************************)
(* Three switches in a ring, as switches 3, 4, 5 of test2.config, and no   *)
(* other node: the control plane alone.                                    *)
(***************************************************************************)
EXTENDS SwitchNet

Ring == {2, 3, 4}
RingPorts == [s \in Ring |-> 2]

\* Port 0 leads to the next switch of the ring, port 1 to the previous one.
Next3(s) == IF s = 4 THEN 2 ELSE s + 1
Prev3(s) == IF s = 2 THEN 4 ELSE s - 1
RingPeer ==
  [p \in Ring \X {0, 1} |->
     IF p[2] = 0 THEN <<Next3(p[1]), 1>> ELSE <<Prev3(p[1]), 0>>]
================================================================================
