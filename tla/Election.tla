-------------------------------- MODULE Election --------------------------------
(***************************************************************************)
(* What the control packets of the switches amount to: an election in      *)
(* which a switch changes what it believes only for something better that  *)
(* an adjacent switch knows, or knew once.  There are no packets, queues   *)
(* or tables here; SwitchNet implements this.                              *)
(*                                                                         *)
(* A belief is a root and the distance to it.  Smaller roots are better,   *)
(* and with the same root, smaller distances.                              *)
(***************************************************************************)
EXTENDS Integers

CONSTANTS
  Switch,
  Adjacent,       \* the switches linked to each switch
  None            \* the parent of a root

\* What is known of the constants.
ElectionAssumption ==
  /\ Switch \subseteq Nat
  /\ Adjacent \in [Switch -> SUBSET Switch]
  /\ None \notin Switch

Belief == [root : Switch, dist : Nat]

Improves(b, c) == b.root < c.root \/ (b.root = c.root /\ b.dist < c.dist)

VARIABLES belief, parent

vars == <<belief, parent>>

Init ==
  /\ belief = [s \in Switch |-> [root |-> s, dist |-> 0]]
  /\ parent = [s \in Switch |-> None]

\* Switch s goes through t: its belief improves, to one link more than something
\* that t knows, or that is no better than what t knows.
Adopt(s, t) ==
  /\ t \in Adjacent[s]
  /\ belief' = [belief EXCEPT ![s] = belief'[s]]
  /\ belief'[s] \in Belief
  /\ Improves(belief'[s], belief[s])
  /\ ~Improves([belief'[s] EXCEPT !.dist = @ - 1], belief[t])
  /\ parent' = [parent EXCEPT ![s] = t]

Next == \E s \in Switch : \E t \in Adjacent[s] : Adopt(s, t)

Spec == Init /\ [][Next]_vars

--------------------------------------------------------------------------------
TypeOK == belief \in [Switch -> Belief] /\ parent \in [Switch -> Switch \cup {None}]

\* A parent always has a better belief than its child: there is no loop of
\* parents, and who has no parent believes in itself.
ParentAhead ==
  \A s \in Switch :
    IF parent[s] = None THEN belief[s] = [root |-> s, dist |-> 0]
    ELSE parent[s] \in Adjacent[s] /\ Improves(belief[parent[s]], belief[s])
================================================================================
