----------------------------- MODULE ElectionProofs -----------------------------
(***************************************************************************)
(* What the election promises, for every set of switches and links.        *)
(***************************************************************************)
EXTENDS Election, TLAPS

Promised == TypeOK /\ ParentAhead

LEMMA PromisedInit == ElectionAssumption /\ Init => Promised
BY DEF ElectionAssumption, Init, Promised, TypeOK, ParentAhead, Belief

\* A better belief is better than more, and nothing is better than itself.
LEMMA ImprovesOrder ==
  ASSUME NEW b, NEW c, NEW d,
         b.root \in Nat, b.dist \in Nat, c.root \in Nat, c.dist \in Nat,
         d.root \in Nat, d.dist \in Nat
  PROVE  /\ Improves(b, c) /\ Improves(c, d) => Improves(b, d)
         /\ ~Improves(c, b) /\ Improves(c, d) => Improves(b, d)
         /\ ~Improves(b, b)
BY DEF Improves

\* Something that is no better than b is, one link on, worse than b.
LEMMA LinkCosts ==
  ASSUME NEW b, NEW c \in Belief, b.root \in Nat, b.dist \in Nat,
         c.root \in Nat, ~Improves([c EXCEPT !.dist = @ - 1], b)
  PROVE  Improves(b, c)
<1>1. c.dist \in Nat
  BY DEF Belief
<1>2. [c EXCEPT !.dist = @ - 1].root = c.root /\ [c EXCEPT !.dist = @ - 1].dist = c.dist - 1
  BY DEF Belief
<1>3. ~(c.root < b.root \/ (c.root = b.root /\ c.dist - 1 < b.dist))
  BY <1>2 DEF Improves
<1>q. QED
  BY <1>1, <1>3 DEF Improves

LEMMA PromisedStep ==
  ASSUME ElectionAssumption, Promised, NEW s \in Switch, NEW t \in Adjacent[s], Adopt(s, t)
  PROVE  Promised'
<1>1. /\ t \in Switch /\ None \notin Switch
      /\ belief \in [Switch -> Belief] /\ parent \in [Switch -> Switch \cup {None}]
  BY DEF ElectionAssumption, Promised, TypeOK
<1>2. /\ \A u \in Switch \ {s} : belief'[u] = belief[u] /\ parent'[u] = parent[u]
      /\ parent'[s] = t /\ belief'[s] \in Belief
      /\ belief' \in [Switch -> Belief] /\ parent' \in [Switch -> Switch \cup {None}]
  BY <1>1 DEF Adopt
<1>3. \A u \in Switch : /\ belief[u].root \in Nat /\ belief[u].dist \in Nat
                        /\ belief'[u].root \in Nat /\ belief'[u].dist \in Nat
  BY <1>1, <1>2 DEF ElectionAssumption, Belief
<1>4. Improves(belief'[s], belief[s])
  BY DEF Adopt
<1>5. Improves(belief[t], belief'[s])
  BY <1>1, <1>2, <1>3, LinkCosts DEF Adopt
<1>6. t # s
  BY <1>1, <1>3, <1>4, <1>5, ImprovesOrder
<1>7. ASSUME NEW u \in Switch
      PROVE  IF parent'[u] = None THEN belief'[u] = [root |-> u, dist |-> 0]
             ELSE parent'[u] \in Adjacent[u] /\ Improves(belief'[parent'[u]], belief'[u])
  <2>1. CASE u = s
    BY <1>1, <1>2, <1>5, <1>6, <2>1
  <2>2. CASE u # s /\ parent[u] = None
    BY <1>2, <2>2 DEF Promised, ParentAhead
  <2>3. CASE u # s /\ parent[u] # None
    <3>1. parent[u] \in Switch /\ parent[u] \in Adjacent[u]
          /\ Improves(belief[parent[u]], belief[u])
      BY <1>1, <2>3 DEF Promised, ParentAhead
    <3>2. CASE parent[u] = s
      BY <1>2, <1>3, <1>4, <2>3, <3>1, <3>2, ImprovesOrder
    <3>3. CASE parent[u] # s
      BY <1>2, <2>3, <3>1, <3>3
    <3>q. QED
      BY <3>2, <3>3
  <2>q. QED
    BY <2>1, <2>2, <2>3
<1>q. QED
  BY <1>2, <1>7 DEF Promised, TypeOK, ParentAhead

\* For all switches and links: following the parents never leads back to where
\* one started, however often beliefs change on the way.
THEOREM ParentsAhead == ASSUME ElectionAssumption PROVE Spec => []ParentAhead
<1>1. Init => Promised
  BY PromisedInit
<1>2. Promised /\ [Next]_vars => Promised'
  <2>1. Promised /\ Next => Promised'
    BY PromisedStep DEF Next
  <2>2. Promised /\ UNCHANGED vars => Promised'
    BY DEF Promised, TypeOK, ParentAhead, vars
  <2>q. QED
    BY <2>1, <2>2
<1>q. QED
  BY <1>1, <1>2, PTL DEF Spec, Promised
================================================================================
