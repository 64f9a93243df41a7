----------------------------- MODULE JobQueueProofs -----------------------------
(***************************************************************************)
(* Theorems about JobQueue, for any number of pieces of memory and of jobs *)
(* and for the nodes whose queue is in order: those that only finish jobs  *)
(* (a switch), and those where malloc returns zeroed memory.               *)
(***************************************************************************)
EXTENDS JobQueue, SequenceTheorems, WellFoundedInduction, TLAPS

\* What a node must be like for its queue to be in order.
Clean(n) == n.clears \/ n.endings \subseteq {"finish"}

CellOrNull == Cell \cup {NULL}

LEMMA ConstantTypes == NumCells \in Nat /\ MaxJobs \in Nat /\ NULL \notin Cell
BY BoundAssumption, NullAssumption

--------------------------------------------------------------------------------
(* The list and the sequence that it stands for.                                *)

(* q is a linked list of the pieces of sequence s.                              *)
ListOf(q, s) ==
  /\ q.occ = Len(s)
  /\ q.head = IF s = <<>> THEN NULL ELSE s[1]
  /\ s # <<>> => q.tail = s[Len(s)]
  /\ \A i \in 1 .. Len(s) : q.next[s[i]] = IF i = Len(s) THEN NULL ELSE s[i + 1]

\* A set of numbers has a smallest member.
LEMMA LeastIn ==
  ASSUME NEW S \in SUBSET Nat, S # {}
  PROVE  \E m \in S : \A i \in S : m <= i
<1>1. PICK m \in S : \A i \in S : ~(<<i, m>> \in OpToRel(<, Nat))
  BY WFMin, NatLessThanWellFounded, Zenon
<1>2. ASSUME NEW i \in S
      PROVE  m <= i
  <2>1. i \in Nat /\ m \in Nat
    OBVIOUS
  <2>2. ~(i < m)
    <3> SUFFICES ASSUME i < m PROVE FALSE
      OBVIOUS
    <3>1. <<i, m>> \in OpToRel(<, Nat)
      BY <2>1, Zenon DEF OpToRel
    <3>q. QED
      BY <1>1, <3>1
  <2>q. QED
    BY <2>1, <2>2
<1>q. QED
  BY <1>2

\* The pieces that are reached from the head.
Reached(s) == [i \in Nat \ {0} |-> IF i <= Len(s) THEN s[i] ELSE NULL]

LEMMA WalkReaches ==
  \A s \in Seq(Cell) : ListOf(list, s) => Walk = Reached(s)
<1> SUFFICES ASSUME NEW s \in Seq(Cell), ListOf(list, s)
             PROVE  Walk = Reached(s)
  OBVIOUS
<1> DEFINE Step(f, i) == IF i = 1 THEN list.head
                         ELSE IF f[i - 1] = NULL THEN NULL ELSE list.next[f[i - 1]]
           IsWalk(f) == f = [i \in Nat \ {0} |-> Step(f, i)]
           r == Reached(s)
<1>1. ASSUME NEW i \in Nat \ {0}
      PROVE  r[i] = Step(r, i)
  <2>1. CASE i = 1
    BY <2>1 DEF Reached, ListOf
  <2>2. CASE i # 1 /\ i <= Len(s) + 1
    <3>1. i - 1 \in 1 .. Len(s) /\ (i - 1) + 1 = i
      BY <2>2
    <3>2. r[i - 1] = s[i - 1] /\ s[i - 1] \in Cell
      BY <3>1 DEF Reached
    <3>3. list.next[s[i - 1]] = IF i - 1 = Len(s) THEN NULL ELSE s[i]
      BY <3>1 DEF ListOf
    <3>4. r[i] = IF i - 1 = Len(s) THEN NULL ELSE s[i]
      BY <2>2 DEF Reached
    <3> HIDE DEF r
    <3>q. QED
      BY <2>2, <3>2, <3>3, <3>4, ConstantTypes
  <2>3. CASE i > Len(s) + 1
    <3>1. i # 1 /\ i - 1 \in Nat \ {0} /\ i - 1 > Len(s) /\ i > Len(s)
      BY <2>3
    <3>2. r[i - 1] = NULL /\ r[i] = NULL
      BY <3>1 DEF Reached
    <3> HIDE DEF r
    <3>q. QED
      BY <3>1, <3>2
  <2>q. QED
    BY <2>1, <2>2, <2>3
<1>2. IsWalk(r)
  BY <1>1 DEF Reached
<1>3. Walk = CHOOSE f : IsWalk(f)
  BY DEF Walk
<1>4. IsWalk(Walk)
  <2> HIDE DEF IsWalk
  <2>q. QED
    BY <1>2, <1>3
<1>5. \A i \in Nat \ {0} : Walk[i] = r[i]
  <2> DEFINE Bad == {i \in Nat \ {0} : Walk[i] # r[i]}
  <2> SUFFICES ASSUME Bad # {} PROVE FALSE
    OBVIOUS
  <2>1. PICK m \in Bad : \A i \in Bad : m <= i
    BY LeastIn
  <2>2. m \in Nat \ {0} /\ Walk[m] # r[m]
    OBVIOUS
  <2>3. Walk[m] = Step(Walk, m)
    BY <1>4, <2>2
  <2>4. m # 1
    BY <1>1, <2>2, <2>3
  <2>5. m - 1 \in Nat \ {0} /\ ~(m <= m - 1)
    BY <2>2, <2>4
  <2>6. Walk[m - 1] = r[m - 1]
    BY <2>1, <2>5
  <2>7. Step(Walk, m) = Step(r, m)
    BY <2>6
  <2>q. QED
    BY <1>1, <2>2, <2>3, <2>7
<1>q. QED
  BY <1>4, <1>5 DEF Reached
--------------------------------------------------------------------------------
(* What adding and removing do to the sequence.                                 *)

ListType == [head : CellOrNull, tail : CellOrNull, occ : Nat, next : [Cell -> CellOrNull]]

In(c, s) == \E i \in 1 .. Len(s) : s[i] = c
Distinct(s) == \A i, j \in 1 .. Len(s) : s[i] = s[j] => i = j

LEMMA AppendPieces ==
  ASSUME NEW s \in Seq(Cell), NEW c \in Cell
  PROVE  /\ Append(s, c) \in Seq(Cell)
         /\ \A d \in Cell : In(d, Append(s, c)) <=> In(d, s) \/ d = c
         /\ Distinct(s) /\ ~In(c, s) => Distinct(Append(s, c))
<1> DEFINE t == Append(s, c)
<1>1. /\ t \in Seq(Cell) /\ Len(t) = Len(s) + 1 /\ Len(s) \in Nat /\ t[Len(s) + 1] = c
      /\ \A i \in 1 .. Len(s) : t[i] = s[i]
  OBVIOUS
<1> HIDE DEF t
<1>2. \A i \in 1 .. Len(t) : i \in 1 .. Len(s) \/ i = Len(s) + 1
  BY <1>1
<1>3. ASSUME NEW d \in Cell
      PROVE  In(d, t) <=> In(d, s) \/ d = c
  BY <1>1, <1>2 DEF In
<1>4. ASSUME Distinct(s), ~In(c, s)
      PROVE  Distinct(t)
  BY <1>1, <1>2, <1>4 DEF Distinct, In
<1>q. QED
  BY <1>1, <1>3, <1>4 DEF t

LEMMA TailPieces ==
  ASSUME NEW s \in Seq(Cell), s # <<>>
  PROVE  /\ Tail(s) \in Seq(Cell) /\ Head(s) \in Cell /\ In(Head(s), s)
         /\ \A d \in Cell : In(d, Tail(s)) => In(d, s)
         /\ Distinct(s) => Distinct(Tail(s)) /\ ~In(Head(s), Tail(s))
<1> DEFINE t == Tail(s)
<1>1. /\ t \in Seq(Cell) /\ Len(t) = Len(s) - 1 /\ Len(s) \in Nat /\ Len(s) >= 1
      /\ \A i \in 1 .. Len(t) : t[i] = s[i + 1]
      /\ Head(s) = s[1] /\ s[1] \in Cell
  OBVIOUS
<1> HIDE DEF t
<1>2. \A i \in 1 .. Len(t) : i + 1 \in 1 .. Len(s) /\ i + 1 # 1
  BY <1>1
<1>3. 1 \in 1 .. Len(s)
  BY <1>1
<1>4. \A d \in Cell : In(d, t) => In(d, s)
  BY <1>1, <1>2 DEF In
<1>5. ASSUME Distinct(s)
      PROVE  Distinct(t) /\ ~In(s[1], t)
  BY <1>1, <1>2, <1>3, <1>5 DEF Distinct, In
<1>q. QED
  BY <1>1, <1>3, <1>4, <1>5 DEF t, In

\* A piece that is not in a queue is put in front of the free ones.
LEMMA FrontPieces ==
  ASSUME NEW s \in Seq(Cell), NEW c \in Cell
  PROVE  /\ <<c>> \o s \in Seq(Cell) /\ Len(<<c>> \o s) = Len(s) + 1
         /\ <<c>> \o s # <<>> /\ Head(<<c>> \o s) = c
         /\ \A d \in Cell : In(d, <<c>> \o s) <=> In(d, s) \/ d = c
         /\ Distinct(s) /\ ~In(c, s) => Distinct(<<c>> \o s)
<1> DEFINE t == <<c>> \o s
<1>1. /\ t \in Seq(Cell) /\ Len(t) = Len(s) + 1 /\ Len(s) \in Nat /\ t[1] = c
      /\ \A i \in 1 .. Len(s) : t[i + 1] = s[i]
      /\ t # <<>> /\ Head(t) = c
  OBVIOUS
<1> HIDE DEF t
<1>2. \A i \in 1 .. Len(t) : i = 1 \/ (i - 1 \in 1 .. Len(s) /\ (i - 1) + 1 = i)
  BY <1>1
<1>3. \A i \in 1 .. Len(t) : i = 1 \/ (i - 1 \in 1 .. Len(s) /\ t[i] = s[i - 1])
  BY <1>1, <1>2
<1>4. 1 \in 1 .. Len(t) /\ \A i \in 1 .. Len(s) : i + 1 \in 1 .. Len(t)
  BY <1>1
<1>5. ASSUME NEW d \in Cell
      PROVE  In(d, t) <=> In(d, s) \/ d = c
  BY <1>1, <1>3, <1>4 DEF In
<1>6. ASSUME Distinct(s), ~In(c, s)
      PROVE  Distinct(t)
  <2> SUFFICES ASSUME NEW i \in 1 .. Len(t), NEW j \in 1 .. Len(t), t[i] = t[j]
               PROVE  i = j
    BY DEF Distinct
  <2>1. CASE i = 1 \/ j = 1
    BY <1>1, <1>3, <1>6, <2>1 DEF In
  <2>2. CASE i # 1 /\ j # 1
    <3>1. i - 1 \in 1 .. Len(s) /\ j - 1 \in 1 .. Len(s) /\ s[i - 1] = s[j - 1]
      BY <1>3, <2>2
    <3>2. i - 1 = j - 1
      BY <1>6, <3>1 DEF Distinct
    <3>q. QED
      BY <3>2
  <2>q. QED
    BY <2>1, <2>2
<1>q. QED
  BY <1>1, <1>5, <1>6 DEF t

\* The piece c is added.  In an empty list its next field must be NULL already.
LEMMA AddList ==
  ASSUME NEW q \in ListType, NEW s \in Seq(Cell), ListOf(q, s), Distinct(s),
         NEW c \in Cell, ~In(c, s), s = <<>> => q.next[c] = NULL
  PROVE  JobAdd(q, c) \in ListType /\ ListOf(JobAdd(q, c), Append(s, c))
<1> DEFINE t == Append(s, c)
           p == JobAdd(q, c)
<1>1. /\ t \in Seq(Cell) /\ Len(t) = Len(s) + 1 /\ Len(s) \in Nat /\ t[Len(s) + 1] = c
      /\ t # <<>> /\ \A i \in 1 .. Len(s) : t[i] = s[i] /\ s[i] \in Cell
  OBVIOUS
<1> USE ConstantTypes
<1>2. CASE s = <<>>
  <2>1. q.head = NULL /\ p = [q EXCEPT !.head = c, !.tail = c, !.occ = 1]
    BY <1>2 DEF ListOf, JobAdd
  <2> HIDE DEF p, t
  <2>a. p.head = c /\ p.tail = c /\ p.occ = 1 /\ p.next = q.next
    BY <2>1 DEF ListType
  <2>b. p \in ListType
    BY <2>1 DEF ListType, CellOrNull
  <2>2. p \in ListType /\ p.head = c /\ p.tail = c /\ p.occ = 1 /\ p.next = q.next
    BY <2>a, <2>b
  <2>3. Len(t) = 1 /\ t[1] = c
    BY <1>1, <1>2
  <2>q. QED
    BY <1>1, <1>2, <2>2, <2>3 DEF ListOf, p, t
<1>3. CASE s # <<>>
  <2>1. Len(s) \in 1 .. Len(s) /\ 1 \in 1 .. Len(s)
    BY <1>1, <1>3
  <2>2. q.head = s[1] /\ q.head # NULL /\ q.tail = s[Len(s)] /\ q.tail \in Cell
        /\ q.occ = Len(s)
    BY <1>1, <1>3, <2>1 DEF ListOf
  <2>3. p = [q EXCEPT !.next = [@ EXCEPT ![q.tail] = c, ![c] = NULL],
                      !.tail = c, !.occ = @ + 1]
    BY <2>2 DEF JobAdd
  <2> HIDE DEF p, t
  <2>a. /\ p.head = q.head /\ p.tail = c /\ p.occ = Len(s) + 1
        /\ p.next = [q.next EXCEPT ![q.tail] = c, ![c] = NULL]
    BY <2>2, <2>3 DEF ListType
  <2>b. p \in ListType
    <3> DEFINE n == [q.next EXCEPT ![q.tail] = c, ![c] = NULL]
    <3>1. n \in [Cell -> CellOrNull]
      BY DEF ListType, CellOrNull
    <3>2. p = [q EXCEPT !.next = n, !.tail = c, !.occ = Len(s) + 1]
      BY <2>2, <2>3
    <3> HIDE DEF n
    <3>3. c \in CellOrNull /\ Len(s) + 1 \in Nat
      BY DEF CellOrNull
    <3>q. QED
      BY <3>1, <3>2, <3>3 DEF ListType
  <2>4. /\ p \in ListType /\ p.head = q.head /\ p.tail = c /\ p.occ = Len(s) + 1
        /\ p.next = [q.next EXCEPT ![q.tail] = c, ![c] = NULL]
    BY <2>a, <2>b
  <2>5. /\ p.next[c] = NULL
        /\ \A d \in Cell \ {c} : p.next[d] = IF d = q.tail THEN c ELSE q.next[d]
    BY <2>2, <2>4 DEF ListType
  <2>6. ASSUME NEW i \in 1 .. Len(t)
        PROVE  p.next[t[i]] = IF i = Len(t) THEN NULL ELSE t[i + 1]
    <3>1. CASE i = Len(t)
      BY <1>1, <2>5, <3>1
    <3>2. CASE i = Len(s)
      <4>1. t[i] = q.tail /\ q.tail # c /\ t[i + 1] = c /\ i # Len(t)
        BY <1>1, <2>1, <2>2, <3>2 DEF In
      <4>q. QED
        BY <2>2, <2>5, <4>1
    <3>3. CASE i < Len(s)
      <4>1. i \in 1 .. Len(s) /\ i + 1 \in 1 .. Len(s) /\ i # Len(s) /\ i # Len(t)
        BY <1>1, <3>3
      <4>2. t[i] = s[i] /\ t[i + 1] = s[i + 1] /\ s[i] \in Cell
        BY <1>1, <4>1
      <4>3. s[i] # c /\ s[i] # q.tail
        BY <2>1, <2>2, <4>1 DEF In, Distinct
      <4>q. QED
        BY <2>5, <4>1, <4>2, <4>3 DEF ListOf
    <3>q. QED
      BY <1>1, <3>1, <3>2, <3>3
  <2>q. QED
    BY <1>1, <2>1, <2>2, <2>4, <2>6 DEF ListOf, p, t
<1>q. QED
  BY <1>2, <1>3

\* The piece at the head is removed.
LEMMA RemoveList ==
  ASSUME NEW q \in ListType, NEW s \in Seq(Cell), ListOf(q, s), s # <<>>
  PROVE  /\ JobRemove(q) \in ListType /\ ListOf(JobRemove(q), Tail(s))
         /\ q.head = Head(s) /\ JobRemove(q).next = q.next
         /\ Tail(s) = <<>> => q.next[Head(s)] = NULL
<1> DEFINE t == Tail(s)
           p == JobRemove(q)
<1>a. t \in Seq(Cell) /\ Len(t) = Len(s) - 1 /\ Len(s) \in Nat /\ Len(s) >= 1
  OBVIOUS
<1>b. Head(s) = s[1] /\ s[1] \in Cell
  OBVIOUS
<1>c. \A i \in 1 .. Len(t) : t[i] = s[i + 1]
  OBVIOUS
<1> HIDE DEF t
<1>d. (t = <<>> <=> Len(s) = 1) /\ \A i \in 1 .. Len(t) : i + 1 \in 1 .. Len(s)
  BY <1>a
<1>1. /\ t \in Seq(Cell) /\ Len(t) = Len(s) - 1 /\ Len(s) \in Nat /\ Len(s) >= 1
      /\ Head(s) = s[1] /\ s[1] \in Cell /\ (t = <<>> <=> Len(s) = 1)
      /\ \A i \in 1 .. Len(t) : t[i] = s[i + 1] /\ i + 1 \in 1 .. Len(s)
  BY <1>a, <1>b, <1>c, <1>d
<1>2. q.head = s[1] /\ q.occ = Len(s) /\ q.tail = s[Len(s)]
  BY <1>1 DEF ListOf
<1>3. q.next[s[1]] = IF Len(s) = 1 THEN NULL ELSE s[2]
  <2>1. 1 \in 1 .. Len(s) /\ 1 + 1 = 2
    BY <1>a
  <2>2. q.next[s[1]] = IF 1 = Len(s) THEN NULL ELSE s[1 + 1]
    BY <2>1 DEF ListOf
  <2>q. QED
    BY <2>2
<1>4. /\ p.head = q.next[s[1]] /\ p.tail = q.tail /\ p.occ = Len(s) - 1 /\ p.next = q.next
      /\ p \in ListType
  <2>1. p = [q EXCEPT !.head = q.next[s[1]], !.occ = @ - 1]
    BY <1>2 DEF JobRemove
  <2>2. q.next[s[1]] \in CellOrNull /\ Len(s) - 1 \in Nat
    BY <1>a, <1>b DEF ListType
  <2> HIDE DEF p
  <2>3. p.head = q.next[s[1]] /\ p.tail = q.tail /\ p.occ = Len(s) - 1 /\ p.next = q.next
    BY <2>1, <1>2 DEF ListType
  <2>4. p \in ListType
    BY <2>1, <2>2, <1>2 DEF ListType
  <2>q. QED
    BY <2>3, <2>4
<1> HIDE DEF p
<1>5. t # <<>> => Len(t) \in 1 .. Len(t) /\ 1 \in 1 .. Len(t)
                  /\ t[1] = s[2] /\ t[Len(t)] = s[Len(s)] /\ Len(s) # 1
  BY <1>1
<1>6. ASSUME NEW i \in 1 .. Len(t)
      PROVE  p.next[t[i]] = IF i = Len(t) THEN NULL ELSE t[i + 1]
  <2>1. q.next[s[i + 1]] = IF i + 1 = Len(s) THEN NULL ELSE s[(i + 1) + 1]
    BY <1>1 DEF ListOf
  <2>2. i = Len(t) <=> i + 1 = Len(s)
    BY <1>1
  <2>3. i # Len(t) => t[i + 1] = s[(i + 1) + 1]
    BY <1>1
  <2>q. QED
    BY <1>1, <1>4, <2>1, <2>2, <2>3
<1>q. QED
  BY <1>1, <1>2, <1>3, <1>4, <1>5, <1>6 DEF ListOf, p, t

\* A job is made and added.
LEMMA MakeList ==
  ASSUME node.clears \in BOOLEAN, NEW q \in ListType, NEW s \in Seq(Cell),
         ListOf(q, s), Distinct(s), NEW c \in Cell, ~In(c, s),
         s = <<>> /\ ~node.clears => q.next[c] = NULL
  PROVE  MakeAndAdd(q, c) \in ListType /\ ListOf(MakeAndAdd(q, c), Append(s, c))
<1> DEFINE f == Fresh(q, c)
<1>1. CASE node.clears
  <2>1. /\ f \in ListType /\ f.head = q.head /\ f.tail = q.tail /\ f.occ = q.occ
        /\ f.next = [q.next EXCEPT ![c] = NULL]
    BY <1>1 DEF Fresh, ListType, CellOrNull
  <2>2. f.next[c] = NULL /\ \A d \in Cell \ {c} : f.next[d] = q.next[d]
    BY <2>1 DEF ListType
  <2> HIDE DEF f
  <2>3. \A i \in 1 .. Len(s) : s[i] \in Cell \ {c}
    BY DEF In
  <2>4. ListOf(f, s)
    BY <2>1, <2>2, <2>3 DEF ListOf
  <2>q. QED
    BY <2>1, <2>2, <2>4, AddList DEF MakeAndAdd, f
<1>2. CASE ~node.clears
  <2>1. f = q
    BY <1>2 DEF Fresh
  <2> HIDE DEF f
  <2>q. QED
    BY <1>2, <2>1, AddList DEF MakeAndAdd, f
<1>q. QED
  BY <1>1, <1>2
--------------------------------------------------------------------------------
(* The invariant.                                                               *)

TypeOK ==
  /\ node \in Nodes
  /\ list \in ListType
  /\ number \in [Cell -> Nat]
  /\ free \in Seq(Cell)
  /\ running \in CellOrNull
  /\ made \in Nat

\* No piece is in two places.
Apart(s) ==
  /\ Distinct(s) /\ Distinct(free)
  /\ \A c \in Cell : ~(In(c, s) /\ In(c, free))
  /\ running # NULL => ~In(running, s) /\ ~In(running, free)

\* No piece is lost.
Complete(s) == Len(free) + Len(s) + (IF running = NULL THEN 0 ELSE 1) = NumCells

\* When the list is empty, the piece that will be added to it first has no next
\* field: it was the last of the list before.
EndsOpen(s) ==
  s = <<>> =>
    /\ running # NULL => list.next[running] = NULL
    /\ running = NULL /\ ~node.clears /\ free # <<>> => list.next[Head(free)] = NULL

\* What is in the list or executed is a job.
Numbered(s) ==
  /\ \A i \in 1 .. Len(s) : number[s[i]] > 0
  /\ running # NULL => number[running] > 0

\* s is the content of the queue.
Holds(s) ==
  /\ ListOf(list, s)
  /\ Apart(s) /\ Complete(s) /\ EndsOpen(s) /\ Numbered(s)

QueueInv == TypeOK /\ Clean(node) /\ \E s \in Seq(Cell) : Holds(s)

\* The jobs that the pieces of s hold.
JobsOf(n, s) == [i \in 1 .. Len(s) |-> n[s[i]]]

LEMMA NodeType ==
  ASSUME TypeOK
  PROVE  node.clears \in BOOLEAN
BY NodesAssumption DEF TypeOK

LEMMA InitHolds ==
  ASSUME Init
  PROVE  TypeOK /\ Holds(<<>>)
<1> USE ConstantTypes
<1>1. free = [c \in 1 .. NumCells |-> c] /\ Len(free) = NumCells /\ free \in Seq(Cell)
  BY DEF Init, Cell
<1>2. list \in ListType /\ ListOf(list, <<>>)
  BY DEF Init, ListType, CellOrNull, ListOf
<1>3. TypeOK
  BY <1>1, <1>2 DEF Init, TypeOK, CellOrNull
<1>4. running = NULL /\ Apart(<<>>) /\ Complete(<<>>) /\ Numbered(<<>>)
  BY <1>1 DEF Init, Apart, Complete, Numbered, Distinct, In
<1>5. EndsOpen(<<>>)
  <2>1. free # <<>> => Head(free) \in Cell
    BY <1>1
  <2>q. QED
    BY <1>4, <2>1 DEF Init, EndsOpen
<1>q. QED
  BY <1>2, <1>3, <1>4, <1>5 DEF Holds

\* A piece is added at the end: what the new content is.
LEMMA JobsOfAppend ==
  ASSUME NEW s \in Seq(Cell), NEW c \in Cell, NEW n \in [Cell -> Nat]
  PROVE  JobsOf(n, Append(s, c)) = Append(JobsOf(n, s), n[c])
<1> DEFINE t == Append(s, c)
           a == [i \in 1 .. Len(t) |-> n[t[i]]]
           b == [i \in 1 .. Len(s) |-> n[s[i]]]
<1>1. /\ Len(t) = Len(s) + 1 /\ Len(s) \in Nat /\ t[Len(s) + 1] = c
      /\ \A i \in 1 .. Len(s) : t[i] = s[i] /\ s[i] \in Cell
  OBVIOUS
<1> HIDE DEF t
<1>2. /\ a \in Seq(Nat) /\ Len(a) = Len(s) + 1
      /\ \A i \in 1 .. Len(s) : a[i] = n[s[i]]
      /\ a[Len(s) + 1] = n[c]
  BY <1>1
<1>3. b \in Seq(Nat) /\ Len(b) = Len(s) /\ \A i \in 1 .. Len(s) : b[i] = n[s[i]]
  BY <1>1
<1> HIDE DEF a, b
<1>4. /\ Append(b, n[c]) \in Seq(Nat) /\ Len(Append(b, n[c])) = Len(s) + 1
      /\ \A i \in 1 .. Len(s) : Append(b, n[c])[i] = b[i]
      /\ Append(b, n[c])[Len(s) + 1] = n[c]
  BY <1>1, <1>3
<1>5. \A i \in 1 .. Len(s) + 1 : a[i] = Append(b, n[c])[i]
  BY <1>1, <1>2, <1>3, <1>4
<1>6. a = Append(b, n[c])
  BY <1>1, <1>2, <1>4, <1>5
<1>q. QED
  BY <1>6 DEF a, b, t, JobsOf
--------------------------------------------------------------------------------
(* The steps: what each does to the content of the queue.                       *)

LEMMA FreeHead ==
  ASSUME TypeOK, NEW s \in Seq(Cell), Apart(s), free # <<>>
  PROVE  /\ Head(free) \in Cell /\ ~In(Head(free), s) /\ Tail(free) \in Seq(Cell)
         /\ Len(Tail(free)) = Len(free) - 1 /\ Distinct(Tail(free))
         /\ Head(free) # running
         /\ ~In(Head(free), Tail(free))
         /\ \A d \in Cell : In(d, Tail(free)) => In(d, free)
<1>1. free \in Seq(Cell)
  BY DEF TypeOK
<1>2. /\ Tail(free) \in Seq(Cell) /\ Head(free) \in Cell /\ In(Head(free), free)
      /\ \A d \in Cell : In(d, Tail(free)) => In(d, free)
      /\ Distinct(Tail(free)) /\ ~In(Head(free), Tail(free))
  BY <1>1, TailPieces DEF Apart
<1>3. Len(Tail(free)) = Len(free) - 1
  BY <1>1
<1>q. QED
  BY <1>2, <1>3, ConstantTypes DEF Apart

\* A job is made in the first free piece and added.
LEMMA GrowStep ==
  ASSUME TypeOK, NEW s \in Seq(Cell), Holds(s), free # <<>>,
         NEW c \in Cell, c = Head(free),
         s = <<>> /\ ~node.clears => list.next[c] = NULL,
         list' = MakeAndAdd(list, c), number' = [number EXCEPT ![c] = made + 1],
         NEW t \in Seq(Cell), t = Append(s, c)
  PROVE  /\ list' \in ListType /\ ListOf(list', t)
         /\ number' \in [Cell -> Nat] /\ \A d \in Cell \ {c} : number'[d] = number[d]
         /\ JobsOf(number', t) = Append(JobsOf(number, s), made + 1)
         /\ \A d \in Cell : In(d, t) <=> In(d, s) \/ d = c
         /\ Distinct(t) /\ Len(t) = Len(s) + 1 /\ t # <<>>
         /\ \A i \in 1 .. Len(t) : number'[t[i]] > 0
<1>1. ~In(c, s) /\ Distinct(s)
  BY FreeHead DEF Holds, Apart
<1>2. list' \in ListType /\ ListOf(list', t)
  BY <1>1, MakeList, NodeType DEF TypeOK, Holds
<1>5. /\ number' \in [Cell -> Nat] /\ number'[c] = made + 1
      /\ \A d \in Cell \ {c} : number'[d] = number[d]
  BY DEF TypeOK
<1>6. JobsOf(number', t) = Append(JobsOf(number, s), made + 1)
  <2>1. JobsOf(number', t) = Append(JobsOf(number', s), number'[c])
    BY <1>5, JobsOfAppend
  <2>2. \A i \in 1 .. Len(s) : s[i] \in Cell \ {c}
    BY <1>1 DEF In
  <2>3. JobsOf(number', s) = JobsOf(number, s)
    BY <1>5, <2>2 DEF JobsOf
  <2>q. QED
    BY <1>5, <2>1, <2>3
<1>7. /\ \A d \in Cell : In(d, t) <=> In(d, s) \/ d = c
      /\ Distinct(t)
  BY <1>1, AppendPieces
<1>8. Len(t) = Len(s) + 1 /\ t # <<>>
  OBVIOUS
<1>9. ASSUME NEW i \in 1 .. Len(t)
      PROVE  number'[t[i]] > 0
  <2>1. CASE t[i] = c
    <3>1. made + 1 > 0
      BY DEF TypeOK
    <3>q. QED
      BY <2>1, <3>1, <1>5
  <2>2. CASE t[i] # c
    <3>1. t[i] \in Cell /\ In(t[i], s)
      BY <1>7, <2>2 DEF In
    <3>2. number'[t[i]] = number[t[i]]
      BY <1>5, <2>2, <3>1
    <3>q. QED
      BY <3>1, <3>2 DEF In, Holds, Numbered
  <2>q. QED
    BY <2>1, <2>2
<1>q. QED
  BY <1>2, <1>5, <1>6, <1>7, <1>8, <1>9

LEMMA AddStep ==
  ASSUME TypeOK, NEW s \in Seq(Cell), Holds(s), Add,
         NEW t \in Seq(Cell), t = Append(s, Head(free))
  PROVE  /\ TypeOK' /\ Holds(t)'
         /\ JobsOf(number', t) = Append(JobsOf(number, s), made + 1)
<1>1. /\ running = NULL /\ running' = NULL /\ free # <<>> /\ node' = node
      /\ list' = MakeAndAdd(list, Head(free)) /\ free' = Tail(free)
      /\ number' = [number EXCEPT ![Head(free)] = made + 1] /\ made' = made + 1
  BY DEF Add
<1>2. PICK c \in Cell : c = Head(free)
  BY <1>1, FreeHead DEF Holds
<1>3. /\ ~In(c, s) /\ Tail(free) \in Seq(Cell)
      /\ Len(Tail(free)) = Len(free) - 1 /\ Distinct(Tail(free))
      /\ ~In(c, Tail(free)) /\ \A d \in Cell : In(d, Tail(free)) => In(d, free)
  BY <1>1, <1>2, FreeHead DEF Holds
<1>4. s = <<>> /\ ~node.clears => list.next[c] = NULL
  BY <1>1, <1>2 DEF Holds, EndsOpen
<1>5. /\ list' = MakeAndAdd(list, c) /\ number' = [number EXCEPT ![c] = made + 1]
      /\ t = Append(s, c)
  BY <1>1, <1>2
<1>6. /\ list' \in ListType /\ ListOf(list', t)
      /\ number' \in [Cell -> Nat] /\ \A d \in Cell \ {c} : number'[d] = number[d]
      /\ JobsOf(number', t) = Append(JobsOf(number, s), made + 1)
      /\ \A d \in Cell : In(d, t) <=> In(d, s) \/ d = c
      /\ Distinct(t) /\ Len(t) = Len(s) + 1 /\ t # <<>>
      /\ \A i \in 1 .. Len(t) : number'[t[i]] > 0
  BY <1>1, <1>2, <1>4, <1>5, GrowStep, ZenonT(30)
<1>7. TypeOK'
  BY <1>1, <1>3, <1>6 DEF TypeOK
<1>8. Apart(t)'
  BY <1>1, <1>3, <1>6 DEF Holds, Apart
<1>9. Complete(t)' /\ EndsOpen(t)' /\ Numbered(t)'
  BY <1>1, <1>3, <1>6, SMTT(20) DEF Holds, Complete, EndsOpen, Numbered, TypeOK
<1>q. QED
  BY <1>6, <1>7, <1>8, <1>9 DEF Holds

LEMMA TakeStep ==
  ASSUME TypeOK, NEW s \in Seq(Cell), Holds(s), Take,
         NEW t \in Seq(Cell), t = Tail(s)
  PROVE  /\ TypeOK' /\ Holds(t)' /\ s # <<>>
         /\ JobsOf(number', t) = Tail(JobsOf(number, s)) /\ number'[running'] = Head(JobsOf(number, s))
<1>1. /\ running = NULL /\ list.occ > 0 /\ running' = list.head /\ list' = JobRemove(list)
      /\ UNCHANGED <<node, number, free, made>>
  BY DEF Take
<1>2. s # <<>> /\ list \in ListType /\ ListOf(list, s)
  BY <1>1 DEF Holds, ListOf, TypeOK
<1>3. /\ list' \in ListType /\ ListOf(list', t) /\ running' = Head(s)
      /\ t = <<>> => list'.next[running'] = NULL
  BY <1>1, <1>2, RemoveList
<1>4. /\ Head(s) \in Cell /\ In(Head(s), s) /\ \A d \in Cell : In(d, t) => In(d, s)
      /\ Distinct(t) /\ ~In(Head(s), t)
  BY <1>2, TailPieces DEF Holds, Apart
<1>5. Len(t) = Len(s) - 1 /\ Len(s) \in Nat /\ Len(s) >= 1 /\ Head(s) = s[1]
      /\ \A i \in 1 .. Len(t) : t[i] = s[i + 1] /\ i + 1 \in 1 .. Len(s)
  BY <1>2
<1>6. TypeOK'
  BY <1>1, <1>3, <1>4 DEF TypeOK, CellOrNull
<1>7. Apart(t)'
  BY <1>1, <1>3, <1>4 DEF Holds, Apart
<1>8. running' # NULL
  BY <1>3, <1>4, ConstantTypes
<1>9. Complete(t)' /\ EndsOpen(t)'
  BY <1>1, <1>3, <1>5, <1>8 DEF Holds, Complete, EndsOpen, TypeOK
<1>10. Numbered(t)'
  BY <1>1, <1>3, <1>5 DEF Holds, Numbered
<1>11. JobsOf(number', t) = Tail(JobsOf(number, s)) /\ number'[running'] = Head(JobsOf(number, s))
  <2> DEFINE b == [i \in 1 .. Len(s) |-> number[s[i]]]
  <2>1. b \in Seq(Nat) /\ Len(b) = Len(s) /\ \A i \in 1 .. Len(s) : b[i] = number[s[i]]
    BY DEF TypeOK
  <2> HIDE DEF b
  <2>2. Len(Tail(b)) = Len(t) /\ Tail(b) \in Seq(Nat) /\ Head(b) = number[s[1]]
        /\ \A i \in 1 .. Len(t) : Tail(b)[i] = number[t[i]]
    BY <1>5, <2>1
  <2> DEFINE u == [i \in 1 .. Len(t) |-> number[t[i]]]
  <2>a. u \in Seq(Nat) /\ Len(u) = Len(t) /\ \A i \in 1 .. Len(t) : u[i] = number[t[i]]
    BY DEF TypeOK
  <2> HIDE DEF u
  <2>b. Tail(b) = u
    <3>1. PICK v \in Seq(Nat) : v = Tail(b)
      BY <2>2
    <3>2. Len(v) = Len(u) /\ \A i \in 1 .. Len(u) : v[i] = u[i]
      BY <2>2, <2>a, <3>1
    <3>3. v = u
      BY <2>a, <3>2, SeqEqual
    <3>q. QED
      BY <3>1, <3>3
  <2>3. Tail(b) = [i \in 1 .. Len(t) |-> number[t[i]]]
    BY <2>b DEF u
  <2>q. QED
    BY <1>1, <1>3, <1>5, <2>2, <2>3 DEF JobsOf, b
<1>q. QED
  BY <1>2, <1>3, <1>6, <1>7, <1>9, <1>10, <1>11 DEF Holds

LEMMA FinishStep ==
  ASSUME TypeOK, NEW s \in Seq(Cell), Holds(s), Finish
  PROVE  TypeOK' /\ Holds(s)' /\ JobsOf(number', s) = JobsOf(number, s)
<1>1. /\ running # NULL /\ free' = <<running>> \o free /\ running' = NULL
      /\ UNCHANGED <<node, list, number, made>>
  BY DEF Finish
<1>2. running \in Cell /\ free \in Seq(Cell) /\ ~In(running, free) /\ ~In(running, s)
      /\ Distinct(free) /\ Len(free) \in Nat
  BY <1>1 DEF TypeOK, CellOrNull, Holds, Apart
<1>3. /\ free' \in Seq(Cell) /\ Len(free') = Len(free) + 1
      /\ free' # <<>> /\ Head(free') = running
      /\ \A d \in Cell : In(d, free') <=> In(d, free) \/ d = running
      /\ Distinct(free')
  BY <1>1, <1>2, FrontPieces
<1>4. TypeOK'
  BY <1>1, <1>3 DEF TypeOK, CellOrNull
<1>5. Apart(s)'
  BY <1>1, <1>2, <1>3 DEF Holds, Apart
<1>6. Complete(s)' /\ EndsOpen(s)'
  BY <1>1, <1>2, <1>3 DEF Holds, Complete, EndsOpen
<1>7. Numbered(s)' /\ ListOf(list', s) /\ JobsOf(number', s) = JobsOf(number, s)
  BY <1>1 DEF Holds, Numbered, JobsOf
<1>q. QED
  BY <1>4, <1>5, <1>6, <1>7 DEF Holds

LEMMA ReplyStep ==
  ASSUME TypeOK, Clean(node), NEW s \in Seq(Cell), Holds(s), Reply,
         NEW t \in Seq(Cell), t = Append(s, Head(free))
  PROVE  /\ TypeOK' /\ Holds(t)'
         /\ JobsOf(number', t) = Append(JobsOf(number, s), made + 1)
<1>1. /\ running # NULL /\ running' = NULL /\ free # <<>> /\ node' = node
      /\ list' = MakeAndAdd(list, Head(free)) /\ free' = <<running>> \o Tail(free)
      /\ number' = [number EXCEPT ![Head(free)] = made + 1] /\ made' = made + 1
      /\ "reply" \in node.endings
  BY DEF Reply
<1>2. PICK c \in Cell : c = Head(free)
  BY <1>1, FreeHead DEF Holds
<1>3. /\ ~In(c, s) /\ Tail(free) \in Seq(Cell)
      /\ Len(Tail(free)) = Len(free) - 1 /\ Distinct(Tail(free))
      /\ ~In(c, Tail(free)) /\ \A d \in Cell : In(d, Tail(free)) => In(d, free)
      /\ c # running
  BY <1>1, <1>2, FreeHead DEF Holds
<1>4. running \in Cell /\ ~In(running, Tail(free)) /\ ~In(running, s)
  BY <1>1, <1>3 DEF TypeOK, CellOrNull, Holds, Apart
<1>5. /\ free' \in Seq(Cell) /\ Len(free') = Len(Tail(free)) + 1
      /\ \A d \in Cell : In(d, free') <=> In(d, Tail(free)) \/ d = running
      /\ Distinct(free')
  BY <1>1, <1>3, <1>4, FrontPieces
<1>6. node.clears
  BY <1>1 DEF Clean
<1>7. /\ list' = MakeAndAdd(list, c) /\ number' = [number EXCEPT ![c] = made + 1]
      /\ t = Append(s, c)
  BY <1>1, <1>2
<1>8. /\ list' \in ListType /\ ListOf(list', t)
      /\ number' \in [Cell -> Nat] /\ \A d \in Cell \ {c} : number'[d] = number[d]
      /\ JobsOf(number', t) = Append(JobsOf(number, s), made + 1)
      /\ \A d \in Cell : In(d, t) <=> In(d, s) \/ d = c
      /\ Distinct(t) /\ Len(t) = Len(s) + 1 /\ t # <<>>
      /\ \A i \in 1 .. Len(t) : number'[t[i]] > 0
  BY <1>1, <1>2, <1>6, <1>7, GrowStep, ZenonT(30)
<1>9. TypeOK'
  BY <1>1, <1>5, <1>8 DEF TypeOK, CellOrNull
<1>10. Apart(t)'
  <2>1. \A d \in Cell : ~(In(d, t) /\ In(d, free'))
    BY <1>3, <1>4, <1>5, <1>8 DEF Holds, Apart
  <2>q. QED
    BY <1>1, <1>5, <1>8, <2>1 DEF Apart
<1>11. Complete(t)' /\ EndsOpen(t)' /\ Numbered(t)'
  <2>1. Len(free) \in Nat
    BY DEF TypeOK
  <2>2. Complete(t)'
    BY <1>1, <1>3, <1>5, <1>8, <2>1 DEF Holds, Complete
  <2>q. QED
    BY <1>1, <1>8, <2>2 DEF EndsOpen, Numbered
<1>q. QED
  BY <1>8, <1>9, <1>10, <1>11 DEF Holds

LEMMA AgainStep ==
  ASSUME TypeOK, NEW s \in Seq(Cell), Holds(s), Again,
         NEW t \in Seq(Cell), t = Append(s, running)
  PROVE  /\ TypeOK' /\ Holds(t)'
         /\ JobsOf(number', t) = Append(JobsOf(number, s), number[running])
<1>1. /\ running # NULL /\ list' = JobAdd(list, running) /\ running' = NULL
      /\ UNCHANGED <<node, number, free, made>>
  BY DEF Again
<1>2. running \in Cell /\ ~In(running, s) /\ ~In(running, free) /\ Distinct(s)
  BY <1>1 DEF TypeOK, CellOrNull, Holds, Apart
<1>3. list' \in ListType /\ ListOf(list', t)
  <2>1. s = <<>> => list.next[running] = NULL
    BY <1>1 DEF Holds, EndsOpen
  <2>q. QED
    BY <1>1, <1>2, <2>1, AddList DEF TypeOK, Holds
<1>4. /\ \A d \in Cell : In(d, t) <=> In(d, s) \/ d = running
      /\ Distinct(t)
  BY <1>2, AppendPieces
<1>5. /\ Len(t) = Len(s) + 1 /\ t # <<>> /\ t[Len(s) + 1] = running
      /\ \A i \in 1 .. Len(s) : t[i] = s[i]
  BY <1>2
<1>6. TypeOK'
  BY <1>1, <1>3 DEF TypeOK, CellOrNull
<1>7. Apart(t)'
  BY <1>1, <1>2, <1>4 DEF Holds, Apart
<1>8. Complete(t)' /\ EndsOpen(t)'
  BY <1>1, <1>5 DEF Holds, Complete, EndsOpen, TypeOK
<1>9. Numbered(t)'
  BY <1>1, <1>5 DEF Holds, Numbered
<1>10. JobsOf(number', t) = Append(JobsOf(number, s), number[running])
  BY <1>1, <1>2, JobsOfAppend DEF TypeOK
<1>q. QED
  BY <1>3, <1>6, <1>7, <1>8, <1>9, <1>10 DEF Holds

LEMMA TwoStep ==
  ASSUME TypeOK, Clean(node), NEW s \in Seq(Cell), Holds(s), Two,
         NEW u \in Seq(Cell), u = Append(s, running),
         NEW t \in Seq(Cell), t = Append(u, Head(free))
  PROVE  /\ TypeOK' /\ Holds(t)'
         /\ JobsOf(number', t) = Append(Append(JobsOf(number, s), made + 1), made + 2)
<1>1. /\ running # NULL /\ running' = NULL /\ free # <<>> /\ node' = node
      /\ list' = MakeAndAdd(MakeAndAdd(list, running), Head(free)) /\ free' = Tail(free)
      /\ number' = [number EXCEPT ![running] = made + 1, ![Head(free)] = made + 2]
      /\ made' = made + 2 /\ "two" \in node.endings
  BY DEF Two
<1>2. PICK c \in Cell : c = Head(free)
  BY <1>1, FreeHead DEF Holds
<1>3. /\ ~In(c, s) /\ Tail(free) \in Seq(Cell)
      /\ Len(Tail(free)) = Len(free) - 1 /\ Distinct(Tail(free))
      /\ ~In(c, Tail(free)) /\ \A d \in Cell : In(d, Tail(free)) => In(d, free)
      /\ c # running
  BY <1>1, <1>2, FreeHead DEF Holds
<1>4. /\ running \in Cell /\ ~In(running, Tail(free)) /\ ~In(running, s)
      /\ Distinct(s) /\ node.clears
  BY <1>1, <1>3 DEF TypeOK, CellOrNull, Holds, Apart, Clean
<1>5. /\ \A d \in Cell : In(d, u) <=> In(d, s) \/ d = running
      /\ Distinct(u)
  BY <1>4, AppendPieces
<1>6. /\ \A d \in Cell : In(d, t) <=> In(d, u) \/ d = c
      /\ Distinct(t) /\ ~In(c, u)
  BY <1>2, <1>3, <1>5, AppendPieces
<1>7. /\ Len(u) = Len(s) + 1 /\ u # <<>> /\ u[Len(s) + 1] = running
      /\ \A i \in 1 .. Len(s) : u[i] = s[i]
  BY <1>4
<1>8. /\ Len(t) = Len(u) + 1 /\ t # <<>> /\ t[Len(u) + 1] = c
      /\ \A i \in 1 .. Len(u) : t[i] = u[i]
  BY <1>2
<1>9. list' \in ListType /\ ListOf(list', t)
  <2>1. PICK l : l = MakeAndAdd(list, running)
    OBVIOUS
  <2>2. l \in ListType /\ ListOf(l, u)
    BY <1>4, <2>1, MakeList, NodeType DEF TypeOK, Holds
  <2>3. MakeAndAdd(l, c) \in ListType /\ ListOf(MakeAndAdd(l, c), t)
    BY <1>2, <1>5, <1>6, <1>7, <2>2, MakeList, NodeType
  <2>q. QED
    BY <1>1, <1>2, <2>1, <2>3
<1>10. /\ number' \in [Cell -> Nat] /\ number'[running] = made + 1 /\ number'[c] = made + 2
       /\ \A d \in Cell \ {c, running} : number'[d] = number[d]
  <2>1. number \in [Cell -> Nat] /\ made + 1 \in Nat /\ made + 2 \in Nat
    BY DEF TypeOK
  <2>2. number' = [number EXCEPT ![running] = made + 1, ![c] = made + 2]
    BY <1>1, <1>2
  <2>q. QED
    BY <1>3, <1>4, <2>1, <2>2
<1>11. JobsOf(number', t) = Append(Append(JobsOf(number, s), made + 1), made + 2)
  <2>1. JobsOf(number', t) = Append(JobsOf(number', u), number'[c])
    BY <1>2, <1>10, JobsOfAppend
  <2>2. JobsOf(number', u) = Append(JobsOf(number', s), number'[running])
    BY <1>4, <1>10, JobsOfAppend
  <2>3. JobsOf(number', s) = JobsOf(number, s)
    <3>1. \A i \in 1 .. Len(s) : s[i] \in Cell \ {c, running}
      BY <1>3, <1>4 DEF In
    <3>q. QED
      BY <1>10, <3>1 DEF JobsOf
  <2>q. QED
    BY <1>10, <2>1, <2>2, <2>3
<1>12. TypeOK'
  BY <1>1, <1>3, <1>9, <1>10 DEF TypeOK, CellOrNull
<1>13. Apart(t)'
  BY <1>1, <1>3, <1>4, <1>5, <1>6 DEF Holds, Apart
<1>14. Complete(t)' /\ EndsOpen(t)'
  BY <1>1, <1>3, <1>7, <1>8, SMTT(20) DEF Holds, Complete, EndsOpen, TypeOK
<1>15. Numbered(t)'
  <2> SUFFICES ASSUME NEW i \in 1 .. Len(t)
               PROVE  number'[t[i]] > 0
    BY <1>1 DEF Numbered
  <2>1. i = Len(u) + 1 \/ i = Len(s) + 1 \/ i \in 1 .. Len(s)
    BY <1>7, <1>8
  <2>2. made + 1 > 0 /\ made + 2 > 0
    BY DEF TypeOK
  <2>3. CASE i = Len(u) + 1
    BY <1>8, <1>10, <2>2, <2>3
  <2>4. CASE i = Len(s) + 1
    BY <1>7, <1>8, <1>10, <2>2, <2>4
  <2>5. CASE i \in 1 .. Len(s)
    <3>1. t[i] = s[i] /\ s[i] \in Cell \ {c, running}
      BY <1>3, <1>4, <1>7, <1>8, <2>5 DEF In
    <3>2. number'[t[i]] = number[s[i]]
      BY <1>10, <3>1
    <3>q. QED
      BY <2>5, <3>2 DEF Holds, Numbered
  <2>q. QED
    BY <2>1, <2>3, <2>4, <2>5
<1>q. QED
  BY <1>9, <1>11, <1>12, <1>13, <1>14, <1>15 DEF Holds
--------------------------------------------------------------------------------
(* The invariant holds, and the list is in order.                               *)

LEMMA QueueInit == Init /\ Clean(node) => QueueInv
<1> SUFFICES ASSUME Init, Clean(node) PROVE QueueInv
  OBVIOUS
<1>1. TypeOK /\ Holds(<<>>) /\ <<>> \in Seq(Cell)
  BY InitHolds
<1>q. QED
  BY <1>1 DEF QueueInv

LEMMA QueueStep == QueueInv /\ [Next]_vars => QueueInv'
<1> SUFFICES ASSUME QueueInv, [Next]_vars PROVE QueueInv'
  OBVIOUS
<1>1. PICK s \in Seq(Cell) : Holds(s)
  BY DEF QueueInv
<1>2. TypeOK /\ Clean(node)
  BY DEF QueueInv
<1>3. free # <<>> => Head(free) \in Cell
  BY <1>1, <1>2, FreeHead DEF Holds
<1>4. running # NULL => running \in Cell
  BY <1>2 DEF TypeOK, CellOrNull
<1>5. node' = node => Clean(node')
  BY <1>2
<1>6. CASE Add
  <2>1. PICK t \in Seq(Cell) : t = Append(s, Head(free))
    BY <1>3, <1>6, AppendPieces DEF Add
  <2>2. TypeOK' /\ Holds(t)'
    BY <1>1, <1>2, <1>6, <2>1, AddStep
  <2>3. node' = node
    BY <1>6 DEF Add
  <2>q. QED
    BY <1>2, <2>2, <2>3 DEF QueueInv
<1>7. CASE Take
  <2>1. s # <<>>
    BY <1>1, <1>7 DEF Take, Holds, ListOf
  <2>2. PICK t \in Seq(Cell) : t = Tail(s)
    BY <2>1, TailPieces
  <2>3. TypeOK' /\ Holds(t)'
    BY <1>1, <1>2, <1>7, <2>2, TakeStep
  <2>4. node' = node
    BY <1>7 DEF Take
  <2>q. QED
    BY <1>2, <2>3, <2>4 DEF QueueInv
<1>8. CASE Finish
  <2>1. TypeOK' /\ Holds(s)' /\ node' = node
    BY <1>1, <1>2, <1>8, FinishStep DEF Finish
  <2>q. QED
    BY <1>2, <2>1 DEF QueueInv
<1>9. CASE Reply
  <2>1. PICK t \in Seq(Cell) : t = Append(s, Head(free))
    BY <1>3, <1>9, AppendPieces DEF Reply
  <2>2. TypeOK' /\ Holds(t)'
    BY <1>1, <1>2, <1>9, <2>1, ReplyStep
  <2>3. node' = node
    BY <1>9 DEF Reply
  <2>q. QED
    BY <1>2, <2>2, <2>3 DEF QueueInv
<1>10. CASE Again
  <2>1. PICK t \in Seq(Cell) : t = Append(s, running)
    BY <1>4, <1>10, AppendPieces DEF Again
  <2>2. TypeOK' /\ Holds(t)'
    BY <1>1, <1>2, <1>10, <2>1, AgainStep
  <2>3. node' = node
    BY <1>10 DEF Again
  <2>q. QED
    BY <1>2, <2>2, <2>3 DEF QueueInv
<1>11. CASE Two
  <2>1. PICK u \in Seq(Cell) : u = Append(s, running)
    BY <1>4, <1>11, AppendPieces DEF Two
  <2>2. PICK t \in Seq(Cell) : t = Append(u, Head(free))
    BY <1>3, <1>11, AppendPieces DEF Two
  <2>3. TypeOK' /\ Holds(t)'
    BY <1>1, <1>2, <1>11, <2>1, <2>2, TwoStep
  <2>4. node' = node
    BY <1>11 DEF Two
  <2>q. QED
    BY <1>2, <2>3, <2>4 DEF QueueInv
<1>12. CASE UNCHANGED vars
  <2>1. TypeOK' /\ Holds(s)' /\ node' = node
    BY <1>1, <1>2, <1>12
       DEF vars, TypeOK, Holds, Apart, Complete, EndsOpen, Numbered
  <2>q. QED
    BY <1>2, <2>1 DEF QueueInv
<1>q. QED
  BY <1>6, <1>7, <1>8, <1>9, <1>10, <1>11, <1>12 DEF Next, Idle

LEMMA QueueAlways == Spec /\ Clean(node) => []QueueInv
BY QueueInit, QueueStep, PTL DEF Spec

LEMMA HoldsListOK ==
  ASSUME TypeOK, NEW s \in Seq(Cell), Holds(s)
  PROVE  ListOK
<1>1. list.occ = Len(s) /\ Len(s) \in Nat /\ Walk = Reached(s) /\ free \in Seq(Cell)
  BY WalkReaches DEF Holds, ListOf, TypeOK
<1>2. /\ \A i \in 1 .. Len(s) : Walk[i] = s[i]
      /\ Walk[Len(s) + 1] = NULL
  BY <1>1 DEF Reached
<1>3. Queued = {s[i] : i \in 1 .. Len(s)}
  BY <1>1, <1>2 DEF Queued
<1>4. Freed \cap Queued = {}
  <2> SUFFICES ASSUME NEW i \in 1 .. Len(s), NEW j \in 1 .. Len(free), s[i] = free[j]
               PROVE  FALSE
    BY <1>3 DEF Freed
  <2>q. QED
    BY DEF Holds, Apart, In
<1>5. running \notin Freed \cup Queued
  <2>1. CASE running = NULL
    BY <1>1, <1>3, <2>1, ConstantTypes DEF Freed
  <2>2. CASE running # NULL
    BY <1>3, <2>2 DEF Freed, Holds, Apart, In
  <2>q. QED
    BY <2>1, <2>2
<1>6. list.occ > 0 => Walk[list.occ] = list.tail
  BY <1>1, <1>2 DEF Holds, ListOf
<1>q. QED
  BY <1>1, <1>2, <1>4, <1>5, <1>6 DEF ListOK, Holds, Complete

\* For any number of jobs and pieces of memory: in a switch, and in any node
\* where memory is zeroed, every piece is free, in the list or executed, never
\* two of these; the list has as many jobs as occ says, and ends at tail.
THEOREM QueueInOrder == Spec /\ Clean(node) => []ListOK
<1>1. QueueInv => ListOK
  BY HoldsListOK DEF QueueInv
<1>q. QED
  BY <1>1, QueueAlways, PTL

--------------------------------------------------------------------------------
(* The refinement of Fifo.                                                      *)

LEMMA ContentIs ==
  \A s \in Seq(Cell) : ListOf(list, s) => Content = JobsOf(number, s)
<1> SUFFICES ASSUME NEW s \in Seq(Cell), ListOf(list, s)
             PROVE  Content = JobsOf(number, s)
  OBVIOUS
<1>1. list.occ = Len(s) /\ Walk = Reached(s)
  BY WalkReaches DEF ListOf
<1>2. \A i \in 1 .. Len(s) : Walk[i] = s[i] /\ s[i] \in Cell /\ s[i] # NULL
  BY <1>1, ConstantTypes DEF Reached
<1>q. QED
  BY <1>1, <1>2 DEF Content, Number, JobsOf

\* The same of the state after a step.
LEMMA ContentBecomes ==
  ASSUME NEW t \in Seq(Cell), Holds(t)'
  PROVE  Content' = JobsOf(number', t)
<1>1. (\A s \in Seq(Cell) : ListOf(list, s) => Content = JobsOf(number, s))'
  BY ContentIs, PTL
<1>2. ListOf(list', t)
  BY DEF Holds
<1>q. QED
  BY <1>1, <1>2

LEMMA JobsType ==
  ASSUME NEW s \in Seq(Cell), NEW n \in [Cell -> Nat]
  PROVE  JobsOf(n, s) \in Seq(Nat) /\ Len(JobsOf(n, s)) = Len(s)
BY DEF JobsOf

\* What Fifo appends.
LEMMA ExtendIs ==
  ASSUME made \in Nat, NEW q \in Seq(Nat)
  PROVE  /\ F!Extend(q, 0) = q
         /\ F!Extend(q, 1) = Append(q, made + 1)
         /\ F!Extend(q, 2) = Append(Append(q, made + 1), made + 2)
<1>1. [i \in 1 .. 0 |-> made + i] = <<>>
  OBVIOUS
<1>2. [i \in 1 .. 1 |-> made + i] = <<made + 1>>
  OBVIOUS
<1>3. [i \in 1 .. 2 |-> made + i] = <<made + 1, made + 2>>
  OBVIOUS
<1>4. q \o <<>> = q /\ q \o <<made + 1>> = Append(q, made + 1)
  OBVIOUS
<1>5. q \o <<made + 1, made + 2>> = Append(Append(q, made + 1), made + 2)
  OBVIOUS
<1>q. QED
  BY <1>1, <1>2, <1>3, <1>4, <1>5 DEF F!Extend

\* What is executed, and that it has a number.
LEMMA RunningIs ==
  ASSUME TypeOK, NEW s \in Seq(Cell), Holds(s)
  PROVE  /\ running = NULL => Number(running) = 0
         /\ running # NULL => Number(running) = number[running] /\ Number(running) # 0
BY DEF Number, Holds, Numbered

LEMMA FifoInit == Init => F!Init
<1> SUFFICES ASSUME Init PROVE F!Init
  OBVIOUS
<1>1. Content = <<>>
  BY DEF Init, Content
<1>q. QED
  BY <1>1 DEF Init, F!Init, Number

LEMMA FifoStep == QueueInv /\ [Next]_vars => [F!Next]_F!vars
<1> SUFFICES ASSUME QueueInv, [Next]_vars PROVE [F!Next]_F!vars
  OBVIOUS
<1>1. PICK s \in Seq(Cell) : Holds(s)
  BY DEF QueueInv
<1>2. TypeOK /\ Clean(node) /\ number \in [Cell -> Nat] /\ made \in Nat
  BY DEF QueueInv, TypeOK
<1>3. /\ free # <<>> => Head(free) \in Cell
      /\ running # NULL => running \in Cell
  BY <1>1, <1>2, FreeHead DEF Holds, TypeOK, CellOrNull
<1>4. Content = JobsOf(number, s) /\ Content \in Seq(Nat)
  BY <1>1, <1>2, ContentIs, JobsType DEF Holds
<1>5. /\ running = NULL => Number(running) = 0
      /\ running # NULL => Number(running) = number[running] /\ Number(running) # 0
  BY <1>1, <1>2, RunningIs
<1>6. /\ F!Extend(Content, 0) = Content
      /\ F!Extend(Content, 1) = Append(Content, made + 1)
      /\ F!Extend(Content, 2) = Append(Append(Content, made + 1), made + 2)
  BY <1>2, <1>4, ExtendIs
<1>7. running' = NULL => Number(running)' = 0
  BY DEF Number
<1>8. CASE Add
  <2>1. PICK t \in Seq(Cell) : t = Append(s, Head(free))
    BY <1>3, <1>8, AppendPieces DEF Add
  <2>2. Holds(t)' /\ JobsOf(number', t) = Append(JobsOf(number, s), made + 1)
    BY <1>1, <1>2, <1>8, <2>1, AddStep
  <2>3. Content' = Append(Content, made + 1)
    BY <1>4, <2>2, ContentBecomes
  <2>4. F!Add
    BY <1>5, <1>6, <1>7, <1>8, <2>3 DEF Add, F!Add
  <2>q. QED
    BY <2>4 DEF F!Next
<1>9. CASE Take
  <2>1. s # <<>>
    BY <1>1, <1>9 DEF Take, Holds, ListOf
  <2>2. PICK t \in Seq(Cell) : t = Tail(s)
    BY <2>1, TailPieces
  <2>3. /\ TypeOK' /\ Holds(t)' /\ JobsOf(number', t) = Tail(JobsOf(number, s))
        /\ number'[running'] = Head(JobsOf(number, s))
    BY <1>1, <1>2, <1>9, <2>2, TakeStep
  <2>4. Content' = Tail(Content) /\ Content # <<>>
    <3>1. Len(JobsOf(number, s)) = Len(s) /\ Len(s) # 0
      BY <1>2, <2>1, JobsType
    <3>2. Len(<<>>) = 0
      OBVIOUS
    <3>q. QED
      BY <1>4, <2>3, <3>1, <3>2, ContentBecomes
  <2>5. Number(running)' = Head(Content)
    <3>1. running' = Head(s) /\ Head(s) \in Cell
      BY <1>1, <1>9, <2>1, TailPieces DEF Take, Holds, ListOf
    <3>q. QED
      BY <1>4, <2>3, <3>1, ConstantTypes DEF Number
  <2>6. F!Take
    BY <1>5, <1>9, <2>4, <2>5 DEF Take, F!Take
  <2>q. QED
    BY <2>6 DEF F!Next
<1>10. CASE Finish
  <2>1. Holds(s)' /\ JobsOf(number', s) = JobsOf(number, s)
    BY <1>1, <1>2, <1>10, FinishStep
  <2>2. Content' = Content
    BY <1>4, <2>1, ContentBecomes
  <2>3. F!End(0)
    BY <1>2, <1>5, <1>6, <1>7, <1>10, <2>2 DEF Finish, F!End
  <2>q. QED
    BY <2>3 DEF F!Next
<1>11. CASE Reply
  <2>1. PICK t \in Seq(Cell) : t = Append(s, Head(free))
    BY <1>3, <1>11, AppendPieces DEF Reply
  <2>2. Holds(t)' /\ JobsOf(number', t) = Append(JobsOf(number, s), made + 1)
    BY <1>1, <1>2, <1>11, <2>1, ReplyStep
  <2>3. Content' = Append(Content, made + 1)
    BY <1>4, <2>2, ContentBecomes
  <2>4. F!End(1)
    BY <1>5, <1>6, <1>7, <1>11, <2>3 DEF Reply, F!End
  <2>q. QED
    BY <2>4 DEF F!Next
<1>12. CASE Again
  <2>1. PICK t \in Seq(Cell) : t = Append(s, running)
    BY <1>3, <1>12, AppendPieces DEF Again
  <2>2. Holds(t)' /\ JobsOf(number', t) = Append(JobsOf(number, s), number[running])
    BY <1>1, <1>2, <1>12, <2>1, AgainStep
  <2>3. Content' = Append(Content, Number(running))
    BY <1>4, <1>5, <1>12, <2>2, ContentBecomes DEF Again
  <2>4. F!Again
    BY <1>5, <1>7, <1>12, <2>3 DEF Again, F!Again
  <2>q. QED
    BY <2>4 DEF F!Next
<1>13. CASE Two
  <2>1. PICK u \in Seq(Cell) : u = Append(s, running)
    BY <1>3, <1>13, AppendPieces DEF Two
  <2>2. PICK t \in Seq(Cell) : t = Append(u, Head(free))
    BY <1>3, <1>13, AppendPieces DEF Two
  <2>3. /\ Holds(t)'
        /\ JobsOf(number', t) = Append(Append(JobsOf(number, s), made + 1), made + 2)
    BY <1>1, <1>2, <1>13, <2>1, <2>2, TwoStep
  <2>4. Content' = Append(Append(Content, made + 1), made + 2)
    BY <1>4, <2>3, ContentBecomes
  <2>5. F!End(2)
    BY <1>5, <1>6, <1>7, <1>13, <2>4 DEF Two, F!End
  <2>q. QED
    BY <2>5 DEF F!Next
<1>14. CASE UNCHANGED vars
  <2>1. Content' = Content /\ Number(running)' = Number(running) /\ made' = made
    <3>1. Holds(s)'
      BY <1>1, <1>14 DEF vars, Holds, Apart, Complete, EndsOpen, Numbered
    <3>2. Content' = JobsOf(number', s)
      BY <3>1, ContentBecomes
    <3>q. QED
      BY <1>4, <1>14, <3>2 DEF vars, Number
  <2>q. QED
    BY <2>1 DEF F!vars
<1>q. QED
  BY <1>8, <1>9, <1>10, <1>11, <1>12, <1>13, <1>14 DEF Next, Idle

\* For any number of jobs and pieces of memory: in such a node the linked list
\* implements the queue that the other modules take it for.  Jobs are executed
\* in the order in which they were added, none is lost and none runs twice.
THEOREM QueueIsFifo == Spec /\ Clean(node) => ImplementsFifo
BY FifoInit, FifoStep, QueueAlways, PTL DEF Spec, ImplementsFifo, F!Spec
================================================================================
