-------------------------------- MODULE JobQueue --------------------------------
(***************************************************************************)
(* The job queue of a node, a linked list: s_job_q_* in src/switch2.c,     *)
(* job_q_* in src/server.c, h_job_q_* in src/host.c, which are the same.   *)
(*                                                                         *)
(* The other modules take the queue for the sequence it is meant to be;    *)
(* this one shows when it is.  The first job of an empty queue is added    *)
(* without setting its next field, which then has the value that was in    *)
(* the memory malloc returned.  Memory that is used for the first time is  *)
(* zero.  Freed memory is returned last in, first out, and its next field  *)
(* is as it was: this is glibc as long as no more than 7 jobs are free.    *)
(***************************************************************************)
EXTENDS Naturals, Sequences

CONSTANTS
  NumCells,      \* bound: pieces of memory that hold jobs
  MaxJobs,       \* bound: how many jobs are made
  Nodes,         \* the nodes to look at
  NULL

\* How the execution of a job can end: it is finished, replaced by a reply, waits
\* again, or is replaced by two others.  A switch knows the first, a server the
\* first two, a host all.
Ending == {"finish", "reply", "again", "two"}

\* In a node where clears is TRUE, malloc returns zeroed memory (it need not).
ASSUME NodesAssumption == Nodes \subseteq [endings : SUBSET Ending, clears : BOOLEAN]

ASSUME BoundAssumption == NumCells \in Nat /\ MaxJobs \in Nat

Cell == 1 .. NumCells

ASSUME NullAssumption == NULL \notin Cell

VARIABLES
  node,     \* the node this queue belongs to; it never changes
  list,     \* struct job_queue, with the next field of every piece of memory
  number,   \* the job in every piece of memory, or the one last held there
  free,     \* the free pieces, the one freed last first
  running,  \* the piece that holds the job being executed, or NULL
  made      \* how many jobs there have been

vars == <<node, list, number, free, running, made>>

--------------------------------------------------------------------------------
\* Mutated: next is not set at the end of the list either.
JobAddOpen(q, c) ==
  IF q.head = NULL
    THEN [q EXCEPT !.head = c, !.tail = c, !.occ = 1]
    ELSE [q EXCEPT !.next[q.tail] = c, !.tail = c, !.occ = @ + 1]

JobAdd(q, c) ==
  IF q.head = NULL
    THEN [q EXCEPT !.head = c, !.tail = c, !.occ = 1]
    ELSE [q EXCEPT !.next = [@ EXCEPT ![q.tail] = c, ![c] = NULL],
                   !.tail = c, !.occ = @ + 1]

JobRemove(q) == [q EXCEPT !.head = q.next[q.head], !.occ = @ - 1]

\* The list when malloc has returned c.
Fresh(q, c) == IF node.clears THEN [q EXCEPT !.next[c] = NULL] ELSE q

\* Make a job in c and add it to the queue q.
MakeAndAdd(q, c) == JobAdd(Fresh(q, c), c)

\* job_q_init
Init ==
  /\ node \in Nodes
  /\ list = [head |-> NULL, tail |-> NULL, occ |-> 0, next |-> [c \in Cell |-> NULL]]
  /\ number = [c \in Cell |-> 0]
  /\ free = [c \in Cell |-> c]
  /\ running = NULL
  /\ made = 0

\* Between two executions: a packet, a command or the clock gives a job.
Add ==
  /\ running = NULL
  /\ free # <<>> /\ made < MaxJobs
  /\ list' = MakeAndAdd(list, Head(free))
  /\ number' = [number EXCEPT ![Head(free)] = made + 1]
  /\ free' = Tail(free)
  /\ made' = made + 1
  /\ UNCHANGED <<node, running>>

Take ==
  /\ running = NULL
  /\ list.occ > 0 /\ list.head # NULL
  /\ running' = list.head
  /\ list' = JobRemove(list)
  /\ UNCHANGED <<node, number, free, made>>

\* The packet is sent; the job is freed.
Finish ==
  /\ running # NULL /\ "finish" \in node.endings
  /\ free' = <<running>> \o free
  /\ running' = NULL
  /\ UNCHANGED <<node, list, number, made>>

\* A job for the reply is made and added, and then the old job is freed.
Reply ==
  /\ running # NULL /\ "reply" \in node.endings
  /\ free # <<>> /\ made < MaxJobs
  /\ list' = MakeAndAdd(list, Head(free))
  /\ number' = [number EXCEPT ![Head(free)] = made + 1]
  /\ free' = <<running>> \o Tail(free)
  /\ running' = NULL
  /\ made' = made + 1
  /\ UNCHANGED node

\* A job that waits is added once more.
Again ==
  /\ running # NULL /\ "again" \in node.endings
  /\ list' = JobAdd(list, running)
  /\ running' = NULL
  /\ UNCHANGED <<node, number, free, made>>

\* The old job is freed, and then two jobs are made and added ('P').
Two ==
  /\ running # NULL /\ "two" \in node.endings
  /\ free # <<>> /\ made + 1 < MaxJobs
  /\ list' = MakeAndAdd(MakeAndAdd(list, running), Head(free))
  /\ number' = [number EXCEPT ![running] = made + 1, ![Head(free)] = made + 2]
  /\ free' = Tail(free)
  /\ running' = NULL
  /\ made' = made + 2
  /\ UNCHANGED node

\* An iteration that finds no job to execute.
Idle == running = NULL /\ list.occ = 0 /\ UNCHANGED vars

Next == Add \/ Take \/ Finish \/ Reply \/ Again \/ Two \/ Idle

Spec == Init /\ [][Next]_vars

--------------------------------------------------------------------------------
\* Walk[i]: the i-th piece from the head.
Walk[i \in Nat \ {0}] ==
  IF i = 1 THEN list.head
  ELSE IF Walk[i - 1] = NULL THEN NULL ELSE list.next[Walk[i - 1]]

Number(c) == IF c = NULL THEN 0 ELSE number[c]

\* The numbers of the jobs in the queue, in their order.
Content == [i \in 1 .. list.occ |-> Number(Walk[i])]

F == INSTANCE Fifo WITH
       NoJob   <- 0,
       queue   <- Content,
       running <- Number(running)

\* Jobs are executed in the order in which they were added, none is lost and none
\* is executed twice: the occ pieces from the head on are the queue.
ImplementsFifo == F!Spec

Freed == {free[i] : i \in 1 .. Len(free)}
Queued == {Walk[i] : i \in 1 .. list.occ}

\* "Remove job from the job queue, and return pointer to the job": what is taken
\* from the queue is a job, not memory that was freed.
TakesJobs == running \notin Freed

\* Every piece of memory is free, in the queue or executed, and the list ends
\* where tail and occ say it does.
ListOK ==
  /\ Freed \cap Queued = {} /\ running \notin Freed \cup Queued
  /\ Len(free) + list.occ + (IF running = NULL THEN 0 ELSE 1) = NumCells
  /\ Walk[list.occ + 1] = NULL
  /\ list.occ > 0 => Walk[list.occ] = list.tail
================================================================================
