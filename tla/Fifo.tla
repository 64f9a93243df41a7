---------------------------------- MODULE Fifo ----------------------------------
(***************************************************************************)
(* What the job queue of a node promises: jobs are executed one at a time, *)
(* in the order in which they were added, each as often as it was added.   *)
(***************************************************************************)
EXTENDS Naturals, Sequences

CONSTANTS NoJob

VARIABLES
  made,     \* how many jobs there have been; they are numbered
  queue,    \* the jobs that wait
  running   \* the job being executed, or NoJob

vars == <<made, queue, running>>

Init == made = 0 /\ queue = <<>> /\ running = NoJob

\* n new jobs at the end of q.
Extend(q, n) == q \o [i \in 1 .. n |-> made + i]

\* Between two executions, the node adds a job.
Add ==
  /\ running = NoJob
  /\ made' = made + 1
  /\ queue' = Extend(queue, 1)
  /\ UNCHANGED running

Take ==
  /\ running = NoJob /\ queue # <<>>
  /\ running' = Head(queue)
  /\ queue' = Tail(queue)
  /\ UNCHANGED made

\* The execution ends: the job waits again, or is gone and has left up to two
\* new jobs.
Again ==
  /\ running # NoJob
  /\ queue' = Append(queue, running)
  /\ running' = NoJob
  /\ UNCHANGED made

End(n) ==
  /\ running # NoJob
  /\ made' = made + n
  /\ queue' = Extend(queue, n)
  /\ running' = NoJob

Next == Add \/ Take \/ Again \/ \E n \in 0 .. 2 : End(n)

Spec == Init /\ [][Next]_vars
================================================================================
