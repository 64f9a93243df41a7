------------------------------- MODULE HostProofs -------------------------------
(***************************************************************************)
(* The console protocol of HostCommands for any set of commands, names and *)
(* hosts, any time-outs and any user.                                      *)
(*                                                                         *)
(* The argument: a wait is a job that waits, and how many there are can be *)
(* counted.  Whatever the host does, it changes the number of waits, of    *)
(* unread commands and of unread replies in one of six ways (HostSteps);   *)
(* the properties follow from these.                                       *)
(***************************************************************************)
EXTENDS HostCommands, FiniteSetTheorems, TLAPS

--------------------------------------------------------------------------------
(* Items of a list, and how many of them are in a set.                          *)

Items(q) == {q[i] : i \in 1 .. Len(q)}
Places(q, W) == {i \in 1 .. Len(q) : q[i] \in W}
Count(q, W) == Cardinality(Places(q, W))

LEMMA CountType ==
  ASSUME NEW S, NEW q \in Seq(S), NEW W
  PROVE  IsFiniteSet(Places(q, W)) /\ Count(q, W) \in Nat
<1>1. Len(q) \in Nat /\ IsFiniteSet(1 .. Len(q))
  BY FS_Interval
<1>2. IsFiniteSet(Places(q, W))
  BY <1>1, FS_Subset DEF Places
<1>q. QED
  BY <1>2, FS_CardinalityType DEF Count

LEMMA CountConcat ==
  ASSUME NEW S, NEW q \in Seq(S), NEW r \in Seq(S), NEW W
  PROVE  /\ q \o r \in Seq(S) /\ Items(q \o r) = Items(q) \cup Items(r)
         /\ Count(q \o r, W) = Count(q, W) + Count(r, W)
<1> DEFINE c == q \o r
           n == Len(q)
           Q == Places(q, W)
           R == Places(r, W)
           Moved == {n + i : i \in R}
<1>1. /\ c \in Seq(S) /\ Len(c) = n + Len(r) /\ n \in Nat /\ Len(r) \in Nat
      /\ \A i \in 1 .. n : c[i] = q[i]
      /\ \A i \in 1 .. Len(r) : c[n + i] = r[i]
  OBVIOUS
<1> HIDE DEF c
<1>2. \A i \in 1 .. Len(c) : i \in 1 .. n \/ (i - n \in 1 .. Len(r) /\ n + (i - n) = i)
  BY <1>1
<1>3. Items(c) = Items(q) \cup Items(r)
  <2>1. ASSUME NEW x \in Items(c) PROVE x \in Items(q) \cup Items(r)
    <3>1. PICK i \in 1 .. Len(c) : x = c[i]
      BY <2>1 DEF Items
    <3>2. CASE i \in 1 .. n
      BY <1>1, <3>1, <3>2 DEF Items
    <3>3. CASE i - n \in 1 .. Len(r) /\ n + (i - n) = i
      BY <1>1, <3>1, <3>3 DEF Items
    <3>q. QED
      BY <1>2, <3>2, <3>3
  <2>2. ASSUME NEW i \in 1 .. n PROVE q[i] \in Items(c)
    <3>1. i \in 1 .. Len(c)
      BY <1>1
    <3>q. QED
      BY <1>1, <3>1 DEF Items
  <2>3. ASSUME NEW i \in 1 .. Len(r) PROVE r[i] \in Items(c)
    <3>1. n + i \in 1 .. Len(c)
      BY <1>1
    <3>q. QED
      BY <1>1, <3>1 DEF Items
  <2>q. QED
    BY <2>1, <2>2, <2>3 DEF Items
<1>4. Places(c, W) = Q \cup Moved
  <2>1. ASSUME NEW i \in Places(c, W) PROVE i \in Q \cup Moved
    <3>1. i \in 1 .. Len(c) /\ c[i] \in W
      BY DEF Places
    <3>2. CASE i \in 1 .. n
      BY <1>1, <3>1, <3>2 DEF Places
    <3>3. CASE i - n \in 1 .. Len(r) /\ n + (i - n) = i
      <4>1. i - n \in R
        BY <1>1, <3>1, <3>3 DEF Places
      <4>q. QED
        BY <3>3, <4>1
    <3>q. QED
      BY <1>2, <3>1, <3>2, <3>3
  <2>2. ASSUME NEW i \in Q PROVE i \in Places(c, W)
    BY <1>1 DEF Places
  <2>3. ASSUME NEW i \in R PROVE n + i \in Places(c, W)
    <3>1. i \in 1 .. Len(r) /\ r[i] \in W
      BY DEF Places
    <3>2. n + i \in 1 .. Len(c)
      BY <1>1, <3>1
    <3>q. QED
      BY <1>1, <3>1, <3>2 DEF Places
  <2>q. QED
    BY <2>1, <2>2, <2>3
<1>5. IsFiniteSet(Q) /\ IsFiniteSet(R)
  BY CountType
<1>6. IsFiniteSet(Moved) /\ Cardinality(Moved) = Cardinality(R)
  <2> DEFINE f == [i \in R |-> n + i]
  <2>1. R \subseteq Nat
    BY <1>1 DEF Places
  <2>2. n \in Nat /\ f \in [R -> Moved]
    BY <1>1
  <2>3. ASSUME NEW i \in R, NEW j \in R, f[i] = f[j] PROVE i = j
    <3>1. i \in Nat /\ j \in Nat /\ n + i = n + j
      BY <2>1, <2>3
    <3>q. QED
      BY <2>2, <3>1
  <2>4. \A m \in Moved : \E i \in R : f[i] = m
    OBVIOUS
  <2> HIDE DEF f, R, Moved
  <2>5. f \in Bijection(R, Moved)
    BY <2>2, <2>3, <2>4 DEF Bijection, Injection, Surjection, IsInjective
  <2>q. QED
    BY <1>5, <2>5, FS_Bijection DEF ExistsBijection
<1>7. Q \cap Moved = {}
  BY <1>1 DEF Places
<1> HIDE DEF Q, R, Moved
<1>8. Cardinality(Q \cup Moved) = Cardinality(Q) + Cardinality(Moved)
  <2>1. Cardinality(Q \cap Moved) = 0
    BY <1>7, FS_EmptySet
  <2>2. Cardinality(Q) \in Nat /\ Cardinality(Moved) \in Nat
    BY <1>5, <1>6, FS_CardinalityType
  <2>3. Cardinality(Q \cup Moved) =
          Cardinality(Q) + Cardinality(Moved) - Cardinality(Q \cap Moved)
    BY <1>5, <1>6, FS_Union, Zenon
  <2>q. QED
    BY <2>1, <2>2, <2>3
<1>9. Count(c, W) = Count(q, W) + Count(r, W)
  BY <1>4, <1>6, <1>8 DEF Count, Q, R
<1>q. QED
  BY <1>1, <1>3, <1>9 DEF c

LEMMA CountNone ==
  ASSUME NEW S, NEW q \in Seq(S), NEW W, Items(q) \cap W = {}
  PROVE  Count(q, W) = 0
<1>1. Places(q, W) = {}
  BY DEF Places, Items
<1>q. QED
  BY <1>1, FS_EmptySet DEF Count

LEMMA CountSingle ==
  ASSUME NEW S, NEW x \in S, NEW W
  PROVE  /\ <<x>> \in Seq(S) /\ Items(<<x>>) = {x}
         /\ Count(<<x>>, W) = IF x \in W THEN 1 ELSE 0
<1>1. <<x>> \in Seq(S) /\ Len(<<x>>) = 1 /\ <<x>>[1] = x
  OBVIOUS
<1>2. Items(<<x>>) = {x}
  BY <1>1 DEF Items
<1>3. CASE x \in W
  <2>1. Places(<<x>>, W) = {1}
    BY <1>1, <1>3 DEF Places
  <2>q. QED
    BY <1>1, <1>2, <1>3, <2>1, FS_Singleton DEF Count
<1>4. CASE x \notin W
  BY <1>1, <1>2, <1>4, CountNone
<1>q. QED
  BY <1>3, <1>4

LEMMA CountAppend ==
  ASSUME NEW S, NEW q \in Seq(S), NEW x \in S, NEW W
  PROVE  /\ Append(q, x) \in Seq(S) /\ Items(Append(q, x)) = Items(q) \cup {x}
         /\ Count(Append(q, x), W) = Count(q, W) + IF x \in W THEN 1 ELSE 0
<1>1. Append(q, x) = q \o <<x>>
  OBVIOUS
<1>2. /\ <<x>> \in Seq(S) /\ Items(<<x>>) = {x}
      /\ Count(<<x>>, W) = IF x \in W THEN 1 ELSE 0
  BY CountSingle
<1>3. \A r \in Seq(S) : /\ q \o r \in Seq(S) /\ Items(q \o r) = Items(q) \cup Items(r)
                        /\ Count(q \o r, W) = Count(q, W) + Count(r, W)
  BY CountConcat
<1>q. QED
  BY <1>1, <1>2, <1>3

LEMMA CountTail ==
  ASSUME NEW S, NEW q \in Seq(S), q # <<>>, NEW W
  PROVE  /\ Head(q) \in S /\ Tail(q) \in Seq(S)
         /\ Items(q) = {Head(q)} \cup Items(Tail(q))
         /\ Count(q, W) = Count(Tail(q), W) + IF Head(q) \in W THEN 1 ELSE 0
<1>1. Head(q) \in S /\ Tail(q) \in Seq(S) /\ q = <<Head(q)>> \o Tail(q)
  OBVIOUS
<1> DEFINE x == Head(q)
           r == Tail(q)
<1>2. x \in S /\ r \in Seq(S) /\ q = <<x>> \o r
  BY <1>1
<1> HIDE DEF x, r
<1>3. /\ <<x>> \in Seq(S) /\ Items(<<x>>) = {x}
      /\ Count(<<x>>, W) = IF x \in W THEN 1 ELSE 0
  BY <1>2, CountSingle
<1>4. \A p \in Seq(S) : /\ Items(p \o r) = Items(p) \cup Items(r)
                        /\ Count(p \o r, W) = Count(p, W) + Count(r, W)
  BY <1>2, CountConcat
<1>5. Count(r, W) \in Nat
  BY <1>2, CountType
<1>6. Items(q) = {x} \cup Items(r) /\ Count(q, W) = Count(r, W) + IF x \in W THEN 1 ELSE 0
  <2> DEFINE y == <<x>>
  <2>1. /\ y \in Seq(S) /\ Items(y) = {x}
        /\ Count(y, W) = IF x \in W THEN 1 ELSE 0
    BY <1>3
  <2>2. q = y \o r
    BY <1>2
  <2> HIDE DEF y
  <2>3. Items(q) = Items(y) \cup Items(r) /\ Count(q, W) = Count(y, W) + Count(r, W)
    BY <1>4, <2>1, <2>2
  <2>q. QED
    BY <1>5, <2>1, <2>3
<1>q. QED
  BY <1>2, <1>6 DEF x, r

\* Where the count is 0 there is none.
LEMMA CountZero ==
  ASSUME NEW S, NEW q \in Seq(S), NEW W, Count(q, W) = 0
  PROVE  Items(q) \cap W = {}
<1>1. Places(q, W) = {}
  BY CountType, FS_EmptySet DEF Count
<1>q. QED
  BY <1>1 DEF Places, Items

\* A list that has no items is empty.
LEMMA NoItems ==
  ASSUME NEW S, NEW q \in Seq(S), Items(q) = {}
  PROVE  Len(q) = 0
<1>1. Len(q) \in Nat /\ ~(1 \in 1 .. Len(q))
  BY DEF Items
<1>q. QED
  BY <1>1

\* A list holds no more of a set than it has places.
LEMMA CountHead ==
  ASSUME NEW S, NEW q \in Seq(S), q # <<>>, NEW W, q[1] \in W
  PROVE  Count(q, W) >= 1
<1>1. q[1] \in Items(q) \cap W
  BY DEF Items
<1>2. Count(q, W) # 0
  BY <1>1, CountZero
<1>q. QED
  BY <1>2, CountType

--------------------------------------------------------------------------------
(* Queues of jobs, and the waits among them.                                    *)

\* A job that waits has time left, and 'D' alone waits for a download.
GoodJob ==
  {j \in Job : j.type \in WaitType =>
                 j.timer > 0 /\ (j.type = "waitDownload" => j.for.cmd = "D")}

WaitJobs == {j \in GoodJob : j.type \in WaitType}

WaitsOf(q) == Items(q) \cap WaitJobs
Size(q) == Count(q, WaitJobs)
CausesOf(q) == {j.for : j \in WaitsOf(q)}

\* r has the waits of q.
Same(q, r) ==
  r \in Seq(GoodJob) /\ WaitsOf(r) = WaitsOf(q) /\ Size(r) = Size(q)

\* r has the waits of q, and j.
More(q, j, r) ==
  /\ r \in Seq(GoodJob) /\ j \in WaitJobs
  /\ WaitsOf(r) = WaitsOf(q) \cup {j} /\ Size(r) = Size(q) + 1

LEMMA SizeType ==
  ASSUME NEW q \in Seq(GoodJob)
  PROVE  Size(q) \in Nat
BY CountType DEF Size

LEMMA AddOther ==
  ASSUME NEW q \in Seq(GoodJob), NEW x \in GoodJob \ WaitJobs
  PROVE  Same(q, Append(q, x))
<1>1. /\ Append(q, x) \in Seq(GoodJob) /\ Items(Append(q, x)) = Items(q) \cup {x}
      /\ Count(Append(q, x), WaitJobs) = Count(q, WaitJobs) + IF x \in WaitJobs THEN 1 ELSE 0
  BY CountAppend
<1>2. Count(q, WaitJobs) \in Nat
  BY CountType
<1>q. QED
  BY <1>1, <1>2 DEF Same, WaitsOf, Size

LEMMA AddWait ==
  ASSUME NEW q \in Seq(GoodJob), NEW x \in WaitJobs
  PROVE  More(q, x, Append(q, x))
<1>1. x \in GoodJob
  BY DEF WaitJobs
<1>2. /\ Append(q, x) \in Seq(GoodJob) /\ Items(Append(q, x)) = Items(q) \cup {x}
      /\ Count(Append(q, x), WaitJobs) = Count(q, WaitJobs) + IF x \in WaitJobs THEN 1 ELSE 0
  BY <1>1, CountAppend
<1>q. QED
  BY <1>2 DEF More, WaitsOf, Size

LEMMA AddTwo ==
  ASSUME NEW q \in Seq(GoodJob), NEW a \in GoodJob \ WaitJobs, NEW x \in WaitJobs
  PROVE  More(q, x, q \o <<a, x>>)
<1>1. x \in GoodJob
  BY DEF WaitJobs
<1>2. q \o <<a, x>> = Append(Append(q, a), x)
  BY <1>1
<1>3. Same(q, Append(q, a))
  BY AddOther
<1>4. More(Append(q, a), x, Append(Append(q, a), x))
  BY <1>3, AddWait DEF Same
<1>q. QED
  BY <1>2, <1>3, <1>4 DEF Same, More

LEMMA TakeOther ==
  ASSUME NEW q \in Seq(GoodJob), q # <<>>, Head(q) \notin WaitJobs
  PROVE  Same(q, Tail(q))
<1>1. /\ Tail(q) \in Seq(GoodJob) /\ Items(q) = {Head(q)} \cup Items(Tail(q))
      /\ Count(q, WaitJobs) = Count(Tail(q), WaitJobs) + IF Head(q) \in WaitJobs THEN 1 ELSE 0
  BY CountTail
<1>2. Count(Tail(q), WaitJobs) \in Nat
  BY <1>1, CountType
<1>q. QED
  BY <1>1, <1>2 DEF Same, WaitsOf, Size

LEMMA TakeWait ==
  ASSUME NEW q \in Seq(GoodJob), q # <<>>, Head(q) \in WaitJobs
  PROVE  Tail(q) \in Seq(GoodJob) /\ More(Tail(q), Head(q), q)
<1>1. /\ Tail(q) \in Seq(GoodJob) /\ Items(q) = {Head(q)} \cup Items(Tail(q))
      /\ Count(q, WaitJobs) = Count(Tail(q), WaitJobs) + IF Head(q) \in WaitJobs THEN 1 ELSE 0
  BY CountTail
<1>q. QED
  BY <1>1 DEF More, WaitsOf, Size

\* The jobs that the code makes.
LEMMA JobsMade ==
  /\ SendJob(<<>>) \in GoodJob \ WaitJobs
  /\ \A p \in Packet : SendJob(<<p>>) \in GoodJob \ WaitJobs
  /\ \A type \in {"pingReply", "upload", "file"} :
       [type |-> type] \in GoodJob \ WaitJobs
  /\ \A type \in WaitType, c \in Command :
       (type = "waitDownload" => c.cmd = "D") =>
         /\ WaitJob(type, c) \in WaitJobs
         /\ WaitJob(type, c).type = type /\ WaitJob(type, c).for = c
<1>1. SendJob(<<>>) \in GoodJob \ WaitJobs
  BY DEF SendJob, GoodJob, WaitJobs, Job, WaitType
<1>2. ASSUME NEW p \in Packet PROVE SendJob(<<p>>) \in GoodJob \ WaitJobs
  BY DEF SendJob, GoodJob, WaitJobs, Job, WaitType
<1>3. ASSUME NEW type \in {"pingReply", "upload", "file"}
      PROVE  [type |-> type] \in GoodJob \ WaitJobs
  BY DEF GoodJob, WaitJobs, Job, WaitType
<1>4. ASSUME NEW type \in WaitType, NEW c \in Command, type = "waitDownload" => c.cmd = "D"
      PROVE  /\ WaitJob(type, c) \in WaitJobs
             /\ WaitJob(type, c).type = type /\ WaitJob(type, c).for = c
  <2>1. PingTimer \in Nat \ {0} /\ DnsTimer \in Nat \ {0}
    BY BoundAssumption
  <2>q. QED
    BY <1>4, <2>1 DEF WaitJob, GoodJob, WaitJobs, Job
<1>q. QED
  BY <1>1, <1>2, <1>3, <1>4

\* A wait has a command, and a time that may get shorter.
LEMMA WaitParts ==
  ASSUME NEW j \in WaitJobs
  PROVE  /\ j \in GoodJob /\ j.type \in WaitType /\ j.for \in Command /\ j.timer \in Nat
         /\ j.type = "waitDownload" => j.for.cmd = "D"
         /\ j.timer > 1 =>
              /\ [j EXCEPT !.timer = @ - 1] \in WaitJobs
              /\ [j EXCEPT !.timer = @ - 1].type = j.type
              /\ [j EXCEPT !.timer = @ - 1].for = j.for
<1>1. j \in [type : WaitType, timer : Nat, for : Command]
  BY DEF WaitJobs, GoodJob, Job, WaitType
<1>2. j \in GoodJob /\ (j.type = "waitDownload" => j.for.cmd = "D")
  BY <1>1 DEF WaitJobs, GoodJob
<1>3. ASSUME j.timer > 1
      PROVE  /\ [j EXCEPT !.timer = @ - 1] \in WaitJobs
             /\ [j EXCEPT !.timer = @ - 1].type = j.type
             /\ [j EXCEPT !.timer = @ - 1].for = j.for
  <2> DEFINE k == [j EXCEPT !.timer = @ - 1]
  <2>1. /\ k \in [type : WaitType, timer : Nat, for : Command]
        /\ k.type = j.type /\ k.for = j.for /\ k.timer > 0
    BY <1>1, <1>3
  <2> HIDE DEF k
  <2>2. k \in WaitJobs
    BY <1>1, <1>2, <2>1 DEF WaitJobs, GoodJob, Job
  <2>q. QED
    BY <2>1, <2>2 DEF k
<1>q. QED
  BY <1>1, <1>2, <1>3

\* Parts of a file are no waits.
LEMMA AddParts ==
  ASSUME NEW q \in Seq(GoodJob), NEW n \in Nat
  PROVE  Same(q, q \o [i \in 1 .. n |-> SendJob(<<>>)])
<1> DEFINE x == SendJob(<<>>)
           r == [i \in 1 .. n |-> x]
<1>1. x \in GoodJob \ WaitJobs
  BY JobsMade
<1> HIDE DEF x
<1>2. r \in Seq(GoodJob) /\ Len(r) = n /\ \A i \in 1 .. n : r[i] = x
  BY <1>1
<1> HIDE DEF r
<1>3. Items(r) \cap WaitJobs = {}
  BY <1>1, <1>2 DEF Items
<1>4. Count(r, WaitJobs) = 0
  BY <1>2, <1>3, CountNone
<1>5. /\ q \o r \in Seq(GoodJob) /\ Items(q \o r) = Items(q) \cup Items(r)
      /\ Count(q \o r, WaitJobs) = Count(q, WaitJobs) + Count(r, WaitJobs)
  BY <1>2, CountConcat
<1>6. Count(q, WaitJobs) \in Nat
  BY CountType
<1>7. Same(q, q \o r)
  BY <1>3, <1>4, <1>5, <1>6 DEF Same, WaitsOf, Size
<1>q. QED
  BY <1>7 DEF r, x

--------------------------------------------------------------------------------
(* What every step keeps, and what a step of the host does.                     *)

ConsoleTypes ==
  /\ waiting \in {<<>>} \cup {<<c>> : c \in {c \in Command : c.cmd \in Waited}}
  /\ toHost \in Seq(Command) /\ toMan \in Seq(Reply)
  /\ user \in Users
  /\ issued \in 0 .. MaxCommands /\ unwaited \in 0 .. issued

FlagTypes ==
  /\ pingReceived \in BOOLEAN /\ registerReceived \in BOOLEAN
  /\ lookupReceived \in BOOLEAN
  /\ registerBuffer \in Registration \cup {"zeroed"}
  /\ lookupBuffer \in Target \cup {"FAIL", "zeroed"}

HostTypes ==
  /\ dir \in Dir \cup {"None", "garbled"}
  /\ controlCount \in 0 .. CONTROL_COUNT - 1
  /\ scan \in {"top", "poll", "execute"}
  /\ net \subseteq Packet
  /\ incoming \in 0 .. MaxIncoming
  /\ downloads \subseteq Command \X Target

Types == ConsoleTypes /\ FlagTypes /\ HostTypes /\ jobs \in Seq(GoodJob)

\* The commands that were read and written change in one of six ways: not at
\* all; a command is ignored, answered at once, or begins a wait; a wait is
\* answered, or dropped.
Stay ==
  /\ Size(jobs') = Size(jobs) /\ CausesOf(jobs') \subseteq CausesOf(jobs)
  /\ UNCHANGED <<toHost, toMan>>

Ignored ==
  /\ toHost # <<>> /\ toHost' = <<>> /\ toHost[1].cmd \notin Waited \cup {"D"}
  /\ Size(jobs') = Size(jobs) /\ CausesOf(jobs') \subseteq CausesOf(jobs)
  /\ toMan' = toMan

Told ==
  /\ toHost # <<>> /\ toHost' = <<>> /\ toHost[1].cmd \in Waited
  /\ Size(jobs') = Size(jobs) /\ CausesOf(jobs') \subseteq CausesOf(jobs)
  /\ \E r \in Reply : r.for = toHost[1] /\ toMan' = Append(toMan, r)

Started ==
  /\ toHost # <<>> /\ toHost' = <<>> /\ toHost[1].cmd \in Waited \cup {"D"}
  /\ Size(jobs') = Size(jobs) + 1
  /\ CausesOf(jobs') \subseteq CausesOf(jobs) \cup {toHost[1]}
  /\ toMan' = toMan

AnsweredLate ==
  /\ Size(jobs) = Size(jobs') + 1 /\ CausesOf(jobs') \subseteq CausesOf(jobs)
  /\ toHost' = toHost
  /\ \E r \in Reply : r.for \in CausesOf(jobs) /\ toMan' = Append(toMan, r)

Dropped ==
  /\ Size(jobs) = Size(jobs') + 1 /\ CausesOf(jobs') \subseteq CausesOf(jobs)
  /\ \E c \in CausesOf(jobs) : c.cmd = "D"
  /\ UNCHANGED <<toHost, toMan>>

Move ==
  /\ UNCHANGED <<waiting, user, issued, unwaited>>
  /\ Stay \/ Ignored \/ Told \/ Started \/ AnsweredLate \/ Dropped

\* A wait that finds its flag finds an answer.
FreshFor(type) ==
  /\ type = "waitRegister" /\ registerReceived => registerBuffer # "zeroed"
  /\ type \in {"waitLookup", "waitDnsPing", "waitDownload"} /\ lookupReceived =>
       lookupBuffer # "zeroed"

FreshWaits == \A j \in WaitsOf(jobs) : FreshFor(j.type)

\* What is shown of every action of the host.
HostGoal ==
  /\ Types' /\ Move
  /\ Len(toHost) + Size(jobs) <= 1 /\ FreshWaits => FreshWaits'

\* The control packet is no wait.
LEMMA ControlQueueSame ==
  ASSUME Types
  PROVE  Same(jobs, ControlQueue)
<1>1. jobs \in Seq(GoodJob) /\ SendJob(<<>>) \in GoodJob \ WaitJobs
  BY JobsMade DEF Types
<1>2. Same(jobs, Append(jobs, SendJob(<<>>)))
  BY <1>1, AddOther
<1>3. Same(jobs, jobs)
  BY <1>1 DEF Same
<1>q. QED
  BY <1>2, <1>3 DEF ControlQueue

LEMMA TopTypes ==
  ASSUME Types, Top
  PROVE  /\ HostTypes' \/ dir' # dir
         /\ UNCHANGED <<waiting, user, issued, unwaited>>
         /\ (toHost' \in Seq(Command) /\ toMan' \in Seq(Reply)) => ConsoleTypes'
<1>1. controlCount' \in 0 .. CONTROL_COUNT - 1
  BY BoundAssumption DEF Types, HostTypes, Top
<1>2. HostTypes' \/ dir' # dir
  BY <1>1 DEF Types, HostTypes, Top
<1>3. UNCHANGED <<waiting, user, issued, unwaited>>
  BY DEF Top
<1>4. (toHost' \in Seq(Command) /\ toMan' \in Seq(Reply)) => ConsoleTypes'
  BY <1>3 DEF Types, ConsoleTypes
<1>q. QED
  BY <1>2, <1>3, <1>4

\* Flags that stay as they are keep every kind of wait fresh.
LEMMA FreshFlags ==
  ASSUME UNCHANGED flags, NEW type
  PROVE  FreshFor(type) <=> FreshFor(type)'
BY DEF flags, FreshFor

LEMMA FlagTypesKept ==
  ASSUME FlagTypes, UNCHANGED flags
  PROVE  FlagTypes'
BY DEF flags, FlagTypes

\* The queue changes, its waits do not.
LEMMA SameWaits ==
  ASSUME Types, Same(jobs, jobs')
  PROVE  /\ (jobs \in Seq(GoodJob))'
         /\ Size(jobs') = Size(jobs) /\ CausesOf(jobs') \subseteq CausesOf(jobs)
         /\ UNCHANGED flags /\ FreshWaits => FreshWaits'
<1>1. /\ jobs' \in Seq(GoodJob) /\ Size(jobs') = Size(jobs)
      /\ WaitsOf(jobs') = WaitsOf(jobs)
  BY DEF Same
<1>2. ASSUME UNCHANGED flags, FreshWaits PROVE FreshWaits'
  <2>1. \A t : FreshFor(t) => FreshFor(t)'
    BY <1>2, FreshFlags
  <2>q. QED
    BY <1>1, <1>2, <2>1 DEF FreshWaits
<1>q. QED
  BY <1>1, <1>2 DEF CausesOf

\* A command begins a wait; with one command at a time it is the only one.
LEMMA MoreWaits ==
  ASSUME Types, toHost # <<>>, NEW j, More(jobs, j, jobs'), j.for = toHost[1],
         NEW type, j.type = type, FreshFor(type)'
  PROVE  /\ (jobs \in Seq(GoodJob))'
         /\ Size(jobs') = Size(jobs) + 1
         /\ CausesOf(jobs') \subseteq CausesOf(jobs) \cup {toHost[1]}
         /\ Len(toHost) + Size(jobs) <= 1 => FreshWaits'
<1>1. /\ jobs' \in Seq(GoodJob) /\ Size(jobs') = Size(jobs) + 1
      /\ WaitsOf(jobs') = WaitsOf(jobs) \cup {j}
  BY DEF More
<1>2. ASSUME Len(toHost) + Size(jobs) <= 1 PROVE FreshWaits'
  <2>1. Len(toHost) \in Nat \ {0} /\ Size(jobs) \in Nat
    BY SizeType DEF Types, ConsoleTypes
  <2>2. Count(jobs, WaitJobs) = 0
    BY <1>2, <2>1 DEF Size
  <2>3. WaitsOf(jobs) = {}
    BY <2>2, CountZero DEF WaitsOf, Types
  <2>q. QED
    BY <1>1, <2>3 DEF FreshWaits
<1>q. QED
  BY <1>1, <1>2 DEF CausesOf

\* A wait ends; if there was one, there is none.
LEMMA LessWaits ==
  ASSUME Types, jobs # <<>>, Head(jobs) \in WaitJobs, Same(Tail(jobs), jobs')
  PROVE  /\ (jobs \in Seq(GoodJob))'
         /\ Size(jobs) = Size(jobs') + 1 /\ CausesOf(jobs') \subseteq CausesOf(jobs)
         /\ Head(jobs).for \in CausesOf(jobs) /\ Head(jobs).for \in Command
         /\ Size(jobs) <= 1 => FreshWaits'
<1>1. Tail(jobs) \in Seq(GoodJob) /\ More(Tail(jobs), Head(jobs), jobs)
  BY TakeWait DEF Types
<1>2. /\ jobs' \in Seq(GoodJob) /\ Size(jobs) = Size(jobs') + 1
      /\ WaitsOf(jobs) = WaitsOf(jobs') \cup {Head(jobs)}
  BY <1>1 DEF Same, More
<1>3. Head(jobs).for \in Command
  BY WaitParts
<1>4. ASSUME Size(jobs) <= 1 PROVE FreshWaits'
  <2>1. Count(jobs', WaitJobs) = 0
    BY <1>2, <1>4, SizeType DEF Size
  <2>2. WaitsOf(jobs') = {}
    BY <1>2, <2>1, CountZero DEF WaitsOf
  <2>q. QED
    BY <2>2 DEF FreshWaits
<1>q. QED
  BY <1>2, <1>3, <1>4 DEF CausesOf

\* A wait takes the place of the one at the head: of the same kind, or of a kind
\* that is fresh.
LEMMA NextWaits ==
  ASSUME Types, jobs # <<>>, Head(jobs) \in WaitJobs,
         NEW j, More(Tail(jobs), j, jobs'), j.for = Head(jobs).for,
         NEW type, j.type = type
  PROVE  /\ (jobs \in Seq(GoodJob))'
         /\ Size(jobs') = Size(jobs) /\ CausesOf(jobs') \subseteq CausesOf(jobs)
         /\ UNCHANGED flags /\ j.type = Head(jobs).type /\ FreshWaits => FreshWaits'
         /\ FreshFor(type)' /\ Size(jobs) <= 1 => FreshWaits'
<1>1. Tail(jobs) \in Seq(GoodJob) /\ More(Tail(jobs), Head(jobs), jobs)
  BY TakeWait DEF Types
<1>2. /\ jobs' \in Seq(GoodJob) /\ Size(jobs) = Size(Tail(jobs)) + 1
      /\ Size(jobs') = Size(Tail(jobs)) + 1
      /\ WaitsOf(jobs) = WaitsOf(Tail(jobs)) \cup {Head(jobs)}
      /\ WaitsOf(jobs') = WaitsOf(Tail(jobs)) \cup {j}
  BY <1>1 DEF More
<1>3. ASSUME UNCHANGED flags, j.type = Head(jobs).type, FreshWaits PROVE FreshWaits'
  <2>1. \A t : FreshFor(t) => FreshFor(t)'
    BY <1>3, FreshFlags
  <2>q. QED
    BY <1>2, <1>3, <2>1 DEF FreshWaits
<1>4. ASSUME FreshFor(type)', Size(jobs) <= 1 PROVE FreshWaits'
  <2>0. Size(Tail(jobs)) \in Nat
    BY <1>1, SizeType
  <2>1. Count(Tail(jobs), WaitJobs) = 0
    BY <1>2, <1>4, <2>0 DEF Size
  <2>2. WaitsOf(Tail(jobs)) = {}
    BY <1>1, <2>1, CountZero DEF WaitsOf
  <2>q. QED
    BY <1>2, <1>4, <2>2 DEF FreshWaits
<1>q. QED
  BY <1>2, <1>3, <1>4 DEF CausesOf

--------------------------------------------------------------------------------
(* The top of the loop.                                                         *)

LEMMA CommandArgs ==
  ASSUME NEW c \in Command
  PROVE  /\ c.cmd \in {"s", "m", "p", "u", "d", "r", "l", "P", "D"}
         /\ c.cmd = "m" => c.arg \in Dir
         /\ c.cmd = "p" => c.arg \in Target
         /\ c.cmd \in {"r", "l", "P", "D"} => c.arg \in Name
BY DEF Command

\* What all commands have in common.
LEMMA ReadTypes ==
  ASSUME Types, NEW cmds, ReadCommand(cmds)
  PROVE  /\ toHost # <<>> /\ toHost' = <<>> /\ toHost' \in Seq(Command)
         /\ toHost[1] \in Command /\ toHost[1].cmd \in cmds
BY DEF Types, ConsoleTypes, ReadCommand

LEMMA StepTopNoCommand ==
  ASSUME Types, TopNoCommand
  PROVE  HostGoal
<1>1. Same(jobs, jobs')
  BY ControlQueueSame DEF TopNoCommand
<1>2. /\ UNCHANGED <<toHost, toMan, dir>> /\ UNCHANGED flags
      /\ toHost' \in Seq(Command) /\ toMan' \in Seq(Reply)
  BY DEF TopNoCommand, Types, ConsoleTypes
<1>3. Types'
  BY <1>1, <1>2, TopTypes, SameWaits, FlagTypesKept DEF TopNoCommand, Types
<1>4. Move
  BY <1>1, <1>2, TopTypes, SameWaits DEF TopNoCommand, Move, Stay
<1>q. QED
  BY <1>1, <1>2, <1>3, <1>4, SameWaits DEF HostGoal

LEMMA StepGetState ==
  ASSUME Types, GetState
  PROVE  HostGoal
<1> DEFINE r == [about |-> "state", says |-> dir, for |-> toHost[1]]
<1>1. Same(jobs, jobs')
  BY ControlQueueSame DEF GetState
<1>2. UNCHANGED flags /\ dir' = dir /\ toMan' = Append(toMan, r) /\ Top
  BY DEF GetState, ReadCommand
<1>3. /\ toHost # <<>> /\ toHost' = <<>> /\ toHost' \in Seq(Command)
      /\ toHost[1] \in Command /\ toHost[1].cmd = "s"
  BY ReadTypes DEF GetState
<1>4. r \in Reply /\ r.for = toHost[1]
  BY <1>3 DEF Reply, Types, HostTypes
<1> HIDE DEF r
<1>5. toMan' \in Seq(Reply)
  BY <1>2, <1>4 DEF Types, ConsoleTypes
<1>6. Types'
  BY <1>1, <1>2, <1>3, <1>5, TopTypes, SameWaits, FlagTypesKept DEF Types
<1>7. Told
  BY <1>1, <1>2, <1>3, <1>4, SameWaits DEF Told, Waited
<1>q. QED
  BY <1>1, <1>2, <1>6, <1>7, TopTypes, SameWaits DEF HostGoal, Move

\* Commands that need no answer.
LEMMA StepIgnored ==
  ASSUME Types, NEW c \in {"m", "u", "d"}, ReadCommand({c}), Same(jobs, jobs'),
         UNCHANGED toMan, UNCHANGED flags, dir' \in Dir \cup {"None", "garbled"}
  PROVE  HostGoal
<1>1. /\ toHost # <<>> /\ toHost' = <<>> /\ toHost' \in Seq(Command)
      /\ toHost[1] \in Command /\ toHost[1].cmd = c /\ Top
  BY ReadTypes DEF ReadCommand
<1>2. /\ ConsoleTypes' /\ UNCHANGED <<waiting, user, issued, unwaited>>
  BY <1>1, TopTypes DEF Types, ConsoleTypes
<1>3. HostTypes'
  BY <1>1, BoundAssumption DEF Types, HostTypes, Top
<1>4. Types'
  BY <1>2, <1>3, SameWaits, FlagTypesKept DEF Types
<1>5. Ignored
  BY <1>1, SameWaits DEF Ignored, Waited
<1>q. QED
  BY <1>2, <1>4, <1>5, SameWaits DEF HostGoal, Move

LEMMA StepSetDir ==
  ASSUME Types, SetDir
  PROVE  HostGoal
<1>1. Same(jobs, jobs')
  BY ControlQueueSame DEF SetDir
<1>2. toHost[1] \in Command /\ toHost[1].cmd = "m"
  BY ReadTypes DEF SetDir
<1>3. dir' \in Dir \cup {"None", "garbled"}
  BY <1>2, CommandArgs DEF SetDir
<1>q. QED
  BY <1>1, <1>3, StepIgnored DEF SetDir

LEMMA StepGetDownload ==
  ASSUME Types, GetDownload
  PROVE  HostGoal
<1>1. Same(jobs, ControlQueue)
  BY ControlQueueSame
<1>2. Same(ControlQueue, Append(ControlQueue, SendJob(<<>>)))
  BY <1>1, JobsMade, AddOther DEF Same
<1>3. Same(jobs, jobs')
  BY <1>1, <1>2 DEF GetDownload, Same
<1>q. QED
  BY <1>3, StepIgnored DEF GetDownload, Types, HostTypes

LEMMA StepStartUpload ==
  ASSUME Types, StartUpload
  PROVE  HostGoal
<1> DEFINE x == [type |-> "upload"]
<1>1. Same(jobs, ControlQueue)
  BY ControlQueueSame
<1>2. x \in GoodJob \ WaitJobs
  BY JobsMade
<1>3. jobs' = Append(ControlQueue, x)
  BY DEF StartUpload
<1> HIDE DEF x
<1>4. Same(ControlQueue, Append(ControlQueue, x))
  BY <1>1, <1>2, AddOther DEF Same
<1>5. Same(jobs, jobs')
  BY <1>1, <1>3, <1>4 DEF Same
<1>q. QED
  BY <1>5, StepIgnored DEF StartUpload, Types, HostTypes

\* Commands that wait for an answer from the network.
LEMMA StepStarted ==
  ASSUME Types, NEW c \in {"p", "r", "l", "P", "D"}, toHost[1].cmd = c,
         ReadCommand({"p", "r", "l", "P", "D"}),
         NEW p \in Packet, NEW type \in WaitType, type = "waitDownload" => c = "D",
         jobs' = ControlQueue \o TwoJobs(p, type, toHost[1]),
         UNCHANGED <<toMan, dir>>, FlagTypes', FreshFor(type)'
  PROVE  HostGoal
<1> DEFINE j == WaitJob(type, toHost[1])
           a == SendJob(<<p>>)
<1>1. /\ toHost # <<>> /\ toHost' = <<>> /\ toHost' \in Seq(Command)
      /\ toHost[1] \in Command /\ Top
  BY ReadTypes DEF ReadCommand
<1>2. j \in WaitJobs /\ j.type = type /\ j.for = toHost[1] /\ a \in GoodJob \ WaitJobs
  BY <1>1, JobsMade
<1>3. jobs' = ControlQueue \o <<a, j>>
  BY DEF TwoJobs
<1> HIDE DEF j, a
<1>4. Same(jobs, ControlQueue)
  BY ControlQueueSame
<1>5. More(ControlQueue, j, jobs')
  BY <1>2, <1>3, <1>4, AddTwo DEF Same
<1>6. More(jobs, j, jobs')
  BY <1>4, <1>5 DEF Same, More
<1>7. /\ (jobs \in Seq(GoodJob))'
      /\ Size(jobs') = Size(jobs) + 1
      /\ CausesOf(jobs') \subseteq CausesOf(jobs) \cup {toHost[1]}
      /\ Len(toHost) + Size(jobs) <= 1 => FreshWaits'
  BY <1>1, <1>2, <1>6, MoreWaits
<1>8. HostTypes' /\ ConsoleTypes' /\ UNCHANGED <<waiting, user, issued, unwaited>>
  BY <1>1, TopTypes DEF Types, ConsoleTypes
<1>9. Started
  BY <1>1, <1>7 DEF Started, Waited
<1>q. QED
  BY <1>7, <1>8, <1>9 DEF HostGoal, Move, Types

LEMMA StepStartPing ==
  ASSUME Types, StartPing
  PROVE  HostGoal
<1> DEFINE p == [type |-> "ping", to |-> toHost[1].arg]
<1>1. ReadCommand({"p"}) /\ jobs' = ControlQueue \o TwoJobs(p, "waitPing", toHost[1])
  BY DEF StartPing
<1>2. toHost[1] \in Command /\ toHost[1].cmd = "p"
  BY <1>1, ReadTypes
<1>3. p \in Packet
  BY <1>2, CommandArgs DEF Packet
<1> HIDE DEF p
<1>4. UNCHANGED <<toMan, dir>> /\ FlagTypes'
  BY DEF StartPing, Types, FlagTypes
<1>5. FreshFor("waitPing")'
  BY DEF FreshFor
<1>6. ReadCommand({"p", "r", "l", "P", "D"})
  BY <1>1 DEF ReadCommand
<1>q. QED
  BY <1>1, <1>2, <1>3, <1>4, <1>5, <1>6, StepStarted DEF WaitType

LEMMA StepStartRegister ==
  ASSUME Types, StartRegister
  PROVE  HostGoal
<1> DEFINE p == [type |-> "register", to |-> toHost[1].arg]
<1>1. /\ ReadCommand({"r"})
      /\ jobs' = ControlQueue \o TwoJobs(p, "waitRegister", toHost[1])
  BY DEF StartRegister
<1>2. toHost[1] \in Command /\ toHost[1].cmd = "r"
  BY <1>1, ReadTypes
<1>3. p \in Packet
  BY <1>2, CommandArgs DEF Packet
<1> HIDE DEF p
<1>4. UNCHANGED <<toMan, dir>> /\ FlagTypes'
  BY DEF StartRegister, Types, FlagTypes
<1>5. FreshFor("waitRegister")'
  BY DEF FreshFor, StartRegister
<1>6. ReadCommand({"p", "r", "l", "P", "D"})
  BY <1>1 DEF ReadCommand
<1>q. QED
  BY <1>1, <1>2, <1>3, <1>4, <1>5, <1>6, StepStarted DEF WaitType

LEMMA StepStartLookup ==
  ASSUME Types, StartLookup
  PROVE  HostGoal
<1> DEFINE p == [type |-> "lookup", to |-> toHost[1].arg]
           c == toHost[1].cmd
<1>1. /\ ReadCommand({"l", "P", "D"})
      /\ jobs' = ControlQueue \o TwoJobs(p, WaitFor(c), toHost[1])
  BY DEF StartLookup
<1>2. toHost[1] \in Command /\ c \in {"l", "P", "D"}
  BY <1>1, ReadTypes
<1>3. p \in Packet
  BY <1>2, CommandArgs DEF Packet
<1> HIDE DEF p
<1>4. UNCHANGED <<toMan, dir>> /\ FlagTypes' /\ lookupReceived' = FALSE
  BY DEF StartLookup, LookupFlags, Types, FlagTypes
<1>5. ReadCommand({"p", "r", "l", "P", "D"})
  BY <1>1 DEF ReadCommand
<1>6. CASE c = "l"
  <2>1. FreshFor("waitLookup")' /\ WaitFor(c) = "waitLookup"
    BY <1>4, <1>6 DEF FreshFor, WaitFor
  <2>q. QED
    BY <1>1, <1>2, <1>3, <1>4, <1>5, <1>6, <2>1, StepStarted DEF WaitType
<1>7. CASE c = "P"
  <2>1. FreshFor("waitDnsPing")' /\ WaitFor(c) = "waitDnsPing"
    BY <1>4, <1>7 DEF FreshFor, WaitFor
  <2>q. QED
    BY <1>1, <1>2, <1>3, <1>4, <1>5, <1>7, <2>1, StepStarted DEF WaitType
<1>8. CASE c = "D"
  <2>1. FreshFor("waitDownload")' /\ WaitFor(c) = "waitDownload"
    BY <1>4, <1>8 DEF FreshFor, WaitFor
  <2>q. QED
    BY <1>1, <1>2, <1>3, <1>4, <1>5, <1>8, <2>1, StepStarted DEF WaitType
<1>q. QED
  BY <1>2, <1>6, <1>7, <1>8

--------------------------------------------------------------------------------
(* The port.                                                                    *)

LEMMA PollTypes ==
  ASSUME Types, Poll
  PROVE  /\ ConsoleTypes' /\ UNCHANGED <<waiting, user, issued, unwaited, toHost, toMan>>
         /\ (net' \subseteq net /\ incoming' \in 0 .. MaxIncoming) => HostTypes'
BY DEF Types, ConsoleTypes, HostTypes, Poll, console

\* The waits stay, and stay fresh.
LEMMA PollGoal ==
  ASSUME Types, Poll, Same(jobs, jobs'), net' \subseteq net,
         incoming' \in 0 .. MaxIncoming, FlagTypes', FreshWaits => FreshWaits'
  PROVE  HostGoal
<1>1. Types'
  BY PollTypes, SameWaits DEF Types
<1>2. Move
  BY PollTypes, SameWaits DEF Move, Stay
<1>q. QED
  BY <1>1, <1>2 DEF HostGoal

LEMMA StepPollNothing ==
  ASSUME Types, PollNothing
  PROVE  HostGoal
<1>1. Same(jobs, jobs') /\ net' = net /\ incoming' = incoming /\ UNCHANGED flags /\ Poll
  BY DEF PollNothing, Same, Types
<1>2. FlagTypes' /\ (FreshWaits => FreshWaits')
  BY <1>1, SameWaits, FlagTypesKept DEF Types
<1>q. QED
  BY <1>1, <1>2, PollGoal DEF Types, HostTypes

LEMMA StepPollForeign ==
  ASSUME Types, NEW type \in {"pingReply", "upload", "file"}, PollForeign(type)
  PROVE  HostGoal
<1> DEFINE x == [type |-> type]
<1>1. /\ jobs' = Append(jobs, x) /\ net' = net /\ UNCHANGED flags /\ Poll
      /\ x \in GoodJob \ WaitJobs
  BY JobsMade DEF PollForeign
<1> HIDE DEF x
<1>2. Same(jobs, jobs')
  BY <1>1, AddOther DEF Types
<1>3. FlagTypes' /\ (FreshWaits => FreshWaits')
  BY <1>1, <1>2, SameWaits, FlagTypesKept DEF Types
<1>4. incoming' \in 0 .. MaxIncoming
  BY BoundAssumption DEF PollForeign, Types, HostTypes
<1>q. QED
  BY <1>1, <1>2, <1>3, <1>4, PollGoal

\* An answer: the flag comes with something in the buffer.
LEMMA StepPollAnswer ==
  ASSUME Types, NEW p \in net, NEW type, PollAnswer(type, p), FlagTypes',
         \A t : FreshFor(t) => FreshFor(t)'
  PROVE  HostGoal
<1>1. Same(jobs, jobs') /\ net' \subseteq net /\ Poll /\ incoming' \in 0 .. MaxIncoming
  BY DEF PollAnswer, Same, Types, HostTypes
<1>2. FreshWaits => FreshWaits'
  BY <1>1 DEF FreshWaits, Same
<1>q. QED
  BY <1>1, <1>2, PollGoal

LEMMA StepPollPong ==
  ASSUME Types, NEW p \in net, PollPong(p)
  PROVE  HostGoal
<1>1. \A t : FreshFor(t) => FreshFor(t)'
  BY DEF PollPong, FreshFor
<1>2. PollAnswer("ping", p) /\ FlagTypes'
  BY DEF PollPong, Types, FlagTypes
<1>q. QED
  BY <1>1, <1>2, StepPollAnswer

LEMMA StepPollRegistered ==
  ASSUME Types, NEW p \in net, NEW a \in Registration, PollRegistered(p, a)
  PROVE  HostGoal
<1>1. \A t : FreshFor(t) => FreshFor(t)'
  BY DEF PollRegistered, FreshFor, Registration
<1>2. PollAnswer("register", p) /\ FlagTypes'
  BY DEF PollRegistered, Types, FlagTypes
<1>q. QED
  BY <1>1, <1>2, StepPollAnswer

LEMMA StepPollLookedUp ==
  ASSUME Types, NEW p \in net, PollLookedUp(p)
  PROVE  HostGoal
<1>1. p.to \in Name
  BY DEF PollLookedUp, PollAnswer, Types, HostTypes, Packet
<1>2. lookupBuffer' \in Target \cup {"FAIL"} /\ lookupBuffer' # "zeroed"
  BY <1>1, SetAssumption DEF PollLookedUp
<1>3. \A t : FreshFor(t) => FreshFor(t)'
  BY <1>2 DEF PollLookedUp, FreshFor
<1>4. PollAnswer("lookup", p) /\ FlagTypes'
  BY <1>2 DEF PollLookedUp, Types, FlagTypes
<1>q. QED
  BY <1>3, <1>4, StepPollAnswer

--------------------------------------------------------------------------------
(* One job.                                                                     *)

LEMMA TakeTypes ==
  ASSUME Types, NEW t, Take(t)
  PROVE  /\ UNCHANGED <<waiting, user, issued, unwaited, toHost>>
         /\ jobs # <<>> /\ Job1 \in GoodJob /\ Job1.type = t /\ Job1 = Head(jobs)
         /\ t \in WaitType <=> Job1 \in WaitJobs
         /\ toMan' \in Seq(Reply) => ConsoleTypes'
         /\ net' \subseteq Packet /\ downloads' \subseteq Command \X Target => HostTypes'
<1>1. UNCHANGED <<waiting, user, issued, unwaited, toHost>>
  BY DEF Take
<1>2. jobs # <<>> /\ Job1 \in GoodJob /\ Job1.type = t /\ Job1 = Head(jobs)
  BY DEF Take, Job1, Types
<1>3. t \in WaitType <=> Job1 \in WaitJobs
  BY <1>2 DEF WaitJobs
<1>4. toMan' \in Seq(Reply) => ConsoleTypes'
  BY <1>1 DEF Types, ConsoleTypes
<1>5. net' \subseteq Packet /\ downloads' \subseteq Command \X Target => HostTypes'
  BY DEF Take, Types, HostTypes
<1>q. QED
  BY <1>1, <1>2, <1>3, <1>4, <1>5

\* A job that is no wait.
LEMMA TakeGoal ==
  ASSUME Types, NEW t, Take(t), t \notin WaitType, Same(Tail(jobs), jobs'),
         UNCHANGED <<toMan, downloads>>, UNCHANGED flags, net' \subseteq Packet
  PROVE  HostGoal
<1>1. Same(jobs, Tail(jobs))
  BY TakeTypes, TakeOther DEF Types
<1>2. Same(jobs, jobs')
  BY <1>1 DEF Same
<1>3. Types'
  BY <1>2, TakeTypes, SameWaits, FlagTypesKept DEF Types, ConsoleTypes, HostTypes
<1>4. Move
  BY <1>2, TakeTypes, SameWaits DEF Move, Stay
<1>q. QED
  BY <1>2, <1>3, <1>4, SameWaits DEF HostGoal

\* The queue without its head is a queue.
LEMMA TailSame ==
  ASSUME Types, jobs # <<>>
  PROVE  Tail(jobs) \in Seq(GoodJob) /\ Same(Tail(jobs), Tail(jobs))
BY DEF Types, Same

LEMMA StepExecuteNothing ==
  ASSUME Types, ExecuteNothing
  PROVE  HostGoal
<1>1. Same(jobs, jobs') /\ UNCHANGED flags
  BY DEF ExecuteNothing, Same, Types
<1>2. Types'
  BY <1>1, SameWaits, FlagTypesKept
     DEF ExecuteNothing, Types, ConsoleTypes, HostTypes, console
<1>3. Move
  BY <1>1, SameWaits DEF ExecuteNothing, Move, Stay, console
<1>q. QED
  BY <1>1, <1>2, <1>3, SameWaits DEF HostGoal

LEMMA StepExecuteSend ==
  ASSUME Types, ExecuteSend
  PROVE  HostGoal
<1>1. /\ Take("send") /\ Same(Tail(jobs), jobs') /\ UNCHANGED <<toMan, downloads>>
      /\ UNCHANGED flags
  BY TakeTypes, TailSame DEF ExecuteSend
<1>2. net' \subseteq Packet
  BY DEF ExecuteSend, Types, HostTypes
<1>q. QED
  BY <1>1, <1>2, TakeGoal DEF WaitType

LEMMA StepExecutePingReply ==
  ASSUME Types, ExecutePingReply
  PROVE  HostGoal
<1>1. /\ Take("pingReply") /\ jobs' = Append(Tail(jobs), SendJob(<<>>))
      /\ UNCHANGED <<toMan, net, downloads>> /\ UNCHANGED flags
  BY DEF ExecutePingReply
<1>2. Tail(jobs) \in Seq(GoodJob) /\ SendJob(<<>>) \in GoodJob \ WaitJobs
  BY <1>1, TakeTypes, TailSame, JobsMade
<1>3. Same(Tail(jobs), jobs')
  BY <1>1, <1>2, AddOther
<1>q. QED
  BY <1>1, <1>3, TakeGoal DEF WaitType, Types, HostTypes

LEMMA StepExecuteUpload ==
  ASSUME Types, ExecuteUpload
  PROVE  HostGoal
<1>1. /\ Take("upload") /\ UNCHANGED <<toMan, net, downloads>> /\ UNCHANGED flags
      /\ \/ jobs' = Tail(jobs)
         \/ \E n \in 2 .. MaxParts : jobs' = Tail(jobs) \o [i \in 1 .. n |-> SendJob(<<>>)]
  BY DEF ExecuteUpload
<1>2. Tail(jobs) \in Seq(GoodJob) /\ Same(Tail(jobs), Tail(jobs))
  BY <1>1, TakeTypes, TailSame
<1>3. CASE \E n \in 2 .. MaxParts : jobs' = Tail(jobs) \o [i \in 1 .. n |-> SendJob(<<>>)]
  <2>1. PICK n \in 2 .. MaxParts : jobs' = Tail(jobs) \o [i \in 1 .. n |-> SendJob(<<>>)]
    BY <1>3
  <2>2. n \in Nat
    BY BoundAssumption
  <2>q. QED
    BY <1>1, <1>2, <2>1, <2>2, AddParts, TakeGoal DEF WaitType, Types, HostTypes
<1>4. CASE jobs' = Tail(jobs)
  BY <1>1, <1>2, <1>4, TakeGoal DEF WaitType, Types, HostTypes
<1>q. QED
  BY <1>1, <1>3, <1>4

LEMMA StepExecuteFile ==
  ASSUME Types, ExecuteFile
  PROVE  HostGoal
<1>1. /\ Take("file") /\ Same(Tail(jobs), jobs') /\ UNCHANGED <<toMan, net, downloads>>
      /\ UNCHANGED flags
  BY TakeTypes, TailSame DEF ExecuteFile
<1>q. QED
  BY <1>1, TakeGoal DEF WaitType, Types, HostTypes

--------------------------------------------------------------------------------
(* Jobs that wait.                                                              *)

\* A wait ends with a reply.
LEMMA StepTell ==
  ASSUME Types, NEW t \in WaitType, Take(t), NEW about, NEW says, Tell(about, says),
         [about |-> about, says |-> says, for |-> Job1.for] \in Reply,
         FlagTypes', UNCHANGED <<net, downloads>>
  PROVE  HostGoal
<1> DEFINE r == [about |-> about, says |-> says, for |-> Job1.for]
<1>1. r \in Reply /\ r.for = Job1.for /\ toMan' = Append(toMan, r) /\ jobs' = Tail(jobs)
  BY DEF Tell
<1> HIDE DEF r
<1>2. jobs # <<>> /\ Head(jobs) \in WaitJobs /\ Same(Tail(jobs), jobs') /\ Job1 = Head(jobs)
  BY <1>1, TakeTypes, TailSame
<1>3. /\ jobs' \in Seq(GoodJob)
      /\ Size(jobs) = Size(jobs') + 1 /\ CausesOf(jobs') \subseteq CausesOf(jobs)
      /\ Job1.for \in CausesOf(jobs)
      /\ Size(jobs) <= 1 => FreshWaits'
  BY <1>2, LessWaits
<1>4. toMan' \in Seq(Reply)
  BY <1>1 DEF Types, ConsoleTypes
<1>5. Types'
  BY <1>3, <1>4, TakeTypes DEF Types, HostTypes
<1>6. AnsweredLate
  BY <1>1, <1>3, TakeTypes DEF AnsweredLate
<1>7. Len(toHost) + Size(jobs) <= 1 => Size(jobs) <= 1
  BY SizeType DEF Types, ConsoleTypes
<1>q. QED
  BY <1>3, <1>5, <1>6, <1>7, TakeTypes DEF HostGoal, Move

LEMMA TimeoutReply ==
  ASSUME NEW about \in {"ping", "register", "lookup"}, NEW c \in Command
  PROVE  [about |-> about, says |-> "timeout", for |-> c] \in Reply
BY DEF Reply

LEMMA StepWaitOn ==
  ASSUME Types, NEW t \in WaitType, Take(t),
         NEW about \in {"ping", "register", "lookup"}, WaitOn(about)
  PROVE  HostGoal
<1>1. /\ jobs # <<>> /\ Head(jobs) \in WaitJobs /\ Job1 = Head(jobs) /\ Job1.type = t
      /\ Job1.for \in Command
  BY TakeTypes, WaitParts
<1>2. UNCHANGED flags /\ UNCHANGED <<net, downloads>> /\ FlagTypes'
  BY FlagTypesKept DEF WaitOn, Types
<1>3. CASE Job1.timer > 1
  <2> DEFINE j == [Job1 EXCEPT !.timer = @ - 1]
  <2>1. j \in WaitJobs /\ j.type = Job1.type /\ j.for = Job1.for
    BY <1>1, <1>3, WaitParts
  <2>2. jobs' = Append(Tail(jobs), j) /\ toMan' = toMan
    BY <1>3 DEF WaitOn
  <2> HIDE DEF j
  <2>3. More(Tail(jobs), j, jobs')
    BY <1>1, <2>1, <2>2, TailSame, AddWait
  <2>4. /\ jobs' \in Seq(GoodJob)
        /\ Size(jobs') = Size(jobs) /\ CausesOf(jobs') \subseteq CausesOf(jobs)
        /\ FreshWaits => FreshWaits'
    BY <1>1, <1>2, <2>1, <2>3, NextWaits
  <2>5. Types'
    BY <1>2, <2>2, <2>4, TakeTypes DEF Types, ConsoleTypes, HostTypes
  <2>6. Stay
    BY <2>2, <2>4, TakeTypes DEF Stay
  <2>q. QED
    BY <2>4, <2>5, <2>6, TakeTypes DEF HostGoal, Move
<1>4. CASE ~(Job1.timer > 1)
  <2>1. Tell(about, "timeout")
    BY <1>4 DEF WaitOn
  <2>q. QED
    BY <1>1, <1>2, <2>1, TimeoutReply, StepTell
<1>q. QED
  BY <1>3, <1>4

LEMMA StepWaitPing ==
  ASSUME Types, WaitPing
  PROVE  HostGoal
<1>1. Take("waitPing") /\ "waitPing" \in WaitType
  BY DEF WaitPing, WaitType
<1>2. Job1.for \in Command
  BY <1>1, TakeTypes, WaitParts
<1>3. CASE pingReceived
  <2>1. Tell("ping", "acked") /\ UNCHANGED flags /\ UNCHANGED <<net, downloads>>
    BY <1>3 DEF WaitPing
  <2>2. [about |-> "ping", says |-> "acked", for |-> Job1.for] \in Reply
    BY <1>2 DEF Reply
  <2>q. QED
    BY <1>1, <2>1, <2>2, FlagTypesKept, StepTell DEF Types
<1>4. CASE ~pingReceived
  BY <1>1, <1>4, StepWaitOn DEF WaitPing
<1>q. QED
  BY <1>3, <1>4

LEMMA StepWaitRegister ==
  ASSUME Types, WaitRegister
  PROVE  HostGoal
<1>1. Take("waitRegister") /\ "waitRegister" \in WaitType
  BY DEF WaitRegister, WaitType
<1>2. Job1.for \in Command
  BY <1>1, TakeTypes, WaitParts
<1>3. CASE registerReceived
  <2>1. Tell("register", Says) /\ UNCHANGED <<net, downloads>> /\ FlagTypes'
    BY <1>3 DEF WaitRegister, Types, FlagTypes
  <2>2. [about |-> "register", says |-> Says, for |-> Job1.for] \in Reply
    BY <1>2 DEF Reply, Says
  <2>q. QED
    BY <1>1, <2>1, <2>2, StepTell
<1>4. CASE ~registerReceived
  BY <1>1, <1>4, StepWaitOn DEF WaitRegister
<1>q. QED
  BY <1>3, <1>4

LEMMA ResponseType ==
  ASSUME Types
  PROVE  LookupResponse \in Target \cup {"FAIL"}
BY SetAssumption DEF LookupResponse, Types, FlagTypes

LEMMA StepWaitLookup ==
  ASSUME Types, WaitLookup
  PROVE  HostGoal
<1>1. Take("waitLookup") /\ "waitLookup" \in WaitType
  BY DEF WaitLookup, WaitType
<1>2. Job1.for \in Command
  BY <1>1, TakeTypes, WaitParts
<1>3. CASE lookupReceived
  <2>1. Tell("lookup", LookupResponse) /\ UNCHANGED <<net, downloads>> /\ FlagTypes'
    BY <1>3 DEF WaitLookup, Types, FlagTypes
  <2>2. [about |-> "lookup", says |-> LookupResponse, for |-> Job1.for] \in Reply
    BY <1>2, ResponseType DEF Reply
  <2>q. QED
    BY <1>1, <2>1, <2>2, StepTell
<1>4. CASE ~lookupReceived
  BY <1>1, <1>4, StepWaitOn DEF WaitLookup
<1>q. QED
  BY <1>3, <1>4

\* A ping takes over, for the same command.
LEMMA StepWaitDnsPing ==
  ASSUME Types, WaitDnsPing
  PROVE  HostGoal
<1>1. Take("waitDnsPing") /\ "waitDnsPing" \in WaitType
  BY DEF WaitDnsPing, WaitType
<1>2. /\ jobs # <<>> /\ Head(jobs) \in WaitJobs /\ Job1 = Head(jobs)
      /\ Job1.for \in Command
  BY <1>1, TakeTypes, WaitParts
<1>3. CASE ~lookupReceived
  BY <1>1, <1>3, StepWaitOn DEF WaitDnsPing
<1>4. CASE lookupReceived /\ LookupResponse = "FAIL"
  <2>1. Tell("lookup", "FAIL") /\ UNCHANGED <<net, downloads>> /\ FlagTypes'
    BY <1>4 DEF WaitDnsPing, LookupDone, Types, FlagTypes
  <2>2. [about |-> "lookup", says |-> "FAIL", for |-> Job1.for] \in Reply
    BY <1>2 DEF Reply
  <2>q. QED
    BY <1>1, <2>1, <2>2, StepTell
<1>5. CASE lookupReceived /\ LookupResponse # "FAIL"
  <2> DEFINE p == [type |-> "ping", to |-> LookupResponse]
             a == SendJob(<<p>>)
             j == WaitJob("waitPing", Job1.for)
  <2>1. p \in Packet
    BY <1>5, ResponseType DEF Packet
  <2>2. jobs' = Tail(jobs) \o <<a, j>>
    BY <1>5 DEF WaitDnsPing, TwoJobs
  <2>3. UNCHANGED <<toMan, net, downloads>> /\ FlagTypes'
    BY <1>5 DEF WaitDnsPing, LookupDone, Types, FlagTypes
  <2> HIDE DEF p
  <2>4. /\ a \in GoodJob \ WaitJobs /\ j \in WaitJobs
        /\ j.type = "waitPing" /\ j.for = Job1.for
    BY <1>2, <2>1, JobsMade DEF WaitType
  <2> HIDE DEF a, j
  <2>5. More(Tail(jobs), j, jobs')
    BY <1>2, <2>2, <2>4, TailSame, AddTwo
  <2>6. FreshFor("waitPing")'
    BY DEF FreshFor
  <2>7. /\ jobs' \in Seq(GoodJob)
        /\ Size(jobs') = Size(jobs) /\ CausesOf(jobs') \subseteq CausesOf(jobs)
        /\ Size(jobs) <= 1 => FreshWaits'
    BY <1>2, <2>4, <2>5, <2>6, NextWaits
  <2>8. Types'
    BY <1>1, <2>3, <2>7, TakeTypes DEF Types, ConsoleTypes, HostTypes
  <2>9. Stay
    BY <1>1, <2>3, <2>7, TakeTypes DEF Stay
  <2>10. Len(toHost) + Size(jobs) <= 1 => Size(jobs) <= 1
    BY SizeType DEF Types, ConsoleTypes
  <2>q. QED
    BY <1>1, <2>7, <2>8, <2>9, <2>10, TakeTypes DEF HostGoal, Move
<1>q. QED
  BY <1>3, <1>4, <1>5

\* The request is sent, and no reply.
LEMMA StepWaitDownload ==
  ASSUME Types, WaitDownload
  PROVE  HostGoal
<1>1. Take("waitDownload") /\ "waitDownload" \in WaitType
  BY DEF WaitDownload, WaitType
<1>2. /\ jobs # <<>> /\ Head(jobs) \in WaitJobs /\ Job1 = Head(jobs)
      /\ Job1.for \in Command /\ Job1.for.cmd = "D"
  BY <1>1, TakeTypes, WaitParts
<1>3. CASE ~lookupReceived
  BY <1>1, <1>3, StepWaitOn DEF WaitDownload
<1>4. CASE lookupReceived /\ LookupResponse = "FAIL"
  <2>1. Tell("lookup", "FAIL") /\ UNCHANGED <<net, downloads>> /\ FlagTypes'
    BY <1>4 DEF WaitDownload, LookupDone, Types, FlagTypes
  <2>2. [about |-> "lookup", says |-> "FAIL", for |-> Job1.for] \in Reply
    BY <1>2 DEF Reply
  <2>q. QED
    BY <1>1, <2>1, <2>2, StepTell
<1>5. CASE lookupReceived /\ LookupResponse # "FAIL"
  <2>1. /\ jobs' = Append(Tail(jobs), SendJob(<<>>)) /\ UNCHANGED <<toMan, net>>
        /\ downloads' = downloads \cup {<<Job1.for, LookupResponse>>} /\ FlagTypes'
    BY <1>5 DEF WaitDownload, LookupDone, Types, FlagTypes
  <2>2. Same(Tail(jobs), jobs')
    BY <1>2, <2>1, TailSame, JobsMade, AddOther
  <2>3. /\ jobs' \in Seq(GoodJob)
        /\ Size(jobs) = Size(jobs') + 1 /\ CausesOf(jobs') \subseteq CausesOf(jobs)
        /\ Job1.for \in CausesOf(jobs)
        /\ Size(jobs) <= 1 => FreshWaits'
    BY <1>2, <2>2, LessWaits
  <2>4. downloads' \subseteq Command \X Target
    BY <1>2, <1>5, <2>1, ResponseType DEF Types, HostTypes
  <2>5. Types'
    BY <1>1, <2>1, <2>3, <2>4, TakeTypes DEF Types, ConsoleTypes, HostTypes
  <2>6. Dropped
    BY <1>1, <1>2, <2>1, <2>3, TakeTypes DEF Dropped
  <2>7. Len(toHost) + Size(jobs) <= 1 => Size(jobs) <= 1
    BY SizeType DEF Types, ConsoleTypes
  <2>q. QED
    BY <1>1, <2>3, <2>5, <2>6, <2>7, TakeTypes DEF HostGoal, Move
<1>q. QED
  BY <1>3, <1>4, <1>5

--------------------------------------------------------------------------------
(* All steps.                                                                   *)

LEMMA HostSteps ==
  ASSUME Types, HostStep
  PROVE  HostGoal
<1>1. CASE TopNoCommand \/ GetState \/ SetDir \/ GetDownload
  BY <1>1, StepTopNoCommand, StepGetState, StepSetDir, StepGetDownload
<1>2. CASE StartUpload \/ StartPing \/ StartRegister \/ StartLookup
  BY <1>2, StepStartUpload, StepStartPing, StepStartRegister, StepStartLookup
<1>3. CASE PollNothing \/ \E type \in {"pingReply", "upload", "file"} : PollForeign(type)
  BY <1>3, StepPollNothing, StepPollForeign
<1>4. CASE \/ \E p \in net : PollPong(p)
           \/ \E p \in net, a \in Registration : PollRegistered(p, a)
           \/ \E p \in net : PollLookedUp(p)
  BY <1>4, StepPollPong, StepPollRegistered, StepPollLookedUp
<1>5. CASE ExecuteNothing \/ ExecuteSend \/ ExecutePingReply \/ ExecuteUpload \/ ExecuteFile
  BY <1>5, StepExecuteNothing, StepExecuteSend, StepExecutePingReply,
     StepExecuteUpload, StepExecuteFile
<1>6. CASE WaitPing \/ WaitRegister \/ WaitLookup \/ WaitDnsPing \/ WaitDownload
  BY <1>6, StepWaitPing, StepWaitRegister, StepWaitLookup, StepWaitDnsPing,
     StepWaitDownload
<1>q. QED
  BY <1>1, <1>2, <1>3, <1>4, <1>5, <1>6 DEF HostStep

--------------------------------------------------------------------------------
(* The invariants.                                                              *)

WaitedCommand == {c \in Command : c.cmd \in Waited}
DownloadCommand == {c \in Command : c.cmd = "D"}

\* StraysFromDownloads, with counts.
Strays ==
  Count(toHost, WaitedCommand) + Size(jobs) + Len(toMan)
    <= Len(waiting) + unwaited - Count(toHost, DownloadCommand)

\* OneReply; that nothing else is outstanding than the awaited command, when
\* there is as much of it as is awaited, is all there is to show.
Outstanding == Items(toHost) \cup CausesOf(jobs) \cup {r.for : r \in Items(toMan)}
Single ==
  /\ Outstanding \subseteq Items(waiting)
  /\ Len(toHost) + Size(jobs) + Len(toMan) = Len(waiting)

IInv == Types /\ Strays /\ (Patient => Single /\ FreshWaits)

\* Types of what is counted.
LEMMA Numbers ==
  ASSUME Types
  PROVE  /\ Count(toHost, WaitedCommand) \in Nat /\ Count(toHost, DownloadCommand) \in Nat
         /\ Size(jobs) \in Nat /\ Len(toMan) \in Nat /\ Len(toHost) \in Nat
         /\ Len(waiting) \in {0, 1} /\ unwaited \in Nat
         /\ Len(waiting) = 0 <=> waiting = <<>>
         /\ \A c \in Items(waiting) : c.cmd \in Waited
<1>1. Count(toHost, WaitedCommand) \in Nat /\ Count(toHost, DownloadCommand) \in Nat
  BY CountType DEF Types, ConsoleTypes
<1>2. Size(jobs) \in Nat /\ Len(toMan) \in Nat /\ Len(toHost) \in Nat /\ unwaited \in Nat
  BY SizeType, BoundAssumption DEF Types, ConsoleTypes
<1>3. CASE waiting = <<>>
  BY <1>1, <1>2, <1>3 DEF Items
<1>4. CASE waiting \in {<<c>> : c \in WaitedCommand}
  <2>1. PICK c \in WaitedCommand : waiting = <<c>>
    BY <1>4
  <2>2. Len(waiting) = 1 /\ waiting # <<>> /\ Items(waiting) = {c}
    BY <2>1 DEF Items
  <2>q. QED
    BY <1>1, <1>2, <2>1, <2>2 DEF WaitedCommand
<1>q. QED
  BY <1>3, <1>4 DEF Types, ConsoleTypes, WaitedCommand

\* A list without items counts nothing.
LEMMA CountEmpty ==
  /\ Items(<<>>) = {} /\ \A W : Count(<<>>, W) = 0
  /\ WaitsOf(<<>>) = {} /\ CausesOf(<<>>) = {} /\ Size(<<>>) = 0
<1>1. Items(<<>>) = {} /\ \A W : Places(<<>>, W) = {}
  BY DEF Items, Places
<1>q. QED
  BY <1>1, FS_EmptySet DEF Count, WaitsOf, CausesOf, Size

LEMMA InitIInv ==
  ASSUME Init
  PROVE  IInv
<1>1. Types
  <2>1. ConsoleTypes
    BY BoundAssumption DEF Init, ConsoleTypes
  <2>2. FlagTypes
    BY DEF Init, FlagTypes
  <2>3. HostTypes
    BY BoundAssumption DEF Init, HostTypes
  <2>4. jobs \in Seq(GoodJob)
    BY DEF Init
  <2>q. QED
    BY <2>1, <2>2, <2>3, <2>4 DEF Types
<1>2. /\ toHost = <<>> /\ jobs = <<>> /\ toMan = <<>> /\ waiting = <<>>
      /\ unwaited = 0 /\ Len(<<>>) = 0
  BY DEF Init
<1>3. Strays
  BY <1>2, CountEmpty DEF Strays
<1>4. Single
  BY <1>2, CountEmpty DEF Single, Outstanding
<1>5. FreshWaits
  BY <1>2, CountEmpty DEF FreshWaits
<1>q. QED
  BY <1>1, <1>3, <1>4, <1>5 DEF IInv

LEMMA MoveStrays ==
  ASSUME Types, Types', Move, Strays
  PROVE  Strays'
<1> DEFINE w == Count(toHost, WaitedCommand)
           d == Count(toHost, DownloadCommand)
<1>1. /\ w \in Nat /\ d \in Nat /\ Size(jobs) \in Nat /\ Len(toMan) \in Nat
      /\ Len(waiting) \in {0, 1} /\ unwaited \in Nat
      /\ w + Size(jobs) + Len(toMan) <= Len(waiting) + unwaited - d
      /\ waiting' = waiting /\ unwaited' = unwaited /\ Size(jobs') \in Nat
  BY Numbers, SizeType DEF Strays, Move, Types
<1>2. /\ toHost # <<>> /\ toHost[1].cmd \in Waited => w >= 1
      /\ toHost # <<>> /\ toHost[1].cmd = "D" => d >= 1
  <2>1. toHost \in Seq(Command) /\ (toHost # <<>> => toHost[1] \in Command)
    BY DEF Types, ConsoleTypes
  <2>q. QED
    BY <2>1, CountHead DEF WaitedCommand, DownloadCommand
<1>3. Strays' <=> Count(toHost', WaitedCommand) + Size(jobs') + Len(toMan')
                     <= Len(waiting) + unwaited - Count(toHost', DownloadCommand)
  BY <1>1 DEF Strays
<1>4. toHost' = <<>> => Count(toHost', WaitedCommand) = 0
                        /\ Count(toHost', DownloadCommand) = 0
  BY CountEmpty
<1>5. toHost' = toHost => Count(toHost', WaitedCommand) = w
                          /\ Count(toHost', DownloadCommand) = d
  OBVIOUS
<1> HIDE DEF w, d
<1>6. \A r \in Reply : toMan' = Append(toMan, r) => Len(toMan') = Len(toMan) + 1
  BY DEF Types, ConsoleTypes
<1>7. CASE Stay
  BY <1>1, <1>3, <1>5, <1>7 DEF Stay
<1>8. CASE Ignored
  BY <1>1, <1>3, <1>4, <1>8 DEF Ignored
<1>9. CASE Told
  BY <1>1, <1>2, <1>3, <1>4, <1>6, <1>9 DEF Told
<1>10. CASE Started
  BY <1>1, <1>2, <1>3, <1>4, <1>10 DEF Started
<1>11. CASE AnsweredLate
  BY <1>1, <1>3, <1>5, <1>6, <1>11 DEF AnsweredLate
<1>12. CASE Dropped
  BY <1>1, <1>3, <1>5, <1>12 DEF Dropped
<1>q. QED
  BY <1>7, <1>8, <1>9, <1>10, <1>11, <1>12 DEF Move

\* For a patient user no command is ignored and no wait is dropped.
LEMMA MoveSingle ==
  ASSUME Types, Types', Move, Single
  PROVE  Single'
<1>1. /\ Size(jobs) \in Nat /\ Len(toMan) \in Nat /\ Len(toHost) \in Nat
      /\ Len(waiting) \in {0, 1} /\ waiting' = waiting /\ Size(jobs') \in Nat
      /\ Len(toHost) + Size(jobs) + Len(toMan) = Len(waiting)
      /\ Outstanding \subseteq Items(waiting)
      /\ \A c \in Outstanding : c.cmd \in Waited
  BY Numbers, SizeType DEF Single, Move, Types
<1>2. toHost # <<>> => Len(toHost) = 1 /\ toHost[1] \in Outstanding
  <2>1. toHost \in Seq(Command)
    BY DEF Types, ConsoleTypes
  <2>2. toHost # <<>> => Len(toHost) # 0 /\ toHost[1] \in Items(toHost)
    BY <2>1 DEF Items
  <2>3. Len(toHost) # 0 => Len(toHost) = 1
    <3>1. /\ Size(jobs) \in Nat /\ Len(toMan) \in Nat /\ Len(toHost) \in Nat
          /\ Len(waiting) = 0 \/ Len(waiting) = 1
          /\ Len(toHost) + Size(jobs) + Len(toMan) = Len(waiting)
      BY <1>1, Zenon
    <3>2. \A a, b, c \in Nat : \A w : w = 0 \/ w = 1 =>
            (a + b + c = w => a = 0 \/ a = 1)
      OBVIOUS
    <3>q. QED
      BY <3>1, <3>2, Zenon
  <2>4. Items(toHost) \subseteq Outstanding
    BY DEF Outstanding
  <2>q. QED
    BY <2>2, <2>3, <2>4
<1>3. toHost' = <<>> => Len(toHost') = 0 /\ Items(toHost') = {}
  BY CountEmpty
<1>4. \A r \in Reply : toMan' = Append(toMan, r) =>
        Len(toMan') = Len(toMan) + 1 /\ Items(toMan') = Items(toMan) \cup {r}
  <2>1. toMan \in Seq(Reply)
    BY DEF Types, ConsoleTypes
  <2>q. QED
    BY <2>1, CountAppend
<1>5. /\ Len(toHost') + Size(jobs') + Len(toMan') = Len(waiting)
      /\ Outstanding' \subseteq Outstanding
      => Single'
  BY <1>1 DEF Single
<1>6. CASE Stay
  BY <1>1, <1>5, <1>6 DEF Stay, Outstanding
<1>7. CASE Ignored
  BY <1>1, <1>2, <1>7 DEF Ignored
<1>8. CASE Told
  <2>1. PICK r \in Reply : r.for = toHost[1] /\ toMan' = Append(toMan, r)
    BY <1>8 DEF Told
  <2>2. Outstanding' \subseteq Outstanding
    BY <1>2, <1>3, <1>4, <1>8, <2>1 DEF Told, Outstanding
  <2>q. QED
    BY <1>1, <1>2, <1>3, <1>4, <1>5, <1>8, <2>1, <2>2 DEF Told
<1>9. CASE Started
  <2>1. Outstanding' \subseteq Outstanding
    BY <1>2, <1>3, <1>9 DEF Started, Outstanding
  <2>q. QED
    BY <1>1, <1>2, <1>3, <1>5, <1>9, <2>1 DEF Started
<1>10. CASE AnsweredLate
  <2>1. PICK r \in Reply : r.for \in CausesOf(jobs) /\ toMan' = Append(toMan, r)
    BY <1>10 DEF AnsweredLate
  <2>2. Outstanding' \subseteq Outstanding
    BY <1>4, <1>10, <2>1 DEF AnsweredLate, Outstanding
  <2>q. QED
    BY <1>1, <1>4, <1>5, <1>10, <2>1, <2>2 DEF AnsweredLate
<1>11. CASE Dropped
  BY <1>1, <1>11 DEF Dropped, Outstanding, Waited
<1>q. QED
  BY <1>6, <1>7, <1>8, <1>9, <1>10, <1>11 DEF Move

\* The user enters a command.
LEMMA StepEnter ==
  ASSUME IInv, NEW c \in Command, c.cmd \in user, Enter(c)
  PROVE  IInv'
<1>1. /\ waiting = <<>> /\ toHost' = Append(toHost, c) /\ toMan' = toMan /\ jobs' = jobs
      /\ user' = user /\ UNCHANGED flags
      /\ unwaited' = IF c.cmd = "D" THEN unwaited + 1 ELSE unwaited
      /\ waiting' = IF c.cmd \in Waited THEN <<c>> ELSE <<>>
  BY DEF Enter
<1>2. Types /\ toHost \in Seq(Command)
  BY DEF IInv, Types, ConsoleTypes
<1>3. Types'
  <2>1. ConsoleTypes'
    BY <1>1, <1>2, BoundAssumption DEF Enter, Types, ConsoleTypes
  <2>2. FlagTypes' /\ HostTypes'
    BY <1>1, <1>2, FlagTypesKept DEF Enter, Types, HostTypes
  <2>q. QED
    BY <1>1, <1>2, <2>1, <2>2 DEF Types
<1>4. /\ Items(toHost') = Items(toHost) \cup {c}
      /\ Len(toHost') = Len(toHost) + 1
      /\ Count(toHost', WaitedCommand) =
           Count(toHost, WaitedCommand) + IF c.cmd \in Waited THEN 1 ELSE 0
      /\ Count(toHost', DownloadCommand) =
           Count(toHost, DownloadCommand) + IF c.cmd = "D" THEN 1 ELSE 0
  BY <1>1, <1>2, CountAppend DEF WaitedCommand, DownloadCommand
<1>5. /\ Len(waiting) = 0 /\ Len(waiting') = IF c.cmd \in Waited THEN 1 ELSE 0
      /\ Items(waiting) = {}
      /\ c.cmd \in Waited => Items(waiting') = {c}
  BY <1>1, CountEmpty DEF Items
<1>6. Strays'
  <2>1. /\ Count(toHost, WaitedCommand) + Size(jobs) + Len(toMan)
             <= Len(waiting) + unwaited - Count(toHost, DownloadCommand)
        /\ Size(jobs') = Size(jobs) /\ Len(toMan') = Len(toMan)
    BY <1>1 DEF IInv, Strays
  <2>2. CASE c.cmd \in Waited
    <3>1. c.cmd # "D"
      BY <2>2 DEF Waited
    <3>q. QED
      BY <1>1, <1>2, <1>4, <1>5, <2>1, <2>2, <3>1, Numbers DEF Strays
  <2>3. CASE c.cmd \notin Waited /\ c.cmd = "D"
    BY <1>1, <1>2, <1>4, <1>5, <2>1, <2>3, Numbers DEF Strays
  <2>4. CASE c.cmd \notin Waited /\ c.cmd # "D"
    BY <1>1, <1>2, <1>4, <1>5, <2>1, <2>4, Numbers DEF Strays
  <2>q. QED
    BY <2>2, <2>3, <2>4
<1>7. ASSUME Patient' PROVE Single' /\ FreshWaits'
  <2>1. Single /\ FreshWaits /\ c.cmd \in Waited
    BY <1>1, <1>7 DEF Patient, IInv
  <2>2. Outstanding' \subseteq Items(waiting')
    <3>1. Outstanding' = Items(toHost') \cup CausesOf(jobs) \cup {r.for : r \in Items(toMan)}
      BY <1>1 DEF Outstanding
    <3>2. Outstanding = {}
      BY <1>5, <2>1 DEF Single
    <3>3. Outstanding' = {c}
      BY <1>4, <3>1, <3>2 DEF Outstanding
    <3>q. QED
      BY <1>5, <2>1, <3>3
  <2>3. Len(toHost') + Size(jobs') + Len(toMan') = Len(waiting')
    BY <1>1, <1>2, <1>4, <1>5, <2>1, Numbers DEF Single
  <2>4. FreshWaits'
    BY <1>1, <2>1, FreshFlags DEF FreshWaits
  <2>q. QED
    BY <2>2, <2>3, <2>4 DEF Single
<1>q. QED
  BY <1>3, <1>6, <1>7 DEF IInv

\* The manager reads a reply; for a patient user it was all there was.
LEMMA StepReadReply ==
  ASSUME IInv, ReadReply
  PROVE  IInv'
<1>1. /\ waiting # <<>> /\ toMan # <<>> /\ waiting' = <<>> /\ toMan' = <<>>
      /\ toHost' = toHost /\ jobs' = jobs /\ user' = user /\ unwaited' = unwaited
      /\ UNCHANGED flags
  BY DEF ReadReply
<1>2. Types /\ toHost \in Seq(Command) /\ jobs \in Seq(GoodJob) /\ toMan \in Seq(Reply)
  BY DEF IInv, Types, ConsoleTypes
<1>3. Types'
  <2>1. ConsoleTypes'
    BY <1>1, <1>2 DEF ReadReply, Types, ConsoleTypes
  <2>2. FlagTypes' /\ HostTypes'
    BY <1>1, <1>2, FlagTypesKept DEF ReadReply, Types, HostTypes
  <2>q. QED
    BY <1>1, <1>2, <2>1, <2>2 DEF Types
<1>4. Len(toMan') = 0 /\ Len(waiting') = 0 /\ Len(toMan) # 0 /\ Items(waiting') = {}
  BY <1>1, <1>2, CountEmpty
<1>5. Len(waiting) = 1
  BY <1>1, <1>2, Numbers
<1>6. Strays'
  BY <1>1, <1>2, <1>4, <1>5, Numbers DEF IInv, Strays
<1>7. ASSUME Patient' PROVE Single' /\ FreshWaits'
  <2>1. Single /\ FreshWaits
    BY <1>1, <1>7 DEF Patient, IInv
  <2>2. Len(toHost) = 0 /\ Size(jobs) = 0
    BY <1>2, <1>4, <1>5, <2>1, Numbers DEF Single
  <2>3. Items(toHost) = {}
    BY <2>2 DEF Items
  <2>4. CausesOf(jobs) = {}
    BY <1>2, <2>2, CountZero DEF CausesOf, WaitsOf, Size
  <2>5. Outstanding' = {}
    BY <1>1, <2>3, <2>4, CountEmpty DEF Outstanding
  <2>6. FreshWaits'
    BY <1>1, <2>1, FreshFlags DEF FreshWaits
  <2>q. QED
    BY <1>1, <1>4, <2>2, <2>5, <2>6 DEF Single
<1>q. QED
  BY <1>3, <1>6, <1>7 DEF IInv

LEMMA StepIInv ==
  ASSUME IInv, [Next]_vars
  PROVE  IInv'
<1>1. CASE UserStep
  BY <1>1, StepEnter DEF UserStep
<1>2. CASE ReadReply
  BY <1>2, StepReadReply
<1>3. CASE HostStep
  <2>1. Types' /\ Move
    BY <1>3, HostSteps DEF HostGoal, IInv
  <2>2. Strays'
    BY <2>1, MoveStrays DEF IInv
  <2>3. ASSUME Patient' PROVE Single' /\ FreshWaits'
    <3>1. Types /\ Single /\ FreshWaits
      BY <2>1, <2>3 DEF Move, Patient, IInv
    <3>2. Len(toHost) + Size(jobs) <= 1
      BY <3>1, Numbers DEF Single
    <3>3. FreshWaits'
      BY <1>3, <3>1, <3>2, HostSteps DEF HostGoal
    <3>q. QED
      BY <2>1, <3>1, <3>3, MoveSingle
  <2>q. QED
    BY <2>1, <2>2, <2>3 DEF IInv
<1>4. CASE UNCHANGED vars
  <2>1. /\ UNCHANGED <<waiting, toHost, toMan, jobs, user, unwaited, issued>>
        /\ UNCHANGED flags
        /\ UNCHANGED <<dir, controlCount, scan, net, incoming, downloads>>
    BY <1>4 DEF vars, console
  <2>2. Types'
    BY <2>1, FlagTypesKept DEF IInv, Types, ConsoleTypes, HostTypes
  <2>3. Strays' /\ (Single => Single') /\ (Patient' => Patient)
    BY <2>1 DEF IInv, Strays, Single, Outstanding, Patient
  <2>4. FreshWaits => FreshWaits'
    BY <2>1, FreshFlags DEF FreshWaits
  <2>q. QED
    BY <2>2, <2>3, <2>4 DEF IInv
<1>q. QED
  BY <1>1, <1>2, <1>3, <1>4 DEF Next

LEMMA Invariance == Spec => []IInv
<1>1. IInv /\ [Next]_vars => IInv'
  BY StepIInv
<1>q. QED
  BY InitIInv, <1>1, PTL DEF Spec

\* The places of the waits are those that are counted.
LEMMA WaitPlaces ==
  ASSUME Types
  PROVE  /\ Waits = Places(jobs, WaitJobs) /\ Cardinality(Waits) = Size(jobs)
         /\ {jobs[i].for : i \in Waits} = CausesOf(jobs)
         /\ \A i \in Waits : jobs[i] \in WaitsOf(jobs)
<1>1. \A i \in 1 .. Len(jobs) : jobs[i] \in GoodJob
  BY DEF Types
<1>2. Waits = Places(jobs, WaitJobs)
  BY <1>1 DEF Waits, Places, WaitJobs
<1>q. QED
  BY <1>2 DEF Places, Size, Count, CausesOf, WaitsOf, Items

\* Every variable keeps its type, and every wait has time left.
THEOREM TypeCorrect == Spec => []TypeOK
<1>1. Types => TypeOK
  <2> SUFFICES ASSUME Types PROVE TypeOK
    OBVIOUS
  <2>1. /\ waiting \in {<<>>} \cup {<<c>> : c \in Command}
        /\ \A i \in 1 .. Len(toHost) : toHost[i] \in Command
        /\ \A i \in 1 .. Len(toMan) : toMan[i] \in Reply
        /\ user \in Users /\ unwaited <= issued /\ issued \in 0 .. MaxCommands
    BY BoundAssumption DEF Types, ConsoleTypes
  <2>2. \A i \in 1 .. Len(jobs) : jobs[i] \in GoodJob
    BY DEF Types
  <2>3. \A i \in 1 .. Len(jobs) :
          jobs[i] \in Job /\ (jobs[i].type \in WaitType => jobs[i].timer > 0)
    BY <2>2 DEF GoodJob
  <2>q. QED
    BY <2>1, <2>3 DEF Types, FlagTypes, HostTypes, TypeOK
<1>q. QED
  BY <1>1, Invariance, PTL DEF IInv

\* Replies that nobody waits for come from 'D' alone, whatever users enter and
\* whenever answers come.
THEOREM StraysBounded == Spec => []StraysFromDownloads
<1>1. IInv => StraysFromDownloads
  <2> SUFFICES ASSUME IInv PROVE StraysFromDownloads
    OBVIOUS
  <2>1. Types /\ Strays /\ \A i \in 1 .. Len(toHost) : toHost[i] \in Command
    BY DEF IInv, Types, ConsoleTypes
  <2>2. /\ {i \in 1 .. Len(toHost) : toHost[i].cmd \in Waited} = Places(toHost, WaitedCommand)
        /\ {i \in 1 .. Len(toHost) : toHost[i].cmd = "D"} = Places(toHost, DownloadCommand)
    BY <2>1 DEF Places, WaitedCommand, DownloadCommand
  <2>q. QED
    BY <2>1, <2>2, WaitPlaces DEF StraysFromDownloads, Strays, Count
<1>q. QED
  BY <1>1, Invariance, PTL

\* While the manager waits for a patient user, the command is in exactly one
\* place; at the prompt nothing is left over.
THEOREM OneReplyEach == Spec => []OneReply
<1>1. IInv => OneReply
  <2> SUFFICES ASSUME IInv, Patient PROVE OneReply
    BY DEF OneReply
  <2>1. Types /\ Single
    BY DEF IInv
  <2>2. /\ {toHost[i] : i \in 1 .. Len(toHost)} = Items(toHost)
        /\ {toMan[i].for : i \in 1 .. Len(toMan)} = {r.for : r \in Items(toMan)}
        /\ {waiting[i] : i \in 1 .. Len(waiting)} = Items(waiting)
    BY DEF Items
  <2>3. Items(waiting) \subseteq Outstanding
    <3>1. CASE Outstanding = {}
      <4>1. Items(toHost) = {} /\ Items(toMan) = {} /\ WaitsOf(jobs) = {}
        BY <3>1 DEF Outstanding, CausesOf
      <4>2. Len(toHost) = 0 /\ Len(toMan) = 0
        BY <4>1, <2>1, NoItems DEF Types, ConsoleTypes
      <4>3. Size(jobs) = 0
        BY <4>1, <2>1, CountNone DEF WaitsOf, Size, Types
      <4>4. Len(waiting) = 0
        BY <2>1, <4>2, <4>3 DEF Single
      <4>q. QED
        BY <4>4 DEF Items
    <3>2. CASE Outstanding # {}
      <4>1. PICK c : c \in Outstanding
        BY <3>2
      <4>2. c \in Items(waiting)
        BY <2>1, <4>1 DEF Single
      <4>3. Items(waiting) \subseteq {waiting[1]}
        BY <2>1, Numbers DEF Items
      <4>q. QED
        BY <4>1, <4>2, <4>3
    <3>q. QED
      BY <3>1, <3>2
  <2>4. Outstanding = Items(waiting)
    BY <2>1, <2>3 DEF Single
  <2>q. QED
    BY <2>1, <2>2, <2>4, WaitPlaces DEF OneReply, Single, Outstanding
<1>q. QED
  BY <1>1, Invariance, PTL

\* No waiting job of a patient user takes a zeroed buffer for an answer.
THEOREM FreshAnswers == Spec => []FreshBuffer
<1>1. IInv => FreshBuffer
  <2> SUFFICES ASSUME IInv, Patient, NEW i \in Waits
               PROVE  FreshFor(jobs[i].type)
    BY DEF FreshBuffer, FreshFor
  <2>q. QED
    BY WaitPlaces DEF IInv, FreshWaits
<1>q. QED
  BY <1>1, Invariance, PTL
================================================================================
