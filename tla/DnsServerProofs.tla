---------------------------- MODULE DnsServerProofs ----------------------------
(***************************************************************************)
(* Theorems about DnsServer, for any set of hosts and names, any lengths,  *)
(* any CONTROL_COUNT and any number of requests.                           *)
(***************************************************************************)
EXTENDS DnsServer, FiniteSetTheorems, WellFoundedInduction, TLAPS

--------------------------------------------------------------------------------
(* Strings and searches.                                                        *)

LEMMA ConstantTypes ==
  /\ Host \subseteq Nat /\ Garbage \notin Host
  /\ MAX_NAME_LENGTH \in Nat /\ PAYLOAD_MAX \in Nat /\ MAX_NAME_LENGTH < PAYLOAD_MAX
  /\ CONTROL_COUNT \in Nat /\ CONTROL_COUNT >= 1
BY BoundAssumption, GarbageAssumption

LEMMA NameType ==
  /\ \A n \in Name \cup Other : n \in Seq(Char)
  /\ \A n \in Name : Len(n) >= 1
  /\ <<>> \in Seq(Char)
BY NameAssumption

\* A set of ids has a smallest member.
LEMMA SmallestIn ==
  ASSUME NEW S \in SUBSET Host, S # {}
  PROVE  Smallest(S) \in S
<1>1. PICK m \in S : \A g \in S : ~(<<g, m>> \in OpToRel(<, Nat))
  BY ConstantTypes, WFMin, NatLessThanWellFounded, Zenon
<1>2. \A g \in S : ~(g < m)
  <2> SUFFICES ASSUME NEW g \in S, g < m
               PROVE  FALSE
    OBVIOUS
  <2>1. g \in Nat /\ m \in Nat
    BY ConstantTypes
  <2>2. <<g, m>> \in OpToRel(<, Nat)
    BY <2>1, Zenon DEF OpToRel
  <2>q. QED
    BY <1>1, <2>2
<1>3. \A g \in S : m <= g
  BY <1>2, ConstantTypes
<1>q. QED
  BY <1>3 DEF Smallest

\* The length of a string in a payload.
LEMMA StrLenType ==
  ASSUME NEW p
  PROVE  StrLen(p) \in Nat /\ StrLen(p) <= PAYLOAD_MAX
<1> DEFINE S == {i \in Position : \A k \in 1 .. i : p[k] # NUL}
<1>1. IsFiniteSet(Position) /\ Cardinality(Position) = PAYLOAD_MAX
  BY ConstantTypes, FS_Interval DEF Position
<1>2. IsFiniteSet(S) /\ Cardinality(S) <= PAYLOAD_MAX
  BY <1>1, FS_Subset
<1>3. Cardinality(S) \in Nat
  BY <1>2, FS_CardinalityType
<1>q. QED
  BY <1>2, <1>3 DEF StrLen

\* A name that may be registered fits its row.
LEMMA StringType ==
  ASSUME NEW p \in Payload
  PROVE  String(p) \in Seq(Char) /\ Len(String(p)) = StrLen(p)
<1>1. 1 .. StrLen(p) \subseteq Position
  BY StrLenType, ConstantTypes DEF Position
<1>q. QED
  BY <1>1, StrLenType DEF String, Payload

LEMMA PayloadOfType ==
  ASSUME NEW n \in Seq(Char), NEW m \in Payload
  PROVE  PayloadOf(n, m) \in Payload
BY DEF PayloadOf, Payload, Position

\* What a search returns is a host with an entry.
LEMMA SearchType ==
  ASSUME NamesType, FoundType, NEW n \in Name
  PROVE  Search(n) \in {h \in Host : namingTable[h] # <<>>} \cup {Garbage}
<1>1. ASSUME NEW h \in Found(n)
      PROVE  h \in Host /\ namingTable[h] # <<>>
  BY <1>1, NameType DEF Found, StartsWith, NamesType
<1>2. CASE Found(n) # {}
  BY <1>1, <1>2, SmallestIn DEF Search, Found
<1>q. QED
  BY <1>2 DEF Search, FoundType

--------------------------------------------------------------------------------
(* The naming table.                                                            *)

\* A registration keeps all entries that there are, and their type.
LEMMA EnteredKeeps ==
  ASSUME NamesType, NEW h \in Host, NEW p \in Payload
  PROVE  LET t == Entered(h, p)
         IN /\ t \in [Host -> Seq(Char)]
            /\ \A g \in Host : Len(t[g]) <= MAX_NAME_LENGTH
            /\ \A g \in Host : namingTable[g] # <<>> => t[g] = namingTable[g]
<1>1. CASE Attempt(h, p) = "S"
  <2>1. namingTable[h] = <<>> /\ StrLen(p) <= MAX_NAME_LENGTH
    BY <1>1, StrLenType, ConstantTypes DEF Attempt
  <2>2. Entered(h, p) = [namingTable EXCEPT ![h] = String(p)]
    BY <1>1 DEF Entered
  <2>q. QED
    BY <2>1, <2>2, StringType DEF NamesType
<1>2. CASE Attempt(h, p) # "S"
  BY <1>2 DEF Entered, NamesType
<1>q. QED
  BY <1>1, <1>2

--------------------------------------------------------------------------------
(* The type invariant.                                                          *)

LEMMA FinishType ==
  ASSUME controlCount \in 0 .. CONTROL_COUNT, NEW q \in Seq(Job), Finish(q)
  PROVE  /\ jobs' \in Seq(Job)
         /\ controlCount' \in 0 .. CONTROL_COUNT /\ scan' = "poll"
<1>1. [type |-> "send"] \in Job
  BY DEF Job, Control
<1>q. QED
  BY <1>1, ConstantTypes DEF Finish

LEMMA ReplyType ==
  ASSUME TypeOK, jobs # <<>>, Head(jobs) \in Request, NEW a \in Answer, ReplyWith(a)
  PROVE  /\ jobs' \in Seq(Job) /\ freed' \subseteq Payload
         /\ controlCount' \in 0 .. CONTROL_COUNT /\ scan' = "poll"
         /\ HistoryType'
<1> DEFINE r == [type |-> "send", dst |-> Head(jobs).src, answer |-> a]
<1>1. r \in Job
  BY DEF Job, Reply, Request
<1>2. Append(Tail(jobs), r) \in Seq(Job)
  BY <1>1 DEF TypeOK
<1>3. /\ Finish(Append(Tail(jobs), r))
      /\ freed' = freed \cup {Head(jobs).payload}
      /\ UNCHANGED history
  BY DEF ReplyWith
<1>4. Head(jobs).payload \in Payload
  BY DEF Request
<1> HIDE DEF r
<1>5. freed' \subseteq Payload /\ HistoryType'
  BY <1>3, <1>4 DEF TypeOK, history, HistoryType
<1>q. QED
  BY <1>2, <1>3, <1>5, FinishType DEF TypeOK

\* The job that is taken is in the queue, and its type says what it is.
LEMMA TakeType ==
  ASSUME TypeOK, NEW type, Take(type)
  PROVE  /\ jobs # <<>> /\ Head(jobs) \in Job /\ Tail(jobs) \in Seq(Job)
         /\ type \in {"ping", "register", "lookup"} =>
              Head(jobs) \in Request /\ Head(jobs).type = type
         /\ type = "lookup" => Head(jobs).name \in Name
         /\ type = "send" => Head(jobs) \in Reply \cup Control
<1>1. jobs # <<>> /\ Head(jobs) \in Job /\ Tail(jobs) \in Seq(Job) /\ Head(jobs).type = type
  BY DEF Take, TypeOK
<1>q. QED
  BY <1>1 DEF Job, Request, Reply, Control

LEMMA InitType == Init => TypeOK
<1> SUFFICES ASSUME Init PROVE TypeOK
  OBVIOUS
<1>1. NamesType /\ FoundType
  BY NameType, ConstantTypes DEF Init, NamesType, FoundType
<1>2. Blank \in Payload
  BY DEF Blank, Payload, Char
<1>3. HistoryType /\ jobs \in Seq(Job)
  BY DEF Init, HistoryType
<1>q. QED
  BY <1>1, <1>2, <1>3, ConstantTypes DEF Init, TypeOK

LEMMA StepType == TypeOK /\ [Next]_vars => TypeOK'
<1> SUFFICES ASSUME TypeOK, [Next]_vars PROVE TypeOK'
  OBVIOUS
<1>1. CASE RecvNothing
  BY <1>1 DEF RecvNothing, TypeOK, NamesType, FoundType, HistoryType, history
<1>2. ASSUME NEW o \in Other, RecvOther(o)
      PROVE  TypeOK'
  <2>1. freed' \subseteq Payload
    BY <1>2, NameType, PayloadOfType DEF RecvOther, TypeOK
  <2>q. QED
    BY <1>2, <2>1 DEF RecvOther, TypeOK, NamesType, FoundType, HistoryType, history
<1>3. ASSUME NEW type \in {"ping", "register", "lookup"}, NEW h \in Host,
             NEW n \in Name \cup {<<>>}, type = "ping" <=> n = <<>>,
             RecvRequest(type, h, n)
      PROVE  TypeOK'
  <2>1. PICK m \in freed :
          jobs' = Append(jobs, [type |-> type, src |-> h, name |-> n,
                                payload |-> PayloadOf(n, m)])
    BY <1>3 DEF RecvRequest
  <2>2. PayloadOf(n, m) \in Payload
    BY NameType, PayloadOfType DEF TypeOK
  <2>3. [type |-> type, src |-> h, name |-> n, payload |-> PayloadOf(n, m)] \in Job
    BY <1>3, <2>2 DEF Job, Request
  <2>4. jobs' \in Seq(Job)
    BY <2>1, <2>3 DEF TypeOK
  <2>5. HistoryType'
    BY <1>3 DEF RecvRequest, HistoryType, TypeOK
  <2>q. QED
    BY <1>3, <2>4, <2>5 DEF RecvRequest, TypeOK, NamesType, FoundType
<1>4. CASE ExecuteNothing
  <2>1. Finish(jobs)
    BY <1>4 DEF ExecuteNothing
  <2>2. UNCHANGED <<namingTable, dnsHostIDReturn, freed, history>>
    BY <1>4 DEF ExecuteNothing
  <2>q. QED
    BY <2>1, <2>2, FinishType DEF TypeOK, NamesType, FoundType, HistoryType, history
<1>5. CASE ExecuteSend
  <2>1. /\ Head(jobs) \in Reply \cup Control /\ Tail(jobs) \in Seq(Job)
    BY <1>5, TakeType DEF ExecuteSend
  <2>2. Finish(Tail(jobs)) /\ UNCHANGED <<namingTable, dnsHostIDReturn, freed, received>>
    BY <1>5 DEF ExecuteSend
  <2>3. HistoryType'
    BY <1>5, <2>1, <2>2 DEF ExecuteSend, HistoryType, TypeOK
  <2>q. QED
    BY <2>1, <2>2, <2>3, FinishType DEF TypeOK, NamesType, FoundType
<1>6. CASE ExecutePing
  <2>1. Head(jobs) \in Request /\ jobs # <<>>
    BY <1>6, TakeType DEF ExecutePing
  <2>2. <<"pong">> \in Answer
    BY DEF Answer
  <2>3. ReplyWith(<<"pong">>) /\ UNCHANGED <<namingTable, dnsHostIDReturn>>
    BY <1>6 DEF ExecutePing
  <2>q. QED
    BY <2>1, <2>2, <2>3, ReplyType DEF TypeOK, NamesType, FoundType
<1>7. CASE ExecuteRegister
  <2> DEFINE j == Head(jobs)
  <2>1. j \in Request /\ jobs # <<>>
    BY <1>7, TakeType DEF ExecuteRegister
  <2>2. <<Attempt(j.src, j.payload)>> \in Answer
    BY DEF Answer, Attempt
  <2>3. /\ ReplyWith(<<Attempt(j.src, j.payload)>>)
        /\ namingTable' = Entered(j.src, j.payload)
        /\ UNCHANGED dnsHostIDReturn
    BY <1>7 DEF ExecuteRegister
  <2>4. j.src \in Host /\ j.payload \in Payload
    BY <2>1 DEF Request
  <2> HIDE DEF j
  <2>5. NamesType' /\ FoundType'
    BY <2>3, <2>4, EnteredKeeps DEF TypeOK, NamesType, FoundType
  <2>q. QED
    BY <2>1, <2>2, <2>3, <2>5, ReplyType DEF TypeOK, j
<1>8. CASE ExecuteLookup
  <2>1. Head(jobs) \in Request /\ jobs # <<>> /\ Head(jobs).name \in Name
    BY <1>8, TakeType DEF ExecuteLookup
  <2>2. dnsHostIDReturn' = Search(Head(jobs).name) /\ UNCHANGED namingTable
    BY <1>8 DEF ExecuteLookup
  <2>3. NamesType' /\ FoundType'
    BY <2>1, <2>2, SearchType DEF TypeOK, NamesType, FoundType
  <2>4. PICK a \in Answers(dnsHostIDReturn') : ReplyWith(a)
    BY <1>8 DEF ExecuteLookup
  <2>5. a \in Answer
    BY <2>3 DEF Answers, Answer, FoundType
  <2>q. QED
    BY <2>1, <2>3, <2>4, <2>5, ReplyType DEF TypeOK
<1>9. CASE UNCHANGED vars
  BY <1>9 DEF vars, history, TypeOK, NamesType, FoundType, HistoryType
<1>q. QED
  BY <1>1, <1>2, <1>3, <1>4, <1>5, <1>6, <1>7, <1>8, <1>9, NameType
     DEF Next, Recv, Execute

\* For any hosts, names and lengths: no entry outgrows its row of the naming
\* table, whatever an older payload left behind the name that is registered, and
\* what a lookup sends back is the id of a host with an entry, or not an id.
THEOREM ServerTypeCorrect == Spec => []TypeOK
<1>q. QED
  BY InitType, StepType, PTL DEF Spec

\* For any hosts and names, and requests repeated in any way: the entry of a host
\* is never changed and never removed.
THEOREM EntriesKept == Spec => NamesKept
<1> DEFINE Kept == \A h \in Host : namingTable[h] # <<>> => namingTable'[h] = namingTable[h]
<1>1. TypeOK /\ [Next]_vars => [Kept]_vars
  <2> SUFFICES ASSUME TypeOK, Next PROVE Kept
    OBVIOUS
  <2>1. CASE ExecuteRegister
    <3>1. Head(jobs) \in Request
      BY <2>1, TakeType DEF ExecuteRegister
    <3>2. Head(jobs).src \in Host /\ Head(jobs).payload \in Payload
      BY <3>1 DEF Request
    <3>q. QED
      BY <2>1, <3>2, EnteredKeeps DEF ExecuteRegister, TypeOK
  <2>2. CASE ~ExecuteRegister
    BY <2>2 DEF Next, Recv, Execute, RecvNothing, RecvOther, RecvRequest,
                ExecuteNothing, ExecuteSend, ExecutePing, ExecuteLookup
  <2>q. QED
    BY <2>1, <2>2
<1>q. QED
  BY <1>1, ServerTypeCorrect, PTL DEF NamesKept, Spec

--------------------------------------------------------------------------------
(* The order of the replies.                                                    *)

(* What request each job of a queue q is about: f[i] is its place among the     *)
(* requests rcv that were read, and 0 for a control packet.  The first k of     *)
(* them have been executed and the first n answered, so that q holds replies    *)
(* to n + 1 .. k and the requests after k, each kind in its order.              *)
Counts(q, rcv, n, k, f) ==
  /\ k \in Nat /\ n <= k /\ k <= Len(rcv)
  /\ f \in [1 .. Len(q) -> 0 .. Len(rcv)]

\* A registration never undoes another.
Grown(t, u) == \A h \in Host : t[h] # <<>> => u[h] = t[h]

\* Is answer a to request r true of table t?
Truthful(t, r, a) ==
  /\ r.type = "register" /\ a = <<"S">>  => StartsWith(t[r.src], r.name)
  /\ r.type = "register" /\ a = <<"FA">> => t[r.src] # <<>>
  /\ r.type = "lookup" /\ r.known =>
       a \in {"id"} \X Host /\ StartsWith(t[a[2]], r.name)

\* Job j is request r: its payload begins with the name, and what was known when
\* r was read is known in t.
Asks(j, r, t) ==
  /\ j.src = r.src /\ j.type = r.type /\ j.name = r.name
  /\ j.type = "register" => StartsWith(String(j.payload), j.name)
  /\ r.type = "lookup" /\ r.known => \E h \in Host : StartsWith(t[h], r.name)

\* Job j is about request m.
About(j, m, t, rcv, n, k) ==
  /\ m = 0 => j \in Control
  /\ m \in 1 .. k => /\ m > n
                     /\ j \in Reply
                     /\ j.dst = rcv[m].src
                     /\ j.answer \in Kind(rcv[m].type)
                     /\ Truthful(t, rcv[m], j.answer)
  /\ m > k => j \in Request /\ Asks(j, rcv[m], t)

\* Where the order is reversed, a request stands before a reply.
Ordered(q, k, f) ==
  \A i, j \in 1 .. Len(q) :
    i < j /\ f[j] > 0 /\ f[j] <= f[i] => f[j] <= k /\ k < f[i]

Complete(q, rcv, n, f) ==
  \A m \in n + 1 .. Len(rcv) : \E i \in 1 .. Len(q) : f[i] = m

Placed(q, t, rcv, n, k, f) ==
  /\ Counts(q, rcv, n, k, f)
  /\ \A i \in 1 .. Len(q) : About(q[i], f[i], t, rcv, n, k)
  /\ Ordered(q, k, f)
  /\ Complete(q, rcv, n, f)

LEMMA JobKinds ==
  Control \cap Reply = {} /\ Control \cap Request = {} /\ Reply \cap Request = {}
<1>1. ASSUME NEW c \in Control, c \in Reply PROVE FALSE
  <2>1. DOMAIN c = {"type"}
    BY DEF Control
  <2>2. DOMAIN c = {"type", "dst", "answer"}
    BY <1>1 DEF Reply
  <2>q. QED
    BY <2>1, <2>2
<1>q. QED
  BY <1>1 DEF Control, Reply, Request

\* A control packet is queued.
LEMMA PlacedControl ==
  ASSUME NEW q \in Seq(Job), NEW t, NEW rcv, Len(rcv) \in Nat, NEW n \in Nat,
         NEW k, NEW f, Placed(q, t, rcv, n, k, f), NEW c \in Control
  PROVE  \E g : Placed(Append(q, c), t, rcv, n, k, g)
<1> DEFINE g == [i \in 1 .. Len(q) + 1 |-> IF i <= Len(q) THEN f[i] ELSE 0]
           p == Append(q, c)
<1>1. Len(p) = Len(q) + 1 /\ p[Len(q) + 1] = c /\ \A i \in 1 .. Len(q) : p[i] = q[i]
  OBVIOUS
<1>2. g[Len(q) + 1] = 0 /\ \A i \in 1 .. Len(q) : g[i] = f[i]
  OBVIOUS
<1>3. Counts(p, rcv, n, k, g)
  BY <1>1 DEF Placed, Counts
<1> HIDE DEF g, p
<1>4. ASSUME NEW i \in 1 .. Len(p)
      PROVE  About(p[i], g[i], t, rcv, n, k)
  <2>1. CASE i = Len(q) + 1
    BY <2>1, <1>1, <1>2, <1>3 DEF About, Counts
  <2>2. CASE i \in 1 .. Len(q)
    BY <2>2, <1>1, <1>2 DEF Placed
  <2>q. QED
    BY <2>1, <2>2, <1>1
<1>5. Ordered(p, k, g)
  <2> SUFFICES ASSUME NEW i \in 1 .. Len(p), NEW j \in 1 .. Len(p),
                      i < j, g[j] > 0, g[j] <= g[i]
               PROVE  g[j] <= k /\ k < g[i]
    BY DEF Ordered
  <2>1. j # Len(q) + 1 /\ j \in 1 .. Len(q) /\ i \in 1 .. Len(q)
    BY <1>1, <1>2
  <2>q. QED
    BY <2>1, <1>2 DEF Placed, Ordered
<1>6. ASSUME NEW m \in n + 1 .. Len(rcv)
      PROVE  \E i \in 1 .. Len(p) : g[i] = m
  <2>1. PICK i \in 1 .. Len(q) : f[i] = m
    BY DEF Placed, Complete
  <2>q. QED
    BY <2>1, <1>1, <1>2
<1>q. QED
  BY <1>3, <1>4, <1>5, <1>6 DEF Placed, Complete, p

\* A request is read and queued.
LEMMA PlacedRequest ==
  ASSUME NEW q \in Seq(Job), NEW t, NEW S, NEW rcv \in Seq(S), NEW n \in Nat,
         NEW k, NEW f, Placed(q, t, rcv, n, k, f),
         NEW j \in Request, NEW r \in S, Asks(j, r, t)
  PROVE  \E g : Placed(Append(q, j), t, Append(rcv, r), n, k, g)
<1> DEFINE g == [i \in 1 .. Len(q) + 1 |-> IF i <= Len(q) THEN f[i] ELSE Len(rcv) + 1]
           p == Append(q, j)
           x == Append(rcv, r)
<1>1. Len(p) = Len(q) + 1 /\ p[Len(q) + 1] = j /\ \A i \in 1 .. Len(q) : p[i] = q[i]
  OBVIOUS
<1>2. Len(x) = Len(rcv) + 1 /\ x[Len(x)] = r /\ \A i \in 1 .. Len(rcv) : x[i] = rcv[i]
  OBVIOUS
<1>3. g[Len(q) + 1] = Len(x) /\ \A i \in 1 .. Len(q) : g[i] = f[i]
  BY <1>2
<1>4. f \in [1 .. Len(q) -> 0 .. Len(rcv)] /\ k \in Nat /\ k <= Len(rcv)
  BY DEF Placed, Counts
<1>5. Counts(p, x, n, k, g)
  BY <1>1, <1>2, <1>4 DEF Placed, Counts
<1> HIDE DEF g, p, x
<1>6. ASSUME NEW i \in 1 .. Len(p)
      PROVE  About(p[i], g[i], t, x, n, k)
  <2>1. CASE i = Len(q) + 1
    BY <2>1, <1>1, <1>2, <1>3, <1>4 DEF About
  <2>2. CASE i \in 1 .. Len(q)
    <3>1. About(q[i], f[i], t, rcv, n, k) /\ p[i] = q[i] /\ g[i] = f[i]
      BY <2>2, <1>1, <1>3 DEF Placed
    <3>2. f[i] > 0 => x[f[i]] = rcv[f[i]]
      BY <2>2, <1>2, <1>4
    <3>3. f[i] \in 0 .. Len(rcv)
      BY <2>2, <1>4
    <3>q. QED
      BY <3>1, <3>2, <3>3, <1>4 DEF About
  <2>q. QED
    BY <2>1, <2>2, <1>1
<1>7. Ordered(p, k, g)
  <2> SUFFICES ASSUME NEW i \in 1 .. Len(p), NEW e \in 1 .. Len(p),
                      i < e, g[e] > 0, g[e] <= g[i]
               PROVE  g[e] <= k /\ k < g[i]
    BY DEF Ordered
  <2>1. i \in 1 .. Len(q) /\ f[i] \in 0 .. Len(rcv) /\ g[i] = f[i]
    BY <1>1, <1>3, <1>4
  <2>2. e # Len(q) + 1
    BY <2>1, <1>2, <1>3
  <2>3. Len(q) \in Nat /\ e \in 1 .. Len(q) + 1
    BY <1>1
  <2>4. e \in 1 .. Len(q)
    BY <2>2, <2>3
  <2>5. g[e] = f[e]
    BY <2>4, <1>3
  <2>6. Ordered(q, k, f) /\ f[e] > 0 /\ f[e] <= f[i]
    BY <2>1, <2>5 DEF Placed
  <2>q. QED
    BY <2>1, <2>4, <2>5, <2>6 DEF Ordered
<1>8. ASSUME NEW m \in n + 1 .. Len(x)
      PROVE  \E i \in 1 .. Len(p) : g[i] = m
  <2>1. CASE m = Len(x)
    BY <2>1, <1>1, <1>3
  <2>2. CASE m # Len(x)
    <3> m \in n + 1 .. Len(rcv)
      BY <2>2, <1>2
    <3>1. PICK i \in 1 .. Len(q) : f[i] = m
      BY DEF Placed, Complete
    <3>2. Len(q) \in Nat /\ i \in 1 .. Len(p)
      BY <1>1
    <3>3. g[i] = m
      BY <3>1, <1>3
    <3>q. QED
      BY <3>2, <3>3
  <2>q. QED
    BY <2>1, <2>2
<1>q. QED
  BY <1>5, <1>6, <1>7, <1>8 DEF Placed, Complete, p, x

\* The job at the head, when it is a control packet, a reply or a request.
LEMMA PlacedHead ==
  ASSUME NEW q \in Seq(Job), q # <<>>, NEW t, NEW rcv, Len(rcv) \in Nat, NEW n \in Nat,
         NEW k, NEW f, Placed(q, t, rcv, n, k, f)
  PROVE  /\ Head(q) \in Control => f[1] = 0
         /\ Head(q) \in Reply => f[1] = n + 1 /\ n + 1 <= k
         /\ Head(q) \in Request => f[1] = k + 1
<1>1. Len(q) >= 1 /\ Head(q) = q[1] /\ 1 \in 1 .. Len(q)
  OBVIOUS
<1>2. f[1] \in Nat /\ k \in Nat /\ n <= k /\ k <= Len(rcv) /\ f[1] <= Len(rcv)
  BY <1>1 DEF Placed, Counts
<1>3. About(Head(q), f[1], t, rcv, n, k)
  BY <1>1 DEF Placed
<1>4. ASSUME NEW m \in n + 1 .. Len(rcv), f[1] > 0, m <= f[1], f[1] <= k \/ m > k
      PROVE  f[1] = m
  <2>1. PICK i \in 1 .. Len(q) : f[i] = m
    BY DEF Placed, Complete
  <2>2. i = 1
    BY <1>1, <1>2, <1>4, <2>1 DEF Placed, Ordered
  <2>q. QED
    BY <2>1, <2>2
<1>5. CASE Head(q) \in Control
  BY <1>2, <1>3, <1>5, JobKinds DEF About
<1>6. CASE Head(q) \in Reply
  <2>1. f[1] > n /\ f[1] <= k
    BY <1>2, <1>3, <1>6, JobKinds DEF About
  <2>2. f[1] = n + 1
    BY <1>2, <1>4, <2>1
  <2>q. QED
    BY <1>6, <2>1, <2>2, JobKinds
<1>7. CASE Head(q) \in Request
  <2>1. f[1] > k
    BY <1>2, <1>3, <1>7, JobKinds DEF About
  <2>2. f[1] = k + 1
    BY <1>2, <1>4, <2>1
  <2>q. QED
    BY <1>7, <2>2, JobKinds
<1>q. QED
  BY <1>5, <1>6, <1>7

\* A job that is sent leaves the queue.
LEMMA PlacedSend ==
  ASSUME NEW q \in Seq(Job), q # <<>>, NEW t, NEW rcv, Len(rcv) \in Nat, NEW n \in Nat,
         NEW k, NEW f, Placed(q, t, rcv, n, k, f),
         NEW l \in Nat, \/ Head(q) \in Control /\ l = n
                        \/ Head(q) \in Reply /\ l = n + 1
  PROVE  \E g : Placed(Tail(q), t, rcv, l, k, g)
<1> DEFINE g == [i \in 1 .. Len(q) - 1 |-> f[i + 1]]
           p == Tail(q)
<1>1. /\ Len(q) >= 1 /\ Head(q) = q[1] /\ Len(p) = Len(q) - 1
      /\ \A i \in 1 .. Len(p) : p[i] = q[i + 1] /\ i + 1 \in 1 .. Len(q)
  OBVIOUS
<1>2. \A i \in 1 .. Len(p) : g[i] = f[i + 1]
  BY <1>1
<1>3. f \in [1 .. Len(q) -> 0 .. Len(rcv)] /\ k \in Nat /\ n <= k /\ k <= Len(rcv)
  BY DEF Placed, Counts
<1>4. g \in [1 .. Len(p) -> 0 .. Len(rcv)]
  BY <1>1, <1>3
<1> HIDE DEF g, p
<1>5. /\ n <= l /\ l <= k /\ f[1] <= l
      /\ \/ l = n /\ f[1] = 0
         \/ l = n + 1 /\ f[1] = n + 1
  <2>1. /\ Head(q) \in Control => f[1] = 0
        /\ Head(q) \in Reply => f[1] = n + 1 /\ n + 1 <= k
    BY PlacedHead
  <2>q. QED
    BY <2>1, <1>3
<1>6. ASSUME NEW m \in l + 1 .. Len(rcv)
      PROVE  \E i \in 1 .. Len(p) : g[i] = m
  <2>1. PICK i \in 1 .. Len(q) : f[i] = m
    BY <1>5 DEF Placed, Complete
  <2>2. i # 1
    BY <2>1, <1>5
  <2>3. i - 1 \in 1 .. Len(p) /\ (i - 1) + 1 = i
    BY <2>2, <1>1
  <2>q. QED
    BY <2>1, <2>3, <1>2
<1>7. ASSUME NEW i \in 1 .. Len(p)
      PROVE  About(p[i], g[i], t, rcv, l, k)
  <2>1. About(q[i + 1], f[i + 1], t, rcv, n, k) /\ f[i + 1] \in Nat /\ f[1] \in Nat
    BY <1>1, <1>3 DEF Placed
  <2>2. f[i + 1] \in 1 .. k => f[i + 1] > l
    <3> SUFFICES ASSUME f[i + 1] \in 1 .. k PROVE f[i + 1] > l
      OBVIOUS
    <3>1. f[i + 1] > n
      BY <2>1 DEF About
    <3>2. ~(f[i + 1] <= f[1])
      BY <1>1, <1>3, <1>5, <2>1 DEF Placed, Ordered
    <3>q. QED
      BY <3>1, <3>2, <1>3, <1>5, <2>1
  <2>q. QED
    BY <2>1, <2>2, <1>1, <1>2 DEF About
<1>8. Ordered(p, k, g)
  BY <1>1, <1>2 DEF Placed, Ordered
<1>9. Counts(p, rcv, l, k, g)
  BY <1>3, <1>4, <1>5 DEF Counts
<1>q. QED
  BY <1>6, <1>7, <1>8, <1>9 DEF Placed, Complete, p

\* The same for a request, as the step that executes one needs it.
LEMMA PlacedHeadRequest ==
  ASSUME NEW q \in Seq(Job), q # <<>>, NEW t, NEW rcv, Len(rcv) \in Nat, NEW n \in Nat,
         NEW k, NEW f, Placed(q, t, rcv, n, k, f), Head(q) \in Request
  PROVE  f[1] = k + 1
<1> DEFINE h == Head(q)
<1>1. h \in Request => f[1] = k + 1
  BY PlacedHead
<1>2. h \in Request
  OBVIOUS
<1>q. QED
  BY <1>1, <1>2

\* A request is executed: its reply goes to the end of the queue.
LEMMA PlacedReply ==
  ASSUME NEW q \in Seq(Job), q # <<>>, NEW t, NEW rcv, Len(rcv) \in Nat, NEW n \in Nat,
         NEW k, NEW f, Placed(q, t, rcv, n, k, f),
         Head(q) \in Request, NEW r \in Reply,
         r.dst = rcv[k + 1].src, r.answer \in Kind(rcv[k + 1].type),
         Truthful(t, rcv[k + 1], r.answer)
  PROVE  \E g : Placed(Append(Tail(q), r), t, rcv, n, k + 1, g)
<1>h. f[1] = k + 1
  BY PlacedHeadRequest
<1> DEFINE g == [i \in 1 .. Len(q) |-> IF i < Len(q) THEN f[i + 1] ELSE k + 1]
           p == Append(Tail(q), r)
<1>a. Len(q) \in Nat /\ Len(q) >= 1 /\ Head(q) = q[1]
  OBVIOUS
<1>b. /\ Len(p) = Len(q) /\ p[Len(q)] = r
      /\ \A i \in 1 .. Len(q) : i < Len(q) => p[i] = q[i + 1] /\ i + 1 \in 1 .. Len(q)
  OBVIOUS
<1> HIDE DEF p
<1>1. /\ Len(q) \in Nat /\ Len(q) >= 1 /\ Head(q) = q[1]
      /\ Len(p) = Len(q) /\ p[Len(q)] = r
      /\ \A i \in 1 .. Len(q) : i < Len(q) => p[i] = q[i + 1] /\ i + 1 \in 1 .. Len(q)
  BY <1>a, <1>b
<1>2. /\ g[Len(q)] = k + 1
      /\ \A i \in 1 .. Len(q) : i < Len(q) => g[i] = f[i + 1]
  <2>1. Len(q) \in 1 .. Len(q) /\ ~(Len(q) < Len(q))
    BY <1>a
  <2>q. QED
    BY <2>1
<1>3. f \in [1 .. Len(q) -> 0 .. Len(rcv)] /\ k \in Nat /\ n <= k /\ k <= Len(rcv)
  BY DEF Placed, Counts
<1>4. f[1] = k + 1 /\ f[1] <= Len(rcv)
  <2> HIDE DEF g
  <2>q. QED
    BY <1>h, <1>1, <1>3
<1>5. ASSUME NEW i \in 1 .. Len(q)
      PROVE  g[i] \in 0 .. Len(rcv)
  <2>1. CASE i = Len(q)
    BY <2>1, <1>2, <1>3, <1>4
  <2>2. CASE i < Len(q)
    BY <2>2, <1>1, <1>2, <1>3
  <2>q. QED
    BY <2>1, <2>2, <1>1
<1>6. Counts(p, rcv, n, k + 1, g)
  <2>1. g \in [1 .. Len(q) -> 0 .. Len(rcv)]
    BY <1>5
  <2> HIDE DEF g
  <2>q. QED
    BY <2>1, <1>1, <1>3, <1>4 DEF Counts
<1> HIDE DEF g, p
<1>7. About(r, k + 1, t, rcv, n, k + 1)
  BY <1>3 DEF About
<1>8. ASSUME NEW m \in n + 1 .. Len(rcv)
      PROVE  \E i \in 1 .. Len(p) : g[i] = m
  <2>1. PICK i \in 1 .. Len(q) : f[i] = m
    BY DEF Placed, Complete
  <2>2. CASE i = 1
    BY <1>1, <1>2, <1>4, <2>1, <2>2
  <2>3. CASE i # 1
    <3>1. i - 1 \in 1 .. Len(q) /\ i - 1 < Len(q) /\ (i - 1) + 1 = i
      BY <1>1, <2>3
    <3>q. QED
      BY <1>1, <1>2, <2>1, <3>1
  <2>q. QED
    BY <2>2, <2>3
\* The request after the one executed is not overtaken by it.
<1>9. ASSUME NEW i \in 1 .. Len(q), i > 1, f[i] > k
      PROVE  f[i] > k + 1
  <2>1. 1 \in 1 .. Len(q) /\ f[i] \in Nat
    BY <1>1, <1>3
  <2>2. ~(f[i] <= f[1])
    BY <1>3, <1>9, <2>1 DEF Placed, Ordered
  <2>q. QED
    BY <1>3, <1>4, <2>1, <2>2
<1>10. ASSUME NEW i \in 1 .. Len(p)
       PROVE  About(p[i], g[i], t, rcv, n, k + 1)
  <2>1. CASE i = Len(q)
    BY <2>1, <1>1, <1>2, <1>7
  <2>2. CASE i < Len(q)
    <3>1. i + 1 \in 1 .. Len(q) /\ p[i] = q[i + 1] /\ g[i] = f[i + 1]
      BY <2>2, <1>1, <1>2
    <3>2. About(q[i + 1], f[i + 1], t, rcv, n, k) /\ f[i + 1] \in Nat
      BY <3>1, <1>3 DEF Placed
    <3>3. f[i + 1] > k => f[i + 1] > k + 1
      BY <3>1, <1>9
    <3>q. QED
      BY <3>1, <3>2, <3>3, <1>3 DEF About
  <2>q. QED
    BY <2>1, <2>2, <1>1
<1>11. ASSUME NEW i \in 1 .. Len(p), NEW j \in 1 .. Len(p),
              i < j, g[j] > 0, g[j] <= g[i]
       PROVE  g[j] <= k + 1 /\ k + 1 < g[i]
  <2>a. i < Len(q) /\ i + 1 \in 1 .. Len(q) /\ i \in 1 .. Len(q) /\ j \in 1 .. Len(q)
    BY <1>11, <1>1
  <2>b. g[i] = f[i + 1]
    BY <2>a, <1>2
  <2>c. f[i + 1] \in Nat
    BY <2>a, <1>3
  <2>1. i < Len(q) /\ i + 1 \in 1 .. Len(q) /\ g[i] = f[i + 1] /\ f[i + 1] \in Nat
    BY <2>a, <2>b, <2>c
  <2>2. f[i + 1] > k => f[i + 1] > k + 1
    BY <2>1, <1>9
  <2>3. CASE j = Len(q)
    BY <2>1, <2>2, <2>3, <1>11, <1>2, <1>3
  <2>4. CASE j < Len(q)
    <3>a. j + 1 \in 1 .. Len(q)
      BY <2>4, <1>1
    <3>b. g[j] = f[j + 1]
      BY <2>4, <2>a, <1>2
    <3>1. j + 1 \in 1 .. Len(q) /\ g[j] = f[j + 1] /\ f[j + 1] \in Nat
      BY <3>a, <3>b, <1>3
    <3>2. f[j + 1] <= k /\ k < f[i + 1]
      BY <2>1, <3>1, <1>11 DEF Placed, Ordered
    <3>q. QED
      BY <2>1, <2>2, <3>1, <3>2, <1>3
  <2>q. QED
    BY <2>3, <2>4, <1>1
<1>q. QED
  BY <1>6, <1>8, <1>10, <1>11 DEF Placed, Ordered, Complete, p

(* What the answers say stays true while the table grows.                       *)

Table == [Host -> Seq(Char)]
Read == [type : {"ping", "register", "lookup"}, src : Host,
         name : Name \cup {<<>>}, known : BOOLEAN]

LEMMA StartsKept ==
  ASSUME NEW t \in Table, NEW u \in Table, Grown(t, u),
         NEW n \in Name \cup {<<>>}, NEW h \in Host, StartsWith(t[h], n)
  PROVE  StartsWith(u[h], n)
<1>1. t[h] \in Seq(Char) /\ u[h] \in Seq(Char) /\ n \in Seq(Char)
  BY NameType DEF Table
<1>2. CASE t[h] = <<>>
  BY <1>1, <1>2 DEF StartsWith
<1>3. CASE t[h] # <<>>
  BY <1>3 DEF Grown
<1>q. QED
  BY <1>2, <1>3

LEMMA TruthfulKept ==
  ASSUME NEW t \in Table, NEW u \in Table, Grown(t, u), NEW r \in Read, NEW a,
         Truthful(t, r, a)
  PROVE  Truthful(u, r, a)
<1>1. r.src \in Host /\ r.name \in Name \cup {<<>>}
  BY DEF Read
<1>2. r.type = "register" /\ a = <<"S">> => StartsWith(u[r.src], r.name)
  BY <1>1, StartsKept DEF Truthful
<1>3. r.type = "register" /\ a = <<"FA">> => u[r.src] # <<>>
  BY <1>1 DEF Truthful, Grown
<1>4. ASSUME r.type = "lookup" /\ r.known
      PROVE  a \in {"id"} \X Host /\ StartsWith(u[a[2]], r.name)
  <2>1. a \in {"id"} \X Host /\ StartsWith(t[a[2]], r.name)
    BY <1>4 DEF Truthful
  <2>2. a[2] \in Host
    BY <2>1
  <2>q. QED
    BY <1>1, <2>1, <2>2, StartsKept
<1>q. QED
  BY <1>2, <1>3, <1>4 DEF Truthful

LEMMA AsksKept ==
  ASSUME NEW t \in Table, NEW u \in Table, Grown(t, u), NEW r \in Read, NEW j,
         Asks(j, r, t)
  PROVE  Asks(j, r, u)
<1>1. r.name \in Name \cup {<<>>}
  BY DEF Read
<1>2. ASSUME r.type = "lookup" /\ r.known
      PROVE  \E h \in Host : StartsWith(u[h], r.name)
  <2>1. PICK h \in Host : StartsWith(t[h], r.name)
    BY <1>2 DEF Asks
  <2>q. QED
    BY <1>1, <2>1, StartsKept
<1>q. QED
  BY <1>2 DEF Asks

LEMMA PlacedKept ==
  ASSUME NEW t \in Table, NEW u \in Table, Grown(t, u), NEW q \in Seq(Job),
         NEW rcv \in Seq(Read), NEW n \in Nat, NEW k, NEW f, Placed(q, t, rcv, n, k, f)
  PROVE  Placed(q, u, rcv, n, k, f)
<1>1. ASSUME NEW i \in 1 .. Len(q)
      PROVE  About(q[i], f[i], u, rcv, n, k)
  <2>1. About(q[i], f[i], t, rcv, n, k)
    BY DEF Placed
  <2>2. k \in Nat /\ k <= Len(rcv) /\ f[i] \in 0 .. Len(rcv) /\ Len(rcv) \in Nat
    BY DEF Placed, Counts
  <2>3. f[i] # 0 => rcv[f[i]] \in Read
    BY <2>2
  <2>4. CASE f[i] = 0
    BY <2>1, <2>2, <2>4 DEF About
  <2>5. CASE f[i] \in 1 .. k
    <3>1. Truthful(t, rcv[f[i]], q[i].answer)
      BY <2>1, <2>5 DEF About
    <3>2. Truthful(u, rcv[f[i]], q[i].answer)
      BY <2>3, <2>5, <3>1, TruthfulKept
    <3>q. QED
      BY <2>1, <2>2, <2>5, <3>2 DEF About
  <2>6. CASE f[i] > k
    <3>1. Asks(q[i], rcv[f[i]], u)
      BY <2>1, <2>2, <2>3, <2>6, AsksKept DEF About
    <3>q. QED
      BY <2>1, <2>2, <2>6, <3>1 DEF About
  <2>q. QED
    BY <2>2, <2>4, <2>5, <2>6
<1>q. QED
  BY <1>1 DEF Placed

\* A payload begins with the name that was received, whatever is behind it.
LEMMA PayloadStarts ==
  ASSUME NEW n \in Name, NEW m \in Payload
  PROVE  StartsWith(String(PayloadOf(n, m)), n)
<1> DEFINE p == PayloadOf(n, m)
           S == {i \in Position : \A k \in 1 .. i : p[k] # NUL}
<1>1. /\ n \in Seq(Char) /\ Len(n) \in Nat /\ Len(n) <= PAYLOAD_MAX
      /\ \A i \in 1 .. Len(n) : n[i] # NUL
  BY NameAssumption
<1>2. 1 .. Len(n) \subseteq Position
  BY <1>1, ConstantTypes DEF Position
<1>3. \A i \in 1 .. Len(n) : p[i] = n[i]
  BY <1>1, <1>2 DEF PayloadOf
<1> HIDE DEF p
<1>4. 1 .. Len(n) \subseteq S
  <2> SUFFICES ASSUME NEW i \in 1 .. Len(n), NEW k \in 1 .. i
               PROVE  p[k] # NUL
    BY <1>2
  <2>1. k \in 1 .. Len(n)
    BY <1>1
  <2>q. QED
    BY <1>1, <1>3, <2>1
<1>5. Len(n) <= Cardinality(S)
  <2>1. IsFiniteSet(Position)
    BY ConstantTypes, FS_Interval DEF Position
  <2>2. IsFiniteSet(S)
    BY <2>1, FS_Subset
  <2>3. Cardinality(1 .. Len(n)) <= Cardinality(S)
    BY <1>4, <2>2, FS_Subset
  <2>4. Cardinality(1 .. Len(n)) = Len(n)
    BY <1>1, FS_Interval
  <2>q. QED
    BY <2>3, <2>4
<1>6. Len(n) <= StrLen(p)
  BY <1>5 DEF StrLen
<1>7. StrLen(p) \in Nat
  BY StrLenType
<1>8. Len(String(p)) = StrLen(p) /\ \A i \in 1 .. Len(n) : String(p)[i] = p[i]
  BY <1>1, <1>6, <1>7 DEF String
<1>q. QED
  BY <1>1, <1>3, <1>6, <1>8 DEF StartsWith, p

Told ==
  \A i \in 1 .. Len(replies) : Truthful(namingTable, received[i], replies[i].answer)

InOrder ==
  /\ RepliesInOrder /\ Told
  /\ \E k, f : Placed(jobs, namingTable, received, Len(replies), k, f)

\* The end of an iteration.
LEMMA PlacedFinish ==
  ASSUME NEW q \in Seq(Job), NEW t, NEW rcv, Len(rcv) \in Nat, NEW n \in Nat,
         \E k, f : Placed(q, t, rcv, n, k, f), Finish(q)
  PROVE  \E k, f : Placed(jobs', t, rcv, n, k, f)
<1>1. [type |-> "send"] \in Control
  BY DEF Control
<1>2. jobs' = q \/ jobs' = Append(q, [type |-> "send"])
  BY DEF Finish
<1>3. PICK k, f : Placed(q, t, rcv, n, k, f)
  OBVIOUS
<1>4. CASE jobs' = q
  BY <1>3, <1>4
<1>5. CASE jobs' = Append(q, [type |-> "send"])
  <2>1. \E g : Placed(Append(q, [type |-> "send"]), t, rcv, n, k, g)
    BY <1>1, <1>3, PlacedControl
  <2>q. QED
    BY <1>5, <2>1
<1>q. QED
  BY <1>2, <1>4, <1>5

LEMMA HistoryLengths ==
  ASSUME HistoryType
  PROVE  Len(replies) \in Nat /\ Len(received) \in Nat
BY DEF HistoryType

\* A job that makes a reply of the right kind, true of the table that it leaves.
LEMMA ReplyInOrder ==
  ASSUME TypeOK, InOrder, jobs # <<>>, Head(jobs) \in Request,
         NEW a \in Answer, a \in Kind(Head(jobs).type), ReplyWith(a),
         namingTable' \in Table, Grown(namingTable, namingTable'),
         \A r \in Read : Asks(Head(jobs), r, namingTable') => Truthful(namingTable', r, a)
  PROVE  InOrder'
<1> DEFINE r == [type |-> "send", dst |-> Head(jobs).src, answer |-> a]
           q == Append(Tail(jobs), r)
<1>1. r \in Reply /\ r.dst = Head(jobs).src /\ r.answer = a
  BY DEF Reply, Request
<1>2. Finish(q) /\ UNCHANGED <<received, replies>>
  BY DEF ReplyWith, history
<1> HIDE DEF r
<1>3. q \in Seq(Job) /\ jobs \in Seq(Job)
  BY <1>1 DEF TypeOK, Job
<1>4. Len(replies) \in Nat /\ Len(received) \in Nat /\ received \in Seq(Read)
  BY HistoryLengths DEF TypeOK, HistoryType, Read
<1>5. namingTable \in Table
  BY DEF TypeOK, NamesType, Table
<1>6. PICK k, f : Placed(jobs, namingTable, received, Len(replies), k, f)
  BY DEF InOrder
<1>7. Placed(jobs, namingTable', received, Len(replies), k, f)
  BY <1>3, <1>4, <1>5, <1>6, PlacedKept
<1>8. \E g : Placed(q, namingTable', received, Len(replies), k + 1, g)
  <2>1. f[1] = k + 1
    BY <1>3, <1>4, <1>7, PlacedHeadRequest
  <2>2. 1 \in 1 .. Len(jobs) /\ jobs[1] = Head(jobs)
    BY <1>3
  <2>3. /\ About(Head(jobs), k + 1, namingTable', received, Len(replies), k)
        /\ k \in Nat /\ k + 1 <= Len(received)
    BY <1>4, <1>7, <2>1, <2>2 DEF Placed, Counts
  <2>4. Asks(Head(jobs), received[k + 1], namingTable')
    BY <2>3 DEF About
  <2>5. received[k + 1] \in Read
    BY <1>4, <2>3
  <2>6. Truthful(namingTable', received[k + 1], r.answer)
    BY <1>1, <2>4, <2>5
  <2>7. r.dst = received[k + 1].src /\ r.answer \in Kind(received[k + 1].type)
    BY <1>1, <2>4 DEF Asks
  <2>q. QED
    BY <1>1, <1>3, <1>4, <1>7, <2>6, <2>7, PlacedReply
<1> HIDE DEF q
<1>9. \E k2, f2 : Placed(jobs', namingTable', received, Len(replies), k2, f2)
  BY <1>2, <1>3, <1>4, <1>8, PlacedFinish
<1>10. Told'
  <2> SUFFICES ASSUME NEW i \in 1 .. Len(replies)
               PROVE  Truthful(namingTable', received[i], replies[i].answer)
    BY <1>2 DEF Told
  <2>1. received[i] \in Read
    BY <1>4 DEF InOrder, RepliesInOrder
  <2>q. QED
    BY <1>5, <2>1, TruthfulKept DEF InOrder, Told
<1>q. QED
  BY <1>2, <1>9, <1>10 DEF InOrder, RepliesInOrder

\* What a registration answers is true of the table that it leaves.
LEMMA RegisterTrue ==
  ASSUME NamesType, NEW j \in Request, j.type = "register", NEW r \in Read,
         Asks(j, r, Entered(j.src, j.payload))
  PROVE  Truthful(Entered(j.src, j.payload), r, <<Attempt(j.src, j.payload)>>)
<1> DEFINE a == Attempt(j.src, j.payload)
           t == Entered(j.src, j.payload)
<1>1. j.src \in Host /\ j.payload \in Payload /\ r.src = j.src /\ r.name = j.name
      /\ r.type = "register" /\ StartsWith(String(j.payload), j.name)
  BY DEF Request, Asks
<1>2. CASE a = "S"
  <2>1. t[j.src] = String(j.payload)
    BY <1>1, <1>2 DEF Entered, NamesType
  <2> HIDE DEF t, a
  <2>q. QED
    BY <1>1, <1>2, <2>1 DEF Truthful, t, a
<1>3. CASE a = "FA"
  <2>1. t = namingTable /\ namingTable[j.src] # <<>>
    BY <1>3 DEF Entered, Attempt
  <2> HIDE DEF t, a
  <2>q. QED
    BY <1>1, <1>3, <2>1 DEF Truthful, t, a
<1>4. CASE a \notin {"S", "FA"}
  <2> HIDE DEF t, a
  <2>q. QED
    BY <1>1, <1>4 DEF Truthful, t, a
<1>q. QED
  BY <1>2, <1>3, <1>4

\* A search for a name that is known finds a host that has it.
LEMMA LookupTrue ==
  ASSUME NamesType, NEW j \in Request, j.type = "lookup", NEW r \in Read,
         Asks(j, r, namingTable), NEW a \in Answers(Search(j.name))
  PROVE  Truthful(namingTable, r, a)
<1>1. r.name = j.name /\ r.type = "lookup"
  BY DEF Asks
<1>2. ASSUME r.known
      PROVE  a \in {"id"} \X Host /\ StartsWith(namingTable[a[2]], r.name)
  <2>1. Found(j.name) # {} /\ Found(j.name) \in SUBSET Host
    BY <1>1, <1>2 DEF Asks, Found
  <2>2. Search(j.name) \in Found(j.name)
    BY <2>1, SmallestIn DEF Search
  <2>3. Search(j.name) \in Host /\ StartsWith(namingTable[Search(j.name)], j.name)
    BY <2>2 DEF Found
  <2>4. a = <<"id", Search(j.name)>>
    BY <2>3, ConstantTypes DEF Answers
  <2>q. QED
    BY <1>1, <2>3, <2>4
<1>q. QED
  BY <1>1, <1>2 DEF Truthful

LEMMA OrderInit == Init => InOrder
<1> SUFFICES ASSUME Init PROVE InOrder
  OBVIOUS
<1>1. jobs = <<>> /\ received = <<>> /\ replies = <<>>
  BY DEF Init
<1>2. Placed(jobs, namingTable, received, Len(replies), 0, [i \in {} |-> 0])
  BY <1>1 DEF Placed, Counts, Ordered, Complete
<1>q. QED
  BY <1>1, <1>2 DEF InOrder, RepliesInOrder, Told

\* A request is read.
LEMMA RequestInOrder ==
  ASSUME TypeOK, InOrder,
         NEW type \in {"ping", "register", "lookup"}, NEW h \in Host,
         NEW n \in Name \cup {<<>>}, type = "ping" <=> n = <<>>,
         RecvRequest(type, h, n)
  PROVE  InOrder'
<1>1. jobs \in Seq(Job) /\ received \in Seq(Read) /\ HistoryType
      /\ Len(replies) \in Nat /\ Len(received) \in Nat
  BY HistoryLengths DEF TypeOK, HistoryType, Read
<1>2. PICK k, f : Placed(jobs, namingTable, received, Len(replies), k, f)
  BY DEF InOrder
<1>3. PICK m \in freed :
        jobs' = Append(jobs, [type |-> type, src |-> h, name |-> n,
                              payload |-> PayloadOf(n, m)])
  BY DEF RecvRequest
<1> DEFINE j == [type |-> type, src |-> h, name |-> n, payload |-> PayloadOf(n, m)]
           r == [type |-> type, src |-> h, name |-> n, known |-> Found(n) # {}]
<1>4. PayloadOf(n, m) \in Payload /\ m \in Payload
  BY NameType, PayloadOfType DEF TypeOK
<1>5. j \in Request
  BY <1>4 DEF Request
<1>6. Asks(j, r, namingTable)
  <2>1. type = "register" => StartsWith(String(PayloadOf(n, m)), n)
    BY <1>4, PayloadStarts
  <2>2. Found(n) # {} => \E g \in Host : StartsWith(namingTable[g], n)
    BY DEF Found
  <2>q. QED
    BY <2>1, <2>2 DEF Asks
<1>7. r \in Read
  BY DEF Read
<1>8. /\ jobs' = Append(jobs, j) /\ received' = Append(received, r)
      /\ replies' = replies /\ namingTable' = namingTable
  BY <1>3 DEF RecvRequest
<1> HIDE DEF j, r
<1>9. \E g : Placed(Append(jobs, j), namingTable, Append(received, r), Len(replies), k, g)
  BY <1>1, <1>2, <1>5, <1>6, <1>7, PlacedRequest
<1>10. /\ Len(received') = Len(received) + 1
       /\ \A i \in 1 .. Len(received) : received'[i] = received[i]
  BY <1>1, <1>7, <1>8
<1>11. RepliesInOrder' /\ Told'
  BY <1>1, <1>8, <1>10 DEF InOrder, RepliesInOrder, Told
<1>q. QED
  BY <1>8, <1>9, <1>11 DEF InOrder

\* A job that is sent.
LEMMA SendInOrder ==
  ASSUME TypeOK, InOrder, ExecuteSend
  PROVE  InOrder'
<1> DEFINE j == Head(jobs)
<1>1. jobs \in Seq(Job) /\ HistoryType /\ Len(replies) \in Nat /\ Len(received) \in Nat
  BY HistoryLengths DEF TypeOK
<1>2. PICK k, f : Placed(jobs, namingTable, received, Len(replies), k, f)
  BY DEF InOrder
<1>3. jobs # <<>> /\ j \in Reply \cup Control /\ Tail(jobs) \in Seq(Job)
  BY TakeType DEF ExecuteSend
<1>4. /\ Finish(Tail(jobs)) /\ received' = received /\ namingTable' = namingTable
      /\ replies' = IF j \in Control THEN replies ELSE Append(replies, j)
  BY DEF ExecuteSend
<1>5. CASE j \in Control
  <2>1. \E g : Placed(Tail(jobs), namingTable, received, Len(replies), k, g)
    BY <1>1, <1>2, <1>3, <1>5, PlacedSend
  <2>2. \E e, g : Placed(jobs', namingTable, received, Len(replies), e, g)
    BY <1>1, <1>3, <1>4, <2>1, PlacedFinish
  <2>q. QED
    BY <1>4, <1>5, <2>2 DEF InOrder, RepliesInOrder, Told
<1>6. CASE j \in Reply
  <2>1. replies' = Append(replies, j)
    BY <1>4, <1>6, JobKinds
  <2>2. Len(replies') = Len(replies) + 1 /\ Len(replies') \in Nat
        /\ replies'[Len(replies')] = j
        /\ \A i \in 1 .. Len(replies) : replies'[i] = replies[i]
    BY <1>1, <2>1 DEF HistoryType
  <2>3. \E g : Placed(Tail(jobs), namingTable, received, Len(replies'), k, g)
    BY <1>1, <1>2, <1>3, <1>6, <2>2, PlacedSend
  <2>4. \E e, g : Placed(jobs', namingTable, received, Len(replies'), e, g)
    BY <1>1, <1>3, <1>4, <2>2, <2>3, PlacedFinish
  <2>5. /\ Len(replies') <= Len(received)
        /\ j.dst = received[Len(replies')].src
        /\ j.answer \in Kind(received[Len(replies')].type)
        /\ Truthful(namingTable, received[Len(replies')], j.answer)
    <3>1. f[1] = Len(replies') /\ Len(replies') <= k
      BY <1>1, <1>2, <1>3, <1>6, <2>2, PlacedHead
    <3>2. /\ About(j, f[1], namingTable, received, Len(replies), k)
          /\ k \in Nat /\ k <= Len(received)
      BY <1>1, <1>2, <1>3 DEF Placed, Counts
    <3>q. QED
      BY <1>1, <2>2, <3>1, <3>2 DEF About
  <2>6. RepliesInOrder' /\ Told'
    BY <1>1, <1>4, <2>2, <2>5 DEF InOrder, RepliesInOrder, Told
  <2>q. QED
    BY <1>4, <2>4, <2>6 DEF InOrder
<1>q. QED
  BY <1>3, <1>5, <1>6

LEMMA OrderStep == TypeOK /\ InOrder /\ [Next]_vars => InOrder'
<1> SUFFICES ASSUME TypeOK, InOrder, [Next]_vars PROVE InOrder'
  OBVIOUS
<1>1. namingTable \in Table
  BY DEF TypeOK, NamesType, Table
<1>2. Grown(namingTable, namingTable)
  BY DEF Grown
<1>3. ASSUME UNCHANGED <<namingTable, jobs, received, replies>>
      PROVE  InOrder'
  BY <1>3 DEF InOrder, RepliesInOrder, Told
<1>4. CASE ExecuteNothing
  <2>1. Finish(jobs) /\ UNCHANGED <<namingTable, received, replies>>
    BY <1>4 DEF ExecuteNothing, history
  <2>2. \E k, f : Placed(jobs, namingTable, received, Len(replies), k, f)
    BY DEF InOrder
  <2>3. jobs \in Seq(Job) /\ Len(replies) \in Nat /\ Len(received) \in Nat
    BY HistoryLengths DEF TypeOK
  <2>4. \E k, f : Placed(jobs', namingTable, received, Len(replies), k, f)
    BY <2>1, <2>2, <2>3, PlacedFinish
  <2>q. QED
    BY <2>1, <2>4 DEF InOrder, RepliesInOrder, Told
<1>5. CASE ExecutePing
  <2>1. Head(jobs) \in Request /\ jobs # <<>> /\ Head(jobs).type = "ping"
    BY <1>5, TakeType DEF ExecutePing
  <2>2. <<"pong">> \in Answer /\ <<"pong">> \in Kind(Head(jobs).type)
    BY <2>1 DEF Answer, Kind
  <2>3. ReplyWith(<<"pong">>) /\ namingTable' = namingTable
    BY <1>5 DEF ExecutePing
  <2>4. \A r \in Read : Asks(Head(jobs), r, namingTable)
                           => Truthful(namingTable, r, <<"pong">>)
    BY <2>1 DEF Asks, Truthful
  <2>q. QED
    BY <1>1, <1>2, <2>1, <2>2, <2>3, <2>4, ReplyInOrder
<1>6. CASE ExecuteRegister
  <2> DEFINE j == Head(jobs)
             a == <<Attempt(j.src, j.payload)>>
  <2>1. j \in Request /\ jobs # <<>> /\ j.type = "register"
    BY <1>6, TakeType DEF ExecuteRegister
  <2>2. a \in Answer /\ a \in Kind(j.type)
    BY <2>1 DEF Answer, Kind, Attempt
  <2>3. ReplyWith(a) /\ namingTable' = Entered(j.src, j.payload)
    BY <1>6 DEF ExecuteRegister
  <2>4. j.src \in Host /\ j.payload \in Payload
    BY <2>1 DEF Request
  <2> HIDE DEF j
  <2>5. namingTable' \in Table /\ Grown(namingTable, namingTable')
    BY <2>3, <2>4, EnteredKeeps DEF TypeOK, Table, Grown
  <2>6. \A r \in Read : Asks(j, r, namingTable') => Truthful(namingTable', r, a)
    BY <2>1, <2>3, RegisterTrue DEF TypeOK
  <2> HIDE DEF a
  <2>q. QED
    BY <2>1, <2>2, <2>3, <2>5, <2>6, ReplyInOrder DEF j
<1>7. CASE ExecuteLookup
  <2>1. /\ Head(jobs) \in Request /\ jobs # <<>> /\ Head(jobs).type = "lookup"
        /\ Head(jobs).name \in Name
    BY <1>7, TakeType DEF ExecuteLookup
  <2>2. dnsHostIDReturn' = Search(Head(jobs).name) /\ namingTable' = namingTable
    BY <1>7 DEF ExecuteLookup
  <2>3. PICK a \in Answers(dnsHostIDReturn') : ReplyWith(a)
    BY <1>7 DEF ExecuteLookup
  <2>4. dnsHostIDReturn' \in Host \cup {Garbage}
    BY <2>1, <2>2, SearchType DEF TypeOK
  <2>5. a \in Answer /\ a \in Kind(Head(jobs).type)
    BY <2>1, <2>4 DEF Answers, Answer, Kind
  <2>6. \A r \in Read : Asks(Head(jobs), r, namingTable) => Truthful(namingTable, r, a)
    BY <2>1, <2>2, LookupTrue DEF TypeOK
  <2>q. QED
    BY <1>1, <1>2, <2>1, <2>2, <2>3, <2>5, <2>6, ReplyInOrder
<1>8. CASE Recv
  <2>1. CASE RecvNothing \/ \E o \in Other : RecvOther(o)
    BY <1>3, <2>1 DEF RecvNothing, RecvOther, history
  <2>2. CASE \E h \in Host : RecvRequest("ping", h, <<>>)
    BY <2>2, RequestInOrder
  <2>3. CASE \E type \in {"register", "lookup"}, h \in Host, n \in Name : RecvRequest(type, h, n)
    BY <2>3, RequestInOrder, NameType
  <2>q. QED
    BY <1>8, <2>1, <2>2, <2>3 DEF Recv
<1>9. CASE UNCHANGED vars
  BY <1>3, <1>9 DEF vars
<1>q. QED
  BY <1>4, <1>5, <1>6, <1>7, <1>8, <1>9, SendInOrder DEF Next, Execute

LEMMA OrderAlways == Spec => [](TypeOK /\ InOrder)
<1>1. Init => TypeOK /\ InOrder
  BY InitType, OrderInit
<1>2. TypeOK /\ InOrder /\ [Next]_vars => (TypeOK /\ InOrder)'
  BY StepType, OrderStep
<1>q. QED
  BY <1>1, <1>2, PTL DEF Spec

\* For any hosts and any number of requests: the i-th reply goes to the host of
\* the i-th request and is of its kind, although replies and requests wait in
\* one queue and are taken from it one at a time.
THEOREM RepliesKeepOrder == Spec => []RepliesInOrder
<1>1. InOrder => RepliesInOrder
  BY DEF InOrder
<1>q. QED
  BY <1>1, OrderAlways, PTL

\* For any hosts, names and lengths: who reads "S" can be found under the name it
\* asked for, and who reads "FA" has a name, although the answer waits in the
\* queue while other requests change the table, and although the entry is copied
\* from a payload that an older packet may have left characters in.
THEOREM RegistrationsTrue == Spec => []RegisterTruthful
<1>1. InOrder => RegisterTruthful
  BY DEF InOrder, Told, Truthful, RegisterTruthful, Answered
<1>q. QED
  BY <1>1, OrderAlways, PTL

\* For any hosts and names: the lookup of a name that was registered when the
\* request was read is answered with the id of a host that has it; the id of an
\* older search and "FAIL" are left to names that were unknown then.
THEOREM KnownNamesFound == Spec => []KnownFound
<1>1. InOrder => KnownFound
  BY DEF InOrder, Told, Truthful, KnownFound, Answered
<1>q. QED
  BY <1>1, OrderAlways, PTL
================================================================================
