------------------------------- MODULE DnsServer -------------------------------
(***************************************************************************)
(* The SERVER node (src/server.c): a loop that perhaps queues a control    *)
(* packet, polls its port, and executes one job.  The server has one port  *)
(* in every configuration of the repository.                               *)
(*                                                                         *)
(* The hosts and the network are its environment: each poll may return any *)
(* request of any host, so a request may be repeated, lost or delayed.     *)
(*                                                                         *)
(* A packet lives in memory that malloc returned, and a received payload   *)
(* is copied there without a terminating NUL: after its length bytes comes *)
(* what an earlier packet left.  free() clears the first 8 bytes of a      *)
(* payload, so the first character of a name stands for its first 8 bytes. *)
(***************************************************************************)
EXTENDS Integers, Sequences, FiniteSets

CONSTANTS
  Host,             \* ids of the hosts
  Name,             \* the names that users register and look up
  Other,            \* payloads of packets for other nodes that are flooded here
  MAX_NAME_LENGTH,
  PAYLOAD_MAX,
  NUL, Space,       \* two characters
  Garbage,          \* an uninitialized id
  CONTROL_COUNT,
  MaxReads          \* bound: number of packets the server reads

Position == 1 .. PAYLOAD_MAX

\* The characters in use.
Char == {NUL, Space} \cup UNION {{n[i] : i \in 1 .. Len(n)} : n \in Name \cup Other}
Payload == [Position -> Char]

ASSUME BoundAssumption ==
  /\ Host \subseteq Nat
  /\ CONTROL_COUNT \in Nat \ {0} /\ MaxReads \in Nat
  /\ MAX_NAME_LENGTH \in Nat /\ PAYLOAD_MAX \in Nat
  /\ 0 < MAX_NAME_LENGTH /\ MAX_NAME_LENGTH < PAYLOAD_MAX

\* A name is one word (scanf "%s" at the manager, sscanf "%s" at the host).
ASSUME NameAssumption ==
  /\ \A n \in Name \cup Other : n \in Seq(Char) /\ Len(n) \in 1 .. PAYLOAD_MAX
  /\ \A n \in Name : \A i \in 1 .. Len(n) : n[i] # NUL /\ n[i] # Space

ASSUME GarbageAssumption == Garbage \notin Host /\ NUL # Space

\* A job: send a packet, or serve a request.
Request ==
  [type : {"ping"}, src : Host, name : {<<>>}, payload : Payload] \cup
  [type : {"register", "lookup"}, src : Host, name : Name, payload : Payload]
Answer  == {<<"pong">>, <<"S">>, <<"FN">>, <<"FA">>, <<"FI">>, <<"FAIL">>, <<"garbage">>}
           \cup ({"id"} \X Host)
Reply   == [type : {"send"}, dst : Host, answer : Answer]
Control == [type : {"send"}]
Job     == Request \cup Reply \cup Control

VARIABLES
  namingTable,      \* the name of each host; <<>> while isRegistered is NO
  dnsHostIDReturn,  \* the result of the last search that found something
  controlCount,
  jobs,             \* job_q
  scan,             \* before "poll" or before "execute"
  freed,            \* payloads of the packets that were freed
  received,         \* history: the requests read, in order
  replies           \* history: the replies sent, in order

vars == <<namingTable, dnsHostIDReturn, controlCount, jobs, scan, freed,
          received, replies>>

history == <<received, replies>>

--------------------------------------------------------------------------------
Blank == [i \in Position |-> NUL]

\* The payload of a received packet of length Len(n), in memory that held m.
PayloadOf(n, m) == [i \in Position |-> IF i <= Len(n) THEN n[i] ELSE m[i]]

\* The characters before the first NUL.
StrLen(p) == Cardinality({i \in Position : \A k \in 1 .. i : p[k] # NUL})

\* The string that sprintf("%s") copies.
String(p) == [i \in 1 .. StrLen(p) |-> p[i]]

\* strncmp(n, e, Len(n)) = 0
StartsWith(e, n) ==
  Len(n) <= Len(e) /\ \A i \in 1 .. Len(n) : e[i] = n[i]

Found(n) == {h \in Host : StartsWith(namingTable[h], n)}
Smallest(S) == CHOOSE h \in S : \A g \in S : h <= g

--------------------------------------------------------------------------------
(* The loop.                                                                    *)

\* The rest of an iteration that leaves queue q: sleep, and at the top of the
\* next one, perhaps queue a control packet.
Finish(q) ==
  /\ scan' = "poll"
  /\ IF controlCount + 1 > CONTROL_COUNT
       THEN /\ controlCount' = 0
            /\ jobs' = Append(q, [type |-> "send"])
       ELSE /\ controlCount' = controlCount + 1
            /\ jobs' = q

\* The state before the first poll.
Init ==
  /\ namingTable     = [h \in Host |-> <<>>]
  /\ dnsHostIDReturn = Garbage
  /\ controlCount    = 1
  /\ jobs            = <<>>
  /\ scan            = "poll"
  /\ freed           = {Blank}
  /\ received        = <<>>
  /\ replies         = <<>>

RecvNothing ==
  /\ scan = "poll" /\ scan' = "execute"
  /\ UNCHANGED <<namingTable, dnsHostIDReturn, controlCount, jobs, freed, history>>

\* A packet for another node is read and freed; its payload o stays in memory.
RecvOther(o) ==
  /\ scan = "poll" /\ scan' = "execute"
  /\ \E m \in freed : freed' = freed \cup {PayloadOf(o, m)}
  /\ UNCHANGED <<namingTable, dnsHostIDReturn, controlCount, jobs, history>>

\* A request becomes a job.  The history notes whether its name was known.
RecvRequest(type, h, n) ==
  /\ scan = "poll" /\ scan' = "execute"
  /\ Len(received) < MaxReads
  /\ \E m \in freed :
       jobs' = Append(jobs, [type |-> type, src |-> h, name |-> n,
                             payload |-> PayloadOf(n, m)])
  /\ received' = Append(received, [type |-> type, src |-> h, name |-> n,
                                   known |-> Found(n) # {}])
  /\ UNCHANGED <<namingTable, dnsHostIDReturn, controlCount, freed, replies>>

\* Begin the execution of the job at the head of the queue, of this type.
Take(type) == scan = "execute" /\ jobs # <<>> /\ Head(jobs).type = type

\* Mutated: the reply is made but not queued.
ReplyLost(a) ==
  LET j == Head(jobs)
  IN /\ Finish(Tail(jobs))
     /\ freed' = freed \cup {j.payload}
     /\ UNCHANGED history

\* The end of a request's job: queue its reply, free its packet.
ReplyWith(a) ==
  LET j == Head(jobs)
  IN /\ Finish(Append(Tail(jobs), [type |-> "send", dst |-> j.src, answer |-> a]))
     /\ freed' = freed \cup {j.payload}
     /\ UNCHANGED history

ExecuteNothing ==
  /\ scan = "execute" /\ jobs = <<>>
  /\ Finish(jobs)
  /\ UNCHANGED <<namingTable, dnsHostIDReturn, freed, history>>

ExecuteSend ==
  /\ Take("send")
  /\ replies' = IF Head(jobs) \in Control THEN replies
                ELSE Append(replies, Head(jobs))
  /\ Finish(Tail(jobs))
  /\ UNCHANGED <<namingTable, dnsHostIDReturn, freed, received>>

\* Mutated: a ping is answered at once, without a job for the reply.
ExecutePingAtOnce ==
  LET j == Head(jobs)
  IN /\ Take("ping")
     /\ Finish(Tail(jobs))
     /\ replies' = Append(replies, [type |-> "send", dst |-> j.src, answer |-> <<"pong">>])
     /\ freed' = freed \cup {j.payload}
     /\ UNCHANGED <<namingTable, dnsHostIDReturn, received>>

ExecutePing ==
  /\ Take("ping")
  /\ ReplyWith(<<"pong">>)
  /\ UNCHANGED <<namingTable, dnsHostIDReturn>>

\* Mutated: ALREADY_REGISTERED is forgotten.
AttemptAgain(h, p) ==
  IF StrLen(p) > MAX_NAME_LENGTH THEN "FN"
  ELSE IF \E i \in 1 .. MAX_NAME_LENGTH : p[i] = Space THEN "FI"
  ELSE "S"

\* Mutated: the limit is one too high.
AttemptLong(h, p) ==
  IF StrLen(p) > MAX_NAME_LENGTH + 1 THEN "FN"
  ELSE IF namingTable[h] # <<>> THEN "FA"
  ELSE IF \E i \in 1 .. MAX_NAME_LENGTH : p[i] = Space THEN "FI"
  ELSE "S"

\* May h register the name in p?  The search for a space does not stop at the
\* end of the name.
Attempt(h, p) ==
  IF StrLen(p) > MAX_NAME_LENGTH THEN "FN"
  ELSE IF namingTable[h] # <<>> THEN "FA"
  ELSE IF \E i \in 1 .. MAX_NAME_LENGTH : p[i] = Space THEN "FI"
  ELSE "S"

\* Mutated: whatever the outcome, the name is entered.
EnteredAlways(h, p) == [namingTable EXCEPT ![h] = String(p)]

\* The naming table after h tried to register the name in p.
Entered(h, p) ==
  IF Attempt(h, p) = "S" THEN [namingTable EXCEPT ![h] = String(p)] ELSE namingTable

ExecuteRegister ==
  LET j == Head(jobs)
  IN /\ Take("register")
     /\ ReplyWith(<<Attempt(j.src, j.payload)>>)
     /\ namingTable' = Entered(j.src, j.payload)
     /\ UNCHANGED dnsHostIDReturn

\* Mutated: the whole entry is compared.
SearchExact(n) ==
  LET S == {h \in Host : namingTable[h] = n}
  IN IF S # {} THEN Smallest(S) ELSE dnsHostIDReturn

\* The first entry that begins with n; without one the id of the last
\* successful search remains.
Search(n) == IF Found(n) # {} THEN Smallest(Found(n)) ELSE dnsHostIDReturn

\* What is answered for id d.  An uninitialized id may be out of range or that of
\* a host without a name (FAIL), or else is sent, whatever it is.
Answers(d) ==
  IF d = Garbage THEN {<<"FAIL">>, <<"garbage">>} ELSE {<<"id", d>>}

ExecuteLookup ==
  /\ Take("lookup")
  /\ dnsHostIDReturn' = Search(Head(jobs).name)
  /\ \E a \in Answers(dnsHostIDReturn') : ReplyWith(a)
  /\ UNCHANGED namingTable

--------------------------------------------------------------------------------
Recv ==
  \/ RecvNothing
  \/ \E o \in Other : RecvOther(o)
  \/ \E h \in Host : RecvRequest("ping", h, <<>>)
  \/ \E type \in {"register", "lookup"}, h \in Host, n \in Name :
       RecvRequest(type, h, n)

Execute ==
  \/ ExecuteNothing
  \/ ExecuteSend
  \/ ExecutePing
  \/ ExecuteRegister
  \/ ExecuteLookup

Next == Recv \/ Execute

Spec == Init /\ [][Next]_vars

\* The loop has no blocking call, so the process keeps running.
FairSpec == Spec /\ WF_vars(Next)

--------------------------------------------------------------------------------
NamesType ==
  /\ namingTable \in [Host -> Seq(Char)]
  /\ \A h \in Host : Len(namingTable[h]) <= MAX_NAME_LENGTH

FoundType == dnsHostIDReturn \in {h \in Host : namingTable[h] # <<>>} \cup {Garbage}

HistoryType ==
  /\ replies \in Seq(Reply)
  /\ received \in Seq([type : {"ping", "register", "lookup"}, src : Host,
                       name : Name \cup {<<>>}, known : BOOLEAN])

\* Every variable keeps its type; in particular an entry of the naming table
\* never outgrows its row, and the id found is that of a registered host.
TypeOK ==
  /\ NamesType
  /\ FoundType
  /\ jobs \in Seq(Job)
  /\ freed \subseteq Payload
  /\ controlCount \in 0 .. CONTROL_COUNT /\ scan \in {"poll", "execute"}
  /\ HistoryType

Kind(type) ==
  CASE type = "ping"     -> {<<"pong">>}
    [] type = "register" -> {<<"S">>, <<"FN">>, <<"FA">>, <<"FI">>}
    [] type = "lookup"   -> {<<"FAIL">>, <<"garbage">>} \cup ({"id"} \X Host)

\* The server answers in the order of the requests: reply i goes to the host of
\* request i and is of its kind, although a request and its reply are two jobs
\* and control packets and newer requests come between them.  (The replies
\* carry nothing that says which request they answer.)
RepliesInOrder ==
  /\ Len(replies) <= Len(received)
  /\ \A i \in 1 .. Len(replies) :
       /\ replies[i].dst = received[i].src
       /\ replies[i].answer \in Kind(received[i].type)

\* The replies that have been sent to requests of a type: pairs of both.
Answered(type) ==
  {<<received[i], replies[i].answer>> :
     i \in {k \in 1 .. Len(replies) : received[k].type = type}}

\* The entry of a host is written once: never changed, never removed, whatever
\* requests are repeated.
NamesKept ==
  [][\A h \in Host : namingTable[h] # <<>> => namingTable'[h] = namingTable[h]]_vars

\* A host that reads "S" can be found under the name it asked for, and one that
\* reads "FA" has a name: the answers are still true when they are sent,
\* iterations after they were computed.
RegisterTruthful ==
  \A e \in Answered("register") :
    /\ e[2] = <<"S">>  => StartsWith(namingTable[e[1].src], e[1].name)
    /\ e[2] = <<"FA">> => namingTable[e[1].src] # <<>>

\* A lookup of a name that some host had registered when the request was read
\* is answered with a host whose entry begins with that name.
KnownFound ==
  \A e \in Answered("lookup") :
    e[1].known => /\ e[2] \in {"id"} \X Host
                  /\ StartsWith(namingTable[e[2][2]], e[1].name)

\* Every request that is read is answered, although the server executes one job
\* per iteration, a request takes two, and control packets queue up as well.
Replied ==
  \A i \in 1 .. MaxReads : Len(received) >= i ~> Len(replies) >= i

--------------------------------------------------------------------------------
(* What comments of the repository say.                                         *)

\* "Can return host ids when a host performs lookups": an id that a search
\* found is returned to those who look up a name of that host only.
LookupTruthful ==
  \A e \in Answered("lookup") :
    e[2] \in {"id"} \X Host => StartsWith(namingTable[e[2][2]], e[1].name)
================================================================================
