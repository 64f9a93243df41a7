----------------------------- MODULE HostCommands -----------------------------
(***************************************************************************)
(* The manager (src/man.c) and one HOST node (src/host.c), joined by two   *)
(* pipes: the user's commands go one way, text replies the other.          *)
(*                                                                         *)
(* The host repeats one loop: perhaps queue a control packet, read one     *)
(* command; poll its port; execute one job.  A command that needs the      *)
(* network queues two jobs, one that sends a packet and one that waits for *)
(* the answer: it queues itself again until a flag tells that an answer    *)
(* has come, or its timer has run down.                                    *)
(*                                                                         *)
(* The network and the other nodes are the environment: an answer comes    *)
(* whenever it likes, or never.  What becomes of files is modelled in      *)
(* FileTransfer; here their jobs only take their turns in the queue.       *)
(***************************************************************************)
EXTENDS Integers, Sequences, FiniteSets

CONSTANTS
  Target,         \* ids that users name: hosts that exist, or not
  Alive,          \* the hosts among them, which answer a ping
  Name,           \* domain names
  Dir,            \* directory names
  Table,          \* the naming table: the answer to a lookup of each name
  IdZero,         \* the id 0
  CONTROL_COUNT,
  PingTimer, DnsTimer,  \* 10 and 40 in the code
  Users,          \* bound: the sets of commands of which users keep to one
  MaxCommands,    \* bound: how many commands are entered
  MaxIncoming,    \* bound: how many packets other hosts send on their own
  MaxParts        \* bound: in how many packets a file is sent, at least 2

ASSUME SetAssumption ==
  /\ Alive \subseteq Target /\ IdZero \in Target
  /\ Table \in [Name -> Target \cup {"FAIL"}]
  /\ {"zeroed", "FAIL"} \cap Target = {}

ASSUME BoundAssumption ==
  /\ CONTROL_COUNT \in Nat \ {0}
  /\ PingTimer \in Nat \ {0} /\ DnsTimer \in Nat \ {0}
  /\ MaxCommands \in Nat /\ MaxIncoming \in Nat /\ MaxParts \in Nat

\* What a user can ask for, as far as it is modelled.
Command ==
  ([cmd : {"s"}, arg : {"-"}] \cup
   [cmd : {"m"}, arg : Dir] \cup
   [cmd : {"p", "u", "d"}, arg : Target] \cup
   [cmd : {"r", "l", "P", "D"}, arg : Name])

\* The manager waits for a reply to these commands.
Waited == {"s", "p", "r", "l", "P"}

Registration == {"S", "FN", "FI", "FA"}

\* Packets to be answered.
Packet ==
  [type : {"ping"}, to : Target] \cup [type : {"register", "lookup"}, to : Name]

\* Reply texts: what they are about, what they say, and (history) the command
\* that caused them.
Reply ==
  [about : {"state"}, says : Dir \cup {"None", "garbled"}, for : Command] \cup
  [about : {"ping"}, says : {"acked", "timeout"}, for : Command] \cup
  [about : {"register"}, says : Registration \cup {"unparsed", "timeout"},
   for : Command] \cup
  [about : {"lookup"}, says : Target \cup {"FAIL", "timeout"}, for : Command]

\* Jobs.  The packet of a send job is <<>> where nothing in this model depends
\* on it: control packets, replies to pings, download requests, files.
WaitType == {"waitPing", "waitRegister", "waitLookup", "waitDnsPing", "waitDownload"}
Job ==
  [type : {"send"}, packet : {<<>>} \cup {<<p>> : p \in Packet}] \cup
  [type : {"pingReply", "upload", "file"}] \cup
  [type : WaitType, timer : Nat, for : Command]

VARIABLES
  waiting,        \* the manager: <<>> at its prompt, else the command it waits for
  toHost, toMan,  \* the two pipes
  dir,            \* the host's directory, "None" while dir_valid = 0
  pingReceived, registerReceived, lookupReceived,
  registerBuffer, lookupBuffer,  \* the texts of the last answers, or "zeroed"
  controlCount,
  jobs,           \* job_q
  scan,           \* the host is at the "top" of its loop, before "poll" or "execute"
  net,            \* packets whose answers may come
  user,           \* the commands that this user enters
  issued, incoming,  \* how many commands and foreign packets there were
  unwaited,       \* history: how many 'D's there were
  shown,          \* history: the last reply that was displayed, and for what
  downloads       \* history: download requests, with the 'D' they were made for

flags == <<pingReceived, registerReceived, lookupReceived,
           registerBuffer, lookupBuffer>>
console == <<waiting, toHost, toMan, user, issued, unwaited, shown>>
vars == <<console, dir, flags, controlCount, jobs, scan, net, incoming, downloads>>

--------------------------------------------------------------------------------
(* The manager.                                                                 *)

Init ==
  /\ waiting = <<>> /\ toHost = <<>> /\ toMan = <<>>
  /\ dir = "None"
  /\ pingReceived = FALSE /\ registerReceived = FALSE /\ lookupReceived = FALSE
  /\ registerBuffer = "zeroed" /\ lookupBuffer = "zeroed"
  /\ controlCount = 0
  /\ jobs = <<>>
  /\ scan = "top"
  /\ net = {}
  /\ user \in Users
  /\ issued = 0 /\ incoming = 0 /\ unwaited = 0
  /\ shown = <<>>
  /\ downloads = {}

\* At its prompt the manager writes a command to the host, and waits or not.
Enter(c) ==
  /\ waiting = <<>>
  /\ issued < MaxCommands
  /\ issued' = issued + 1
  /\ unwaited' = IF c.cmd = "D" THEN unwaited + 1 ELSE unwaited
  /\ toHost' = Append(toHost, c)
  /\ waiting' = IF c.cmd \in Waited THEN <<c>> ELSE <<>>
  /\ UNCHANGED <<toMan, user, dir, flags, controlCount, jobs, scan, net,
                 incoming, shown, downloads>>

\* One read takes everything the host has written, and what comes first is what
\* is understood or displayed.
ReadReply ==
  /\ waiting # <<>> /\ toMan # <<>>
  /\ shown' = <<waiting[1], toMan[1]>>
  /\ waiting' = <<>>
  /\ toMan' = <<>>
  /\ UNCHANGED <<toHost, user, dir, flags, controlCount, jobs, scan, net, issued,
                 unwaited, incoming, downloads>>

--------------------------------------------------------------------------------
(* The host: the top of its loop.                                               *)

SendJob(packet) == [type |-> "send", packet |-> packet]

WaitJob(type, c) ==
  [type |-> type, for |-> c,
   timer |-> IF type = "waitPing" THEN PingTimer ELSE DnsTimer]

\* The queue after the control packet of this iteration, if it is due.
ControlQueue ==
  IF controlCount + 1 >= CONTROL_COUNT THEN Append(jobs, SendJob(<<>>)) ELSE jobs

\* Mutated: the job that waits is forgotten for one command.
TwoJobsOne(packet, type, c) ==
  IF c.cmd = "P" THEN <<SendJob(<<packet>>)>>
  ELSE <<SendJob(<<packet>>), WaitJob(type, c)>>

\* The jobs of a command that sends a packet and waits for the answer.
TwoJobs(packet, type, c) == <<SendJob(<<packet>>), WaitJob(type, c)>>

Top ==
  /\ scan = "top" /\ scan' = "poll"
  /\ controlCount' = IF controlCount + 1 >= CONTROL_COUNT THEN 0 ELSE controlCount + 1
  /\ UNCHANGED <<net, incoming, waiting, user, issued, unwaited, shown, downloads>>

TopNoCommand ==
  /\ Top
  /\ toHost = <<>>
  /\ jobs' = ControlQueue
  /\ UNCHANGED <<toHost, toMan, dir, flags>>

\* One read takes all commands that were written, and the first one is decoded.
ReadCommand(cmds) ==
  /\ Top
  /\ toHost # <<>>
  /\ toHost[1].cmd \in cmds
  /\ toHost' = <<>>

GetState ==
  /\ ReadCommand({"s"})
  /\ toMan' = Append(toMan, [about |-> "state", says |-> dir, for |-> toHost[1]])
  /\ jobs' = ControlQueue
  /\ UNCHANGED <<dir, flags>>

\* The name of the directory goes on to the end of what was read.
SetDir ==
  /\ ReadCommand({"m"})
  /\ dir' = IF Len(toHost) = 1 THEN toHost[1].arg ELSE "garbled"
  /\ jobs' = ControlQueue
  /\ UNCHANGED <<toMan, flags>>

GetDownload ==
  /\ ReadCommand({"d"})
  /\ jobs' = Append(ControlQueue, SendJob(<<>>))
  /\ UNCHANGED <<toMan, dir, flags>>

StartUpload ==
  /\ ReadCommand({"u"})
  /\ jobs' = Append(ControlQueue, [type |-> "upload"])
  /\ UNCHANGED <<toMan, dir, flags>>

StartPing ==
  LET c == toHost[1]
  IN /\ ReadCommand({"p"})
     /\ jobs' = ControlQueue
                  \o TwoJobs([type |-> "ping", to |-> c.arg], "waitPing", c)
     /\ pingReceived' = FALSE
     /\ UNCHANGED <<toMan, dir, registerReceived, lookupReceived,
                    registerBuffer, lookupBuffer>>

StartRegister ==
  LET c == toHost[1]
  IN /\ ReadCommand({"r"})
     /\ jobs' = ControlQueue
                  \o TwoJobs([type |-> "register", to |-> c.arg], "waitRegister", c)
     /\ registerReceived' = FALSE
     /\ registerBuffer' = "zeroed"
     /\ UNCHANGED <<toMan, dir, pingReceived, lookupReceived, lookupBuffer>>

WaitFor(cmd) ==
  CASE cmd = "l" -> "waitLookup" [] cmd = "P" -> "waitDnsPing"
    [] cmd = "D" -> "waitDownload"

\* Mutated: the flag keeps its value from the previous lookup.
LookupFlagsKept(cmd) == UNCHANGED <<lookupReceived, lookupBuffer>>

\* The flag and the buffer when a lookup begins; only 'l' clears the buffer.
LookupFlags(cmd) ==
  /\ lookupReceived' = FALSE
  /\ lookupBuffer' = IF cmd = "l" THEN "zeroed" ELSE lookupBuffer

StartLookup ==
  LET c == toHost[1]
  IN /\ ReadCommand({"l", "P", "D"})
     /\ jobs' = ControlQueue
                  \o TwoJobs([type |-> "lookup", to |-> c.arg], WaitFor(c.cmd), c)
     /\ LookupFlags(c.cmd)
     /\ UNCHANGED <<toMan, dir, pingReceived, registerReceived, registerBuffer>>

--------------------------------------------------------------------------------
(* The host: its port.                                                          *)

Poll ==
  /\ scan = "poll" /\ scan' = "execute"
  /\ UNCHANGED <<console, dir, controlCount, downloads>>

PollNothing == Poll /\ UNCHANGED <<flags, jobs, net, incoming>>

\* Another host pings, requests a file, or sends a part of one.
PollForeign(type) ==
  /\ Poll
  /\ incoming < MaxIncoming
  /\ incoming' = incoming + 1
  /\ jobs' = Append(jobs, [type |-> type])
  /\ UNCHANGED <<flags, net>>

\* The answer to p, of this type, is read.
PollAnswer(type, p) ==
  /\ Poll
  /\ p.type = type
  /\ net' = net \ {p}
  /\ UNCHANGED <<jobs, incoming>>

PollPong(p) ==
  /\ PollAnswer("ping", p)
  /\ pingReceived' = TRUE
  /\ UNCHANGED <<registerReceived, lookupReceived, registerBuffer, lookupBuffer>>

PollRegistered(p, a) ==
  /\ PollAnswer("register", p)
  /\ registerReceived' = TRUE
  /\ registerBuffer' = a
  /\ UNCHANGED <<pingReceived, lookupReceived, lookupBuffer>>

PollLookedUp(p) ==
  /\ PollAnswer("lookup", p)
  /\ lookupReceived' = TRUE
  /\ lookupBuffer' = Table[p.to]
  /\ UNCHANGED <<pingReceived, registerReceived, registerBuffer>>

--------------------------------------------------------------------------------
(* The host: one job.                                                           *)

Job1 == Head(jobs)

\* Execute the job at the head of the queue, which is of this type.
Take(type) ==
  /\ scan = "execute" /\ scan' = "top"
  /\ jobs # <<>> /\ Job1.type = type
  /\ UNCHANGED <<waiting, toHost, user, issued, unwaited, shown, dir,
                 controlCount, incoming>>

\* The job ends with a reply to the manager.
Tell(about, says) ==
  /\ toMan' = Append(toMan, [about |-> about, says |-> says, for |-> Job1.for])
  /\ jobs' = Tail(jobs)

\* Mutated: a job whose time is over is dropped without a word.
WaitOnSilent(about) ==
  /\ jobs' = IF Job1.timer > 1
               THEN Append(Tail(jobs), [Job1 EXCEPT !.timer = @ - 1])
               ELSE Tail(jobs)
  /\ UNCHANGED <<flags, net, downloads, toMan>>

\* Mutated: the time never runs down.
WaitOnForever(about) ==
  /\ jobs' = Append(Tail(jobs), Job1)
  /\ UNCHANGED <<flags, net, downloads, toMan>>

\* Mutated: the time is over one round later.
WaitOnLonger(about) ==
  /\ IF Job1.timer > 0
       THEN /\ jobs' = Append(Tail(jobs), [Job1 EXCEPT !.timer = @ - 1])
            /\ UNCHANGED toMan
       ELSE Tell(about, "timeout")
  /\ UNCHANGED <<flags, net, downloads>>

\* Mutated: a job whose time is over tells so and waits on.
WaitOnTwice(about) ==
  /\ IF Job1.timer > 1 THEN UNCHANGED toMan
     ELSE toMan' = Append(toMan, [about |-> about, says |-> "timeout", for |-> Job1.for])
  /\ jobs' = Append(Tail(jobs), [Job1 EXCEPT !.timer = IF @ > 1 THEN @ - 1 ELSE @])
  /\ UNCHANGED <<flags, net, downloads>>

\* There is no answer yet: wait on, or tell that the time is over.
WaitOn(about) ==
  /\ IF Job1.timer > 1
       THEN /\ jobs' = Append(Tail(jobs), [Job1 EXCEPT !.timer = @ - 1])
            /\ UNCHANGED toMan
       ELSE Tell(about, "timeout")
  /\ UNCHANGED <<flags, net, downloads>>

ExecuteNothing ==
  /\ scan = "execute" /\ scan' = "top"
  /\ jobs = <<>>
  /\ UNCHANGED <<console, dir, flags, controlCount, jobs, net, incoming, downloads>>

\* A ping that nobody answers leaves no trace in net.
ExecuteSend ==
  /\ Take("send")
  /\ net' = net \cup {p \in Packet : <<p>> = Job1.packet /\
                                     (p.type = "ping" => p.to \in Alive)}
  /\ jobs' = Tail(jobs)
  /\ UNCHANGED <<toMan, flags, downloads>>

ExecutePingReply ==
  /\ Take("pingReply")
  /\ jobs' = Append(Tail(jobs), SendJob(<<>>))
  /\ UNCHANGED <<toMan, flags, net, downloads>>

\* No file is opened, or it is sent.
ExecuteUpload ==
  /\ Take("upload")
  /\ \/ jobs' = Tail(jobs)
     \/ /\ dir # "None"
        /\ \E n \in 2 .. MaxParts : jobs' = Tail(jobs) \o [i \in 1 .. n |-> SendJob(<<>>)]
  /\ UNCHANGED <<toMan, flags, net, downloads>>

ExecuteFile ==
  /\ Take("file")
  /\ jobs' = Tail(jobs)
  /\ UNCHANGED <<toMan, flags, net, downloads>>

WaitPing ==
  /\ Take("waitPing")
  /\ IF pingReceived
       THEN Tell("ping", "acked") /\ UNCHANGED <<flags, net, downloads>>
       ELSE WaitOn("ping")

\* What the registration reply says; a text that is no reply cannot be parsed.
Says == IF registerBuffer \in Registration THEN registerBuffer ELSE "unparsed"

WaitRegister ==
  /\ Take("waitRegister")
  /\ IF registerReceived
       THEN /\ Tell("register", Says)
            /\ registerBuffer' = "zeroed"
            /\ UNCHANGED <<pingReceived, registerReceived, lookupReceived,
                           lookupBuffer, net, downloads>>
       ELSE WaitOn("register")

\* The first byte of a zeroed buffer is the id 0.
LookupResponse == IF lookupBuffer = "zeroed" THEN IdZero ELSE lookupBuffer

\* The flag stays set.
WaitLookup ==
  /\ Take("waitLookup")
  /\ IF lookupReceived
       THEN /\ Tell("lookup", LookupResponse)
            /\ lookupBuffer' = "zeroed"
            /\ UNCHANGED <<pingReceived, registerReceived, lookupReceived,
                           registerBuffer, net, downloads>>
       ELSE WaitOn("lookup")

\* The end of a wait for the id of a host to ping, or to download from.
LookupDone ==
  /\ lookupBuffer' = "zeroed"
  /\ lookupReceived' = FALSE
  /\ UNCHANGED <<registerReceived, registerBuffer, net>>

WaitDnsPing ==
  /\ Take("waitDnsPing")
  /\ IF ~lookupReceived
       THEN WaitOn("lookup")
       ELSE /\ LookupDone
            /\ UNCHANGED downloads
            /\ IF LookupResponse = "FAIL"
                 THEN Tell("lookup", "FAIL") /\ UNCHANGED pingReceived
                 ELSE /\ jobs' = Tail(jobs) \o
                           TwoJobs([type |-> "ping", to |-> LookupResponse],
                                   "waitPing", Job1.for)
                      /\ pingReceived' = FALSE
                      /\ UNCHANGED toMan

WaitDownload ==
  /\ Take("waitDownload")
  /\ IF ~lookupReceived
       THEN WaitOn("lookup")
       ELSE /\ LookupDone
            /\ UNCHANGED pingReceived
            /\ IF LookupResponse = "FAIL"
                 THEN Tell("lookup", "FAIL") /\ UNCHANGED downloads
                 ELSE /\ jobs' = Append(Tail(jobs), SendJob(<<>>))
                      /\ downloads' = downloads \cup {<<Job1.for, LookupResponse>>}
                      /\ UNCHANGED toMan

--------------------------------------------------------------------------------
HostStep ==
  \/ TopNoCommand \/ GetState \/ SetDir \/ GetDownload \/ StartUpload
  \/ StartPing \/ StartRegister \/ StartLookup
  \/ PollNothing \/ \E type \in {"pingReply", "upload", "file"} : PollForeign(type)
  \/ \E p \in net : PollPong(p)
  \/ \E p \in net, a \in Registration : PollRegistered(p, a)
  \/ \E p \in net : PollLookedUp(p)
  \/ ExecuteNothing \/ ExecuteSend \/ ExecutePingReply \/ ExecuteUpload \/ ExecuteFile
  \/ WaitPing \/ WaitRegister \/ WaitLookup \/ WaitDnsPing \/ WaitDownload

UserStep == \E c \in {c \in Command : c.cmd \in user} : Enter(c)

Next == UserStep \/ ReadReply \/ HostStep

Spec == Init /\ [][Next]_vars

\* The host never blocks, and the manager polls for a reply as long as it waits.
\* Neither the user nor the network has to do anything.
FairSpec == Spec /\ WF_vars(HostStep) /\ WF_vars(ReadReply)

--------------------------------------------------------------------------------
\* Every variable keeps its type; in particular no timer reaches 0, where the
\* wait would have ended, and no job carries a packet of another kind.
TypeOK ==
  /\ waiting \in {<<>>} \cup {<<c>> : c \in Command}
  /\ \A i \in 1 .. Len(toHost) : toHost[i] \in Command
  /\ \A i \in 1 .. Len(toMan) : toMan[i] \in Reply
  /\ dir \in Dir \cup {"None", "garbled"}
  /\ {pingReceived, registerReceived, lookupReceived} \subseteq BOOLEAN
  /\ registerBuffer \in Registration \cup {"zeroed"}
  /\ lookupBuffer \in Target \cup {"FAIL", "zeroed"}
  /\ controlCount \in 0 .. CONTROL_COUNT - 1
  /\ \A i \in 1 .. Len(jobs) :
       jobs[i] \in Job /\ (jobs[i].type \in WaitType => jobs[i].timer > 0)
  /\ scan \in {"top", "poll", "execute"}
  /\ net \subseteq Packet
  /\ user \in Users
  /\ unwaited <= issued
  /\ issued \in 0 .. MaxCommands /\ incoming \in 0 .. MaxIncoming
  /\ downloads \subseteq Command \X Target

Waits == {i \in 1 .. Len(jobs) : jobs[i].type \in WaitType}

\* Does the user enter only commands that the manager waits for?
Patient == user \subseteq Waited

\* For a patient user: while the manager waits, its command is in exactly one
\* place - unread, in a job that waits, or in a reply - and while it is at its
\* prompt, nothing is left over.  So the reply it reads is the reply to its
\* command, although replies carry no sign of what they answer, and 'P' turns
\* one wait into another.
OneReply ==
  LET outstanding ==
        {toHost[i] : i \in 1 .. Len(toHost)} \cup {jobs[i].for : i \in Waits} \cup
        {toMan[i].for : i \in 1 .. Len(toMan)}
  IN Patient =>
       /\ outstanding = {waiting[i] : i \in 1 .. Len(waiting)}
       /\ Len(toHost) + Cardinality(Waits) + Len(toMan) = Len(waiting)

\* For every user: replies that nobody waits for come from 'D' alone, one at most
\* for each, though once there is such a reply, the commands that follow are
\* shown each other's replies.  ('D' does not wait, line 315 of man.c, but may
\* end in a reply, lines 945 and 979 of host.c.)
StraysFromDownloads ==
  LET unread == Cardinality({i \in 1 .. Len(toHost) : toHost[i].cmd \in Waited})
      others == Cardinality({i \in 1 .. Len(toHost) : toHost[i].cmd = "D"})
  IN unread + Cardinality(Waits) + Len(toMan) <= Len(waiting) + unwaited - others

\* For a patient user: when a waiting job finds its flag set, there is an answer
\* in the buffer, never a zeroed one, which would be taken for the id 0 or for a
\* reply that cannot be parsed.  Flag and buffer are set and cleared at four
\* places each, and late answers of earlier commands set them too.
FreshBuffer ==
  Patient => \A i \in Waits :
    /\ jobs[i].type = "waitRegister" /\ registerReceived =>
         registerBuffer # "zeroed"
    /\ jobs[i].type \in {"waitLookup", "waitDnsPing", "waitDownload"}
         /\ lookupReceived => lookupBuffer # "zeroed"

\* Every command of a patient user is answered: the user gets the prompt back,
\* whatever is lost in the network and however many other jobs there are.
Answered == Patient /\ waiting # <<>> ~> waiting = <<>>

\* Every wait of the host ends, also when several wait for the same flag.
WaitsEnd == <>[](Waits = {})

--------------------------------------------------------------------------------
(* What comments of the repository say.                                         *)

\* "Wait for DNS lookup response, if name exists, try download the file from the
\* host pointed to by the server".
DownloadPointed == \A d \in downloads : d[2] = Table[d[1].arg]
================================================================================
