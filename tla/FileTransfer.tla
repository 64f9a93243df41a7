------------------------------ MODULE FileTransfer ------------------------------
(***************************************************************************)
(* Files sent between HOST nodes (src/host.c): the commands 'm', 'u', 'd', *)
(* and the jobs that split a file into packets, collect the packets in the *)
(* one receive buffer of a host, and write the file.                       *)
(*                                                                         *)
(* A host repeats its loop: read one command; poll its port; execute one   *)
(* job.  The network is a queue from each host to each other one, as the   *)
(* tree of the switches has one path between them, and may lose packets.   *)
(* Other commands, control packets and pings only make jobs wait longer;   *)
(* they are in HostCommands.                                               *)
(***************************************************************************)
EXTENDS FileBuf, SequencesExt, FiniteSetsExt

CONSTANTS
  Host,
  Name,           \* file names
  ReadAs,         \* what the receiver may take a requested name for: the name
                  \* has no terminator in the packet
  Dir,            \* directories that exist
  NoDir,          \* dir while dir_valid = 0; "missing" is one that does not exist
  FirstDir,       \* the directories that were set before the model begins
  NUL,            \* the byte 0
  MAX_MSG_LENGTH, \* bytes in a packet
  FileAt,         \* the files there are at first: [Dir \X Name -> contents]
  NoFile,
  Commands,       \* bound: what the users may enter, pairs <<host, command>>
  MaxCommands,    \* bound: how many commands are entered
  MaxLost         \* bound: how many packets are lost

ASSUME TransferAssumption ==
  /\ MAX_MSG_LENGTH \in Nat \ {0}
  /\ NUL \in Byte \ {Junk}
  /\ NoFile \notin Seq(Byte)
  /\ FileAt \in [Dir \X Name -> Seq(Byte \ {Junk}) \cup {NoFile}]
  /\ Name \subseteq Seq(Byte \ {Junk})
  /\ ReadAs \in [Name -> SUBSET Name]
  /\ FirstDir \in [Host -> Dir \cup {NoDir}]
  /\ MaxCommands \in Nat /\ MaxLost \in Nat

Command ==
  [cmd : {"m"}, dir : Dir \cup {"missing"}] \cup
  [cmd : {"u", "d"}, dst : Host, name : Name]
NoCommand == [cmd |-> "none"]

ASSUME CommandAssumption == Commands \subseteq Host \X Command

CommandsOf(h) == {c \in Command : <<h, c>> \in Commands}

\* Packets carry, as history, the upload they belong to and their place in it.
FilePacket ==
  [type : {"START", "MIDDLE", "END"}, src : Host, dst : Host, payload : Seq(Byte),
   upload : Nat, part : Nat]
RequestPacket == [type : {"REQUEST"}, src : Host, dst : Host, name : Name]
Packet == FilePacket \cup RequestPacket

Job ==
  [type : {"send", "receive"}, packet : Packet] \cup
  [type : {"upload"}, name : Name, dst : Host]

VARIABLES
  dir,            \* where each host keeps its files
  f_buf_upload,
  jobs,           \* job_q
  scan,           \* a host is at the "top" of its loop, before "execute" or "write"
  net,            \* packets on their way from one host to another
  disk,           \* contents of the files
  entered,        \* how many commands there were
  uploads,        \* history: the uploads that were begun
  lost,           \* history: the packets that were lost, <<upload, part>>
  held,           \* history: the parts in each receive buffer
  written         \* history: the last write of each host

local == <<dir, f_buf_upload, jobs, scan>>
vars == <<local, net, disk, entered, uploads, lost, held, written>>

--------------------------------------------------------------------------------
(* Splitting a file.                                                            *)

\* The buffer of host_main after fread and the terminator at n; what comes
\* behind it, or behind the array, is whatever is there.
ReadInto(content) ==
  [i \in 0 .. MAX_FILE_BUFFER + MAX_MSG_LENGTH |->
     IF i < Len(content) THEN content[i + 1] ELSE IF i = Len(content) THEN NUL ELSE Junk]

\* The first n bytes, with every byte behind a NUL cleared.
strncpy(b, n) ==
  [i \in 1 .. n |-> IF \E k \in 0 .. i - 1 : b[k] = NUL THEN NUL ELSE b[i - 1]]

\* Mutated: they move one place too far.
ShiftTooFar(b) ==
  LET stops == {j \in DOMAIN b : j >= MAX_MSG_LENGTH /\ b[j] = NUL}
      from(j) == j + MAX_MSG_LENGTH + 1
  IN [j \in DOMAIN b |->
        IF from(j) \in DOMAIN b /\ \A e \in stops : j < e THEN b[from(j)] ELSE b[j]]

\* Bytes move to the front until a NUL is met behind the first packet's bytes.
Shift(b) ==
  LET stops == {j \in DOMAIN b : j >= MAX_MSG_LENGTH /\ b[j] = NUL}
  IN [j \in DOMAIN b |->
        IF j + MAX_MSG_LENGTH \in DOMAIN b /\ \A e \in stops : j < e
          THEN b[j + MAX_MSG_LENGTH] ELSE b[j]]

\* The payloads of the MIDDLE packets of a file and of the END packet.
Split(content) ==
  LET n == Len(content)
      middles == IF n = 0 THEN 0 ELSE (n - 1) \div MAX_MSG_LENGTH
      buffer[k \in Nat] == IF k = 0 THEN ReadInto(content) ELSE Shift(buffer[k - 1])
  IN [k \in 1 .. middles |-> strncpy(buffer[k - 1], MAX_MSG_LENGTH)] \o
     <<[i \in 1 .. n - middles * MAX_MSG_LENGTH |-> buffer[middles][i - 1]]>>

--------------------------------------------------------------------------------
Init ==
  /\ dir = FirstDir
  /\ f_buf_upload = [h \in Host |-> file_buf_init(Uninitialized)]
  /\ jobs = [h \in Host |-> <<>>]
  /\ scan = [h \in Host |-> "top"]
  /\ net = [c \in Host \X Host |-> <<>>]
  /\ disk = FileAt
  /\ entered = 0
  /\ uploads = <<>> /\ lost = {}
  /\ held = [h \in Host |-> <<>>]
  /\ written = [h \in Host |-> <<>>]

Goto(h, from, to) == scan[h] = from /\ scan' = [scan EXCEPT ![h] = to]

Queue(h, q) == jobs' = [jobs EXCEPT ![h] = q]

(* The first half of the loop: a command, if any, and a packet, if any.         *)

\* The jobs of a command.
CommandJobs(h, c) ==
  CASE c.cmd \in {"none", "m"} -> <<>>
    [] c.cmd = "u" -> <<[type |-> "upload", name |-> c.name, dst |-> c.dst]>>
    [] c.cmd = "d" ->
         <<[type |-> "send",
            packet |-> [type |-> "REQUEST", src |-> h, dst |-> c.dst, name |-> c.name]]>>

\* Host h has read command c, and the poll of its port makes these jobs.
Begin(h, c, pollJobs) ==
  /\ Goto(h, "top", "execute")
  /\ \/ c = NoCommand /\ UNCHANGED entered
     \/ /\ <<h, c>> \in Commands
        /\ entered < MaxCommands
        /\ entered' = entered + 1
  /\ dir' = IF c.cmd = "m" THEN [dir EXCEPT ![h] = c.dir] ELSE dir
  /\ Queue(h, jobs[h] \o CommandJobs(h, c) \o pollJobs)
  /\ UNCHANGED <<f_buf_upload, disk, uploads, lost, held, written>>

PollNothing(h, c) == Begin(h, c, <<>>) /\ UNCHANGED net

\* The next packet of another host arrives, one of the set packets.
Arrive(h, from, packets) ==
  /\ net[<<from, h>>] # <<>>
  /\ Head(net[<<from, h>>]) \in packets
  /\ net' = [net EXCEPT ![<<from, h>>] = Tail(@)]

PollFile(h, c, from) ==
  /\ Arrive(h, from, FilePacket)
  /\ Begin(h, c, <<[type |-> "receive", packet |-> Head(net[<<from, h>>])]>>)

PollRequest(h, c, from) ==
  /\ Arrive(h, from, RequestPacket)
  /\ \E name \in ReadAs[Head(net[<<from, h>>]).name] :
       Begin(h, c, <<[type |-> "upload", name |-> name, dst |-> from]>>)

--------------------------------------------------------------------------------
(* The execution of one job.                                                    *)

Job1(h) == Head(jobs[h])

ExecuteNothing(h) ==
  /\ Goto(h, "execute", "top")
  /\ jobs[h] = <<>>
  /\ UNCHANGED <<dir, f_buf_upload, jobs, net, disk, entered, uploads, lost, held, written>>

Take(h, type) ==
  /\ jobs[h] # <<>>
  /\ Job1(h).type = type
  /\ UNCHANGED <<dir, entered, lost, written>>

ExecuteSend(h) ==
  LET p == Job1(h).packet
  IN /\ Goto(h, "execute", "top")
     /\ Take(h, "send")
     /\ net' = [net EXCEPT ![<<h, p.dst>>] = Append(@, p)]
     /\ Queue(h, Tail(jobs[h]))
     /\ UNCHANGED <<f_buf_upload, disk, uploads, held>>

\* The files that h can open.
Readable(h) ==
  {name \in Name : dir[h] \in Dir /\ disk[<<dir[h], name>>] # NoFile}

UploadNothing(h) ==
  /\ Goto(h, "execute", "top")
  /\ Take(h, "upload")
  /\ Job1(h).name \notin Readable(h)
  /\ Queue(h, Tail(jobs[h]))
  /\ UNCHANGED <<f_buf_upload, net, disk, uploads, held>>

\* What fread returns of the file at the head of the queue.
FileRead(h) ==
  LET content == disk[<<dir[h], Job1(h).name>>]
  IN SubSeq(content, 1, Least(Len(content), MAX_FILE_BUFFER))

\* The jobs that send a START packet with the name, the MIDDLE packets, and END.
UploadJobs(h, parts) ==
  LET Part(type, payload, k) ==
        [type |-> "send",
         packet |-> [type |-> type, src |-> h, dst |-> Job1(h).dst,
                     payload |-> payload, upload |-> Len(uploads) + 1, part |-> k]]
  IN <<Part("START", Job1(h).name, 0)>> \o
     [k \in 1 .. Len(parts) |->
        Part(IF k < Len(parts) THEN "MIDDLE" ELSE "END", parts[k], k)]

Upload(h) ==
  LET parts == Split(FileRead(h))
  IN /\ Goto(h, "execute", "top")
     /\ Take(h, "upload")
     /\ Job1(h).name \in Readable(h)
     /\ Queue(h, Tail(jobs[h]) \o UploadJobs(h, parts))
     /\ uploads' = Append(uploads,
          [src |-> h, dst |-> Job1(h).dst, name |-> Job1(h).name,
           content |-> FileRead(h), parts |-> parts])
     /\ UNCHANGED <<f_buf_upload, net, disk, held>>

\* Receive a part of a file, of this type.
Receive(h, type) ==
  /\ Take(h, "receive")
  /\ Job1(h).packet.type = type
  /\ Queue(h, Tail(jobs[h]))
  /\ UNCHANGED <<net, uploads>>

Part1(h) == <<Job1(h).packet.upload, Job1(h).packet.part>>

\* Mutated: what the buffer holds stays in it.
BegunKept(f, name) == file_buf_put_name(f, name)

\* A new file begins, whatever the buffer holds.
Begun(f, name) == file_buf_put_name(file_buf_init(f), name)

ReceiveStart(h) ==
  /\ Goto(h, "execute", "top")
  /\ Receive(h, "START")
  /\ f_buf_upload' = [f_buf_upload EXCEPT ![h] = Begun(@, Job1(h).packet.payload)]
  /\ held' = [held EXCEPT ![h] = <<Part1(h)>>]
  /\ UNCHANGED disk

\* A part of the contents goes into the buffer.
Collect(h) ==
  /\ f_buf_upload' = [f_buf_upload EXCEPT ![h] = file_buf_add(@, Job1(h).packet.payload)]
  /\ held' = [held EXCEPT ![h] = Append(@, Part1(h))]

ReceiveMiddle(h) ==
  /\ Goto(h, "execute", "top")
  /\ Receive(h, "MIDDLE")
  /\ Collect(h)
  /\ UNCHANGED disk

\* Can h write the file that is named in its buffer?  Without a name it would
\* be the directory itself.
Writable(h) == dir[h] \in Dir /\ f_buf_upload[h].name # <<>>

ReceiveEndUnwritten(h) ==
  /\ Goto(h, "execute", "top")
  /\ Receive(h, "END")
  /\ ~Writable(h)
  /\ Collect(h)
  /\ UNCHANGED disk

\* The file is opened, which empties it, ...
ReceiveEnd(h) ==
  /\ Goto(h, "execute", "write")
  /\ Receive(h, "END")
  /\ Writable(h)
  /\ Collect(h)
  /\ disk' = [disk EXCEPT ![<<dir[h], f_buf_upload[h].name>>] = <<>>]

\* Bytes written from the front of a file to which others may have written.
Overwrite(old, new) ==
  IF old = NoFile THEN new ELSE new \o SubSeq(old, Len(new) + 1, Len(old))

\* ... and what is in the buffer is written.
Write(h) ==
  LET f == f_buf_upload[h]
  IN /\ Goto(h, "write", "top")
     /\ disk' = [disk EXCEPT ![<<dir[h], f.name>>] = Overwrite(@, Removed(f, f.occ))]
     /\ f_buf_upload' = [f_buf_upload EXCEPT ![h] = file_buf_remove(f, f.occ)]
     /\ written' = [written EXCEPT ![h] =
          [name |-> f.name, content |-> Removed(f, f.occ), parts |-> held[h]]]
     /\ UNCHANGED <<dir, jobs, net, entered, uploads, lost, held>>

--------------------------------------------------------------------------------
\* The network loses the next packet from one host to another.
Lose(from, to) ==
  LET p == Head(net[<<from, to>>])
  IN /\ net[<<from, to>>] # <<>>
     /\ Cardinality(lost) < MaxLost
     /\ p \in FilePacket
     /\ lost' = lost \cup {<<p.upload, p.part>>}
     /\ net' = [net EXCEPT ![<<from, to>>] = Tail(@)]
     /\ UNCHANGED <<local, disk, entered, uploads, held, written>>

Iterate(h, c) ==
  \/ PollNothing(h, c)
  \/ \E from \in Host : PollFile(h, c, from) \/ PollRequest(h, c, from)

Execute(h) ==
  \/ ExecuteNothing(h) \/ ExecuteSend(h) \/ UploadNothing(h) \/ Upload(h)
  \/ ReceiveStart(h) \/ ReceiveMiddle(h)
  \/ ReceiveEndUnwritten(h) \/ ReceiveEnd(h) \/ Write(h)

Next ==
  \/ \E h \in Host : Execute(h) \/ \E c \in CommandsOf(h) \cup {NoCommand} : Iterate(h, c)
  \/ \E from \in Host, to \in Host : Lose(from, to)

Spec == Init /\ [][Next]_vars

--------------------------------------------------------------------------------
\* Every variable keeps its type.  In particular head, tail and occ of a file
\* buffer stay in step, however often it is filled and drained without being
\* initialized in between (lines 79-106 of host.c).
TypeOK ==
  /\ dir \in [Host -> Dir \cup {"missing", NoDir}]
  /\ \A h \in Host : Sound(f_buf_upload[h])
  /\ \A h \in Host : jobs[h] \in Seq(Job)
  /\ scan \in [Host -> {"top", "execute", "write"}]
  /\ \A c \in Host \X Host : net[c] \in Seq(Packet)
  /\ disk \in [Dir \X Name -> Seq(Byte) \cup {NoFile}]
  /\ entered \in 0 .. MaxCommands

\* The payloads of parts of an upload, given as <<upload, part>>, one after the other.
Payloads(parts) ==
  FlattenSeq([i \in 1 .. Len(parts) |-> uploads[parts[i][1]].parts[parts[i][2]]])

\* When only packets of one upload have come since its START, the file that is
\* written has its name and consists of the parts that were not lost, in order
\* and each once - whatever the buffer held before, and although every packet
\* waited in three queues.  If none was lost and the file holds no NUL, it is
\* the file.  (A file with a NUL is cut up wrongly, see Shift.)
FaithfulCopy ==
  \A h \in Host : written[h] # <<>> =>
    LET w == written[h]
        i == w.parts[1][1]
        u == uploads[i]
        arrived == Tail(w.parts)
    IN (\A k \in 1 .. Len(w.parts) : w.parts[k][1] = i) /\ w.parts[1][2] = 0 =>
         /\ w.name = u.name
         /\ \A j, k \in 1 .. Len(arrived) : j < k => arrived[j][2] < arrived[k][2]
         /\ Range(arrived) = {<<i, k>> : k \in 1 .. Len(u.parts)} \ lost
         /\ w.content = Payloads(arrived)
         /\ Len(arrived) = Len(u.parts) /\ ~Contains(u.content, NUL) =>
              w.content = u.content

\* No byte is sent or stored that did not come from a file: the bytes behind
\* the terminator and behind the end of the array, which the shift at line 707
\* reads, never reach a packet, and no slot is removed that was not filled.
NoJunk ==
  /\ \A i \in 1 .. Len(uploads) : \A k \in 1 .. Len(uploads[i].parts) :
       ~Contains(uploads[i].parts[k], Junk)
  /\ \A h \in Host : ~Contains(Contents(f_buf_upload[h]), Junk)

--------------------------------------------------------------------------------
\* "Command host to send a file to another host": what is written is a file that
\* was sent.
FilesWhole ==
  \A h \in Host : written[h] # <<>> =>
    \E i \in 1 .. Len(uploads) :
      /\ uploads[i].dst = h /\ uploads[i].name = written[h].name
      /\ uploads[i].content = written[h].content
================================================================================
