----------------------------- MODULE MCFileTransfer -----------------------------
(***************************************************************************)
(* Two hosts that send files to a third.  A packet has up to 2 bytes of a  *)
(* file, a buffer 5.                                                       *)
(***************************************************************************)
EXTENDS FileTransfer

A == <<"a">>
B == <<"b">>
Names == {A, B}
Bytes == {"a", "b", "nul", "junk"} \cup
  {"0", "1", "2", "3", "4", "5", "6", "7", "8", "9"}

\* b has a longer name's tail behind it when it is requested.
Reads == [n \in Names |-> IF n = A THEN {A} ELSE Names]

\* The first file is longer than the buffer, the second one fills two packets
\* and holds a NUL, which PlainFiles does not have.
FilesWith(byte) ==
  [f \in {"d1", "d2", "d3"} \X Names |->
     CASE f = <<"d1", A>> -> <<"1", "2", "3", "4", "5", "6">>
       [] f = <<"d2", B>> -> <<"7", "8", byte, "9">>
       [] OTHER -> NoFile]
Files == FilesWith("nul")
PlainFiles == FilesWith("0")

Send(h, name) == <<h, [cmd |-> "u", dst |-> 3, name |-> name]>>
SetDir3 == <<3, [cmd |-> "m", dir |-> "d3"]>>

\* The users of the senders have set their directories.
SenderDirs == [h \in {1, 2, 3} |-> CASE h = 1 -> "d1" [] h = 2 -> "d2" [] h = 3 -> "None"]

AllCommands ==
  {SetDir3, Send(1, A), Send(2, B), <<3, [cmd |-> "d", dst |-> 2, name |-> B]>>}
================================================================================
