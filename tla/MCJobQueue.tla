------------------------------ MODULE MCJobQueue ------------------------------
(***************************************************************************)
(* Kinds of nodes: a switch and a server as they are, and a host as it     *)
(* would be if malloc returned zeroed memory.                              *)
(***************************************************************************)
EXTENDS JobQueue

SwitchNode == [endings |-> {"finish"}, clears |-> FALSE]
ServerNode == [endings |-> {"finish", "reply"}, clears |-> FALSE]
ClearHost  == [endings |-> Ending, clears |-> TRUE]

SafeNodes == {SwitchNode, ClearHost}
ServerOnly == {ServerNode}
================================================================================
