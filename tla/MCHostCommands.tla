---------------------------- MODULE MCHostCommands ----------------------------
(***************************************************************************)
(* One host, its manager and their user.  The host "h1" exists and has     *)
(* registered "na"; there is no host with the id 0; nobody has registered  *)
(* "nb".                                                                   *)
(***************************************************************************)
EXTENDS HostCommands

OneTarget  == {"h0", "h1"}
NamingTable == [n \in {"na", "nb"} |-> IF n = "na" THEN "h1" ELSE "FAIL"]

\* A user who enters only commands that are waited for, and one who enters all.
PatientAndNot ==
  {{"s", "p", "r", "l", "P"}, {"s", "m", "p", "u", "d", "r", "l", "P", "D"}}
================================================================================
