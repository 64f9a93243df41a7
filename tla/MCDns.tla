--------------------------------- MODULE MCDns ---------------------------------
(***************************************************************************)
(* Two hosts.  One name is the beginning of another, one is too long, and  *)
(* a piece of a file with a space in it passes by.                         *)
(***************************************************************************)
EXTENDS DnsServer

a   == <<"a">>
ab  == <<"a", "b">>
cba == <<"c", "b", "a">>

Names == {a, ab, cba}
Text == {<<"c", " ", "c">>}
================================================================================
