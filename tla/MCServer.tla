------------------------------ MODULE MCServer ------------------------------
(***************************************************************************)
(* Server for TLC.                                                         *)
(***************************************************************************)
EXTENDS Server

CONSTANTS u1, u2

TwoUsers == {u1, u2}
TypedNames == [path : {<<"a">>, <<"a", "b">>}, slash : {FALSE}] \cup
              [path : {<<"a">>}, slash : {TRUE}]
MCSegments == {"a", "b"}
FileInFolder == {<<"a">>, <<"a", "b">>}
=============================================================================
