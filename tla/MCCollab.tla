------------------------------ MODULE MCCollab ------------------------------
(***************************************************************************)
(* Collab for TLC: two tabs, a file in a folder and a file next to it.     *)
(***************************************************************************)
EXTENDS Collab

CONSTANTS u1, u2

MCUsers == {u1, u2}
MCSegments == {"d", "f", "g"}
MCNodes == {<<>>, <<"d">>, <<"d", "f">>, <<"g">>}
MCFiles == {<<"d", "f">>, <<"g">>}
FileF == <<"d", "f">>
OneFileNodes == {<<>>, <<"g">>}
OneFile == {<<"g">>}
FileG == <<"g">>

Symmetry == Permutations(MCUsers)
=============================================================================
