----------------------------- MODULE MCLockTree -----------------------------
(***************************************************************************)
(* LockTree for TLC, with two small tries: one chain of folders a/b/c, the *)
(* shortest in which the descent inspects a lockable directory, and two    *)
(* files next to each other.                                               *)
(***************************************************************************)
EXTENDS LockTree

CONSTANTS u1, u2, u3, ad

TwoUsers == {u1, u2}
ThreeUsers == {u1, u2, u3}
UsersAndAdmin == {u1, u2, ad}
OneAdmin == {ad}

MCSegments == {"a", "b", "c"}
Chain == {<<>>, <<"a">>, <<"a", "b">>, <<"a", "b", "c">>}
ShortChain == {<<>>, <<"a">>, <<"a", "b">>}
Flat == {<<>>, <<"a">>, <<"b">>}
OneFile == {<<>>, <<"a">>}

\* The users without privileges are interchangeable.
Symmetry == Permutations({u1, u2})
=============================================================================
