--------------------------- MODULE MCLockThreads ---------------------------
(***************************************************************************)
(* LockThreads for TLC: a thread of a plain user with one of an            *)
(* administrator on a chain of folders, and two plain ones on two files.   *)
(***************************************************************************)
EXTENDS LockThreads

CONSTANTS u1, u2, adm

TwoUsers == {u1, u2}
WithAdmin == {u1, adm}
AdminOnly == {adm}
MCSegments == {"a", "b", "c"}
Chain == {<<>>, <<"a">>, <<"a", "b">>, <<"a", "b", "c">>}
Ends == {<<"a">>, <<"a", "b", "c">>}
Both == {<<"a">>, <<"b">>}
Siblings == {<<>>, <<"a">>, <<"b">>}
ChainBatches == {<<<<"a">>, <<"a", "b", "c">>>>}
SiblingBatches == {<<<<"a">>, <<"b">>>>}

AllOperations == {"acquire", "release", "prune", "release_all", "list", "batch"}
=============================================================================
