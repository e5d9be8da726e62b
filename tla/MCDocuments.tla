---------------------------- MODULE MCDocuments ----------------------------
(***************************************************************************)
(* Documents for TLC: every text of up to three characters with both line  *)
(* ending characters, and positions before, in and behind the document.    *)
(***************************************************************************)
EXTENDS Documents

CONSTANTS u1, u2, f1

TwoUsers == {u1, u2}
OneFile == {f1}
Words == {<<"y">>}
ShortTexts == UNION {[1..n -> {"x", CR, LF}] : n \in 0..3}
Around == -1..2
=============================================================================
