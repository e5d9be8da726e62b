------------------------------ MODULE FlatText ------------------------------
(***************************************************************************)
(* What a document of DeltaEngine is to its users: a text, a sequence of   *)
(* characters in which every line ends with LF, that changes only while    *)
(* somebody has the file's lock: by inserting characters in a line, by     *)
(* deleting to the end of the line at most, by breaking a line, or by      *)
(* replacing the text.  How the characters are kept is left open.          *)
(***************************************************************************)
EXTENDS Integers, FiniteSets, SequencesExt

CONSTANTS
  Files, Users, NoUser,
  CR, LF,          (* the two characters of a line ending                  *)
  Inserts,         (* what is inserted in a line                           *)
  Texts,           (* what a text is replaced by                           *)
  Positions        (* the rows, columns and lengths that are sent          *)

VARIABLES
  text,            (* the text of each file                                *)
  owner            (* the user who has the lock of each file               *)

vars == <<text, owner>>

LineEnds(t) == {i \in DOMAIN t : t[i] = LF}

\* How many characters are before the n-th line, and in it, from zero.
EndOf(t, n) == CHOOSE i \in LineEnds(t) : Cardinality({j \in LineEnds(t) : j < i}) = n
StartOf(t, n) == IF n = 0 THEN 0 ELSE EndOf(t, n - 1)
LengthOf(t, n) == EndOf(t, n) - StartOf(t, n) - 1

IsAt(t, row, col) ==
  /\ row \in 0 .. Cardinality(LineEnds(t)) - 1
  /\ col \in 0 .. LengthOf(t, row)

\* t with n characters from (row, col) on replaced by s.
Splice(t, row, col, n, s) ==
  LET k == StartOf(t, row) + col
  IN  SubSeq(t, 1, k) \o s \o SubSeq(t, k + n + 1, Len(t))

Inserted(t, row, col, s) == IF IsAt(t, row, col) THEN Splice(t, row, col, 0, s) ELSE t

\* A negative length means the rest of the line.
Deleted(t, row, col, length) ==
  IF IsAt(t, row, col)
  THEN LET rest == LengthOf(t, row) - col
       IN  Splice(t, row, col, IF length \in 0..rest THEN length ELSE rest, <<>>)
  ELSE t

\* A CR right before a line's end goes, and a last line without an end gets one.
Normal(t) ==
  LET kept == {i \in DOMAIN t : ~(t[i] = CR /\ (i = Len(t) \/ t[i + 1] = LF))}
      s    == FoldLeft(LAMBDA r, i : IF i \in kept THEN Append(r, t[i]) ELSE r,
                       <<>>, [i \in DOMAIN t |-> i])
  IN  IF t # <<>> /\ Last(t) = LF THEN s ELSE Append(s, LF)

Becomes(f, t) == text' = [text EXCEPT ![f] = t]

Edit(f) ==
  /\ owner[f] # NoUser
  /\ \/ \E row \in Positions, col \in Positions :
          \/ \E s \in Inserts \cup {<<LF>>} : Becomes(f, Inserted(text[f], row, col, s))
          \/ \E n \in Positions : Becomes(f, Deleted(text[f], row, col, n))
     \/ \E t \in Texts : Becomes(f, Normal(t))
  /\ UNCHANGED owner

\* The lock changes hands; the text stays.
HandOver(f) ==
  /\ \E u \in Users \cup {NoUser} : owner' = [owner EXCEPT ![f] = u]
  /\ UNCHANGED text

Init ==
  /\ text = [f \in Files |-> <<LF>>]
  /\ owner = [f \in Files |-> NoUser]

Next == \E f \in Files : Edit(f) \/ HandOver(f)

Spec == Init /\ [][Next]_vars
=============================================================================
