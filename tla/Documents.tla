----------------------------- MODULE Documents -----------------------------
(***************************************************************************)
(* DeltaEngine over TextDocument: the texts of the files, each kept as a   *)
(* vector of lines, changed line by line (process_delta) or as a whole     *)
(* (force_state) by the owner of the file's lock and read as a whole.      *)
(*                                                                         *)
(* The engine is called from one event loop, so a call is one step.  The   *)
(* owners of the locks change as they please here.  Rows and columns are   *)
(* C++ ints compared with sizes: a negative one is too large, not small.   *)
(***************************************************************************)
EXTENDS Integers, SequencesExt, Functions

CONSTANTS
  Files,
  Users, NoUser, CR, LF, Inserts, Texts, Positions,   (* as in FlatText    *)
  MaxLength        (* bound on the characters of a document                *)

ASSUME NobodyAssumption == NoUser \notin Users
ASSUME CharsAssumption == CR # LF
ASSUME TextsAssumption == \A t \in Texts \cup Inserts : t \in Seq(Range(t))

\* Line ends come as NEWLINE: a text inserted in a line holds none.
ASSUME InsertsAssumption == \A t \in Inserts : LF \notin Range(t)

VARIABLES
  mp_docs,         (* the lines of every file that has been asked for      *)
  owner            (* whom is_exclusive_owner finds for each file          *)

vars == <<mp_docs, owner>>

------------------------------------------------------------------------------
(* TextDocument.  A line is its characters; row r is lines[r + 1]. *)

EmptyDocument == << <<>> >>

\* What the comparison of an int with a size says: i < n, and i <= n.
IsIndex(i, n) == i \in 0 .. n - 1
IsCursor(i, n) == i \in 0 .. n

Before(line, col) == SubSeq(line, 1, col)
After(line, col) == SubSeq(line, col + 1, Len(line))

insert_text(lines, row, col, text) ==
  IF IsIndex(row, Len(lines)) /\ IsCursor(col, Len(lines[row + 1]))
  THEN [lines EXCEPT ![row + 1] = Before(@, col) \o text \o After(@, col)]
  ELSE lines

\* Mutant: the length is not cut off at the end of the line.
delete_text_strictly(lines, row, col, length) ==
  IF /\ IsIndex(row, Len(lines)) /\ IsIndex(col, Len(lines[row + 1]))
     /\ length \in 0 .. Len(lines[row + 1]) - col
  THEN [lines EXCEPT ![row + 1] = Before(@, col) \o After(@, col + length)]
  ELSE lines

\* min(length, rest) is negative for a negative length, and erase takes that
\* for "as many as there are".
delete_text(lines, row, col, length) ==
  IF IsIndex(row, Len(lines)) /\ IsIndex(col, Len(lines[row + 1]))
  THEN LET rest == Len(lines[row + 1]) - col
           n    == IF length \in 0 .. rest THEN length ELSE rest
       IN  [lines EXCEPT ![row + 1] = Before(@, col) \o After(@, col + n)]
  ELSE lines

insert_newline(lines, row, col) ==
  IF IsIndex(row, Len(lines)) /\ IsCursor(col, Len(lines[row + 1]))
  THEN LET line == lines[row + 1]
       IN  InsertAt([lines EXCEPT ![row + 1] = Before(line, col)], row + 2, After(line, col))
  ELSE lines

\* One more character: LF begins a line, any other one joins the last.
Read(lines, c) ==
  IF c = LF THEN Append(lines, <<>>) ELSE [lines EXCEPT ![Len(lines)] = Append(@, c)]

\* What std::getline returns until there is nothing left: no empty line after
\* a final LF.
GetLines(text) ==
  LET read == FoldLeft(Read, EmptyDocument, text)
  IN  IF Last(read) = <<>> THEN Front(read) ELSE read

Stripped(line) == IF line # <<>> /\ Last(line) = CR THEN Front(line) ELSE line

\* Mutant: an empty line is read after a final LF.
SetFullTextSplit(text) ==
  LET read == FoldLeft(Read, EmptyDocument, text)
  IN  [i \in DOMAIN read |-> Stripped(read[i])]

\* Mutant: an empty text leaves no line.
SetFullTextBare(text) ==
  LET read == GetLines(text)
  IN  [i \in DOMAIN read |-> Stripped(read[i])]

set_full_text(text) ==
  LET read == GetLines(text)
  IN  IF read = <<>> THEN EmptyDocument ELSE [i \in DOMAIN read |-> Stripped(read[i])]

get_full_text(lines) == FlattenSeq([i \in DOMAIN lines |-> Append(lines[i], LF)])

------------------------------------------------------------------------------
(* DeltaEngine *)

\* The document of f, and all documents once it has been made.
Doc(f) == IF f \in DOMAIN mp_docs THEN mp_docs[f] ELSE EmptyDocument
Updated(f, lines) ==
  [g \in DOMAIN mp_docs \cup {f} |-> IF g = f THEN lines ELSE mp_docs[g]]

Fits(lines) == Len(get_full_text(lines)) <= MaxLength

\* Mutant: the owner is not looked at.
OverwriteUnchecked(u, f, lines) ==
  /\ Fits(lines)
  /\ mp_docs' = Updated(f, lines)
  /\ UNCHANGED owner

\* The owner's lines replace those of the document.
Overwrite(u, f, lines) ==
  /\ owner[f] = u
  /\ Fits(lines)
  /\ mp_docs' = Updated(f, lines)
  /\ UNCHANGED owner

process_delta(u, f) ==
  \E row \in Positions, col \in Positions :
    \/ \E t \in Inserts : Overwrite(u, f, insert_text(Doc(f), row, col, t))
    \/ \E n \in Positions : Overwrite(u, f, delete_text(Doc(f), row, col, n))
    \/ Overwrite(u, f, insert_newline(Doc(f), row, col))

force_state(u, f) == \E t \in Texts : Overwrite(u, f, set_full_text(t))

\* Reading makes the document too.
generate_full_sync(f) ==
  /\ mp_docs' = Updated(f, Doc(f))
  /\ UNCHANGED owner

\* The lock of f changes hands.
HandOver(f) ==
  /\ \E u \in Users \cup {NoUser} : owner' = [owner EXCEPT ![f] = u]
  /\ UNCHANGED mp_docs

Init ==
  /\ mp_docs = <<>>
  /\ owner = [f \in Files |-> NoUser]

Next ==
  \E f \in Files :
    \/ \E u \in Users : process_delta(u, f) \/ force_state(u, f)
    \/ generate_full_sync(f)
    \/ HandOver(f)

Spec == Init /\ [][Next]_vars

------------------------------------------------------------------------------
(* Properties *)

TypeOK ==
  /\ DOMAIN mp_docs \subseteq Files
  /\ \A f \in DOMAIN mp_docs :
       /\ mp_docs[f] # <<>>
       /\ \A i \in DOMAIN mp_docs[f] : LF \notin Range(mp_docs[f][i])
  /\ owner \in [Files -> Users \cup {NoUser}]

\* A browser that loads a text and sends it back as it is leaves the same lines,
\* so rows mean the same to both: no line is gained or lost on the way, however
\* the document came about.  (Unless a line ends with CR, of which sending back
\* takes one away each time.)
ReloadKeepsLines ==
  \A f \in DOMAIN mp_docs :
    (\A i \in DOMAIN mp_docs[f] : Stripped(mp_docs[f][i]) = mp_docs[f][i])
      => set_full_text(get_full_text(mp_docs[f])) = mp_docs[f]

Flat == INSTANCE FlatText WITH text <- [f \in Files |-> get_full_text(Doc(f))]

\* Every line operation does to the lines what the same change at the same row
\* and column does to the sequence of characters a browser has, for positions in,
\* behind and before the text and lengths beyond the line or negative.
LineEditsAreTextEdits ==
  \A f \in Files, row \in Positions, col \in Positions :
    LET d == Doc(f)
        t == get_full_text(d)
    IN  /\ \A s \in Inserts :
             get_full_text(insert_text(d, row, col, s)) = Flat!Inserted(t, row, col, s)
        /\ \A n \in Positions :
             get_full_text(delete_text(d, row, col, n)) = Flat!Deleted(t, row, col, n)
        /\ get_full_text(insert_newline(d, row, col)) = Flat!Inserted(t, row, col, <<LF>>)

\* The documents are nothing but the texts of FlatText: whatever is read, at any
\* time, is what the changes so far make of a sequence of characters, and it
\* changes only while the file is locked; reading a file never written, and the
\* lock changing hands, leave no trace in it.
ImplementsFlatText == Flat!Spec
=============================================================================
