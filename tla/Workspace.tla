----------------------------- MODULE Workspace -----------------------------
(***************************************************************************)
(* FileSystemManager: what its operations make of the workspace directory, *)
(* a set of folders and files.                                             *)
(***************************************************************************)
EXTENDS SequencesExt

CONSTANTS
  Segments,        (* the names of files and folders                       *)
  Nodes            (* the paths below the workspace, closed under prefixes *)

ASSUME WorkspaceAssumption ==
  /\ Nodes \subseteq Seq(Segments) \ {<<>>}
  /\ \A p \in Nodes : Len(p) > 1 => Front(p) \in Nodes

VARIABLES folders, files

workspace == <<folders, files>>
Existing == folders \cup files

Within(p) == {q \in Nodes : IsPrefix(p, q)}
Parents(p) == {q \in Nodes : IsStrictPrefix(q, p)}

WorkspaceTypeOK ==
  /\ folders \cup files \subseteq Nodes
  /\ folders \cap files = {}
  /\ \A p \in Existing : Parents(p) \subseteq folders

------------------------------------------------------------------------------
(* create_file.  A path with a slash at its end names a folder. *)

\* create_directories(parent_path()), of what is the parent with the slash.
ToMake(p, slash) == Parents(p) \cup (IF slash THEN {p} ELSE {})

\* A file in the place of a folder: create_directories throws.
Throws(p, slash) == ToMake(p, slash) \cap files # {}

Makes(p, slash) == folders' = folders \cup ToMake(p, slash)

\* Mutant: what is there already is not looked at.
CreatableAgain(p, slash) == ~Throws(p, slash) /\ ~slash

Creatable(p, slash) == ~Throws(p, slash) /\ ~slash /\ p \notin Existing

Created(p, slash) ==
  /\ Creatable(p, slash)
  /\ Makes(p, slash)
  /\ files' = files \cup {p}

\* There is such a file or folder (there is now, for a path with a slash), or it
\* cannot be written: false is returned and the folders made stay.
NotCreated(p, slash) ==
  /\ ~Throws(p, slash)
  /\ Makes(p, slash)
  /\ UNCHANGED files

------------------------------------------------------------------------------
(* delete_file *)

Deleted(p) ==
  /\ p \in Existing
  /\ folders' = folders \ Within(p)
  /\ files' = files \ Within(p)

\* remove_all gives up: some of what is in the folder is gone, false is returned.
PartlyDeleted(p) ==
  /\ p \in Existing
  /\ \E gone \in SUBSET (Within(p) \ {p}) :
       /\ \A q \in gone : Within(q) \cap Existing \subseteq gone
       /\ folders' = folders \ gone
       /\ files' = files \ gone

NotThere(p) == p \notin Existing /\ UNCHANGED workspace
=============================================================================
