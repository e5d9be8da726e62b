------------------------------- MODULE RWLocks -------------------------------
(***************************************************************************)
(* What the lock manager promises of each file or folder taken by itself:  *)
(* a readers-writer lock that is given up only by its holder, except that  *)
(* an administrator may seize it and deleting the file destroys it.  A     *)
(* lock that becomes free may be handed to a waiting user in the same      *)
(* step.  Nothing is said here about waiting order or about the hierarchy. *)
(***************************************************************************)
CONSTANTS
  Users,     (* everyone who may hold a lock          *)
  Admins,    (* the users whose requests may preempt  *)
  NoUser,    (* "nobody", the empty owner             *)
  Locks      (* the lockable files and folders        *)

VARIABLES
  writer,    (* [Locks -> Users \cup {NoUser}]  *)
  readers    (* [Locks -> SUBSET Users]         *)

vars == <<writer, readers>>

Init ==
  /\ writer = [l \in Locks |-> NoUser]
  /\ readers = [l \in Locks |-> {}]

\* The locks outside S are untouched by the step.
OnlyIn(S) ==
  \A l \in Locks \ S : writer'[l] = writer[l] /\ readers'[l] = readers[l]

\* The state of l after the step is: written by w, read by R.
Becomes(l, w, R) == writer'[l] = w /\ readers'[l] = R

TakeWrite(l, u) ==
  /\ writer[l] = u \/ (writer[l] = NoUser /\ readers[l] = {})
  /\ Becomes(l, u, {})
  /\ OnlyIn({l})

TakeRead(l, u) ==
  /\ writer[l] = NoUser
  /\ Becomes(l, NoUser, readers[l] \cup {u})
  /\ OnlyIn({l})

\* An administrator takes l whoever holds it.
Seize(l, u) ==
  /\ u \in Admins
  /\ Becomes(l, u, {}) \/ Becomes(l, NoUser, readers[l] \cup {u})
  /\ OnlyIn({l})

\* u leaves l; when that frees l it may pass to one user.
Leaves(l, u) ==
  \/ /\ writer[l] = u
     /\ \/ Becomes(l, NoUser, {})
        \/ \E h \in Users : Becomes(l, h, {}) \/ Becomes(l, NoUser, {h})
  \/ /\ u \in readers[l]
     /\ \/ Becomes(l, NoUser, readers[l] \ {u})
        \/ /\ readers[l] = {u}
           /\ \E h \in Users : Becomes(l, h, {}) \/ Becomes(l, NoUser, {h})

\* u gives up a set of locks in one step (one release, or a disconnection).
GiveUp(S, u) ==
  /\ \A l \in S : Leaves(l, u)
  /\ OnlyIn(S)

\* The files of S are deleted, their locks with them.
Destroy(S) ==
  /\ \A l \in S : Becomes(l, NoUser, {})
  /\ OnlyIn(S)

Next ==
  \/ \E l \in Locks, u \in Users : TakeWrite(l, u) \/ TakeRead(l, u) \/ Seize(l, u)
  \/ \E S \in SUBSET Locks, u \in Users : GiveUp(S, u)
  \/ \E S \in SUBSET Locks : Destroy(S)

Spec == Init /\ [][Next]_vars
==============================================================================
