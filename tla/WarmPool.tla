------------------------------ MODULE WarmPool ------------------------------
(***************************************************************************)
(* AdminWarmPool.execute_code: a program is written to a file, its input   *)
(* to another, it is compiled and run, and what it prints is the answer.   *)
(* The files have the same names for everybody and outlive the server, and *)
(* so may a compiler it has started: popen's children do not end with the  *)
(* process.  A program that is run on changes none of the files.           *)
(*                                                                         *)
(* What a user sends is known by the user: the program and the input of u  *)
(* are u.  The output of program p with input i is <<p, i>>.               *)
(***************************************************************************)
EXTENDS Naturals

CONSTANTS
  Users, NoUser,
  ErrorText        (* an answer that is not what a program printed         *)

ASSUME PoolAssumption == NoUser \notin Users

VARIABLES
  admin_temp, input_in, a_out,   (* whose the three files are              *)
  strays,          (* the number of compilers that killed servers have left*)
                   (* behind with each user's program; with NoUser's, those*)
                   (* that have not read their source yet                  *)
  job              (* the call being made: whose, and how far it is        *)

poolFiles == <<admin_temp, input_in, a_out>>
poolVars == <<poolFiles, strays, job>>

NoJob == [user |-> NoUser, at |-> "none"]
Outputs == (Users \cup {NoUser}) \X (Users \cup {NoUser})

PoolTypeOK ==
  /\ admin_temp \in Users \cup {NoUser}
  /\ input_in \in Users \cup {NoUser}
  /\ a_out \in Users \cup {NoUser}
  /\ strays \in [Users \cup {NoUser} -> Nat]
  /\ job \in {NoJob} \cup [user : Users, at : {"source", "input", "compile", "run"}]

PoolInit ==
  /\ admin_temp = NoUser
  /\ input_in = NoUser
  /\ a_out = NoUser
  /\ strays = [p \in Users \cup {NoUser} |-> 0]
  /\ job = NoJob

Goes(at) == job' = [job EXCEPT !.at = at]

BeginJob(u) ==
  /\ job' = [user |-> u, at |-> "source"]
  /\ UNCHANGED <<poolFiles, strays>>

WriteSource ==
  /\ job.at = "source"
  /\ admin_temp' = job.user
  /\ Goes("input")
  /\ UNCHANGED <<input_in, a_out, strays>>

WriteInput ==
  /\ job.at = "input"
  /\ input_in' = job.user
  /\ Goes("compile")
  /\ UNCHANGED <<admin_temp, a_out, strays>>

Compile ==
  /\ job.at = "compile"
  /\ a_out' = admin_temp
  /\ Goes("run")
  /\ UNCHANGED <<admin_temp, input_in, strays>>

\* The early returns of a file that cannot be opened.
CannotOpen ==
  /\ job.at \in {"source", "input"}
  /\ job' = NoJob
  /\ UNCHANGED <<poolFiles, strays>>

\* Mutant: the status of the compiler is not looked at.
CompileFailsUnnoticed ==
  /\ job.at = "compile"
  /\ Goes("run")
  /\ UNCHANGED <<poolFiles, strays>>

CompileFails ==
  /\ job.at = "compile"
  /\ job' = NoJob
  /\ UNCHANGED <<poolFiles, strays>>

\* The program is loaded, runs and ends.
Ends ==
  /\ job.at = "run"
  /\ job' = NoJob
  /\ UNCHANGED <<poolFiles, strays>>

Output == <<a_out, input_in>>

------------------------------------------------------------------------------
(* What killed servers leave behind *)

\* The server is killed: a compiler at work may go on, and may not have opened
\* its source yet.
LeavesCompiler ==
  \/ UNCHANGED strays
  \/ /\ job.at = "compile"
     /\ \E p \in {NoUser, admin_temp} : strays' = [strays EXCEPT ![p] = @ + 1]

\* It reads what the file holds by then.
StrayReads ==
  /\ strays[NoUser] > 0
  /\ strays' = [strays EXCEPT ![NoUser] = @ - 1, ![admin_temp] = @ + 1]
  /\ UNCHANGED <<poolFiles, job>>

\* It ends, with a program or without.
StrayEnds ==
  \E p \in Users :
    /\ strays[p] > 0
    /\ strays' = [strays EXCEPT ![p] = @ - 1]
    /\ a_out' \in {a_out, p}
    /\ UNCHANGED <<admin_temp, input_in, job>>
=============================================================================
