------------------------------- MODULE Server -------------------------------
(***************************************************************************)
(* The server process from main() to its end, over and over: the event     *)
(* loop with the routes of WebSocketRouter that change the workspace or    *)
(* run programs, the reaper's thread beside it, and what the tabs see of   *)
(* both.  Locks and texts are the subject of Collab.                       *)
(*                                                                         *)
(* A message is handled as one step, except ADMIN_RUN: while a program is  *)
(* compiled and run the event loop handles nothing else, but the reaper    *)
(* and the clock go on.  The process may be killed at any moment; the      *)
(* files outlive it, and so may the compiler it has started.               *)
(***************************************************************************)
EXTENDS Reaper, WarmPool, Workspace

CONSTANTS
  session,         (* the session of the tabs                              *)
  Names,           (* what is asked to be created: paths, and whether they *)
                   (* are written with a slash at the end                  *)
  NoTree,          (* a tab has had no file tree yet                       *)
  MaxInputs        (* bound on what the tabs send                          *)

ASSUME ServerAssumption ==
  /\ session \in SessionIds
  /\ Names \subseteq [path : Nodes, slash : BOOLEAN]
  /\ MaxInputs \in Nat

VARIABLES
  main,            (* where the main thread is                             *)
  connected,       (* the tabs with an open WebSocket                      *)
  up, down,        (* messages to the server, and to each tab              *)
  fileTree,        (* the store's fileTree of each tab                     *)
  outdated,        (* auxiliary: the tabs not told of a failure's effects  *)
  overtaken,       (* auxiliary: the tabs that had their program replaced, *)
                   (* before it was loaded, by a killed server's compiler  *)
  inputs           (* the number of inputs so far                          *)

tabs == <<connected, up, down, fileTree, outdated, overtaken>>
vars == <<reaperVars, poolVars, workspace, main, tabs, inputs>>

Tree == [folders |-> folders, files |-> files]
TreeSync == [type |-> "TREE_SYNC", tree |-> Tree]
RunOutput(out) == [type |-> "RUN_OUTPUT", data |-> out]

Requests ==
  [type : {"TREE_REQUEST", "ADMIN_RUN"}] \cup
  [type : {"FILE_CREATE"}, name : Names] \cup
  [type : {"FILE_DELETE"}, path : Nodes]

ToTab ==
  [type : {"TREE_SYNC"}, tree : [folders : SUBSET Nodes, files : SUBSET Nodes]] \cup
  [type : {"RUN_OUTPUT"}, data : Outputs \cup {ErrorText}]

Sent(S, m) == down' = [u \in Users |-> IF u \in S THEN Append(down[u], m) ELSE down[u]]

------------------------------------------------------------------------------
(* main *)

Start ==
  /\ main = "down"
  /\ main' \in {"serving", "bind failed"}
  /\ mp_sessions' = NoSessions
  /\ reaper' = "test"
  /\ left' = 0
  /\ stop' = FALSE
  /\ cv' = TRUE
  /\ UNCHANGED <<poolVars, workspace, tabs, inputs>>

\* The process is gone, and every connection with it.
Gone ==
  /\ main' = "down"
  /\ mp_sessions' = NoSessions
  /\ reaper' = "none"
  /\ left' = 0
  /\ stop' = FALSE
  /\ cv' = FALSE
  /\ job' = NoJob
  /\ connected' = {}
  /\ up' = [u \in Users |-> <<>>]
  /\ down' = [u \in Users |-> <<>>]
  /\ fileTree' = [u \in Users |-> NoTree]
  /\ outdated' = {}
  /\ overtaken' = {}
  /\ UNCHANGED <<poolFiles, inputs>>

Kill == main # "down" /\ Gone /\ LeavesCompiler /\ UNCHANGED workspace

\* Without a socket to listen on the event loop ends, and main returns: the
\* destructors run, the session manager's last.
ShutDown ==
  /\ \/ main = "bind failed" /\ main' = "stop requested" /\ RequestStop
     \/ main = "stop requested" /\ main' = "notified" /\ NotifyAll
     \/ main = "notified" /\ main' = "joining" /\ DestroyCv
  /\ UNCHANGED <<poolVars, workspace, tabs, inputs>>

\* The thread is waited for, and the session manager destroyed after it.
Join ==
  /\ main = "joining"
  /\ Joined
  /\ main' = "leaving"
  /\ mp_sessions' = NoSessions
  /\ UNCHANGED <<reaper, left, stop, cv, poolVars, workspace, tabs, inputs>>

Return == main = "leaving" /\ Gone /\ UNCHANGED <<workspace, strays>>

Aborts == AbortsAsleep /\ Gone /\ UNCHANGED <<workspace, strays>>

ReaperRuns ==
  /\ ReaperSteps \/ WakeSpuriously \/ Tick
  /\ UNCHANGED <<poolVars, workspace, main, tabs, inputs>>

------------------------------------------------------------------------------
(* WebSocketRouter *)

\* A tab connects, joins the session and asks for the file tree.
Open(u) ==
  /\ main = "serving"
  /\ u \notin connected
  /\ connected' = connected \cup {u}
  /\ up' = [up EXCEPT ![u] = <<[type |-> "TREE_REQUEST"]>>]
  /\ CreateSession(session)
  /\ UNCHANGED <<reaper, left, stop, cv, poolVars, workspace, main, down, fileTree,
                 outdated, overtaken, inputs>>

Close(u) ==
  /\ main = "serving"
  /\ u \in connected
  /\ connected' = connected \ {u}
  /\ up' = [up EXCEPT ![u] = <<>>]
  /\ down' = [down EXCEPT ![u] = <<>>]
  /\ fileTree' = [fileTree EXCEPT ![u] = NoTree]
  /\ outdated' = outdated \ {u}
  /\ overtaken' = overtaken \ {u}
  /\ UNCHANGED <<reaperVars, poolVars, workspace, main, inputs>>

Takes(u, type) ==
  /\ main = "serving"
  /\ up[u] # <<>>
  /\ Head(up[u]).type = type
  /\ up' = [up EXCEPT ![u] = Tail(@)]
  /\ UNCHANGED <<reaperVars, poolFiles, strays, connected, fileTree, overtaken, inputs>>

TreeRequest(u) ==
  /\ Takes(u, "TREE_REQUEST")
  /\ Sent({u}, TreeSync)
  /\ outdated' = outdated \ {u}
  /\ UNCHANGED <<job, workspace, main>>

\* Mutant: the tree is read before the file is created.
AnnouncedEarly == Sent(connected, TreeSync) /\ outdated' = {}

\* Everybody in the session is sent the tree.
Announced == Sent(connected, TreeSync') /\ outdated' = {}

\* Nobody is told, though folders or files may have come or gone.
Unannounced ==
  /\ outdated' = IF workspace' = workspace THEN outdated ELSE connected
  /\ UNCHANGED down

FileCreate(u) ==
  LET n == Head(up[u]).name
  IN  /\ Takes(u, "FILE_CREATE")
      /\ \/ Created(n.path, n.slash) /\ Announced
         \/ NotCreated(n.path, n.slash) /\ Unannounced
      /\ UNCHANGED <<job, main>>

\* Only json::exception is caught: the process ends.
FileCreateThrows(u) ==
  /\ main = "serving"
  /\ up[u] # <<>>
  /\ Head(up[u]).type = "FILE_CREATE"
  /\ Throws(Head(up[u]).name.path, Head(up[u]).name.slash)
  /\ Gone
  /\ UNCHANGED <<workspace, strays>>

\* Mutant: a deletion that failed is tried again.
FileDeleteRetried(u) ==
  /\ Takes(u, "FILE_DELETE")
  /\ Deleted(Head(up[u]).path) /\ Announced
  /\ UNCHANGED <<job, main>>

FileDelete(u) ==
  LET p == Head(up[u]).path
  IN  /\ Takes(u, "FILE_DELETE")
      /\ \/ Deleted(p) /\ Announced
         \/ (PartlyDeleted(p) \/ NotThere(p)) /\ Unannounced
      /\ UNCHANGED <<job, main>>

RunBegins(u) ==
  /\ Takes(u, "ADMIN_RUN")
  /\ BeginJob(u)
  /\ main' = "running"
  /\ UNCHANGED <<workspace, down, outdated>>

Handle(u) ==
  \/ TreeRequest(u)
  \/ FileCreate(u)
  \/ FileCreateThrows(u)
  \/ FileDelete(u)
  \/ RunBegins(u)

\* The program is being compiled and run.
RunGoesOn ==
  /\ WriteSource \/ WriteInput \/ Compile
  /\ UNCHANGED <<reaperVars, workspace, main, tabs, inputs>>

\* The answer is the output, or an error message if there is none to send.
RunAnswered ==
  /\ \/ (CannotOpen \/ CompileFails) /\ Sent({job.user}, RunOutput(ErrorText))
     \/ Ends /\ \E out \in {Output, ErrorText} : Sent({job.user}, RunOutput(out))
  /\ main' = "serving"
  /\ UNCHANGED <<reaperVars, workspace, connected, up, fileTree, outdated, overtaken, inputs>>

\* The compilers of killed servers go on beside the server, and beside none.
StraysGoOn ==
  /\ StrayReads \/ StrayEnds
  /\ overtaken' = IF job.at = "run" /\ a_out' # a_out
                  THEN overtaken \cup {job.user} ELSE overtaken
  /\ UNCHANGED <<reaperVars, workspace, main, connected, up, down, fileTree, outdated, inputs>>

------------------------------------------------------------------------------
(* The tabs *)

Send(u, m) ==
  /\ u \in connected
  /\ inputs < MaxInputs
  /\ inputs' = inputs + 1
  /\ up' = [up EXCEPT ![u] = Append(@, m)]
  /\ UNCHANGED <<reaperVars, poolVars, workspace, main, connected, down, fileTree,
                 outdated, overtaken>>

Receive(u) ==
  /\ down[u] # <<>>
  /\ down' = [down EXCEPT ![u] = Tail(@)]
  /\ fileTree' = IF Head(down[u]).type = "TREE_SYNC"
                 THEN [fileTree EXCEPT ![u] = Head(down[u]).tree] ELSE fileTree
  /\ UNCHANGED <<reaperVars, poolVars, workspace, main, connected, up, outdated, overtaken,
                 inputs>>

------------------------------------------------------------------------------
Init ==
  /\ ReaperInit
  /\ PoolInit
  /\ folders = {} /\ files = {}
  /\ main = "down"
  /\ connected = {}
  /\ up = [u \in Users |-> <<>>]
  /\ down = [u \in Users |-> <<>>]
  /\ fileTree = [u \in Users |-> NoTree]
  /\ outdated = {}
  /\ overtaken = {}
  /\ inputs = 0

Next ==
  \/ Start
  \/ Kill
  \/ ShutDown
  \/ Join
  \/ Return
  \/ Aborts
  \/ ReaperRuns
  \/ RunGoesOn
  \/ RunAnswered
  \/ StraysGoOn
  \/ \E u \in Users :
       \/ Open(u)
       \/ Close(u)
       \/ Handle(u)
       \/ Receive(u)
       \/ \E m \in Requests \ {[type |-> "TREE_REQUEST"]} : Send(u, m)

Spec == Init /\ [][Next]_vars

\* The threads are scheduled, time passes, the event loop looks at every socket
\* and the programs that are run come to an end.
FairSpec ==
  /\ Spec
  /\ WF_vars(ShutDown) /\ WF_vars(Join) /\ WF_vars(Return)
  /\ WF_vars(ReaperSteps /\ ReaperRuns) /\ WF_vars(Tick /\ ReaperRuns)
  /\ WF_vars(RunGoesOn \/ RunAnswered)
  /\ \A u \in Users : WF_vars(Handle(u))

------------------------------------------------------------------------------
(* Properties *)

TypeOK ==
  /\ ReaperTypeOK
  /\ PoolTypeOK
  /\ WorkspaceTypeOK
  /\ main \in {"down", "serving", "running", "bind failed", "stop requested",
               "notified", "joining", "leaving"}
  /\ connected \subseteq Users
  /\ up \in [Users -> Seq(Requests)]
  /\ down \in [Users -> Seq(ToTab)]
  /\ outdated \subseteq connected
  /\ overtaken \subseteq Users
  /\ inputs \in 0..MaxInputs

\* The last TREE_SYNC among the messages ms is the i-th.
LastTree(ms, i) ==
  /\ ms[i].type = "TREE_SYNC"
  /\ \A j \in DOMAIN ms : j > i => ms[j].type # "TREE_SYNC"

\* A tab that shows the tree `shown', and is still to receive ms, ends up
\* showing `tree'.
ComesToShow(ms, shown, tree) ==
  /\ \A i \in DOMAIN ms : LastTree(ms, i) => ms[i].tree = tree
  /\ (\A i \in DOMAIN ms : ms[i].type # "TREE_SYNC") => shown = tree

\* No TREE_REQUEST of u is on its way.
Answered(u) == \A i \in DOMAIN up[u] : up[u][i].type # "TREE_REQUEST"

\* Every tab that has been answered its TREE_REQUEST ends up with the workspace
\* as it is, through creations and deletions by all tabs and restarts.  The only
\* exceptions are the effects of an operation that failed half way (outdated),
\* and the next change that succeeds mends those.
TreeViewsConverge ==
  \A u \in connected \ outdated :
    Answered(u) => ComesToShow(down[u], fileTree[u], Tree)

\* The program p printed the output `out' for the input of u.
PrintedFor(u, p, out) == out = <<p, u>>

\* What a tab is answered was printed for its own input, and by its own program,
\* although all programs are compiled and run in the same files, which others'
\* failed runs and killed servers leave behind.  Only the compiler of a killed
\* server can put another program in the place of a tab's own, and only if it
\* ends between the end of the tab's compiler and the start of its program.
AnswersOwnProgram ==
  \A u \in Users : \A i \in DOMAIN down[u] :
    down[u][i].type = "RUN_OUTPUT" /\ down[u][i].data # ErrorText =>
      \/ PrintedFor(u, u, down[u][i].data)
      \/ u \in overtaken /\ \E p \in Users : PrintedFor(u, p, down[u][i].data)

\* No session gets as old as the timeout and two minutes: one for rounding the
\* age down, one for the sleep between sweeps.  That somebody is connected to it,
\* opens it again or sends messages makes no difference.
StaleSessionsGo == \A s \in DOMAIN mp_sessions : mp_sessions[s] < MaxAge

\* A server that cannot listen comes to its end, even if the notification of the
\* stop is lost because it comes right before the thread blocks.
ShutdownEnds == main = "bind failed" ~> main = "down"

\* Every request is handled or its connection ends, although any of them may run
\* a program on the event loop meanwhile.  (It takes that the programs end.)
RequestsHandled == \A u \in Users : up[u] # <<>> ~> up[u] = <<>>
=============================================================================
