---------------------------- MODULE ServerProofs ----------------------------
(***************************************************************************)
(* Proofs about Server, for any tabs, paths, sessions, timeout and clock.  *)
(***************************************************************************)
EXTENDS Server, SequenceTheorems, TLAPS

------------------------------------------------------------------------------
(* The reaper *)

Limit == (TIMEOUT_MINUTES + 1) * PerMinute

\* How old the sessions are at each place of the thread: a sweep leaves none of
\* the limit, and until the next one they get a minute older at most.
AgesOK ==
  \A s \in DOMAIN mp_sessions :
    /\ reaper = "test" => mp_sessions[s] < Limit
    /\ reaper \in {"resting", "asleep"} => mp_sessions[s] + left < Limit + PerMinute
    /\ reaper = "sweep" => mp_sessions[s] < Limit + PerMinute

\* Where the thread is, and whether it is to stop, goes with where main is.  A
\* server that is shutting down has had no session, as it never served.
Stopping == {"stop requested", "notified", "joining", "leaving"}

ProcessOK ==
  /\ main = "down" <=> reaper = "none"
  /\ stop <=> main \in Stopping
  /\ reaper = "done" => stop
  /\ main \in {"down", "bind failed"} \cup Stopping => DOMAIN mp_sessions = {}

\* A call is made only while a program runs.
IdleOK == main # "running" => job = NoJob

\* The limit is positive, and a minute more is the age that no session gets to.
LEMMA LimitFacts ==
  /\ Limit \in Nat \ {0}
  /\ MaxAge = Limit + PerMinute
  /\ PerMinute \in Nat \ {0}
<1>1. TIMEOUT_MINUTES \in Nat /\ PerMinute \in Nat \ {0}
  BY ReaperAssumption
<1>2. (TIMEOUT_MINUTES + 2) * PerMinute = (TIMEOUT_MINUTES + 1) * PerMinute + PerMinute
  BY <1>1
<1>3. (TIMEOUT_MINUTES + 1) * PerMinute \in Nat \ {0}
  BY <1>1
<1> QED
  BY <1>1, <1>2, <1>3 DEF Limit, MaxAge

\* A session that a sweep leaves is younger than the limit.
LEMMA MinutesFacts ==
  ASSUME NEW age \in Nat, ~(Minutes(age) > TIMEOUT_MINUTES)
  PROVE  age < Limit
<1> DEFINE q == age \div PerMinute
<1>1. PerMinute \in Nat \ {0} /\ TIMEOUT_MINUTES \in Nat
  BY ReaperAssumption
<1>2. /\ q \in Nat
      /\ age = q * PerMinute + (age % PerMinute)
      /\ age % PerMinute \in 0 .. PerMinute - 1
  BY <1>1
<1>3. q + 1 <= TIMEOUT_MINUTES + 1
  BY <1>1, <1>2 DEF Minutes
<1> HIDE DEF q
<1>4. (q + 1) * PerMinute <= (TIMEOUT_MINUTES + 1) * PerMinute
  BY <1>1, <1>2, <1>3
<1>5. age < (q + 1) * PerMinute
  BY <1>1, <1>2
<1> QED
  BY <1>1, <1>2, <1>4, <1>5 DEF Limit

\* A session that is opened is new or stays as it is.
LEMMA CreateOK ==
  ASSUME ReaperTypeOK, AgesOK, NEW id \in SessionIds, CreateSession(id),
         UNCHANGED <<reaper, left, stop, cv>>, reaper # "none"
  PROVE  ReaperTypeOK' /\ AgesOK'
<1>1. /\ DOMAIN mp_sessions' = DOMAIN mp_sessions \cup {id}
      /\ \A s \in DOMAIN mp_sessions' :
           mp_sessions'[s] = IF s \in DOMAIN mp_sessions THEN mp_sessions[s] ELSE 0
  BY DEF CreateSession
<1>2. \A s \in DOMAIN mp_sessions : mp_sessions[s] \in Nat
  BY DEF ReaperTypeOK, Range
<1>3. ReaperTypeOK'
  BY <1>1, <1>2 DEF ReaperTypeOK, Range
<1>4. left \in Nat /\ left <= PerMinute
  BY LimitFacts DEF ReaperTypeOK
<1> QED
  BY <1>1, <1>2, <1>3, <1>4, LimitFacts DEF AgesOK

\* The thread and the clock.
LEMMA ReaperStepOK ==
  ASSUME ReaperTypeOK, AgesOK, ReaperSteps \/ WakeSpuriously \/ Tick
  PROVE  ReaperTypeOK' /\ AgesOK'
<1>1. /\ \A s \in DOMAIN mp_sessions : mp_sessions[s] \in Nat
      /\ left \in Nat /\ left <= PerMinute
  BY LimitFacts DEF ReaperTypeOK, Range
<1>2. CASE Rest
  BY <1>1, <1>2, LimitFacts DEF Rest, ReaperTypeOK, AgesOK, Places
<1>3. CASE FallAsleep
  BY <1>1, <1>3 DEF FallAsleep, ReaperTypeOK, AgesOK, Places
<1>4. CASE WakeUp
  BY <1>1, <1>4 DEF WakeUp, TimedOut, ReaperTypeOK, AgesOK, Places
<1>5. CASE WakeSpuriously
  BY <1>1, <1>5 DEF WakeSpuriously, ReaperTypeOK, AgesOK, Places
<1>6. CASE Sweep
  <2>1. /\ DOMAIN mp_sessions' = DOMAIN mp_sessions \ Stale
        /\ \A s \in DOMAIN mp_sessions' : mp_sessions'[s] = mp_sessions[s]
    BY <1>6 DEF Sweep, Restrict
  <2>2. \A s \in DOMAIN mp_sessions' : mp_sessions'[s] < Limit
    BY <1>1, <2>1, MinutesFacts DEF Stale
  <2>3. ReaperTypeOK'
    BY <1>1, <1>6, <2>1 DEF Sweep, ReaperTypeOK, Places, Range
  <2> QED
    BY <1>6, <2>2, <2>3 DEF Sweep, AgesOK
<1>7. CASE Tick
  <2>1. /\ DOMAIN mp_sessions' = DOMAIN mp_sessions
        /\ \A s \in DOMAIN mp_sessions' : mp_sessions'[s] = Older(mp_sessions[s])
    BY <1>7 DEF Tick
  <2>2. \A s \in DOMAIN mp_sessions' :
          mp_sessions'[s] \in Nat /\ mp_sessions'[s] <= mp_sessions[s] + 1
    BY <1>1, <2>1, LimitFacts DEF Older
  <2>3. ReaperTypeOK'
    BY <1>1, <1>7, <2>1, <2>2, LimitFacts DEF Tick, ReaperTypeOK, Range
  <2>4. reaper = "asleep" => left > 0 /\ left' = left - 1
    BY <1>1, <1>7 DEF Tick, TimedOut
  <2> QED
    BY <1>1, <1>7, <2>1, <2>2, <2>3, <2>4, LimitFacts DEF Tick, AgesOK
<1> QED
  BY <1>2, <1>3, <1>4, <1>5, <1>6, <1>7 DEF ReaperSteps

------------------------------------------------------------------------------
(* The program runs *)

\* What the call has done so far, it has done for its own user, and only a killed
\* server's compiler undoes it.
RunOK ==
  /\ job.at \in {"input", "compile"} => admin_temp = job.user
  /\ job.at \in {"compile", "run"} => input_in = job.user
  /\ job.at = "run" => \/ a_out = job.user
                       \/ job.user \in overtaken /\ a_out \in Users

LEMMA PoolStepOK ==
  ASSUME PoolTypeOK, RunOK, UNCHANGED overtaken,
         \/ WriteSource \/ WriteInput \/ Compile \/ CannotOpen \/ CompileFails \/ Ends
         \/ \E u \in Users : BeginJob(u)
  PROVE  PoolTypeOK' /\ RunOK'
<1>1. ASSUME job.at # "none" PROVE /\ job.user \in Users
                                   /\ job = [user |-> job.user, at |-> job.at]
  BY <1>1 DEF PoolTypeOK, NoJob
<1>2. CASE WriteSource
  BY <1>1, <1>2 DEF WriteSource, Goes, PoolTypeOK, RunOK, NoJob
<1>3. CASE WriteInput
  BY <1>1, <1>3 DEF WriteInput, Goes, PoolTypeOK, RunOK, NoJob
<1>4. CASE Compile
  BY <1>1, <1>4 DEF Compile, Goes, PoolTypeOK, RunOK, NoJob
<1>5. CASE CannotOpen \/ CompileFails \/ Ends
  BY <1>5 DEF CannotOpen, CompileFails, Ends, poolFiles, PoolTypeOK, RunOK, NoJob
<1>6. CASE \E u \in Users : BeginJob(u)
  BY <1>6 DEF BeginJob, poolFiles, PoolTypeOK, RunOK, NoJob
<1> QED
  BY <1>2, <1>3, <1>4, <1>5, <1>6

\* A compiler that has outlived its server changes no file but the program.
LEMMA StraysOK ==
  ASSUME PoolTypeOK, RunOK, StraysGoOn
  PROVE  PoolTypeOK' /\ RunOK'
<1>1. /\ admin_temp \in Users \cup {NoUser}
      /\ strays \in [Users \cup {NoUser} -> Nat]
      /\ a_out \in Users \cup {NoUser}
  BY DEF PoolTypeOK
<1>2. CASE StrayReads
  <2>1. strays[NoUser] > 0 /\ strays[NoUser] \in Nat
    BY <1>1, <1>2 DEF StrayReads
  <2>2. strays[NoUser] - 1 \in Nat /\ strays[admin_temp] + 1 \in Nat
    BY <1>1, <2>1
  <2>3. strays' \in [Users \cup {NoUser} -> Nat]
    <3>1. CASE admin_temp = NoUser
      BY <1>1, <1>2, <2>1, <2>2, <3>1 DEF StrayReads
    <3>2. CASE admin_temp # NoUser
      BY <1>1, <1>2, <2>1, <2>2, <3>2 DEF StrayReads
    <3> QED
      BY <3>1, <3>2
  <2>4. UNCHANGED <<admin_temp, input_in, a_out, job>>
    BY <1>2 DEF StrayReads, poolFiles
  <2>5. overtaken' = overtaken
    BY <2>4 DEF StraysGoOn
  <2> QED
    BY <2>3, <2>4, <2>5 DEF PoolTypeOK, RunOK
<1>3. CASE StrayEnds
  <2>1. PICK p \in Users :
          /\ strays[p] > 0
          /\ strays' = [strays EXCEPT ![p] = @ - 1]
          /\ a_out' \in {a_out, p}
          /\ UNCHANGED <<admin_temp, input_in, job>>
    BY <1>3 DEF StrayEnds
  <2>2. strays' \in [Users \cup {NoUser} -> Nat]
    BY <1>1, <2>1
  <2>3. PoolTypeOK'
    BY <2>1, <2>2 DEF PoolTypeOK
  <2>4. CASE a_out' = a_out
    BY <2>1, <2>3, <2>4 DEF StraysGoOn, RunOK
  <2>5. CASE a_out' # a_out
    BY <2>1, <2>3, <2>5 DEF StraysGoOn, RunOK
  <2> QED
    BY <2>3, <2>4, <2>5
<1> QED
  BY <1>2, <1>3 DEF StraysGoOn

\* What u may be answered: an error, or the output for its own input of its own
\* program, or, if it was overtaken, of another's.
OwnOutput(u, out, late) ==
  \/ out = ErrorText
  \/ out = <<u, u>>
  \/ late /\ \E p \in Users : out = <<p, u>>

\* Whatever is answered was printed for the user whose call it is.
LEMMA OutputOwn ==
  ASSUME PoolTypeOK, RunOK, Ends
  PROVE  /\ Output \in Outputs
         /\ OwnOutput(job.user, Output, job.user \in overtaken)
<1>1. input_in = job.user /\ a_out \in Users \cup {NoUser} /\ input_in \in Users \cup {NoUser}
  BY DEF RunOK, Ends, PoolTypeOK
<1>2. \/ a_out = job.user
      \/ job.user \in overtaken /\ a_out \in Users
  BY DEF RunOK, Ends
<1> QED
  BY <1>1, <1>2 DEF Output, Outputs, OwnOutput

------------------------------------------------------------------------------
(* The workspace *)

LEMMA PrefixesCompose ==
  ASSUME NEW p \in Nodes, NEW q \in Nodes, NEW r \in Nodes, IsPrefix(p, q), IsPrefix(q, r)
  PROVE  IsPrefix(p, r)
<1>1. p \in Seq(Segments) /\ q \in Seq(Segments) /\ r \in Seq(Segments)
  BY WorkspaceAssumption
<1>2. Len(p) <= Len(q) /\ Len(q) <= Len(r) /\ Len(p) \in Nat /\ Len(q) \in Nat /\ Len(r) \in Nat
  BY <1>1 DEF IsPrefix
<1>3. SubSeq(p, 1, Len(p)) = SubSeq(r, 1, Len(p))
  <2>1. \A i \in 1..Len(q) : q[i] = r[i]
    BY <1>1, <1>2 DEF IsPrefix
  <2>2. \A i \in 1..Len(p) : p[i] = q[i]
    BY <1>1, <1>2 DEF IsPrefix
  <2>3. \A i \in 1..Len(p) : p[i] = r[i]
    BY <1>2, <2>1, <2>2
  <2> QED
    BY <1>1, <1>2, <2>3
<1> QED
  BY <1>2, <1>3 DEF IsPrefix

LEMMA PrefixesAgree ==
  ASSUME NEW p \in Nodes, NEW q \in Nodes, IsPrefix(p, q), IsPrefix(q, p)
  PROVE  p = q
<1>1. p \in Seq(Segments) /\ q \in Seq(Segments)
  BY WorkspaceAssumption
<1>2. Len(p) = Len(q)
  BY <1>1 DEF IsPrefix
<1>3. \A i \in 1..Len(p) : p[i] = q[i]
  BY <1>1, <1>2 DEF IsPrefix
<1> QED
  BY <1>1, <1>2, <1>3

\* The parents of a parent are parents.
LEMMA ParentsCompose ==
  ASSUME NEW p \in Nodes, NEW q \in Parents(p)
  PROVE  Parents(q) \subseteq Parents(p)
<1> SUFFICES ASSUME NEW r \in Parents(q) PROVE r \in Parents(p)
  OBVIOUS
<1>1. /\ q \in Nodes /\ IsPrefix(q, p) /\ q # p
      /\ r \in Nodes /\ IsPrefix(r, q) /\ r # q
  BY DEF Parents, IsStrictPrefix
<1>2. IsPrefix(r, p)
  BY <1>1, PrefixesCompose
<1>3. r # p
  BY <1>1, PrefixesAgree
<1> QED
  BY <1>1, <1>2, <1>3 DEF Parents, IsStrictPrefix

\* Every operation leaves folders under everything there is.
LEMMA WorkspaceStepOK ==
  ASSUME WorkspaceTypeOK, NEW p \in Nodes, NEW slash \in BOOLEAN,
         \/ Created(p, slash) \/ NotCreated(p, slash)
         \/ Deleted(p) \/ PartlyDeleted(p) \/ NotThere(p)
  PROVE  WorkspaceTypeOK'
<1>1. ASSUME ~Throws(p, slash), Makes(p, slash)
      PROVE  /\ folders' \subseteq Nodes
             /\ folders' \cap files = {}
             /\ \A q \in folders' \cup files : Parents(q) \subseteq folders'
  <2>1. ToMake(p, slash) \subseteq Nodes /\ ToMake(p, slash) \cap files = {}
    BY <1>1 DEF ToMake, Throws, Parents
  <2>2. folders' = folders \cup ToMake(p, slash)
    BY <1>1 DEF Makes
  <2>3. \A q \in ToMake(p, slash) : Parents(q) \subseteq ToMake(p, slash)
    BY ParentsCompose DEF ToMake
  <2> QED
    BY <2>1, <2>2, <2>3 DEF WorkspaceTypeOK, Existing
<1>2. CASE Created(p, slash)
  <2>1. ~Throws(p, slash) /\ ~slash /\ p \notin Existing /\ Makes(p, slash)
    BY <1>2 DEF Created, Creatable
  <2>2. files' = files \cup {p} /\ folders' = folders \cup Parents(p)
    BY <1>2, <2>1 DEF Created, Makes, ToMake
  <2>3. p \notin Parents(p)
    BY DEF Parents, IsStrictPrefix
  <2> QED
    BY <1>1, <2>1, <2>2, <2>3 DEF WorkspaceTypeOK, Existing
<1>3. CASE NotCreated(p, slash)
  BY <1>1, <1>3 DEF NotCreated, WorkspaceTypeOK, Existing
<1>4. ASSUME NEW gone, \A q \in gone : Within(q) \cap Existing \subseteq gone,
             gone \subseteq Nodes,
             folders' = folders \ gone, files' = files \ gone
      PROVE  WorkspaceTypeOK'
  <2>1. ASSUME NEW q \in Existing, q \notin gone PROVE Parents(q) \cap gone = {}
    <3>1. q \in Nodes
      BY <2>1 DEF WorkspaceTypeOK, Existing
    <3> SUFFICES ASSUME NEW r \in Parents(q), r \in gone PROVE FALSE
      OBVIOUS
    <3>2. q \in Within(r)
      BY <3>1 DEF Parents, Within, IsStrictPrefix
    <3> QED
      BY <1>4, <2>1, <3>2
  <2> QED
    BY <1>4, <2>1 DEF WorkspaceTypeOK, Existing
<1>5. CASE Deleted(p)
  <2>1. \A q \in Within(p) : Within(q) \cap Existing \subseteq Within(p)
    BY PrefixesCompose DEF Within
  <2>2. Within(p) \subseteq Nodes
    BY DEF Within
  <2> QED
    BY <1>4, <1>5, <2>1, <2>2 DEF Deleted
<1>6. CASE PartlyDeleted(p)
  <2>1. PICK gone \in SUBSET (Within(p) \ {p}) :
          /\ \A q \in gone : Within(q) \cap Existing \subseteq gone
          /\ folders' = folders \ gone
          /\ files' = files \ gone
    BY <1>6 DEF PartlyDeleted
  <2>2. gone \subseteq Nodes
    BY DEF Within
  <2> QED
    BY <1>4, <2>1, <2>2
<1>7. CASE NotThere(p)
  BY <1>7 DEF NotThere, workspace, WorkspaceTypeOK, Existing
<1> QED
  BY <1>2, <1>3, <1>5, <1>6, <1>7

------------------------------------------------------------------------------
(* The messages *)

\* What the next message of u says is about paths of the workspace.
LEMMA FromTab ==
  ASSUME NEW m \in Requests
  PROVE  /\ m.type = "FILE_CREATE" => m.name.path \in Nodes /\ m.name.slash \in BOOLEAN
         /\ m.type = "FILE_DELETE" => m.path \in Nodes
BY ServerAssumption DEF Requests

LEMMA RequestsTyped ==
  /\ [type |-> "TREE_REQUEST"] \in Requests
  /\ <<>> \in Seq(Requests)
  /\ <<>> \in Seq(ToTab)
<1>1. [type |-> "TREE_REQUEST"] \in Requests
  BY DEF Requests
<1> QED
  BY <1>1

\* The message that shows a tab the tree of the folders F and the files G.
Shown(F, G) == [type |-> "TREE_SYNC", tree |-> [folders |-> F, files |-> G]]

LEMMA ShownTyped ==
  ASSUME NEW F \in SUBSET Nodes, NEW G \in SUBSET Nodes
  PROVE  /\ Shown(F, G) \in ToTab
         /\ Shown(F, G).type = "TREE_SYNC"
         /\ Shown(F, G).tree = [folders |-> F, files |-> G]
BY DEF Shown, ToTab

LEMMA RunOutputTyped ==
  ASSUME NEW out \in Outputs \cup {ErrorText}
  PROVE  /\ RunOutput(out) \in ToTab
         /\ RunOutput(out).type = "RUN_OUTPUT"
         /\ RunOutput(out).data = out
BY DEF RunOutput, ToTab

\* A message that is sent joins the channels it is for.
LEMMA SentFacts ==
  ASSUME down \in [Users -> Seq(ToTab)], NEW S, NEW m \in ToTab, Sent(S, m)
  PROVE  /\ down' \in [Users -> Seq(ToTab)]
         /\ \A u \in Users : down'[u] = IF u \in S THEN Append(down[u], m) ELSE down[u]
<1>1. \A u \in Users : Append(down[u], m) \in Seq(ToTab)
  OBVIOUS
<1> QED
  BY <1>1 DEF Sent

\* A tab comes to show what the last tree sent to it says,
LEMMA ShowsWhenTold ==
  ASSUME NEW ms \in Seq(ToTab), NEW shown, NEW m \in ToTab, m.type = "TREE_SYNC"
  PROVE  ComesToShow(Append(ms, m), shown, m.tree)
<1> DEFINE ns == Append(ms, m)
<1>1. /\ DOMAIN ns = 1..Len(ms) + 1
      /\ ns[Len(ms) + 1] = m
      /\ Len(ms) \in Nat
  OBVIOUS
<1> HIDE DEF ns
<1>2. Len(ms) + 1 \in DOMAIN ns
  BY <1>1
<1>3. ASSUME NEW i \in DOMAIN ns, LastTree(ns, i) PROVE ns[i].tree = m.tree
  <2>1. ~(Len(ms) + 1 > i)
    BY <1>1, <1>2, <1>3 DEF LastTree
  <2>2. i = Len(ms) + 1
    BY <1>1, <2>1
  <2> QED
    BY <1>1, <2>2
<1> QED
  BY <1>1, <1>2, <1>3 DEF ComesToShow, ns

\* which no other message changes,
LEMMA ShowsWithMore ==
  ASSUME NEW ms \in Seq(ToTab), NEW shown, NEW tree,
         NEW m \in ToTab, m.type # "TREE_SYNC", ComesToShow(ms, shown, tree)
  PROVE  ComesToShow(Append(ms, m), shown, tree)
<1> DEFINE ns == Append(ms, m)
<1>1. /\ DOMAIN ns = 1..Len(ms) + 1
      /\ DOMAIN ms = 1..Len(ms)
      /\ ns[Len(ms) + 1] = m
      /\ \A i \in DOMAIN ms : i \in DOMAIN ns /\ ns[i] = ms[i]
  OBVIOUS
<1> HIDE DEF ns
<1>2. ASSUME NEW i \in DOMAIN ns, LastTree(ns, i) PROVE ns[i].tree = tree
  <2>1. i \in DOMAIN ms
    BY <1>1, <1>2 DEF LastTree
  <2>2. LastTree(ms, i)
    BY <1>1, <1>2, <2>1 DEF LastTree
  <2> QED
    BY <1>1, <2>1, <2>2 DEF ComesToShow
<1> QED
  BY <1>1, <1>2 DEF ComesToShow, ns

\* and taking in the first message brings it there.
LEMMA ShowsWithLess ==
  ASSUME NEW ms \in Seq(ToTab), ms # <<>>, NEW shown, NEW tree, ComesToShow(ms, shown, tree)
  PROVE  ComesToShow(Tail(ms), IF Head(ms).type = "TREE_SYNC" THEN Head(ms).tree ELSE shown,
                     tree)
<1> DEFINE ns == Tail(ms)
<1>1. /\ Len(ms) \in Nat \ {0}
      /\ DOMAIN ms = 1..Len(ms)
      /\ DOMAIN ns = 1..Len(ms) - 1
      /\ \A i \in DOMAIN ns : ns[i] = ms[i + 1]
      /\ Head(ms) = ms[1]
  OBVIOUS
<1> HIDE DEF ns
<1>2. ASSUME NEW j \in DOMAIN ms, j > 1 PROVE j - 1 \in DOMAIN ns /\ ns[j - 1] = ms[j]
  BY <1>1, <1>2
<1>3. ASSUME NEW i \in DOMAIN ns, LastTree(ns, i) PROVE ns[i].tree = tree
  <2>1. i + 1 \in DOMAIN ms
    BY <1>1
  <2>2. ASSUME NEW j \in DOMAIN ms, j > i + 1 PROVE ms[j].type # "TREE_SYNC"
    <3>1. j > 1 /\ j - 1 > i
      BY <1>1, <2>2
    <3> QED
      BY <1>2, <1>3, <3>1 DEF LastTree
  <2>3. LastTree(ms, i + 1)
    BY <1>1, <1>3, <2>1, <2>2 DEF LastTree
  <2> QED
    BY <1>1, <2>1, <2>3 DEF ComesToShow
<1>4. ASSUME \A i \in DOMAIN ns : ns[i].type # "TREE_SYNC"
      PROVE  /\ Head(ms).type = "TREE_SYNC" => Head(ms).tree = tree
             /\ Head(ms).type # "TREE_SYNC" => shown = tree
  <2>1. ASSUME NEW j \in DOMAIN ms, j > 1 PROVE ms[j].type # "TREE_SYNC"
    BY <1>2, <1>4, <2>1
  <2>2. 1 \in DOMAIN ms
    BY <1>1
  <2>3. Head(ms).type = "TREE_SYNC" => LastTree(ms, 1)
    BY <1>1, <2>1, <2>2 DEF LastTree
  <2>4. Head(ms).type # "TREE_SYNC" => \A j \in DOMAIN ms : ms[j].type # "TREE_SYNC"
    <3>1. \A j \in DOMAIN ms : j = 1 \/ j > 1
      BY <1>1
    <3> QED
      BY <1>1, <2>1, <3>1
  <2> QED
    BY <1>1, <2>2, <2>3, <2>4 DEF ComesToShow
<1> QED
  BY <1>3, <1>4 DEF ComesToShow, ns

------------------------------------------------------------------------------
(* The invariant *)

IInv ==
  /\ TypeOK
  /\ DOMAIN fileTree = Users
  /\ AgesOK
  /\ ProcessOK
  /\ IdleOK
  /\ RunOK
  /\ AnswersOwnProgram
  /\ TreeViewsConverge

TabsOK ==
  /\ connected \subseteq Users
  /\ up \in [Users -> Seq(Requests)]
  /\ down \in [Users -> Seq(ToTab)]
  /\ outdated \subseteq connected
  /\ overtaken \subseteq Users
  /\ DOMAIN fileTree = Users

\* The message that u's connection has delivered.
LEMMA Taken ==
  ASSUME TypeOK, NEW u \in Users, NEW type, Takes(u, type)
  PROVE  /\ up[u] # <<>> /\ Head(up[u]) \in Requests /\ Head(up[u]).type = type
         /\ main = "serving"
         /\ up' = [up EXCEPT ![u] = Tail(@)]
         /\ up' \in [Users -> Seq(Requests)]
         /\ UNCHANGED <<mp_sessions, reaper, left, stop, cv>>
         /\ UNCHANGED <<admin_temp, input_in, a_out, strays>>
         /\ UNCHANGED <<connected, fileTree, overtaken, inputs>>
<1>1. up[u] \in Seq(Requests) /\ up[u] # <<>>
  BY DEF TypeOK, Takes
<1>2. Tail(up[u]) \in Seq(Requests) /\ Head(up[u]) \in Requests
  BY <1>1
<1> QED
  BY <1>1, <1>2 DEF Takes, TypeOK, reaperVars, poolFiles

\* Everything but a handler of FILE_CREATE that throws, which ends the process.
LEMMA NextCases ==
  ASSUME Next
  PROVE  \/ Start
         \/ Gone /\ LeavesCompiler /\ UNCHANGED workspace
         \/ ShutDown
         \/ Join
         \/ ReaperRuns
         \/ RunGoesOn
         \/ RunAnswered
         \/ StraysGoOn
         \/ \E u \in Users :
              \/ Open(u) \/ Close(u)
              \/ TreeRequest(u) \/ FileCreate(u) \/ FileDelete(u) \/ RunBegins(u)
              \/ Receive(u)
              \/ \E m \in Requests \ {[type |-> "TREE_REQUEST"]} : Send(u, m)
BY DEF Next, Kill, Return, Aborts, Handle, FileCreateThrows, LeavesCompiler

\* The reaper's variables and those of main.
LEMMA ProcessStep ==
  ASSUME IInv, Next
  PROVE  ReaperTypeOK' /\ AgesOK' /\ ProcessOK'
<1>1. ReaperTypeOK /\ AgesOK /\ ProcessOK /\ IdleOK
  BY DEF IInv, TypeOK
<1>2. ASSUME UNCHANGED <<mp_sessions, reaper, left, stop, cv>>,
             \/ UNCHANGED main
             \/ main \in {"serving", "running"} /\ main' \in {"serving", "running"}
      PROVE  ReaperTypeOK' /\ AgesOK' /\ ProcessOK'
  BY <1>1, <1>2 DEF ReaperTypeOK, AgesOK, ProcessOK, Stopping, Range
<1>3. CASE Start \/ Gone
  <2>1. mp_sessions' = NoSessions
    BY <1>3 DEF Start, Gone
  <2>2. DOMAIN NoSessions = {}
    BY DEF NoSessions
  <2>3. Range(NoSessions) = {}
    BY <2>2 DEF Range
  <2>4. left' \in 0..PerMinute
    <3>1. 0 \in 0..PerMinute
      BY LimitFacts
    <3> QED
      BY <1>3, <3>1 DEF Start, Gone
  <2>5. reaper' \in {"test", "none"} /\ stop' = FALSE /\ cv' \in BOOLEAN
    BY <1>3 DEF Start, Gone
  <2>6. ReaperTypeOK'
    BY <2>1, <2>2, <2>3, <2>4, <2>5 DEF ReaperTypeOK, Places
  <2>7. AgesOK'
    BY <2>1, <2>2 DEF AgesOK
  <2>8. /\ main' \in {"serving", "bind failed", "down"}
        /\ main' = "down" <=> reaper' = "none"
    BY <1>3 DEF Start, Gone
  <2> QED
    BY <2>1, <2>2, <2>5, <2>6, <2>7, <2>8 DEF ProcessOK, Stopping
<1>4. CASE Join
  <2>1. /\ mp_sessions' = NoSessions /\ UNCHANGED <<reaper, left, stop, cv>>
        /\ main = "joining" /\ main' = "leaving"
    BY <1>4 DEF Join
  <2>2. DOMAIN NoSessions = {} /\ Range(NoSessions) = {}
    <3>1. DOMAIN NoSessions = {}
      BY DEF NoSessions
    <3> QED
      BY <3>1 DEF Range
  <2> QED
    BY <1>1, <2>1, <2>2 DEF ReaperTypeOK, AgesOK, ProcessOK, Stopping
<1>5. CASE ShutDown
  <2>1. CASE main = "bind failed" /\ main' = "stop requested" /\ RequestStop
    BY <1>1, <2>1 DEF RequestStop, ReaperTypeOK, AgesOK, ProcessOK, Stopping, Range
  <2>2. CASE main = "stop requested" /\ main' = "notified" /\ NotifyAll
    BY <1>1, <2>2 DEF NotifyAll, ReaperTypeOK, AgesOK, ProcessOK, Stopping, Range, Places
  <2>3. CASE main = "notified" /\ main' = "joining" /\ DestroyCv
    BY <1>1, <2>3 DEF DestroyCv, ReaperTypeOK, AgesOK, ProcessOK, Stopping, Range
  <2> QED
    BY <1>5, <2>1, <2>2, <2>3 DEF ShutDown
<1>6. CASE ReaperRuns
  <2>1. ReaperTypeOK' /\ AgesOK'
    BY <1>1, <1>6, ReaperStepOK DEF ReaperRuns
  <2>2. /\ reaper = "none" <=> reaper' = "none"
        /\ stop' = stop /\ main' = main
        /\ reaper' = "done" => reaper = "done" \/ stop
        /\ DOMAIN mp_sessions' \subseteq DOMAIN mp_sessions
    BY <1>6 DEF ReaperRuns, ReaperSteps, Rest, FallAsleep, WakeUp, TimedOut,
                WakeSpuriously, Sweep, Tick, Restrict
  <2> QED
    BY <1>1, <2>1, <2>2 DEF ProcessOK
<1>7. CASE RunGoesOn \/ RunAnswered
  <2>1. job # NoJob
    BY <1>7 DEF RunGoesOn, RunAnswered, NoJob, WriteSource, WriteInput, Compile,
                CannotOpen, CompileFails, Ends
  <2>2. main = "running"
    BY <1>1, <2>1 DEF IdleOK
  <2> QED
    BY <1>2, <1>7, <2>2 DEF RunGoesOn, RunAnswered, reaperVars
<1>8. ASSUME NEW u \in Users, Open(u) PROVE ReaperTypeOK' /\ AgesOK' /\ ProcessOK'
  <2>1. main = "serving" /\ main' = main /\ UNCHANGED <<reaper, left, stop, cv>>
        /\ CreateSession(session)
    BY <1>8 DEF Open
  <2>2. reaper # "none"
    BY <1>1, <2>1 DEF ProcessOK
  <2>3. ReaperTypeOK' /\ AgesOK'
    BY <1>1, <2>1, <2>2, CreateOK, ServerAssumption
  <2> QED
    BY <1>1, <2>1, <2>3 DEF ProcessOK, Stopping
<1>9. ASSUME NEW u \in Users,
             \/ Close(u) \/ TreeRequest(u) \/ FileCreate(u) \/ FileDelete(u) \/ RunBegins(u)
             \/ Receive(u)
             \/ \E m \in Requests \ {[type |-> "TREE_REQUEST"]} : Send(u, m)
      PROVE  ReaperTypeOK' /\ AgesOK' /\ ProcessOK'
  BY <1>2, <1>9 DEF Close, TreeRequest, FileCreate, FileDelete, RunBegins, Receive, Send,
                    Takes, reaperVars
<1>10. CASE StraysGoOn
  BY <1>2, <1>10 DEF StraysGoOn, reaperVars
<1> QED
  BY <1>3, <1>4, <1>5, <1>6, <1>7, <1>8, <1>9, <1>10, NextCases

\* A call ends before anything else is handled.
LEMMA IdleStep ==
  ASSUME IInv, Next
  PROVE  IdleOK'
<1>1. IdleOK
  BY DEF IInv
<1>2. ASSUME UNCHANGED <<main, job>> PROVE IdleOK'
  BY <1>1, <1>2 DEF IdleOK
<1>3. CASE Gone \/ RunAnswered
  BY <1>3 DEF Gone, RunAnswered, CannotOpen, CompileFails, Ends, IdleOK
<1>4. CASE Start \/ ShutDown \/ Join
  BY <1>1, <1>4 DEF Start, ShutDown, Join, poolVars, IdleOK
<1>5. CASE RunGoesOn
  <2>1. job # NoJob
    BY <1>5 DEF RunGoesOn, NoJob, WriteSource, WriteInput, Compile
  <2> QED
    BY <1>1, <1>5, <2>1 DEF RunGoesOn, IdleOK
<1>6. CASE ReaperRuns \/ StraysGoOn
  BY <1>2, <1>6 DEF ReaperRuns, StraysGoOn, StrayReads, StrayEnds, poolVars
<1>7. ASSUME NEW u \in Users,
             \/ Open(u) \/ Close(u) \/ TreeRequest(u) \/ FileCreate(u) \/ FileDelete(u)
             \/ Receive(u)
             \/ \E m \in Requests \ {[type |-> "TREE_REQUEST"]} : Send(u, m)
      PROVE  IdleOK'
  BY <1>2, <1>7 DEF Open, Close, TreeRequest, FileCreate, FileDelete, Receive, Send, poolVars
<1>8. ASSUME NEW u \in Users, RunBegins(u) PROVE IdleOK'
  BY <1>8 DEF RunBegins, IdleOK
<1> QED
  BY <1>3, <1>4, <1>5, <1>6, <1>7, <1>8, NextCases

\* The files of the program runs.
LEMMA PoolStep ==
  ASSUME IInv, Next
  PROVE  PoolTypeOK' /\ RunOK'
<1>1. PoolTypeOK /\ RunOK /\ IdleOK
  BY DEF IInv, TypeOK
<1>2. ASSUME UNCHANGED <<admin_temp, input_in, a_out, strays, job, overtaken>>
      PROVE  PoolTypeOK' /\ RunOK'
  BY <1>1, <1>2 DEF PoolTypeOK, RunOK
<1>3. ASSUME UNCHANGED <<admin_temp, input_in, a_out>>, job' = NoJob,
             strays' \in [Users \cup {NoUser} -> Nat]
      PROVE  PoolTypeOK' /\ RunOK'
  BY <1>1, <1>3 DEF PoolTypeOK, RunOK, NoJob
<1>4. CASE RunGoesOn \/ RunAnswered
  BY <1>1, <1>4, PoolStepOK DEF RunGoesOn, RunAnswered, tabs
<1>5. ASSUME NEW u \in Users, RunBegins(u) PROVE PoolTypeOK' /\ RunOK'
  BY <1>1, <1>5, PoolStepOK DEF RunBegins, Takes
<1>6. CASE Start \/ ShutDown \/ Join \/ ReaperRuns
  BY <1>2, <1>6 DEF Start, ShutDown, Join, ReaperRuns, poolVars, poolFiles, tabs
<1>7. CASE Gone /\ LeavesCompiler
  <2>1. UNCHANGED <<admin_temp, input_in, a_out>> /\ job' = NoJob
    BY <1>7 DEF Gone, poolFiles
  <2>2. strays \in [Users \cup {NoUser} -> Nat] /\ admin_temp \in Users \cup {NoUser}
    BY <1>1 DEF PoolTypeOK
  <2>3. strays' \in [Users \cup {NoUser} -> Nat]
    BY <1>7, <2>2 DEF LeavesCompiler
  <2> QED
    BY <1>3, <2>1, <2>3
<1>8. CASE StraysGoOn
  BY <1>1, <1>8, StraysOK
<1>9. ASSUME NEW u \in Users,
             \/ Open(u) \/ TreeRequest(u) \/ FileCreate(u) \/ FileDelete(u)
             \/ Receive(u)
             \/ \E m \in Requests \ {[type |-> "TREE_REQUEST"]} : Send(u, m)
      PROVE  PoolTypeOK' /\ RunOK'
  BY <1>2, <1>9 DEF Open, TreeRequest, FileCreate, FileDelete, Receive, Send, Takes,
                    poolVars, poolFiles
<1>10. ASSUME NEW u \in Users, Close(u) PROVE PoolTypeOK' /\ RunOK'
  <2>1. UNCHANGED <<admin_temp, input_in, a_out, strays, job>> /\ job = NoJob
    BY <1>1, <1>10 DEF Close, IdleOK, poolVars, poolFiles
  <2> QED
    BY <1>1, <2>1 DEF PoolTypeOK, RunOK, NoJob
<1> QED
  BY <1>4, <1>5, <1>6, <1>7, <1>8, <1>9, <1>10, NextCases

\* The workspace.
LEMMA WorkspaceStep ==
  ASSUME IInv, Next
  PROVE  WorkspaceTypeOK'
<1>1. WorkspaceTypeOK
  BY DEF IInv, TypeOK
<1>2. ASSUME UNCHANGED workspace PROVE WorkspaceTypeOK'
  BY <1>1, <1>2 DEF workspace, WorkspaceTypeOK, Existing
<1>3. ASSUME NEW u \in Users, FileCreate(u) PROVE WorkspaceTypeOK'
  <2> DEFINE n == Head(up[u]).name
  <2>1. n.path \in Nodes /\ n.slash \in BOOLEAN
    BY <1>3, Taken, FromTab DEF FileCreate, IInv
  <2> QED
    BY <1>1, <1>3, <2>1, WorkspaceStepOK DEF FileCreate
<1>4. ASSUME NEW u \in Users, FileDelete(u) PROVE WorkspaceTypeOK'
  <2>1. Head(up[u]).path \in Nodes
    BY <1>4, Taken, FromTab DEF FileDelete, IInv
  <2>2. FALSE \in BOOLEAN
    OBVIOUS
  <2> QED
    BY <1>1, <1>4, <2>1, <2>2, WorkspaceStepOK DEF FileDelete
<1>5. CASE Start \/ (Gone /\ UNCHANGED workspace) \/ ShutDown \/ Join \/ ReaperRuns
           \/ RunGoesOn \/ RunAnswered \/ StraysGoOn
  BY <1>2, <1>5 DEF Start, ShutDown, Join, ReaperRuns, RunGoesOn, RunAnswered, StraysGoOn
<1>6. ASSUME NEW u \in Users,
             \/ Open(u) \/ Close(u) \/ TreeRequest(u) \/ RunBegins(u) \/ Receive(u)
             \/ \E m \in Requests \ {[type |-> "TREE_REQUEST"]} : Send(u, m)
      PROVE  WorkspaceTypeOK'
  BY <1>2, <1>6 DEF Open, Close, TreeRequest, RunBegins, Receive, Send
<1> QED
  BY <1>3, <1>4, <1>5, <1>6, NextCases

\* The answer that a run gives: an output printed for the user, or none.
LEMMA RunAnswer ==
  ASSUME IInv, RunAnswered
  PROVE  /\ job.user \in Users
         /\ \E out : /\ OwnOutput(job.user, out, job.user \in overtaken)
                     /\ RunOutput(out) \in ToTab
                     /\ Sent({job.user}, RunOutput(out))
<1>1. PoolTypeOK /\ RunOK
  BY DEF IInv, TypeOK
<1>2. job.at # "none"
  BY DEF RunAnswered, CannotOpen, CompileFails, Ends
<1>3. job.user \in Users
  BY <1>1, <1>2 DEF PoolTypeOK, NoJob
<1>4. \E out : /\ OwnOutput(job.user, out, job.user \in overtaken)
               /\ out \in Outputs \cup {ErrorText}
               /\ Sent({job.user}, RunOutput(out))
  <2>1. OwnOutput(job.user, ErrorText, job.user \in overtaken)
    BY DEF OwnOutput
  <2>2. CASE Sent({job.user}, RunOutput(ErrorText))
    BY <2>1, <2>2
  <2>3. CASE Ends /\ \E out \in {Output, ErrorText} : Sent({job.user}, RunOutput(out))
    BY <1>1, <2>1, <2>3, OutputOwn
  <2> QED
    BY <2>2, <2>3 DEF RunAnswered
<1> QED
  BY <1>3, <1>4, RunOutputTyped

\* How the handlers tell the tabs.
LEMMA Telling ==
  ASSUME IInv, Next, NEW u \in Users, FileCreate(u) \/ FileDelete(u)
  PROVE  /\ Shown(folders', files') \in ToTab
         /\ \/ Sent(connected, Shown(folders', files')) /\ outdated' = {}
            \/ /\ outdated' = IF workspace' = workspace THEN outdated ELSE connected
               /\ UNCHANGED down
<1>1. WorkspaceTypeOK'
  BY WorkspaceStep
<1>2. Shown(folders', files') \in ToTab
  BY <1>1, ShownTyped DEF WorkspaceTypeOK
<1>3. Announced \/ Unannounced
  BY DEF FileCreate, FileDelete
<1> QED
  BY <1>2, <1>3 DEF Announced, Unannounced, TreeSync, Tree, Shown

\* The channels to the tabs.
LEMMA DownCases ==
  ASSUME IInv, Next
  PROVE  \/ UNCHANGED down
         \/ \E S : \E m \in ToTab : m.type = "TREE_SYNC" /\ Sent(S, m)
         \/ RunAnswered
         \/ \E u \in Users : down[u] # <<>> /\ down' = [down EXCEPT ![u] = Tail(@)]
         \/ \E u \in Users : down' = [down EXCEPT ![u] = <<>>]
         \/ down' = [u \in Users |-> <<>>]
<1>1. CASE Start \/ ShutDown \/ Join \/ ReaperRuns \/ RunGoesOn \/ StraysGoOn
  BY <1>1 DEF Start, ShutDown, Join, ReaperRuns, RunGoesOn, StraysGoOn, tabs
<1>2. CASE Gone
  BY <1>2 DEF Gone
<1>3. ASSUME NEW u \in Users, TreeRequest(u)
      PROVE  \E m \in ToTab : m.type = "TREE_SYNC" /\ Sent({u}, m)
  <2>1. WorkspaceTypeOK
    BY DEF IInv, TypeOK
  <2>2. Shown(folders, files) \in ToTab /\ Shown(folders, files).type = "TREE_SYNC"
    BY <2>1, ShownTyped DEF WorkspaceTypeOK
  <2> QED
    BY <1>3, <2>2 DEF TreeRequest, TreeSync, Tree, Shown
<1>4. ASSUME NEW u \in Users, FileCreate(u) \/ FileDelete(u)
      PROVE  \/ UNCHANGED down
             \/ \E m \in ToTab : m.type = "TREE_SYNC" /\ Sent(connected, m)
  BY <1>4, Telling DEF Shown
<1>5. ASSUME NEW u \in Users,
             \/ Open(u) \/ RunBegins(u)
             \/ \E m \in Requests \ {[type |-> "TREE_REQUEST"]} : Send(u, m)
      PROVE  UNCHANGED down
  BY <1>5 DEF Open, RunBegins, Send
<1>6. ASSUME NEW u \in Users, Close(u) PROVE down' = [down EXCEPT ![u] = <<>>]
  BY <1>6 DEF Close
<1>7. ASSUME NEW u \in Users, Receive(u)
      PROVE  down[u] # <<>> /\ down' = [down EXCEPT ![u] = Tail(@)]
  BY <1>7 DEF Receive
<1> QED
  BY <1>1, <1>2, <1>3, <1>4, <1>5, <1>6, <1>7, NextCases

\* Connections, channels and trees keep their types.
LEMMA TabsStep ==
  ASSUME IInv, Next
  PROVE  TabsOK'
<1>1. TabsOK
  BY DEF IInv, TypeOK, TabsOK
<1>2. down' \in [Users -> Seq(ToTab)]
  <2>1. ASSUME NEW u \in Users, down[u] # <<>> PROVE Tail(down[u]) \in Seq(ToTab)
    BY <1>1, <2>1 DEF TabsOK
  <2>2. ASSUME NEW S, NEW m \in ToTab, Sent(S, m) PROVE down' \in [Users -> Seq(ToTab)]
    BY <1>1, <2>2, SentFacts DEF TabsOK
  <2>3. CASE RunAnswered
    BY <2>2, <2>3, RunAnswer
  <2> QED
    BY <1>1, <2>1, <2>2, <2>3, DownCases, RequestsTyped DEF TabsOK
<1>3. CASE Start \/ ShutDown \/ Join \/ ReaperRuns \/ RunGoesOn \/ RunAnswered
  BY <1>1, <1>2, <1>3 DEF Start, ShutDown, Join, ReaperRuns, RunGoesOn, RunAnswered, tabs, TabsOK
<1>4. CASE Gone
  BY <1>2, <1>4, RequestsTyped DEF Gone, TabsOK
<1>5. ASSUME NEW u \in Users, Open(u) PROVE TabsOK'
  BY <1>1, <1>2, <1>5, RequestsTyped DEF Open, TabsOK
<1>6. ASSUME NEW u \in Users, Close(u) PROVE TabsOK'
  BY <1>1, <1>2, <1>6, RequestsTyped DEF Close, TabsOK
<1>7. ASSUME NEW u \in Users,
             \/ TreeRequest(u) /\ outdated' = outdated \ {u}
             \/ RunBegins(u) /\ outdated' = outdated
             \/ (FileCreate(u) \/ FileDelete(u)) /\ outdated' \in {{}, outdated, connected}
      PROVE  TabsOK'
  <2>1. /\ up' \in [Users -> Seq(Requests)]
        /\ connected' = connected /\ fileTree' = fileTree /\ overtaken' = overtaken
    BY <1>7, Taken DEF TreeRequest, RunBegins, FileCreate, FileDelete, IInv
  <2> QED
    BY <1>1, <1>2, <1>7, <2>1 DEF TabsOK
<1>8. ASSUME NEW u \in Users, FileCreate(u) \/ FileDelete(u)
      PROVE  outdated' \in {{}, outdated, connected}
  BY <1>8, Telling
<1>9. ASSUME NEW u \in Users, Receive(u) PROVE TabsOK'
  BY <1>1, <1>2, <1>9 DEF Receive, TabsOK
<1>10. ASSUME NEW u \in Users, NEW m \in Requests, Send(u, m) PROVE TabsOK'
  <2>1. Append(up[u], m) \in Seq(Requests)
    BY <1>1 DEF TabsOK
  <2> QED
    BY <1>1, <1>2, <1>10, <2>1 DEF Send, TabsOK
<1>11. ASSUME NEW u \in Users, TreeRequest(u) \/ RunBegins(u) PROVE TabsOK'
  BY <1>7, <1>11 DEF TreeRequest, RunBegins
<1>12. CASE StraysGoOn
  <2>1. PoolTypeOK
    BY DEF IInv, TypeOK
  <2>2. job.at = "run" => job.user \in Users
    BY <2>1 DEF PoolTypeOK, NoJob
  <2> QED
    BY <1>1, <1>12, <2>2 DEF StraysGoOn, TabsOK
<1> QED
  BY <1>3, <1>4, <1>5, <1>6, <1>7, <1>8, <1>9, <1>10, <1>11, <1>12, NextCases

\* The places of main, and the inputs.
LEMMA MainStep ==
  ASSUME IInv, Next
  PROVE  /\ main' \in {"down", "serving", "running", "bind failed", "stop requested",
                        "notified", "joining", "leaving"}
         /\ inputs' \in 0..MaxInputs
<1>1. /\ main \in {"down", "serving", "running", "bind failed", "stop requested",
                   "notified", "joining", "leaving"}
      /\ inputs \in 0..MaxInputs
  BY DEF IInv, TypeOK
<1>2. CASE Start \/ Gone \/ ShutDown \/ Join \/ ReaperRuns \/ RunGoesOn \/ RunAnswered
           \/ StraysGoOn
  BY <1>1, <1>2 DEF Start, Gone, ShutDown, Join, ReaperRuns, RunGoesOn, RunAnswered, StraysGoOn
<1>3. ASSUME NEW u \in Users,
             \/ Open(u) \/ Close(u) \/ Receive(u)
             \/ TreeRequest(u) \/ FileCreate(u) \/ FileDelete(u) \/ RunBegins(u)
      PROVE  /\ main' \in {main, "running"}
             /\ inputs' = inputs
  BY <1>3 DEF Open, Close, Receive, TreeRequest, FileCreate, FileDelete, RunBegins, Takes
<1>4. ASSUME NEW u \in Users, NEW m \in Requests, Send(u, m)
      PROVE  main' = main /\ inputs' \in 0..MaxInputs
  <2>1. inputs < MaxInputs /\ inputs' = inputs + 1 /\ main' = main
    BY <1>4 DEF Send
  <2>2. inputs \in 0..MaxInputs /\ MaxInputs \in Nat
    BY <1>1, ServerAssumption
  <2>3. inputs + 1 \in 0..MaxInputs
    BY <2>1, <2>2
  <2> QED
    BY <2>1, <2>3
<1> QED
  BY <1>1, <1>2, <1>3, <1>4, NextCases

\* The channel ms holds no output but what u may be answered.
Own(ms, u, late) ==
  \A i \in DOMAIN ms : ms[i].type = "RUN_OUTPUT" => OwnOutput(u, ms[i].data, late)

LEMMA OwnWithMore ==
  ASSUME NEW u, NEW late \in BOOLEAN, NEW ms \in Seq(ToTab), Own(ms, u, late),
         NEW m \in ToTab, m.type = "RUN_OUTPUT" => OwnOutput(u, m.data, late)
  PROVE  Own(Append(ms, m), u, late)
<1> DEFINE ns == Append(ms, m)
<1>1. /\ DOMAIN ns = 1..Len(ms) + 1
      /\ DOMAIN ms = 1..Len(ms)
      /\ Len(ms) \in Nat
      /\ ns[Len(ms) + 1] = m
      /\ \A i \in DOMAIN ms : ns[i] = ms[i]
  OBVIOUS
<1> HIDE DEF ns
<1>2. \A i \in DOMAIN ns : i \in DOMAIN ms \/ i = Len(ms) + 1
  BY <1>1
<1> QED
  BY <1>1, <1>2 DEF Own, ns

LEMMA OwnWithLess ==
  ASSUME NEW u, NEW late \in BOOLEAN, NEW ms \in Seq(ToTab), ms # <<>>, Own(ms, u, late)
  PROVE  Own(Tail(ms), u, late)
<1> DEFINE ns == Tail(ms)
<1>1. \A i \in DOMAIN ns : i + 1 \in DOMAIN ms /\ ns[i] = ms[i + 1]
  OBVIOUS
<1> HIDE DEF ns
<1> QED
  BY <1>1 DEF Own, ns

\* A tab stays among the overtaken until it is closed.
LEMMA OvertakenCases ==
  ASSUME IInv, Next
  PROVE  \A v \in overtaken : v \in overtaken' \/ down'[v] = <<>>
<1>1. down \in [Users -> Seq(ToTab)] /\ overtaken \subseteq Users
  BY DEF IInv, TypeOK
<1>2. CASE Start \/ ShutDown \/ Join \/ ReaperRuns \/ RunGoesOn \/ RunAnswered
  BY <1>2 DEF Start, ShutDown, Join, ReaperRuns, RunGoesOn, RunAnswered, tabs
<1>3. CASE StraysGoOn
  BY <1>3 DEF StraysGoOn
<1>4. CASE Gone
  BY <1>1, <1>4 DEF Gone
<1>5. ASSUME NEW u \in Users, Close(u)
      PROVE  \A v \in overtaken : v \in overtaken' \/ down'[v] = <<>>
  BY <1>1, <1>5 DEF Close
<1>6. ASSUME NEW u \in Users,
             \/ Open(u) \/ TreeRequest(u) \/ FileCreate(u) \/ FileDelete(u)
             \/ RunBegins(u) \/ Receive(u)
             \/ \E m \in Requests \ {[type |-> "TREE_REQUEST"]} : Send(u, m)
      PROVE  overtaken' = overtaken
  BY <1>6 DEF Open, TreeRequest, FileCreate, FileDelete, RunBegins, Receive, Send, Takes
<1> QED
  BY <1>2, <1>3, <1>4, <1>5, <1>6, NextCases

\* Nobody is sent the output of another's program, unless it was overtaken.
LEMMA AnswersStep ==
  ASSUME IInv, Next
  PROVE  AnswersOwnProgram'
<1>1. /\ down \in [Users -> Seq(ToTab)]
      /\ \A u \in Users : Own(down[u], u, u \in overtaken)
  BY DEF IInv, TypeOK, AnswersOwnProgram, PrintedFor, Own, OwnOutput
<1> SUFFICES ASSUME NEW v \in Users PROVE Own(down'[v], v, v \in overtaken')
  BY DEF AnswersOwnProgram, PrintedFor, Own, OwnOutput
<1> DEFINE late == v \in overtaken
<1>2. Own(<<>>, v, late) /\ Own(<<>>, v, v \in overtaken')
  BY DEF Own
<1>3. late \in BOOLEAN
  OBVIOUS
<1>4. Own(down'[v], v, late)
  <2>1. CASE UNCHANGED down
    BY <1>1, <2>1
  <2>2. ASSUME NEW S, NEW m \in ToTab, m.type = "TREE_SYNC", Sent(S, m)
        PROVE  Own(down'[v], v, late)
    <3>1. down'[v] = IF v \in S THEN Append(down[v], m) ELSE down[v]
      BY <1>1, <2>2, SentFacts
    <3>2. m.type # "RUN_OUTPUT"
      BY <2>2
    <3>3. Own(Append(down[v], m), v, late)
      BY <1>1, <1>3, <2>2, <3>2, OwnWithMore
    <3> QED
      BY <1>1, <3>1, <3>3
  <2>3. CASE RunAnswered
    <3>1. PICK out : /\ OwnOutput(job.user, out, job.user \in overtaken)
                     /\ RunOutput(out) \in ToTab
                     /\ Sent({job.user}, RunOutput(out))
      BY <2>3, RunAnswer
    <3>2. down'[v] = IF v \in {job.user} THEN Append(down[v], RunOutput(out)) ELSE down[v]
      BY <1>1, <3>1, SentFacts
    <3>3. CASE v = job.user
      <4>1. OwnOutput(v, RunOutput(out).data, late)
        BY <3>1, <3>3 DEF RunOutput
      <4>2. Own(Append(down[v], RunOutput(out)), v, late)
        BY <1>1, <1>3, <3>1, <4>1, OwnWithMore
      <4> QED
        BY <3>2, <3>3, <4>2
    <3>4. CASE v # job.user
      BY <1>1, <3>2, <3>4
    <3> QED
      BY <3>3, <3>4
  <2>4. ASSUME NEW u \in Users, down[u] # <<>>, down' = [down EXCEPT ![u] = Tail(@)]
        PROVE  Own(down'[v], v, late)
    <3>1. down'[v] = IF v = u THEN Tail(down[v]) ELSE down[v]
      BY <1>1, <2>4
    <3>2. v = u => Own(Tail(down[v]), v, late)
      BY <1>1, <1>3, <2>4, OwnWithLess
    <3> QED
      BY <1>1, <3>1, <3>2
  <2>5. ASSUME NEW u \in Users, down' = [down EXCEPT ![u] = <<>>]
        PROVE  Own(down'[v], v, late)
    BY <1>1, <1>2, <2>5
  <2>6. CASE down' = [u \in Users |-> <<>>]
    BY <1>2, <2>6
  <2> QED
    BY <2>1, <2>2, <2>3, <2>4, <2>5, <2>6, DownCases
<1>5. late => v \in overtaken' \/ down'[v] = <<>>
  BY OvertakenCases
<1> QED
  BY <1>2, <1>4, <1>5 DEF Own, OwnOutput

\* No TREE_REQUEST is among the requests ms: Answered(u) is NoneAsked(up[u]).
NoneAsked(ms) == \A i \in DOMAIN ms : ms[i].type # "TREE_REQUEST"

LEMMA AskedWithLess ==
  ASSUME NEW ms \in Seq(Requests), ms # <<>>, Head(ms).type # "TREE_REQUEST",
         NoneAsked(Tail(ms))
  PROVE  NoneAsked(ms)
<1> DEFINE ns == Tail(ms)
<1>1. \A i \in DOMAIN ms : i = 1 \/ (i - 1 \in DOMAIN ns /\ ns[i - 1] = ms[i])
  OBVIOUS
<1>2. Head(ms) = ms[1]
  OBVIOUS
<1> HIDE DEF ns
<1>3. \A i \in DOMAIN ns : ns[i].type # "TREE_REQUEST"
  BY DEF NoneAsked, ns
<1> QED
  BY <1>1, <1>2, <1>3 DEF NoneAsked

LEMMA AskedWithMore ==
  ASSUME NEW ms \in Seq(Requests), NEW m \in Requests, NoneAsked(Append(ms, m))
  PROVE  NoneAsked(ms)
<1> DEFINE ns == Append(ms, m)
<1>1. \A i \in DOMAIN ms : i \in DOMAIN ns /\ ns[i] = ms[i]
  OBVIOUS
<1> HIDE DEF ns
<1>2. \A i \in DOMAIN ns : ns[i].type # "TREE_REQUEST"
  BY DEF NoneAsked, ns
<1> QED
  BY <1>1, <1>2 DEF NoneAsked

\* As TreeViewsConverge says it of the tab v.
ViewOK(v) ==
  v \in connected \ outdated /\ NoneAsked(up[v]) => ComesToShow(down[v], fileTree[v], Tree)

LEMMA Views == TreeViewsConverge <=> \A v \in connected : ViewOK(v)
BY DEF TreeViewsConverge, ViewOK, NoneAsked, Answered

\* A step that changes neither the workspace nor what a tab is sent and shows
\* leaves it what it comes to show.
LEMMA ViewStays ==
  ASSUME IInv, NEW v \in connected,
         UNCHANGED workspace, down'[v] = down[v], fileTree'[v] = fileTree[v],
         v \in outdated => v \in outdated',
         NoneAsked(up'[v]) => NoneAsked(up[v])
  PROVE  ViewOK(v)'
<1>1. ViewOK(v)
  BY Views DEF IInv
<1>2. Tree' = Tree
  BY DEF Tree, workspace
<1>3. CASE v \in connected' \ outdated' /\ NoneAsked(up'[v])
  <2>1. ComesToShow(down[v], fileTree[v], Tree)
    BY <1>1, <1>3 DEF ViewOK
  <2> QED
    BY <1>2, <2>1 DEF ViewOK
<1>4. CASE ~(v \in connected' \ outdated' /\ NoneAsked(up'[v]))
  BY <1>4 DEF ViewOK
<1> QED
  BY <1>3, <1>4

\* A tab that is sent the tree as it is now comes to show it.
LEMMA ViewTold ==
  ASSUME IInv, NEW v \in Users, NEW m \in ToTab, m.type = "TREE_SYNC", m.tree = Tree',
         down'[v] = Append(down[v], m)
  PROVE  ViewOK(v)'
<1>1. down[v] \in Seq(ToTab)
  BY DEF IInv, TypeOK
<1>2. ComesToShow(Append(down[v], m), fileTree'[v], Tree')
  BY <1>1, ShowsWhenTold
<1>3. ComesToShow(down'[v], fileTree'[v], Tree')
  BY <1>2
<1> QED
  BY <1>3 DEF ViewOK

\* Whatever a tab does or fails to do, the tabs come to show the workspace.
LEMMA ViewsStep ==
  ASSUME IInv, Next
  PROVE  TreeViewsConverge'
<1>1. /\ connected \subseteq Users /\ DOMAIN fileTree = Users
      /\ up \in [Users -> Seq(Requests)] /\ down \in [Users -> Seq(ToTab)]
      /\ outdated \subseteq connected
      /\ \A v \in connected : ViewOK(v)
  BY Views DEF IInv, TypeOK
<1>2. ASSUME \A v \in connected' : ViewOK(v)' PROVE TreeViewsConverge'
  BY <1>2 DEF TreeViewsConverge, ViewOK, NoneAsked, Answered
<1> SUFFICES ASSUME NEW v \in connected' PROVE ViewOK(v)'
  BY <1>2
<1>3. CASE Start \/ ShutDown \/ Join \/ ReaperRuns \/ RunGoesOn \/ StraysGoOn
  BY <1>3, ViewStays DEF Start, ShutDown, Join, ReaperRuns, RunGoesOn, StraysGoOn, tabs
<1>4. CASE Gone
  BY <1>4 DEF Gone
<1>5. CASE RunAnswered
  <2>1. UNCHANGED <<workspace, connected, up, fileTree, outdated>>
    BY <1>5 DEF RunAnswered
  <2>2. PICK out : RunOutput(out) \in ToTab /\ Sent({job.user}, RunOutput(out))
    BY <1>5, RunAnswer
  <2>3. v \in Users /\ v \in connected
    BY <1>1, <2>1
  <2>4. down'[v] = IF v = job.user THEN Append(down[v], RunOutput(out)) ELSE down[v]
    BY <1>1, <2>2, <2>3, SentFacts
  <2>5. CASE v # job.user
    BY <2>1, <2>3, <2>4, <2>5, ViewStays
  <2>6. CASE v = job.user
    <3>1. RunOutput(out).type # "TREE_SYNC"
      BY DEF RunOutput
    <3>2. ASSUME ComesToShow(down[v], fileTree[v], Tree)
          PROVE  ComesToShow(down'[v], fileTree'[v], Tree')
      <4>1. Tree' = Tree /\ fileTree' = fileTree
        BY <2>1 DEF Tree, workspace
      <4> QED
        BY <1>1, <2>2, <2>3, <2>4, <2>6, <3>1, <3>2, <4>1, ShowsWithMore
    <3>3. v \in connected' \ outdated' /\ NoneAsked(up'[v])
            => v \in connected \ outdated /\ NoneAsked(up[v])
      BY <2>1
    <3>4. ViewOK(v)
      BY <1>1, <2>3
    <3> QED
      BY <3>2, <3>3, <3>4 DEF ViewOK
  <2> QED
    BY <2>5, <2>6
<1>6. ASSUME NEW u \in Users, Open(u) PROVE ViewOK(v)'
  <2>1. CASE v = u
    <3>1. up'[v] = <<[type |-> "TREE_REQUEST"]>>
      BY <1>1, <1>6, <2>1 DEF Open
    <3>2. 1 \in DOMAIN up'[v] /\ up'[v][1].type = "TREE_REQUEST"
      BY <3>1
    <3> QED
      BY <3>2 DEF ViewOK, NoneAsked
  <2>2. CASE v # u
    BY <1>1, <1>6, <2>2, ViewStays DEF Open
  <2> QED
    BY <2>1, <2>2
<1>7. ASSUME NEW u \in Users, Close(u) PROVE ViewOK(v)'
  <2>1. v \in connected /\ v # u /\ v \in Users
    BY <1>1, <1>7 DEF Close
  <2>2. up'[v] = up[v] /\ down'[v] = down[v] /\ fileTree'[v] = fileTree[v]
    BY <1>1, <1>7, <2>1 DEF Close
  <2> QED
    BY <1>7, <2>1, <2>2, ViewStays DEF Close
<1>8. ASSUME NEW u \in Users, NEW type, Takes(u, type), type # "TREE_REQUEST"
      PROVE  /\ v \in connected /\ v \in Users /\ fileTree' = fileTree
             /\ NoneAsked(up'[v]) => NoneAsked(up[v])
  <2>1. /\ up[u] # <<>> /\ Head(up[u]).type = type /\ up' = [up EXCEPT ![u] = Tail(@)]
        /\ connected' = connected /\ fileTree' = fileTree
    BY <1>8, Taken DEF IInv
  <2>2. v \in connected /\ v \in Users
    BY <1>1, <2>1
  <2>3. up'[v] = IF v = u THEN Tail(up[v]) ELSE up[v]
    BY <1>1, <2>1, <2>2
  <2>4. up[v] \in Seq(Requests)
    BY <1>1, <2>2
  <2>5. NoneAsked(up'[v]) => NoneAsked(up[v])
    BY <1>8, <2>1, <2>3, <2>4, AskedWithLess
  <2> QED
    BY <2>1, <2>2, <2>5
<1>9. ASSUME NEW u \in Users, TreeRequest(u) PROVE ViewOK(v)'
  <2>1. /\ UNCHANGED <<workspace, connected, fileTree>>
        /\ up' = [up EXCEPT ![u] = Tail(@)]
        /\ outdated' = outdated \ {u}
        /\ Sent({u}, Shown(folders, files))
    BY <1>9, Taken DEF TreeRequest, TreeSync, Tree, Shown, IInv
  <2>2. v \in connected /\ v \in Users
    BY <1>1, <2>1
  <2>3. Shown(folders, files) \in ToTab
    BY ShownTyped DEF IInv, TypeOK, WorkspaceTypeOK
  <2>4. down'[v] = IF v = u THEN Append(down[v], Shown(folders, files)) ELSE down[v]
    BY <1>1, <2>1, <2>2, <2>3, SentFacts
  <2>5. CASE v = u
    <3>1. /\ Shown(folders, files).tree = Tree'
          /\ Shown(folders, files).type = "TREE_SYNC"
      BY <2>1 DEF Shown, Tree, workspace
    <3> QED
      BY <2>2, <2>3, <2>4, <2>5, <3>1, ViewTold
  <2>6. CASE v # u
    <3>1. up'[v] = up[v]
      BY <1>1, <2>1, <2>2, <2>6
    <3> QED
      BY <2>1, <2>2, <2>4, <2>6, <3>1, ViewStays
  <2> QED
    BY <2>5, <2>6
<1>10. ASSUME NEW u \in Users, FileCreate(u) \/ FileDelete(u) PROVE ViewOK(v)'
  <2>1. /\ v \in connected /\ v \in Users /\ fileTree' = fileTree
        /\ NoneAsked(up'[v]) => NoneAsked(up[v])
    BY <1>8, <1>10 DEF FileCreate, FileDelete
  <2>2. CASE Sent(connected, Shown(folders', files'))
    <3>1. Shown(folders', files') \in ToTab
      BY <1>10, Telling
    <3>2. down'[v] = Append(down[v], Shown(folders', files'))
      BY <1>1, <2>1, <2>2, <3>1, SentFacts
    <3>3. /\ Shown(folders', files').tree = Tree'
          /\ Shown(folders', files').type = "TREE_SYNC"
      BY DEF Shown, Tree
    <3> QED
      BY <2>1, <3>1, <3>2, <3>3, ViewTold
  <2>3. CASE workspace' = workspace /\ outdated' = outdated /\ UNCHANGED down
    BY <2>1, <2>3, ViewStays
  <2>4. CASE outdated' = connected
    BY <2>1, <2>4 DEF ViewOK
  <2> QED
    BY <1>10, <2>2, <2>3, <2>4, Telling
<1>11. ASSUME NEW u \in Users, RunBegins(u) PROVE ViewOK(v)'
  <2>1. /\ v \in connected /\ v \in Users /\ fileTree' = fileTree
        /\ NoneAsked(up'[v]) => NoneAsked(up[v])
    BY <1>8, <1>11 DEF RunBegins
  <2> QED
    BY <1>11, <2>1, ViewStays DEF RunBegins
<1>12. ASSUME NEW u \in Users, Receive(u) PROVE ViewOK(v)'
  <2>1. /\ UNCHANGED <<workspace, connected, up, outdated>>
        /\ down[u] # <<>> /\ down' = [down EXCEPT ![u] = Tail(@)]
        /\ fileTree' = IF Head(down[u]).type = "TREE_SYNC"
                       THEN [fileTree EXCEPT ![u] = Head(down[u]).tree] ELSE fileTree
    BY <1>12 DEF Receive
  <2>2. v \in connected /\ v \in Users
    BY <1>1, <2>1
  <2>3. CASE v # u
    <3>1. down'[v] = down[v] /\ fileTree'[v] = fileTree[v]
      BY <1>1, <2>1, <2>2, <2>3
    <3> QED
      BY <2>1, <2>2, <3>1, ViewStays
  <2>4. CASE v = u
    <3>1. down'[v] = Tail(down[v])
      BY <1>1, <2>1, <2>2, <2>4
    <3>2. fileTree'[v] = IF Head(down[v]).type = "TREE_SYNC"
                         THEN Head(down[v]).tree ELSE fileTree[v]
      BY <1>1, <2>1, <2>2, <2>4
    <3>3. Tree' = Tree
      BY <2>1 DEF Tree, workspace
    <3>4. ASSUME ComesToShow(down[v], fileTree[v], Tree)
          PROVE  ComesToShow(down'[v], fileTree'[v], Tree')
      BY <1>1, <2>1, <2>2, <2>4, <3>1, <3>2, <3>3, <3>4, ShowsWithLess
    <3>5. v \in connected' \ outdated' /\ NoneAsked(up'[v])
            => v \in connected \ outdated /\ NoneAsked(up[v])
      BY <2>1
    <3>6. ViewOK(v)
      BY <1>1, <2>2
    <3> QED
      BY <3>4, <3>5, <3>6 DEF ViewOK
  <2> QED
    BY <2>3, <2>4
<1>13. ASSUME NEW u \in Users, NEW m \in Requests, Send(u, m) PROVE ViewOK(v)'
  <2>1. /\ UNCHANGED <<workspace, connected, down, fileTree, outdated>>
        /\ up' = [up EXCEPT ![u] = Append(@, m)]
    BY <1>13 DEF Send
  <2>2. v \in connected /\ v \in Users
    BY <1>1, <2>1
  <2>3. up'[v] = IF v = u THEN Append(up[v], m) ELSE up[v]
    BY <1>1, <2>1, <2>2
  <2>4. up[v] \in Seq(Requests)
    BY <1>1, <2>2
  <2>5. NoneAsked(up'[v]) => NoneAsked(up[v])
    BY <2>3, <2>4, AskedWithMore
  <2> QED
    BY <2>1, <2>2, <2>5, ViewStays
<1> QED
  BY <1>3, <1>4, <1>5, <1>6, <1>7, <1>9, <1>10, <1>11, <1>12, <1>13, NextCases

------------------------------------------------------------------------------
(* The theorems *)

LEMMA IInvInit ==
  ASSUME Init
  PROVE  IInv
<1>1. ReaperTypeOK /\ AgesOK /\ ProcessOK /\ IdleOK
  <2>1. DOMAIN NoSessions = {} /\ Range(NoSessions) = {}
    <3>1. DOMAIN NoSessions = {}
      BY DEF NoSessions
    <3> QED
      BY <3>1 DEF Range
  <2>2. 0 \in 0..PerMinute
    BY LimitFacts
  <2>3. ReaperTypeOK
    BY <2>1, <2>2 DEF Init, ReaperInit, ReaperTypeOK, Places
  <2> QED
    BY <2>1, <2>3 DEF Init, ReaperInit, PoolInit, AgesOK, ProcessOK, IdleOK, Stopping
<1>2. PoolTypeOK /\ RunOK
  BY DEF Init, PoolInit, PoolTypeOK, RunOK, NoJob
<1>3. WorkspaceTypeOK
  BY DEF Init, WorkspaceTypeOK, Existing
<1>4. TabsOK
  BY RequestsTyped DEF Init, TabsOK
<1>5. 0 \in 0..MaxInputs
  BY ServerAssumption
<1>6. TypeOK
  BY <1>1, <1>2, <1>3, <1>4, <1>5 DEF Init, TypeOK, TabsOK
<1>7. AnswersOwnProgram
  BY DEF Init, AnswersOwnProgram
<1>8. TreeViewsConverge
  BY DEF Init, TreeViewsConverge
<1> QED
  BY <1>1, <1>2, <1>4, <1>6, <1>7, <1>8 DEF IInv, TabsOK

LEMMA IInvStep ==
  ASSUME IInv, [Next]_vars
  PROVE  IInv'
<1>1. CASE Next
  <2>1. /\ ReaperTypeOK' /\ AgesOK' /\ ProcessOK' /\ IdleOK'
        /\ PoolTypeOK' /\ RunOK' /\ WorkspaceTypeOK' /\ TabsOK'
    BY <1>1, ProcessStep, IdleStep, PoolStep, WorkspaceStep, TabsStep
  <2>2. TypeOK'
    BY <1>1, <2>1, MainStep DEF TypeOK, TabsOK
  <2> QED
    BY <1>1, <2>1, <2>2, AnswersStep, ViewsStep DEF IInv, TabsOK
<1>2. CASE UNCHANGED vars
  <2>1. /\ UNCHANGED <<mp_sessions, reaper, left, stop, cv>>
        /\ UNCHANGED <<admin_temp, input_in, a_out, strays, job, folders, files, main>>
        /\ UNCHANGED <<connected, up, down, fileTree, outdated, overtaken, inputs>>
    BY <1>2 DEF vars, reaperVars, poolVars, poolFiles, workspace, tabs
  <2>2. ReaperTypeOK' /\ AgesOK' /\ ProcessOK' /\ IdleOK'
    BY <2>1 DEF IInv, TypeOK, ReaperTypeOK, AgesOK, ProcessOK, IdleOK, Stopping, Range
  <2>3. PoolTypeOK' /\ RunOK' /\ WorkspaceTypeOK'
    BY <2>1 DEF IInv, TypeOK, PoolTypeOK, RunOK, WorkspaceTypeOK, Existing
  <2>4. TypeOK'
    BY <2>1, <2>2, <2>3 DEF IInv, TypeOK
  <2>5. AnswersOwnProgram' /\ TreeViewsConverge'
    BY <2>1 DEF IInv, AnswersOwnProgram, TreeViewsConverge, Answered, Tree
  <2> QED
    BY <2>1, <2>2, <2>3, <2>4, <2>5 DEF IInv
<1> QED
  BY <1>1, <1>2

LEMMA IInvHolds == Spec => []IInv
BY IInvInit, IInvStep, PTL DEF Spec

\* The server's state is well-formed: in particular all that is in the workspace
\* has folders above it, whatever is created, deleted or deleted in part.
THEOREM ServerTyped == Spec => []TypeOK
BY IInvHolds, PTL DEF IInv

\* Every tab that has been answered its TREE_REQUEST, and is not among those an
\* operation that failed half way left untold, ends up with the workspace as it
\* is: of any number of tabs, and however many messages are on their way.
THEOREM ServerTreeViewsConverge == Spec => []TreeViewsConverge
BY IInvHolds, PTL DEF IInv

\* Whatever a tab is answered was printed for its own input, and by its own program
\* unless the compiler of a killed server ended just before that was loaded:
\* although all programs are compiled and run in the same three files.
THEOREM ServerAnswersOwnProgram == Spec => []AnswersOwnProgram
BY IInvHolds, PTL DEF IInv

\* No session reaches the age of the timeout and two minutes, for any timeout.
THEOREM ServerStaleSessionsGo == Spec => []StaleSessionsGo
<1>1. IInv => StaleSessionsGo
  <2> SUFFICES ASSUME IInv, NEW s \in DOMAIN mp_sessions
               PROVE  mp_sessions[s] < MaxAge
    BY DEF StaleSessionsGo
  <2>1. ReaperTypeOK /\ AgesOK /\ ProcessOK
    BY DEF IInv, TypeOK
  <2>2. mp_sessions[s] \in Nat /\ left \in Nat
    BY <2>1, LimitFacts DEF ReaperTypeOK, Range
  <2>3. reaper \in {"test", "resting", "asleep", "sweep"}
    BY <2>1 DEF ReaperTypeOK, ProcessOK, Places
  <2> QED
    BY <2>1, <2>2, <2>3, LimitFacts DEF AgesOK
<1> QED
  BY <1>1, IInvHolds, PTL
=============================================================================
