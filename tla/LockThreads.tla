---------------------------- MODULE LockThreads ----------------------------
(***************************************************************************)
(* The hierarchical lock manager called by several threads at once, at the *)
(* level of its mutexes.  Each thread makes the calls of one user.         *)
(*                                                                         *)
(* A critical section under one node's rw_mtx, with no other mutex taken   *)
(* inside it, is one step, enabled while the mutex can be had.  A mutex    *)
(* kept while another is taken is held across steps: the target's during   *)
(* the last phase of an acquisition (`writer'), the ancestors' during a    *)
(* walk over the tree and the parent's in a verification (`sharers').      *)
(*                                                                         *)
(* A LockNode is an object <<path, n>>, the n-th one made for its path;    *)
(* <<path, 0>> stands for "not there".  A thread keeps working on the      *)
(* nodes it has reached after they have been pruned.                       *)
(***************************************************************************)
EXTENDS Integers, FiniteSets, SequencesExt

CONSTANTS
  Users,           (* the threads, each with the user it makes calls for   *)
  Admins, NoUser, Segments, Nodes, MaxQueue, MaxUnwind,  (* as in LockTree *)
  Asked,           (* the paths that calls are about                       *)
  Batches,         (* the sorted path lists that batches are asked for     *)
  Operations,      (* the operations that are called                       *)
  MaxCalls,        (* bound on the number of calls                         *)
  MaxMade          (* bound on the number of nodes made for one path       *)

ASSUME ThreadsAssumption == Admins \subseteq Users /\ NoUser \notin Users

ASSUME TrieAssumption ==
  /\ IsFiniteSet(Nodes)
  /\ Nodes \subseteq Seq(Segments)
  /\ \A p \in Nodes : \A k \in 0..Len(p) : SubSeq(p, 1, k) \in Nodes
  /\ <<>> \in Nodes

ASSUME LimitsAssumption ==
  MaxQueue \in Nat /\ MaxUnwind \in Nat \ {0} /\ MaxCalls \in Nat /\ MaxMade \in Nat

ASSUME CallsAssumption ==
  /\ Asked \subseteq Nodes \ {<<>>}
  /\ Batches \subseteq Seq(Asked) \ {<<>>}

VARIABLES
  node,            (* the fields of every LockNode, as in LockTree         *)
  kids,            (* mp_children of every LockNode                        *)
  made,            (* how many nodes have been made for each path          *)
  writer, sharers, (* who holds each node's rw_mtx across steps            *)
  batching,        (* who holds global_tree_mutex                          *)
  th,              (* where each thread is                                 *)
  calls            (* the number of calls so far                           *)

trie == <<node, kids, made>>
mutexes == <<writer, sharers, batching>>
vars == <<trie, mutexes, th, calls>>

Objects == Nodes \X (0..MaxMade)
RootNode == <<<<>>, 0>>

KidsFor(o, seg) == {c \in kids[o] : c[1] = Append(o[1], seg)}
Kid(o, seg) ==
  IF KidsFor(o, seg) = {} THEN <<Append(o[1], seg), 0>>
                          ELSE CHOOSE c \in KidsFor(o, seg) : TRUE
Missing(o) == o[2] = 0 /\ o # RootNode

\* The node the trie has at each path now.
NodeAt[p \in Nodes] ==
  IF p = <<>> THEN RootNode ELSE Kid(NodeAt[Front(p)], Last(p))

hdlm == INSTANCE LockTree WITH tree <- [p \in Nodes |-> node[NodeAt[p]]]

------------------------------------------------------------------------------
(* Threads *)

\* paths and i: what the call is about, and the path it is at.
\* trail: the nodes it still needs: those on its way down (traversal_path), to
\* be marked or unwound, or held in a walk.  seen, found: of a walk.
Idle == [call |-> "none", pc |-> "idle", paths |-> <<>>, i |-> 1,
         mode |-> "SHARED", trail |-> <<>>, seen |-> {}, found |-> {}]

Path(t) == th[t].paths[th[t].i]
Here(t) == Last(th[t].trail)
\* The segment to go to next, and whether it is the last one.
NextSegment(t) == Path(t)[Len(th[t].trail)]
AtParent(t) == Len(th[t].trail) = Len(Path(t))
IsAdmin(t) == t \in Admins /\ th[t].call # "batch"

CanLock(o) == writer[o] = NoUser /\ sharers[o] = {}
CanShare(o) == writer[o] = NoUser

At(t, pc) == th[t].pc = pc
Goto(t, pc, trail) == th' = [th EXCEPT ![t].pc = pc, ![t].trail = trail]
Enter(t, pc) == Goto(t, pc, Append(th[t].trail, Kid(Here(t), NextSegment(t))))

\* The call comes back, unless it has another path: then it starts from pc.
Return(t, pc) ==
  IF th[t].i < Len(th[t].paths)
  THEN /\ th' = [th EXCEPT ![t].pc = pc, ![t].i = @ + 1, ![t].trail = <<RootNode>>]
       /\ UNCHANGED batching
  ELSE /\ th' = [th EXCEPT ![t] = Idle]
       /\ batching' = IF batching = t THEN NoUser ELSE batching

Acquired(t) == Return(t, "descend")
Released(t) == Return(t, "find")

\* t calls an operation.
Begin(t, call, pc, paths, mode) ==
  /\ At(t, "idle")
  /\ call \in Operations
  /\ calls < MaxCalls
  /\ calls' = calls + 1
  /\ th' = [th EXCEPT ![t] = [Idle EXCEPT !.call = call, !.pc = pc, !.paths = paths,
              !.mode = mode, !.trail = IF pc = "walk" THEN <<>> ELSE <<RootNode>>]]
  /\ UNCHANGED <<trie, writer, sharers>>

Call(t) ==
  \/ /\ \/ \E p \in Asked :
             \/ \E m \in hdlm!RequestModes : Begin(t, "acquire", "descend", <<p>>, m)
             \/ Begin(t, "release", "find", <<p>>, "SHARED")
             \/ Begin(t, "prune", "cut", <<p>>, "SHARED")
        \/ Begin(t, "release_all", "walk", <<>>, "SHARED")
        \/ Begin(t, "list", "walk", <<>>, "SHARED")
     /\ UNCHANGED batching
  \/ /\ batching = NoUser
     /\ \E b \in Batches, m \in hdlm!RequestModes : Begin(t, "batch", "verify", b, m)
     /\ batching' = t

------------------------------------------------------------------------------
(* acquire_single_lock *)

\* mp_children gets a node for the segment if it has none.
MakeKid(o, seg) ==
  LET p == Append(o[1], seg)
  IN  IF Missing(Kid(o, seg))
      THEN /\ made[p] < MaxMade
           /\ made' = [made EXCEPT ![p] = @ + 1]
           /\ kids' = [kids EXCEPT ![o] = @ \cup {<<p, made[p] + 1>>}]
      ELSE UNCHANGED <<made, kids>>

\* The next node on the way down, which MakeKid has made if need be.
Descended(t) ==
  LET o == Here(t)
      c == Kid(o, NextSegment(t))
  IN  Append(th[t].trail, IF Missing(c) THEN <<c[1], made[c[1]] + 1>> ELSE c)

DescendQueued(t) ==
  LET o == Here(t)
  IN  /\ At(t, "descend") /\ ~AtParent(t)
      /\ CanLock(o)
      /\ node[o].current_mode = "EXCLUSIVE" /\ node[o].exclusive_owner # t
      /\ ~IsAdmin(t)
      /\ node' = [node EXCEPT ![o] = hdlm!Enqueue(@, t, th[t].mode)]
      /\ Acquired(t)
      /\ UNCHANGED <<kids, made, writer, sharers, calls>>

\* Mutant: the parent's mutex is not let go before the target's is taken.
DescendKeepingParent(t) ==
  LET o == Here(t)
  IN  /\ At(t, "descend")
      /\ CanLock(o)
      /\ MakeKid(o, NextSegment(t))
      /\ Goto(t, IF AtParent(t) THEN "take" ELSE "descend", Descended(t))
      /\ writer' = IF AtParent(t) THEN [writer EXCEPT ![o] = t] ELSE writer
      /\ UNCHANGED <<node, sharers, batching, calls>>

Descend(t) ==
  LET o == Here(t)
  IN  /\ At(t, "descend")
      /\ CanLock(o)
      /\ \/ AtParent(t)
         \/ IsAdmin(t)
         \/ ~(node[o].current_mode = "EXCLUSIVE" /\ node[o].exclusive_owner # t)
      /\ MakeKid(o, NextSegment(t))
      /\ Goto(t, IF AtParent(t) THEN "take" ELSE "descend", Descended(t))
      /\ UNCHANGED <<node, mutexes, calls>>

TakeByPreemption(t) ==
  /\ At(t, "take") /\ IsAdmin(t)
  /\ CanLock(Here(t))
  /\ node' = [node EXCEPT ![Here(t)] = hdlm!Preempt(@, t, th[t].mode)]
  /\ Acquired(t)
  /\ UNCHANGED <<kids, made, writer, sharers, calls>>

\* Mutant: the request tries again and again instead of queueing.
TakeSpinning(t) ==
  /\ At(t, "take") /\ ~IsAdmin(t)
  /\ CanLock(Here(t))
  /\ ~hdlm!CanGrant(node[Here(t)], t, th[t].mode)
  /\ UNCHANGED vars

TakeQueued(t) ==
  LET o == Here(t)
  IN  /\ At(t, "take") /\ ~IsAdmin(t)
      /\ CanLock(o)
      /\ ~hdlm!CanGrant(node[o], t, th[t].mode)
      /\ node' = [node EXCEPT ![o] = hdlm!Enqueue(@, t, th[t].mode)]
      /\ Acquired(t)
      /\ UNCHANGED <<kids, made, writer, sharers, calls>>

\* Mutant: the target's mutex is let go before the ascent.
TakeLettingGo(t) ==
  LET o == Here(t)
  IN  /\ At(t, "take") /\ ~IsAdmin(t)
      /\ CanLock(o)
      /\ hdlm!CanGrant(node[o], t, th[t].mode)
      /\ node' = [node EXCEPT ![o] = hdlm!Grant(@, t, th[t].mode)]
      /\ Goto(t, "ascend", th[t].trail)
      /\ UNCHANGED <<kids, made, mutexes, calls>>

\* The lock is granted, and the target's mutex kept for the ascent.
TakeGranted(t) ==
  LET o == Here(t)
  IN  /\ At(t, "take") /\ ~IsAdmin(t)
      /\ CanLock(o)
      /\ hdlm!CanGrant(node[o], t, th[t].mode)
      /\ node' = [node EXCEPT ![o] = hdlm!Grant(@, t, th[t].mode)]
      /\ writer' = [writer EXCEPT ![o] = t]
      /\ Goto(t, "ascend", th[t].trail)
      /\ UNCHANGED <<kids, made, sharers, batching, calls>>

\* The ancestors are marked from the root down, each under its mutex.
Ascend(t) ==
  LET o == Head(th[t].trail)
  IN  /\ At(t, "ascend")
      /\ CanLock(o)
      /\ node' = [node EXCEPT ![o] = hdlm!SetIntent(@)]
      /\ IF Len(th[t].trail) = 2
         THEN /\ writer' = [writer EXCEPT ![Here(t)] = NoUser]
              /\ Acquired(t)
         ELSE /\ Goto(t, "ascend", Tail(th[t].trail))
              /\ UNCHANGED <<writer, batching>>
      /\ UNCHANGED <<kids, made, sharers, calls>>

------------------------------------------------------------------------------
(* release_lock and prune_path *)

Find(t) ==
  /\ At(t, "find")
  /\ CanShare(Here(t))
  /\ IF Missing(Kid(Here(t), NextSegment(t)))
     THEN Released(t)
     ELSE Enter(t, IF AtParent(t) THEN "free" ELSE "find") /\ UNCHANGED batching
  /\ UNCHANGED <<trie, writer, sharers, calls>>

Free(t) ==
  LET o == Here(t)
  IN  /\ At(t, "free")
      /\ CanLock(o)
      /\ IF ~hdlm!Holds(node[o], t)
         THEN UNCHANGED node /\ Released(t)
         ELSE /\ node' = [node EXCEPT ![o] = hdlm!ReleaseNode(@, t)]
              /\ IF hdlm!HandsOver(node[o], t)
                 THEN Released(t)
                 ELSE Goto(t, "unwind", Front(th[t].trail)) /\ UNCHANGED batching
      /\ UNCHANGED <<kids, made, writer, sharers, calls>>

\* The counter is atomic; only the decrement that reaches zero takes the mutex.
Unwind(t) ==
  LET o == Here(t)
  IN  /\ At(t, "unwind")
      /\ node[o].active_locks_beneath = 1 => CanLock(o)
      /\ node' = [node EXCEPT ![o] = hdlm!Unwind(@, 1)]
      /\ IF o = RootNode
         THEN Released(t)
         ELSE Goto(t, "unwind", Front(th[t].trail)) /\ UNCHANGED batching
      /\ UNCHANGED <<kids, made, writer, sharers, calls>>

\* prune_path: the last node on the way forgets its child.
Cut(t) ==
  LET o == Here(t)
      c == Kid(o, NextSegment(t))
  IN  /\ At(t, "cut")
      /\ CanLock(o)
      /\ IF AtParent(t) \/ Missing(c)
         THEN kids' = [kids EXCEPT ![o] = @ \ {c}] /\ Return(t, "cut")
         ELSE Enter(t, "cut") /\ UNCHANGED <<kids, batching>>
      /\ UNCHANGED <<node, made, writer, sharers, calls>>

------------------------------------------------------------------------------
(* The walks: get_all_active_locks and release_all_locks_for_user *)

\* The nodes the walk of t goes to next: it keeps the mutexes above them.
Below(t) == IF th[t].seen = {} THEN {RootNode} ELSE kids[Here(t)] \ th[t].seen

Owns(t, o) == node[o].exclusive_owner = t \/ t \in node[o].shared_owners

WalkDown(t) ==
  /\ At(t, "walk")
  /\ \E o \in Below(t) :
       /\ CanShare(o)
       /\ sharers' = [sharers EXCEPT ![o] = @ \cup {t}]
       /\ th' = [th EXCEPT ![t].trail = Append(@, o), ![t].seen = @ \cup {o},
                           ![t].found = IF Owns(t, o) THEN @ \cup {o[1]} ELSE @]
  /\ UNCHANGED <<trie, writer, batching, calls>>

\* A node without children left to visit is let go.  From the root, the locks
\* found are released one by one in the order they were come across.
WalkUp(t) ==
  /\ At(t, "walk")
  /\ th[t].seen # {} /\ Below(t) = {}
  /\ sharers' = [sharers EXCEPT ![Here(t)] = @ \ {t}]
  /\ IF Here(t) # RootNode
     THEN Goto(t, "walk", Front(th[t].trail))
     ELSE IF th[t].call = "list" \/ th[t].found = {}
     THEN th' = [th EXCEPT ![t] = Idle]
     ELSE \E ps \in SetToSeqs(th[t].found) :
            th' = [th EXCEPT ![t] = [Idle EXCEPT !.call = "release_all", !.pc = "find",
                                                 !.paths = ps, !.trail = <<RootNode>>]]
  /\ UNCHANGED <<trie, writer, batching, calls>>

------------------------------------------------------------------------------
(* acquire_locks_atomically: every path is verified, then every one is       *)
(* acquired and the answers are ignored.                                     *)

Denied(t) ==
  /\ th' = [th EXCEPT ![t] = Idle]
  /\ batching' = NoUser

\* The path t is at is available: t goes on with the next, or to the taking.
Available(t) ==
  /\ th' = [th EXCEPT ![t].pc = IF th[t].i < Len(th[t].paths) THEN "verify" ELSE "descend",
                     ![t].i = IF @ < Len(th[t].paths) THEN @ + 1 ELSE 1,
                     ![t].trail = <<RootNode>>]
  /\ UNCHANGED batching

\* The way down; the mutex of the parent is kept for the look at the target.
Verify(t) ==
  LET o == Here(t)
      c == Kid(o, NextSegment(t))
  IN  /\ At(t, "verify")
      /\ CanShare(o)
      /\ \/ /\ ~AtParent(t) /\ node[o].current_mode = "EXCLUSIVE"
            /\ Denied(t)
            /\ UNCHANGED sharers
         \/ /\ AtParent(t) \/ node[o].current_mode # "EXCLUSIVE"
            /\ Missing(c)
            /\ Available(t)
            /\ UNCHANGED sharers
         \/ /\ ~AtParent(t) /\ node[o].current_mode # "EXCLUSIVE"
            /\ ~Missing(c)
            /\ Enter(t, "verify")
            /\ UNCHANGED <<sharers, batching>>
         \/ /\ AtParent(t) /\ ~Missing(c)
            /\ sharers' = [sharers EXCEPT ![o] = @ \cup {t}]
            /\ Enter(t, "inspect")
            /\ UNCHANGED batching
      /\ UNCHANGED <<trie, writer, calls>>

Inspect(t) ==
  LET n == node[Here(t)]
  IN  /\ At(t, "inspect")
      /\ CanShare(Here(t))
      /\ sharers' = [o \in Objects |-> sharers[o] \ {t}]
      /\ IF IF th[t].mode = "EXCLUSIVE" THEN n.current_mode = "UNLOCKED"
                                       ELSE hdlm!CanGrantShared(n)
         THEN Available(t) ELSE Denied(t)
      /\ UNCHANGED <<trie, writer, calls>>

------------------------------------------------------------------------------
Init ==
  /\ node = [o \in Objects |-> hdlm!FreshNode]
  /\ kids = [o \in Objects |-> {}]
  /\ made = [p \in Nodes |-> 0]
  /\ writer = [o \in Objects |-> NoUser]
  /\ sharers = [o \in Objects |-> {}]
  /\ batching = NoUser
  /\ th = [t \in Users |-> Idle]
  /\ calls = 0

Step(t) ==
  \/ DescendQueued(t)
  \/ Descend(t)
  \/ TakeByPreemption(t)
  \/ TakeQueued(t)
  \/ TakeGranted(t)
  \/ Ascend(t)
  \/ Find(t)
  \/ Free(t)
  \/ Unwind(t)
  \/ Cut(t)
  \/ WalkDown(t)
  \/ WalkUp(t)
  \/ Verify(t)
  \/ Inspect(t)

Next == \E t \in Users : Call(t) \/ Step(t)

Spec == Init /\ [][Next]_vars

\* A thread that can go on is scheduled.
FairSpec == Spec /\ \A t \in Users : WF_vars(Step(t))

------------------------------------------------------------------------------
(* Properties *)

PCs == {"idle", "descend", "take", "ascend", "find", "free", "unwind", "cut", "walk",
        "verify", "inspect"}

TypeOK ==
  /\ node \in [Objects -> hdlm!LockNode]
  /\ kids \in [Objects -> SUBSET Objects]
  /\ made \in [Nodes -> 0..MaxMade]
  /\ writer \in [Objects -> Users \cup {NoUser}]
  /\ sharers \in [Objects -> SUBSET Users]
  /\ batching \in Users \cup {NoUser}
  /\ \A t \in Users : th[t].pc \in PCs

\* From the moment a lock is granted to the moment the call answers ACQUIRED,
\* the user holds it, whatever the other threads do meanwhile: it is for this
\* that the ascent keeps the target's mutex.
GrantLastsUntilAnswered ==
  \A t \in Users : At(t, "ascend") => hdlm!Holds(node[Here(t)], t)

Busy(t) == ~At(t, "idle")

Kept == {o \in Objects : ~CanLock(o)}
Keeps(t, o) == writer[o] = t \/ t \in sharers[o]

\* What a walk has yet to visit before it is through with all it keeps.
Unvisited(t) ==
  IF th[t].seen = {} THEN {RootNode}
                     ELSE (UNION {kids[p] : p \in Range(th[t].trail)}) \ th[t].seen

\* t must have the mutex of x before it can let go of anything, or before it
\* ends its walk, and cannot have it now.
Awaits(t, x) ==
  \/ th[t].pc \in {"descend", "take", "free", "cut"} /\ x = Here(t) /\ ~CanLock(x)
  \/ At(t, "unwind") /\ x = Here(t) /\ node[x].active_locks_beneath = 1 /\ ~CanLock(x)
  \/ At(t, "ascend") /\ x = Head(th[t].trail) /\ ~CanLock(x)
  \/ th[t].pc \in {"find", "verify", "inspect"} /\ x = Here(t) /\ ~CanShare(x)
  \/ At(t, "walk") /\ x \in Unvisited(t) /\ ~CanShare(x)

\* t keeps o until it has had x, which it cannot have now.  A walk goes through
\* what is beneath a node before it lets the node go.
KeepsFor(t, o, x) ==
  /\ Keeps(t, o)
  /\ Awaits(t, x)
  /\ At(t, "walk") => Len(o[1]) < Len(x[1])

\* Deadlock: every mutex of W is kept for another one of W.
Stuck(W) == W # {} /\ \A o \in W : \E t \in Users, x \in W : KeepsFor(t, o, x)

\* Threads block each other in one way only, whatever the others do: there is
\* an acquisition that marks the ancestors of its target and waits for one that
\* a walk or a verification above the target holds.  Any number of acquisitions,
\* releases and deletions by themselves are free of deadlock, of some of the
\* threads as of all.
StuckOnlyUnderWalk ==
  \A W \in SUBSET Kept : Stuck(W) =>
    \E t, u \in Users :
      /\ At(t, "ascend") /\ {Here(t), Head(th[t].trail)} \subseteq W
      /\ u \in sharers[Head(th[t].trail)] /\ th[u].pc \in {"walk", "inspect"}

\* Every call comes back unless it waits for a mutex that is stuck like that.
CallsReturn ==
  \A t \in Users :
    Busy(t) ~> (~Busy(t) \/ \E W \in SUBSET Kept : Stuck(W) /\ \E x \in W : Awaits(t, x))

\* With any interleaving of the threads, and nodes pruned under them, every
\* path remains the readers-writer lock of RWLocks.
ImplementsRWLocks == hdlm!ImplementsRWLocks

\* The batch of t is answered ACQUIRED_BATCH in this step.
BatchAnswered(t) ==
  /\ th[t].call = "batch" /\ th[t].pc \notin {"verify", "inspect"}
  /\ th'[t] = Idle

\* The promise of acquire_locks_atomically: all succeed or all fail.  The code
\* breaks it: between the verification and the taking of a path another thread
\* can lock it, and the answer of the taking is not looked at.
BatchAllOrNothing ==
  [][\A t \in Users : BatchAnswered(t) =>
       \A p \in Range(th[t].paths) : hdlm!Holds(node[NodeAt[p]], t)']_vars
=============================================================================
