------------------------------ MODULE LockTree ------------------------------
(***************************************************************************)
(* The hierarchical lock manager of DistW (HierarchicalLockTree.cpp/.hpp   *)
(* over LockNode.hpp), one action per outcome of each public operation.    *)
(*                                                                         *)
(* A path is the sequence of segments that tokenize_path returns, so the   *)
(* root is <<>>, and `tree' gives the LockNode of every path.  A node the  *)
(* trie has not created yet is FreshNode: no operation tells a missing     *)
(* node from a fresh one.                                                  *)
(*                                                                         *)
(* The operations run one at a time here.  That is how the one event loop  *)
(* of the server calls them (WebSocketRouter.hpp).                         *)
(***************************************************************************)
EXTENDS Integers, FiniteSets, SequencesExt

CONSTANTS
  Users,      (* the user ids that may ask for locks                      *)
  Admins,     (* the users whose requests carry is_admin = true           *)
  NoUser,     (* the empty string, "nobody"                               *)
  Segments,   (* the names of files and folders                           *)
  Nodes,      (* the paths of the trie, closed under taking the parent    *)
  MaxQueue,   (* bound on the length of a wait_queue                      *)
  MaxUnwind   (* active_locks_beneath is not followed below -MaxUnwind:   *)
              (* the code only ever compares it with zero                 *)

ASSUME UsersAssumption ==
  /\ Admins \subseteq Users
  /\ NoUser \notin Users

ASSUME NodesAssumption ==
  /\ IsFiniteSet(Nodes)
  /\ Nodes \subseteq Seq(Segments)
  /\ \A p \in Nodes : \A k \in 0..Len(p) : SubSeq(p, 1, k) \in Nodes

ASSUME BoundsAssumption == MaxQueue \in Nat /\ MaxUnwind \in Nat \ {0}

VARIABLE tree

vars == tree

------------------------------------------------------------------------------
(* LockNode *)

LockMode == {"UNLOCKED", "INTENT", "SHARED", "EXCLUSIVE"}
RequestModes == {"SHARED", "EXCLUSIVE"}

LockRequest == [user_id : Users, requested_mode : RequestModes]

LockNode == [ current_mode : LockMode,
              exclusive_owner : Users \cup {NoUser},
              shared_owners : SUBSET Users,
              pending_exclusive_requests : Nat,
              wait_queue : Seq(LockRequest),
              active_locks_beneath : Int ]

FreshNode ==
  [ current_mode |-> "UNLOCKED",
    exclusive_owner |-> NoUser,
    shared_owners |-> {},
    pending_exclusive_requests |-> 0,
    wait_queue |-> <<>>,
    active_locks_beneath |-> 0 ]

\* Mutant: a reader is let in although a writer waits.
CanGrantSharedBarging(n) == n.current_mode \in {"UNLOCKED", "SHARED", "INTENT"}

CanGrantShared(n) ==
  /\ ~(n.pending_exclusive_requests > 0)
  /\ n.current_mode \in {"UNLOCKED", "SHARED", "INTENT"}

\* u is what the node says its owner, or one of its owners, is.
Holds(n, u) ==
  \/ n.current_mode = "EXCLUSIVE" /\ n.exclusive_owner = u
  \/ n.current_mode = "SHARED" /\ u \in n.shared_owners

------------------------------------------------------------------------------
(* Paths *)

Root == <<>>
Targets == Nodes \ {Root}

Ancestors(p) == {SubSeq(p, 1, k) : k \in 0..Len(p) - 1}
Subtree(p) == {q \in Nodes : IsPrefix(p, q)}

\* The ancestors whose mode the descent inspects: it runs over the first
\* Len(p) - 1 nodes and so leaves the immediate parent out.
Inspected(p) == {SubSeq(p, 1, k) : k \in 0..Len(p) - 2}

------------------------------------------------------------------------------
(* Acquisition *)

\* Mutant: a queued writer is not counted.
EnqueueUncounted(n, u, m) ==
  [n EXCEPT !.wait_queue = Append(@, [user_id |-> u, requested_mode |-> m])]

Enqueue(n, u, m) ==
  [n EXCEPT
    !.wait_queue = Append(@, [user_id |-> u, requested_mode |-> m]),
    !.pending_exclusive_requests = IF m = "EXCLUSIVE" THEN @ + 1 ELSE @]

Grant(n, u, m) ==
  IF m = "EXCLUSIVE"
  THEN [n EXCEPT !.current_mode = m, !.exclusive_owner = u]
  ELSE [n EXCEPT !.current_mode = m, !.shared_owners = @ \cup {u}]

\* Mutant: the readers are not thrown out.
PreemptKeepingSharers(n, u, m) ==
  IF m = "EXCLUSIVE"
  THEN [n EXCEPT !.current_mode = m, !.exclusive_owner = u]
  ELSE [n EXCEPT !.current_mode = m, !.exclusive_owner = NoUser,
                 !.shared_owners = @ \cup {u}]

Preempt(n, u, m) ==
  IF m = "EXCLUSIVE"
  THEN [n EXCEPT !.current_mode = m, !.exclusive_owner = u, !.shared_owners = {}]
  ELSE [n EXCEPT !.current_mode = m, !.exclusive_owner = NoUser,
                 !.shared_owners = @ \cup {u}]

SetIntent(n) ==
  IF n.current_mode = "UNLOCKED" THEN [n EXCEPT !.current_mode = "INTENT"] ELSE n

\* Mutant: a writer is let in when no other writer is there.
CanGrantUnowned(n, u, m) ==
  IF m = "EXCLUSIVE"
  THEN n.exclusive_owner \in {u, NoUser}
  ELSE CanGrantShared(n)

\* The standard acquisition grants the target at once.
CanGrant(n, u, m) ==
  IF m = "EXCLUSIVE"
  THEN n.current_mode = "UNLOCKED" \/ n.exclusive_owner = u
  ELSE CanGrantShared(n)

\* q stops a request of u on its way down.
Obstructs(t, q, u) ==
  t[q].current_mode = "EXCLUSIVE" /\ t[q].exclusive_owner # u

FirstObstacle(t, p, q, u) ==
  /\ q \in Inspected(p)
  /\ Obstructs(t, q, u)
  /\ \A r \in Inspected(p) : Obstructs(t, r, u) => Len(q) <= Len(r)

Unobstructed(t, p, u) == \A q \in Inspected(p) : ~Obstructs(t, q, u)

RoomIn(n) == Len(n.wait_queue) < MaxQueue

\* "QUEUED: Parent directory locked": the request waits at the directory.
AcquireQueuedAtParent(p, u, m) ==
  /\ u \notin Admins
  /\ \E q \in Nodes :
       /\ FirstObstacle(tree, p, q, u)
       /\ RoomIn(tree[q])
       /\ tree' = [tree EXCEPT ![q] = Enqueue(@, u, m)]

\* "ACQUIRED_BY_PREEMPTION"
AcquireByPreemption(p, u, m) ==
  /\ u \in Admins
  /\ tree' = [tree EXCEPT ![p] = Preempt(@, u, m)]

\* "QUEUED: Conflict at target" and "QUEUED: Writers have priority"
AcquireQueuedAtTarget(p, u, m) ==
  /\ u \notin Admins
  /\ Unobstructed(tree, p, u)
  /\ ~CanGrant(tree[p], u, m)
  /\ RoomIn(tree[p])
  /\ tree' = [tree EXCEPT ![p] = Enqueue(@, u, m)]

\* "ACQUIRED": the target is granted and the ancestors are marked.
AcquireGranted(p, u, m) ==
  /\ u \notin Admins
  /\ Unobstructed(tree, p, u)
  /\ CanGrant(tree[p], u, m)
  /\ tree' = [q \in Nodes |->
                IF q = p THEN Grant(tree[q], u, m)
                ELSE IF q \in Ancestors(p) THEN SetIntent(tree[q])
                ELSE tree[q]]

------------------------------------------------------------------------------
(* Release *)

\* The holder u leaves the node.
Freed(n, u) ==
  IF n.current_mode = "EXCLUSIVE"
  THEN [n EXCEPT !.exclusive_owner = NoUser, !.current_mode = "UNLOCKED"]
  ELSE [n EXCEPT !.shared_owners = @ \ {u},
                 !.current_mode = IF n.shared_owners = {u} THEN "UNLOCKED" ELSE @]

\* Mutant: promoting a reader lowers the number of waiting writers too.
PromoteMiscounted(n) ==
  LET next_req == Head(n.wait_queue)
  IN  [Grant(n, next_req.user_id, next_req.requested_mode)
         EXCEPT !.wait_queue = Tail(@), !.pending_exclusive_requests = @ - 1]

\* Mutant: promoting a writer does not lower the number of waiting ones.
PromoteUncounted(n) ==
  LET next_req == Head(n.wait_queue)
  IN  [Grant(n, next_req.user_id, next_req.requested_mode)
         EXCEPT !.wait_queue = Tail(@)]

\* The head of the queue takes the free node.
Promote(n) ==
  LET next_req == Head(n.wait_queue)
  IN  [Grant(n, next_req.user_id, next_req.requested_mode) EXCEPT
         !.wait_queue = Tail(@),
         !.pending_exclusive_requests =
            IF next_req.requested_mode = "EXCLUSIVE" THEN @ - 1 ELSE @]

\* Mutant: the head is promoted while other readers are still there.
HandsOverEarly(n, u) == n.wait_queue # <<>>

HandsOver(n, u) == Freed(n, u).current_mode = "UNLOCKED" /\ n.wait_queue # <<>>

\* Mutant: the queue is not looked at.
ReleaseNodeForgetting(n, u) == Freed(n, u)

ReleaseNode(n, u) == IF HandsOver(n, u) THEN Promote(Freed(n, u)) ELSE Freed(n, u)

\* Mutant: the unwinding looks neither at the counter nor at the mode.
UnwindUnchecked(n, k) ==
  [n EXCEPT
    !.active_locks_beneath = IF @ - k >= -MaxUnwind THEN @ - k ELSE -MaxUnwind,
    !.current_mode = IF k > 0 THEN "UNLOCKED" ELSE @]

\* k decrements of a node's counter on the way back to the root; the one
\* that reaches zero clears the node's INTENT mark.
Unwind(n, k) ==
  [n EXCEPT
    !.active_locks_beneath = IF @ - k >= -MaxUnwind THEN @ - k ELSE -MaxUnwind,
    !.current_mode = IF @ = "INTENT" /\ n.active_locks_beneath \in 1..k
                     THEN "UNLOCKED" ELSE @]

\* The locks of S, all held by u, are released: each is freed or handed over,
\* and each that was not handed over unwinds its ancestors.
ReleaseMany(t, S, u) ==
  [q \in Nodes |->
     Unwind(IF q \in S THEN ReleaseNode(t[q], u) ELSE t[q],
            Cardinality({p \in S : q \in Ancestors(p) /\ ~HandsOver(t[p], u)}))]

\* Mutant: a disconnected user's shared locks are not looked for.
HeldByExclusively(t, u) == {p \in Targets : t[p].exclusive_owner = u}

HeldBy(t, u) == {p \in Targets : Holds(t[p], u)}

Release(p, u) ==
  /\ Holds(tree[p], u)
  /\ tree' = ReleaseMany(tree, {p}, u)

\* release_all_locks_for_user, called when a user disconnects.
ReleaseAll(u) ==
  /\ HeldBy(tree, u) # {}
  /\ tree' = ReleaseMany(tree, HeldBy(tree, u), u)

\* prune_path: the file is deleted, with everything known beneath it.
Pruned(t, p) == [q \in Nodes |-> IF q \in Subtree(p) THEN FreshNode ELSE t[q]]

Prune(p) == tree' = Pruned(tree, p)

------------------------------------------------------------------------------
(* What the other modules see *)

IsExclusiveOwner(t, p, u) ==
  t[p].current_mode = "EXCLUSIVE" /\ t[p].exclusive_owner = u

\* get_all_active_locks: the owners shown for every path.
ActiveLocks(t) ==
  [p \in Targets |-> CASE t[p].current_mode = "EXCLUSIVE" -> {t[p].exclusive_owner}
                       [] t[p].current_mode = "SHARED"    -> t[p].shared_owners
                       [] OTHER                           -> {}]

------------------------------------------------------------------------------
Init == tree = [p \in Nodes |-> FreshNode]

Acquire(p, u, m) ==
  \/ AcquireQueuedAtParent(p, u, m)
  \/ AcquireByPreemption(p, u, m)
  \/ AcquireQueuedAtTarget(p, u, m)
  \/ AcquireGranted(p, u, m)

Next ==
  \/ \E u \in Users, p \in Targets, m \in RequestModes : Acquire(p, u, m)
  \/ \E u \in Users, p \in Targets : Release(p, u)
  \/ \E u \in Users : ReleaseAll(u)
  \/ \E p \in Targets : Prune(p)

Spec == Init /\ [][Next]_vars

\* Nobody keeps a lock for good: a user gives each one back, or the server
\* closes a connection that stays silent, which releases what it holds.
EveryHolderReleases == \A u \in Users, p \in Targets : WF_vars(Release(p, u))

FairSpec == Spec /\ EveryHolderReleases

------------------------------------------------------------------------------
(* Properties *)

TypeOK == tree \in [Nodes -> LockNode]

\* The ownership fields of a node always agree with its mode: an owner exactly
\* while it is EXCLUSIVE, sharers exactly while it is SHARED.  Every check of
\* the code reads only one of the fields (preemption and promotion set them
\* separately), and release_all_locks_for_user reads the owners without the
\* mode.
OwnershipCoherent ==
  \A p \in Nodes :
    /\ tree[p].current_mode = "EXCLUSIVE" <=> tree[p].exclusive_owner # NoUser
    /\ tree[p].current_mode = "SHARED" <=> tree[p].shared_owners # {}

Writers(q) == {i \in 1..Len(q) : q[i].requested_mode = "EXCLUSIVE"}

\* pending_exclusive_requests, incremented where a writer is queued and
\* decremented where one is promoted, is the number of writers in the queue:
\* were it ever larger, readers would be refused for good.
PendingCountsWriters ==
  \A p \in Nodes :
    tree[p].pending_exclusive_requests = Cardinality(Writers(tree[p].wait_queue))

\* Nobody waits at an UNLOCKED node: queued requests are looked at only when
\* some holder releases, so a request left behind there would be forgotten.
NoWaiterAtFreeNode ==
  \A p \in Nodes : tree[p].current_mode = "UNLOCKED" => tree[p].wait_queue = <<>>

\* Nobody who does not hold the node n now, and does hold it as s, passes a
\* waiting writer.
NoOvertaking(n, s) ==
  n.pending_exclusive_requests > 0 =>
    \A u \in Users :
      ~Holds(n, u) /\ Holds(s, u) => u \in Admins \/ u = Head(n.wait_queue).user_id

\* While a writer waits at a node, the only users who come to hold the node
\* are administrators and the request at the head of the queue: neither a
\* newly arriving reader nor one further back overtakes it.
WritersNotOvertaken == [][\A p \in Nodes : NoOvertaking(tree[p], tree'[p])]_vars

\* From the node n to the node s the queue stays, or a request joins it, or its
\* head is served, or the node is gone.
ServedInOrder(n, s) ==
  \/ s.wait_queue = n.wait_queue
  \/ \E r \in LockRequest : s.wait_queue = Append(n.wait_queue, r)
  \/ /\ n.wait_queue # <<>>
     /\ s.wait_queue = Tail(n.wait_queue)
     /\ s.current_mode = Head(n.wait_queue).requested_mode
     /\ {u \in Users : Holds(s, u)} = {Head(n.wait_queue).user_id}
  \/ s = FreshNode

\* A queue changes only by a request joining at its end, by its head getting
\* the lock, alone and in the mode it asked for, or by the file's deletion.
\* So a preempted, releasing or disconnecting holder never costs a waiter its
\* place.
WaitersServedInOrder == [][\A p \in Nodes : ServedInOrder(tree[p], tree'[p])]_vars

WaitsToWrite(u, p) ==
  \E i \in Writers(tree[p].wait_queue) : tree[p].wait_queue[i].user_id = u

\* A user waiting to write to a file gets it, as long as holders release and no
\* administrator interferes: readers cannot starve it.  (Only deleting the
\* file ends the wait otherwise.)
WriterServed ==
  \A u \in Users, p \in Targets :
    WaitsToWrite(u, p) ~> (IsExclusiveOwner(tree, p, u) \/ ~WaitsToWrite(u, p))

WaitsToRead(u, p) ==
  \E i \in DOMAIN tree[p].wait_queue :
    tree[p].wait_queue[i] = [user_id |-> u, requested_mode |-> "SHARED"]

\* Somebody comes to hold p, and not from the queue that waits there.
GrantedPastWaiters(p) ==
  /\ tree[p].wait_queue # <<>>
  /\ tree'[p].wait_queue = tree[p].wait_queue
  /\ \E v \in Users : ~Holds(tree[p], v) /\ Holds(tree'[p], v)

\* A user waiting to read a file gets it, as long as holders release, unless
\* others are let in past it again and again.  (They can be: a promotion serves
\* the head of the queue alone, and later readers join that one while the readers
\* left in the queue wait for the node to become UNLOCKED.)
ReaderServed ==
  \A u \in Users, p \in Targets :
    \/ []<><<GrantedPastWaiters(p)>>_vars
    \/ WaitsToRead(u, p) ~> (Holds(tree[p], u) \/ ~WaitsToRead(u, p))

\* release_all_locks_for_user walks an unordered map, so it releases the locks
\* it found in no particular order.  Whatever the order, one release after the
\* other ends in the same tree.
ReleaseOrderIrrelevant ==
  \A u \in Users :
    \A order \in SetToSeqs(HeldBy(tree, u)) :
      FoldLeft(LAMBDA t, p : ReleaseMany(t, {p}, u), tree, order)
        = ReleaseMany(tree, HeldBy(tree, u), u)

\* A user who disconnects is left holding nothing but what one of its own
\* queued requests was promoted to as its locks were released.
DisconnectLeavesOnlyPromotions ==
  \A u \in Users, p \in Targets :
    Holds(ReleaseMany(tree, HeldBy(tree, u), u)[p], u) =>
      /\ Holds(tree[p], u)
      /\ tree[p].wait_queue # <<>>
      /\ Head(tree[p].wait_queue).user_id = u

\* The promise of the lock hierarchy: a directory and a file below it are not
\* locked EXCLUSIVE by different users.  The code breaks it, for its descent
\* does not inspect the immediate parent of the target.
SubtreeExclusion ==
  \A p \in Targets : \A q \in Subtree(p) : \A u, v \in Users :
    IsExclusiveOwner(tree, p, u) /\ IsExclusiveOwner(tree, q, v) => u = v

\* The promise of the release: it unwinds the intent locks and promotes queued
\* users, so that once nobody holds any lock nobody waits for one.  The code
\* breaks it, for no acquisition ever counts itself in active_locks_beneath.
IdleTreeHasNoWaiters ==
  (\A u \in Users : HeldBy(tree, u) = {}) => \A p \in Nodes : tree[p].wait_queue = <<>>

\* Each node by itself is the readers-writer lock of RWLocks.
Abstract ==
  INSTANCE RWLocks WITH
    Locks   <- Targets,
    writer  <- [p \in Targets |-> tree[p].exclusive_owner],
    readers <- [p \in Targets |-> tree[p].shared_owners]

\* The lock tree implements RWLocks: the intent marks, queues, counters and
\* multi-lock releases never add a step the plain locks do not have.
ImplementsRWLocks == Abstract!Spec
==============================================================================
