--------------------------- MODULE LockTreeProofs ---------------------------
(***************************************************************************)
(* Proofs about LockTree, for any users, any trie and any bounds.          *)
(*                                                                         *)
(* NodeInv is what every node keeps to; each operation on a node preserves *)
(* it on its own terms, and an action changes every node by one of those   *)
(* operations.                                                             *)
(***************************************************************************)
EXTENDS LockTree, Induction, FiniteSetTheorems

NodeCoherent(n) ==
  /\ n.current_mode = "EXCLUSIVE" <=> n.exclusive_owner # NoUser
  /\ n.current_mode = "SHARED" <=> n.shared_owners # {}

\* CountBelowZero is what keeps an unwinding from clearing an INTENT mark, and
\* with it NoWaiter true of the directories: requests wait at INTENT nodes.
NodeInv(n) ==
  /\ n \in LockNode
  /\ NodeCoherent(n)
  /\ n.pending_exclusive_requests = Cardinality(Writers(n.wait_queue))
  /\ n.current_mode = "UNLOCKED" => n.wait_queue = <<>>
  /\ n.active_locks_beneath <= 0

\* The inductive invariant, of a tree t.
Good(t) == t \in [Nodes -> LockNode] /\ \A p \in Nodes : NodeInv(t[p])

Inv == Good(tree)

------------------------------------------------------------------------------
(* The writers in a queue *)

\* Writers(q) is a finite set of positions of q.
LEMMA WritersFinite ==
  ASSUME NEW q \in Seq(LockRequest)
  PROVE  /\ IsFiniteSet(Writers(q))
         /\ Cardinality(Writers(q)) \in Nat
<1>1. IsFiniteSet(1..Len(q))
  BY FS_Interval
<1>2. Writers(q) \in SUBSET (1..Len(q))
  BY DEF Writers
<1> QED
  BY <1>1, <1>2, FS_Subset, FS_CardinalityType

\* The empty queue has no writer.
LEMMA WritersOfEmpty == Cardinality(Writers(<<>>)) = 0
<1>1. Writers(<<>>) = {}
  BY DEF Writers
<1> QED
  BY <1>1, FS_EmptySet

\* A request that joins a queue counts exactly if it is a writer's.
LEMMA WritersOfAppend ==
  ASSUME NEW q \in Seq(LockRequest), NEW r \in LockRequest
  PROVE  Cardinality(Writers(Append(q, r)))
           = Cardinality(Writers(q)) + (IF r.requested_mode = "EXCLUSIVE" THEN 1 ELSE 0)
<1> DEFINE n == Len(q) + 1
<1>1. /\ Len(q) \in Nat
      /\ Len(Append(q, r)) = n
      /\ \A i \in 1..n : Append(q, r)[i] = IF i = n THEN r ELSE q[i]
  OBVIOUS
<1>2. n \notin Writers(q)
  BY <1>1 DEF Writers
<1>3. CASE r.requested_mode = "EXCLUSIVE"
  <2>1. Writers(Append(q, r)) = Writers(q) \cup {n}
    BY <1>1, <1>3 DEF Writers
  <2> QED
    BY <2>1, <1>2, <1>3, WritersFinite, FS_AddElement
<1>4. CASE r.requested_mode # "EXCLUSIVE"
  <2>1. Writers(Append(q, r)) = Writers(q)
    BY <1>1, <1>4 DEF Writers
  <2> QED
    BY <2>1, <1>4, WritersFinite
<1> QED
  BY <1>3, <1>4

\* The request that leaves at the head counts exactly if it is a writer's.
LEMMA WritersOfTail ==
  ASSUME NEW q \in Seq(LockRequest), q # <<>>
  PROVE  Cardinality(Writers(Tail(q)))
           = Cardinality(Writers(q)) - (IF Head(q).requested_mode = "EXCLUSIVE" THEN 1 ELSE 0)
<1> DEFINE later == Writers(q) \ {1}
           shift == [i \in Writers(Tail(q)) |-> i + 1]
<1>1. /\ Len(q) \in Nat \ {0}
      /\ Tail(q) \in Seq(LockRequest)
      /\ Len(Tail(q)) = Len(q) - 1
      /\ \A i \in 1..Len(q) - 1 : Tail(q)[i] = q[i + 1]
      /\ Head(q) = q[1]
  OBVIOUS
<1>2. shift \in Bijection(Writers(Tail(q)), later)
  <2>1. shift \in [Writers(Tail(q)) -> later]
    BY <1>1 DEF Writers
  <2>2. \A i, j \in Writers(Tail(q)) : shift[i] = shift[j] => i = j
    BY DEF Writers
  <2>3. \A k \in later : \E i \in Writers(Tail(q)) : shift[i] = k
    <3> TAKE k \in later
    <3>1. /\ k \in 2..Len(q)
          /\ q[k].requested_mode = "EXCLUSIVE"
      BY <1>1 DEF Writers
    <3>2. k - 1 \in Writers(Tail(q))
      BY <1>1, <3>1 DEF Writers
    <3>3. shift[k - 1] = k
      BY <3>1, <3>2
    <3> QED
      BY <3>2, <3>3
  <2> QED
    BY <2>1, <2>2, <2>3 DEF Bijection, Injection, Surjection, IsInjective
<1>3. IsFiniteSet(Writers(Tail(q)))
  BY <1>1, WritersFinite
<1>4. Cardinality(later) = Cardinality(Writers(Tail(q)))
  BY <1>2, <1>3, FS_Bijection DEF ExistsBijection
<1>5. Cardinality(later) = IF 1 \in Writers(q) THEN Cardinality(Writers(q)) - 1
                                               ELSE Cardinality(Writers(q))
  BY WritersFinite, FS_RemoveElement
<1>6. 1 \in Writers(q) <=> Head(q).requested_mode = "EXCLUSIVE"
  BY <1>1 DEF Writers
<1>7. Cardinality(Writers(q)) \in Nat
  BY WritersFinite
<1> QED
  BY <1>4, <1>5, <1>6, <1>7

------------------------------------------------------------------------------
(* One node *)

\* A node as it is created keeps to the invariant.
LEMMA FreshNodeOK == NodeInv(FreshNode)
<1> <<>> \in Seq(LockRequest)
  OBVIOUS
<1> QED
  BY WritersOfEmpty DEF NodeInv, NodeCoherent, FreshNode, LockNode, LockMode

\* A node where a writer waits has a queue, and so is not UNLOCKED.
LEMMA PendingMeansTaken ==
  ASSUME NEW n, NodeInv(n), n.pending_exclusive_requests > 0
  PROVE  n.wait_queue # <<>> /\ n.current_mode # "UNLOCKED"
BY WritersOfEmpty DEF NodeInv

\* A request may join the queue of any node that is taken.
LEMMA EnqueueOK ==
  ASSUME NEW n, NodeInv(n), n.current_mode # "UNLOCKED",
         NEW u \in Users, NEW m \in RequestModes
  PROVE  NodeInv(Enqueue(n, u, m))
<1> DEFINE r == [user_id |-> u, requested_mode |-> m]
           e == Enqueue(n, u, m)
<1>1. r \in LockRequest /\ n.wait_queue \in Seq(LockRequest)
  BY DEF NodeInv, LockNode, LockRequest
<1>2. /\ e.wait_queue = Append(n.wait_queue, r)
      /\ e.current_mode = n.current_mode
      /\ e.exclusive_owner = n.exclusive_owner
      /\ e.shared_owners = n.shared_owners
      /\ e.active_locks_beneath = n.active_locks_beneath
      /\ e.pending_exclusive_requests
           = n.pending_exclusive_requests + (IF m = "EXCLUSIVE" THEN 1 ELSE 0)
  BY DEF Enqueue, NodeInv, LockNode
<1>3. e \in LockNode
  <2>1. Append(n.wait_queue, r) \in Seq(LockRequest)
    BY <1>1
  <2> DEFINE c == IF m = "EXCLUSIVE" THEN n.pending_exclusive_requests + 1
                                     ELSE n.pending_exclusive_requests
  <2>2. c \in Nat
    BY DEF NodeInv, LockNode
  <2>3. \A w \in Seq(LockRequest), k \in Nat :
          [n EXCEPT !.wait_queue = w, !.pending_exclusive_requests = k] \in LockNode
    BY DEF NodeInv, LockNode
  <2>4. e = [n EXCEPT !.wait_queue = Append(n.wait_queue, r),
                      !.pending_exclusive_requests = c]
    BY DEF Enqueue
  <2> HIDE DEF c, e
  <2> QED
    BY <2>1, <2>2, <2>3, <2>4
<1>4. e.pending_exclusive_requests = Cardinality(Writers(e.wait_queue))
  BY <1>1, <1>2, WritersOfAppend DEF NodeInv
<1> QED
  BY <1>2, <1>3, <1>4 DEF NodeInv, NodeCoherent

\* A refused request leaves the target taken, so it may wait there.
LEMMA RefusedMeansTaken ==
  ASSUME NEW n, NodeInv(n), NEW u \in Users, NEW m \in RequestModes,
         ~CanGrant(n, u, m)
  PROVE  n.current_mode # "UNLOCKED"
BY PendingMeansTaken DEF CanGrant, CanGrantShared, RequestModes

\* What Grant does to the fields of a node.
LEMMA GrantFields ==
  ASSUME NEW n \in LockNode, NEW u \in Users, NEW m \in RequestModes
  PROVE  LET g == Grant(n, u, m)
         IN  /\ g \in LockNode
             /\ g.current_mode = m
             /\ g.exclusive_owner = IF m = "EXCLUSIVE" THEN u ELSE n.exclusive_owner
             /\ g.shared_owners = IF m = "EXCLUSIVE" THEN n.shared_owners
                                                     ELSE n.shared_owners \cup {u}
             /\ g.pending_exclusive_requests = n.pending_exclusive_requests
             /\ g.wait_queue = n.wait_queue
             /\ g.active_locks_beneath = n.active_locks_beneath
<1>1. CASE m = "EXCLUSIVE"
  BY <1>1 DEF Grant, LockNode, LockMode, RequestModes
<1>2. CASE m = "SHARED"
  BY <1>2 DEF Grant, LockNode, LockMode, RequestModes
<1> QED
  BY <1>1, <1>2 DEF RequestModes

\* What a grant leaves of a node, and the mode it leaves it in.
LEMMA GrantKeeps ==
  ASSUME NEW n \in LockNode, NEW u \in Users, NEW m \in RequestModes
  PROVE  /\ Grant(n, u, m) \in LockNode
         /\ Grant(n, u, m).current_mode = m
         /\ Grant(n, u, m).pending_exclusive_requests = n.pending_exclusive_requests
         /\ Grant(n, u, m).wait_queue = n.wait_queue
         /\ Grant(n, u, m).active_locks_beneath = n.active_locks_beneath
<1>1. CASE m = "EXCLUSIVE"
  BY <1>1 DEF Grant, LockNode, LockMode, RequestModes
<1>2. CASE m = "SHARED"
  BY <1>2 DEF Grant, LockNode, LockMode, RequestModes
<1> QED
  BY <1>1, <1>2 DEF RequestModes

\* Ownership stays coherent when the grant adds a sharer to a node without an
\* owner, or makes an owner of a node without sharers.
LEMMA GrantCoherent ==
  ASSUME NEW n \in LockNode, NEW u \in Users, NEW m \in RequestModes,
         IF m = "EXCLUSIVE" THEN n.shared_owners = {} ELSE n.exclusive_owner = NoUser
  PROVE  NodeCoherent(Grant(n, u, m))
<1> DEFINE g == Grant(n, u, m)
<1>1. u # NoUser
  BY UsersAssumption
<1>2. CASE m = "EXCLUSIVE"
  <2>1. g.current_mode = "EXCLUSIVE" /\ g.exclusive_owner = u /\ g.shared_owners = {}
    BY <1>2, GrantFields
  <2> QED
    BY <2>1, <1>1 DEF NodeCoherent
<1>3. CASE m = "SHARED"
  <2>1. /\ g.current_mode = "SHARED"
        /\ g.exclusive_owner = NoUser
        /\ g.shared_owners = n.shared_owners \cup {u}
    BY <1>3 DEF Grant, LockNode
  <2> QED
    BY <2>1 DEF NodeCoherent
<1> QED
  BY <1>2, <1>3 DEF RequestModes

\* A granted request is recorded coherently.
LEMMA GrantOK ==
  ASSUME NEW n, NodeInv(n), NEW u \in Users, NEW m \in RequestModes,
         CanGrant(n, u, m)
  PROVE  NodeInv(Grant(n, u, m))
<1>1. n \in LockNode
  BY DEF NodeInv
<1>2. IF m = "EXCLUSIVE" THEN n.shared_owners = {} ELSE n.exclusive_owner = NoUser
  BY UsersAssumption DEF NodeInv, NodeCoherent, CanGrant, CanGrantShared
<1>3. NodeCoherent(Grant(n, u, m))
  BY <1>1, <1>2, GrantCoherent
<1> QED
  BY <1>1, <1>3, GrantFields DEF NodeInv, RequestModes

\* An administrator's request is recorded coherently whoever held the node.
LEMMA PreemptOK ==
  ASSUME NEW n, NodeInv(n), NEW u \in Users, NEW m \in RequestModes
  PROVE  NodeInv(Preempt(n, u, m))
<1>1. u # NoUser
  BY UsersAssumption
<1>2. CASE m = "EXCLUSIVE"
  BY <1>1, <1>2 DEF Preempt, NodeInv, NodeCoherent, LockNode, LockMode
<1>3. CASE m = "SHARED"
  BY <1>1, <1>3 DEF Preempt, NodeInv, NodeCoherent, LockNode, LockMode
<1> QED
  BY <1>2, <1>3 DEF RequestModes

\* A directory may be marked.
LEMMA SetIntentOK ==
  ASSUME NEW n, NodeInv(n)
  PROVE  NodeInv(SetIntent(n))
BY DEF SetIntent, NodeInv, NodeCoherent, LockNode, LockMode

\* Unwinding only lowers the counter.
LEMMA UnwindOK ==
  ASSUME NEW n, NodeInv(n), NEW k \in Nat
  PROVE  /\ NodeInv(Unwind(n, k))
         /\ \E a \in Int : a <= 0 /\ Unwind(n, k) = [n EXCEPT !.active_locks_beneath = a]
<1> DEFINE a == IF n.active_locks_beneath - k >= -MaxUnwind
                THEN n.active_locks_beneath - k ELSE -MaxUnwind
<1>1. n.active_locks_beneath \in Int /\ n.active_locks_beneath <= 0 /\ n \in LockNode
  BY DEF NodeInv, LockNode
<1>2. a \in Int /\ a <= 0
  BY <1>1, BoundsAssumption
<1>3. n.active_locks_beneath \notin 1..k
  BY <1>1
<1>4. Unwind(n, k) = [n EXCEPT !.active_locks_beneath = a]
  BY <1>1, <1>3 DEF Unwind, LockNode
<1>5. NodeInv([n EXCEPT !.active_locks_beneath = a])
  BY <1>1, <1>2 DEF NodeInv, NodeCoherent, LockNode
<1> QED
  BY <1>2, <1>4, <1>5

\* When a holder leaves a node, ownership stays coherent, and the queue and
\* the counters stay as they are.
LEMMA FreedOK ==
  ASSUME NEW n, NodeInv(n), NEW u \in Users, Holds(n, u)
  PROVE  LET f == Freed(n, u)
         IN  /\ f \in LockNode
             /\ NodeCoherent(f)
             /\ f.current_mode \in {"UNLOCKED", "SHARED"}
             /\ f.wait_queue = n.wait_queue
             /\ f.pending_exclusive_requests = n.pending_exclusive_requests
             /\ f.active_locks_beneath = n.active_locks_beneath
<1>1. n \in LockNode /\ NodeCoherent(n)
  BY DEF NodeInv
<1>2. CASE n.current_mode = "EXCLUSIVE"
  BY <1>1, <1>2 DEF Freed, NodeCoherent, LockNode, LockMode
<1>3. CASE n.current_mode = "SHARED"
  <2>1. CASE n.shared_owners = {u}
    BY <1>1, <1>3, <2>1 DEF Freed, NodeCoherent, LockNode, LockMode
  <2>2. CASE n.shared_owners # {u}
    <3>1. n.shared_owners \ {u} # {} /\ n.shared_owners \ {u} \in SUBSET Users
      BY <1>1, <1>3, <2>2 DEF NodeCoherent, LockNode
    <3> QED
      BY <1>1, <1>3, <2>2, <3>1 DEF Freed, NodeCoherent, LockNode, LockMode
  <2> QED
    BY <2>1, <2>2
<1> QED
  BY <1>2, <1>3 DEF Holds

\* The head of the queue of a node that is free gets it, coherently, and the
\* count of waiting writers follows.
LEMMA PromoteOK ==
  ASSUME NEW n \in LockNode, NodeCoherent(n), n.current_mode = "UNLOCKED",
         n.wait_queue # <<>>, n.active_locks_beneath <= 0,
         n.pending_exclusive_requests = Cardinality(Writers(n.wait_queue))
  PROVE  /\ NodeInv(Promote(n))
         /\ Promote(n).current_mode # "UNLOCKED"
<1> DEFINE u == Head(n.wait_queue).user_id
           m == Head(n.wait_queue).requested_mode
           g == Grant(n, u, m)
           rest == Tail(n.wait_queue)
           c == IF m = "EXCLUSIVE" THEN g.pending_exclusive_requests - 1
                                   ELSE g.pending_exclusive_requests
<1>1. /\ n.wait_queue \in Seq(LockRequest)
      /\ Head(n.wait_queue) \in LockRequest
      /\ rest \in Seq(LockRequest)
  BY DEF LockNode
<1>2. u \in Users /\ m \in RequestModes
  BY <1>1 DEF LockRequest
<1>3. IF m = "EXCLUSIVE" THEN n.shared_owners = {} ELSE n.exclusive_owner = NoUser
  BY DEF NodeCoherent
<1>4. g \in LockNode /\ NodeCoherent(g) /\ g.current_mode = m
  BY <1>2, <1>3, GrantFields, GrantCoherent
<1>5. /\ g.pending_exclusive_requests = n.pending_exclusive_requests
      /\ g.active_locks_beneath = n.active_locks_beneath
  BY <1>2, GrantKeeps
<1>6. Promote(n) = [g EXCEPT !.wait_queue = rest, !.pending_exclusive_requests = c]
  <2>1. g.wait_queue = n.wait_queue
    BY <1>2, GrantFields
  <2> QED
    BY <2>1, Zenon DEF Promote
<1>7. c = Cardinality(Writers(rest)) /\ c \in Nat
  <2>1. Cardinality(Writers(rest)) \in Nat
    BY <1>1, WritersFinite
  <2>2. c = Cardinality(Writers(n.wait_queue)) - (IF m = "EXCLUSIVE" THEN 1 ELSE 0)
    BY <1>1, <1>5, WritersFinite
  <2> QED
    BY <1>1, <2>1, <2>2, WritersOfTail
<1>8. m # "UNLOCKED"
  BY <1>2 DEF RequestModes
<1> HIDE DEF g, c, rest, m, u
<1>9. /\ Promote(n) \in LockNode
      /\ Promote(n).wait_queue = rest
      /\ Promote(n).pending_exclusive_requests = c
      /\ Promote(n).current_mode = m
      /\ Promote(n).active_locks_beneath = n.active_locks_beneath
      /\ Promote(n).exclusive_owner = g.exclusive_owner
      /\ Promote(n).shared_owners = g.shared_owners
  BY <1>1, <1>4, <1>5, <1>6, <1>7 DEF LockNode
<1>10. NodeCoherent(Promote(n))
  BY <1>4, <1>9 DEF NodeCoherent
<1> QED
  BY <1>7, <1>8, <1>9, <1>10 DEF NodeInv

\* A release keeps the invariant of the node: if it frees the node it hands it
\* over to the head of the queue.
LEMMA ReleaseNodeOK ==
  ASSUME NEW n, NodeInv(n), NEW u \in Users, Holds(n, u)
  PROVE  NodeInv(ReleaseNode(n, u))
<1> DEFINE f == Freed(n, u)
<1>1. /\ f \in LockNode
      /\ NodeCoherent(f)
      /\ f.wait_queue = n.wait_queue
      /\ f.pending_exclusive_requests = n.pending_exclusive_requests
      /\ f.active_locks_beneath = n.active_locks_beneath
  BY FreedOK
<1>2. /\ f.pending_exclusive_requests = Cardinality(Writers(f.wait_queue))
      /\ f.active_locks_beneath <= 0
  BY <1>1 DEF NodeInv
<1> HIDE DEF f
<1>3. CASE HandsOver(n, u)
  <2>1. f.current_mode = "UNLOCKED" /\ f.wait_queue # <<>>
    BY <1>1, <1>3 DEF HandsOver, f
  <2>2. NodeInv(Promote(f))
    BY <1>1, <1>2, <2>1, PromoteOK
  <2> QED
    BY <1>3, <2>2 DEF ReleaseNode, f
<1>4. CASE ~HandsOver(n, u)
  <2>1. f.current_mode = "UNLOCKED" => f.wait_queue = <<>>
    BY <1>1, <1>4 DEF HandsOver, f
  <2>2. NodeInv(f)
    BY <1>1, <1>2, <2>1 DEF NodeInv
  <2> QED
    BY <1>4, <2>2 DEF ReleaseNode, f
<1> QED
  BY <1>3, <1>4

------------------------------------------------------------------------------
(* The whole trie *)

\* How often a release unwinds a node is a number.
LEMMA UnwindCount ==
  ASSUME NEW t, NEW u, NEW S \in SUBSET Nodes, NEW q
  PROVE  Cardinality({p \in S : q \in Ancestors(p) /\ ~HandsOver(t[p], u)}) \in Nat
BY NodesAssumption, FS_Subset, FS_CardinalityType

\* Releasing any set of locks that one user holds keeps every node's invariant.
LEMMA ReleaseManyOK ==
  ASSUME NEW t, Good(t), NEW u \in Users,
         NEW S \in SUBSET Nodes, \A p \in S : Holds(t[p], u)
  PROVE  Good(ReleaseMany(t, S, u))
<1> DEFINE k(q) == Cardinality({p \in S : q \in Ancestors(p) /\ ~HandsOver(t[p], u)})
           n(q) == IF q \in S THEN ReleaseNode(t[q], u) ELSE t[q]
<1>1. ASSUME NEW q \in Nodes
      PROVE  NodeInv(Unwind(n(q), k(q)))
  <2>1. NodeInv(t[q])
    BY DEF Good
  <2>2. NodeInv(n(q))
    BY <2>1, ReleaseNodeOK
  <2>3. k(q) \in Nat
    BY UnwindCount
  <2> HIDE DEF n, k
  <2> QED
    BY <2>2, <2>3, UnwindOK
<1>2. ReleaseMany(t, S, u) = [q \in Nodes |-> Unwind(n(q), k(q))]
  BY DEF ReleaseMany
<1> HIDE DEF n, k
<1> QED
  BY <1>1, <1>2 DEF Good, NodeInv

\* Changing one node into one that keeps to the invariant keeps the tree good.
LEMMA ChangeOneOK ==
  ASSUME NEW t, Good(t), NEW q \in Nodes, NEW n, NodeInv(n)
  PROVE  Good([t EXCEPT ![q] = n])
BY DEF Good, NodeInv

\* Every step of an acquisition keeps the invariant.
LEMMA AcquireOK ==
  ASSUME Inv, NEW u \in Users, NEW p \in Targets, NEW m \in RequestModes,
         Acquire(p, u, m)
  PROVE  Inv'
<1>1. p \in Nodes /\ NodeInv(tree[p])
  BY DEF Inv, Good, Targets
<1>2. CASE AcquireQueuedAtParent(p, u, m)
  <2>1. PICK q \in Nodes : /\ FirstObstacle(tree, p, q, u)
                           /\ tree' = [tree EXCEPT ![q] = Enqueue(tree[q], u, m)]
    BY <1>2 DEF AcquireQueuedAtParent
  <2>2. NodeInv(tree[q]) /\ tree[q].current_mode # "UNLOCKED"
    BY <2>1 DEF Inv, Good, FirstObstacle, Obstructs
  <2> QED
    BY <2>1, <2>2, EnqueueOK, ChangeOneOK DEF Inv
<1>3. CASE AcquireByPreemption(p, u, m)
  <2>1. tree' = [tree EXCEPT ![p] = Preempt(tree[p], u, m)]
    BY <1>3 DEF AcquireByPreemption
  <2> QED
    BY <1>1, <2>1, PreemptOK, ChangeOneOK DEF Inv
<1>4. CASE AcquireQueuedAtTarget(p, u, m)
  <2>1. /\ ~CanGrant(tree[p], u, m)
        /\ tree' = [tree EXCEPT ![p] = Enqueue(tree[p], u, m)]
    BY <1>4 DEF AcquireQueuedAtTarget
  <2> QED
    BY <1>1, <2>1, RefusedMeansTaken, EnqueueOK, ChangeOneOK DEF Inv
<1>5. CASE AcquireGranted(p, u, m)
  <2> DEFINE n(q) == IF q = p THEN Grant(tree[q], u, m)
                     ELSE IF q \in Ancestors(p) THEN SetIntent(tree[q])
                     ELSE tree[q]
  <2>1. CanGrant(tree[p], u, m) /\ tree' = [q \in Nodes |-> n(q)]
    BY <1>5 DEF AcquireGranted
  <2>2. ASSUME NEW q \in Nodes PROVE NodeInv(n(q))
    <3>1. NodeInv(tree[q])
      BY DEF Inv, Good
    <3> QED
      BY <2>1, <3>1, GrantOK, SetIntentOK
  <2> HIDE DEF n
  <2> QED
    BY <2>1, <2>2 DEF Inv, Good, NodeInv
<1> QED
  BY <1>2, <1>3, <1>4, <1>5 DEF Acquire

\* The invariant holds initially.
LEMMA InitOK == Init => Inv
<1>1. FreshNode \in LockNode /\ NodeInv(FreshNode)
  BY FreshNodeOK DEF NodeInv
<1> QED
  BY <1>1 DEF Init, Inv, Good

\* Every step keeps it.
LEMMA StepOK == Inv /\ [Next]_vars => Inv'
<1> SUFFICES ASSUME Inv, [Next]_vars PROVE Inv'
  OBVIOUS
<1> USE DEF Inv
<1>1. ASSUME NEW u \in Users, NEW p \in Targets, NEW m \in RequestModes, Acquire(p, u, m)
      PROVE  Inv'
  BY <1>1, AcquireOK
<1>2. ASSUME NEW u \in Users, NEW p \in Targets, Release(p, u)
      PROVE  Inv'
  <2>1. {p} \in SUBSET Nodes /\ \A q \in {p} : Holds(tree[q], u)
    BY <1>2 DEF Release, Targets
  <2> QED
    BY <1>2, <2>1, ReleaseManyOK DEF Release
<1>3. ASSUME NEW u \in Users, ReleaseAll(u)
      PROVE  Inv'
  <2>1. HeldBy(tree, u) \in SUBSET Nodes /\ \A q \in HeldBy(tree, u) : Holds(tree[q], u)
    BY DEF HeldBy, Targets
  <2> QED
    BY <1>3, <2>1, ReleaseManyOK DEF ReleaseAll
<1>4. ASSUME NEW p \in Targets, Prune(p)
      PROVE  Inv'
  <2>1. tree' = [q \in Nodes |-> IF q \in Subtree(p) THEN FreshNode ELSE tree[q]]
    BY <1>4 DEF Prune, Pruned
  <2> QED
    BY <2>1, FreshNodeOK DEF Good, NodeInv
<1>5. CASE UNCHANGED vars
  BY <1>5 DEF vars
<1> QED
  BY <1>1, <1>2, <1>3, <1>4, <1>5 DEF Next

------------------------------------------------------------------------------
(* The theorems *)

\* The inductive invariant holds throughout every run.
THEOREM Invariance == Spec => []Inv
BY InitOK, StepOK, PTL DEF Spec

\* Every field of every node keeps its type; in particular no release or
\* promotion ever takes pending_exclusive_requests below zero.
THEOREM TypeCorrect == Spec => []TypeOK
<1>1. Inv => TypeOK
  BY DEF Inv, Good, TypeOK
<1> QED
  BY <1>1, Invariance, PTL

\* A node has an owner exactly while it is EXCLUSIVE and sharers exactly while
\* it is SHARED, through grants, preemptions, promotions and releases.
THEOREM OwnershipAlwaysCoherent == Spec => []OwnershipCoherent
<1>1. Inv => OwnershipCoherent
  BY DEF Inv, Good, NodeInv, NodeCoherent, OwnershipCoherent
<1> QED
  BY <1>1, Invariance, PTL

\* The count of waiting writers that holds readers back is always exact.
THEOREM PendingAlwaysExact == Spec => []PendingCountsWriters
<1>1. Inv => PendingCountsWriters
  BY DEF Inv, Good, NodeInv, PendingCountsWriters
<1> QED
  BY <1>1, Invariance, PTL

\* No request is ever left waiting at an UNLOCKED node, where no release would
\* come to promote it.
THEOREM NobodyWaitsAtFreeNode == Spec => []NoWaiterAtFreeNode
<1>1. Inv => NoWaiterAtFreeNode
  BY DEF Inv, Good, NodeInv, NoWaiterAtFreeNode
<1> QED
  BY <1>1, Invariance, PTL

------------------------------------------------------------------------------
(* What a step can do to a single node, and so may never do; and that LockTree  *)
(* implements RWLocks.  The action properties are about every node by itself,   *)
(* so each one is a lemma about NodeStep.                                       *)

\* s is what a step can make of the node n.
NodeStep(n, s) ==
  \/ s = n
  \/ s = FreshNode
  \/ s = SetIntent(n)
  \/ \E k \in Nat : s = Unwind(n, k)
  \/ \E u \in Users, k \in Nat : Holds(n, u) /\ s = Unwind(ReleaseNode(n, u), k)
  \/ \E u \in Users, m \in RequestModes :
       \/ s = Enqueue(n, u, m)
       \/ u \in Admins /\ s = Preempt(n, u, m)
       \/ CanGrant(n, u, m) /\ s = Grant(n, u, m)

\* A release, of one lock or of many, changes every node by NodeStep.
LEMMA ReleaseManySteps ==
  ASSUME NEW t, NEW u \in Users, NEW S \in SUBSET Nodes, \A p \in S : Holds(t[p], u),
         NEW q \in Nodes
  PROVE  NodeStep(t[q], ReleaseMany(t, S, u)[q])
<1> DEFINE k == Cardinality({p \in S : q \in Ancestors(p) /\ ~HandsOver(t[p], u)})
<1>1. k \in Nat
  BY UnwindCount
<1>2. ReleaseMany(t, S, u)[q]
        = Unwind(IF q \in S THEN ReleaseNode(t[q], u) ELSE t[q], k)
  BY DEF ReleaseMany
<1> HIDE DEF k
<1> QED
  BY <1>1, <1>2 DEF NodeStep

\* So does an acquisition.
LEMMA AcquireSteps ==
  ASSUME Inv, NEW u \in Users, NEW p \in Targets, NEW m \in RequestModes,
         Acquire(p, u, m), NEW q \in Nodes
  PROVE  NodeStep(tree[q], tree'[q])
<1>1. tree \in [Nodes -> LockNode] /\ p \in Nodes
  BY DEF Inv, Good, Targets
<1>2. CASE AcquireQueuedAtParent(p, u, m)
  <2>1. PICK r \in Nodes : tree' = [tree EXCEPT ![r] = Enqueue(tree[r], u, m)]
    BY <1>2 DEF AcquireQueuedAtParent
  <2>2. tree'[q] = tree[q] \/ tree'[q] = Enqueue(tree[q], u, m)
    BY <1>1, <2>1
  <2> QED
    BY <2>2 DEF NodeStep
<1>3. CASE AcquireByPreemption(p, u, m)
  <2>1. u \in Admins /\ (tree'[q] = tree[q] \/ tree'[q] = Preempt(tree[q], u, m))
    BY <1>1, <1>3 DEF AcquireByPreemption
  <2> QED
    BY <2>1 DEF NodeStep
<1>4. CASE AcquireQueuedAtTarget(p, u, m)
  <2>1. tree'[q] = tree[q] \/ tree'[q] = Enqueue(tree[q], u, m)
    BY <1>1, <1>4 DEF AcquireQueuedAtTarget
  <2> QED
    BY <2>1 DEF NodeStep
<1>5. CASE AcquireGranted(p, u, m)
  <2>1. \/ tree'[q] = tree[q]
        \/ tree'[q] = SetIntent(tree[q])
        \/ CanGrant(tree[q], u, m) /\ tree'[q] = Grant(tree[q], u, m)
    BY <1>5 DEF AcquireGranted
  <2> QED
    BY <2>1 DEF NodeStep
<1> QED
  BY <1>2, <1>3, <1>4, <1>5 DEF Acquire

\* Every step of the lock tree changes every node by NodeStep.
LEMMA EveryStep ==
  ASSUME Inv, [Next]_vars, NEW q \in Nodes
  PROVE  NodeStep(tree[q], tree'[q])
<1>1. ASSUME NEW u \in Users, NEW p \in Targets, NEW m \in RequestModes, Acquire(p, u, m)
      PROVE  NodeStep(tree[q], tree'[q])
  BY <1>1, AcquireSteps
<1>2. ASSUME NEW u \in Users, NEW p \in Targets, Release(p, u)
      PROVE  NodeStep(tree[q], tree'[q])
  <2>1. {p} \in SUBSET Nodes /\ \A r \in {p} : Holds(tree[r], u)
    BY <1>2 DEF Release, Targets
  <2> QED
    BY <1>2, <2>1, ReleaseManySteps DEF Release
<1>3. ASSUME NEW u \in Users, ReleaseAll(u)
      PROVE  NodeStep(tree[q], tree'[q])
  <2>1. HeldBy(tree, u) \in SUBSET Nodes /\ \A r \in HeldBy(tree, u) : Holds(tree[r], u)
    BY DEF HeldBy, Targets
  <2> QED
    BY <1>3, <2>1, ReleaseManySteps DEF ReleaseAll
<1>4. ASSUME NEW p \in Targets, Prune(p)
      PROVE  NodeStep(tree[q], tree'[q])
  <2>1. tree'[q] = tree[q] \/ tree'[q] = FreshNode
    BY <1>4 DEF Prune, Pruned
  <2> QED
    BY <2>1 DEF NodeStep
<1>5. CASE UNCHANGED vars
  BY <1>5 DEF vars, NodeStep
<1> QED
  BY <1>1, <1>2, <1>3, <1>4, <1>5 DEF Next

------------------------------------------------------------------------------
(* The fields of a node after a release and an unwinding *)

\* What freeing a node does to the fields that tell who holds it.
LEMMA FreedFields ==
  ASSUME NEW n, NodeInv(n), NEW u \in Users, Holds(n, u)
  PROVE  LET f == Freed(n, u)
         IN  /\ f \in LockNode
             /\ f.wait_queue = n.wait_queue
             /\ f.exclusive_owner = NoUser
             /\ f.shared_owners = n.shared_owners \ {u}
             /\ f.current_mode = IF n.shared_owners \ {u} = {} THEN "UNLOCKED" ELSE "SHARED"
<1>1. n \in LockNode /\ NodeCoherent(n) /\ Freed(n, u) \in LockNode
  BY FreedOK DEF NodeInv
<1>2. CASE n.current_mode = "EXCLUSIVE"
  BY <1>1, <1>2 DEF Freed, NodeCoherent, LockNode
<1>3. CASE n.current_mode = "SHARED"
  <2>1. n.exclusive_owner = NoUser /\ u \in n.shared_owners
    BY <1>1, <1>3 DEF NodeCoherent, Holds
  <2>2. n.shared_owners = {u} <=> n.shared_owners \ {u} = {}
    BY <2>1
  <2> QED
    BY <1>1, <1>3, <2>1, <2>2 DEF Freed, LockNode
<1> QED
  BY <1>2, <1>3 DEF Holds

\* What promoting the head of the queue does to a node nobody holds.
LEMMA PromoteFields ==
  ASSUME NEW n \in LockNode, n.wait_queue # <<>>,
         n.exclusive_owner = NoUser, n.shared_owners = {}
  PROVE  LET s == Promote(n)
             h == Head(n.wait_queue)
         IN  /\ h \in LockRequest
             /\ s.wait_queue = Tail(n.wait_queue)
             /\ s.current_mode = h.requested_mode
             /\ s.exclusive_owner = IF h.requested_mode = "EXCLUSIVE" THEN h.user_id ELSE NoUser
             /\ s.shared_owners = IF h.requested_mode = "EXCLUSIVE" THEN {} ELSE {h.user_id}
<1> DEFINE h == Head(n.wait_queue)
           g == Grant(n, h.user_id, h.requested_mode)
<1>1. h \in LockRequest
  BY DEF LockNode
<1>2. h.user_id \in Users /\ h.requested_mode \in RequestModes
  BY <1>1 DEF LockRequest
<1> HIDE DEF h
<1>3. /\ g \in LockNode
      /\ g.current_mode = h.requested_mode
      /\ g.exclusive_owner = IF h.requested_mode = "EXCLUSIVE" THEN h.user_id ELSE NoUser
      /\ g.shared_owners = IF h.requested_mode = "EXCLUSIVE" THEN {} ELSE {h.user_id}
      /\ g.wait_queue = n.wait_queue
  <2>1. /\ g \in LockNode
        /\ g.current_mode = h.requested_mode
        /\ g.wait_queue = n.wait_queue
    BY <1>2, GrantKeeps
  <2>2. CASE h.requested_mode = "EXCLUSIVE"
    <3>1. g.exclusive_owner = h.user_id /\ g.shared_owners = {}
      BY <1>2, <2>2 DEF Grant, LockNode
    <3> QED
      BY <2>1, <2>2, <3>1
  <2>3. CASE h.requested_mode = "SHARED"
    <3>1. g.exclusive_owner = NoUser /\ g.shared_owners = {h.user_id}
      BY <1>2, <2>3 DEF Grant, LockNode
    <3> QED
      BY <2>1, <2>3, <3>1
  <2> QED
    BY <1>2, <2>2, <2>3 DEF RequestModes
<1>4. Promote(n) = [g EXCEPT
        !.wait_queue = Tail(g.wait_queue),
        !.pending_exclusive_requests =
           IF h.requested_mode = "EXCLUSIVE" THEN g.pending_exclusive_requests - 1
                                             ELSE g.pending_exclusive_requests]
  BY Zenon DEF Promote, h
<1> HIDE DEF g
<1>5. /\ Promote(n).wait_queue = Tail(n.wait_queue)
      /\ Promote(n).current_mode = g.current_mode
      /\ Promote(n).exclusive_owner = g.exclusive_owner
      /\ Promote(n).shared_owners = g.shared_owners
  BY <1>3, <1>4 DEF LockNode
<1> QED
  BY <1>1, <1>3, <1>5 DEF h

\* s is the node n, handed over by its last holder to the head of its queue.
HandedOver(n, s) ==
  LET h == Head(n.wait_queue)
  IN  /\ n.wait_queue # <<>>
      /\ h \in LockRequest
      /\ s.wait_queue = Tail(n.wait_queue)
      /\ s.current_mode = h.requested_mode
      /\ s.exclusive_owner = IF h.requested_mode = "EXCLUSIVE" THEN h.user_id ELSE NoUser
      /\ s.shared_owners = IF h.requested_mode = "EXCLUSIVE" THEN {} ELSE {h.user_id}

\* s is the node n, which its holder u has left and nobody else has got.
Left(n, s, u) ==
  /\ s.wait_queue = n.wait_queue
  /\ s.exclusive_owner = NoUser
  /\ s.shared_owners = n.shared_owners \ {u}
  /\ s.current_mode = IF n.shared_owners \ {u} = {} THEN "UNLOCKED" ELSE "SHARED"

\* Unwinding a node that keeps to the invariant changes only its counter.
LEMMA UnwindFields ==
  ASSUME NEW n, NodeInv(n), NEW k \in Nat
  PROVE  /\ Unwind(n, k).wait_queue = n.wait_queue
         /\ Unwind(n, k).current_mode = n.current_mode
         /\ Unwind(n, k).exclusive_owner = n.exclusive_owner
         /\ Unwind(n, k).shared_owners = n.shared_owners
<1>1. PICK a \in Int : Unwind(n, k) = [n EXCEPT !.active_locks_beneath = a]
  BY UnwindOK
<1> QED
  BY <1>1 DEF NodeInv, LockNode

\* A release of a node hands it over, or u just leaves it.
LEMMA ReleaseFields ==
  ASSUME NEW n, NodeInv(n), NEW u \in Users, Holds(n, u), NEW k \in Nat
  PROVE  LET s == Unwind(ReleaseNode(n, u), k)
         IN  \/ HandedOver(n, s) /\ n.shared_owners \ {u} = {}
             \/ Left(n, s, u)
<1> DEFINE f == Freed(n, u)
           r == ReleaseNode(n, u)
           s == Unwind(r, k)
<1>1. /\ f \in LockNode
      /\ f.wait_queue = n.wait_queue
      /\ f.exclusive_owner = NoUser
      /\ f.shared_owners = n.shared_owners \ {u}
      /\ f.current_mode = IF n.shared_owners \ {u} = {} THEN "UNLOCKED" ELSE "SHARED"
  BY FreedFields
<1>2. /\ s.wait_queue = r.wait_queue
      /\ s.current_mode = r.current_mode
      /\ s.exclusive_owner = r.exclusive_owner
      /\ s.shared_owners = r.shared_owners
  BY ReleaseNodeOK, UnwindFields
<1> HIDE DEF f, s
<1>3. CASE HandsOver(n, u)
  <2>1. r = Promote(f) /\ f.current_mode = "UNLOCKED" /\ f.wait_queue # <<>>
    BY <1>1, <1>3 DEF ReleaseNode, HandsOver, f
  <2>2. f.shared_owners = {}
    BY <1>1, <2>1
  <2> HIDE DEF r
  <2>3. HandedOver(f, r)
    BY <1>1, <2>1, <2>2, PromoteFields DEF HandedOver
  <2>4. HandedOver(n, s)
    BY <1>1, <1>2, <2>3 DEF HandedOver
  <2> QED
    BY <1>1, <2>2, <2>4 DEF s, r
<1>4. CASE ~HandsOver(n, u)
  <2>1. r = f
    BY <1>4 DEF ReleaseNode, f
  <2> HIDE DEF r
  <2>2. Left(n, s, u)
    BY <1>1, <1>2, <2>1 DEF Left
  <2> QED
    BY <2>2 DEF s, r
<1> QED
  BY <1>3, <1>4

------------------------------------------------------------------------------
(* Action properties *)

\* While a writer waits, a node passes only to administrators and to the head
\* of its queue.
LEMMA OvertakingStep ==
  ASSUME NEW n, NodeInv(n), NEW s, NodeStep(n, s)
  PROVE  NoOvertaking(n, s)
<1> SUFFICES ASSUME n.pending_exclusive_requests > 0,
                    NEW v \in Users, ~Holds(n, v), Holds(s, v)
             PROVE  v \in Admins \/ v = Head(n.wait_queue).user_id
  BY DEF NoOvertaking
<1>1. n \in LockNode /\ NodeCoherent(n) /\ n.current_mode # "UNLOCKED"
  BY PendingMeansTaken DEF NodeInv
<1>2. s # n
  OBVIOUS
<1>3. s # FreshNode
  BY DEF Holds, FreshNode
<1>4. s # SetIntent(n)
  BY <1>1, <1>2 DEF SetIntent
<1>5. ASSUME NEW k \in Nat, s = Unwind(n, k) PROVE FALSE
  BY <1>5, UnwindFields DEF Holds
<1>6. ASSUME NEW u \in Users, NEW k \in Nat, Holds(n, u), s = Unwind(ReleaseNode(n, u), k)
      PROVE  v = Head(n.wait_queue).user_id
  <2>1. CASE HandedOver(n, s)
    BY <2>1 DEF HandedOver, Holds, LockRequest, RequestModes
  <2>2. CASE Left(n, s, u)
    BY <1>1, <2>2 DEF Left, Holds, NodeCoherent
  <2> QED
    BY <1>6, <2>1, <2>2, ReleaseFields
<1>7. ASSUME NEW u \in Users, NEW m \in RequestModes, s = Enqueue(n, u, m)
      PROVE  FALSE
  BY <1>1, <1>7 DEF Enqueue, Holds, LockNode
<1>8. ASSUME NEW u \in Admins, NEW m \in RequestModes, s = Preempt(n, u, m)
      PROVE  v \in Admins
  <2>1. v = u \/ (s.current_mode = "SHARED" /\ v \in n.shared_owners)
    BY <1>1, <1>8 DEF Preempt, Holds, LockNode, RequestModes
  <2> QED
    BY <1>1, <2>1 DEF Holds, NodeCoherent
<1>9. ASSUME NEW u \in Users, NEW m \in RequestModes, CanGrant(n, u, m), s = Grant(n, u, m)
      PROVE  FALSE
  <2>1. m = "EXCLUSIVE" /\ n.exclusive_owner = u
    BY <1>1, <1>9 DEF CanGrant, CanGrantShared, RequestModes
  <2>2. Holds(n, u)
    BY <1>1, <2>1, UsersAssumption DEF NodeCoherent, Holds
  <2>3. v = u
    BY <1>1, <1>9, <2>1 DEF Grant, Holds, LockNode
  <2> QED
    BY <2>2, <2>3
<1> QED
  BY <1>2, <1>3, <1>4, <1>5, <1>6, <1>7, <1>8, <1>9 DEF NodeStep

\* A waiting writer is overtaken by nobody but administrators and by those
\* before it in the queue, in every run.
THEOREM NobodyOvertakesWriters == Spec => WritersNotOvertaken
<1>1. Inv /\ [Next]_vars => \A p \in Nodes : NoOvertaking(tree[p], tree'[p])
  BY EveryStep, OvertakingStep DEF Inv, Good
<1> QED
  BY <1>1, Invariance, PTL DEF Spec, WritersNotOvertaken

\* One step of a node's queue.
LEMMA QueueStep ==
  ASSUME NEW n, NodeInv(n), NEW s, NodeStep(n, s)
  PROVE  ServedInOrder(n, s)
<1>1. n \in LockNode /\ n.wait_queue \in Seq(LockRequest)
  BY DEF NodeInv, LockNode
<1>2. CASE s = n
  BY <1>2 DEF ServedInOrder
<1>3. CASE s = FreshNode
  BY <1>3 DEF ServedInOrder
<1>4. CASE s = SetIntent(n)
  <2>1. s.wait_queue = n.wait_queue
    BY <1>1, <1>4 DEF SetIntent, LockNode
  <2> QED
    BY <2>1 DEF ServedInOrder
<1>5. ASSUME NEW k \in Nat, s = Unwind(n, k) PROVE ServedInOrder(n, s)
  BY <1>5, UnwindFields DEF ServedInOrder
<1>6. ASSUME NEW u \in Users, NEW k \in Nat, Holds(n, u), s = Unwind(ReleaseNode(n, u), k)
      PROVE  ServedInOrder(n, s)
  <2>1. CASE HandedOver(n, s)
    <3>1. {v \in Users : Holds(s, v)} = {Head(n.wait_queue).user_id}
      BY <2>1 DEF HandedOver, Holds, LockRequest, RequestModes
    <3> QED
      BY <2>1, <3>1 DEF HandedOver, ServedInOrder
  <2>2. CASE Left(n, s, u)
    BY <2>2 DEF Left, ServedInOrder
  <2> QED
    BY <1>6, <2>1, <2>2, ReleaseFields
<1>7. ASSUME NEW u \in Users, NEW m \in RequestModes, s = Enqueue(n, u, m)
      PROVE  ServedInOrder(n, s)
  <2> DEFINE r == [user_id |-> u, requested_mode |-> m]
  <2>1. s.wait_queue = Append(n.wait_queue, r) /\ r \in LockRequest
    BY <1>1, <1>7 DEF Enqueue, LockNode, LockRequest
  <2> HIDE DEF r
  <2> QED
    BY <2>1 DEF ServedInOrder
<1>8. ASSUME NEW u \in Users, NEW m \in RequestModes,
             s = Preempt(n, u, m) \/ s = Grant(n, u, m)
      PROVE  ServedInOrder(n, s)
  <2>1. s.wait_queue = n.wait_queue
    BY <1>1, <1>8 DEF Preempt, Grant, LockNode
  <2> QED
    BY <2>1 DEF ServedInOrder
<1> QED
  BY <1>2, <1>3, <1>4, <1>5, <1>6, <1>7, <1>8 DEF NodeStep

\* Whoever joins a queue keeps its place until it is served or the file is
\* deleted, in every run.
THEOREM QueuesServeInOrder == Spec => WaitersServedInOrder
<1>1. Inv /\ [Next]_vars => \A p \in Nodes : ServedInOrder(tree[p], tree'[p])
  BY EveryStep, QueueStep DEF Inv, Good
<1> QED
  BY <1>1, Invariance, PTL DEF Spec, WaitersServedInOrder

------------------------------------------------------------------------------
(* Disconnection *)

\* A user who disconnects keeps nothing but what one of its own queued requests
\* is promoted to, in every reachable state.
THEOREM OnlyPromotionsOutlive == Spec => []DisconnectLeavesOnlyPromotions
<1>1. Inv => DisconnectLeavesOnlyPromotions
  <2> SUFFICES ASSUME Inv, NEW u \in Users, NEW p \in Targets,
                      Holds(ReleaseMany(tree, HeldBy(tree, u), u)[p], u)
               PROVE  /\ Holds(tree[p], u)
                      /\ tree[p].wait_queue # <<>>
                      /\ Head(tree[p].wait_queue).user_id = u
    BY DEF DisconnectLeavesOnlyPromotions
  <2> DEFINE S == HeldBy(tree, u)
             k == Cardinality({q \in S : p \in Ancestors(q) /\ ~HandsOver(tree[q], u)})
             s == ReleaseMany(tree, S, u)[p]
  <2>1. p \in Nodes /\ NodeInv(tree[p]) /\ S \in SUBSET Nodes
    BY DEF Inv, Good, Targets, HeldBy
  <2> HIDE DEF S
  <2>2. k \in Nat /\ s = Unwind(IF p \in S THEN ReleaseNode(tree[p], u) ELSE tree[p], k)
    <3>1. k \in Nat
      BY <2>1, UnwindCount
    <3>2. s = Unwind(IF p \in S THEN ReleaseNode(tree[p], u) ELSE tree[p], k)
      BY <2>1 DEF ReleaseMany
    <3> QED
      BY <3>1, <3>2
  <2> HIDE DEF k, s
  <2>3. Holds(s, u)
    BY DEF s, S
  <2>4. CASE p \in S
    <3>1. Holds(tree[p], u)
      BY <2>4 DEF HeldBy, S
    <3>2. CASE HandedOver(tree[p], s)
      BY <2>3, <3>1, <3>2 DEF HandedOver, Holds, LockRequest, RequestModes
    <3>3. CASE Left(tree[p], s, u)
      BY <2>3, <3>3 DEF Left, Holds
    <3> QED
      BY <2>1, <2>2, <2>4, <3>1, <3>2, <3>3, ReleaseFields
  <2>5. CASE p \notin S
    <3>1. Holds(tree[p], u)
      BY <2>1, <2>2, <2>3, <2>5, UnwindFields DEF Holds
    <3> QED
      BY <2>5, <3>1 DEF HeldBy, S
  <2> QED
    BY <2>4, <2>5
<1> QED
  BY <1>1, Invariance, PTL

------------------------------------------------------------------------------
(* Refinement *)

SameHolders(n, s) ==
  s.exclusive_owner = n.exclusive_owner /\ s.shared_owners = n.shared_owners

\* A step that changes no holder is no step of the plain locks.
LEMMA HoldersUnchanged ==
  ASSUME \A q \in Targets : SameHolders(tree[q], tree'[q])
  PROVE  UNCHANGED Abstract!vars
BY DEF SameHolders, Abstract!vars

\* Neither waiting nor marking nor unwinding changes who holds a node.
LEMMA HoldersKept ==
  ASSUME NEW n, NodeInv(n)
  PROVE  /\ \A u, m : SameHolders(n, Enqueue(n, u, m))
         /\ SameHolders(n, SetIntent(n))
         /\ \A k \in Nat : SameHolders(n, Unwind(n, k))
<1>1. n \in LockNode
  BY DEF NodeInv
<1>2. \A u, m : SameHolders(n, Enqueue(n, u, m))
  BY <1>1 DEF Enqueue, SameHolders, LockNode
<1>3. SameHolders(n, SetIntent(n))
  BY <1>1 DEF SetIntent, SameHolders, LockNode
<1>4. \A k \in Nat : SameHolders(n, Unwind(n, k))
  BY UnwindFields DEF SameHolders
<1> QED
  BY <1>2, <1>3, <1>4

\* An acquisition takes one lock, seizes it, or changes no holder.
LEMMA AcquireRefines ==
  ASSUME Inv, NEW u \in Users, NEW p \in Targets, NEW m \in RequestModes,
         Acquire(p, u, m)
  PROVE  [Abstract!Next]_(Abstract!vars)
<1>1. /\ tree \in [Nodes -> LockNode]
      /\ \A q \in Targets : q \in Nodes /\ NodeInv(tree[q])
      /\ tree[p] \in LockNode /\ NodeCoherent(tree[p])
  BY DEF Inv, Good, Targets, NodeInv
<1>2. ASSUME NEW q \in Nodes, tree' = [tree EXCEPT ![q] = Enqueue(tree[q], u, m)]
      PROVE  UNCHANGED Abstract!vars
  <2>1. \A r \in Targets : SameHolders(tree[r], tree'[r])
    BY <1>1, <1>2, HoldersKept DEF SameHolders
  <2> QED
    BY <2>1, HoldersUnchanged
<1>3. CASE AcquireQueuedAtParent(p, u, m)
  BY <1>2, <1>3 DEF AcquireQueuedAtParent
<1>4. CASE AcquireQueuedAtTarget(p, u, m)
  BY <1>1, <1>2, <1>4 DEF AcquireQueuedAtTarget
<1>5. CASE AcquireByPreemption(p, u, m)
  <2>1. /\ u \in Admins
        /\ tree'[p] = Preempt(tree[p], u, m)
        /\ \A r \in Targets \ {p} : tree'[r] = tree[r]
    BY <1>1, <1>5 DEF AcquireByPreemption
  <2>2. \/ /\ tree'[p].exclusive_owner = u
           /\ tree'[p].shared_owners = {}
        \/ /\ tree'[p].exclusive_owner = NoUser
           /\ tree'[p].shared_owners = tree[p].shared_owners \cup {u}
    BY <1>1, <2>1 DEF Preempt, LockNode
  <2>3. Abstract!Seize(p, u)
    BY <2>1, <2>2 DEF Abstract!Seize, Abstract!Becomes, Abstract!OnlyIn
  <2> QED
    BY <2>3 DEF Abstract!Next
<1>6. CASE AcquireGranted(p, u, m)
  <2>1. CanGrant(tree[p], u, m) /\ tree'[p] = Grant(tree[p], u, m)
    BY <1>1, <1>6 DEF AcquireGranted
  <2>2. \A r \in Targets \ {p} : SameHolders(tree[r], tree'[r])
    <3> TAKE r \in Targets \ {p}
    <3>1. tree'[r] = tree[r] \/ tree'[r] = SetIntent(tree[r])
      BY <1>1, <1>6 DEF AcquireGranted
    <3> QED
      BY <1>1, <3>1, HoldersKept DEF SameHolders
  <2>3. Abstract!OnlyIn({p})
    BY <2>2 DEF Abstract!OnlyIn, SameHolders
  <2>4. CASE m = "EXCLUSIVE"
    <3>1. \/ tree[p].exclusive_owner = u
          \/ tree[p].exclusive_owner = NoUser /\ tree[p].shared_owners = {}
      BY <1>1, <2>1, <2>4 DEF CanGrant, NodeCoherent
    <3>2. tree[p].shared_owners = {}
      BY <1>1, <3>1, UsersAssumption DEF NodeCoherent
    <3>3. tree'[p].exclusive_owner = u /\ tree'[p].shared_owners = {}
      BY <1>1, <2>1, <2>4, <3>2 DEF Grant, LockNode
    <3>4. Abstract!TakeWrite(p, u)
      BY <2>3, <3>1, <3>3 DEF Abstract!TakeWrite, Abstract!Becomes
    <3> QED
      BY <3>4 DEF Abstract!Next
  <2>5. CASE m = "SHARED"
    <3>1. tree[p].exclusive_owner = NoUser
      BY <1>1, <2>1, <2>5 DEF CanGrant, CanGrantShared, NodeCoherent
    <3>2. /\ tree'[p].exclusive_owner = NoUser
          /\ tree'[p].shared_owners = tree[p].shared_owners \cup {u}
      BY <1>1, <2>1, <2>5, <3>1 DEF Grant, LockNode
    <3>3. Abstract!TakeRead(p, u)
      BY <2>3, <3>1, <3>2 DEF Abstract!TakeRead, Abstract!Becomes
    <3> QED
      BY <3>3 DEF Abstract!Next
  <2> QED
    BY <2>4, <2>5 DEF RequestModes
<1> QED
  BY <1>3, <1>4, <1>5, <1>6 DEF Acquire

\* A release, of one lock or of many, gives up just those locks.
LEMMA ReleaseRefines ==
  ASSUME Inv, NEW u \in Users, NEW S \in SUBSET Targets,
         \A p \in S : Holds(tree[p], u), tree' = ReleaseMany(tree, S, u)
  PROVE  Abstract!Next
<1>1. ASSUME NEW l \in Targets
      PROVE  /\ l \in S => \E k \in Nat : tree'[l] = Unwind(ReleaseNode(tree[l], u), k)
             /\ l \notin S => \E k \in Nat : tree'[l] = Unwind(tree[l], k)
  <2> DEFINE k == Cardinality({q \in S : l \in Ancestors(q) /\ ~HandsOver(tree[q], u)})
  <2>1. k \in Nat
    <3>1. S \in SUBSET Nodes
      BY DEF Targets
    <3> QED
      BY <3>1, UnwindCount
  <2>2. tree'[l] = Unwind(IF l \in S THEN ReleaseNode(tree[l], u) ELSE tree[l], k)
    BY DEF ReleaseMany, Targets
  <2> HIDE DEF k
  <2> QED
    BY <2>1, <2>2
<1>2. \A l \in Targets : NodeInv(tree[l]) /\ NodeCoherent(tree[l])
  BY DEF Inv, Good, Targets, NodeInv
<1>3. Abstract!OnlyIn(S)
  BY <1>1, <1>2, HoldersKept DEF Abstract!OnlyIn, SameHolders
<1>4. ASSUME NEW l \in S PROVE Abstract!Leaves(l, u)
  <2>1. PICK k \in Nat : tree'[l] = Unwind(ReleaseNode(tree[l], u), k)
    BY <1>1
  <2>2. l \in Targets /\ NodeCoherent(tree[l]) /\ Holds(tree[l], u)
    BY <1>2
  <2>3. CASE HandedOver(tree[l], tree'[l]) /\ tree[l].shared_owners \ {u} = {}
    <3>1. \E h \in Users : \/ /\ tree'[l].exclusive_owner = h
                             /\ tree'[l].shared_owners = {}
                          \/ /\ tree'[l].exclusive_owner = NoUser
                             /\ tree'[l].shared_owners = {h}
      BY <2>3 DEF HandedOver, LockRequest
    <3>2. tree[l].exclusive_owner = u \/ tree[l].shared_owners = {u}
      BY <2>2, <2>3 DEF Holds
    <3> QED
      BY <2>2, <3>1, <3>2 DEF Abstract!Leaves, Abstract!Becomes
  <2>4. CASE Left(tree[l], tree'[l], u)
    <3>1. \/ tree[l].exclusive_owner = u /\ tree[l].shared_owners = {}
          \/ u \in tree[l].shared_owners
      BY <2>2 DEF Holds, NodeCoherent
    <3> QED
      BY <2>2, <2>4, <3>1 DEF Left, Abstract!Leaves, Abstract!Becomes
  <2> QED
    BY <1>2, <2>1, <2>2, <2>3, <2>4, ReleaseFields
<1>5. Abstract!GiveUp(S, u)
  BY <1>3, <1>4 DEF Abstract!GiveUp
<1> QED
  BY <1>5 DEF Abstract!Next

\* Deleting a file or folder destroys the locks from there on.
LEMMA PruneRefines ==
  ASSUME NEW p \in Targets, Prune(p)
  PROVE  Abstract!Next
<1> DEFINE S == Subtree(p) \cap Targets
<1>1. \A l \in Targets : tree'[l] = IF l \in S THEN FreshNode ELSE tree[l]
  BY DEF Prune, Pruned, Targets
<1> HIDE DEF S
<1>2. S \in SUBSET Targets
  BY DEF S
<1>3. Abstract!Destroy(S)
  BY <1>1, <1>2 DEF Abstract!Destroy, Abstract!Becomes, Abstract!OnlyIn, FreshNode
<1> QED
  BY <1>2, <1>3 DEF Abstract!Next

\* The lock tree implements the plain readers-writer locks: whatever the
\* hierarchy, the queues and the counters do, every step takes, seizes, gives
\* up, hands over or destroys locks the way RWLocks allows, or changes none.
THEOREM LockTreeImplementsRWLocks == Spec => ImplementsRWLocks
<1>1. Init => Abstract!Init
  BY DEF Init, Abstract!Init, FreshNode, Targets
<1>2. Inv /\ [Next]_vars => [Abstract!Next]_(Abstract!vars)
  <2> SUFFICES ASSUME Inv, [Next]_vars PROVE [Abstract!Next]_(Abstract!vars)
    OBVIOUS
  <2>1. ASSUME NEW u \in Users, NEW p \in Targets, NEW m \in RequestModes, Acquire(p, u, m)
        PROVE  [Abstract!Next]_(Abstract!vars)
    BY <2>1, AcquireRefines
  <2>2. ASSUME NEW u \in Users, NEW p \in Targets, Release(p, u)
        PROVE  Abstract!Next
    <3>1. {p} \in SUBSET Targets /\ \A q \in {p} : Holds(tree[q], u)
      BY <2>2 DEF Release
    <3> QED
      BY <2>2, <3>1, ReleaseRefines DEF Release
  <2>3. ASSUME NEW u \in Users, ReleaseAll(u)
        PROVE  Abstract!Next
    <3>1. HeldBy(tree, u) \in SUBSET Targets /\ \A q \in HeldBy(tree, u) : Holds(tree[q], u)
      BY DEF HeldBy
    <3> QED
      BY <2>3, <3>1, ReleaseRefines DEF ReleaseAll
  <2>4. ASSUME NEW p \in Targets, Prune(p)
        PROVE  Abstract!Next
    BY <2>4, PruneRefines
  <2>5. CASE UNCHANGED vars
    BY <2>5 DEF vars, Abstract!vars
  <2> QED
    BY <2>1, <2>2, <2>3, <2>4, <2>5 DEF Next
<1> QED
  BY <1>1, <1>2, Invariance, PTL DEF Spec, ImplementsRWLocks, Abstract!Spec

------------------------------------------------------------------------------
(* Releasing the locks of a user one after the other *)

\* Counters are not followed below their bound.
Followed(t) == \A q \in Nodes : t[q].active_locks_beneath >= -MaxUnwind

\* What an unwinding makes of a counter.
Unwound(a, k) == IF a - k >= -MaxUnwind THEN a - k ELSE -MaxUnwind

\* An unwinding only changes the counter of a node in order.
LEMMA UnwindIs ==
  ASSUME NEW n, NodeInv(n), NEW k \in Nat
  PROVE  Unwind(n, k) = [n EXCEPT !.active_locks_beneath = Unwound(@, k)]
<1>1. n \in LockNode /\ n.active_locks_beneath \in Int /\ n.active_locks_beneath <= 0
  BY DEF NodeInv, LockNode
<1>2. n.active_locks_beneath \notin 1..k
  BY <1>1
<1>3. n = [n EXCEPT !.current_mode = n.current_mode]
  BY <1>1 DEF LockNode
<1> QED
  BY <1>1, <1>2, <1>3 DEF Unwind, Unwound, LockNode

\* Unwinding by some and then by more is unwinding by all.
LEMMA UnwindTwice ==
  ASSUME NEW n, NodeInv(n), NEW j \in Nat, NEW k \in Nat
  PROVE  Unwind(Unwind(n, j), k) = Unwind(n, j + k)
<1> DEFINE s == Unwind(n, j)
<1>1. NodeInv(s) /\ s = [n EXCEPT !.active_locks_beneath = Unwound(@, j)]
  BY UnwindIs, UnwindOK
<1>2. n \in LockNode /\ n.active_locks_beneath \in Int
  BY DEF NodeInv, LockNode
<1> HIDE DEF s
<1>3. Unwind(s, k) = [s EXCEPT !.active_locks_beneath = Unwound(@, k)]
  BY <1>1, UnwindIs
<1>4. Unwind(n, j + k) = [n EXCEPT !.active_locks_beneath = Unwound(@, j + k)]
  BY UnwindIs
<1>5. Unwound(Unwound(n.active_locks_beneath, j), k) = Unwound(n.active_locks_beneath, j + k)
  BY <1>2, BoundsAssumption DEF Unwound
<1>6. s.active_locks_beneath = Unwound(n.active_locks_beneath, j)
  BY <1>1, <1>2 DEF LockNode
<1>7. [s EXCEPT !.active_locks_beneath = Unwound(@, k)]
        = [n EXCEPT !.active_locks_beneath = Unwound(s.active_locks_beneath, k)]
  BY <1>1, <1>2 DEF LockNode
<1> QED
  BY <1>3, <1>4, <1>5, <1>6, <1>7 DEF s

\* Unwinding by nothing changes nothing.
LEMMA UnwindNone ==
  ASSUME NEW n, NodeInv(n), n.active_locks_beneath >= -MaxUnwind
  PROVE  Unwind(n, 0) = n
<1>1. n \in LockNode /\ n.active_locks_beneath \in Int
  BY DEF NodeInv, LockNode
<1>2. Unwound(n.active_locks_beneath, 0) = n.active_locks_beneath
  BY <1>1, BoundsAssumption DEF Unwound
<1>3. Unwind(n, 0) = [n EXCEPT !.active_locks_beneath = Unwound(@, 0)]
  BY UnwindIs
<1> QED
  BY <1>1, <1>2, <1>3 DEF LockNode

\* A release does not look at the counter.
LEMMA ReleaseUnwound ==
  ASSUME NEW n, NodeInv(n), NEW u \in Users, Holds(n, u), NEW k \in Nat
  PROVE  /\ HandsOver(Unwind(n, k), u) <=> HandsOver(n, u)
         /\ ReleaseNode(Unwind(n, k), u) = Unwind(ReleaseNode(n, u), k)
<1> DEFINE a == Unwound(n.active_locks_beneath, k)
           s == Unwind(n, k)
           f == Freed(n, u)
           g == Freed(s, u)
<1>1. n \in LockNode /\ n.active_locks_beneath \in Int
  BY DEF NodeInv, LockNode
<1>2. s = [n EXCEPT !.active_locks_beneath = a]
  BY UnwindIs
<1> HIDE DEF s, a
<1>3. g = [f EXCEPT !.active_locks_beneath = a]
  BY <1>1, <1>2 DEF Freed, LockNode
<1>4. /\ f \in LockNode /\ f.wait_queue = n.wait_queue
      /\ f.active_locks_beneath = n.active_locks_beneath
  BY FreedOK
<1>5. s.wait_queue = n.wait_queue
  BY <1>1, <1>2 DEF LockNode
<1> HIDE DEF f, g
<1>6. g.current_mode = f.current_mode /\ g.wait_queue = f.wait_queue
  BY <1>3, <1>4 DEF LockNode
<1>7. HandsOver(s, u) <=> HandsOver(n, u)
  BY <1>5, <1>6 DEF HandsOver, f, g
<1>8. Unwind(ReleaseNode(n, u), k)
        = [ReleaseNode(n, u) EXCEPT !.active_locks_beneath = Unwound(@, k)]
  BY ReleaseNodeOK, UnwindIs
<1>9. CASE ~HandsOver(n, u)
  <2>1. ReleaseNode(n, u) = f /\ ReleaseNode(s, u) = g
    BY <1>7, <1>9 DEF ReleaseNode, f, g
  <2> QED
    BY <1>3, <1>4, <1>7, <1>8, <2>1 DEF a, s
<1>10. CASE HandsOver(n, u)
  <2>1. ReleaseNode(n, u) = Promote(f) /\ ReleaseNode(s, u) = Promote(g)
    BY <1>7, <1>10 DEF ReleaseNode, f, g
  <2>2. /\ Promote(g) = [Promote(f) EXCEPT !.active_locks_beneath = a]
        /\ Promote(f).active_locks_beneath = f.active_locks_beneath
    BY <1>3, <1>4 DEF Promote, Grant, LockNode
  <2> QED
    BY <1>4, <1>7, <1>8, <2>1, <2>2 DEF a, s
<1> QED
  BY <1>9, <1>10

\* How often a release of S unwinds q.
UnwindsOf(t, S, u, q) ==
  Cardinality({p \in S : q \in Ancestors(p) /\ ~HandsOver(t[p], u)})

\* It is a number.
LEMMA UnwindsCounted ==
  ASSUME NEW t, NEW u, NEW S \in SUBSET Nodes, NEW q
  PROVE  UnwindsOf(t, S, u, q) \in Nat
BY UnwindCount DEF UnwindsOf

\* What becomes of q but for the unwinding.
ReleasedAt(t, S, u, q) == IF q \in S THEN ReleaseNode(t[q], u) ELSE t[q]

\* A release of no lock changes nothing.
LEMMA ReleaseNothing ==
  ASSUME NEW t, Good(t), Followed(t), NEW u
  PROVE  ReleaseMany(t, {}, u) = t
<1>1. ASSUME NEW q \in Nodes
      PROVE  Unwind(IF q \in {} THEN ReleaseNode(t[q], u) ELSE t[q],
                    Cardinality({p \in {} : q \in Ancestors(p) /\ ~HandsOver(t[p], u)})) = t[q]
  <2>1. {p \in {} : q \in Ancestors(p) /\ ~HandsOver(t[p], u)} = {}
    OBVIOUS
  <2>2. Unwind(t[q], 0) = t[q]
    BY UnwindNone DEF Good, Followed
  <2> QED
    BY <2>1, <2>2, FS_EmptySet, Zenon
<1>2. ReleaseMany(t, {}, u) = [q \in Nodes |-> t[q]]
  BY <1>1, Zenon DEF ReleaseMany
<1> QED
  BY <1>2 DEF Good

\* A node below a release of the locks S of u and then of one more.
LEMMA OneMoreAt ==
  ASSUME NEW t, Good(t), NEW u \in Users, NEW S \in SUBSET Nodes, NEW p \in Nodes \ S,
         \A x \in S \cup {p} : Holds(t[x], u), NEW q \in Nodes
  PROVE  ReleaseMany(ReleaseMany(t, S, u), {p}, u)[q] = ReleaseMany(t, S \cup {p}, u)[q]
<1> DEFINE r == ReleaseMany(t, S, u)
           T == S \cup {p}
           j == UnwindsOf(t, S, u, q)
           k == UnwindsOf(r, {p}, u, q)
           n == ReleasedAt(t, S, u, q)
<1>1. r[p] = Unwind(t[p], UnwindsOf(t, S, u, p))
  BY DEF ReleaseMany, UnwindsOf
<1>2. r[q] = Unwind(n, j)
  BY DEF ReleaseMany, UnwindsOf, ReleasedAt
<1>3. ReleaseMany(r, {p}, u)[q] = Unwind(IF q = p THEN ReleaseNode(r[q], u) ELSE r[q], k)
  BY Zenon DEF ReleaseMany, UnwindsOf
<1>4. ReleaseMany(t, T, u)[q] = Unwind(ReleasedAt(t, T, u, q), UnwindsOf(t, T, u, q))
  BY Zenon DEF ReleaseMany, UnwindsOf, ReleasedAt
<1>5. j \in Nat /\ k \in Nat /\ UnwindsOf(t, S, u, p) \in Nat
  <2>1. {p} \in SUBSET Nodes
    OBVIOUS
  <2> QED
    BY <2>1, UnwindsCounted
<1>6. NodeInv(t[q]) /\ NodeInv(t[p]) /\ Holds(t[p], u)
  BY DEF Good
<1>7. NodeInv(n)
  BY <1>6, ReleaseNodeOK DEF ReleasedAt
<1>8. HandsOver(r[p], u) <=> HandsOver(t[p], u)
  BY <1>1, <1>5, <1>6, ReleaseUnwound
<1>9. UnwindsOf(t, T, u, q) = j + k
  <2> DEFINE Counted(w) == q \in Ancestors(w) /\ ~HandsOver(t[w], u)
             D == {w \in S : Counted(w)}
  <2>1. IsFiniteSet(D) /\ Cardinality(D) = j
    BY NodesAssumption, FS_Subset DEF UnwindsOf
  <2>2. CASE Counted(p)
    <3>1. {w \in T : Counted(w)} = D \cup {p} /\ p \notin D
      BY <2>2
    <3>2. {w \in {p} : q \in Ancestors(w) /\ ~HandsOver(r[w], u)} = {p}
      BY <1>8, <2>2
    <3>3. k = 1
      BY <3>2, FS_Singleton DEF UnwindsOf
    <3>4. UnwindsOf(t, T, u, q) = Cardinality(D \cup {p})
      BY <3>1, Zenon DEF UnwindsOf
    <3> HIDE DEF D, j, k
    <3> QED
      BY <2>1, <3>1, <3>3, <3>4, FS_AddElement
  <2>3. CASE ~Counted(p)
    <3>1. {w \in T : Counted(w)} = D
      BY <2>3
    <3>2. {w \in {p} : q \in Ancestors(w) /\ ~HandsOver(r[w], u)} = {}
      BY <1>8, <2>3
    <3>3. k = 0
      BY <3>2, FS_EmptySet DEF UnwindsOf
    <3>4. UnwindsOf(t, T, u, q) = Cardinality(D)
      BY <3>1, Zenon DEF UnwindsOf
    <3> HIDE DEF D, j, k
    <3> QED
      BY <1>5, <2>1, <3>3, <3>4
  <2> QED
    BY <2>2, <2>3
<1> HIDE DEF r, j, k, n
<1>10. CASE q = p
  <2>1. n = t[p] /\ ReleasedAt(t, T, u, q) = ReleaseNode(t[p], u)
    BY <1>10 DEF n, ReleasedAt
  <2>2. ReleaseNode(r[q], u) = Unwind(ReleaseNode(t[p], u), j)
    BY <1>2, <1>5, <1>6, <2>1, ReleaseUnwound
  <2>3. Unwind(Unwind(ReleaseNode(t[p], u), j), k) = Unwind(ReleaseNode(t[p], u), j + k)
    BY <1>5, <1>6, ReleaseNodeOK, UnwindTwice
  <2>4. ReleaseMany(r, {p}, u)[q] = ReleaseMany(t, T, u)[q]
    BY <1>3, <1>4, <1>9, <1>10, <2>1, <2>2, <2>3, Zenon
  <2> QED
    BY <2>4 DEF r
<1>11. CASE q # p
  <2>1. ReleasedAt(t, T, u, q) = n
    BY <1>11 DEF n, ReleasedAt
  <2>2. Unwind(Unwind(n, j), k) = Unwind(n, j + k)
    BY <1>5, <1>7, UnwindTwice
  <2>3. ReleaseMany(r, {p}, u)[q] = ReleaseMany(t, T, u)[q]
    BY <1>2, <1>3, <1>4, <1>9, <1>11, <2>1, <2>2, Zenon
  <2> QED
    BY <2>3 DEF r
<1> QED
  BY <1>10, <1>11

\* To release the locks S and then one more is to release all of them at once.
LEMMA OneMoreReleased ==
  ASSUME NEW t, Good(t), NEW u \in Users, NEW S \in SUBSET Nodes, NEW p \in Nodes \ S,
         \A x \in S \cup {p} : Holds(t[x], u)
  PROVE  ReleaseMany(ReleaseMany(t, S, u), {p}, u) = ReleaseMany(t, S \cup {p}, u)
<1> DEFINE r == ReleaseMany(ReleaseMany(t, S, u), {p}, u)
           s == ReleaseMany(t, S \cup {p}, u)
<1>1. \A q \in Nodes : r[q] = s[q]
  BY OneMoreAt
<1>2. r = [q \in Nodes |-> r[q]] /\ s = [q \in Nodes |-> s[q]]
  BY DEF ReleaseMany
<1> HIDE DEF r, s
<1>3. r = s
  BY <1>1, <1>2, Zenon
<1> QED
  BY <1>3 DEF r, s

\* Every step keeps the counters at their bound or above.
LEMMA FollowedStep ==
  ASSUME NEW n, NodeInv(n), n.active_locks_beneath >= -MaxUnwind, NEW s, NodeStep(n, s)
  PROVE  s.active_locks_beneath >= -MaxUnwind
<1>1. n \in LockNode /\ n.active_locks_beneath \in Int
  BY DEF NodeInv, LockNode
<1>2. ASSUME NEW m, NodeInv(m), NEW k \in Nat
      PROVE  Unwind(m, k).active_locks_beneath >= -MaxUnwind
  <2>1. m \in LockNode /\ m.active_locks_beneath \in Int
    BY <1>2 DEF NodeInv, LockNode
  <2>2. Unwound(m.active_locks_beneath, k) >= -MaxUnwind
    BY <2>1, BoundsAssumption DEF Unwound
  <2>3. Unwind(m, k) = [m EXCEPT !.active_locks_beneath = Unwound(@, k)]
    BY <1>2, UnwindIs
  <2> QED
    BY <2>1, <2>2, <2>3 DEF LockNode
<1>3. ASSUME NEW k \in Nat, s = Unwind(n, k) PROVE s.active_locks_beneath >= -MaxUnwind
  BY <1>2, <1>3
<1>4. ASSUME NEW u \in Users, NEW k \in Nat, Holds(n, u), s = Unwind(ReleaseNode(n, u), k)
      PROVE  s.active_locks_beneath >= -MaxUnwind
  <2>1. NodeInv(ReleaseNode(n, u))
    BY <1>4, ReleaseNodeOK
  <2> QED
    BY <1>2, <1>4, <2>1
<1>5. ASSUME NEW u \in Users, NEW m \in RequestModes,
             s \in {Enqueue(n, u, m), Preempt(n, u, m), Grant(n, u, m)}
      PROVE  s.active_locks_beneath = n.active_locks_beneath
  BY <1>1, <1>5 DEF Enqueue, Preempt, Grant, LockNode
<1>6. SetIntent(n).active_locks_beneath = n.active_locks_beneath
  BY <1>1 DEF SetIntent, LockNode
<1>7. FreshNode.active_locks_beneath >= -MaxUnwind
  BY BoundsAssumption DEF FreshNode
<1> QED
  BY <1>3, <1>4, <1>5, <1>6, <1>7 DEF NodeStep

\* The counters are always followed to their bound only.
LEMMA AlwaysFollowed == Spec => [](Inv /\ Followed(tree))
<1>1. Init => Followed(tree)
  BY BoundsAssumption DEF Init, Followed, FreshNode
<1>2. ASSUME Inv, Followed(tree), [Next]_vars PROVE Followed(tree)'
  <2> SUFFICES ASSUME NEW q \in Nodes PROVE tree'[q].active_locks_beneath >= -MaxUnwind
    BY DEF Followed
  <2>1. NodeInv(tree[q]) /\ tree[q].active_locks_beneath >= -MaxUnwind
    BY <1>2 DEF Inv, Good, Followed
  <2>2. NodeStep(tree[q], tree'[q])
    BY <1>2, EveryStep
  <2> QED
    BY <2>1, <2>2, FollowedStep
<1> QED
  BY <1>1, <1>2, Invariance, PTL DEF Spec

\* What is left to release, of the locks at the places s in this order.
Locks(order, s) == {order[i] : i \in s}

\* f says for every set of places what releasing the locks there, the last place
\* last, makes of t: the function that folding over the order defines.
Releases(t, order, u, f, n) ==
  f = [s \in SUBSET (1..n) |->
         IF s = {} THEN t ELSE ReleaseMany(f[s \ {Max(s)}], {order[Max(s)]}, u)]

\* The fold is the value of such a function for all places.
LEMMA FoldIsRelease ==
  ASSUME NEW t, NEW order, NEW u, NEW n \in Nat, DOMAIN order = 1..n
  PROVE  FoldLeft(LAMBDA r, p : ReleaseMany(r, {p}, u), t, order)
           = (CHOOSE f : Releases(t, order, u, f, n))[1..n]
BY Zenon DEF FoldLeft, MapThenFoldSet, Releases

\* An order of a finite set puts each of its members at one place.
LEMMA OrderPlaces ==
  ASSUME NEW S, IsFiniteSet(S), NEW order \in SetToSeqs(S)
  PROVE  LET n == Cardinality(S)
         IN  /\ n \in Nat
             /\ order \in [1..n -> S]
             /\ \A i, j \in 1..n : order[i] = order[j] => i = j
             /\ Locks(order, 1..n) = S
<1> DEFINE n == Cardinality(S)
<1>1. n \in Nat
  BY FS_CardinalityType
<1>2. order \in [1..n -> S] /\ \A i, j \in 1..n : order[i] = order[j] => i = j
  BY DEF SetToSeqs
<1>3. IsFiniteSet(1..n) /\ Cardinality(1..n) = n
  BY <1>1, FS_Interval
<1>4. order \in Injection(1..n, S)
  BY <1>2 DEF Injection, IsInjective
<1>5. order \in Surjection(1..n, S)
  BY <1>3, <1>4, FS_Injection
<1> QED
  BY <1>1, <1>2, <1>5 DEF Surjection, Locks

\* It is this one.
ReleasedFor(t, order, u, n) == [s \in SUBSET (1..n) |-> ReleaseMany(t, Locks(order, s), u)]

\* Releasing the locks at a set of places is releasing those at the others first and
\* then the last, so there is a function that the fold defines.
LEMMA ReleasesThere ==
  ASSUME NEW t, Good(t), Followed(t), NEW u \in Users, NEW S \in SUBSET Nodes,
         \A p \in S : Holds(t[p], u), NEW n \in Nat, NEW order \in [1..n -> S],
         \A i, j \in 1..n : order[i] = order[j] => i = j
  PROVE  Releases(t, order, u, ReleasedFor(t, order, u, n), n)
<1> DEFINE f == [s \in SUBSET (1..n) |-> ReleaseMany(t, Locks(order, s), u)]
           g == [s \in SUBSET (1..n) |->
                   IF s = {} THEN t ELSE ReleaseMany(f[s \ {Max(s)}], {order[Max(s)]}, u)]
<1>1. ASSUME NEW s \in SUBSET (1..n), s = {} PROVE f[s] = t
  <2>1. Locks(order, s) = {}
    BY <1>1 DEF Locks
  <2> QED
    BY <2>1, ReleaseNothing
<1>2. ASSUME NEW s \in SUBSET (1..n), s # {}
      PROVE  f[s] = ReleaseMany(f[s \ {Max(s)}], {order[Max(s)]}, u)
  <2>1. Max(s) \in s
    BY <1>2, Largest
  <2> DEFINE p == order[Max(s)]
             L == Locks(order, s \ {Max(s)})
  <2>2. L \in SUBSET S /\ p \in S /\ p \notin L /\ L \cup {p} = Locks(order, s)
    BY <2>1 DEF Locks
  <2>3. L \in SUBSET Nodes /\ p \in Nodes \ L /\ \A x \in L \cup {p} : Holds(t[x], u)
    BY <2>2
  <2>4. s \ {Max(s)} \in SUBSET (1..n)
    OBVIOUS
  <2> HIDE DEF p, L
  <2>5. ReleaseMany(ReleaseMany(t, L, u), {p}, u) = ReleaseMany(t, L \cup {p}, u)
    BY <2>3, OneMoreReleased
  <2>6. f[s \ {Max(s)}] = ReleaseMany(t, L, u) /\ f[s] = ReleaseMany(t, Locks(order, s), u)
    BY <2>4 DEF L
  <2> QED
    BY <2>2, <2>5, <2>6, Zenon DEF p
<1>3. \A s \in SUBSET (1..n) : f[s] = g[s]
  <2> HIDE DEF f
  <2> QED
    BY <1>1, <1>2
<1>4. f = [s \in SUBSET (1..n) |-> f[s]] /\ g = [s \in SUBSET (1..n) |-> g[s]]
  OBVIOUS
<1> HIDE DEF f, g
<1>5. f = g
  BY <1>3, <1>4, Zenon
<1> QED
  BY <1>5 DEF f, g, Releases, ReleasedFor

\* Any such function says so of the first k places.
LEMMA ReleasesAre ==
  ASSUME NEW t, NEW u, NEW n \in Nat, NEW order, NEW f, NEW g,
         Releases(t, order, u, f, n), Releases(t, order, u, g, n), NEW k \in 0..n
  PROVE  f[1..k] = g[1..k]
<1> DEFINE D == {i \in Nat : i <= n => f[1..i] = g[1..i]}
<1>1. \A s \in SUBSET (1..n) :
        /\ f[s] = IF s = {} THEN t ELSE ReleaseMany(f[s \ {Max(s)}], {order[Max(s)]}, u)
        /\ g[s] = IF s = {} THEN t ELSE ReleaseMany(g[s \ {Max(s)}], {order[Max(s)]}, u)
  BY Zenon DEF Releases
<1>2. 0 \in D
  <2>1. 1..0 = {} /\ 1..0 \in SUBSET (1..n)
    OBVIOUS
  <2> QED
    BY <1>1, <2>1
<1>3. ASSUME NEW i \in Nat, i \in D PROVE i + 1 \in D
  <2> SUFFICES ASSUME i + 1 <= n PROVE f[1..(i + 1)] = g[1..(i + 1)]
    OBVIOUS
  <2>1. f[1..i] = g[1..i]
    BY <1>3
  <2>2. 1..(i + 1) \in SUBSET (1..n)
    OBVIOUS
  <2>3. /\ Max(1..(i + 1)) = i + 1
        /\ (1..(i + 1)) \ {i + 1} = 1..i
        /\ 1..(i + 1) # {}
    BY LargestOfFirst
  <2> HIDE DEF D
  <2>4. /\ f[1..(i + 1)] = ReleaseMany(f[1..i], {order[i + 1]}, u)
        /\ g[1..(i + 1)] = ReleaseMany(g[1..i], {order[i + 1]}, u)
    BY <1>1, <2>2, <2>3, Zenon
  <2> QED
    BY <2>1, <2>4, Zenon
<1> HIDE DEF D
<1>4. k \in D
  BY <1>2, <1>3, SetInduction
<1> QED
  BY <1>4 DEF D

\* In whatever order the locks of a disconnecting user are released, the outcome is the
\* same: no release changes what another one finds, and the counters of the
\* ancestors go down by as much.
THEOREM AnyReleaseOrder == Spec => []ReleaseOrderIrrelevant
<1>1. ASSUME Inv, Followed(tree) PROVE ReleaseOrderIrrelevant
  <2> SUFFICES ASSUME NEW u \in Users, NEW order \in SetToSeqs(HeldBy(tree, u))
               PROVE  FoldLeft(LAMBDA t, p : ReleaseMany(t, {p}, u), tree, order)
                        = ReleaseMany(tree, HeldBy(tree, u), u)
    BY DEF ReleaseOrderIrrelevant
  <2> DEFINE S == HeldBy(tree, u)
             n == Cardinality(S)
             f == ReleasedFor(tree, order, u, n)
             g == CHOOSE h : Releases(tree, order, u, h, n)
  <2>1. S \in SUBSET Nodes /\ \A p \in S : Holds(tree[p], u)
    BY DEF HeldBy, Targets
  <2>2. IsFiniteSet(S)
    BY <2>1, NodesAssumption, FS_Subset
  <2>3. /\ n \in Nat
        /\ order \in [1..n -> S]
        /\ \A i, j \in 1..n : order[i] = order[j] => i = j
        /\ Locks(order, 1..n) = S
    BY <2>2, OrderPlaces
  <2>4. Releases(tree, order, u, f, n)
    <3> HIDE DEF S, n
    <3> QED
      BY <1>1, <2>1, <2>3, ReleasesThere DEF Inv
  <2>5. Releases(tree, order, u, g, n)
    <3> HIDE DEF f, n, S
    <3> QED
      BY <2>4, Zenon
  <2>6. FoldLeft(LAMBDA t, p : ReleaseMany(t, {p}, u), tree, order) = g[1..n]
    <3>1. DOMAIN order = 1..n
      BY <2>3
    <3> HIDE DEF S, n
    <3> QED
      BY <2>3, <3>1, FoldIsRelease
  <2>7. f[1..n] = g[1..n]
    <3> HIDE DEF f, g, S, n
    <3>1. n \in 0..n
      BY <2>3
    <3> QED
      BY <2>3, <2>4, <2>5, <3>1, ReleasesAre
  <2>8. f[1..n] = ReleaseMany(tree, S, u)
    BY <2>3 DEF ReleasedFor
  <2> QED
    BY <2>6, <2>7, <2>8, Zenon
<1> QED
  BY <1>1, AlwaysFollowed, PTL

=============================================================================
