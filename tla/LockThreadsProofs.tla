-------------------------- MODULE LockThreadsProofs --------------------------
(***************************************************************************)
(* Proofs about LockThreads, for any threads, any trie and any number of   *)
(* nodes made for a path.                                                  *)
(*                                                                         *)
(* What one operation does to one node was proved for LockTree and is      *)
(* taken from there (LT).  What is new is which node a thread works on:    *)
(* one that was made for the path it is at, in the tree still or not; and  *)
(* who keeps which mutex, which shows how threads can block each other.    *)
(***************************************************************************)
EXTENDS LockThreads, Induction, FiniteSetTheorems

LT == INSTANCE LockTreeProofs WITH tree <- [p \in Nodes |-> node[NodeAt[p]]]

------------------------------------------------------------------------------
(* The inductive invariant *)

NodeInv(n) == LT!NodeInv(n)

\* o has been made, as the root has from the start.
Real(o) == o = RootNode \/ o[2] \in 1..made[o[1]]

NodesOK ==
  /\ node \in [Objects -> hdlm!LockNode]
  /\ \A o \in Objects : NodeInv(node[o])

\* Nobody locks the root: the paths of calls are not empty.
Unowned(n) == n.exclusive_owner = NoUser /\ n.shared_owners = {}
RootUnowned == Unowned(node[RootNode])

\* The children of a node are real and of different paths; a node not made yet
\* has none and is as it will be when it is made.
TrieOK ==
  /\ kids \in [Objects -> SUBSET Objects]
  /\ made \in [Nodes -> 0..MaxMade]
  /\ \A o \in Objects : \A c \in kids[o] : c[1] # <<>> /\ Real(c)
  /\ \A o \in Objects : \A c, d \in kids[o] : c[1] = d[1] => c = d
  /\ \A o \in Objects : ~Real(o) => node[o] = hdlm!FreshNode /\ kids[o] = {}

MutexesOK ==
  /\ writer \in [Objects -> Users \cup {NoUser}]
  /\ sharers \in [Objects -> SUBSET Users]
  /\ batching \in Users \cup {NoUser}

Files == Nodes \ {<<>>}

Threads ==
  [ call : Operations \cup {"none", "release_all"}, pc : PCs, paths : Seq(Files),
    i : Nat, mode : hdlm!RequestModes, trail : Seq(Objects),
    seen : SUBSET Objects, found : SUBSET Files ]

\* Every node a thread has on its trail is real.
RealNodes == {o \in Objects : Real(o)}
TrailReal(r) == r.trail \in Seq(RealNodes)

GoingDown == {"descend", "find", "cut", "verify"}
AtTarget == {"take", "free", "inspect"}

\* On the way down a thread is at the node of the part of its path it has come
\* along, and it has not come to the end of the path; its target is not the
\* root; what it goes back to, or walks over, starts at the root.
PlaceOK(r) ==
  LET path == r.paths[r.i]
      here == Last(r.trail)
  IN  /\ r.pc \notin {"idle", "walk"} => r.i \in 1..Len(r.paths) /\ r.trail # <<>>
      /\ r.pc \in GoingDown => /\ Len(r.trail) <= Len(path)
                               /\ here[1] = SubSeq(path, 1, Len(r.trail) - 1)
      /\ r.pc \in AtTarget => here[1] # <<>>
      /\ r.pc \in {"take", "ascend"} => Len(r.trail) >= 2
      /\ r.pc \notin {"idle", "walk", "ascend"} => r.trail[1] = RootNode
      /\ r.pc = "walk" =>
           IF r.seen = {} THEN r.trail = <<>> ELSE r.trail # <<>> /\ r.trail[1] = RootNode

ThreadOK(r) == TrailReal(r) /\ PlaceOK(r)

ThreadsOK == th \in [Users -> Threads] /\ \A t \in Users : ThreadOK(th[t])

\* The target of an ascent is kept from the others, and held.
GrantsKept ==
  \A t \in Users :
    At(t, "ascend") => writer[Here(t)] = t /\ hdlm!Holds(node[Here(t)], t)

IInv == NodesOK /\ RootUnowned /\ TrieOK /\ MutexesOK /\ ThreadsOK /\ GrantsKept

------------------------------------------------------------------------------
(* Operations on one node, as proved for LockTree *)

\* The operators of the lock tree are the same, by whichever name.
LEMMA SameOperators ==
  /\ hdlm!LockNode = LT!LockNode
  /\ hdlm!FreshNode = LT!FreshNode
  /\ hdlm!RequestModes = LT!RequestModes
  /\ \A n, u, m : /\ hdlm!Enqueue(n, u, m) = LT!Enqueue(n, u, m)
                  /\ hdlm!Preempt(n, u, m) = LT!Preempt(n, u, m)
                  /\ hdlm!Grant(n, u, m) = LT!Grant(n, u, m)
                  /\ hdlm!CanGrant(n, u, m) <=> LT!CanGrant(n, u, m)
  /\ \A n : hdlm!SetIntent(n) = LT!SetIntent(n)
  /\ \A n, k : hdlm!Unwind(n, k) = LT!Unwind(n, k)
  /\ \A n, u : /\ hdlm!Holds(n, u) <=> LT!Holds(n, u)
               /\ hdlm!ReleaseNode(n, u) = LT!ReleaseNode(n, u)
<1>1. hdlm!LockNode = LT!LockNode
  BY Zenon DEF hdlm!LockNode, LT!LockNode, hdlm!LockMode, LT!LockMode, hdlm!LockRequest,
     LT!LockRequest, hdlm!RequestModes, LT!RequestModes
<1>2. hdlm!FreshNode = LT!FreshNode
  BY Zenon DEF hdlm!FreshNode, LT!FreshNode
<1>3. hdlm!RequestModes = LT!RequestModes
  BY Zenon DEF hdlm!RequestModes, LT!RequestModes
<1>4. \A n, u, m : /\ hdlm!Enqueue(n, u, m) = LT!Enqueue(n, u, m)
                   /\ hdlm!Preempt(n, u, m) = LT!Preempt(n, u, m)
                   /\ hdlm!Grant(n, u, m) = LT!Grant(n, u, m)
  BY Zenon DEF hdlm!Enqueue, LT!Enqueue, hdlm!Preempt, LT!Preempt, hdlm!Grant, LT!Grant
<1>5. \A n, u, m : hdlm!CanGrant(n, u, m) <=> LT!CanGrant(n, u, m)
  BY DEF hdlm!CanGrant, LT!CanGrant, hdlm!CanGrantShared, LT!CanGrantShared
<1>6. \A n : hdlm!SetIntent(n) = LT!SetIntent(n)
  BY Zenon DEF hdlm!SetIntent, LT!SetIntent
<1>7. \A n, k : hdlm!Unwind(n, k) = LT!Unwind(n, k)
  BY Zenon DEF hdlm!Unwind, LT!Unwind
<1>8. \A n, u : hdlm!Holds(n, u) <=> LT!Holds(n, u)
  BY DEF hdlm!Holds, LT!Holds
<1>9. \A n, u : hdlm!ReleaseNode(n, u) = LT!ReleaseNode(n, u)
  <2>1. \A n, u : hdlm!Freed(n, u) = LT!Freed(n, u)
    BY Zenon DEF hdlm!Freed, LT!Freed
  <2>2. \A n : hdlm!Promote(n) = LT!Promote(n)
    BY Zenon DEF hdlm!Promote, LT!Promote, hdlm!Grant, LT!Grant
  <2>3. \A n, u : hdlm!HandsOver(n, u) <=> LT!HandsOver(n, u)
    BY <2>1 DEF hdlm!HandsOver, LT!HandsOver
  <2> QED
    BY <2>1, <2>2, <2>3 DEF hdlm!ReleaseNode, LT!ReleaseNode
<1> QED
  BY <1>1, <1>2, <1>3, <1>4, <1>5, <1>6, <1>7, <1>8, <1>9

\* A request of t, a mark or a decrement changes n into s: nobody's hold changes.
QuietChange(n, s, t) ==
  \/ s = hdlm!SetIntent(n)
  \/ s = hdlm!Unwind(n, 1)
  \/ \E m \in hdlm!RequestModes :
       n.current_mode # "UNLOCKED" /\ s = hdlm!Enqueue(n, t, m)

\* t comes to hold a node, or gives it up.
HolderChange(n, s, t) ==
  \/ \E m \in hdlm!RequestModes :
       \/ t \in Admins /\ s = hdlm!Preempt(n, t, m)
       \/ hdlm!CanGrant(n, t, m) /\ s = hdlm!Grant(n, t, m)
  \/ hdlm!Holds(n, t) /\ s = hdlm!ReleaseNode(n, t)

\* A quiet change keeps the node's invariant and every hold on it.
LEMMA QuietChangeOK ==
  ASSUME NEW n, NodeInv(n), NEW s, NEW t \in Users, QuietChange(n, s, t)
  PROVE  /\ NodeInv(s)
         /\ s.exclusive_owner = n.exclusive_owner
         /\ s.shared_owners = n.shared_owners
         /\ \A u : hdlm!Holds(n, u) => hdlm!Holds(s, u)
<1>1. LT!NodeInv(n) /\ n \in LT!LockNode
  BY DEF NodeInv, LT!NodeInv
<1>2. ASSUME s = LT!SetIntent(n)
      PROVE  /\ NodeInv(s)
             /\ s.exclusive_owner = n.exclusive_owner
             /\ s.shared_owners = n.shared_owners
             /\ \A u : LT!Holds(n, u) => LT!Holds(s, u)
  <2>1. NodeInv(s)
    BY <1>1, <1>2, LT!SetIntentOK, ThreadsAssumption, TrieAssumption, LimitsAssumption
       DEF NodeInv, LT!IsFiniteSet, IsFiniteSet
  <2> QED
    BY <1>1, <1>2, <2>1 DEF LT!SetIntent, LT!Holds, LT!LockNode
<1>3. ASSUME s = LT!Unwind(n, 1)
      PROVE  /\ NodeInv(s)
             /\ s.exclusive_owner = n.exclusive_owner
             /\ s.shared_owners = n.shared_owners
             /\ \A u : LT!Holds(n, u) => LT!Holds(s, u)
  <2>1. NodeInv(s)
    BY <1>1, <1>3, LT!UnwindOK, ThreadsAssumption, TrieAssumption, LimitsAssumption
       DEF NodeInv, LT!IsFiniteSet, IsFiniteSet
  <2>2. /\ s.exclusive_owner = n.exclusive_owner
        /\ s.shared_owners = n.shared_owners
        /\ s.current_mode = n.current_mode
    BY <1>1, <1>3, LT!UnwindFields, ThreadsAssumption, TrieAssumption, LimitsAssumption
       DEF LT!IsFiniteSet, IsFiniteSet
  <2> QED
    BY <2>1, <2>2 DEF LT!Holds
<1>4. ASSUME NEW m \in LT!RequestModes, n.current_mode # "UNLOCKED", s = LT!Enqueue(n, t, m)
      PROVE  /\ NodeInv(s)
             /\ s.exclusive_owner = n.exclusive_owner
             /\ s.shared_owners = n.shared_owners
             /\ \A u : LT!Holds(n, u) => LT!Holds(s, u)
  <2>1. NodeInv(s)
    BY <1>1, <1>4, LT!EnqueueOK, ThreadsAssumption, TrieAssumption, LimitsAssumption
       DEF NodeInv, LT!IsFiniteSet, IsFiniteSet
  <2> QED
    BY <1>1, <1>4, <2>1 DEF LT!Enqueue, LT!Holds, LT!LockNode
<1> QED
  BY <1>2, <1>3, <1>4, SameOperators DEF QuietChange

\* A request is refused only at a node that somebody has taken.
LEMMA RefusedAtTaken ==
  ASSUME NEW n, NodeInv(n), NEW t \in Users, NEW m \in hdlm!RequestModes,
         ~hdlm!CanGrant(n, t, m)
  PROVE  n.current_mode # "UNLOCKED"
<1>1. LT!NodeInv(n) /\ m \in LT!RequestModes /\ ~LT!CanGrant(n, t, m)
  BY SameOperators DEF NodeInv
<1> QED
  BY <1>1, LT!RefusedMeansTaken, ThreadsAssumption, TrieAssumption, LimitsAssumption
     DEF LT!IsFiniteSet, IsFiniteSet

\* Whoever is granted a lock holds it.
LEMMA GrantedIsHeld ==
  ASSUME NEW n, NodeInv(n), NEW t \in Users, NEW m \in hdlm!RequestModes
  PROVE  hdlm!Holds(hdlm!Grant(n, t, m), t)
<1>1. n \in LT!LockNode
  BY DEF NodeInv, LT!NodeInv
<1> QED
  BY <1>1 DEF hdlm!Grant, hdlm!Holds, hdlm!RequestModes, LT!LockNode

\* What t's step makes of who owns a lock, (w, R) before and (v, Q) after.
TakesWrite(w, R, v, Q, t) == (w = t \/ (w = NoUser /\ R = {})) /\ v = t /\ Q = {}
TakesRead(w, R, v, Q, t) == w = NoUser /\ v = NoUser /\ Q = R \cup {t}
Seizes(w, R, v, Q, t) ==
  t \in Admins /\ ((v = t /\ Q = {}) \/ (v = NoUser /\ Q = R \cup {t}))
Passes(v, Q) == \E h \in Users : (v = h /\ Q = {}) \/ (v = NoUser /\ Q = {h})
GivesUp(w, R, v, Q, t) ==
  \/ w = t /\ ((v = NoUser /\ Q = {}) \/ Passes(v, Q))
  \/ t \in R /\ ((v = NoUser /\ Q = R \ {t}) \/ (R = {t} /\ Passes(v, Q)))

\* The holders of a node change the way those of a readers-writer lock do.
HoldersChange(n, s, t) ==
  LET w == n.exclusive_owner
      R == n.shared_owners
      v == s.exclusive_owner
      Q == s.shared_owners
  IN  TakesWrite(w, R, v, Q, t) \/ TakesRead(w, R, v, Q, t)
        \/ Seizes(w, R, v, Q, t) \/ GivesUp(w, R, v, Q, t)

\* Any other change keeps the node's invariant too, and is one that a
\* readers-writer lock allows.
LEMMA HolderChangeOK ==
  ASSUME NEW n, NodeInv(n), NEW s, NEW t \in Users, HolderChange(n, s, t)
  PROVE  NodeInv(s) /\ HoldersChange(n, s, t)
<1>1. LT!NodeInv(n) /\ n \in LT!LockNode /\ LT!NodeCoherent(n)
  BY DEF NodeInv, LT!NodeInv
<1>2. t # NoUser
  BY ThreadsAssumption
<1>3. ASSUME NEW m \in LT!RequestModes, t \in Admins, s = LT!Preempt(n, t, m)
      PROVE  NodeInv(s) /\ HoldersChange(n, s, t)
  <2>1. NodeInv(s)
    BY <1>1, <1>3, LT!PreemptOK, ThreadsAssumption, TrieAssumption, LimitsAssumption
       DEF NodeInv, LT!IsFiniteSet, IsFiniteSet
  <2>2. \/ s.exclusive_owner = t /\ s.shared_owners = {}
        \/ s.exclusive_owner = NoUser /\ s.shared_owners = n.shared_owners \cup {t}
    BY <1>1, <1>3 DEF LT!Preempt, LT!LockNode
  <2> QED
    BY <1>3, <2>1, <2>2 DEF HoldersChange, Seizes
<1>4. ASSUME NEW m \in LT!RequestModes, LT!CanGrant(n, t, m), s = LT!Grant(n, t, m)
      PROVE  NodeInv(s) /\ HoldersChange(n, s, t)
  <2>1. NodeInv(s)
    BY <1>1, <1>4, LT!GrantOK, ThreadsAssumption, TrieAssumption, LimitsAssumption
       DEF NodeInv, LT!IsFiniteSet, IsFiniteSet
  <2>2. CASE m = "EXCLUSIVE"
    <3>1. n.exclusive_owner = t \/ (n.exclusive_owner = NoUser /\ n.shared_owners = {})
      BY <1>1, <1>4, <2>2 DEF LT!CanGrant, LT!NodeCoherent
    <3>2. n.shared_owners = {}
      BY <1>1, <1>2, <3>1 DEF LT!NodeCoherent
    <3>3. s.exclusive_owner = t /\ s.shared_owners = {}
      BY <1>1, <1>4, <2>2, <3>2 DEF LT!Grant, LT!LockNode
    <3> QED
      BY <2>1, <3>1, <3>3 DEF HoldersChange, TakesWrite
  <2>3. CASE m = "SHARED"
    <3>1. n.exclusive_owner = NoUser
      BY <1>1, <1>4, <2>3 DEF LT!CanGrant, LT!CanGrantShared, LT!NodeCoherent
    <3>2. s.exclusive_owner = NoUser /\ s.shared_owners = n.shared_owners \cup {t}
      BY <1>1, <1>4, <2>3, <3>1 DEF LT!Grant, LT!LockNode
    <3> QED
      BY <2>1, <3>1, <3>2 DEF HoldersChange, TakesRead
  <2> QED
    BY <2>2, <2>3 DEF LT!RequestModes
<1>5. ASSUME LT!Holds(n, t), s = LT!ReleaseNode(n, t)
      PROVE  NodeInv(s) /\ HoldersChange(n, s, t)
  <2>1. LT!NodeInv(s)
    BY <1>1, <1>5, LT!ReleaseNodeOK, ThreadsAssumption, TrieAssumption, LimitsAssumption
       DEF LT!IsFiniteSet, IsFiniteSet
  <2> DEFINE r == LT!Unwind(s, 0)
  <2>2. r.exclusive_owner = s.exclusive_owner /\ r.shared_owners = s.shared_owners
    BY <2>1, LT!UnwindFields, ThreadsAssumption, TrieAssumption, LimitsAssumption
       DEF LT!IsFiniteSet, IsFiniteSet
  <2>3. \/ LT!HandedOver(n, r) /\ n.shared_owners \ {t} = {}
        \/ LT!Left(n, r, t)
    BY <1>1, <1>5, LT!ReleaseFields, ThreadsAssumption, TrieAssumption, LimitsAssumption
       DEF LT!IsFiniteSet, IsFiniteSet
  <2> HIDE DEF r
  <2>4. CASE LT!HandedOver(n, r) /\ n.shared_owners \ {t} = {}
    <3> DEFINE h == Head(n.wait_queue)
    <3>1. /\ h.user_id \in Users
          /\ r.exclusive_owner = IF h.requested_mode = "EXCLUSIVE" THEN h.user_id ELSE NoUser
          /\ r.shared_owners = IF h.requested_mode = "EXCLUSIVE" THEN {} ELSE {h.user_id}
      BY <2>4 DEF LT!HandedOver, LT!LockRequest
    <3> HIDE DEF h
    <3>2. Passes(s.exclusive_owner, s.shared_owners)
      BY <2>2, <3>1 DEF Passes
    <3>3. n.exclusive_owner = t \/ (t \in n.shared_owners /\ n.shared_owners = {t})
      BY <1>5, <2>4 DEF LT!Holds
    <3> QED
      BY <2>1, <3>2, <3>3 DEF NodeInv, HoldersChange, GivesUp
  <2>5. CASE LT!Left(n, r, t)
    <3>1. s.exclusive_owner = NoUser /\ s.shared_owners = n.shared_owners \ {t}
      BY <2>2, <2>5 DEF LT!Left
    <3>2. \/ n.exclusive_owner = t /\ n.shared_owners = {}
          \/ t \in n.shared_owners
      BY <1>1, <1>5 DEF LT!Holds, LT!NodeCoherent
    <3> QED
      BY <2>1, <3>1, <3>2 DEF NodeInv, HoldersChange, GivesUp
  <2> QED
    BY <2>3, <2>4, <2>5
<1> QED
  BY <1>3, <1>4, <1>5, SameOperators DEF HolderChange

------------------------------------------------------------------------------
(* The trie *)

\* A path that is longer by a segment is not the root's.
LEMMA LongerPath ==
  ASSUME NEW p \in Nodes, NEW seg \in Segments
  PROVE  Append(p, seg) # <<>>
<1>1. p \in Seq(Segments)
  BY TrieAssumption
<1>2. Len(Append(p, seg)) = Len(p) + 1 /\ Len(p) \in Nat
  BY <1>1
<1> QED
  BY <1>2

\* What Kid finds is real and a child, or missing, and at the path asked for.
LEMMA KidFound ==
  ASSUME TrieOK, NEW o \in Objects, NEW seg \in Segments, Append(o[1], seg) \in Nodes
  PROVE  LET c == Kid(o, seg)
         IN  /\ c \in Objects
             /\ c[1] = Append(o[1], seg)
             /\ ~Missing(c) => Real(c) /\ c \in kids[o]
             /\ Missing(c) => c = <<Append(o[1], seg), 0>> /\ KidsFor(o, seg) = {}
<1> DEFINE p == Append(o[1], seg)
<1>1. o[1] \in Nodes /\ p \in Nodes /\ p # <<>>
  BY LongerPath DEF Objects
<1> HIDE DEF p
<1>2. CASE KidsFor(o, seg) = {}
  <2>1. Kid(o, seg) = <<p, 0>>
    BY <1>2 DEF Kid, p
  <2>2. <<p, 0>> \in Objects /\ Missing(<<p, 0>>)
    BY <1>1, LimitsAssumption DEF Objects, Missing, RootNode
  <2> QED
    BY <1>2, <2>1, <2>2 DEF p
<1>3. CASE KidsFor(o, seg) # {}
  <2>1. Kid(o, seg) \in KidsFor(o, seg)
    BY <1>3 DEF Kid
  <2> DEFINE c == Kid(o, seg)
  <2> HIDE DEF c
  <2>2. c \in kids[o] /\ c[1] = p
    BY <2>1 DEF KidsFor, c, p
  <2>3. c \in Objects /\ c # RootNode /\ Real(c)
    BY <2>2 DEF TrieOK, RootNode
  <2>4. ~Missing(c)
    BY <2>3 DEF Missing, Real, Objects
  <2> QED
    BY <2>2, <2>3, <2>4 DEF c, p
<1> QED
  BY <1>2, <1>3

\* What a step of t does to the trie: nothing; a change of one node, to another
\* user's hold only under the node's mutex; a child more for a node; or a child
\* less.
ChangesNode(t) ==
  /\ \E o \in Objects, s \in hdlm!LockNode :
       /\ Real(o)
       /\ node' = [node EXCEPT ![o] = s]
       /\ \/ QuietChange(node[o], s, t)
          \/ o[1] # <<>> /\ writer[o] = NoUser /\ HolderChange(node[o], s, t)
  /\ UNCHANGED <<kids, made>>

GrowsTrie ==
  /\ \E o \in Objects, seg \in Segments :
       Real(o) /\ Append(o[1], seg) \in Nodes /\ MakeKid(o, seg)
  /\ UNCHANGED node

CutsTrie ==
  /\ \E o \in Objects, seg \in Segments :
       /\ Append(o[1], seg) \in Nodes
       /\ kids' = [kids EXCEPT ![o] = @ \ {Kid(o, seg)}]
  /\ UNCHANGED <<node, made>>

TrieChange(t) == UNCHANGED trie \/ ChangesNode(t) \/ GrowsTrie \/ CutsTrie

MoreReal == \A o \in Objects : Real(o) => Real(o)'

\* A change of one node keeps the invariant of the nodes and of the trie.
LEMMA ChangesNodeOK ==
  ASSUME NodesOK, RootUnowned, TrieOK, NEW t \in Users, ChangesNode(t)
  PROVE  NodesOK' /\ RootUnowned' /\ TrieOK' /\ MoreReal
<1>1. PICK o \in Objects, s \in hdlm!LockNode :
         /\ Real(o)
         /\ node' = [node EXCEPT ![o] = s]
         /\ \/ QuietChange(node[o], s, t)
            \/ o[1] # <<>> /\ HolderChange(node[o], s, t)
  BY DEF ChangesNode
<1>2. kids' = kids /\ made' = made
  BY DEF ChangesNode
<1>3. \A x : Real(x)' <=> Real(x)
  BY <1>2 DEF Real
<1>4. NodeInv(node[o])
  BY DEF NodesOK
<1>5. NodeInv(s)
  BY <1>1, <1>4, QuietChangeOK, HolderChangeOK
<1>6. \A x \in Objects : node'[x] = IF x = o THEN s ELSE node[x]
  BY <1>1 DEF NodesOK
<1>7. NodesOK'
  BY <1>1, <1>5, <1>6 DEF NodesOK, NodeInv
<1>8. RootUnowned'
  <2>1. RootNode \in Objects
    BY TrieAssumption, LimitsAssumption DEF RootNode, Objects
  <2>2. CASE o # RootNode
    BY <1>6, <2>1, <2>2 DEF RootUnowned
  <2>3. CASE o = RootNode
    <3>1. QuietChange(node[o], s, t)
      BY <1>1, <2>3 DEF RootNode
    <3> QED
      BY <1>4, <1>6, <2>1, <2>3, <3>1, QuietChangeOK DEF RootUnowned, Unowned
  <2> QED
    BY <2>2, <2>3
<1>9. TrieOK'
  BY <1>1, <1>2, <1>3, <1>6 DEF TrieOK
<1> QED
  BY <1>3, <1>7, <1>8, <1>9 DEF MoreReal

\* A node more under o keeps them too: it is new, and the only one of its path.
LEMMA GrowsTrieOK ==
  ASSUME NodesOK, RootUnowned, TrieOK, GrowsTrie
  PROVE  NodesOK' /\ RootUnowned' /\ TrieOK' /\ MoreReal
<1>1. PICK o \in Objects, seg \in Segments :
         Real(o) /\ Append(o[1], seg) \in Nodes /\ MakeKid(o, seg)
  BY DEF GrowsTrie
<1>2. node' = node
  BY DEF GrowsTrie
<1>3. NodesOK' /\ RootUnowned'
  BY <1>2 DEF NodesOK, NodeInv, RootUnowned
<1> DEFINE p == Append(o[1], seg)
<1> PICK new : new = <<p, made[p] + 1>>
  OBVIOUS
<1>4. CASE ~Missing(Kid(o, seg))
  <2>1. kids' = kids /\ made' = made
    BY <1>1, <1>4 DEF MakeKid
  <2> QED
    BY <1>2, <1>3, <2>1 DEF TrieOK, Real, MoreReal
<1>5. CASE Missing(Kid(o, seg))
  <2>1. /\ made[p] < MaxMade
        /\ made' = [made EXCEPT ![p] = made[p] + 1]
        /\ kids' = [kids EXCEPT ![o] = kids[o] \cup {new}]
    BY <1>1, <1>5 DEF MakeKid
  <2>2. KidsFor(o, seg) = {}
    BY <1>1, <1>5, KidFound
  <2>3. p \in Nodes /\ p # <<>>
    BY <1>1, LongerPath DEF Objects
  <2>4. \A c \in kids[o] : c[1] # p
    BY <2>2 DEF KidsFor
  <2> HIDE DEF p
  <2>5. made \in [Nodes -> 0..MaxMade] /\ kids \in [Objects -> SUBSET Objects]
    BY DEF TrieOK
  <2>6. /\ made[p] + 1 \in 1..MaxMade
        /\ made' \in [Nodes -> 0..MaxMade]
        /\ \A q \in Nodes : made'[q] = IF q = p THEN made[p] + 1 ELSE made[q]
    BY <2>1, <2>3, <2>5, LimitsAssumption
  <2>7. /\ new \in Objects
        /\ new[1] = p
        /\ new[2] = made[p] + 1
        /\ new[1] # <<>> /\ new # RootNode
    BY <2>3, <2>6 DEF Objects, RootNode
  <2>8. Real(new)'
    BY <2>3, <2>6, <2>7 DEF Real
  <2>9. \A x \in Objects : Real(x) => Real(x)'
    <3> TAKE x \in Objects
    <3>1. x[1] \in Nodes /\ x[2] \in 0..MaxMade
      BY DEF Objects
    <3>2. made[x[1]] \in 0..MaxMade /\ made'[x[1]] \in 0..MaxMade /\ made[x[1]] <= made'[x[1]]
      BY <2>3, <2>5, <2>6, <3>1
    <3> QED
      BY <3>1, <3>2 DEF Real
  <2>10. /\ kids' \in [Objects -> SUBSET Objects]
         /\ \A x \in Objects : kids'[x] = IF x = o THEN kids[o] \cup {new} ELSE kids[x]
    BY <2>1, <2>5, <2>7
  <2>11. \A x \in Objects : \A c \in kids'[x] : c[1] # <<>> /\ Real(c)'
    <3> TAKE x \in Objects
    <3> TAKE c \in kids'[x]
    <3>1. c = new \/ c \in kids[x]
      BY <2>10
    <3>2. CASE c = new
      BY <2>7, <2>8, <3>2
    <3>3. CASE c \in kids[x]
      <4>1. c \in Objects /\ c[1] # <<>> /\ Real(c)
        BY <3>3 DEF TrieOK
      <4> QED
        BY <2>9, <4>1
    <3> QED
      BY <3>1, <3>2, <3>3
  <2>12. \A x \in Objects : \A c, d \in kids'[x] : c[1] = d[1] => c = d
    BY <2>4, <2>7, <2>10 DEF TrieOK
  <2>13. \A x \in Objects : ~Real(x)' => node'[x] = hdlm!FreshNode /\ kids'[x] = {}
    BY <1>1, <1>2, <2>9, <2>10 DEF TrieOK
  <2>14. TrieOK'
    BY <2>6, <2>10, <2>11, <2>12, <2>13 DEF TrieOK
  <2> QED
    BY <1>3, <2>9, <2>14 DEF MoreReal
<1> QED
  BY <1>4, <1>5

\* So does a child less.
LEMMA CutsTrieOK ==
  ASSUME NodesOK, RootUnowned, TrieOK, CutsTrie
  PROVE  NodesOK' /\ RootUnowned' /\ TrieOK' /\ MoreReal
<1>1. PICK o \in Objects, seg \in Segments :
         kids' = [kids EXCEPT ![o] = kids[o] \ {Kid(o, seg)}]
  BY DEF CutsTrie
<1>2. node' = node /\ made' = made
  BY DEF CutsTrie
<1>3. \A x : Real(x)' <=> Real(x)
  BY <1>2 DEF Real
<1>4. /\ kids' \in [Objects -> SUBSET Objects]
      /\ \A x \in Objects : kids'[x] \subseteq kids[x]
  BY <1>1 DEF TrieOK
<1>5. NodesOK' /\ RootUnowned'
  BY <1>2 DEF NodesOK, NodeInv, RootUnowned
<1>6. TrieOK'
  BY <1>2, <1>3, <1>4 DEF TrieOK
<1> QED
  BY <1>3, <1>5, <1>6 DEF MoreReal

\* Whatever a step does to the trie keeps the invariant of the nodes and the
\* trie, and what is real stays so.
LEMMA TrieChangeOK ==
  ASSUME NodesOK, RootUnowned, TrieOK, NEW t \in Users, TrieChange(t)
  PROVE  NodesOK' /\ RootUnowned' /\ TrieOK' /\ MoreReal
<1>1. CASE UNCHANGED trie
  BY <1>1 DEF trie, NodesOK, NodeInv, RootUnowned, TrieOK, Real, MoreReal
<1> QED
  BY <1>1, ChangesNodeOK, GrowsTrieOK, CutsTrieOK DEF TrieChange

------------------------------------------------------------------------------
(* Places of threads *)

\* The root is a node there is.
LEMMA RootIsObject == RootNode \in Objects /\ Real(RootNode) /\ <<RootNode>> \in Seq(Objects)
<1>1. RootNode \in Objects
  BY TrieAssumption, LimitsAssumption DEF RootNode, Objects
<1> QED
  BY <1>1 DEF Real

\* The last node of a trail is one of it.
LEMMA LastOfTrail ==
  ASSUME NEW s \in Seq(Objects), s # <<>>
  PROVE  /\ Len(s) \in Nat \ {0}
         /\ Last(s) = s[Len(s)]
         /\ Last(s) \in Objects
         /\ Last(s)[1] \in Nodes
<1>1. Len(s) \in Nat \ {0}
  OBVIOUS
<1>2. Last(s) = s[Len(s)] /\ s[Len(s)] \in Objects
  BY <1>1 DEF Last
<1> QED
  BY <1>1, <1>2 DEF Objects

\* A thread without a call is at no bad place.
LEMMA IdleOK == Idle \in Threads /\ PlaceOK(Idle) /\ Idle.trail = <<>> /\ Idle.pc = "idle"
<1>1. <<>> \in Seq(Files) /\ <<>> \in Seq(Objects)
  OBVIOUS
<1> QED
  BY <1>1 DEF Idle, Threads, PlaceOK, PCs, hdlm!RequestModes, GoingDown, AtTarget

\* Neither is one that starts on a path, at the root.
LEMMA StartOK ==
  ASSUME NEW r \in Threads, r.pc \in GoingDown, r.i \in 1..Len(r.paths),
         r.trail = <<RootNode>>
  PROVE  PlaceOK(r)
<1> DEFINE path == r.paths[r.i]
<1>1. path \in Nodes /\ path # <<>> /\ path \in Seq(Segments)
  BY TrieAssumption DEF Threads, Files
<1>2. Len(path) >= 1 /\ SubSeq(path, 1, 0) = <<>>
  BY <1>1
<1>3. Len(r.trail) = 1 /\ Last(r.trail)[1] = <<>> /\ r.trail[1] = RootNode /\ r.trail # <<>>
  BY DEF Last, RootNode
<1> HIDE DEF path
<1>4. /\ Len(r.trail) <= Len(path)
      /\ Last(r.trail)[1] = SubSeq(path, 1, Len(r.trail) - 1)
  <2>1. Len(r.trail) - 1 = 0
    BY <1>3
  <2>2. Last(r.trail)[1] = SubSeq(path, 1, Len(r.trail) - 1)
    BY <1>2, <1>3, <2>1, Zenon
  <2> QED
    BY <1>1, <1>2, <1>3, <2>2
<1> QED
  BY <1>3, <1>4 DEF PlaceOK, path, GoingDown, AtTarget

\* The part of its path that a thread goes to next is that of a node it is
\* under.
LEMMA NextOnPath ==
  ASSUME NEW r \in Threads, PlaceOK(r), r.pc \in GoingDown
  PROVE  LET path == r.paths[r.i]
             k == Len(r.trail)
             p == Append(Last(r.trail)[1], path[k])
         IN  /\ k \in 1..Len(path)
             /\ path \in Nodes
             /\ path[k] \in Segments
             /\ p = SubSeq(path, 1, k)
             /\ p \in Nodes
             /\ p # <<>>
<1> DEFINE path == r.paths[r.i]
           k == Len(r.trail)
           p == Append(Last(r.trail)[1], path[k])
<1>1. /\ r.i \in 1..Len(r.paths)
      /\ r.trail # <<>>
      /\ k <= Len(path)
      /\ Last(r.trail)[1] = SubSeq(path, 1, k - 1)
  BY DEF PlaceOK, GoingDown
<1>2. path \in Nodes /\ path \in Seq(Segments)
  BY <1>1, TrieAssumption DEF Threads, Files
<1>3. k \in 1..Len(path)
  BY <1>1, <1>2 DEF Threads
<1> HIDE DEF path, k
<1>4. path[k] \in Segments /\ Len(path) \in Nat
  BY <1>2, <1>3
<1>5. p = SubSeq(path, 1, k)
  BY <1>1, <1>2, <1>3, <1>4
<1>6. SubSeq(path, 1, k) \in Nodes /\ SubSeq(path, 1, k) # <<>>
  <2>1. k \in 0..Len(path)
    BY <1>3, <1>4
  <2>2. Len(SubSeq(path, 1, k)) = k
    BY <1>2, <1>3, <1>4
  <2>3. SubSeq(path, 1, k) \in Nodes
    BY <1>2, <2>1, TrieAssumption, Zenon
  <2>4. SubSeq(path, 1, k) # <<>>
    BY <1>3, <2>2
  <2> QED
    BY <2>3, <2>4
<1> QED
  BY <1>2, <1>3, <1>4, <1>5, <1>6 DEF path, k

\* r, on its way down, can go on to c at pc: the target if its path ends there.
CanEnter(r, c, pc) ==
  /\ PlaceOK(r)
  /\ r.pc \in GoingDown
  /\ c[1] = Append(Last(r.trail)[1], r.paths[r.i][Len(r.trail)])
  /\ pc \in IF Len(r.trail) = Len(r.paths[r.i]) THEN AtTarget ELSE GoingDown

Entered(r, c, pc) == [r EXCEPT !.pc = pc, !.trail = Append(r.trail, c)]

\* The place it comes to is in order.
LEMMA EnterOK ==
  ASSUME NEW r \in Threads, NEW c \in Objects, NEW pc, CanEnter(r, c, pc)
  PROVE  /\ Entered(r, c, pc) \in Threads /\ PlaceOK(Entered(r, c, pc))
         /\ Entered(r, c, pc).pc = pc
         /\ Entered(r, c, pc).trail = Append(r.trail, c)
<1> DEFINE path == r.paths[r.i]
           s == Entered(r, c, pc)
           k == Len(r.trail)
<1>0. /\ PlaceOK(r)
      /\ r.pc \in GoingDown
      /\ c[1] = Append(Last(r.trail)[1], path[k])
      /\ pc \in IF k = Len(path) THEN AtTarget ELSE GoingDown
  BY DEF CanEnter
<1>1. /\ r.trail \in Seq(Objects)
      /\ r.i \in 1..Len(r.paths)
      /\ r.trail[1] = RootNode
      /\ r.trail # <<>>
  BY <1>0 DEF Threads, PlaceOK, GoingDown
<1>2. /\ k \in 1..Len(path)
      /\ path \in Nodes
      /\ c[1] = SubSeq(path, 1, k)
      /\ c[1] # <<>>
  BY <1>0, NextOnPath
<1>3. /\ Append(r.trail, c) \in Seq(Objects)
      /\ Append(r.trail, c) # <<>>
      /\ Len(Append(r.trail, c)) = k + 1
      /\ Append(r.trail, c)[1] = RootNode
      /\ Append(r.trail, c)[k + 1] = c
  <2>1. PICK tr \in Seq(Objects) : tr = r.trail
    BY <1>1
  <2>2. tr # <<>> /\ tr[1] = RootNode
    BY <1>1, <2>1, Zenon
  <2>3. /\ Append(tr, c) \in Seq(Objects)
        /\ Append(tr, c) # <<>>
        /\ Len(Append(tr, c)) = Len(tr) + 1
        /\ Append(tr, c)[1] = RootNode
        /\ Append(tr, c)[Len(tr) + 1] = c
    BY <2>2
  <2> QED
    BY <2>1, <2>3, Zenon
<1>4. pc \in PCs /\ pc \in AtTarget \cup GoingDown /\ (k # Len(path) => pc \in GoingDown)
         /\ (k = Len(path) => pc \in AtTarget)
  BY <1>0 DEF PCs, AtTarget, GoingDown
<1>5. /\ s \in Threads
      /\ s.pc = pc
      /\ s.trail = Append(r.trail, c)
      /\ s.paths = r.paths
      /\ s.i = r.i
  BY <1>3, <1>4 DEF Threads, Entered
<1> HIDE DEF s
<1>6. Last(s.trail) = c
  BY <1>3, <1>5 DEF Last
<1> HIDE DEF path, k
<1>7. Len(path) \in Nat /\ k \in Nat
  BY <1>1, <1>2, TrieAssumption DEF k
<1>8. /\ s.pc \in GoingDown => /\ Len(s.trail) <= Len(path)
                               /\ Last(s.trail)[1] = SubSeq(path, 1, Len(s.trail) - 1)
      /\ s.pc \in AtTarget => Last(s.trail)[1] # <<>>
      /\ Len(s.trail) >= 2
  <2>1. Len(s.trail) = k + 1 /\ Len(s.trail) - 1 = k
    BY <1>3, <1>5, <1>7
  <2>2. Last(s.trail)[1] = SubSeq(path, 1, Len(s.trail) - 1)
    BY <1>2, <1>6, <2>1, Zenon
  <2>3. s.pc \in GoingDown => k # Len(path)
    BY <1>4, <1>5 DEF AtTarget, GoingDown
  <2> QED
    BY <1>2, <1>6, <1>7, <2>1, <2>2, <2>3
<1>9. PlaceOK(s)
  BY <1>1, <1>3, <1>4, <1>5, <1>8 DEF PlaceOK, path, AtTarget, GoingDown
<1> QED
  BY <1>5, <1>9 DEF s

\* What Front leaves of a trail.
LEMMA FrontOfTrail ==
  ASSUME NEW S, NEW s \in Seq(S), Len(s) >= 2
  PROVE  /\ Front(s) \in Seq(S)
         /\ Front(s) # <<>>
         /\ Front(s)[1] = s[1]
<1>1. Len(s) \in Nat /\ Front(s) = SubSeq(s, 1, Len(s) - 1)
  BY DEF Front
<1>2. \A j \in 1..Len(s) - 1 : s[j] \in S
  BY <1>1
<1>3. /\ Front(s) \in Seq(S)
      /\ Len(Front(s)) = Len(s) - 1
      /\ Front(s)[1] = s[1]
  BY <1>1, <1>2
<1>4. Len(Front(s)) # 0
  BY <1>1, <1>3
<1>5. Front(s) # <<>>
  BY <1>4
<1> QED
  BY <1>3, <1>5

\* A thread that goes back towards the root.
LEMMA BackOK ==
  ASSUME NEW r \in Threads, r.pc \in {"free", "unwind", "walk"}, PlaceOK(r), r.trail # <<>>,
         Last(r.trail) # RootNode, r.pc = "walk" => r.seen # {},
         NEW pc, pc = IF r.pc = "walk" THEN "walk" ELSE "unwind"
  PROVE  LET s == [r EXCEPT !.pc = pc, !.trail = Front(r.trail)]
         IN  s \in Threads /\ PlaceOK(s) /\ s.pc = pc /\ s.trail = Front(r.trail)
<1> DEFINE s == [r EXCEPT !.pc = pc, !.trail = Front(r.trail)]
<1>1. r.trail \in Seq(Objects) /\ r.trail[1] = RootNode
  BY DEF Threads, PlaceOK
<1>2. Len(r.trail) >= 2 /\ Len(r.trail) \in Nat
  BY <1>1, LastOfTrail
<1>3. /\ Front(r.trail) \in Seq(Objects)
      /\ Front(r.trail) # <<>>
      /\ Front(r.trail)[1] = RootNode
  BY <1>1, <1>2, FrontOfTrail
<1>4. /\ s \in Threads
      /\ s.pc = pc
      /\ s.trail = Front(r.trail)
      /\ s.paths = r.paths
      /\ s.i = r.i
      /\ s.seen = r.seen
  BY <1>3 DEF Threads, PCs
<1> HIDE DEF s
<1>5. PlaceOK(s)
  BY <1>3, <1>4 DEF PlaceOK, AtTarget, GoingDown
<1> QED
  BY <1>4, <1>5 DEF s

------------------------------------------------------------------------------
(* A step *)

\* t goes on to a place that is in order, and to an ascent only with its target
\* kept and held.
Moves(t) ==
  \E r \in Threads :
    /\ th' = [th EXCEPT ![t] = r]
    /\ PlaceOK(r)
    /\ r.trail \in Seq(RealNodes')
    /\ r.pc = "ascend" => /\ writer'[Last(r.trail)] = t
                          /\ hdlm!Holds(node'[Last(r.trail)], t)

\* The mutexes that other threads keep are left to them.
OthersLeft(t) == \A o \in Objects : writer[o] \notin {NoUser, t} => writer'[o] = writer[o]

\* What is known of a thread, and of the node it is at.
LEMMA ThreadFacts ==
  ASSUME ThreadsOK, NEW t \in Users
  PROVE  /\ th[t] \in Threads
         /\ PlaceOK(th[t])
         /\ th[t].trail \in Seq(RealNodes) /\ th[t].trail \in Seq(Objects)
         /\ th[t].trail # <<>> => /\ Here(t) \in Objects /\ Real(Here(t))
                                  /\ Here(t)[1] \in Nodes
                                  /\ Head(th[t].trail) \in Objects /\ Real(Head(th[t].trail))
<1> DEFINE s == th[t].trail
<1>1. /\ th[t] \in Threads
      /\ PlaceOK(th[t])
      /\ s \in Seq(RealNodes)
      /\ s \in Seq(Objects)
  BY DEF ThreadsOK, ThreadOK, TrailReal, Threads
<1>2. ASSUME s # <<>>
      PROVE  /\ Last(s) \in RealNodes /\ Head(s) \in RealNodes
             /\ Last(s) \in Objects /\ Last(s)[1] \in Nodes
  <2> HIDE DEF s
  <2>1. Len(s) \in Nat \ {0} /\ Last(s) = s[Len(s)]
    BY <1>1, <1>2, LastOfTrail
  <2> QED
    BY <1>1, <1>2, <2>1, LastOfTrail
<1> QED
  BY <1>1, <1>2 DEF RealNodes, Here

\* What is real stays so, so the trails stay real.
LEMMA TrailsStayReal ==
  ASSUME MoreReal, NEW s \in Seq(RealNodes)
  PROVE  s \in Seq(RealNodes')
<1>1. \A o \in RealNodes : o \in RealNodes'
  BY DEF MoreReal, RealNodes
<1> HIDE DEF RealNodes
<1> QED
  BY <1>1

\* A step that changes the trie in one of those ways, moves its thread to a
\* place in order and leaves the others' mutexes alone keeps the invariant.
LEMMA StepKeepsInv ==
  ASSUME IInv, NEW t \in Users, TrieChange(t), Moves(t), OthersLeft(t), MutexesOK'
  PROVE  IInv' /\ TrieChange(t)
<1>1. NodesOK /\ RootUnowned /\ TrieOK /\ ThreadsOK /\ GrantsKept
  BY DEF IInv
<1>2. NodesOK' /\ RootUnowned' /\ TrieOK' /\ MoreReal
  BY <1>1, TrieChangeOK
<1>3. PICK r \in Threads :
         /\ th' = [th EXCEPT ![t] = r]
         /\ PlaceOK(r)
         /\ r.trail \in Seq(RealNodes')
         /\ r.pc = "ascend" => /\ writer'[Last(r.trail)] = t
                               /\ hdlm!Holds(node'[Last(r.trail)], t)
  BY DEF Moves
<1>4. th \in [Users -> Threads] /\ th' \in [Users -> Threads]
  BY <1>1, <1>3 DEF ThreadsOK
<1>5. \A u \in Users : th'[u] = IF u = t THEN r ELSE th[u]
  BY <1>3, <1>4
<1>6. ThreadsOK'
  <2>1. ASSUME NEW u \in Users PROVE ThreadOK(th[u])'
    <3>1. CASE u = t
      BY <1>3, <1>5, <3>1 DEF ThreadOK, TrailReal, PlaceOK
    <3>2. CASE u # t
      <4>1. PlaceOK(th[u]) /\ th[u].trail \in Seq(RealNodes) /\ th'[u] = th[u]
        BY <1>1, <1>5, <3>2, ThreadFacts
      <4>2. th[u].trail \in Seq(RealNodes')
        BY <1>2, <4>1, TrailsStayReal
      <4> QED
        BY <4>1, <4>2 DEF ThreadOK, TrailReal, PlaceOK
    <3> QED
      BY <3>1, <3>2
  <2> QED
    BY <1>4, <2>1 DEF ThreadsOK
<1>7. GrantsKept'
  <2> SUFFICES ASSUME NEW u \in Users, th'[u].pc = "ascend"
               PROVE  /\ writer'[Last(th'[u].trail)] = u
                      /\ hdlm!Holds(node'[Last(th'[u].trail)], u)
    BY DEF GrantsKept, At, Here, hdlm!Holds
  <2>1. CASE u = t
    BY <1>3, <1>5, <2>1
  <2>2. CASE u # t
    <3> DEFINE x == Last(th[u].trail)
    <3>1. th'[u] = th[u]
      BY <1>5, <2>2
    <3>2. th[u].trail # <<>>
      BY <1>1, <3>1, ThreadFacts DEF PlaceOK
    <3>3. x \in Objects
      BY <1>1, <3>2, ThreadFacts DEF Here
    <3>4. writer[x] = u /\ hdlm!Holds(node[x], u)
      BY <1>1, <3>1 DEF GrantsKept, At, Here
    <3>5. writer'[x] = u
      BY <2>2, <3>3, <3>4, ThreadsAssumption DEF OthersLeft
    <3> HIDE DEF x
    <3>6. hdlm!Holds(node'[x], u)
      <4>1. CASE node' = node
        BY <3>4, <4>1
      <4>2. CASE ChangesNode(t)
        <5>1. PICK o \in Objects, s \in hdlm!LockNode :
                 /\ node' = [node EXCEPT ![o] = s]
                 /\ QuietChange(node[o], s, t) \/ writer[o] = NoUser
          BY <4>2 DEF ChangesNode
        <5>2. node'[x] = IF x = o THEN s ELSE node[x]
          BY <1>1, <3>3, <5>1 DEF NodesOK
        <5>3. CASE x # o
          BY <3>4, <5>2, <5>3
        <5>4. CASE x = o
          <6>1. QuietChange(node[o], s, t)
            BY <3>4, <5>1, <5>4, ThreadsAssumption
          <6>2. NodeInv(node[o])
            BY <1>1 DEF NodesOK
          <6> QED
            BY <3>4, <5>2, <5>4, <6>1, <6>2, QuietChangeOK
        <5> QED
          BY <5>3, <5>4
      <4> QED
        BY <4>1, <4>2 DEF TrieChange, trie, GrowsTrie, CutsTrie
    <3> QED
      BY <3>1, <3>5, <3>6 DEF x
  <2> QED
    BY <2>1, <2>2
<1> QED
  BY <1>2, <1>6, <1>7 DEF IInv

\* A call that comes back, or goes on with its next path from the root.
LEMMA ReturnMoves ==
  ASSUME ThreadsOK, MutexesOK, NEW t \in Users, NEW pc \in GoingDown,
         th[t].i \in 1..Len(th[t].paths), Return(t, pc)
  PROVE  Moves(t) /\ batching' \in Users \cup {NoUser}
<1>1. th[t] \in Threads /\ PlaceOK(th[t])
  BY ThreadFacts
<1>2. CASE th[t].i < Len(th[t].paths)
  <2> DEFINE r == [th[t] EXCEPT !.pc = pc, !.i = th[t].i + 1, !.trail = <<RootNode>>]
  <2>1. th' = [th EXCEPT ![t] = r] /\ batching' = batching
    BY <1>2 DEF Return
  <2>2. /\ r \in Threads
        /\ r.pc = pc
        /\ r.i = th[t].i + 1
        /\ r.paths = th[t].paths
        /\ r.trail = <<RootNode>>
    <3>1. PICK k \in Nat : k = th[t].i + 1
      BY <1>1 DEF Threads
    <3>2. PICK tr \in Seq(Objects) : tr = <<RootNode>>
      BY RootIsObject
    <3>3. pc \in PCs
      BY DEF PCs, GoingDown
    <3>4. r = [th[t] EXCEPT !.pc = pc, !.i = k, !.trail = tr]
      BY <3>1, <3>2
    <3> HIDE DEF r
    <3>5. /\ r \in Threads
          /\ r.pc = pc /\ r.i = k /\ r.paths = th[t].paths /\ r.trail = tr
      BY <1>1, <3>3, <3>4 DEF Threads
    <3> QED
      BY <3>1, <3>2, <3>5
  <2>3. th[t].i + 1 \in 1..Len(th[t].paths)
    BY <1>1, <1>2 DEF Threads
  <2> HIDE DEF r
  <2>4. PlaceOK(r)
    BY <2>2, <2>3, StartOK
  <2>5. r.trail \in Seq(RealNodes')
    BY <2>2, RootIsObject DEF RealNodes, Real
  <2> QED
    BY <2>1, <2>2, <2>4, <2>5 DEF Moves, MutexesOK, GoingDown
<1>3. CASE ~(th[t].i < Len(th[t].paths))
  <2>1. th' = [th EXCEPT ![t] = Idle] /\ batching' \in {batching, NoUser}
    BY <1>3 DEF Return
  <2>2. Idle.trail \in Seq(RealNodes') /\ Idle.pc # "ascend"
    BY IdleOK
  <2> QED
    BY <2>1, <2>2, IdleOK DEF Moves, MutexesOK
<1> QED
  BY <1>2, <1>3

\* A thread that goes on to a real node under the one it is at.
LEMMA EnterMoves ==
  ASSUME ThreadsOK, MoreReal, NEW t \in Users, th[t].pc \in GoingDown,
         NEW c \in RealNodes', c[1] = Append(Here(t)[1], NextSegment(t)),
         NEW pc \in IF AtParent(t) THEN AtTarget ELSE GoingDown,
         Goto(t, pc, Append(th[t].trail, c))
  PROVE  Moves(t)
<1>1. /\ th[t] \in Threads
      /\ PlaceOK(th[t])
      /\ th[t].trail \in Seq(RealNodes')
  BY ThreadFacts, TrailsStayReal
<1> DEFINE r == [th[t] EXCEPT !.pc = pc, !.trail = Append(th[t].trail, c)]
<1>2. th' = [th EXCEPT ![t] = r]
  BY DEF Goto
<1>3. r \in Threads /\ PlaceOK(r) /\ r.pc = pc /\ r.trail = Append(th[t].trail, c)
  <2>1. PICK q \in Threads : q = th[t]
    BY <1>1
  <2>2. c \in Objects /\ CanEnter(q, c, pc)
    BY <1>1, <2>1, Zenon DEF RealNodes, CanEnter, Here, NextSegment, AtParent, Path
  <2>3. r = Entered(q, c, pc)
    BY <2>1, Zenon DEF Entered
  <2> HIDE DEF r
  <2>4. /\ Entered(q, c, pc) \in Threads /\ PlaceOK(Entered(q, c, pc))
        /\ Entered(q, c, pc).pc = pc
        /\ Entered(q, c, pc).trail = Append(q.trail, c)
    BY <2>2, EnterOK
  <2>5. r \in Threads /\ PlaceOK(r) /\ r.pc = pc /\ r.trail = Append(q.trail, c)
    BY <2>3, <2>4, Zenon
  <2> QED
    BY <2>1, <2>5, Zenon
<1> HIDE DEF r
<1>4. r.trail \in Seq(RealNodes')
  BY <1>1, <1>3
<1>5. r.pc # "ascend"
  BY <1>3 DEF AtTarget, GoingDown
<1> QED
  BY <1>2, <1>3, <1>4, <1>5 DEF Moves

\* The facts about a thread on its way down, and about where it goes next.
LEMMA DownFacts ==
  ASSUME ThreadsOK, TrieOK, NEW t \in Users, th[t].pc \in GoingDown
  PROVE  /\ Here(t) \in Objects /\ Real(Here(t))
         /\ NextSegment(t) \in Segments
         /\ Append(Here(t)[1], NextSegment(t)) \in Nodes
         /\ th[t].i \in 1..Len(th[t].paths)
         /\ Kid(Here(t), NextSegment(t)) \in Objects
         /\ Kid(Here(t), NextSegment(t))[1] = Append(Here(t)[1], NextSegment(t))
         /\ ~Missing(Kid(Here(t), NextSegment(t))) => Real(Kid(Here(t), NextSegment(t)))
<1>1. /\ th[t] \in Threads
      /\ PlaceOK(th[t])
      /\ th[t].trail # <<>>
      /\ th[t].i \in 1..Len(th[t].paths)
      /\ Here(t) \in Objects /\ Real(Here(t))
  BY ThreadFacts DEF PlaceOK, GoingDown
<1>2. NextSegment(t) \in Segments /\ Append(Here(t)[1], NextSegment(t)) \in Nodes
  BY <1>1, NextOnPath DEF NextSegment, Path, Here
<1> QED
  BY <1>1, <1>2, KidFound

\* A change of one real node is one that the trie can take.
LEMMA NodeChangeFits ==
  ASSUME NodesOK, NEW t \in Users, NEW o \in Objects, Real(o), NEW s,
         \/ QuietChange(node[o], s, t)
         \/ o[1] # <<>> /\ writer[o] = NoUser /\ HolderChange(node[o], s, t),
         node' = [node EXCEPT ![o] = s], UNCHANGED <<kids, made>>
  PROVE  TrieChange(t)
<1>1. NodeInv(node[o])
  BY DEF NodesOK
<1>2. NodeInv(s)
  BY <1>1, QuietChangeOK, HolderChangeOK
<1>3. s \in hdlm!LockNode
  BY <1>2, SameOperators DEF NodeInv, LT!NodeInv
<1> QED
  BY <1>3 DEF TrieChange, ChangesNode

\* The descent waits at a directory that another user has locked.
LEMMA DescendQueuedOK ==
  ASSUME IInv, NEW t \in Users, DescendQueued(t)
  PROVE  IInv' /\ TrieChange(t)
<1> DEFINE o == Here(t)
<1>1. NodesOK /\ TrieOK /\ MutexesOK /\ ThreadsOK /\ th[t].pc \in GoingDown
  BY DEF IInv, DescendQueued, At, GoingDown
<1>2. /\ o \in Objects /\ Real(o)
      /\ th[t].i \in 1..Len(th[t].paths)
      /\ th[t].mode \in hdlm!RequestModes
  BY <1>1, DownFacts, ThreadFacts DEF Threads
<1>3. PICK s : s = hdlm!Enqueue(node[o], t, th[t].mode)
  OBVIOUS
<1>4. /\ node' = [node EXCEPT ![o] = s]
      /\ node[o].current_mode = "EXCLUSIVE"
      /\ UNCHANGED <<kids, made, writer, sharers>>
      /\ Return(t, "descend")
  BY <1>3 DEF DescendQueued, Acquired
<1>5. QuietChange(node[o], s, t)
  BY <1>2, <1>3, <1>4 DEF QuietChange
<1> HIDE DEF o
<1>6. TrieChange(t)
  BY <1>1, <1>2, <1>4, <1>5, NodeChangeFits
<1>7. Moves(t) /\ batching' \in Users \cup {NoUser}
  BY <1>1, <1>2, <1>4, ReturnMoves DEF GoingDown
<1>8. OthersLeft(t) /\ MutexesOK'
  BY <1>1, <1>4, <1>7 DEF OthersLeft, MutexesOK
<1> QED
  BY <1>6, <1>7, <1>8, StepKeepsInv

\* The descent goes on to the next node, which it makes if need be.
LEMMA DescendOK ==
  ASSUME IInv, NEW t \in Users, Descend(t)
  PROVE  IInv' /\ TrieChange(t)
<1>1. /\ NodesOK /\ RootUnowned /\ TrieOK /\ MutexesOK /\ ThreadsOK
      /\ th[t].pc \in GoingDown
  BY DEF IInv, Descend, At, GoingDown
<1> DEFINE o == Here(t)
           seg == NextSegment(t)
           k == Kid(o, seg)
<1>2. /\ MakeKid(o, seg)
      /\ Goto(t, IF AtParent(t) THEN "take" ELSE "descend", Descended(t))
      /\ UNCHANGED <<node, mutexes>>
  BY DEF Descend
<1>3. /\ o \in Objects /\ Real(o) /\ seg \in Segments
      /\ Append(o[1], seg) \in Nodes
      /\ k \in Objects /\ k[1] = Append(o[1], seg)
      /\ ~Missing(k) => Real(k)
  BY <1>1, DownFacts
<1>4. TrieChange(t)
  BY <1>2, <1>3 DEF TrieChange, GrowsTrie
<1>5. MoreReal
  BY <1>1, <1>4, TrieChangeOK
<1>6. PICK c : c = IF Missing(k) THEN <<k[1], made[k[1]] + 1>> ELSE k
  OBVIOUS
<1>7. c \in RealNodes' /\ c[1] = Append(o[1], seg)
  <2>1. CASE ~Missing(k)
    BY <1>3, <1>5, <1>6, <2>1 DEF RealNodes, MoreReal
  <2>2. CASE Missing(k)
    <3> DEFINE p == Append(o[1], seg)
    <3>1. made[p] < MaxMade /\ made' = [made EXCEPT ![p] = made[p] + 1]
      BY <1>2, <2>2 DEF MakeKid
    <3>2. c = <<p, made[p] + 1>>
      BY <1>3, <1>6, <2>2
    <3> HIDE DEF p
    <3>3. made \in [Nodes -> 0..MaxMade] /\ p \in Nodes
      BY <1>1, <1>3 DEF TrieOK, p
    <3>4. made[p] + 1 \in 1..MaxMade /\ made'[p] = made[p] + 1
      BY <3>1, <3>3, LimitsAssumption
    <3>5. c \in Objects /\ c[1] = p /\ c[2] \in 1..made'[c[1]]
      BY <3>2, <3>3, <3>4 DEF Objects
    <3> QED
      BY <3>5 DEF RealNodes, Real, p
  <2> QED
    BY <2>1, <2>2
<1>8. Goto(t, IF AtParent(t) THEN "take" ELSE "descend", Append(th[t].trail, c))
  BY <1>2, <1>6 DEF Descended
<1>9. (IF AtParent(t) THEN "take" ELSE "descend")
         \in (IF AtParent(t) THEN AtTarget ELSE GoingDown)
  BY DEF AtTarget, GoingDown
<1> HIDE DEF k
<1>10. Moves(t)
  BY <1>1, <1>5, <1>7, <1>8, <1>9, EnterMoves
<1>11. OthersLeft(t) /\ MutexesOK'
  BY <1>1, <1>2 DEF OthersLeft, MutexesOK, mutexes
<1> QED
  BY <1>4, <1>10, <1>11, StepKeepsInv

\* The facts about a thread at its target.
LEMMA TargetFacts ==
  ASSUME ThreadsOK, NEW t \in Users, th[t].pc \in AtTarget
  PROVE  /\ Here(t) \in Objects /\ Real(Here(t)) /\ Here(t)[1] # <<>>
         /\ th[t].i \in 1..Len(th[t].paths)
         /\ th[t].mode \in hdlm!RequestModes
BY ThreadFacts DEF PlaceOK, AtTarget, Here, Threads

\* An administrator takes the lock.
LEMMA TakeByPreemptionOK ==
  ASSUME IInv, NEW t \in Users, TakeByPreemption(t)
  PROVE  IInv' /\ TrieChange(t)
<1> DEFINE o == Here(t)
<1>1. NodesOK /\ MutexesOK /\ ThreadsOK /\ th[t].pc \in AtTarget
  BY DEF IInv, TakeByPreemption, At, AtTarget
<1>2. /\ o \in Objects /\ Real(o) /\ o[1] # <<>>
      /\ th[t].i \in 1..Len(th[t].paths)
      /\ th[t].mode \in hdlm!RequestModes
  BY <1>1, TargetFacts
<1>3. PICK s : s = hdlm!Preempt(node[o], t, th[t].mode)
  OBVIOUS
<1>4. /\ node' = [node EXCEPT ![o] = s]
      /\ t \in Admins
      /\ writer[o] = NoUser
      /\ UNCHANGED <<kids, made, writer, sharers>>
      /\ Return(t, "descend")
  BY <1>3 DEF TakeByPreemption, Acquired, IsAdmin, CanLock
<1>5. HolderChange(node[o], s, t)
  BY <1>2, <1>3, <1>4 DEF HolderChange
<1> HIDE DEF o
<1>6. TrieChange(t)
  BY <1>1, <1>2, <1>4, <1>5, NodeChangeFits
<1>7. Moves(t) /\ batching' \in Users \cup {NoUser}
  BY <1>1, <1>2, <1>4, ReturnMoves DEF GoingDown
<1>8. OthersLeft(t) /\ MutexesOK'
  BY <1>1, <1>4, <1>7 DEF OthersLeft, MutexesOK
<1> QED
  BY <1>6, <1>7, <1>8, StepKeepsInv

\* The request waits at its target.
LEMMA TakeQueuedOK ==
  ASSUME IInv, NEW t \in Users, TakeQueued(t)
  PROVE  IInv' /\ TrieChange(t)
<1> DEFINE o == Here(t)
<1>1. NodesOK /\ MutexesOK /\ ThreadsOK /\ th[t].pc \in AtTarget
  BY DEF IInv, TakeQueued, At, AtTarget
<1>2. /\ o \in Objects /\ Real(o)
      /\ th[t].i \in 1..Len(th[t].paths)
      /\ th[t].mode \in hdlm!RequestModes
      /\ NodeInv(node[o])
  BY <1>1, TargetFacts DEF NodesOK
<1>3. PICK s : s = hdlm!Enqueue(node[o], t, th[t].mode)
  OBVIOUS
<1>4. /\ node' = [node EXCEPT ![o] = s]
      /\ ~hdlm!CanGrant(node[o], t, th[t].mode)
      /\ UNCHANGED <<kids, made, writer, sharers>>
      /\ Return(t, "descend")
  BY <1>3 DEF TakeQueued, Acquired
<1>5. QuietChange(node[o], s, t)
  BY <1>2, <1>3, <1>4, RefusedAtTaken DEF QuietChange
<1> HIDE DEF o
<1>6. TrieChange(t)
  BY <1>1, <1>2, <1>4, <1>5, NodeChangeFits
<1>7. Moves(t) /\ batching' \in Users \cup {NoUser}
  BY <1>1, <1>2, <1>4, ReturnMoves DEF GoingDown
<1>8. OthersLeft(t) /\ MutexesOK'
  BY <1>1, <1>4, <1>7 DEF OthersLeft, MutexesOK
<1> QED
  BY <1>6, <1>7, <1>8, StepKeepsInv

\* The lock is granted: its target is kept from now on.
LEMMA TakeGrantedOK ==
  ASSUME IInv, NEW t \in Users, TakeGranted(t)
  PROVE  IInv' /\ TrieChange(t)
<1>1. NodesOK /\ MutexesOK /\ ThreadsOK /\ th[t].pc = "take" /\ th[t].pc \in AtTarget
  BY DEF IInv, TakeGranted, At, AtTarget
<1>2. PICK o \in Objects : o = Here(t)
  BY <1>1, TargetFacts
<1>3. /\ Real(o) /\ o[1] # <<>>
      /\ th[t].mode \in hdlm!RequestModes
      /\ NodeInv(node[o])
  BY <1>1, <1>2, TargetFacts DEF NodesOK
<1>4. PICK s : s = hdlm!Grant(node[o], t, th[t].mode)
  OBVIOUS
<1>5. /\ node' = [node EXCEPT ![o] = s]
      /\ writer[o] = NoUser
      /\ writer' = [writer EXCEPT ![o] = t]
      /\ hdlm!CanGrant(node[o], t, th[t].mode)
      /\ UNCHANGED <<kids, made, sharers, batching>>
      /\ th' = [th EXCEPT ![t].pc = "ascend", ![t].trail = th[t].trail]
  BY <1>2, <1>4 DEF TakeGranted, CanLock, Goto
<1>6. HolderChange(node[o], s, t) /\ hdlm!Holds(s, t)
  BY <1>3, <1>4, <1>5, GrantedIsHeld DEF HolderChange
<1>7. TrieChange(t)
  BY <1>1, <1>3, <1>5, <1>6, NodeChangeFits
<1>8. Moves(t)
  <2>1. /\ th[t] \in Threads
        /\ PlaceOK(th[t])
        /\ th[t].trail \in Seq(RealNodes)
    BY <1>1, ThreadFacts
  <2>2. PICK r : r = [th[t] EXCEPT !.pc = "ascend"]
    OBVIOUS
  <2>3. /\ r \in Threads
        /\ r.pc = "ascend"
        /\ r.trail = th[t].trail /\ r.i = th[t].i /\ r.paths = th[t].paths
    BY <2>1, <2>2 DEF Threads, PCs
  <2>4. th' = [th EXCEPT ![t] = r]
    BY <1>1, <1>5, <2>1, <2>2 DEF ThreadsOK, Threads
  <2>5. PlaceOK(r)
    BY <1>1, <2>1, <2>3 DEF PlaceOK, AtTarget, GoingDown
  <2>6. RealNodes' = RealNodes
    BY <1>5 DEF RealNodes, Real
  <2>7. /\ writer'[Last(r.trail)] = t
        /\ hdlm!Holds(node'[Last(r.trail)], t)
    BY <1>1, <1>2, <1>5, <1>6, <2>3 DEF Here, NodesOK, MutexesOK
  <2> QED
    BY <2>1, <2>3, <2>4, <2>5, <2>6, <2>7 DEF Moves
<1>9. OthersLeft(t) /\ MutexesOK'
  BY <1>1, <1>5 DEF OthersLeft, MutexesOK
<1> QED
  BY <1>7, <1>8, <1>9, StepKeepsInv

\* What Tail leaves of a trail.
LEMMA TailOfTrail ==
  ASSUME NEW S, NEW s \in Seq(S), Len(s) >= 2
  PROVE  /\ Tail(s) \in Seq(S)
         /\ Tail(s) # <<>>
         /\ Len(Tail(s)) = Len(s) - 1
         /\ Last(Tail(s)) = Last(s)
<1>1. Len(s) \in Nat /\ Tail(s) \in Seq(S) /\ Len(Tail(s)) = Len(s) - 1
  OBVIOUS
<1>2. Tail(s) # <<>>
  <2>1. PICK z \in Seq(S) : z = Tail(s)
    BY <1>1
  <2>2. Len(z) # 0
    BY <1>1, <2>1
  <2>3. z # <<>>
    BY <2>2
  <2> QED
    BY <2>1, <2>3
<1>3. Tail(s)[Len(s) - 1] = s[Len(s)]
  BY <1>1
<1> QED
  BY <1>1, <1>2, <1>3 DEF Last

\* An ancestor of the granted target is marked; after the last one the target
\* is let go and the call comes back.
LEMMA AscendOK ==
  ASSUME IInv, NEW t \in Users, Ascend(t)
  PROVE  IInv' /\ TrieChange(t)
<1>1. /\ NodesOK /\ MutexesOK /\ ThreadsOK /\ GrantsKept
      /\ th[t].pc = "ascend"
      /\ th[t] \in Threads /\ PlaceOK(th[t])
      /\ th[t].trail \in Seq(RealNodes)
      /\ th[t].trail # <<>> /\ Len(th[t].trail) >= 2
      /\ th[t].i \in 1..Len(th[t].paths)
  BY ThreadFacts DEF IInv, Ascend, At, PlaceOK
<1>2. PICK o \in Objects : o = Head(th[t].trail) /\ Real(o)
  BY <1>1, ThreadFacts
<1>3. PICK x \in Objects : x = Here(t)
  BY <1>1, ThreadFacts
<1>4. writer[x] = t /\ hdlm!Holds(node[x], t)
  BY <1>1, <1>3 DEF GrantsKept, At
<1>5. PICK s : s = hdlm!SetIntent(node[o])
  OBVIOUS
<1>6. /\ node' = [node EXCEPT ![o] = s]
      /\ UNCHANGED <<kids, made, sharers>>
      /\ IF Len(th[t].trail) = 2
         THEN writer' = [writer EXCEPT ![x] = NoUser] /\ Return(t, "descend")
         ELSE Goto(t, "ascend", Tail(th[t].trail)) /\ UNCHANGED <<writer, batching>>
  BY <1>2, <1>3, <1>5 DEF Ascend, Acquired
<1>7. QuietChange(node[o], s, t)
  BY <1>5 DEF QuietChange
<1>8. TrieChange(t)
  BY <1>1, <1>2, <1>6, <1>7, NodeChangeFits
<1>9. CASE Len(th[t].trail) = 2
  <2>1. Moves(t) /\ batching' \in Users \cup {NoUser}
    BY <1>1, <1>6, <1>9, ReturnMoves DEF GoingDown
  <2>2. OthersLeft(t) /\ MutexesOK'
    BY <1>1, <1>3, <1>4, <1>6, <1>9, <2>1 DEF OthersLeft, MutexesOK
  <2> QED
    BY <1>8, <2>1, <2>2, StepKeepsInv
<1>10. CASE Len(th[t].trail) # 2
  <2>1. Len(th[t].trail) >= 3 /\ Len(th[t].trail) \in Nat /\ th[t].trail \in Seq(Objects)
    <3>1. PICK tr \in Seq(Objects) : tr = th[t].trail
      BY <1>1, ThreadFacts
    <3>2. Len(tr) # 2 /\ Len(tr) >= 2
      BY <1>1, <1>10, <3>1, Zenon
    <3>3. Len(tr) >= 3 /\ Len(tr) \in Nat
      <4>1. PICK k \in Nat : k = Len(tr)
        OBVIOUS
      <4> QED
        BY <3>2, <4>1
    <3> QED
      BY <3>1, <3>3, Zenon
  <2>2. PICK tr \in Seq(Objects) : tr = Tail(th[t].trail)
    <3>1. Tail(th[t].trail) \in Seq(Objects)
      BY <1>1, <2>1, TailOfTrail, Zenon
    <3> QED
      BY <3>1, Zenon
  <2>3. /\ tr \in Seq(RealNodes)
        /\ tr # <<>>
        /\ Len(tr) >= 2
        /\ Last(tr) = x
    BY <1>1, <1>3, <2>1, <2>2, TailOfTrail DEF Here
  <2>4. PICK r : r = [th[t] EXCEPT !.trail = tr]
    OBVIOUS
  <2>5. /\ r \in Threads
        /\ r.pc = "ascend" /\ r.trail = tr /\ r.i = th[t].i /\ r.paths = th[t].paths
    BY <1>1, <2>4 DEF Threads
  <2>6. th' = [th EXCEPT ![t] = r]
    <3>1. th' = [th EXCEPT ![t].pc = "ascend", ![t].trail = tr]
      BY <1>6, <1>10, <2>2 DEF Goto
    <3> QED
      BY <1>1, <2>4, <3>1 DEF ThreadsOK, Threads
  <2>7. PlaceOK(r)
    BY <1>1, <2>3, <2>5 DEF PlaceOK, AtTarget, GoingDown
  <2>8. RealNodes' = RealNodes
    BY <1>6 DEF RealNodes, Real
  <2>9. hdlm!Holds(node'[x], t)
    <3>1. node'[x] = IF x = o THEN s ELSE node[x]
      BY <1>1, <1>6 DEF NodesOK
    <3>2. NodeInv(node[o])
      BY <1>1 DEF NodesOK
    <3>3. \A u : hdlm!Holds(node[o], u) => hdlm!Holds(s, u)
      BY <1>7, <3>2, QuietChangeOK
    <3> QED
      BY <1>4, <3>1, <3>3
  <2>10. Moves(t)
    BY <1>4, <1>6, <1>10, <2>3, <2>5, <2>6, <2>7, <2>8, <2>9 DEF Moves
  <2>11. OthersLeft(t) /\ MutexesOK'
    BY <1>1, <1>6, <1>10 DEF OthersLeft, MutexesOK
  <2> QED
    BY <1>8, <2>10, <2>11, StepKeepsInv
<1> QED
  BY <1>9, <1>10

\* The search for the node to release.
LEMMA FindOK ==
  ASSUME IInv, NEW t \in Users, Find(t)
  PROVE  IInv' /\ TrieChange(t)
<1>1. NodesOK /\ RootUnowned /\ TrieOK /\ MutexesOK /\ ThreadsOK /\ th[t].pc \in GoingDown
  BY DEF IInv, Find, At, GoingDown
<1>2. PICK k : k = Kid(Here(t), NextSegment(t))
  OBVIOUS
<1>3. /\ th[t].i \in 1..Len(th[t].paths)
      /\ k \in Objects
      /\ k[1] = Append(Here(t)[1], NextSegment(t))
      /\ ~Missing(k) => Real(k)
  BY <1>1, <1>2, DownFacts
<1>4. /\ UNCHANGED <<trie, writer, sharers>>
      /\ IF Missing(k)
         THEN Return(t, "find")
         ELSE Goto(t, IF AtParent(t) THEN "free" ELSE "find", Append(th[t].trail, k))
                /\ UNCHANGED batching
  BY <1>2 DEF Find, Released, Enter
<1>5. TrieChange(t)
  BY <1>4 DEF TrieChange
<1>6. Moves(t) /\ batching' \in Users \cup {NoUser}
  <2>1. CASE Missing(k)
    BY <1>1, <1>3, <1>4, <2>1, ReturnMoves DEF GoingDown
  <2>2. CASE ~Missing(k)
    <3>1. MoreReal
      BY <1>1, <1>5, TrieChangeOK
    <3>2. k \in RealNodes'
      BY <1>3, <2>2, <3>1 DEF MoreReal, RealNodes
    <3>3. (IF AtParent(t) THEN "free" ELSE "find")
            \in (IF AtParent(t) THEN AtTarget ELSE GoingDown)
      BY DEF AtTarget, GoingDown
    <3> QED
      BY <1>1, <1>3, <1>4, <2>2, <3>1, <3>2, <3>3, EnterMoves DEF MutexesOK
  <2> QED
    BY <2>1, <2>2
<1>7. OthersLeft(t) /\ MutexesOK'
  BY <1>1, <1>4, <1>6 DEF OthersLeft, MutexesOK
<1> QED
  BY <1>5, <1>6, <1>7, StepKeepsInv

\* A thread that goes back towards the root moves as it should.
LEMMA BackMoves ==
  ASSUME ThreadsOK, MoreReal, NEW t \in Users,
         th[t].pc \in {"free", "unwind", "walk"}, th[t].trail # <<>>, Here(t) # RootNode,
         th[t].pc = "walk" => th[t].seen # {},
         Goto(t, IF th[t].pc = "walk" THEN "walk" ELSE "unwind", Front(th[t].trail))
  PROVE  Moves(t)
<1>1. /\ th[t] \in Threads
      /\ PlaceOK(th[t])
      /\ th[t].trail \in Seq(RealNodes') /\ th[t].trail \in Seq(Objects)
  BY ThreadFacts, TrailsStayReal
<1>2. PICK pc : pc = IF th[t].pc = "walk" THEN "walk" ELSE "unwind"
  OBVIOUS
<1>3. PICK r : r = [th[t] EXCEPT !.pc = pc, !.trail = Front(th[t].trail)]
  OBVIOUS
<1>4. th' = [th EXCEPT ![t] = r]
  BY <1>2, <1>3 DEF Goto
<1>5. r \in Threads /\ PlaceOK(r) /\ r.pc = pc /\ r.trail = Front(th[t].trail)
  <2>1. PICK q \in Threads : q = th[t]
    BY <1>1
  <2>2. /\ q.pc \in {"free", "unwind", "walk"}
        /\ PlaceOK(q)
        /\ q.trail # <<>>
        /\ Last(q.trail) # RootNode
        /\ q.pc = "walk" => q.seen # {}
        /\ pc = IF q.pc = "walk" THEN "walk" ELSE "unwind"
    BY <1>1, <1>2, <2>1, Zenon DEF Here
  <2>3. r = [q EXCEPT !.pc = pc, !.trail = Front(q.trail)]
    BY <1>3, <2>1, Zenon
  <2>4. r \in Threads /\ PlaceOK(r) /\ r.pc = pc /\ r.trail = Front(q.trail)
    BY <2>2, <2>3, BackOK
  <2> QED
    BY <2>1, <2>4, Zenon
<1>6. Len(th[t].trail) >= 2
  BY <1>1, LastOfTrail DEF PlaceOK, Here
<1>7. r.trail \in Seq(RealNodes')
  BY <1>1, <1>5, <1>6, FrontOfTrail
<1>8. r.pc # "ascend"
  BY <1>2, <1>5
<1> QED
  BY <1>4, <1>5, <1>7, <1>8 DEF Moves

\* The lock is given back, and perhaps handed over.
LEMMA FreeOK ==
  ASSUME IInv, NEW t \in Users, Free(t)
  PROVE  IInv' /\ TrieChange(t)
<1>1. /\ NodesOK /\ RootUnowned /\ TrieOK /\ MutexesOK /\ ThreadsOK
      /\ th[t].pc = "free" /\ th[t].pc \in AtTarget
  BY DEF IInv, Free, At, AtTarget
<1>2. PICK o \in Objects : o = Here(t)
  BY <1>1, TargetFacts
<1>3. /\ Real(o) /\ o[1] # <<>> /\ o # RootNode
      /\ th[t].i \in 1..Len(th[t].paths)
      /\ th[t].trail # <<>>
  BY <1>1, <1>2, TargetFacts, ThreadFacts DEF RootNode, PlaceOK
<1>4. /\ UNCHANGED <<kids, made, writer, sharers>>
      /\ writer[o] = NoUser
      /\ \/ UNCHANGED node
         \/ hdlm!Holds(node[o], t) /\ node' = [node EXCEPT ![o] = hdlm!ReleaseNode(node[o], t)]
      /\ \/ Return(t, "find")
         \/ Goto(t, "unwind", Front(th[t].trail)) /\ UNCHANGED batching
  BY <1>2 DEF Free, Released, CanLock
<1>5. TrieChange(t)
  <2>1. CASE UNCHANGED node
    BY <1>4, <2>1 DEF TrieChange, trie
  <2>2. CASE ~UNCHANGED node
    <3>1. PICK s : s = hdlm!ReleaseNode(node[o], t)
      OBVIOUS
    <3>2. HolderChange(node[o], s, t) /\ node' = [node EXCEPT ![o] = s]
      BY <1>4, <2>2, <3>1 DEF HolderChange
    <3> QED
      BY <1>1, <1>3, <1>4, <3>2, NodeChangeFits
  <2> QED
    BY <2>1, <2>2
<1>6. MoreReal
  BY <1>1, <1>5, TrieChangeOK
<1>7. Moves(t) /\ batching' \in Users \cup {NoUser}
  <2>1. CASE Return(t, "find")
    BY <1>1, <1>3, <2>1, ReturnMoves DEF GoingDown
  <2>2. CASE Goto(t, "unwind", Front(th[t].trail)) /\ UNCHANGED batching
    <3>1. Moves(t)
      BY <1>1, <1>2, <1>3, <1>6, <2>2, BackMoves
    <3> QED
      BY <1>1, <2>2, <3>1 DEF MutexesOK
  <2> QED
    BY <1>4, <2>1, <2>2
<1>8. OthersLeft(t) /\ MutexesOK'
  BY <1>1, <1>4, <1>7 DEF OthersLeft, MutexesOK
<1> QED
  BY <1>5, <1>7, <1>8, StepKeepsInv

\* A node on the way back is unwound.
LEMMA UnwindStepOK ==
  ASSUME IInv, NEW t \in Users, Unwind(t)
  PROVE  IInv' /\ TrieChange(t)
<1>1. /\ NodesOK /\ RootUnowned /\ TrieOK /\ MutexesOK /\ ThreadsOK
      /\ th[t].pc = "unwind"
      /\ th[t].i \in 1..Len(th[t].paths)
      /\ th[t].trail # <<>>
  BY ThreadFacts DEF IInv, Unwind, At, PlaceOK
<1>2. PICK o \in Objects : o = Here(t) /\ Real(o)
  BY <1>1, ThreadFacts
<1>3. PICK s : s = hdlm!Unwind(node[o], 1)
  OBVIOUS
<1>4. /\ node' = [node EXCEPT ![o] = s]
      /\ UNCHANGED <<kids, made, writer, sharers>>
      /\ IF o = RootNode
         THEN Return(t, "find")
         ELSE Goto(t, "unwind", Front(th[t].trail)) /\ UNCHANGED batching
  BY <1>2, <1>3 DEF Unwind, Released
<1>5. QuietChange(node[o], s, t)
  BY <1>3 DEF QuietChange
<1>6. TrieChange(t)
  BY <1>1, <1>2, <1>4, <1>5, NodeChangeFits
<1>7. MoreReal
  BY <1>1, <1>6, TrieChangeOK
<1>8. Moves(t) /\ batching' \in Users \cup {NoUser}
  <2>1. CASE o = RootNode
    BY <1>1, <1>4, <2>1, ReturnMoves DEF GoingDown
  <2>2. CASE o # RootNode
    <3>1. Moves(t)
      BY <1>1, <1>2, <1>4, <1>7, <2>2, BackMoves
    <3> QED
      BY <1>1, <1>4, <2>2, <3>1 DEF MutexesOK
  <2> QED
    BY <2>1, <2>2
<1>9. OthersLeft(t) /\ MutexesOK'
  BY <1>1, <1>4, <1>8 DEF OthersLeft, MutexesOK
<1> QED
  BY <1>6, <1>8, <1>9, StepKeepsInv

\* The way down to a pruned node's parent, which forgets it.
LEMMA CutOK ==
  ASSUME IInv, NEW t \in Users, Cut(t)
  PROVE  IInv' /\ TrieChange(t)
<1>1. NodesOK /\ RootUnowned /\ TrieOK /\ MutexesOK /\ ThreadsOK /\ th[t].pc \in GoingDown
  BY DEF IInv, Cut, At, GoingDown
<1>2. PICK o \in Objects, seg \in Segments : o = Here(t) /\ seg = NextSegment(t)
  BY <1>1, DownFacts
<1>3. PICK k : k = Kid(o, seg)
  OBVIOUS
<1>4. /\ th[t].i \in 1..Len(th[t].paths)
      /\ Append(o[1], seg) \in Nodes
      /\ k \in Objects
      /\ k[1] = Append(Here(t)[1], NextSegment(t))
      /\ ~Missing(k) => Real(k)
  BY <1>1, <1>2, <1>3, DownFacts
<1>5. /\ UNCHANGED <<node, made, writer, sharers>>
      /\ IF AtParent(t) \/ Missing(k)
         THEN kids' = [kids EXCEPT ![o] = @ \ {k}] /\ Return(t, "cut")
         ELSE Goto(t, "cut", Append(th[t].trail, k)) /\ UNCHANGED <<kids, batching>>
  BY <1>2, <1>3 DEF Cut, Enter
<1>6. TrieChange(t)
  <2>1. CASE AtParent(t) \/ Missing(k)
    BY <1>3, <1>4, <1>5, <2>1 DEF TrieChange, CutsTrie
  <2>2. CASE ~(AtParent(t) \/ Missing(k))
    BY <1>5, <2>2 DEF TrieChange, trie
  <2> QED
    BY <2>1, <2>2
<1>7. MoreReal
  BY <1>1, <1>6, TrieChangeOK
<1>8. Moves(t) /\ batching' \in Users \cup {NoUser}
  <2>1. CASE AtParent(t) \/ Missing(k)
    BY <1>1, <1>4, <1>5, <2>1, ReturnMoves DEF GoingDown
  <2>2. CASE ~(AtParent(t) \/ Missing(k))
    <3>1. k \in RealNodes'
      BY <1>4, <1>7, <2>2 DEF MoreReal, RealNodes
    <3>2. "cut" \in (IF AtParent(t) THEN AtTarget ELSE GoingDown)
      BY <2>2 DEF GoingDown
    <3> QED
      BY <1>1, <1>4, <1>5, <1>7, <2>2, <3>1, <3>2, EnterMoves DEF MutexesOK
  <2> QED
    BY <2>1, <2>2
<1>9. OthersLeft(t) /\ MutexesOK'
  BY <1>1, <1>5, <1>8 DEF OthersLeft, MutexesOK
<1> QED
  BY <1>6, <1>8, <1>9, StepKeepsInv

\* A call that comes back.
LEMMA IdleMoves ==
  ASSUME NEW t \in Users, th' = [th EXCEPT ![t] = Idle]
  PROVE  Moves(t)
<1>1. Idle.trail \in Seq(RealNodes') /\ Idle.pc # "ascend"
  BY IdleOK
<1> QED
  BY <1>1, IdleOK DEF Moves

\* A thread that starts on a path from the root.
LEMMA StartMoves ==
  ASSUME NEW t \in Users, NEW r \in Threads, r.pc \in GoingDown, r.i \in 1..Len(r.paths),
         r.trail = <<RootNode>>, th' = [th EXCEPT ![t] = r]
  PROVE  Moves(t)
<1>1. PlaceOK(r) /\ r.trail \in Seq(RealNodes') /\ r.pc # "ascend"
  BY StartOK, RootIsObject DEF RealNodes, Real, GoingDown
<1> QED
  BY <1>1 DEF Moves

\* The walk goes down to a node, and keeps its mutex.
LEMMA WalkDownOK ==
  ASSUME IInv, NEW t \in Users, WalkDown(t)
  PROVE  IInv' /\ TrieChange(t)
<1>1. /\ NodesOK /\ RootUnowned /\ TrieOK /\ MutexesOK /\ ThreadsOK
      /\ th[t].pc = "walk"
      /\ th[t] \in Threads /\ PlaceOK(th[t])
      /\ th[t].trail \in Seq(RealNodes) /\ th[t].trail \in Seq(Objects)
  BY ThreadFacts DEF IInv, WalkDown, At
<1>2. PICK o \in Below(t) :
        /\ sharers' = [sharers EXCEPT ![o] = @ \cup {t}]
        /\ th' = [th EXCEPT ![t].trail = Append(@, o), ![t].seen = @ \cup {o},
                            ![t].found = IF Owns(t, o) THEN @ \cup {o[1]} ELSE @]
  BY DEF WalkDown
<1>3. UNCHANGED <<trie, writer, batching>>
  BY DEF WalkDown
<1>4. IF th[t].seen = {} THEN th[t].trail = <<>>
                         ELSE th[t].trail # <<>> /\ th[t].trail[1] = RootNode
  BY <1>1 DEF PlaceOK
<1>5. o \in Objects /\ Real(o) /\ (o = RootNode \/ o[1] # <<>>)
  <2>1. CASE th[t].seen = {}
    BY <1>2, <2>1, RootIsObject DEF Below
  <2>2. CASE th[t].seen # {}
    <3>1. PICK x \in Objects : x = Here(t)
      BY <1>1, <1>4, <2>2, ThreadFacts
    <3>2. o \in kids[x]
      BY <1>2, <2>2, <3>1 DEF Below
    <3> QED
      BY <1>1, <3>1, <3>2 DEF TrieOK
  <2> QED
    BY <2>1, <2>2
<1>6. Owns(t, o) => o[1] \in Files
  <2>1. CASE o = RootNode
    BY <1>1, <2>1, ThreadsAssumption DEF Owns, RootUnowned, Unowned
  <2>2. CASE o # RootNode
    BY <1>5, <2>2 DEF Files, Objects
  <2> QED
    BY <2>1, <2>2
<1>7. PICK found \in SUBSET Files :
         found = IF Owns(t, o) THEN th[t].found \cup {o[1]} ELSE th[t].found
  BY <1>1, <1>6 DEF Threads
<1>8. PICK seen \in SUBSET Objects : seen = th[t].seen \cup {o}
  BY <1>1, <1>5 DEF Threads
<1>9. PICK tr \in Seq(Objects) : tr = Append(th[t].trail, o)
  <2>1. PICK s \in Seq(Objects) : s = th[t].trail
    BY <1>1
  <2>2. Append(s, o) \in Seq(Objects)
    BY <1>5
  <2> QED
    BY <2>1, <2>2, Zenon
<1>10. tr \in Seq(RealNodes) /\ tr # <<>> /\ tr[1] = RootNode
  <2>1. PICK s \in Seq(RealNodes) : s = th[t].trail
    BY <1>1
  <2>2. tr = Append(s, o) /\ o \in RealNodes
    BY <1>5, <1>9, <2>1 DEF RealNodes
  <2>3. tr \in Seq(RealNodes) /\ tr # <<>> /\ tr[1] = IF s = <<>> THEN o ELSE s[1]
    BY <2>2
  <2>4. IF s = <<>> THEN o = RootNode ELSE s[1] = RootNode
    BY <1>2, <1>4, <2>1 DEF Below
  <2> QED
    BY <2>3, <2>4
<1>11. PICK r : r = [th[t] EXCEPT !.trail = tr, !.seen = seen, !.found = found]
  OBVIOUS
<1>12. /\ r \in Threads
       /\ r.pc = "walk" /\ r.trail = tr /\ r.seen # {}
  BY <1>1, <1>8, <1>11 DEF Threads
<1>13. th' = [th EXCEPT ![t] = r]
  <2>1. th' = [th EXCEPT ![t] = [th[t] EXCEPT !.trail = Append(th[t].trail, o),
                 !.seen = th[t].seen \cup {o},
                 !.found = IF Owns(t, o) THEN th[t].found \cup {o[1]} ELSE th[t].found]]
    BY <1>1, <1>2 DEF ThreadsOK, Threads
  <2> QED
    BY <1>7, <1>8, <1>9, <1>11, <2>1, Zenon
<1>14. PlaceOK(r)
  BY <1>10, <1>12 DEF PlaceOK, GoingDown, AtTarget
<1>15. RealNodes' = RealNodes
  BY <1>3 DEF RealNodes, Real, trie
<1>16. Moves(t)
  BY <1>10, <1>12, <1>13, <1>14, <1>15 DEF Moves
<1>17. TrieChange(t) /\ OthersLeft(t) /\ MutexesOK'
  BY <1>1, <1>2, <1>3, <1>5 DEF TrieChange, OthersLeft, MutexesOK
<1> QED
  BY <1>16, <1>17, StepKeepsInv

\* The walk goes up, and from the root to the release of what it has found.
LEMMA WalkUpOK ==
  ASSUME IInv, NEW t \in Users, WalkUp(t)
  PROVE  IInv' /\ TrieChange(t)
<1>1. /\ NodesOK /\ RootUnowned /\ TrieOK /\ MutexesOK /\ ThreadsOK
      /\ th[t].pc = "walk" /\ th[t].seen # {}
      /\ th[t] \in Threads /\ PlaceOK(th[t])
  BY ThreadFacts DEF IInv, WalkUp, At
<1>2. th[t].trail # <<>>
  BY <1>1 DEF PlaceOK
<1>3. /\ UNCHANGED <<trie, writer, batching>>
      /\ sharers' = [sharers EXCEPT ![Here(t)] = @ \ {t}]
      /\ \/ Here(t) # RootNode /\ Goto(t, "walk", Front(th[t].trail))
         \/ th' = [th EXCEPT ![t] = Idle]
         \/ /\ th[t].found # {}
            /\ \E ps \in SetToSeqs(th[t].found) :
                 th' = [th EXCEPT ![t] = [Idle EXCEPT !.call = "release_all", !.pc = "find",
                                                      !.paths = ps, !.trail = <<RootNode>>]]
  BY DEF WalkUp
<1>4. TrieChange(t) /\ OthersLeft(t) /\ MutexesOK'
  BY <1>1, <1>3 DEF TrieChange, OthersLeft, MutexesOK
<1>5. CASE Here(t) # RootNode /\ Goto(t, "walk", Front(th[t].trail))
  <2>1. MoreReal
    BY <1>1, <1>4, TrieChangeOK
  <2>2. Moves(t)
    BY <1>1, <1>2, <1>5, <2>1, BackMoves
  <2> QED
    BY <1>4, <2>2, StepKeepsInv
<1>6. CASE th' = [th EXCEPT ![t] = Idle]
  BY <1>4, <1>6, IdleMoves, StepKeepsInv
<1>7. CASE /\ th[t].found # {}
           /\ \E ps \in SetToSeqs(th[t].found) :
                th' = [th EXCEPT ![t] = [Idle EXCEPT !.call = "release_all", !.pc = "find",
                                                     !.paths = ps, !.trail = <<RootNode>>]]
  <2>1. PICK S \in SUBSET Files : S = th[t].found /\ S # {}
    BY <1>1, <1>7 DEF Threads
  <2>2. PICK ps \in SetToSeqs(S) :
          th' = [th EXCEPT ![t] = [Idle EXCEPT !.call = "release_all", !.pc = "find",
                                               !.paths = ps, !.trail = <<RootNode>>]]
    BY <1>7, <2>1
  <2>3. Cardinality(S) \in Nat \ {0}
    <3>1. IsFiniteSet(S)
      BY <2>1, TrieAssumption, FS_Subset DEF Files
    <3> QED
      BY <2>1, <3>1, FS_CardinalityType, FS_EmptySet
  <2>4. ps \in Seq(Files) /\ Len(ps) = Cardinality(S)
    <3>1. ps \in [1..Cardinality(S) -> S]
      BY <2>2 DEF SetToSeqs
    <3> QED
      BY <2>1, <2>3, <3>1
  <2>5. PICK tr \in Seq(Objects) : tr = <<RootNode>>
    BY RootIsObject
  <2>6. PICK r : r = [Idle EXCEPT !.call = "release_all", !.pc = "find", !.paths = ps,
                                  !.trail = tr]
    OBVIOUS
  <2>7. /\ r \in Threads
        /\ r.pc = "find" /\ r.i = 1 /\ r.paths = ps /\ r.trail = <<RootNode>>
    <3>1. Idle \in Threads /\ Idle.i = 1
      BY IdleOK DEF Idle
    <3> QED
      BY <2>4, <2>5, <2>6, <3>1 DEF Threads, PCs
  <2>8. r.i \in 1..Len(r.paths)
    BY <2>3, <2>4, <2>7
  <2>9. Moves(t)
    BY <2>2, <2>5, <2>6, <2>7, <2>8, StartMoves DEF GoingDown
  <2> QED
    BY <1>4, <2>9, StepKeepsInv
<1> QED
  BY <1>3, <1>5, <1>6, <1>7

\* A path that is available sends its thread to the next, or to the taking.
LEMMA AvailableMoves ==
  ASSUME ThreadsOK, MutexesOK, NEW t \in Users,
         th[t].i \in 1..Len(th[t].paths), Available(t)
  PROVE  Moves(t) /\ batching' \in Users \cup {NoUser}
<1>1. th[t] \in Threads
  BY ThreadFacts
<1>2. PICK pc \in {"verify", "descend"} :
         pc = IF th[t].i < Len(th[t].paths) THEN "verify" ELSE "descend"
  OBVIOUS
<1>3. PICK k \in Nat :
         /\ k = IF th[t].i < Len(th[t].paths) THEN th[t].i + 1 ELSE 1
         /\ k \in 1..Len(th[t].paths)
  BY <1>1 DEF Threads
<1>4. PICK tr \in Seq(Objects) : tr = <<RootNode>>
  BY RootIsObject
<1>5. PICK r : r = [th[t] EXCEPT !.pc = pc, !.i = k, !.trail = tr]
  OBVIOUS
<1>6. th' = [th EXCEPT ![t] = r]
  BY <1>1, <1>2, <1>3, <1>4, <1>5 DEF Available, ThreadsOK, Threads
<1>7. /\ r \in Threads
      /\ r.pc = pc /\ r.i = k /\ r.paths = th[t].paths /\ r.trail = <<RootNode>>
  BY <1>1, <1>3, <1>4, <1>5 DEF Threads, PCs
<1>8. Moves(t)
  BY <1>2, <1>3, <1>6, <1>7, StartMoves DEF GoingDown
<1> QED
  BY <1>8 DEF Available, MutexesOK

\* The verification of a path, on its way down.
LEMMA VerifyOK ==
  ASSUME IInv, NEW t \in Users, Verify(t)
  PROVE  IInv' /\ TrieChange(t)
<1>1. NodesOK /\ RootUnowned /\ TrieOK /\ MutexesOK /\ ThreadsOK /\ th[t].pc \in GoingDown
  BY DEF IInv, Verify, At, GoingDown
<1>2. PICK k : k = Kid(Here(t), NextSegment(t))
  OBVIOUS
<1>3. PICK o \in Objects : o = Here(t)
  BY <1>1, DownFacts
<1>4. /\ th[t].i \in 1..Len(th[t].paths)
      /\ k \in Objects
      /\ k[1] = Append(Here(t)[1], NextSegment(t))
      /\ ~Missing(k) => Real(k)
  BY <1>1, <1>2, DownFacts
<1>5. UNCHANGED <<trie, writer>>
  BY DEF Verify
<1>6. \/ Denied(t) /\ UNCHANGED sharers
      \/ Available(t) /\ UNCHANGED sharers
      \/ /\ ~AtParent(t) /\ ~Missing(k)
         /\ Goto(t, "verify", Append(th[t].trail, k))
         /\ UNCHANGED <<sharers, batching>>
      \/ /\ AtParent(t) /\ ~Missing(k)
         /\ sharers' = [sharers EXCEPT ![o] = @ \cup {t}]
         /\ Goto(t, "inspect", Append(th[t].trail, k))
         /\ UNCHANGED batching
  BY <1>2, <1>3 DEF Verify, Enter
<1>7. TrieChange(t) /\ OthersLeft(t)
  BY <1>5 DEF TrieChange, OthersLeft
<1>8. MoreReal
  BY <1>1, <1>7, TrieChangeOK
<1>9. ~Missing(k) => k \in RealNodes'
  BY <1>4, <1>8 DEF MoreReal, RealNodes
<1>10. CASE Denied(t) /\ UNCHANGED sharers
  <2>1. Moves(t)
    BY <1>10, IdleMoves DEF Denied
  <2>2. MutexesOK'
    BY <1>1, <1>5, <1>10 DEF MutexesOK, Denied
  <2> QED
    BY <1>7, <2>1, <2>2, StepKeepsInv
<1>11. CASE Available(t) /\ UNCHANGED sharers
  <2>1. Moves(t)
    BY <1>1, <1>4, <1>11, AvailableMoves
  <2>2. MutexesOK'
    BY <1>1, <1>5, <1>11 DEF MutexesOK, Available
  <2> QED
    BY <1>7, <2>1, <2>2, StepKeepsInv
<1>12. CASE /\ ~AtParent(t) /\ ~Missing(k)
            /\ Goto(t, "verify", Append(th[t].trail, k))
            /\ UNCHANGED <<sharers, batching>>
  <2>1. "verify" \in (IF AtParent(t) THEN AtTarget ELSE GoingDown)
    BY <1>12 DEF GoingDown
  <2>2. Moves(t)
    BY <1>1, <1>4, <1>8, <1>9, <1>12, <2>1, EnterMoves
  <2>3. MutexesOK'
    BY <1>1, <1>5, <1>12 DEF MutexesOK
  <2> QED
    BY <1>7, <2>2, <2>3, StepKeepsInv
<1>13. CASE /\ AtParent(t) /\ ~Missing(k)
            /\ sharers' = [sharers EXCEPT ![o] = @ \cup {t}]
            /\ Goto(t, "inspect", Append(th[t].trail, k))
            /\ UNCHANGED batching
  <2>1. "inspect" \in (IF AtParent(t) THEN AtTarget ELSE GoingDown)
    BY <1>13 DEF AtTarget
  <2>2. Moves(t)
    BY <1>1, <1>4, <1>8, <1>9, <1>13, <2>1, EnterMoves
  <2>3. MutexesOK'
    BY <1>1, <1>5, <1>13 DEF MutexesOK
  <2> QED
    BY <1>7, <2>2, <2>3, StepKeepsInv
<1> QED
  BY <1>6, <1>10, <1>11, <1>12, <1>13

\* The look at the target, under its parent's mutex.
LEMMA InspectOK ==
  ASSUME IInv, NEW t \in Users, Inspect(t)
  PROVE  IInv' /\ TrieChange(t)
<1>1. MutexesOK /\ ThreadsOK /\ th[t].pc \in AtTarget
  BY DEF IInv, Inspect, At, AtTarget
<1>2. th[t].i \in 1..Len(th[t].paths)
  BY <1>1, TargetFacts
<1>3. /\ UNCHANGED <<trie, writer>>
      /\ sharers' = [o \in Objects |-> sharers[o] \ {t}]
      /\ Available(t) \/ Denied(t)
  BY DEF Inspect
<1>4. Moves(t) /\ batching' \in Users \cup {NoUser}
  BY <1>1, <1>2, <1>3, AvailableMoves, IdleMoves DEF Denied
<1>5. TrieChange(t) /\ OthersLeft(t) /\ MutexesOK'
  BY <1>1, <1>3, <1>4 DEF TrieChange, OthersLeft, MutexesOK
<1> QED
  BY <1>4, <1>5, StepKeepsInv

\* A new call begins at the root, unless it is to walk over the tree.
LEMMA BeginMoves ==
  ASSUME NEW t \in Users, NEW call \in Operations, NEW pc \in GoingDown \cup {"walk"},
         NEW paths \in Seq(Files), pc # "walk" => paths # <<>>,
         NEW mode \in hdlm!RequestModes, Begin(t, call, pc, paths, mode)
  PROVE  Moves(t)
<1>1. PICK tr \in Seq(Objects) : tr = IF pc = "walk" THEN <<>> ELSE <<RootNode>>
  <2>1. <<>> \in Seq(Objects)
    OBVIOUS
  <2> QED
    BY <2>1, RootIsObject, Zenon
<1>2. PICK r : r = [Idle EXCEPT !.call = call, !.pc = pc, !.paths = paths, !.mode = mode,
                                !.trail = tr]
  OBVIOUS
<1>3. th' = [th EXCEPT ![t] = r]
  BY <1>1, <1>2 DEF Begin
<1>4. /\ r \in Threads
      /\ r.pc = pc /\ r.i = 1 /\ r.paths = paths /\ r.trail = tr /\ r.seen = {}
  <2>1. Idle \in Threads /\ Idle.i = 1 /\ Idle.seen = {}
    BY IdleOK DEF Idle
  <2>2. pc \in PCs
    BY DEF PCs, GoingDown
  <2> QED
    BY <1>2, <2>1, <2>2 DEF Threads
<1>5. CASE pc = "walk"
  <2>1. PlaceOK(r)
    BY <1>1, <1>4, <1>5 DEF PlaceOK, GoingDown, AtTarget
  <2>2. r.trail \in Seq(RealNodes')
    BY <1>1, <1>4, <1>5
  <2> QED
    BY <1>3, <1>4, <1>5, <2>1, <2>2 DEF Moves
<1>6. CASE pc # "walk"
  <2>1. r.i \in 1..Len(r.paths)
    BY <1>4, <1>6
  <2> QED
    BY <1>1, <1>3, <1>4, <1>6, <2>1, StartMoves
<1> QED
  BY <1>5, <1>6

\* A user calls an operation.
LEMMA CallOK ==
  ASSUME IInv, NEW t \in Users, Call(t)
  PROVE  IInv' /\ TrieChange(t)
<1>1. MutexesOK
  BY DEF IInv
<1>2. UNCHANGED <<trie, writer, sharers>> /\ batching' \in {batching, t}
  BY DEF Call, Begin
<1>3. TrieChange(t) /\ OthersLeft(t) /\ MutexesOK'
  BY <1>1, <1>2 DEF TrieChange, OthersLeft, MutexesOK
<1>4. "SHARED" \in hdlm!RequestModes
  BY DEF hdlm!RequestModes
<1>5. \A p \in Asked : <<p>> \in Seq(Files) /\ <<p>> # <<>>
  BY CallsAssumption DEF Files
<1>6. <<>> \in Seq(Files)
  OBVIOUS
<1>7. \A b \in Batches : b \in Seq(Files) /\ b # <<>>
  BY CallsAssumption DEF Files
<1>8. CASE \E p \in Asked, m \in hdlm!RequestModes :
             \/ Begin(t, "acquire", "descend", <<p>>, m)
             \/ Begin(t, "release", "find", <<p>>, "SHARED")
             \/ Begin(t, "prune", "cut", <<p>>, "SHARED")
  <2>1. PICK p \in Asked, m \in hdlm!RequestModes :
          \/ Begin(t, "acquire", "descend", <<p>>, m)
          \/ Begin(t, "release", "find", <<p>>, "SHARED")
          \/ Begin(t, "prune", "cut", <<p>>, "SHARED")
    BY <1>8
  <2>2. CASE Begin(t, "acquire", "descend", <<p>>, m)
    <3>1. "acquire" \in Operations
      BY <2>2 DEF Begin
    <3>2. Moves(t)
      BY <1>5, <2>2, <3>1, BeginMoves DEF GoingDown
    <3> QED
      BY <1>3, <3>2, StepKeepsInv
  <2>3. CASE Begin(t, "release", "find", <<p>>, "SHARED")
    <3>1. "release" \in Operations
      BY <2>3 DEF Begin
    <3>2. Moves(t)
      BY <1>4, <1>5, <2>3, <3>1, BeginMoves DEF GoingDown
    <3> QED
      BY <1>3, <3>2, StepKeepsInv
  <2>4. CASE Begin(t, "prune", "cut", <<p>>, "SHARED")
    <3>1. "prune" \in Operations
      BY <2>4 DEF Begin
    <3>2. Moves(t)
      BY <1>4, <1>5, <2>4, <3>1, BeginMoves DEF GoingDown
    <3> QED
      BY <1>3, <3>2, StepKeepsInv
  <2> QED
    BY <2>1, <2>2, <2>3, <2>4
<1>9. CASE \E call \in {"release_all", "list"} : Begin(t, call, "walk", <<>>, "SHARED")
  <2>1. PICK call \in Operations : Begin(t, call, "walk", <<>>, "SHARED")
    BY <1>9 DEF Begin
  <2>2. Moves(t)
    BY <1>4, <1>6, <2>1, BeginMoves
  <2> QED
    BY <1>3, <2>2, StepKeepsInv
<1>10. CASE \E b \in Batches, m \in hdlm!RequestModes : Begin(t, "batch", "verify", b, m)
  <2>1. PICK b \in Batches, m \in hdlm!RequestModes : Begin(t, "batch", "verify", b, m)
    BY <1>10
  <2>2. "batch" \in Operations
    BY <2>1 DEF Begin
  <2>3. Moves(t)
    BY <1>7, <2>1, <2>2, BeginMoves DEF GoingDown
  <2> QED
    BY <1>3, <2>3, StepKeepsInv
<1> QED
  BY <1>4, <1>8, <1>9, <1>10 DEF Call

------------------------------------------------------------------------------
(* The invariant of the threads *)

\* A step that changes nothing keeps the invariant.
LEMMA StutterOK ==
  ASSUME IInv, UNCHANGED vars
  PROVE  IInv'
BY DEF vars, trie, mutexes, IInv, NodesOK, NodeInv, RootUnowned, Unowned, TrieOK, Real, MutexesOK,
       ThreadsOK, ThreadOK, TrailReal, PlaceOK, RealNodes, GrantsKept, At, Here, hdlm!Holds

\* Every step of a thread keeps the invariant.
LEMMA StepOK ==
  ASSUME IInv, [Next]_vars
  PROVE  IInv' /\ (UNCHANGED trie \/ \E t \in Users : TrieChange(t))
<1>1. ASSUME NEW t \in Users, Step(t) PROVE IInv' /\ TrieChange(t)
  BY <1>1, DescendQueuedOK, DescendOK, TakeByPreemptionOK, TakeQueuedOK, TakeGrantedOK,
     AscendOK, FindOK, FreeOK, UnwindStepOK, CutOK, WalkDownOK, WalkUpOK, VerifyOK, InspectOK
     DEF Step
<1> QED
  BY <1>1, CallOK, StutterOK DEF Next, vars

\* At the start there is the root, free, and no thread has a call.
LEMMA InitOK ==
  ASSUME Init
  PROVE  IInv
<1>1. NodesOK
  <2>1. NodeInv(hdlm!FreshNode)
    BY LT!FreshNodeOK, SameOperators, ThreadsAssumption, TrieAssumption, LimitsAssumption
       DEF NodeInv, LT!IsFiniteSet, IsFiniteSet
  <2>2. hdlm!FreshNode \in hdlm!LockNode
    BY <2>1, SameOperators DEF NodeInv, LT!NodeInv
  <2> QED
    BY <2>1, <2>2 DEF Init, NodesOK
<1>2. RootUnowned
  BY RootIsObject DEF Init, RootUnowned, Unowned, hdlm!FreshNode
<1>3. TrieOK
  BY LimitsAssumption DEF Init, TrieOK
<1>4. MutexesOK
  BY DEF Init, MutexesOK
<1>5. ThreadsOK /\ GrantsKept
  <2>1. <<>> \in Seq(RealNodes)
    OBVIOUS
  <2>2. Idle.pc # "ascend"
    BY IdleOK
  <2> QED
    BY <2>1, <2>2, IdleOK DEF Init, ThreadsOK, ThreadOK, TrailReal, GrantsKept, At
<1> QED
  BY <1>1, <1>2, <1>3, <1>4, <1>5 DEF IInv

\* Whatever the threads do, every node is in order, in the tree or pruned from
\* it, and a thread works only on nodes there are.
THEOREM ThreadsInvariance == Spec => []IInv
<1>1. Init => IInv
  BY InitOK
<1>2. IInv /\ [Next]_vars => IInv'
  BY StepOK
<1> QED
  BY <1>1, <1>2, PTL DEF Spec

\* Every variable of the threads' model keeps its type.
THEOREM ThreadsTyped == Spec => []TypeOK
<1>1. IInv => TypeOK
  <2> SUFFICES ASSUME IInv PROVE TypeOK
    OBVIOUS
  <2>1. \A t \in Users : th[t].pc \in PCs
    BY DEF IInv, ThreadsOK, Threads
  <2> QED
    BY <2>1 DEF IInv, NodesOK, TrieOK, MutexesOK, TypeOK
<1> QED
  BY <1>1, ThreadsInvariance, PTL

\* From the moment a lock is granted until the call answers, its user holds it:
\* nobody comes between the grant and the marking of the ancestors.
THEOREM GrantLasts == Spec => []GrantLastsUntilAnswered
<1>1. IInv => GrantLastsUntilAnswered
  BY DEF IInv, GrantsKept, GrantLastsUntilAnswered
<1> QED
  BY <1>1, ThreadsInvariance, PTL

------------------------------------------------------------------------------
(* The way down the trie.  NodeAt is defined by recursion on paths, so its      *)
(* equation has to be proved: by induction on the length of the paths, taken as  *)
(* a statement about a set of numbers.                                           *)

\* The way down the trie through the children K: KidsFor, Kid and NodeAt as
\* functions of the children alone.
KidsIn(K, o, seg) == {c \in K[o] : c[1] = Append(o[1], seg)}
AnyOf(C) == CHOOSE c \in C : TRUE
KidIn(K, o, seg) ==
  IF KidsIn(K, o, seg) = {} THEN <<Append(o[1], seg), 0>> ELSE AnyOf(KidsIn(K, o, seg))

WayDown(K) ==
  CHOOSE f : f = [p \in Nodes |->
    IF p = <<>> THEN RootNode ELSE KidIn(K, f[Front(p)], Last(p))]

\* A path is that of its parent, and a segment.
LEMMA PathSplit ==
  ASSUME NEW p \in Nodes, p # <<>>
  PROVE  /\ Front(p) \in Nodes
         /\ Last(p) \in Segments
         /\ Len(p) \in Nat \ {0}
         /\ Len(Front(p)) = Len(p) - 1
         /\ Append(Front(p), Last(p)) = p
<1>1. p \in Seq(Segments) /\ \A k \in 0..Len(p) : SubSeq(p, 1, k) \in Nodes
  BY TrieAssumption
<1>2. Len(p) \in Nat \ {0}
  BY <1>1
<1>3. Len(p) - 1 \in 0..Len(p)
  BY <1>2
<1>4. Front(p) \in Nodes
  BY <1>1, <1>3, Zenon DEF Front
<1> QED
  BY <1>1, <1>2, <1>4, SplitSequence

\* The nodes of the paths up to n long, on the way down through K.
Upto(n) == {p \in Nodes : Len(p) <= n}
GoesDown(K, f, n) ==
  f = [p \in Upto(n) |-> IF p = <<>> THEN RootNode ELSE KidIn(K, f[Front(p)], Last(p))]

\* Every path has a length.
LEMMA PathLen == \A p \in Nodes : Len(p) \in Nat
BY TrieAssumption

\* There is a way down of any length: it goes on from the one shorter by one.
LEMMA WayOfEachLength ==
  ASSUME NEW K, NEW n \in Nat
  PROVE  \E f : GoesDown(K, f, n)
<1> DEFINE S == {k \in Nat : \E f : GoesDown(K, f, k)}
<1>1. 0 \in S
  <2> DEFINE f == [p \in Upto(0) |-> RootNode]
  <2>1. \A p \in Upto(0) : p = <<>>
    BY TrieAssumption DEF Upto
  <2>2. f = [p \in Upto(0) |-> IF p = <<>> THEN RootNode ELSE KidIn(K, f[Front(p)], Last(p))]
    BY <2>1
  <2> HIDE DEF f
  <2>3. GoesDown(K, f, 0)
    BY <2>2 DEF GoesDown
  <2> QED
    BY <2>3
<1>2. ASSUME NEW k \in Nat, k \in S PROVE k + 1 \in S
  <2>1. PICK f : GoesDown(K, f, k)
    BY <1>2
  <2> DEFINE g == [p \in Upto(k + 1) |->
                     IF p = <<>> THEN RootNode ELSE KidIn(K, f[Front(p)], Last(p))]
  <2>2. \A p \in Upto(k) : p \in Upto(k + 1) /\ g[p] = f[p]
    <3> TAKE p \in Upto(k)
    <3>1. p \in Upto(k + 1)
      BY PathLen DEF Upto
    <3>2. f[p] = IF p = <<>> THEN RootNode ELSE KidIn(K, f[Front(p)], Last(p))
      BY <2>1, Zenon DEF GoesDown
    <3>3. g[p] = IF p = <<>> THEN RootNode ELSE KidIn(K, f[Front(p)], Last(p))
      BY <3>1, Zenon
    <3> QED
      BY <3>1, <3>2, <3>3, Zenon
  <2>3. \A p \in Upto(k + 1) : p # <<>> => Front(p) \in Upto(k)
    BY PathSplit DEF Upto
  <2>4. g = [p \in Upto(k + 1) |->
               IF p = <<>> THEN RootNode ELSE KidIn(K, g[Front(p)], Last(p))]
    <3>1. \A p \in Upto(k + 1) : p # <<>> => g[Front(p)] = f[Front(p)]
      BY <2>2, <2>3
    <3> HIDE DEF g
    <3>2. \A p \in Upto(k + 1) : (IF p = <<>> THEN RootNode ELSE KidIn(K, f[Front(p)], Last(p)))
                 = (IF p = <<>> THEN RootNode ELSE KidIn(K, g[Front(p)], Last(p)))
      BY <3>1, Zenon
    <3> QED
      BY <3>2, Zenon DEF g
  <2> HIDE DEF g
  <2>5. GoesDown(K, g, k + 1)
    BY <2>4 DEF GoesDown
  <2> QED
    BY <2>5
<1> HIDE DEF S
<1>3. n \in S
  BY <1>1, <1>2, SetInduction
<1> QED
  BY <1>3 DEF S

\* Two ways down through the same children agree wherever both go.
LEMMA WaysAgree ==
  ASSUME NEW K, NEW m \in Nat, NEW n \in Nat, NEW f, NEW g,
         GoesDown(K, f, m), GoesDown(K, g, n), NEW p \in Upto(m), p \in Upto(n)
  PROVE  f[p] = g[p]
<1> DEFINE S == {k \in Nat : \A q \in Upto(m) \cap Upto(n) : Len(q) = k => f[q] = g[q]}
<1>1. \A q \in Upto(m) \cap Upto(n) :
        /\ f[q] = IF q = <<>> THEN RootNode ELSE KidIn(K, f[Front(q)], Last(q))
        /\ g[q] = IF q = <<>> THEN RootNode ELSE KidIn(K, g[Front(q)], Last(q))
  BY Zenon DEF GoesDown
<1>2. 0 \in S
  <2>1. \A q \in Upto(m) : Len(q) = 0 => q = <<>>
    BY TrieAssumption DEF Upto
  <2> QED
    BY <1>1, <2>1
<1>3. ASSUME NEW k \in Nat, k \in S PROVE k + 1 \in S
  <2> SUFFICES ASSUME NEW q \in Upto(m) \cap Upto(n), Len(q) = k + 1 PROVE f[q] = g[q]
    OBVIOUS
  <2>1. q # <<>>
    OBVIOUS
  <2>2. Front(q) \in Upto(m) \cap Upto(n) /\ Len(Front(q)) = k
    BY <2>1, PathSplit DEF Upto
  <2>3. f[Front(q)] = g[Front(q)]
    BY <1>3, <2>2
  <2> QED
    BY <1>1, <2>1, <2>3, Zenon
<1> HIDE DEF S
<1>4. Len(p) \in S
  BY <1>2, <1>3, SetInduction, PathLen DEF Upto
<1> QED
  BY <1>4 DEF S

\* So there is one way down for all paths, and it is as its equation says.
LEMMA WayDownIs ==
  ASSUME NEW K
  PROVE  LET f == WayDown(K)
         IN  f = [p \in Nodes |-> IF p = <<>> THEN RootNode ELSE KidIn(K, f[Front(p)], Last(p))]
<1> DEFINE h == [n \in Nat |-> CHOOSE f : GoesDown(K, f, n)]
           F == [p \in Nodes |-> h[Len(p)][p]]
<1>1. \A n \in Nat : GoesDown(K, h[n], n)
  BY WayOfEachLength
<1> HIDE DEF h
<1>2. \A p \in Nodes : F[p] = IF p = <<>> THEN RootNode ELSE KidIn(K, F[Front(p)], Last(p))
  <2> TAKE p \in Nodes
  <2>1. Len(p) \in Nat /\ p \in Upto(Len(p))
    BY PathLen DEF Upto
  <2>2. F[p] = h[Len(p)][p]
    OBVIOUS
  <2>3. h[Len(p)][p] = IF p = <<>> THEN RootNode ELSE KidIn(K, h[Len(p)][Front(p)], Last(p))
    BY <1>1, <2>1, Zenon DEF GoesDown
  <2>4. ASSUME p # <<>> PROVE h[Len(p)][Front(p)] = F[Front(p)]
    <3>1. /\ Front(p) \in Nodes
          /\ Len(Front(p)) \in Nat
          /\ Front(p) \in Upto(Len(p)) /\ Front(p) \in Upto(Len(Front(p)))
      BY <2>4, PathSplit, PathLen DEF Upto
    <3>2. h[Len(p)][Front(p)] = h[Len(Front(p))][Front(p)]
      <4>1. GoesDown(K, h[Len(p)], Len(p)) /\ GoesDown(K, h[Len(Front(p))], Len(Front(p)))
        BY <1>1, <2>1, <3>1
      <4>2. PICK f, g : f = h[Len(p)] /\ g = h[Len(Front(p))]
        OBVIOUS
      <4>3. PICK q : q = Front(p)
        OBVIOUS
      <4>4. GoesDown(K, f, Len(p)) /\ GoesDown(K, g, Len(q))
        BY <4>1, <4>2, <4>3, Zenon
      <4>5. q \in Upto(Len(p)) /\ q \in Upto(Len(q)) /\ Len(q) \in Nat
        BY <3>1, <4>3, Zenon
      <4> HIDE DEF F
      <4>6. f[q] = g[q]
        BY <2>1, <4>4, <4>5, WaysAgree
      <4> QED
        BY <4>2, <4>3, <4>6, Zenon
    <3> QED
      BY <3>1, <3>2
  <2> QED
    BY <2>2, <2>3, <2>4, Zenon
<1>3. F = [p \in Nodes |-> IF p = <<>> THEN RootNode ELSE KidIn(K, F[Front(p)], Last(p))]
  <2> DEFINE G == [p \in Nodes |-> IF p = <<>> THEN RootNode ELSE KidIn(K, F[Front(p)], Last(p))]
  <2>1. \A p \in Nodes : F[p] = G[p]
    <3>1. \A p \in Nodes : G[p] = IF p = <<>> THEN RootNode ELSE KidIn(K, F[Front(p)], Last(p))
      BY Zenon
    <3> QED
      BY <1>2, <3>1, Zenon
  <2>2. F = [p \in Nodes |-> F[p]]
    OBVIOUS
  <2>3. G = [p \in Nodes |-> G[p]]
    OBVIOUS
  <2> HIDE DEF F, G
  <2>4. F = G
    BY <2>1, <2>2, <2>3, Zenon
  <2> QED
    BY <2>4, Zenon DEF G
<1> HIDE DEF F
<1> QED
  BY <1>3, Zenon DEF WayDown

\* Induction from a path to those longer by a segment.
LEMMA PathInduction ==
  ASSUME NEW S, <<>> \in S, \A p \in Nodes : p # <<>> /\ Front(p) \in S => p \in S
  PROVE  Nodes \subseteq S
<1> DEFINE T == {n \in Nat : \A p \in Nodes : Len(p) = n => p \in S}
<1>1. 0 \in T
  BY TrieAssumption
<1>2. ASSUME NEW n \in Nat, n \in T PROVE n + 1 \in T
  <2> SUFFICES ASSUME NEW p \in Nodes, Len(p) = n + 1 PROVE p \in S
    OBVIOUS
  <2>1. p # <<>>
    OBVIOUS
  <2>2. Front(p) \in Nodes /\ Len(Front(p)) = n
    BY <2>1, PathSplit
  <2>3. Front(p) \in S
    BY <1>2, <2>2
  <2> QED
    BY <2>1, <2>3
<1> HIDE DEF T
<1>3. Nat \subseteq T
  BY <1>1, <1>2, SetInduction
<1> QED
  BY <1>3, PathLen DEF T

\* What the way down finds under a node of the parent path.
LEMMA KidAt ==
  ASSUME NEW K, NEW o, NEW p \in Nodes, p # <<>>, o[1] = Front(p)
  PROVE  /\ KidIn(K, o, Last(p))[1] = p
         /\ KidsIn(K, o, Last(p)) = {c \in K[o] : c[1] = p}
         /\ (\A c \in K[o] : c[1] # p) => KidIn(K, o, Last(p)) = <<p, 0>>
         /\ (\E c \in K[o] : c[1] = p) => KidIn(K, o, Last(p)) \in K[o]
<1>1. Append(o[1], Last(p)) = p
  BY PathSplit, Zenon
<1>2. KidsIn(K, o, Last(p)) = {c \in K[o] : c[1] = p}
  BY <1>1, Zenon DEF KidsIn
<1> DEFINE C == KidsIn(K, o, Last(p))
<1>3. KidIn(K, o, Last(p)) = IF C = {} THEN <<Append(o[1], Last(p)), 0>> ELSE AnyOf(C)
  BY DEF KidIn
<1>4. KidIn(K, o, Last(p)) = IF C = {} THEN <<p, 0>> ELSE AnyOf(C)
  BY <1>1, <1>3, Zenon
<1>5. C # {} => AnyOf(C) \in C
  BY DEF AnyOf
<1> HIDE DEF C
<1>6. C = {c \in K[o] : c[1] = p}
  BY <1>2 DEF C
<1> QED
  BY <1>4, <1>5, <1>6 DEF C

\* Only the children that are candidates matter.
LEMMA SameKid ==
  ASSUME NEW K, NEW L, NEW o, NEW seg, KidsIn(K, o, seg) = KidsIn(L, o, seg)
  PROVE  KidIn(K, o, seg) = KidIn(L, o, seg)
BY DEF KidIn

\* The way down, a step at a time.
LEMMA WayStep ==
  ASSUME NEW K
  PROVE  /\ WayDown(K)[<<>>] = RootNode
         /\ \A p \in Nodes :
              p # <<>> => WayDown(K)[p] = KidIn(K, WayDown(K)[Front(p)], Last(p))
<1> DEFINE f == WayDown(K)
<1>1. f = [p \in Nodes |-> IF p = <<>> THEN RootNode ELSE KidIn(K, f[Front(p)], Last(p))]
  BY WayDownIs, Zenon
<1> HIDE DEF f
<1>2. /\ f[<<>>] = RootNode
      /\ \A p \in Nodes : p # <<>> => f[p] = KidIn(K, f[Front(p)], Last(p))
  BY <1>1, TrieAssumption, Zenon
<1> QED
  BY <1>2, Zenon DEF f

\* It reaches a node of the path that it is asked for.
LEMMA WayPaths ==
  ASSUME NEW K \in [Objects -> SUBSET Objects]
  PROVE  \A p \in Nodes : WayDown(K)[p] \in Objects /\ WayDown(K)[p][1] = p
<1> DEFINE S == {p \in Nodes : WayDown(K)[p] \in Objects /\ WayDown(K)[p][1] = p}
<1>1. <<>> \in S
  <2>1. RootNode \in Objects /\ RootNode[1] = <<>>
    BY TrieAssumption, LimitsAssumption DEF RootNode, Objects
  <2> QED
    BY <2>1, WayStep, TrieAssumption
<1>2. ASSUME NEW p \in Nodes, p # <<>>, Front(p) \in S PROVE p \in S
  <2> PICK x : x = WayDown(K)[Front(p)]
    OBVIOUS
  <2>1. x \in Objects /\ x[1] = Front(p)
    BY <1>2
  <2>2. WayDown(K)[p] = KidIn(K, x, Last(p))
    BY <1>2, WayStep
  <2>3. <<p, 0>> \in Objects
    BY LimitsAssumption DEF Objects
  <2>4. KidIn(K, x, Last(p)) \in Objects /\ KidIn(K, x, Last(p))[1] = p
    BY <1>2, <2>1, <2>3, KidAt
  <2> QED
    BY <2>2, <2>4
<1> HIDE DEF S
<1>3. Nodes \subseteq S
  BY <1>1, <1>2, PathInduction
<1> QED
  BY <1>3 DEF S

\* L is K with a node more, new to its parent and without children.
ChildAdded(K, L, o, new) ==
  /\ K \in [Objects -> SUBSET Objects] /\ L \in [Objects -> SUBSET Objects]
  /\ o \in Objects /\ new \in Objects /\ new # o
  /\ \A c \in K[o] : c[1] # new[1]
  /\ K[new] = {}
  /\ <<new[1], 0>> \in Objects /\ <<new[1], 0>> # o /\ K[<<new[1], 0>>] = {}
  /\ \A x \in Objects : L[x] = IF x = o THEN K[o] \cup {new} ELSE K[x]

\* One child more: only the node of its path can be another than before.
LEMMA GrownWay ==
  ASSUME NEW K, NEW L, NEW o, NEW new, ChildAdded(K, L, o, new)
  PROVE  \A p \in Nodes :
           \/ WayDown(L)[p] = WayDown(K)[p]
           \/ p = new[1] /\ WayDown(K)[p] = <<p, 0>> /\ WayDown(L)[p] = new
<1>1. K \in [Objects -> SUBSET Objects] /\ L \in [Objects -> SUBSET Objects]
  BY DEF ChildAdded
<1>2. /\ L[o] = K[o] \cup {new}
      /\ \A x \in Objects : x # o => L[x] = K[x]
      /\ \A c \in K[o] : c[1] # new[1]
  BY DEF ChildAdded
<1>3. K[new] = {} /\ L[new] = {} /\ K[<<new[1], 0>>] = {}
  BY DEF ChildAdded
<1> DEFINE Grown(p) == p = new[1] /\ WayDown(K)[p] = <<p, 0>> /\ WayDown(L)[p] = new
           S == {p \in Nodes : WayDown(L)[p] = WayDown(K)[p] \/ Grown(p)}
<1>4. <<>> \in S
  BY WayStep, TrieAssumption
<1>5. ASSUME NEW p \in Nodes, p # <<>>, Front(p) \in S PROVE p \in S
  <2> PICK x, y, seg : x = WayDown(K)[Front(p)] /\ y = WayDown(L)[Front(p)] /\ seg = Last(p)
    OBVIOUS
  <2>1. /\ x \in Objects /\ x[1] = Front(p)
        /\ y \in Objects /\ y[1] = Front(p)
    BY <1>1, <1>5, WayPaths
  <2>2. /\ KidsIn(K, x, seg) = {c \in K[x] : c[1] = p}
        /\ (\A c \in K[x] : c[1] # p) => KidIn(K, x, seg) = <<p, 0>>
    BY <1>5, <2>1, KidAt
  <2>3. /\ KidsIn(L, y, seg) = {c \in L[y] : c[1] = p}
        /\ (\A c \in L[y] : c[1] # p) => KidIn(L, y, seg) = <<p, 0>>
        /\ KidIn(L, y, seg)[1] = p
        /\ (\E c \in L[y] : c[1] = p) => KidIn(L, y, seg) \in L[y]
    BY <1>5, <2>1, KidAt
  <2>4. WayDown(K)[p] = KidIn(K, x, seg) /\ WayDown(L)[p] = KidIn(L, y, seg)
    BY <1>5, WayStep
  <2>5. CASE x = y /\ (x # o \/ p # new[1])
    <3>1. {c \in L[x] : c[1] = p} = {c \in K[x] : c[1] = p}
      BY <1>2, <2>1, <2>5
    <3>2. KidsIn(K, x, seg) = KidsIn(L, x, seg)
      BY <2>2, <2>3, <2>5, <3>1, Zenon
    <3>3. KidIn(K, x, seg) = KidIn(L, x, seg)
      BY <3>2, SameKid
    <3> QED
      BY <2>4, <2>5, <3>3
  <2>6. CASE x = y /\ x = o /\ p = new[1]
    <3>1. WayDown(K)[p] = <<p, 0>>
      BY <1>2, <2>2, <2>4, <2>6
    <3>2. WayDown(L)[p] = new
      <4>1. KidIn(L, o, seg) \in L[o] /\ KidIn(L, o, seg)[1] = p
        BY <1>2, <2>3, <2>6
      <4> QED
        BY <1>2, <2>4, <2>6, <4>1
    <3> QED
      BY <2>6, <3>1, <3>2
  <2>7. CASE x # y
    <3>1. x = <<new[1], 0>> /\ y = new
      BY <1>5, <2>7
    <3>2. K[x] = {} /\ L[y] = {}
      BY <1>3, <3>1, Zenon
    <3>3. WayDown(K)[p] = <<p, 0>> /\ WayDown(L)[p] = <<p, 0>>
      BY <2>2, <2>3, <2>4, <3>2
    <3> QED
      BY <3>3
  <2> QED
    BY <2>5, <2>6, <2>7
<1> HIDE DEF S
<1>6. Nodes \subseteq S
  BY <1>4, <1>5, PathInduction
<1> QED
  BY <1>6 DEF S

\* L is K with a child k of o less, if it was one.
ChildCut(K, L, o, k) ==
  /\ K \in [Objects -> SUBSET Objects] /\ L \in [Objects -> SUBSET Objects]
  /\ o \in Objects
  /\ \A c, d \in K[o] : c[1] = d[1] => c = d
  /\ \A p \in Files : <<p, 0>> \in Objects /\ K[<<p, 0>>] = {}
  /\ \A x \in Objects : L[x] = IF x = o THEN K[o] \ {k} ELSE K[x]

\* One child less: a path has its node still, or none.
LEMMA CutWay ==
  ASSUME NEW K, NEW L, NEW o, NEW k, ChildCut(K, L, o, k)
  PROVE  \A p \in Nodes :
           WayDown(L)[p] = WayDown(K)[p] \/ (p # <<>> /\ WayDown(L)[p] = <<p, 0>>)
<1>1. K \in [Objects -> SUBSET Objects] /\ L \in [Objects -> SUBSET Objects]
  BY DEF ChildCut
<1>2. /\ L[o] = K[o] \ {k}
      /\ \A x \in Objects : x # o => L[x] = K[x]
      /\ \A c, d \in K[o] : c[1] = d[1] => c = d
  BY DEF ChildCut
<1>3. \A p \in Files : L[<<p, 0>>] = {}
  BY DEF ChildCut
<1> DEFINE S == {p \in Nodes : WayDown(L)[p] = WayDown(K)[p]
                               \/ (p # <<>> /\ WayDown(L)[p] = <<p, 0>>)}
<1>4. <<>> \in S
  BY WayStep, TrieAssumption
<1>5. ASSUME NEW p \in Nodes, p # <<>>, Front(p) \in S PROVE p \in S
  <2> PICK x, y, seg : x = WayDown(K)[Front(p)] /\ y = WayDown(L)[Front(p)] /\ seg = Last(p)
    OBVIOUS
  <2>1. /\ x \in Objects /\ x[1] = Front(p)
        /\ y \in Objects /\ y[1] = Front(p)
    BY <1>1, <1>5, WayPaths
  <2>2. /\ KidsIn(K, x, seg) = {c \in K[x] : c[1] = p}
        /\ KidsIn(L, y, seg) = {c \in L[y] : c[1] = p}
        /\ (\A c \in L[y] : c[1] # p) => KidIn(L, y, seg) = <<p, 0>>
    BY <1>5, <2>1, KidAt
  <2>3. WayDown(K)[p] = KidIn(K, x, seg) /\ WayDown(L)[p] = KidIn(L, y, seg)
    BY <1>5, WayStep
  <2>4. CASE x = y /\ KidsIn(K, x, seg) = KidsIn(L, x, seg)
    <3>1. KidIn(K, x, seg) = KidIn(L, x, seg)
      BY <2>4, SameKid
    <3> QED
      BY <2>3, <2>4, <3>1
  <2>5. CASE x = y /\ KidsIn(K, x, seg) # KidsIn(L, x, seg)
    <3>1. {c \in K[x] : c[1] = p} # {c \in L[x] : c[1] = p}
      BY <2>2, <2>5, Zenon
    <3>2. x = o /\ L[o] = K[o] \ {k}
      BY <1>2, <2>1, <3>1
    <3>3. k \in K[o] /\ k[1] = p
      BY <3>1, <3>2
    <3>4. \A c \in L[o] : c[1] # p
      BY <1>2, <3>2, <3>3
    <3>5. KidIn(L, y, seg) = <<p, 0>>
      BY <2>2, <2>5, <3>2, <3>4
    <3> QED
      BY <1>5, <2>3, <3>5
  <2>6. CASE x # y
    <3>1. y = <<Front(p), 0>> /\ Front(p) \in Files
      BY <1>5, <2>6, PathSplit DEF Files
    <3>2. L[y] = {}
      BY <1>3, <3>1
    <3>3. KidIn(L, y, seg) = <<p, 0>>
      BY <2>2, <3>2
    <3> QED
      BY <1>5, <2>3, <3>3
  <2> QED
    BY <2>4, <2>5, <2>6
<1> HIDE DEF S
<1>6. Nodes \subseteq S
  BY <1>4, <1>5, PathInduction
<1> QED
  BY <1>6 DEF S

------------------------------------------------------------------------------
(* The refinement *)

\* NodeAt is the way down through the children there are.
LEMMA NodeAtIs == NodeAt = WayDown(kids) /\ NodeAt' = WayDown(kids')
BY DEF NodeAt, WayDown, Kid, KidsFor, KidIn, KidsIn, AnyOf

\* The lock of a path: the node that the trie has for it.
Lock(p) == node[NodeAt[p]]

\* u's hold of the lock l changes as a readers-writer lock allows, and no other.
LEMMA OneLockChanges ==
  ASSUME NEW u \in Users, NEW l \in Files, HoldersChange(Lock(l), Lock(l)', u),
         \A p \in Files \ {l} : Lock(p)' = Lock(p)
  PROVE  hdlm!Abstract!Next
<1> PICK w, R, v, Q : /\ w = Lock(l).exclusive_owner /\ R = Lock(l).shared_owners
                      /\ v = Lock(l)'.exclusive_owner /\ Q = Lock(l)'.shared_owners
  OBVIOUS
<1>1. hdlm!Abstract!OnlyIn({l})
  BY DEF hdlm!Abstract!OnlyIn, hdlm!Targets, hdlm!Root, Files, Lock
<1>2. l \in hdlm!Targets
  BY DEF hdlm!Targets, hdlm!Root, Files
<1>3. ASSUME TakesWrite(w, R, v, Q, u) PROVE hdlm!Abstract!TakeWrite(l, u)
  BY <1>1, <1>2, <1>3 DEF TakesWrite, hdlm!Abstract!TakeWrite, hdlm!Abstract!Becomes, Lock, Files
<1>4. ASSUME TakesRead(w, R, v, Q, u) PROVE hdlm!Abstract!TakeRead(l, u)
  BY <1>1, <1>2, <1>4 DEF TakesRead, hdlm!Abstract!TakeRead, hdlm!Abstract!Becomes, Lock, Files
<1>5. ASSUME Seizes(w, R, v, Q, u) PROVE hdlm!Abstract!Seize(l, u)
  BY <1>1, <1>2, <1>5 DEF Seizes, hdlm!Abstract!Seize, hdlm!Abstract!Becomes, Lock, Files
<1>6. ASSUME GivesUp(w, R, v, Q, u) PROVE hdlm!Abstract!GiveUp({l}, u)
  <2>1. hdlm!Abstract!Leaves(l, u)
    BY <1>2, <1>6 DEF GivesUp, Passes, hdlm!Abstract!Leaves, hdlm!Abstract!Becomes, Lock, Files
  <2> QED
    BY <1>1, <2>1 DEF hdlm!Abstract!GiveUp
<1>7. \/ TakesWrite(w, R, v, Q, u) \/ TakesRead(w, R, v, Q, u)
      \/ Seizes(w, R, v, Q, u) \/ GivesUp(w, R, v, Q, u)
  BY DEF HoldersChange
<1>8. {l} \in SUBSET hdlm!Targets
  BY <1>2
<1> QED
  BY <1>2, <1>3, <1>4, <1>5, <1>6, <1>7, <1>8 DEF hdlm!Abstract!Next

\* No lock's holders change.
LEMMA NoLockChanges ==
  ASSUME \A p \in Files : /\ Lock(p)'.exclusive_owner = Lock(p).exclusive_owner
                          /\ Lock(p)'.shared_owners = Lock(p).shared_owners
  PROVE  UNCHANGED hdlm!Abstract!vars
BY DEF hdlm!Abstract!vars, hdlm!Targets, hdlm!Root, Files, Lock

\* The locks of S are there no more, and the others as they were.
LEMMA LocksDestroyed ==
  ASSUME NEW S \in SUBSET Files, \A p \in S : Lock(p)' = hdlm!FreshNode,
         \A p \in Files \ S : Lock(p)' = Lock(p)
  PROVE  hdlm!Abstract!Next
<1>1. S \in SUBSET hdlm!Targets
  BY DEF hdlm!Targets, hdlm!Root, Files
<1>2. hdlm!Abstract!Destroy(S)
  BY <1>1 DEF hdlm!Abstract!Destroy, hdlm!Abstract!OnlyIn, hdlm!Abstract!Becomes, hdlm!FreshNode,
     hdlm!Targets, hdlm!Root, Files, Lock
<1> QED
  BY <1>1, <1>2 DEF hdlm!Abstract!Next

\* The trie has a node for every path, of that path.
LEMMA NodeAtPaths ==
  ASSUME TrieOK
  PROVE  \A p \in Nodes : NodeAt[p] \in Objects /\ NodeAt[p][1] = p
<1>1. kids \in [Objects -> SUBSET Objects]
  BY DEF TrieOK
<1> QED
  BY <1>1, NodeAtIs, WayPaths

\* A node that has not been made is free and has no children.
LEMMA NotMade ==
  ASSUME TrieOK, NEW p \in Files
  PROVE  /\ <<p, 0>> \in Objects
         /\ node[<<p, 0>>] = hdlm!FreshNode
         /\ kids[<<p, 0>>] = {}
         /\ ~Real(<<p, 0>>)
<1>1. <<p, 0>> \in Objects /\ <<p, 0>> # RootNode
  BY LimitsAssumption DEF Objects, Files, RootNode
<1>2. ~Real(<<p, 0>>)
  <2>1. made[p] \in Nat
    BY LimitsAssumption DEF TrieOK, Files
  <2> QED
    BY <1>1, <2>1 DEF Real
<1> QED
  BY <1>1, <1>2 DEF TrieOK

\* A change of one node changes the lock of its path, if the trie has it still.
LEMMA ChangesNodeRefines ==
  ASSUME NodesOK, TrieOK, NEW t \in Users, ChangesNode(t)
  PROVE  hdlm!Abstract!Next \/ UNCHANGED hdlm!Abstract!vars
<1>1. PICK o \in Objects, s \in hdlm!LockNode :
         /\ node' = [node EXCEPT ![o] = s]
         /\ \/ QuietChange(node[o], s, t)
            \/ o[1] # <<>> /\ HolderChange(node[o], s, t)
  BY DEF ChangesNode
<1>2. NodeInv(node[o])
  BY DEF NodesOK
<1>3. NodeAt' = NodeAt
  <2>1. kids' = kids
    BY DEF ChangesNode
  <2> QED
    BY <2>1, NodeAtIs
<1>4. \A x \in Objects : node'[x] = IF x = o THEN s ELSE node[x]
  BY <1>1 DEF NodesOK
<1>5. \A p \in Files : /\ NodeAt[p] \in Objects /\ NodeAt[p][1] = p
                       /\ Lock(p)' = IF NodeAt[p] = o THEN s ELSE Lock(p)
  BY <1>3, <1>4, NodeAtPaths DEF Files, Lock
<1>6. CASE QuietChange(node[o], s, t)
  <2>1. s.exclusive_owner = node[o].exclusive_owner /\ s.shared_owners = node[o].shared_owners
    BY <1>2, <1>6, QuietChangeOK
  <2> QED
    BY <1>5, <2>1, NoLockChanges DEF Lock
<1>7. CASE o[1] # <<>> /\ HolderChange(node[o], s, t) /\ NodeAt[o[1]] = o
  <2>1. o[1] \in Files
    BY <1>7 DEF Files, Objects
  <2>2. HoldersChange(node[o], s, t)
    BY <1>2, <1>7, HolderChangeOK
  <2>3. Lock(o[1]) = node[o] /\ Lock(o[1])' = s
    BY <1>5, <1>7, <2>1 DEF Lock
  <2>4. \A p \in Files \ {o[1]} : Lock(p)' = Lock(p)
    BY <1>5
  <2>5. HoldersChange(Lock(o[1]), Lock(o[1])', t)
    BY <2>2, <2>3
  <2> QED
    BY <2>1, <2>4, <2>5, OneLockChanges
<1>8. CASE NodeAt[o[1]] # o
  <2>1. \A p \in Files : Lock(p)' = Lock(p)
    BY <1>5, <1>8
  <2> QED
    BY <2>1, NoLockChanges
<1> QED
  BY <1>1, <1>6, <1>7, <1>8

\* A node that is made is free, as the path was before.
LEMMA GrowsTrieRefines ==
  ASSUME TrieOK, TrieOK', GrowsTrie
  PROVE  UNCHANGED hdlm!Abstract!vars
<1>1. PICK o \in Objects, seg \in Segments :
         Real(o) /\ Append(o[1], seg) \in Nodes /\ MakeKid(o, seg)
  BY DEF GrowsTrie
<1>2. node' = node
  BY DEF GrowsTrie
<1>3. CASE ~Missing(Kid(o, seg))
  <2>1. kids' = kids
    BY <1>1, <1>3 DEF MakeKid
  <2>2. \A p \in Files : Lock(p)' = Lock(p)
    BY <1>2, <2>1, NodeAtIs DEF Lock
  <2> QED
    BY <2>2, NoLockChanges
<1>4. CASE Missing(Kid(o, seg))
  <2> PICK new, p : p = Append(o[1], seg) /\ new = <<p, made[p] + 1>>
    OBVIOUS
  <2>1. /\ made[p] < MaxMade
        /\ kids' = [kids EXCEPT ![o] = kids[o] \cup {new}]
    BY <1>1, <1>4 DEF MakeKid
  <2>2. p \in Files
    BY <1>1, LongerPath DEF Objects, Files
  <2>3. \A c \in kids[o] : c[1] # p
    <3>1. KidsFor(o, seg) = {}
      BY <1>1, <1>4, KidFound
    <3> QED
      BY <3>1 DEF KidsFor
  <2>4. made[p] \in 0..MaxMade
    BY <2>2 DEF TrieOK, Files
  <2>5. new \in Objects /\ new[1] = p /\ new[2] = made[p] + 1 /\ new # RootNode
    <3>1. made[p] + 1 \in 0..MaxMade
      BY <2>1, <2>4, LimitsAssumption
    <3> QED
      BY <2>2, <3>1 DEF Objects, Files, RootNode
  <2>6. ~Real(new)
    BY <2>4, <2>5 DEF Real
  <2>7. new # o /\ kids[new] = {} /\ node[new] = hdlm!FreshNode
    BY <1>1, <2>5, <2>6 DEF TrieOK
  <2>8. /\ <<p, 0>> \in Objects /\ <<p, 0>> # o
        /\ kids[<<p, 0>>] = {} /\ node[<<p, 0>>] = hdlm!FreshNode
    BY <1>1, <2>2, NotMade
  <2>9. /\ kids \in [Objects -> SUBSET Objects]
        /\ kids' \in [Objects -> SUBSET Objects]
        /\ \A x \in Objects : kids'[x] = IF x = o THEN kids[o] \cup {new} ELSE kids[x]
    BY <2>1 DEF TrieOK
  <2>10. \A q \in Nodes : \/ NodeAt'[q] = NodeAt[q]
                          \/ q = p /\ NodeAt[q] = <<q, 0>> /\ NodeAt'[q] = new
    <3>1. ChildAdded(kids, kids', o, new)
      BY <2>3, <2>5, <2>7, <2>8, <2>9 DEF ChildAdded
    <3>2. \A q \in Nodes :
            \/ WayDown(kids')[q] = WayDown(kids)[q]
            \/ q = new[1] /\ WayDown(kids)[q] = <<q, 0>> /\ WayDown(kids')[q] = new
      BY <3>1, GrownWay
    <3> QED
      BY <2>5, <3>2, NodeAtIs
  <2>11. \A q \in Files : Lock(q)' = Lock(q)
    BY <1>2, <2>7, <2>8, <2>10 DEF Lock, Files
  <2> QED
    BY <2>11, NoLockChanges
<1> QED
  BY <1>3, <1>4

\* A child that is cut takes with it the locks of the paths it was on.
LEMMA CutsTrieRefines ==
  ASSUME TrieOK, TrieOK', CutsTrie
  PROVE  hdlm!Abstract!Next
<1>1. PICK o \in Objects, seg \in Segments :
         kids' = [kids EXCEPT ![o] = kids[o] \ {Kid(o, seg)}]
  BY DEF CutsTrie
<1>2. node' = node
  BY DEF CutsTrie
<1>3. PICK k : k = Kid(o, seg)
  OBVIOUS
<1>4. \A p \in Nodes : NodeAt'[p] = NodeAt[p] \/ (p # <<>> /\ NodeAt'[p] = <<p, 0>>)
  <2>1. /\ kids \in [Objects -> SUBSET Objects]
        /\ kids' \in [Objects -> SUBSET Objects]
        /\ \A c, d \in kids[o] : c[1] = d[1] => c = d
    BY DEF TrieOK
  <2>2. \A p \in Files : <<p, 0>> \in Objects /\ kids[<<p, 0>>] = {}
    BY NotMade
  <2>3. ChildCut(kids, kids', o, k)
    BY <1>1, <1>3, <2>1, <2>2 DEF ChildCut
  <2>4. \A p \in Nodes :
          WayDown(kids')[p] = WayDown(kids)[p] \/ (p # <<>> /\ WayDown(kids')[p] = <<p, 0>>)
    BY <2>3, CutWay
  <2> QED
    BY <2>4, NodeAtIs
<1> DEFINE S == {p \in Files : NodeAt'[p] = <<p, 0>>}
<1>5. \A p \in S : Lock(p)' = hdlm!FreshNode
  BY <1>2, NotMade DEF Lock
<1>6. \A p \in Files \ S : Lock(p)' = Lock(p)
  BY <1>2, <1>4 DEF Lock, Files
<1>7. S \in SUBSET Files
  OBVIOUS
<1> HIDE DEF S
<1> QED
  BY <1>5, <1>6, <1>7, LocksDestroyed

\* Whatever a step does to the trie, the locks allow.
LEMMA TrieChangeRefines ==
  ASSUME IInv, IInv', NEW t \in Users, TrieChange(t)
  PROVE  [hdlm!Abstract!Next]_(hdlm!Abstract!vars)
<1>1. NodesOK /\ TrieOK /\ TrieOK'
  BY DEF IInv
<1>2. CASE UNCHANGED trie
  <2>1. \A p \in Files : Lock(p)' = Lock(p)
    BY <1>2, NodeAtIs DEF trie, Lock
  <2> QED
    BY <2>1, NoLockChanges
<1> QED
  BY <1>1, <1>2, ChangesNodeRefines, GrowsTrieRefines, CutsTrieRefines DEF TrieChange

\* With any threads, any interleaving of them and nodes pruned under them,
\* every path remains the readers-writer lock of RWLocks: a step takes, seizes,
\* gives up, hands over or destroys locks the way it allows, or changes none.
THEOREM ThreadsImplementRWLocks == Spec => ImplementsRWLocks
<1>1. Init => hdlm!Abstract!Init
  <2> SUFFICES ASSUME Init PROVE hdlm!Abstract!Init
    OBVIOUS
  <2>1. \A p \in Nodes : node[NodeAt[p]] = hdlm!FreshNode
    BY InitOK, NodeAtPaths DEF Init, IInv
  <2> QED
    BY <2>1 DEF hdlm!Abstract!Init, hdlm!Targets, hdlm!Root, hdlm!FreshNode
<1>2. IInv /\ IInv' /\ [Next]_vars => [hdlm!Abstract!Next]_(hdlm!Abstract!vars)
  <2> SUFFICES ASSUME IInv, IInv', [Next]_vars
               PROVE  [hdlm!Abstract!Next]_(hdlm!Abstract!vars)
    OBVIOUS
  <2>1. ASSUME NEW t \in Users, TrieChange(t)
        PROVE  [hdlm!Abstract!Next]_(hdlm!Abstract!vars)
    BY <2>1, TrieChangeRefines
  <2>2. CASE UNCHANGED trie
    <3>1. \A p \in Files : Lock(p)' = Lock(p)
      BY <2>2, NodeAtIs DEF trie, Lock
    <3> QED
      BY <3>1, NoLockChanges
  <2> QED
    BY <2>1, <2>2, StepOK
<1> QED
  BY <1>1, <1>2, ThreadsInvariance, PTL
     DEF Spec, ImplementsRWLocks, hdlm!ImplementsRWLocks, hdlm!Abstract!Spec

------------------------------------------------------------------------------
(* Who keeps a mutex *)

\* The path of a child is longer by one.
KidsBeneath == \A o \in Objects : \A c \in kids[o] : Len(c[1]) = Len(o[1]) + 1

\* Only an ascent keeps a mutex to itself, that of its target.
WritersOK ==
  \A o \in Objects : writer[o] # NoUser =>
    sharers[o] = {} /\ At(writer[o], "ascend") /\ Here(writer[o]) = o

\* Only a verification and a walk share mutexes, a walk those on its trail.
SharersOK ==
  \A o \in Objects : \A u \in sharers[o] :
    At(u, "inspect") \/ (At(u, "walk") /\ o \in Range(th[u].trail))

\* A walk goes down from the root, and keeps all that it has come through.
WalksOK ==
  \A t \in Users : At(t, "walk") =>
    \A j \in 1..Len(th[t].trail) :
      t \in sharers[th[t].trail[j]] /\ Len(th[t].trail[j][1]) = j - 1

\* The way of an acquisition leads down.
Lengthens(s) == \A i, j \in 1..Len(s) : i < j => Len(s[i][1]) < Len(s[j][1])

TrailsLengthen ==
  \A t \in Users : th[t].pc \in {"descend", "take", "ascend"} => Lengthens(th[t].trail)

KeepersOK == KidsBeneath /\ WritersOK /\ SharersOK /\ WalksOK /\ TrailsLengthen

\* The lengths of paths are numbers.
LEMMA PathLengths == \A o \in Objects : Len(o[1]) \in Nat
<1>1. \A p \in Nodes : p \in Seq(Segments)
  BY TrieAssumption
<1> QED
  BY <1>1 DEF Objects

\* A child more or less leaves the children where they are.
LEMMA KidsStayBeneath ==
  ASSUME IInv, KidsBeneath, NEW t \in Users, TrieChange(t)
  PROVE  KidsBeneath'
<1>1. TrieOK
  BY DEF IInv
<1>2. CASE kids' = kids
  BY <1>2 DEF KidsBeneath
<1>3. CASE GrowsTrie
  <2>1. PICK o \in Objects, seg \in Segments : Append(o[1], seg) \in Nodes /\ MakeKid(o, seg)
    BY <1>3 DEF GrowsTrie
  <2>2. PICK p : p = Append(o[1], seg)
    OBVIOUS
  <2>3. Len(p) = Len(o[1]) + 1
    <3>1. PICK s \in Seq(Segments) : s = o[1]
      BY TrieAssumption DEF Objects
    <3> QED
      BY <2>2, <3>1
  <2>4. \/ kids' = kids
        \/ kids' = [kids EXCEPT ![o] = kids[o] \cup {<<p, made[p] + 1>>}]
    BY <2>1, <2>2 DEF MakeKid
  <2>5. ASSUME kids' = [kids EXCEPT ![o] = kids[o] \cup {<<p, made[p] + 1>>}],
               NEW x \in Objects, NEW c \in kids'[x]
        PROVE  Len(c[1]) = Len(x[1]) + 1
    <3>1. c \in kids[x] \/ (x = o /\ c = <<p, made[p] + 1>>)
      BY <1>1, <2>5 DEF TrieOK
    <3> QED
      BY <2>3, <3>1 DEF KidsBeneath
  <2> QED
    BY <1>2, <2>4, <2>5 DEF KidsBeneath
<1>4. CASE CutsTrie
  <2>1. PICK o \in Objects, seg \in Segments :
           kids' = [kids EXCEPT ![o] = kids[o] \ {Kid(o, seg)}]
    BY <1>4 DEF CutsTrie
  <2>2. \A x \in Objects : kids'[x] \subseteq kids[x]
    BY <1>1, <2>1 DEF TrieOK
  <2> QED
    BY <2>2 DEF KidsBeneath
<1> QED
  BY <1>2, <1>3, <1>4 DEF TrieChange, ChangesNode, trie

\* A trail that goes on to a longer path.
LEMMA AppendLengthens ==
  ASSUME NEW s \in Seq(Objects), s # <<>>, Lengthens(s),
         NEW c \in Objects, Len(Last(s)[1]) < Len(c[1])
  PROVE  Lengthens(Append(s, c))
<1>1. PICK n \in Nat : n = Len(s) /\ n > 0 /\ Last(s) = s[n]
  BY LastOfTrail
<1>2. PICK z \in Seq(Objects) : z = Append(s, c)
  <2>1. Append(s, c) \in Seq(Objects)
    OBVIOUS
  <2> QED
    BY <2>1, Zenon
<1>3. Len(z) = n + 1 /\ z[n + 1] = c /\ \A j \in 1..n : z[j] = s[j]
  BY <1>1, <1>2
<1>4. ASSUME NEW i \in 1..n + 1, NEW j \in 1..n + 1, i < j
      PROVE  Len(z[i][1]) < Len(z[j][1])
  <2>1. i \in 1..n /\ z[i] = s[i] /\ s[i] \in Objects /\ s[n] \in Objects
    BY <1>1, <1>3, <1>4
  <2>2. CASE j \in 1..n
    BY <1>1, <1>3, <1>4, <2>1, <2>2 DEF Lengthens
  <2>3. CASE j = n + 1
    <3>1. Len(s[i][1]) < Len(c[1])
      <4>1. CASE i = n
        BY <1>1, <4>1
      <4>2. CASE i < n
        <5>1. Len(s[i][1]) < Len(s[n][1])
          BY <1>1, <2>1, <4>2 DEF Lengthens
        <5> QED
          BY <1>1, <2>1, <5>1, PathLengths
      <4> QED
        BY <1>1, <2>1, <4>1, <4>2
    <3> QED
      BY <1>3, <2>1, <2>3, <3>1
  <2> QED
    BY <1>4, <2>2, <2>3
<1>5. Lengthens(z)
  BY <1>3, <1>4 DEF Lengthens
<1> QED
  BY <1>2, <1>5

\* A trail without its first node.
LEMMA TailLengthens ==
  ASSUME NEW s \in Seq(Objects), Len(s) >= 2, Lengthens(s)
  PROVE  Lengthens(Tail(s)) /\ Len(Head(s)[1]) < Len(Last(s)[1])
<1>1. PICK n \in Nat : n = Len(s) /\ n >= 2 /\ Last(s) = s[n]
  BY LastOfTrail
<1>2. PICK z \in Seq(Objects) : z = Tail(s)
  <2>1. Tail(s) \in Seq(Objects)
    BY <1>1
  <2> QED
    BY <2>1, Zenon
<1>3. Len(z) = n - 1 /\ \A j \in 1..n - 1 : z[j] = s[j + 1]
  BY <1>1, <1>2
<1>4. ASSUME NEW i \in 1..n - 1, NEW j \in 1..n - 1, i < j
      PROVE  Len(z[i][1]) < Len(z[j][1])
  <2>1. i + 1 \in 1..n /\ j + 1 \in 1..n /\ i + 1 < j + 1
    BY <1>4
  <2>2. Len(s[i + 1][1]) < Len(s[j + 1][1])
    BY <1>1, <2>1 DEF Lengthens
  <2> QED
    BY <1>3, <2>2
<1>5. Lengthens(z)
  BY <1>3, <1>4 DEF Lengthens
<1>6. Head(s) = s[1] /\ Len(s[1][1]) < Len(s[n][1])
  BY <1>1 DEF Lengthens
<1> QED
  BY <1>1, <1>2, <1>5, <1>6

\* So does one that is at the root, or nowhere.
LEMMA ShortLengthens == Lengthens(<<>>) /\ Lengthens(<<RootNode>>)
  BY DEF Lengthens

\* A thread that keeps nothing, on a way that may become that of an ascent.
Fresh(r) ==
  /\ r.pc \notin {"ascend", "inspect"}
  /\ r.pc = "walk" => r.trail = <<>>
  /\ r.pc \in {"descend", "take"} => Lengthens(r.trail)

\* The step is one of t's alone.
Alone(t) == \A u \in Users \ {t} : th'[u] = th[u]

\* t has let go of all that it kept.
LetsGo(t) ==
  /\ Alone(t)
  /\ Fresh(th'[t])
  /\ \A o \in Objects : /\ writer'[o] = IF writer[o] = t THEN NoUser ELSE writer[o]
                        /\ sharers'[o] = sharers[o] \ {t}

\* Then the others keep what they kept.
LEMMA LetsGoKeeps ==
  ASSUME IInv, KeepersOK, NEW t \in Users, LetsGo(t), KidsBeneath'
  PROVE  KeepersOK'
<1>1. MutexesOK /\ t # NoUser
  BY ThreadsAssumption DEF IInv
<1>2. /\ \A u \in Users \ {t} : th'[u] = th[u]
      /\ Fresh(th'[t])
      /\ \A o \in Objects : /\ writer'[o] = IF writer[o] = t THEN NoUser ELSE writer[o]
                            /\ sharers'[o] = sharers[o] \ {t}
  BY DEF LetsGo, Alone
<1>3. WritersOK'
  <2>1. ASSUME NEW o \in Objects, writer'[o] # NoUser
        PROVE  /\ sharers'[o] = {}
               /\ th'[writer'[o]].pc = "ascend"
               /\ Last(th'[writer'[o]].trail) = o
    <3>1. writer'[o] = writer[o] /\ writer[o] # t /\ writer[o] # NoUser /\ writer[o] \in Users
      BY <1>1, <1>2, <2>1 DEF MutexesOK
    <3>2. sharers[o] = {} /\ At(writer[o], "ascend") /\ Here(writer[o]) = o
      BY <3>1 DEF KeepersOK, WritersOK
    <3>3. th'[writer[o]] = th[writer[o]]
      BY <1>2, <3>1
    <3> QED
      BY <1>2, <3>1, <3>2, <3>3 DEF At, Here
  <2> QED
    BY <2>1 DEF WritersOK, At, Here
<1>4. SharersOK'
  <2>1. ASSUME NEW o \in Objects, NEW u \in sharers'[o]
        PROVE  th'[u].pc = "inspect" \/ (th'[u].pc = "walk" /\ o \in Range(th'[u].trail))
    <3>1. u \in sharers[o] /\ u # t /\ u \in Users
      BY <1>1, <1>2 DEF MutexesOK
    <3>2. th'[u] = th[u]
      BY <1>2, <3>1
    <3> QED
      BY <3>1, <3>2 DEF KeepersOK, SharersOK, At
  <2> QED
    BY <2>1 DEF SharersOK, At
<1>5. WalksOK'
  <2>1. ASSUME NEW u \in Users, th'[u].pc = "walk", NEW j \in 1..Len(th'[u].trail)
        PROVE  u \in sharers'[th'[u].trail[j]] /\ Len(th'[u].trail[j][1]) = j - 1
    <3>1. u # t
      <4>1. CASE u = t
        <5>1. th'[u].trail = <<>>
          BY <1>2, <2>1, <4>1 DEF Fresh
        <5>2. 1..Len(th'[u].trail) = {}
          BY <5>1
        <5> QED
          BY <5>2
      <4> QED
        BY <4>1
    <3>2. th'[u] = th[u]
      BY <1>2, <3>1
    <3>3. u \in sharers[th[u].trail[j]] /\ Len(th[u].trail[j][1]) = j - 1
      BY <2>1, <3>2 DEF KeepersOK, WalksOK, At
    <3>4. th[u].trail[j] \in Objects
      <4>1. th[u].trail \in Seq(Objects)
        BY ThreadFacts DEF IInv
      <4> QED
        BY <3>2, <4>1
    <3> QED
      BY <1>2, <3>1, <3>2, <3>3, <3>4
  <2> QED
    BY <2>1 DEF WalksOK, At
<1>6. TrailsLengthen'
  <2>1. ASSUME NEW u \in Users, th'[u].pc \in {"descend", "take", "ascend"}
        PROVE  Lengthens(th'[u].trail)
    <3>1. CASE u = t
      BY <1>2, <2>1, <3>1 DEF Fresh
    <3>2. CASE u # t
      <4>1. th'[u] = th[u]
        BY <1>2, <3>2
      <4> QED
        BY <2>1, <4>1 DEF KeepersOK, TrailsLengthen
    <3> QED
      BY <3>1, <3>2
  <2> QED
    BY <2>1 DEF TrailsLengthen, Lengthens
<1> QED
  BY <1>3, <1>4, <1>5, <1>6 DEF KeepersOK

\* A thread that kept nothing, and takes nothing to keep.
Plain(t) ==
  /\ Alone(t)
  /\ Fresh(th'[t])
  /\ th[t].pc \notin {"ascend", "walk", "inspect"} \/ (th[t].pc = "walk" /\ th[t].trail = <<>>)
  /\ writer' = writer /\ sharers' = sharers

\* It has let go of all that it kept, which is nothing.
LEMMA PlainLetsGo ==
  ASSUME IInv, KeepersOK, NEW t \in Users, Plain(t)
  PROVE  LetsGo(t)
<1>1. ASSUME NEW o \in Objects PROVE writer[o] # t /\ t \notin sharers[o]
  <2>1. writer[o] # t
    BY ThreadsAssumption DEF KeepersOK, WritersOK, At, Plain
  <2>2. ASSUME t \in sharers[o] PROVE FALSE
    <3>1. th[t].pc = "inspect" \/ (th[t].pc = "walk" /\ o \in Range(th[t].trail))
      BY <2>2 DEF KeepersOK, SharersOK, At
    <3>2. th[t].pc = "walk" /\ th[t].trail = <<>>
      BY <3>1 DEF Plain
    <3>3. Range(<<>>) = {}
      BY DEF Range
    <3> QED
      BY <3>1, <3>2, <3>3
  <2> QED
    BY <2>1, <2>2
<1> QED
  BY <1>1 DEF LetsGo, Plain

\* A thread that is sent to another place on another trail.
LEMMA GotoIs ==
  ASSUME ThreadsOK, NEW t \in Users, NEW pc, NEW s, Goto(t, pc, s)
  PROVE  Alone(t) /\ th'[t] = [th[t] EXCEPT !.pc = pc, !.trail = s]
         /\ th'[t].pc = pc /\ th'[t].trail = s
<1>1. th \in [Users -> Threads]
  BY DEF ThreadsOK
<1>2. th' = [th EXCEPT ![t] = [th[t] EXCEPT !.pc = pc, !.trail = s]]
  BY DEF Goto
<1>3. Alone(t) /\ th'[t] = [th[t] EXCEPT !.pc = pc, !.trail = s]
  BY <1>1, <1>2 DEF Alone
<1>4. th'[t].pc = pc /\ th'[t].trail = s
  BY <1>1, <1>3 DEF Threads
<1> QED
  BY <1>3, <1>4

\* One that starts from the root, or is done.
LEMMA FreshStart ==
  ASSUME NEW r, \/ r.pc \in GoingDown /\ r.trail = <<RootNode>>
                \/ r.pc = "idle"
                \/ r.pc = "walk" /\ r.trail = <<>>
  PROVE  Fresh(r)
  BY ShortLengthens DEF Fresh, GoingDown

\* So it is when a call comes back, or goes on with its next path,
LEMMA ReturnFresh ==
  ASSUME ThreadsOK, NEW t \in Users, NEW pc \in GoingDown, Return(t, pc)
  PROVE  Alone(t) /\ Fresh(th'[t])
<1>1. th \in [Users -> Threads]
  BY DEF ThreadsOK
<1>2. CASE th[t].i < Len(th[t].paths)
  <2>1. PICK k : k = th[t].i + 1
    OBVIOUS
  <2>2. th' = [th EXCEPT ![t] = [th[t] EXCEPT !.pc = pc, !.i = k, !.trail = <<RootNode>>]]
    BY <1>1, <1>2, <2>1 DEF Return
  <2>3. Alone(t) /\ th'[t] = [th[t] EXCEPT !.pc = pc, !.i = k, !.trail = <<RootNode>>]
    BY <1>1, <2>2 DEF Alone
  <2>4. th'[t].pc = pc /\ th'[t].trail = <<RootNode>>
    BY <1>1, <2>3 DEF Threads
  <2> QED
    BY <2>3, <2>4, FreshStart
<1>3. CASE ~(th[t].i < Len(th[t].paths))
  <2>1. th' = [th EXCEPT ![t] = Idle]
    BY <1>3 DEF Return
  <2>2. Alone(t) /\ th'[t] = Idle
    BY <1>1, <2>1 DEF Alone
  <2> QED
    BY <2>2, FreshStart, IdleOK
<1> QED
  BY <1>2, <1>3

\* and when the verification of a path has its answer.
LEMMA VerifiedFresh ==
  ASSUME ThreadsOK, NEW t \in Users, Available(t) \/ Denied(t)
  PROVE  Alone(t) /\ Fresh(th'[t])
<1>1. th \in [Users -> Threads]
  BY DEF ThreadsOK
<1>2. CASE Available(t)
  <2>1. PICK pc \in {"verify", "descend"} :
           pc = IF th[t].i < Len(th[t].paths) THEN "verify" ELSE "descend"
    OBVIOUS
  <2>2. PICK k : k = IF th[t].i < Len(th[t].paths) THEN th[t].i + 1 ELSE 1
    OBVIOUS
  <2>3. th' = [th EXCEPT ![t] = [th[t] EXCEPT !.pc = pc, !.i = k, !.trail = <<RootNode>>]]
    BY <1>1, <1>2, <2>1, <2>2 DEF Available, Threads
  <2>4. Alone(t) /\ th'[t] = [th[t] EXCEPT !.pc = pc, !.i = k, !.trail = <<RootNode>>]
    BY <1>1, <2>3 DEF Alone
  <2>5. th'[t].pc = pc /\ th'[t].trail = <<RootNode>>
    BY <1>1, <2>4 DEF Threads
  <2> QED
    BY <2>1, <2>4, <2>5, FreshStart DEF GoingDown
<1>3. CASE Denied(t)
  <2>1. Alone(t) /\ th'[t] = Idle
    BY <1>1, <1>3 DEF Alone, Denied
  <2> QED
    BY <2>1, FreshStart, IdleOK
<1> QED
  BY <1>2, <1>3

\* A step that changes no mutex and ends fresh is a plain one.
LEMMA PlainKeeps ==
  ASSUME IInv, KeepersOK, NEW t \in Users, Plain(t), TrieChange(t)
  PROVE  KeepersOK'
<1>1. KidsBeneath'
  BY KidsStayBeneath DEF KeepersOK
<1> QED
  BY <1>1, PlainLetsGo, LetsGoKeeps

\* On the way down.
LEMMA DescendPlain ==
  ASSUME IInv, KeepersOK, NEW t \in Users, Descend(t)
  PROVE  Plain(t)
<1>1. TrieOK /\ ThreadsOK /\ th[t].pc = "descend" /\ th[t].pc \in GoingDown
  BY DEF IInv, Descend, At, GoingDown
<1>2. PICK k : k = Kid(Here(t), NextSegment(t))
  OBVIOUS
<1>3. PICK c : c = IF Missing(k) THEN <<k[1], made[k[1]] + 1>> ELSE k
  OBVIOUS
<1>4. PICK pc \in {"take", "descend"} : pc = IF AtParent(t) THEN "take" ELSE "descend"
  OBVIOUS
<1>5. Goto(t, pc, Append(th[t].trail, c))
  BY <1>2, <1>3, <1>4 DEF Descend, Descended
<1>6. Alone(t) /\ th'[t].pc = pc /\ th'[t].trail = Append(th[t].trail, c)
  <2>1. PICK s : s = Append(th[t].trail, c)
    OBVIOUS
  <2> QED
    BY <1>1, <1>5, <2>1, GotoIs
<1>7. c[1] = Append(Here(t)[1], NextSegment(t)) /\ Here(t) \in Objects
  BY <1>1, <1>2, <1>3, DownFacts
<1>8. PICK s \in Seq(Objects) : s = th[t].trail /\ s # <<>> /\ Last(s) = Here(t)
  BY <1>1, ThreadFacts DEF PlaceOK, GoingDown, Here
<1>9. c \in Objects
  <2>1. ThreadsOK' /\ th'[t].trail = Append(s, c)
    BY <1>6, <1>8, DescendOK DEF IInv
  <2>2. th'[t].trail \in Seq(Objects)
    BY <2>1 DEF ThreadsOK, Threads
  <2>3. Append(s, c)[Len(s) + 1] = c /\ Len(s) + 1 \in 1..Len(Append(s, c))
    BY <1>8
  <2>4. PICK z \in Seq(Objects) : z = Append(s, c)
    BY <2>1, <2>2
  <2> QED
    BY <2>3, <2>4
<1>10. Len(Last(s)[1]) < Len(c[1])
  <2>1. PICK q \in Seq(Segments) : q = Here(t)[1]
    BY <1>7, TrieAssumption DEF Objects
  <2> QED
    BY <1>7, <1>8, <2>1
<1>11. Lengthens(s)
  BY <1>1, <1>8 DEF KeepersOK, TrailsLengthen
<1>12. Lengthens(Append(s, c))
  BY <1>8, <1>9, <1>10, <1>11, AppendLengthens
<1> QED
  BY <1>1, <1>6, <1>8, <1>12 DEF Plain, Fresh, Descend, mutexes

\* A request that is answered without an ascent.
LEMMA AnsweredPlain ==
  ASSUME IInv, NEW t \in Users, DescendQueued(t) \/ TakeByPreemption(t) \/ TakeQueued(t)
  PROVE  Plain(t)
<1>1. ThreadsOK /\ th[t].pc \in {"descend", "take"} /\ UNCHANGED <<writer, sharers>>
      /\ Return(t, "descend")
  BY DEF IInv, DescendQueued, TakeByPreemption, TakeQueued, At, Acquired
<1> QED
  BY <1>1, ReturnFresh DEF Plain, GoingDown

\* A release, or a deletion.
LEMMA ReleasePlain ==
  ASSUME IInv, NEW t \in Users, Find(t) \/ Free(t) \/ Unwind(t) \/ Cut(t)
  PROVE  Plain(t)
<1>1. ThreadsOK /\ th[t].pc \in {"find", "free", "unwind", "cut"} /\ UNCHANGED <<writer, sharers>>
  BY DEF IInv, Find, Free, Unwind, Cut, At
<1>2. \/ \E pc \in {"find", "cut"} : Return(t, pc)
      \/ \E pc \in {"find", "free", "unwind", "cut"} : \E s : Goto(t, pc, s)
  <2>1. CASE Find(t)
    <3>1. (IF AtParent(t) THEN "free" ELSE "find") \in {"find", "free", "unwind", "cut"}
      OBVIOUS
    <3> QED
      BY <2>1, <3>1 DEF Find, Released, Enter
  <2>2. CASE Free(t)
    BY <2>2 DEF Free, Released
  <2>3. CASE Unwind(t)
    BY <2>3 DEF Unwind, Released
  <2>4. CASE Cut(t)
    BY <2>4 DEF Cut, Enter
  <2> QED
    BY <2>1, <2>2, <2>3, <2>4
<1>3. ASSUME NEW pc \in {"find", "free", "unwind", "cut"}, NEW s, Goto(t, pc, s)
      PROVE  Alone(t) /\ Fresh(th'[t])
  BY <1>1, <1>3, GotoIs DEF Fresh
<1>4. Alone(t) /\ Fresh(th'[t])
  BY <1>1, <1>2, <1>3, ReturnFresh DEF GoingDown
<1> QED
  BY <1>1, <1>4 DEF Plain

\* The start of a call.
LEMMA CallPlain ==
  ASSUME IInv, NEW t \in Users, Call(t)
  PROVE  Plain(t)
<1> DEFINE Entries == {"descend", "find", "cut", "walk", "verify"}
<1>0. \E call, pc, paths, mode : pc \in Entries /\ Begin(t, call, pc, paths, mode)
  <2>1. /\ "descend" \in Entries /\ "find" \in Entries /\ "cut" \in Entries
        /\ "walk" \in Entries /\ "verify" \in Entries
    OBVIOUS
  <2> HIDE DEF Entries
  <2> QED
    BY <2>1, Zenon DEF Call
<1>1. PICK call, pc, paths, mode : pc \in Entries /\ Begin(t, call, pc, paths, mode)
  BY <1>0
<1>2. ThreadsOK /\ th[t].pc = "idle" /\ UNCHANGED <<writer, sharers>>
  BY <1>1 DEF IInv, Begin, At
<1>3. PICK s : s = IF pc = "walk" THEN <<>> ELSE <<RootNode>>
  OBVIOUS
<1>4. th' = [th EXCEPT ![t] = [Idle EXCEPT !.call = call, !.pc = pc, !.paths = paths,
                                           !.mode = mode, !.trail = s]]
  BY <1>1, <1>3 DEF Begin
<1>5. Alone(t) /\ th'[t].pc = pc /\ th'[t].trail = s
  BY <1>2, <1>4 DEF ThreadsOK, Alone, Idle
<1>6. \/ th'[t].pc \in GoingDown /\ th'[t].trail = <<RootNode>>
      \/ th'[t].pc = "walk" /\ th'[t].trail = <<>>
  BY <1>1, <1>3, <1>5 DEF GoingDown
<1>7. Fresh(th'[t])
  BY <1>6, FreshStart
<1> QED
  BY <1>2, <1>5, <1>7 DEF Plain

\* A grant is kept under the target's mutex.
LEMMA TakeGrantedKeeps ==
  ASSUME IInv, KeepersOK, NEW t \in Users, TakeGranted(t)
  PROVE  KeepersOK'
<1>1. ThreadsOK /\ MutexesOK /\ th[t].pc = "take" /\ t # NoUser
  BY ThreadsAssumption DEF IInv, TakeGranted, At
<1>2. KidsBeneath'
  BY TakeGrantedOK, KidsStayBeneath DEF KeepersOK
<1>3. PICK o \in Objects : o = Here(t)
  BY <1>1, ThreadFacts DEF PlaceOK
<1>4. /\ writer[o] = NoUser /\ sharers[o] = {}
      /\ writer' = [writer EXCEPT ![o] = t]
      /\ sharers' = sharers
      /\ Goto(t, "ascend", th[t].trail)
  BY <1>3 DEF TakeGranted, CanLock
<1>5. Alone(t) /\ th'[t].pc = "ascend" /\ th'[t].trail = th[t].trail
  BY <1>1, <1>4, GotoIs
<1>6. WritersOK'
  <2>1. ASSUME NEW x \in Objects, writer'[x] # NoUser
        PROVE  /\ sharers'[x] = {}
               /\ th'[writer'[x]].pc = "ascend"
               /\ Last(th'[writer'[x]].trail) = x
    <3>1. CASE x = o
      BY <1>1, <1>3, <1>4, <1>5, <3>1 DEF MutexesOK, Here
    <3>2. CASE x # o
      <4>1. writer'[x] = writer[x] /\ writer[x] # NoUser /\ writer[x] \in Users
        BY <1>1, <1>4, <2>1, <3>2 DEF MutexesOK
      <4>2. sharers[x] = {} /\ At(writer[x], "ascend") /\ Here(writer[x]) = x
        BY <4>1 DEF KeepersOK, WritersOK
      <4>3. th'[writer[x]] = th[writer[x]]
        BY <1>1, <1>5, <4>1, <4>2 DEF Alone, At
      <4> QED
        BY <1>4, <4>1, <4>2, <4>3 DEF At, Here
    <3> QED
      BY <3>1, <3>2
  <2> QED
    BY <2>1 DEF WritersOK, At, Here
<1>7. SharersOK'
  <2>1. ASSUME NEW x \in Objects, NEW u \in sharers[x]
        PROVE  th'[u].pc = "inspect" \/ (th'[u].pc = "walk" /\ x \in Range(th'[u].trail))
    <3>1. th[u].pc = "inspect" \/ (th[u].pc = "walk" /\ x \in Range(th[u].trail))
      BY DEF KeepersOK, SharersOK, At
    <3>2. u # t /\ u \in Users
      BY <1>1, <3>1 DEF MutexesOK
    <3> QED
      BY <1>5, <3>1, <3>2 DEF Alone
  <2> QED
    BY <1>4, <2>1 DEF SharersOK, At
<1>8. WalksOK'
  <2>1. ASSUME NEW u \in Users, th'[u].pc = "walk", NEW j \in 1..Len(th'[u].trail)
        PROVE  u \in sharers[th'[u].trail[j]] /\ Len(th'[u].trail[j][1]) = j - 1
    BY <1>5, <2>1 DEF Alone, KeepersOK, WalksOK, At
  <2> QED
    BY <1>4, <2>1 DEF WalksOK, At
<1>9. TrailsLengthen'
  <2>1. ASSUME NEW u \in Users, th'[u].pc \in {"descend", "take", "ascend"}
        PROVE  Lengthens(th'[u].trail)
    BY <1>1, <1>5, <2>1 DEF Alone, KeepersOK, TrailsLengthen
  <2> QED
    BY <2>1 DEF TrailsLengthen, Lengthens
<1> QED
  BY <1>2, <1>6, <1>7, <1>8, <1>9 DEF KeepersOK

\* The ascent lets go of nothing before it has marked the last ancestor, and of
\* the target then.
LEMMA AscendKeeps ==
  ASSUME IInv, KeepersOK, NEW t \in Users, Ascend(t)
  PROVE  KeepersOK'
<1>1. /\ ThreadsOK /\ MutexesOK /\ GrantsKept
      /\ th[t].pc = "ascend" /\ t # NoUser
      /\ th[t].trail \in Seq(Objects) /\ Len(th[t].trail) >= 2
  BY ThreadsAssumption, ThreadFacts DEF IInv, Ascend, At, PlaceOK
<1>2. KidsBeneath'
  BY AscendOK, KidsStayBeneath DEF KeepersOK
<1>3. sharers' = sharers
  BY DEF Ascend
<1>4. CASE Len(th[t].trail) = 2
  <2>1. writer' = [writer EXCEPT ![Here(t)] = NoUser] /\ Return(t, "descend")
    BY <1>4 DEF Ascend, Acquired
  <2>2. Alone(t) /\ Fresh(th'[t])
    BY <1>1, <2>1, ReturnFresh DEF GoingDown
  <2>3. \A o \in Objects : writer[o] = t <=> o = Here(t)
    BY <1>1 DEF GrantsKept, At, KeepersOK, WritersOK
  <2>4. \A o \in Objects : t \notin sharers[o]
    BY <1>1 DEF KeepersOK, SharersOK, At
  <2>5. LetsGo(t)
    BY <1>1, <1>3, <2>1, <2>2, <2>3, <2>4 DEF LetsGo, MutexesOK
  <2> QED
    BY <1>2, <2>5, LetsGoKeeps
<1>5. CASE Len(th[t].trail) # 2
  <2>1. writer' = writer /\ Goto(t, "ascend", Tail(th[t].trail))
    BY <1>5 DEF Ascend
  <2>2. Alone(t) /\ th'[t].pc = "ascend" /\ th'[t].trail = Tail(th[t].trail)
    BY <1>1, <2>1, GotoIs
  <2>3. Last(th'[t].trail) = Here(t)
    BY <1>1, <2>2, TailOfTrail DEF Here
  <2>4. Lengthens(th'[t].trail)
    BY <1>1, <2>2, TailLengthens DEF KeepersOK, TrailsLengthen
  <2>5. WritersOK'
    <3>1. ASSUME NEW x \in Objects, writer[x] # NoUser
          PROVE  /\ sharers[x] = {}
                 /\ th'[writer[x]].pc = "ascend"
                 /\ Last(th'[writer[x]].trail) = x
      BY <1>1, <2>2, <2>3, <3>1 DEF KeepersOK, WritersOK, At, Here, Alone, MutexesOK
    <3> QED
      BY <1>3, <2>1, <3>1 DEF WritersOK, At, Here
  <2>6. SharersOK'
    <3>1. ASSUME NEW x \in Objects, NEW u \in sharers[x]
          PROVE  th'[u].pc = "inspect" \/ (th'[u].pc = "walk" /\ x \in Range(th'[u].trail))
      <4>1. th[u].pc = "inspect" \/ (th[u].pc = "walk" /\ x \in Range(th[u].trail))
        BY DEF KeepersOK, SharersOK, At
      <4>2. u # t /\ u \in Users
        BY <1>1, <4>1 DEF MutexesOK
      <4> QED
        BY <2>2, <4>1, <4>2 DEF Alone
    <3> QED
      BY <1>3, <3>1 DEF SharersOK, At
  <2>7. WalksOK'
    <3>1. ASSUME NEW u \in Users, th'[u].pc = "walk", NEW j \in 1..Len(th'[u].trail)
          PROVE  u \in sharers[th'[u].trail[j]] /\ Len(th'[u].trail[j][1]) = j - 1
      BY <2>2, <3>1 DEF Alone, KeepersOK, WalksOK, At
    <3> QED
      BY <1>3, <3>1 DEF WalksOK, At
  <2>8. TrailsLengthen'
    <3>1. ASSUME NEW u \in Users, th'[u].pc \in {"descend", "take", "ascend"}
          PROVE  Lengthens(th'[u].trail)
      BY <2>2, <2>4, <3>1 DEF Alone, KeepersOK, TrailsLengthen
    <3> QED
      BY <3>1 DEF TrailsLengthen, Lengthens
  <2> QED
    BY <1>2, <2>5, <2>6, <2>7, <2>8 DEF KeepersOK
<1> QED
  BY <1>4, <1>5

\* The end of a verification lets go of the parent.
LEMMA InspectKeeps ==
  ASSUME IInv, KeepersOK, NEW t \in Users, Inspect(t)
  PROVE  KeepersOK'
<1>1. /\ ThreadsOK /\ th[t].pc = "inspect" /\ t # NoUser
      /\ Available(t) \/ Denied(t)
      /\ sharers' = [o \in Objects |-> sharers[o] \ {t}]
      /\ writer' = writer
  BY ThreadsAssumption DEF IInv, Inspect, At
<1>2. KidsBeneath'
  BY InspectOK, KidsStayBeneath DEF KeepersOK
<1>3. Alone(t) /\ Fresh(th'[t])
  BY <1>1, VerifiedFresh
<1>4. \A o \in Objects : writer[o] # t
  BY <1>1 DEF KeepersOK, WritersOK, At
<1>5. LetsGo(t)
  BY <1>1, <1>3, <1>4 DEF LetsGo
<1> QED
  BY <1>2, <1>5, LetsGoKeeps

\* A verification keeps the parent for the look at the target.
LEMMA VerifyKeeps ==
  ASSUME IInv, KeepersOK, NEW t \in Users, Verify(t)
  PROVE  KeepersOK'
<1>1. /\ ThreadsOK /\ MutexesOK /\ th[t].pc = "verify" /\ t # NoUser
      /\ th[t].pc \in GoingDown
      /\ writer' = writer
  BY ThreadsAssumption DEF IInv, Verify, At, GoingDown
<1>2. PICK o \in Objects : o = Here(t)
  BY <1>1, ThreadFacts DEF PlaceOK, GoingDown
<1>3. writer[o] = NoUser
  BY <1>2 DEF Verify, CanShare
<1>4. TrieChange(t)
  BY VerifyOK
<1>5. PICK s : s = Append(th[t].trail, Kid(Here(t), NextSegment(t)))
  OBVIOUS
<1>6. \/ (Available(t) \/ Denied(t)) /\ sharers' = sharers
      \/ Goto(t, "verify", s) /\ sharers' = sharers
      \/ Goto(t, "inspect", s) /\ sharers' = [sharers EXCEPT ![o] = sharers[o] \cup {t}]
  BY <1>2, <1>5 DEF Verify, Enter
<1>7. CASE (Available(t) \/ Denied(t)) /\ sharers' = sharers
  BY <1>1, <1>4, <1>7, VerifiedFresh, PlainKeeps DEF Plain
<1>8. CASE Goto(t, "verify", s) /\ sharers' = sharers
  <2>1. Alone(t) /\ Fresh(th'[t])
    BY <1>1, <1>8, GotoIs DEF Fresh
  <2> QED
    BY <1>1, <1>4, <1>8, <2>1, PlainKeeps DEF Plain
<1>9. CASE Goto(t, "inspect", s) /\ sharers' = [sharers EXCEPT ![o] = sharers[o] \cup {t}]
  <2>1. Alone(t) /\ th'[t].pc = "inspect"
    BY <1>1, <1>9, GotoIs
  <2>2. \A x \in Objects : sharers'[x] = IF x = o THEN sharers[o] \cup {t} ELSE sharers[x]
    BY <1>1, <1>9 DEF MutexesOK
  <2>3. WritersOK'
    <3>1. ASSUME NEW x \in Objects, writer[x] # NoUser
          PROVE  /\ sharers'[x] = {}
                 /\ th'[writer[x]].pc = "ascend"
                 /\ Last(th'[writer[x]].trail) = x
      <4>1. x # o /\ writer[x] \in Users /\ sharers[x] = {}
            /\ th[writer[x]].pc = "ascend" /\ Last(th[writer[x]].trail) = x
        BY <1>1, <1>3, <3>1 DEF KeepersOK, WritersOK, At, Here, MutexesOK
      <4> QED
        BY <1>1, <2>1, <2>2, <4>1 DEF Alone
    <3> QED
      BY <1>1, <3>1 DEF WritersOK, At, Here
  <2>4. SharersOK'
    <3>1. ASSUME NEW x \in Objects, NEW u \in sharers'[x]
          PROVE  th'[u].pc = "inspect" \/ (th'[u].pc = "walk" /\ x \in Range(th'[u].trail))
      <4>1. CASE u = t
        BY <2>1, <4>1
      <4>2. CASE u # t
        <5>1. u \in sharers[x] /\ u \in Users
          BY <1>1, <2>2, <4>2 DEF MutexesOK
        <5>2. th'[u] = th[u]
          BY <2>1, <4>2, <5>1 DEF Alone
        <5> QED
          BY <5>1, <5>2 DEF KeepersOK, SharersOK, At
      <4> QED
        BY <4>1, <4>2
    <3> QED
      BY <3>1 DEF SharersOK, At
  <2>5. WalksOK'
    <3>1. ASSUME NEW u \in Users, th'[u].pc = "walk", NEW j \in 1..Len(th'[u].trail)
          PROVE  u \in sharers'[th'[u].trail[j]] /\ Len(th'[u].trail[j][1]) = j - 1
      <4>1. u # t /\ th'[u] = th[u]
        BY <2>1, <3>1 DEF Alone
      <4>2. u \in sharers[th[u].trail[j]] /\ Len(th[u].trail[j][1]) = j - 1
        BY <3>1, <4>1 DEF KeepersOK, WalksOK, At
      <4>3. th[u].trail \in Seq(Objects)
        BY <1>1, ThreadFacts
      <4>4. th[u].trail[j] \in Objects
        BY <3>1, <4>1, <4>3
      <4> QED
        BY <2>2, <4>1, <4>2, <4>4
    <3> QED
      BY <3>1 DEF WalksOK, At
  <2>6. TrailsLengthen'
    <3>1. ASSUME NEW u \in Users, th'[u].pc \in {"descend", "take", "ascend"}
          PROVE  Lengthens(th'[u].trail)
      BY <2>1, <3>1 DEF Alone, KeepersOK, TrailsLengthen
    <3> QED
      BY <3>1 DEF TrailsLengthen, Lengthens
  <2>7. KidsBeneath'
    BY <1>4, KidsStayBeneath DEF KeepersOK
  <2> QED
    BY <2>3, <2>4, <2>5, <2>6, <2>7 DEF KeepersOK
<1> QED
  BY <1>6, <1>7, <1>8, <1>9

\* A trail with a node more.
LEMMA LongerTrail ==
  ASSUME NEW s \in Seq(Objects), NEW o \in Objects
  PROVE  /\ Len(Append(s, o)) = Len(s) + 1
         /\ \A j \in 1..Len(s) : Append(s, o)[j] = s[j]
         /\ Append(s, o)[Len(s) + 1] = o
         /\ Range(Append(s, o)) = Range(s) \cup {o}
<1>1. PICK n \in Nat : n = Len(s)
  OBVIOUS
<1>2. PICK z \in Seq(Objects) : z = Append(s, o)
  <2>1. Append(s, o) \in Seq(Objects)
    OBVIOUS
  <2> QED
    BY <2>1, Zenon
<1>3. Len(z) = n + 1 /\ z[n + 1] = o /\ \A j \in 1..n : z[j] = s[j]
  BY <1>1, <1>2
<1>4. DOMAIN z = 1..n + 1 /\ DOMAIN s = 1..n /\ \A j \in 1..n + 1 : j \in 1..n \/ j = n + 1
  BY <1>1, <1>3
<1>5. Range(z) = Range(s) \cup {o}
  BY <1>3, <1>4 DEF Range
<1> QED
  BY <1>1, <1>2, <1>3, <1>5

\* A trail without its last node.
LEMMA ShorterTrail ==
  ASSUME NEW s \in Seq(Objects), Len(s) >= 2
  PROVE  /\ Front(s) \in Seq(Objects)
         /\ Len(Front(s)) = Len(s) - 1
         /\ \A j \in 1..Len(s) - 1 : Front(s)[j] = s[j]
         /\ Range(s) = Range(Front(s)) \cup {Last(s)}
<1>1. PICK n \in Nat : n + 1 = Len(s) /\ n >= 1 /\ Last(s) = s[n + 1]
  <2>1. Len(s) \in Nat /\ Last(s) = s[Len(s)]
    BY DEF Last
  <2>2. /\ Len(s) - 1 \in Nat /\ (Len(s) - 1) + 1 = Len(s) /\ Len(s) - 1 >= 1
        /\ Last(s) = s[(Len(s) - 1) + 1]
    BY <2>1
  <2> QED
    BY <2>2, Zenon
<1>2. PICK z \in Seq(Objects) : z = Front(s)
  BY FrontOfTrail
<1>3. Len(z) = n /\ \A j \in 1..n : z[j] = s[j]
  <2>1. Len(s) - 1 = n
    BY <1>1
  <2>2. z = SubSeq(s, 1, n)
    BY <1>2, <2>1 DEF Front
  <2> QED
    BY <1>1, <2>2
<1>4. DOMAIN s = 1..n + 1 /\ DOMAIN z = 1..n /\ \A j \in 1..n + 1 : j \in 1..n \/ j = n + 1
  BY <1>1, <1>3
<1>5. Range(s) = Range(z) \cup {Last(s)}
  BY <1>1, <1>3, <1>4 DEF Range
<1> QED
  BY <1>1, <1>2, <1>3, <1>5

\* A walk that has begun is at the last node of its trail, as deep as the trail
\* is long.
LEMMA WalkFacts ==
  ASSUME IInv, KeepersOK, NEW t \in Users, th[t].pc = "walk"
  PROVE  /\ th[t].trail \in Seq(Objects)
         /\ th[t].seen = {} => th[t].trail = <<>>
         /\ th[t].seen # {} => th[t].trail # <<>>
         /\ th[t].trail # <<>> =>
              /\ Here(t) \in Objects /\ t \in sharers[Here(t)]
              /\ Len(Here(t)[1]) = Len(th[t].trail) - 1
              /\ Here(t) = RootNode <=> Len(th[t].trail) = 1
<1>1. /\ th[t] \in Threads /\ PlaceOK(th[t])
      /\ th[t].trail \in Seq(Objects)
  BY ThreadFacts DEF IInv
<1>2. PICK s \in Seq(Objects) : s = th[t].trail
  BY <1>1
<1>3. ASSUME s # <<>>
      PROVE  /\ Last(s) \in Objects /\ t \in sharers[Last(s)]
             /\ Len(Last(s)[1]) = Len(s) - 1
             /\ Last(s) = RootNode <=> Len(s) = 1
  <2>1. Len(s) \in Nat \ {0} /\ Last(s) = s[Len(s)] /\ Last(s) \in Objects
    BY <1>3, LastOfTrail
  <2>2. t \in sharers[Last(s)] /\ Len(Last(s)[1]) = Len(s) - 1
    <3>1. Len(s) \in 1..Len(s)
      BY <2>1
    <3>2. \A j \in 1..Len(s) : t \in sharers[s[j]] /\ Len(s[j][1]) = j - 1
      BY <1>2 DEF KeepersOK, WalksOK, At
    <3> QED
      BY <2>1, <3>1, <3>2
  <2>3. s[1] = RootNode
    BY <1>1, <1>2, <1>3 DEF PlaceOK
  <2>4. Last(s) = RootNode => Len(s) = 1
    <3>1. Len(RootNode[1]) = 0
      BY DEF RootNode
    <3>2. PICK m \in Nat : m = Len(s)
      BY <2>1
    <3> QED
      BY <2>2, <3>1, <3>2
  <2>5. Len(s) = 1 => Last(s) = RootNode
    BY <2>1, <2>3
  <2> QED
    BY <2>1, <2>2, <2>4, <2>5
<1> QED
  BY <1>1, <1>2, <1>3 DEF PlaceOK, Here

\* The walk goes down, and keeps the mutex of the node it comes to.
LEMMA WalkDownKeeps ==
  ASSUME IInv, KeepersOK, NEW t \in Users, WalkDown(t)
  PROVE  KeepersOK'
<1>1. /\ ThreadsOK /\ MutexesOK /\ TrieOK /\ th[t].pc = "walk" /\ t # NoUser
      /\ writer' = writer
      /\ th \in [Users -> Threads]
  BY ThreadsAssumption DEF IInv, WalkDown, At, ThreadsOK
<1>2. KidsBeneath'
  BY WalkDownOK, KidsStayBeneath DEF KeepersOK
<1>3. PICK s \in Seq(Objects) : s = th[t].trail
  BY <1>1, WalkFacts
<1>4. PICK o \in Below(t) :
        /\ CanShare(o)
        /\ sharers' = [sharers EXCEPT ![o] = @ \cup {t}]
        /\ th' = [th EXCEPT ![t].trail = Append(@, o), ![t].seen = @ \cup {o},
                            ![t].found = IF Owns(t, o) THEN @ \cup {o[1]} ELSE @]
  BY DEF WalkDown
<1>5. o \in Objects /\ Len(o[1]) = Len(s)
  <2>1. CASE th[t].seen = {}
    <3>1. o = RootNode /\ s = <<>>
      BY <1>1, <1>3, <1>4, <2>1, WalkFacts DEF Below
    <3> QED
      BY <3>1, RootIsObject DEF RootNode
  <2>2. CASE th[t].seen # {}
    <3>1. PICK x \in Objects : x = Here(t) /\ Len(x[1]) = Len(s) - 1
      BY <1>1, <1>3, <2>2, WalkFacts
    <3>2. o \in kids[x]
      BY <1>4, <2>2, <3>1 DEF Below
    <3>3. o \in Objects /\ Len(o[1]) = Len(x[1]) + 1
      BY <1>1, <3>2 DEF TrieOK, KeepersOK, KidsBeneath
    <3> QED
      BY <3>1, <3>3
  <2> QED
    BY <2>1, <2>2
<1>6. writer[o] = NoUser
  BY <1>4 DEF CanShare
<1>7. PICK found : found = IF Owns(t, o) THEN th[t].found \cup {o[1]} ELSE th[t].found
  OBVIOUS
<1>8. PICK seen : seen = th[t].seen \cup {o}
  OBVIOUS
<1>9. PICK z : z = Append(s, o)
  OBVIOUS
<1>10. th' = [th EXCEPT ![t] = [th[t] EXCEPT !.trail = z, !.seen = seen, !.found = found]]
  BY <1>1, <1>3, <1>4, <1>7, <1>8, <1>9 DEF Threads
<1>11. Alone(t) /\ th'[t].pc = "walk" /\ th'[t].trail = z
  BY <1>1, <1>10 DEF Alone, Threads
<1>12. /\ Len(z) = Len(s) + 1
       /\ \A j \in 1..Len(s) : z[j] = s[j]
       /\ z[Len(s) + 1] = o
       /\ Range(z) = Range(s) \cup {o}
  BY <1>5, <1>9, LongerTrail
<1>13. \A x \in Objects : sharers'[x] = IF x = o THEN sharers[o] \cup {t} ELSE sharers[x]
  BY <1>1, <1>4, <1>5 DEF MutexesOK
<1>14. WritersOK'
  <2>1. ASSUME NEW x \in Objects, writer[x] # NoUser
        PROVE  /\ sharers'[x] = {}
               /\ th'[writer[x]].pc = "ascend"
               /\ Last(th'[writer[x]].trail) = x
    <3>1. x # o /\ writer[x] \in Users /\ sharers[x] = {}
          /\ th[writer[x]].pc = "ascend" /\ Last(th[writer[x]].trail) = x
      BY <1>1, <1>6, <2>1 DEF KeepersOK, WritersOK, At, Here, MutexesOK
    <3> QED
      BY <1>1, <1>11, <1>13, <3>1 DEF Alone
  <2> QED
    BY <1>1, <2>1 DEF WritersOK, At, Here
<1>15. SharersOK'
  <2>1. ASSUME NEW x \in Objects, NEW u \in sharers'[x]
        PROVE  th'[u].pc = "inspect" \/ (th'[u].pc = "walk" /\ x \in Range(th'[u].trail))
    <3>1. CASE u = t
      <4>1. x = o \/ t \in sharers[x]
        BY <1>13, <3>1
      <4>2. t \in sharers[x] => x \in Range(s)
        BY <1>1, <1>3 DEF KeepersOK, SharersOK, At
      <4> QED
        BY <1>11, <1>12, <3>1, <4>1, <4>2
    <3>2. CASE u # t
      <4>1. u \in sharers[x] /\ u \in Users
        BY <1>1, <1>13, <3>2 DEF MutexesOK
      <4>2. th'[u] = th[u]
        BY <1>11, <3>2, <4>1 DEF Alone
      <4> QED
        BY <4>1, <4>2 DEF KeepersOK, SharersOK, At
    <3> QED
      BY <3>1, <3>2
  <2> QED
    BY <2>1 DEF SharersOK, At
<1>16. WalksOK'
  <2>1. ASSUME NEW u \in Users, th'[u].pc = "walk", NEW j \in 1..Len(th'[u].trail)
        PROVE  u \in sharers'[th'[u].trail[j]] /\ Len(th'[u].trail[j][1]) = j - 1
    <3>1. CASE u = t
      <4>1. j = Len(s) + 1 \/ j \in 1..Len(s)
        BY <1>3, <1>11, <1>12, <2>1, <3>1
      <4>2. CASE j = Len(s) + 1
        BY <1>3, <1>5, <1>11, <1>12, <1>13, <3>1, <4>2
      <4>3. CASE j \in 1..Len(s)
        <5>1. t \in sharers[s[j]] /\ Len(s[j][1]) = j - 1 /\ s[j] \in Objects
          BY <1>1, <1>3, <4>3 DEF KeepersOK, WalksOK, At
        <5> QED
          BY <1>11, <1>12, <1>13, <3>1, <4>3, <5>1
      <4> QED
        BY <4>1, <4>2, <4>3
    <3>2. CASE u # t
      <4>1. th'[u] = th[u]
        BY <1>11, <3>2 DEF Alone
      <4>2. u \in sharers[th[u].trail[j]] /\ Len(th[u].trail[j][1]) = j - 1
        BY <2>1, <4>1 DEF KeepersOK, WalksOK, At
      <4>3. th[u].trail \in Seq(Objects)
        BY <1>1, ThreadFacts
      <4>4. th[u].trail[j] \in Objects
        BY <2>1, <4>1, <4>3
      <4> QED
        BY <1>13, <4>1, <4>2, <4>4
    <3> QED
      BY <3>1, <3>2
  <2> QED
    BY <2>1 DEF WalksOK, At
<1>17. TrailsLengthen'
  <2>1. ASSUME NEW u \in Users, th'[u].pc \in {"descend", "take", "ascend"}
        PROVE  Lengthens(th'[u].trail)
    BY <1>11, <2>1 DEF Alone, KeepersOK, TrailsLengthen
  <2> QED
    BY <2>1 DEF TrailsLengthen, Lengthens
<1> QED
  BY <1>2, <1>14, <1>15, <1>16, <1>17 DEF KeepersOK

\* The walk lets go of the node it goes up from; from the root, of the last.
LEMMA WalkUpKeeps ==
  ASSUME IInv, KeepersOK, NEW t \in Users, WalkUp(t)
  PROVE  KeepersOK'
<1>1. /\ ThreadsOK /\ MutexesOK /\ th[t].pc = "walk" /\ th[t].seen # {} /\ t # NoUser
      /\ writer' = writer
      /\ th \in [Users -> Threads]
  BY ThreadsAssumption DEF IInv, WalkUp, At, ThreadsOK
<1>2. KidsBeneath'
  BY WalkUpOK, KidsStayBeneath DEF KeepersOK
<1>3. PICK s \in Seq(Objects) : s = th[t].trail /\ s # <<>>
  BY <1>1, WalkFacts
<1>4. PICK o \in Objects : /\ o = Here(t) /\ o = Last(s)
                           /\ Len(o[1]) = Len(s) - 1
                           /\ o = RootNode <=> Len(s) = 1
  BY <1>1, <1>3, WalkFacts DEF Here
<1>5. sharers' = [sharers EXCEPT ![o] = sharers[o] \ {t}]
  BY <1>4 DEF WalkUp
<1>6. \A x \in Objects : sharers'[x] = IF x = o THEN sharers[o] \ {t} ELSE sharers[x]
  BY <1>1, <1>5 DEF MutexesOK
<1>7. \A x \in Objects : writer[x] # t
  BY <1>1 DEF KeepersOK, WritersOK, At
<1>8. \A x \in Objects : t \in sharers[x] => x \in Range(s)
  BY <1>1, <1>3 DEF KeepersOK, SharersOK, At
<1>9. CASE o = RootNode
  <2>1. Alone(t) /\ Fresh(th'[t])
    <3>1. CASE th' = [th EXCEPT ![t] = Idle]
      <4>1. Alone(t) /\ th'[t] = Idle
        BY <1>1, <3>1 DEF Alone
      <4> QED
        BY <4>1, FreshStart, IdleOK
    <3>2. ASSUME NEW ps, th' = [th EXCEPT ![t] = [Idle EXCEPT !.call = "release_all",
                             !.pc = "find", !.paths = ps, !.trail = <<RootNode>>]]
          PROVE  Alone(t) /\ Fresh(th'[t])
      <4>1. Alone(t) /\ th'[t].pc = "find" /\ th'[t].trail = <<RootNode>>
        BY <1>1, <3>2 DEF Alone, Idle
      <4> QED
        BY <4>1, FreshStart DEF GoingDown
    <3> QED
      BY <1>4, <1>9, <3>1, <3>2 DEF WalkUp
  <2>2. Range(s) = {o}
    <3>1. Len(s) = 1 /\ s[1] = o
      BY <1>3, <1>4, <1>9, LastOfTrail
    <3>2. DOMAIN s = 1..1
      BY <3>1
    <3> QED
      BY <3>1, <3>2 DEF Range
  <2>3. \A x \in Objects : sharers'[x] = sharers[x] \ {t}
    BY <1>6, <1>8, <2>2
  <2>4. LetsGo(t)
    BY <1>1, <1>7, <2>1, <2>3 DEF LetsGo
  <2> QED
    BY <1>2, <2>4, LetsGoKeeps
<1>10. CASE o # RootNode
  <2>1. Goto(t, "walk", Front(s))
    BY <1>3, <1>4, <1>10 DEF WalkUp
  <2>2. PICK n \in Nat : n + 1 = Len(s) /\ n >= 1
    <3>1. Len(s) \in Nat \ {0} /\ Len(s) # 1
      BY <1>3, <1>4, <1>10
    <3>2. PICK m : m = Len(s)
      OBVIOUS
    <3>3. m \in Nat \ {0} /\ m # 1
      BY <3>1, <3>2, Zenon
    <3>4. m - 1 \in Nat /\ (m - 1) + 1 = m /\ m - 1 >= 1
      BY <3>3
    <3> QED
      BY <3>2, <3>4, Zenon
  <2>3. PICK z \in Seq(Objects) : /\ z = Front(s)
                                  /\ Len(z) = n
                                  /\ \A j \in 1..n : z[j] = s[j]
                                  /\ Range(s) = Range(z) \cup {o}
    <3>1. Len(s) >= 2 /\ Len(s) - 1 = n
      BY <2>2
    <3>2. /\ Front(s) \in Seq(Objects)
          /\ Len(Front(s)) = n
          /\ \A j \in 1..n : Front(s)[j] = s[j]
          /\ Range(s) = Range(Front(s)) \cup {o}
      BY <1>4, <3>1, ShorterTrail
    <3> QED
      BY <3>2, Zenon
  <2>4. Alone(t) /\ th'[t].pc = "walk" /\ th'[t].trail = z
    BY <1>1, <2>1, <2>3, GotoIs
  <2>5. \A j \in 1..n : s[j] # o /\ t \in sharers[s[j]] /\ Len(s[j][1]) = j - 1
    <3>1. \A j \in 1..n : t \in sharers[s[j]] /\ Len(s[j][1]) = j - 1
      BY <1>1, <1>3, <2>2 DEF KeepersOK, WalksOK, At
    <3>2. Len(o[1]) = n
      BY <1>4, <2>2
    <3> QED
      BY <3>1, <3>2
  <2>6. WritersOK'
    <3>1. ASSUME NEW x \in Objects, writer[x] # NoUser
          PROVE  /\ sharers'[x] = {}
                 /\ th'[writer[x]].pc = "ascend"
                 /\ Last(th'[writer[x]].trail) = x
      <4>1. writer[x] \in Users /\ sharers[x] = {}
            /\ th[writer[x]].pc = "ascend" /\ Last(th[writer[x]].trail) = x
        BY <1>1, <3>1 DEF KeepersOK, WritersOK, At, Here, MutexesOK
      <4> QED
        BY <1>1, <1>6, <2>4, <4>1 DEF Alone
    <3> QED
      BY <1>1, <3>1 DEF WritersOK, At, Here
  <2>7. SharersOK'
    <3>1. ASSUME NEW x \in Objects, NEW u \in sharers'[x]
          PROVE  th'[u].pc = "inspect" \/ (th'[u].pc = "walk" /\ x \in Range(th'[u].trail))
      <4>1. CASE u = t
        <5>1. x # o /\ t \in sharers[x]
          BY <1>6, <4>1
        <5> QED
          BY <1>8, <2>3, <2>4, <4>1, <5>1
      <4>2. CASE u # t
        <5>1. u \in sharers[x] /\ u \in Users
          BY <1>1, <1>6, <4>2 DEF MutexesOK
        <5>2. th'[u] = th[u]
          BY <2>4, <4>2, <5>1 DEF Alone
        <5> QED
          BY <5>1, <5>2 DEF KeepersOK, SharersOK, At
      <4> QED
        BY <4>1, <4>2
    <3> QED
      BY <3>1 DEF SharersOK, At
  <2>8. WalksOK'
    <3>1. ASSUME NEW u \in Users, th'[u].pc = "walk", NEW j \in 1..Len(th'[u].trail)
          PROVE  u \in sharers'[th'[u].trail[j]] /\ Len(th'[u].trail[j][1]) = j - 1
      <4>1. CASE u = t
        <5>1. j \in 1..n /\ th'[u].trail[j] = s[j] /\ s[j] \in Objects
          BY <2>2, <2>3, <2>4, <3>1, <4>1
        <5> QED
          BY <1>6, <2>5, <4>1, <5>1
      <4>2. CASE u # t
        <5>1. th'[u] = th[u]
          BY <2>4, <4>2 DEF Alone
        <5>2. u \in sharers[th[u].trail[j]] /\ Len(th[u].trail[j][1]) = j - 1
          BY <3>1, <5>1 DEF KeepersOK, WalksOK, At
        <5>3. th[u].trail \in Seq(Objects)
          BY <1>1, ThreadFacts
        <5>4. th[u].trail[j] \in Objects
          BY <3>1, <5>1, <5>3
        <5> QED
          BY <1>6, <4>2, <5>1, <5>2, <5>4
      <4> QED
        BY <4>1, <4>2
    <3> QED
      BY <3>1 DEF WalksOK, At
  <2>9. TrailsLengthen'
    <3>1. ASSUME NEW u \in Users, th'[u].pc \in {"descend", "take", "ascend"}
          PROVE  Lengthens(th'[u].trail)
      BY <2>4, <3>1 DEF Alone, KeepersOK, TrailsLengthen
    <3> QED
      BY <3>1 DEF TrailsLengthen, Lengthens
  <2> QED
    BY <1>2, <2>6, <2>7, <2>8, <2>9 DEF KeepersOK
<1> QED
  BY <1>9, <1>10

\* Whatever a thread does, each mutex is kept by those that can let it go.
LEMMA KeepersStep ==
  ASSUME IInv, KeepersOK, [Next]_vars
  PROVE  KeepersOK'
<1>1. CASE UNCHANGED vars
  BY <1>1 DEF vars, trie, mutexes, KeepersOK, KidsBeneath, WritersOK, SharersOK, WalksOK,
     TrailsLengthen, At, Here, Lengthens
<1>2. ASSUME NEW t \in Users, Step(t) PROVE KeepersOK'
  <2>1. TrieChange(t)
    BY <1>2, DescendQueuedOK, DescendOK, TakeByPreemptionOK, TakeQueuedOK, TakeGrantedOK,
       AscendOK, FindOK, FreeOK, UnwindStepOK, CutOK, WalkDownOK, WalkUpOK, VerifyOK, InspectOK
       DEF Step
  <2>2. ASSUME Plain(t) PROVE KeepersOK'
    BY <2>1, <2>2, PlainKeeps
  <2> QED
    BY <1>2, <2>2, AnsweredPlain, DescendPlain, ReleasePlain, TakeGrantedKeeps, AscendKeeps,
       WalkDownKeeps, WalkUpKeeps, VerifyKeeps, InspectKeeps DEF Step
<1>3. ASSUME NEW t \in Users, Call(t) PROVE KeepersOK'
  <2>1. TrieChange(t)
    BY <1>3, CallOK
  <2> QED
    BY <1>3, <2>1, CallPlain, PlainKeeps
<1> QED
  BY <1>1, <1>2, <1>3 DEF Next

\* Every mutex is kept by an ascent, for its target, or by a walk, for a node on
\* its trail, or by a verification, and by no other thread.
THEOREM KeepersInvariance == Spec => []KeepersOK
<1>1. Init => KeepersOK
  <2> SUFFICES ASSUME Init PROVE KeepersOK
    OBVIOUS
  <2>1. \A t \in Users : th[t].pc = "idle"
    BY IdleOK DEF Init
  <2> QED
    BY <2>1 DEF Init, KeepersOK, KidsBeneath, WritersOK, SharersOK, WalksOK,
       TrailsLengthen, At
<1>2. IInv /\ KeepersOK /\ [Next]_vars => KeepersOK'
  BY KeepersStep
<1> QED
  BY <1>1, <1>2, ThreadsInvariance, PTL DEF Spec

------------------------------------------------------------------------------
(* Deadlock *)

\* A mutex is kept by an ascent, for its target, or shared.
LEMMA KeeperIs ==
  ASSUME IInv, KeepersOK, NEW o \in Objects, NEW t \in Users, Keeps(t, o)
  PROVE  \/ writer[o] = t /\ writer[o] # NoUser /\ th[t].pc = "ascend" /\ Here(t) = o
         \/ writer[o] = NoUser /\ t \in sharers[o] /\ th[t].pc \in {"walk", "inspect"}
<1>1. t # NoUser
  BY ThreadsAssumption
<1>2. CASE writer[o] = t
  BY <1>1, <1>2 DEF KeepersOK, WritersOK, At
<1>3. CASE t \in sharers[o]
  <2>1. writer[o] = NoUser
    BY <1>3 DEF KeepersOK, WritersOK
  <2> QED
    BY <1>3, <2>1 DEF KeepersOK, SharersOK, At
<1> QED
  BY <1>2, <1>3 DEF Keeps

\* What an ascent waits for is above what it keeps.
LEMMA AscentGoesUp ==
  ASSUME IInv, KeepersOK, NEW t \in Users, th[t].pc = "ascend"
  PROVE  /\ Head(th[t].trail) \in Objects /\ Here(t) \in Objects
         /\ Len(Head(th[t].trail)[1]) < Len(Here(t)[1])
<1>1. /\ th[t].trail \in Seq(Objects) /\ Len(th[t].trail) >= 2 /\ th[t].trail # <<>>
      /\ Head(th[t].trail) \in Objects /\ Here(t) \in Objects
  BY ThreadFacts DEF IInv, PlaceOK
<1>2. Lengthens(th[t].trail)
  BY DEF KeepersOK, TrailsLengthen
<1> QED
  BY <1>1, <1>2, TailLengthens DEF Here

\* In a deadlock a mutex that is kept by one thread alone is that of an ascent.
LEMMA StuckKeeper ==
  ASSUME IInv, KeepersOK, NEW W \in SUBSET Objects, Stuck(W), NEW o \in W
  PROVE  \E t \in Users, x \in W :
           /\ KeepsFor(t, o, x)
           /\ \/ /\ writer[o] = t /\ writer[o] # NoUser /\ th[t].pc = "ascend"
                 /\ Here(t) = o /\ Head(th[t].trail) = x
              \/ /\ writer[o] = NoUser /\ t \in sharers[o] /\ th[t].pc \in {"walk", "inspect"}
                 /\ writer[x] # NoUser
<1>1. PICK t \in Users, x \in W : KeepsFor(t, o, x)
  BY DEF Stuck
<1>2. Keeps(t, o) /\ Awaits(t, x)
  BY <1>1 DEF KeepsFor
<1>3. CASE writer[o] = t /\ writer[o] # NoUser /\ th[t].pc = "ascend" /\ Here(t) = o
  <2>1. Head(th[t].trail) = x
    BY <1>2, <1>3 DEF Awaits, At
  <2> QED
    BY <1>1, <1>3, <2>1
<1>4. CASE writer[o] = NoUser /\ t \in sharers[o] /\ th[t].pc \in {"walk", "inspect"}
  <2>1. writer[x] # NoUser
    BY <1>2, <1>4 DEF Awaits, At, CanShare
  <2> QED
    BY <1>1, <1>4, <2>1
<1> QED
  BY <1>2, <1>3, <1>4, KeeperIs

\* Of the ascents in a deadlock, the one with the target nearest to the root can
\* wait only for a node that is shared.
LEMMA StuckUnderWalk ==
  ASSUME IInv, KeepersOK, NEW W \in SUBSET Objects, Stuck(W)
  PROVE  \E t, u \in Users :
           /\ At(t, "ascend") /\ {Here(t), Head(th[t].trail)} \subseteq W
           /\ u \in sharers[Head(th[t].trail)] /\ th[u].pc \in {"walk", "inspect"}
<1> DEFINE A == {o \in W : writer[o] # NoUser}
           depths == {Len(o[1]) : o \in A}
<1>1. A # {}
  <2>1. PICK o \in W : TRUE
    BY DEF Stuck
  <2>2. PICK t \in Users, x \in W : writer[o] # NoUser \/ writer[x] # NoUser
    BY StuckKeeper
  <2> QED
    BY <2>2
<1>2. depths \in SUBSET Nat /\ depths # {}
  BY <1>1, PathLengths
<1>3. \E n \in depths : \A k \in depths : n <= k
  <2> HIDE DEF depths
  <2> QED
    BY <1>2, Least
<1>4. PICK o \in A : \A x \in A : Len(o[1]) <= Len(x[1])
  BY <1>3
<1>5. PICK t \in Users, x \in W : /\ th[t].pc = "ascend"
                                  /\ Here(t) = o /\ Head(th[t].trail) = x
  BY <1>4, StuckKeeper
<1>6. Len(x[1]) < Len(o[1])
  BY <1>5, AscentGoesUp
<1>7. writer[x] = NoUser
  <2>1. x \in A => Len(o[1]) <= Len(x[1])
    BY <1>4
  <2>2. Len(x[1]) \in Nat /\ Len(o[1]) \in Nat
    BY PathLengths
  <2> QED
    BY <1>6, <2>1, <2>2
<1>8. PICK u \in Users : u \in sharers[x] /\ th[u].pc \in {"walk", "inspect"}
  BY <1>7, StuckKeeper
<1> QED
  BY <1>4, <1>5, <1>8 DEF At

\* Threads that call the lock manager, however many, block each other only with
\* a walk or a verification among them, above the target of an acquisition:
\* acquisitions, releases and deletions by themselves do not deadlock.
THEOREM DeadlocksPassAWalk == Spec => []StuckOnlyUnderWalk
<1>1. IInv /\ KeepersOK => StuckOnlyUnderWalk
  <2> SUFFICES ASSUME IInv, KeepersOK, NEW W \in SUBSET Kept, Stuck(W)
               PROVE  \E t, u \in Users :
                        /\ At(t, "ascend") /\ {Here(t), Head(th[t].trail)} \subseteq W
                        /\ u \in sharers[Head(th[t].trail)] /\ th[u].pc \in {"walk", "inspect"}
    BY DEF StuckOnlyUnderWalk
  <2>1. W \in SUBSET Objects
    BY DEF Kept
  <2> QED
    BY <2>1, StuckUnderWalk
<1> QED
  BY <1>1, ThreadsInvariance, KeepersInvariance, PTL

\* No thread shares a mutex across steps.
NoSharing == \A t \in Users : th[t].pc \notin {"walk", "verify", "inspect"}

\* Without a call of an operation that walks or verifies, none comes to it.
LEMMA NoSharingStep ==
  ASSUME IInv, NoSharing, [Next]_vars, Operations \cap {"release_all", "list", "batch"} = {}
  PROVE  NoSharing'
<1>1. ThreadsOK /\ th \in [Users -> Threads]
  BY DEF IInv, ThreadsOK
<1>2. CASE UNCHANGED vars
  BY <1>2 DEF vars, NoSharing
<1>3. ASSUME NEW t \in Users, Alone(t), th'[t].pc \notin {"walk", "verify", "inspect"}
      PROVE  NoSharing'
  BY <1>3 DEF NoSharing, Alone
<1>4. ASSUME NEW t \in Users, Call(t) PROVE NoSharing'
  <2> DEFINE Entries == {"descend", "find", "cut"}
  <2>1. PICK call, pc, paths, mode : pc \in Entries /\ Begin(t, call, pc, paths, mode)
    <3>1. "descend" \in Entries /\ "find" \in Entries /\ "cut" \in Entries
      OBVIOUS
    <3>2. "release_all" \notin Operations /\ "list" \notin Operations /\ "batch" \notin Operations
      OBVIOUS
    <3> HIDE DEF Entries
    <3>3. \A pc, paths, mode : /\ ~Begin(t, "release_all", pc, paths, mode)
                               /\ ~Begin(t, "list", pc, paths, mode)
                               /\ ~Begin(t, "batch", pc, paths, mode)
      BY <3>2, Zenon DEF Begin
    <3>4. \E call, pc, paths, mode : pc \in Entries /\ Begin(t, call, pc, paths, mode)
      BY <1>4, <3>1, <3>3, Zenon DEF Call
    <3> QED
      BY <3>4
  <2>2. PICK s : s = IF pc = "walk" THEN <<>> ELSE <<RootNode>>
    OBVIOUS
  <2>3. th' = [th EXCEPT ![t] = [Idle EXCEPT !.call = call, !.pc = pc, !.paths = paths,
                                             !.mode = mode, !.trail = s]]
    BY <2>1, <2>2 DEF Begin
  <2>4. Alone(t) /\ th'[t].pc = pc
    BY <1>1, <2>3 DEF Alone, Idle
  <2> QED
    BY <1>3, <2>1, <2>4
<1>5. ASSUME NEW t \in Users, Step(t) PROVE NoSharing'
  <2>1. th[t].pc \notin {"walk", "verify", "inspect"}
    BY DEF NoSharing
  <2>2. ~(WalkDown(t) \/ WalkUp(t) \/ Verify(t) \/ Inspect(t))
    BY <2>1 DEF WalkDown, WalkUp, Verify, Inspect, At
  <2> DEFINE Places == {"descend", "take", "ascend", "find", "free", "unwind", "cut"}
  <2>3. \/ \E pc \in {"descend", "find", "cut"} : Return(t, pc)
        \/ \E pc \in Places : \E s : Goto(t, pc, s)
    <3>1. /\ (IF AtParent(t) THEN "take" ELSE "descend") \in Places
          /\ (IF AtParent(t) THEN "free" ELSE "find") \in Places
          /\ "ascend" \in Places /\ "unwind" \in Places /\ "cut" \in Places
      OBVIOUS
    <3>2. CASE Descend(t)
      BY <3>1, <3>2 DEF Descend
    <3>3. CASE DescendQueued(t) \/ TakeByPreemption(t) \/ TakeQueued(t)
      BY <3>3 DEF DescendQueued, TakeByPreemption, TakeQueued, Acquired
    <3>4. CASE TakeGranted(t) \/ Ascend(t)
      BY <3>1, <3>4 DEF TakeGranted, Ascend, Acquired
    <3>5. CASE Find(t)
      BY <3>1, <3>5 DEF Find, Released, Enter
    <3>6. CASE Free(t) \/ Unwind(t)
      BY <3>1, <3>6 DEF Free, Unwind, Released
    <3>7. CASE Cut(t)
      BY <3>1, <3>7 DEF Cut, Enter
    <3> QED
      BY <1>5, <2>2, <3>2, <3>3, <3>4, <3>5, <3>6, <3>7 DEF Step
  <2>4. ASSUME NEW pc \in {"descend", "find", "cut"}, Return(t, pc) PROVE NoSharing'
    <3>1. CASE th[t].i < Len(th[t].paths)
      <4>1. PICK k : k = th[t].i + 1
        OBVIOUS
      <4>2. th' = [th EXCEPT ![t] = [th[t] EXCEPT !.pc = pc, !.i = k, !.trail = <<RootNode>>]]
        BY <1>1, <2>4, <3>1, <4>1 DEF Return
      <4>3. Alone(t) /\ th'[t].pc = pc
        BY <1>1, <4>2 DEF Alone, Threads
      <4> QED
        BY <1>3, <2>4, <4>3
    <3>2. CASE ~(th[t].i < Len(th[t].paths))
      <4>1. Alone(t) /\ th'[t] = Idle
        BY <1>1, <2>4, <3>2 DEF Return, Alone
      <4> QED
        BY <1>3, <4>1, IdleOK
    <3> QED
      BY <3>1, <3>2
  <2>5. ASSUME NEW pc \in Places, NEW s, Goto(t, pc, s) PROVE NoSharing'
    <3>1. Alone(t) /\ th'[t].pc = pc
      BY <1>1, <2>5, GotoIs
    <3> QED
      BY <1>3, <2>5, <3>1
  <2> HIDE DEF Places
  <2> QED
    BY <2>3, <2>4, <2>5
<1> QED
  BY <1>2, <1>4, <1>5 DEF Next

\* Threads that only acquire single locks, release them and delete nodes never
\* deadlock: no set of mutexes is ever kept for one another.
THEOREM SingleLocksDoNotDeadlock ==
  ASSUME Operations \cap {"release_all", "list", "batch"} = {}
  PROVE  Spec => [](\A W \in SUBSET Kept : ~Stuck(W))
<1>1. Init => NoSharing
  BY IdleOK DEF Init, NoSharing
<1>2. IInv /\ NoSharing /\ [Next]_vars => NoSharing'
  BY NoSharingStep
<1>3. IInv /\ KeepersOK /\ NoSharing => \A W \in SUBSET Kept : ~Stuck(W)
  <2> SUFFICES ASSUME IInv, KeepersOK, NoSharing, NEW W \in SUBSET Kept, Stuck(W)
               PROVE  FALSE
    OBVIOUS
  <2>1. W \in SUBSET Objects
    BY DEF Kept
  <2>2. PICK u \in Users : th[u].pc \in {"walk", "inspect"}
    BY <2>1, StuckUnderWalk
  <2> QED
    BY <2>2 DEF NoSharing
<1> QED
  BY <1>1, <1>2, <1>3, ThreadsInvariance, KeepersInvariance, PTL DEF Spec

=============================================================================
