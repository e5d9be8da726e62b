---------------------------- MODULE CollabProofs ----------------------------
(***************************************************************************)
(* Proofs about Collab, for any users, files and bounds.                   *)
(*                                                                         *)
(* Every connection is an administrator and nobody is ever queued, so the  *)
(* lock tree changes in three ways only: a node is seized, a set of locks  *)
(* is released without a successor, or a subtree is pruned.                *)
(***************************************************************************)
EXTENDS Collab, FiniteSetTheorems, TLAPS

------------------------------------------------------------------------------
(* The lock tree as the server uses it *)

\* An owner is a user, and nobody waits.
NodeOK(n) ==
  /\ n \in hdlm!LockNode
  /\ n.current_mode = "EXCLUSIVE" => n.exclusive_owner \in Users
  /\ n.wait_queue = <<>>

TreeOK(t) == t \in [Nodes -> hdlm!LockNode] /\ \A p \in Nodes : NodeOK(t[p])

\* Whoever holds s held n before, except that u may be new.
NobodyButGains(n, s, u) ==
  \A v \in Users : hdlm!Holds(s, v) => hdlm!Holds(n, v) \/ v = u

\* A node nobody has touched yet.
LEMMA FreshOK == NodeOK(hdlm!FreshNode)
<1> <<>> \in Seq(hdlm!LockRequest)
  OBVIOUS
<1> QED
  BY DEF NodeOK, hdlm!FreshNode, hdlm!LockNode, hdlm!LockMode

\* A user that seizes a node becomes its only holder.
LEMMA PreemptNode ==
  ASSUME NEW n, NodeOK(n), NEW u \in Users
  PROVE  LET s == hdlm!Preempt(n, u, "EXCLUSIVE")
         IN  NodeOK(s) /\ NobodyButGains(n, s, u)
<1> DEFINE s == hdlm!Preempt(n, u, "EXCLUSIVE")
<1>1. NodeOK(s)
  BY DEF NodeOK, hdlm!Preempt, hdlm!LockNode, hdlm!LockMode
<1>2. NobodyButGains(n, s, u)
  BY DEF NodeOK, NobodyButGains, hdlm!Preempt, hdlm!Holds, hdlm!LockNode
<1> QED
  BY <1>1, <1>2

\* A node that u releases passes to nobody, for nobody waits.
LEMMA ReleaseNodeFacts ==
  ASSUME NEW n, NodeOK(n), NEW u \in Users
  PROVE  LET s == hdlm!ReleaseNode(n, u)
         IN  /\ NodeOK(s)
             /\ \A v \in Users : hdlm!Holds(s, v) => hdlm!Holds(n, v) /\ v # u
<1> DEFINE f == hdlm!Freed(n, u)
<1>1. hdlm!ReleaseNode(n, u) = f
  BY DEF NodeOK, hdlm!ReleaseNode, hdlm!HandsOver
<1>2. CASE n.current_mode = "EXCLUSIVE"
  <2>1. f = [n EXCEPT !.exclusive_owner = NoUser, !.current_mode = "UNLOCKED"]
    BY <1>2 DEF hdlm!Freed
  <2> HIDE DEF f
  <2>2. NodeOK(f)
    BY <2>1 DEF NodeOK, hdlm!LockNode, hdlm!LockMode
  <2>3. f.current_mode = "UNLOCKED"
    BY <2>1 DEF NodeOK, hdlm!LockNode
  <2> QED
    BY <1>1, <2>2, <2>3 DEF hdlm!Holds
<1>3. CASE n.current_mode # "EXCLUSIVE"
  <2> DEFINE m == IF n.shared_owners = {u} THEN "UNLOCKED" ELSE n.current_mode
  <2>1. f = [n EXCEPT !.shared_owners = n.shared_owners \ {u}, !.current_mode = m]
    BY <1>3 DEF hdlm!Freed
  <2>2. m \in hdlm!LockMode /\ m # "EXCLUSIVE" /\ (m = "SHARED" => n.current_mode = "SHARED")
    BY <1>3 DEF NodeOK, hdlm!LockNode, hdlm!LockMode
  <2> HIDE DEF f, m
  <2>3. f \in hdlm!LockNode
    BY <2>1, <2>2 DEF NodeOK, hdlm!LockNode
  <2>4. f.current_mode = m /\ f.shared_owners = n.shared_owners \ {u} /\ f.wait_queue = <<>>
    BY <2>1 DEF NodeOK, hdlm!LockNode
  <2> QED
    BY <1>1, <2>2, <2>3, <2>4 DEF NodeOK, hdlm!Holds
<1> QED
  BY <1>2, <1>3

\* Unwinding a node changes no holder.
LEMMA UnwindNode ==
  ASSUME NEW n, NodeOK(n), NEW k \in Nat
  PROVE  /\ NodeOK(hdlm!Unwind(n, k))
         /\ \A v \in Users : hdlm!Holds(hdlm!Unwind(n, k), v) => hdlm!Holds(n, v)
<1> DEFINE a == IF n.active_locks_beneath - k >= -MaxUnwind
                THEN n.active_locks_beneath - k ELSE -MaxUnwind
           m == IF n.current_mode = "INTENT" /\ n.active_locks_beneath \in 1..k
                THEN "UNLOCKED" ELSE n.current_mode
           s == hdlm!Unwind(n, k)
<1>1. s = [n EXCEPT !.active_locks_beneath = a, !.current_mode = m]
  BY DEF hdlm!Unwind
<1>2. a \in Int
  BY BoundsAssumption DEF NodeOK, hdlm!LockNode
<1>3. /\ m \in hdlm!LockMode
      /\ m \in {"EXCLUSIVE", "SHARED"} => n.current_mode = m
  BY DEF NodeOK, hdlm!LockNode, hdlm!LockMode
<1> HIDE DEF a, m, s
<1>4. /\ s \in hdlm!LockNode
      /\ s.current_mode = m
      /\ s.wait_queue = n.wait_queue
      /\ s.exclusive_owner = n.exclusive_owner
      /\ s.shared_owners = n.shared_owners
  BY <1>1, <1>2, <1>3 DEF NodeOK, hdlm!LockNode
<1> QED
  BY <1>3, <1>4 DEF s, NodeOK, hdlm!Holds

\* (The operators of an instance are other symbols to the provers.)
LEMMA SameCardinality == ASSUME NEW S PROVE hdlm!Cardinality(S) = Cardinality(S)
  BY DEF hdlm!Cardinality, Cardinality

\* Releasing the locks of S leaves u none of them and gives nobody a new one.
LEMMA ReleaseManyFacts ==
  ASSUME NEW t, TreeOK(t), NEW u \in Users, NEW S \in SUBSET Nodes
  PROVE  LET r == hdlm!ReleaseMany(t, S, u)
         IN  /\ TreeOK(r)
             /\ \A p \in Nodes, v \in Users :
                  hdlm!Holds(r[p], v) => hdlm!Holds(t[p], v) /\ (p \in S => v # u)
<1> DEFINE k(q) == hdlm!Cardinality({p \in S : q \in hdlm!Ancestors(p) /\ ~hdlm!HandsOver(t[p], u)})
           n(q) == IF q \in S THEN hdlm!ReleaseNode(t[q], u) ELSE t[q]
           r == hdlm!ReleaseMany(t, S, u)
<1>1. r = [q \in Nodes |-> hdlm!Unwind(n(q), k(q))]
  BY DEF hdlm!ReleaseMany
<1>2. ASSUME NEW q \in Nodes
      PROVE  /\ NodeOK(hdlm!Unwind(n(q), k(q)))
             /\ \A v \in Users : hdlm!Holds(hdlm!Unwind(n(q), k(q)), v)
                                   => hdlm!Holds(t[q], v) /\ (q \in S => v # u)
  <2>1. k(q) \in Nat
    BY NodesAssumption, FS_Subset, FS_CardinalityType, SameCardinality
  <2>2. /\ NodeOK(n(q))
        /\ \A v \in Users : hdlm!Holds(n(q), v) => hdlm!Holds(t[q], v) /\ (q \in S => v # u)
    BY ReleaseNodeFacts DEF TreeOK
  <2> HIDE DEF k, n
  <2> QED
    BY <2>1, <2>2, UnwindNode
<1> HIDE DEF k, n, r
<1>3. TreeOK(r)
  BY <1>1, <1>2 DEF TreeOK, NodeOK
<1> QED
  BY <1>1, <1>2, <1>3 DEF r

\* u seizes p.
LEMMA SeizedFacts ==
  ASSUME NEW t, TreeOK(t), NEW u \in Users, NEW p \in Nodes
  PROVE  LET r == [t EXCEPT ![p] = hdlm!Preempt(@, u, "EXCLUSIVE")]
         IN  TreeOK(r) /\ \A q \in Nodes : NobodyButGains(t[q], r[q], u)
<1> DEFINE s == hdlm!Preempt(t[p], u, "EXCLUSIVE")
<1>1. NodeOK(s) /\ NobodyButGains(t[p], s, u)
  BY PreemptNode DEF TreeOK
<1>2. \A q \in Nodes : NobodyButGains(t[q], t[q], u)
  BY DEF NobodyButGains
<1> HIDE DEF s
<1>3. LET r == [t EXCEPT ![p] = s]
      IN  TreeOK(r) /\ \A q \in Nodes : NobodyButGains(t[q], r[q], u)
  <2> DEFINE r == [t EXCEPT ![p] = s]
  <2>1. TreeOK(r)
    BY <1>1 DEF TreeOK, NodeOK
  <2>2. \A q \in Nodes : r[q] = IF q = p THEN s ELSE t[q]
    BY DEF TreeOK
  <2> HIDE DEF r
  <2>3. \A q \in Nodes : NobodyButGains(t[q], r[q], u)
    BY <1>1, <1>2, <2>2
  <2> QED
    BY <2>1, <2>3 DEF r
<1> QED
  BY <1>3 DEF s

\* The nodes from p down are deleted.
LEMMA PrunedFacts ==
  ASSUME NEW t, TreeOK(t), NEW u \in Users, NEW p \in Nodes
  PROVE  LET r == hdlm!Pruned(t, p)
         IN  TreeOK(r) /\ \A q \in Nodes : NobodyButGains(t[q], r[q], u)
<1> DEFINE r == hdlm!Pruned(t, p)
<1>1. \A q \in Nodes : r[q] = hdlm!FreshNode \/ r[q] = t[q]
  BY DEF hdlm!Pruned
<1>2. DOMAIN r = Nodes /\ r = [q \in Nodes |-> r[q]]
  BY DEF hdlm!Pruned
<1>3. \A v \in Users : ~hdlm!Holds(hdlm!FreshNode, v)
  BY DEF hdlm!Holds, hdlm!FreshNode
<1> HIDE DEF r
<1>4. \A q \in Nodes : NodeOK(r[q])
  BY <1>1, FreshOK DEF TreeOK
<1>5. \A q \in Nodes : NobodyButGains(t[q], r[q], u)
  BY <1>1, <1>3 DEF NobodyButGains
<1>6. r \in [Nodes -> hdlm!LockNode]
  BY <1>2, <1>4 DEF NodeOK
<1> QED
  BY <1>4, <1>5, <1>6 DEF TreeOK, r

\* The owners shown for each path are users.
LEMMA ActiveLocksTyped ==
  ASSUME NEW t, TreeOK(t)
  PROVE  hdlm!ActiveLocks(t) \in LockTable
<1> DEFINE a(p) == CASE t[p].current_mode = "EXCLUSIVE" -> {t[p].exclusive_owner}
                     [] t[p].current_mode = "SHARED"    -> t[p].shared_owners
                     [] OTHER                           -> {}
<1>1. ASSUME NEW p \in hdlm!Targets PROVE a(p) \in SUBSET Users
  BY DEF hdlm!Targets, TreeOK, NodeOK, hdlm!LockNode
<1> HIDE DEF a
<1>2. [p \in hdlm!Targets |-> a(p)] \in LockTable
  BY <1>1 DEF LockTable
<1> QED
  BY <1>2 DEF hdlm!ActiveLocks, a

------------------------------------------------------------------------------
(* The messages *)

\* What the server can rely on in a message from a tab.
LEMMA FromTab ==
  ASSUME NEW m \in ToServer
  PROVE  /\ m.file_path \in hdlm!Targets
         /\ m.type # "FILE_DELETE" => m.file_path \in Files
         /\ m.type = "DELTA" => m.full_text \in Texts
  BY FilesAssumption DEF ToServer, hdlm!Targets, hdlm!Root

\* What a tab can rely on in a message from the server.
LEMMA FromServer ==
  ASSUME NEW m \in ToClient
  PROVE  /\ m.type = "LOCK_SYNC" => m.active_locks \in LockTable
         /\ m.type # "LOCK_SYNC" => m.file_path \in Files /\ m.full_text \in Texts
  BY DEF ToClient

\* The messages the server sends.
LEMMA ToClientTyped ==
  /\ \A t : TreeOK(t) => LockSync(t) \in ToClient
  /\ \A f \in Files, text \in Texts :
       /\ TextMsg("STATE_REVERT", f, text) \in ToClient
       /\ TextMsg("FILE_CONTENT", f, text) \in ToClient
       /\ \A u \in Users : [type |-> "DELTA", client_id |-> u, file_path |-> f,
                              full_text |-> text] \in ToClient
<1>1. \A t : TreeOK(t) => LockSync(t) \in ToClient
  BY ActiveLocksTyped DEF LockSync, ToClient
<1>2. \A f \in Files, text \in Texts :
        /\ TextMsg("STATE_REVERT", f, text) \in ToClient
        /\ TextMsg("FILE_CONTENT", f, text) \in ToClient
  BY DEF TextMsg, ToClient
<1>3. \A f \in Files, text \in Texts, u \in Users :
        [type |-> "DELTA", client_id |-> u, file_path |-> f, full_text |-> text] \in ToClient
  BY DEF ToClient
<1> QED
  BY <1>1, <1>2, <1>3

\* The messages the tabs send.
LEMMA ToServerTyped ==
  /\ \A f \in Files : \A ty \in {"LOCK_REQUEST", "LOCK_RELEASE", "FILE_REQUEST", "FILE_CREATE"} :
       Msg(ty, f) \in ToServer
  /\ \A p \in hdlm!Targets : Msg("FILE_DELETE", p) \in ToServer
  /\ \A f \in Files, text \in Texts : TextMsg("DELTA", f, text) \in ToServer
  BY DEF Msg, TextMsg, ToServer

\* A delivery keeps the channels typed, and reaches the tabs of S only.
LEMMA Delivered ==
  ASSUME NEW S, NEW m \in ToClient, down \in [Users -> Seq(ToClient)], Deliver(S, m)
  PROVE  /\ down' \in [Users -> Seq(ToClient)]
         /\ \A u \in Users : down'[u] = IF u \in S THEN Append(down[u], m) ELSE down[u]
  BY DEF Deliver

------------------------------------------------------------------------------
(* What a tab comes to know *)

\* After a LOCK_SYNC a tab knows what that says.
LEMMA KnowsWhenTold ==
  ASSUME NEW ms \in Seq(ToClient), NEW told, NEW known, NEW t
  PROVE  ComesToKnow(Append(ms, LockSync(t)), told, known, hdlm!ActiveLocks(t))
<1> DEFINE m == LockSync(t)
           ns == Append(ms, m)
<1>1. m.type = "LOCK_SYNC" /\ m.active_locks = hdlm!ActiveLocks(t)
  BY DEF LockSync
<1> HIDE DEF m
<1>2. /\ DOMAIN ns = 1..Len(ms) + 1
      /\ ns[Len(ms) + 1] = m
  OBVIOUS
<1>3. Len(ms) + 1 \in DOMAIN ns
  BY <1>2
<1> HIDE DEF ns
<1>4. ASSUME NEW i, LastSync(ns, i) PROVE ns[i].active_locks = hdlm!ActiveLocks(t)
  BY <1>1, <1>2, <1>3, <1>4 DEF LastSync
<1> QED
  BY <1>1, <1>2, <1>3, <1>4 DEF ComesToKnow, ns, m

\* Another message changes nothing of that.
LEMMA KnowsWithMore ==
  ASSUME NEW ms \in Seq(ToClient), NEW told, NEW known, NEW locks,
         NEW m \in ToClient, m.type # "LOCK_SYNC",
         ComesToKnow(ms, told, known, locks)
  PROVE  ComesToKnow(Append(ms, m), told, known, locks)
<1> DEFINE ns == Append(ms, m)
<1>1. /\ DOMAIN ns = 1..Len(ms) + 1
      /\ DOMAIN ms = 1..Len(ms)
      /\ ns[Len(ms) + 1] = m
      /\ \A i \in DOMAIN ms : i \in DOMAIN ns /\ ns[i] = ms[i]
  OBVIOUS
<1> HIDE DEF ns
<1>2. ASSUME NEW i, LastSync(ns, i) PROVE ns[i].active_locks = locks
  <2>1. i \in DOMAIN ms
    BY <1>1, <1>2 DEF LastSync
  <2>2. LastSync(ms, i)
    BY <1>1, <1>2, <2>1 DEF LastSync
  <2> QED
    BY <1>1, <2>1, <2>2 DEF ComesToKnow
<1> QED
  BY <1>1, <1>2 DEF ComesToKnow, ns

\* What the first of the messages does to the tab's own view.
LEMMA KnowsWithLess ==
  ASSUME NEW ms \in Seq(ToClient), ms # <<>>, NEW told, NEW known, NEW locks,
         ComesToKnow(ms, told, known, locks)
  PROVE  /\ Head(ms).type = "LOCK_SYNC" =>
              ComesToKnow(Tail(ms), TRUE, Head(ms).active_locks, locks)
         /\ Head(ms).type # "LOCK_SYNC" =>
              ComesToKnow(Tail(ms), told, known, locks)
<1> DEFINE ns == Tail(ms)
<1>1. /\ Len(ms) \in Nat \ {0}
      /\ DOMAIN ms = 1..Len(ms)
      /\ DOMAIN ns = 1..Len(ms) - 1
      /\ \A i \in DOMAIN ns : ns[i] = ms[i + 1]
      /\ Head(ms) = ms[1]
  OBVIOUS
<1> HIDE DEF ns
<1>2. ASSUME NEW i, LastSync(ns, i) PROVE ns[i].active_locks = locks
  <2>1. i \in DOMAIN ns /\ i + 1 \in DOMAIN ms
    BY <1>1, <1>2 DEF LastSync
  <2>2. ASSUME NEW j \in DOMAIN ms, j > i + 1 PROVE ms[j].type # "LOCK_SYNC"
    <3>1. j - 1 \in DOMAIN ns /\ j - 1 > i /\ ns[j - 1] = ms[j]
      BY <1>1, <2>1, <2>2
    <3> QED
      BY <1>2, <3>1 DEF LastSync
  <2>3. LastSync(ms, i + 1)
    BY <1>1, <1>2, <2>1, <2>2 DEF LastSync
  <2> QED
    BY <1>1, <2>1, <2>3 DEF ComesToKnow
<1>3. ASSUME Head(ms).type = "LOCK_SYNC", \A i \in DOMAIN ns : ns[i].type # "LOCK_SYNC"
      PROVE  Head(ms).active_locks = locks
  <2>1. ASSUME NEW j \in DOMAIN ms, j > 1 PROVE ms[j].type # "LOCK_SYNC"
    <3>1. j - 1 \in DOMAIN ns /\ ns[j - 1] = ms[j]
      BY <1>1, <2>1
    <3> QED
      BY <1>3, <3>1
  <2>2. LastSync(ms, 1)
    BY <1>1, <1>3, <2>1 DEF LastSync
  <2> QED
    BY <1>1, <2>2 DEF ComesToKnow
<1>4. ASSUME told, Head(ms).type # "LOCK_SYNC", \A i \in DOMAIN ns : ns[i].type # "LOCK_SYNC"
      PROVE  known = locks
  <2>1. ASSUME NEW j \in DOMAIN ms PROVE ms[j].type # "LOCK_SYNC"
    <3>1. CASE j = 1
      BY <1>1, <1>4, <3>1
    <3>2. CASE j # 1
      <4>1. j - 1 \in DOMAIN ns /\ ns[j - 1] = ms[j]
        BY <1>1, <3>2
      <4> QED
        BY <1>4, <4>1
    <3> QED
      BY <3>1, <3>2
  <2> QED
    BY <1>4, <2>1 DEF ComesToKnow
<1> QED
  BY <1>2, <1>3, <1>4 DEF ComesToKnow, ns

------------------------------------------------------------------------------
(* The steps of the server *)

\* Nothing is under way to or from a tab that is closed, and it knows nothing.
Gone == \A u \in Users \ connected : up[u] = <<>> /\ down[u] = <<>> /\ u \notin synced

IInv == TypeOK /\ TreeOK(tree) /\ Gone

\* What u will know of the locks.
Knows(u) == ComesToKnow(down[u], u \in synced, activeLocks[u], hdlm!ActiveLocks(tree))

\* What the server does with a message of u.
ServerStep(u) ==
  /\ docs' \in [Files -> Texts]
  /\ disk' \subseteq hdlm!Targets
  /\ TreeOK(tree')
  /\ \A q \in Nodes : NobodyButGains(tree[q], tree'[q], u)
  /\ down' \in [Users -> Seq(ToClient)]
  /\ \A v \in Users \ connected : down'[v] = down[v]
  /\ \A v \in connected :
       Knows(v) => ComesToKnow(down'[v], v \in synced, activeLocks[v], hdlm!ActiveLocks(tree'))

\* The message that is taken.
LEMMA Taken ==
  ASSUME IInv, NEW u \in Users, NEW ty, Takes(u, ty)
  PROVE  /\ u \in connected
         /\ Head(up[u]) \in ToServer
         /\ Head(up[u]).type = ty
         /\ up' \in [Users -> Seq(ToServer)]
         /\ \A v \in Users \ connected : up'[v] = <<>>
         /\ UNCHANGED <<connected, client, clicks>>
<1>1. up \in [Users -> Seq(ToServer)] /\ up[u] # <<>>
  BY DEF IInv, TypeOK, Takes
<1>2. u \in connected
  BY <1>1 DEF IInv, Gone
<1>3. up' = [up EXCEPT ![u] = Tail(@)]
  BY DEF Takes
<1>4. Head(up[u]) \in ToServer /\ Tail(up[u]) \in Seq(ToServer)
  BY <1>1
<1>5. up' \in [Users -> Seq(ToServer)]
  BY <1>1, <1>3, <1>4
<1>6. \A v \in Users \ connected : up'[v] = <<>>
  BY <1>1, <1>2, <1>3 DEF IInv, Gone
<1> QED
  BY <1>2, <1>4, <1>5, <1>6 DEF Takes

\* A step that leaves the locks alone may send anything but a LOCK_SYNC.
LEMMA LocksKept ==
  ASSUME IInv, NEW u \in Users, NEW S \in SUBSET connected,
         NEW m \in ToClient, m.type # "LOCK_SYNC", Deliver(S, m), UNCHANGED <<tree, disk>>,
         docs' \in [Files -> Texts]
  PROVE  ServerStep(u)
<1>1. /\ down' \in [Users -> Seq(ToClient)]
      /\ \A v \in Users : down'[v] = IF v \in S THEN Append(down[v], m) ELSE down[v]
  BY Delivered DEF IInv, TypeOK
<1>2. ASSUME NEW v \in connected, Knows(v)
      PROVE  ComesToKnow(down'[v], v \in synced, activeLocks[v], hdlm!ActiveLocks(tree'))
  <2>1. v \in Users /\ down[v] \in Seq(ToClient) /\ tree' = tree
    BY DEF IInv, TypeOK
  <2>2. ComesToKnow(Append(down[v], m), v \in synced, activeLocks[v], hdlm!ActiveLocks(tree))
    BY <1>2, <2>1, KnowsWithMore DEF Knows
  <2> QED
    BY <1>1, <1>2, <2>1, <2>2 DEF Knows
<1>3. \A v \in Users \ connected : down'[v] = down[v]
  BY <1>1
<1>4. /\ disk' \subseteq hdlm!Targets
      /\ TreeOK(tree')
      /\ \A q \in Nodes : NobodyButGains(tree[q], tree'[q], u)
  BY DEF IInv, TypeOK, NobodyButGains
<1> QED
  BY <1>1, <1>2, <1>3, <1>4 DEF ServerStep

\* A step that changes the locks tells every tab.
LEMMA LocksAnnounced ==
  ASSUME IInv, NEW u \in Users, Deliver(connected, LockSync(tree')),
         docs' = docs, disk' \subseteq hdlm!Targets, TreeOK(tree'),
         \A q \in Nodes : NobodyButGains(tree[q], tree'[q], u)
  PROVE  ServerStep(u)
<1>1. LockSync(tree') \in ToClient
  BY ToClientTyped
<1>2. /\ down' \in [Users -> Seq(ToClient)]
      /\ \A v \in Users : down'[v] = IF v \in connected
                                     THEN Append(down[v], LockSync(tree')) ELSE down[v]
  BY <1>1, Delivered DEF IInv, TypeOK
<1>3. ASSUME NEW v \in connected
      PROVE  ComesToKnow(down'[v], v \in synced, activeLocks[v], hdlm!ActiveLocks(tree'))
  <2>1. v \in Users /\ down[v] \in Seq(ToClient)
    BY DEF IInv, TypeOK
  <2>2. down'[v] = Append(down[v], LockSync(tree'))
    BY <1>2, <2>1
  <2> QED
    BY <2>1, <2>2, KnowsWhenTold
<1>4. docs' \in [Files -> Texts]
  BY DEF IInv, TypeOK
<1> QED
  BY <1>2, <1>3, <1>4 DEF ServerStep

\* Every message the server handles.
LEMMA HandleStep ==
  ASSUME IInv, NEW u \in Users, Handle(u)
  PROVE  ServerStep(u)
<1> DEFINE m == Head(up[u])
           f == m.file_path
<1> USE DEF server
<1>1. CASE DeltaAccepted(u)
  <2> DEFINE d == [type |-> "DELTA", client_id |-> u, file_path |-> f, full_text |-> m.full_text]
  <2>1. f \in Files /\ m.full_text \in Texts
    BY <1>1, Taken, FromTab DEF DeltaAccepted
  <2>2. d \in ToClient /\ d.type # "LOCK_SYNC"
    BY <2>1, ToClientTyped
  <2>3. docs' \in [Files -> Texts]
    BY <1>1, <2>1 DEF DeltaAccepted, IInv, TypeOK
  <2>4. Deliver(connected \ {u}, d) /\ UNCHANGED <<tree, disk>>
    BY <1>1 DEF DeltaAccepted, Publish
  <2> HIDE DEF d
  <2> QED
    BY <2>2, <2>3, <2>4, LocksKept
<1>2. CASE DeltaRefused(u)
  <2> DEFINE d == TextMsg("STATE_REVERT", f, docs[f])
  <2>1. u \in connected /\ f \in Files
    BY <1>2, Taken, FromTab DEF DeltaRefused
  <2>2. d \in ToClient /\ d.type # "LOCK_SYNC"
    BY <2>1, ToClientTyped DEF IInv, TypeOK, TextMsg
  <2>3. Deliver({u}, d) /\ UNCHANGED <<tree, disk>> /\ docs' \in [Files -> Texts]
    BY <1>2 DEF DeltaRefused, IInv, TypeOK
  <2> HIDE DEF d
  <2> QED
    BY <2>1, <2>2, <2>3, LocksKept
<1>3. CASE LockRequest(u)
  <2>1. f \in Nodes
    BY <1>3, Taken, FromTab DEF LockRequest, hdlm!Targets
  <2>2. tree' = [tree EXCEPT ![f] = hdlm!Preempt(@, u, "EXCLUSIVE")]
    BY <1>3 DEF LockRequest, hdlm!AcquireByPreemption
  <2>3. TreeOK(tree') /\ \A q \in Nodes : NobodyButGains(tree[q], tree'[q], u)
    BY <2>1, <2>2, SeizedFacts DEF IInv
  <2>4. Deliver(connected, LockSync(tree')) /\ docs' = docs /\ disk' \subseteq hdlm!Targets
    BY <1>3 DEF LockRequest, PublishAndSend, IInv, TypeOK
  <2> QED
    BY <2>3, <2>4, LocksAnnounced
<1>4. CASE LockRelease(u)
  <2> DEFINE S == {f} \cap hdlm!HeldBy(tree, u)
  <2>1. S \in SUBSET Nodes
    BY DEF hdlm!HeldBy, hdlm!Targets
  <2>2. tree' = hdlm!ReleaseMany(tree, S, u)
    BY <1>4 DEF LockRelease
  <2> HIDE DEF S
  <2>3. TreeOK(tree') /\ \A q \in Nodes : NobodyButGains(tree[q], tree'[q], u)
    BY <2>1, <2>2, ReleaseManyFacts DEF IInv, NobodyButGains
  <2>4. Deliver(connected, LockSync(tree')) /\ docs' = docs /\ disk' \subseteq hdlm!Targets
    BY <1>4 DEF LockRelease, PublishAndSend, IInv, TypeOK
  <2> QED
    BY <2>3, <2>4, LocksAnnounced
<1>5. CASE FileRequest(u)
  <2> DEFINE d == TextMsg("FILE_CONTENT", f, docs[f])
  <2>1. u \in connected /\ f \in Files
    BY <1>5, Taken, FromTab DEF FileRequest
  <2>2. d \in ToClient /\ d.type # "LOCK_SYNC"
    BY <2>1, ToClientTyped DEF IInv, TypeOK, TextMsg
  <2>3. Deliver({u}, d) /\ UNCHANGED <<tree, disk>> /\ docs' \in [Files -> Texts]
    BY <1>5 DEF FileRequest, IInv, TypeOK
  <2> HIDE DEF d
  <2> QED
    BY <2>1, <2>2, <2>3, LocksKept
<1>6. CASE FileCreate(u)
  <2>1. f \in hdlm!Targets
    BY <1>6, Taken, FromTab DEF FileCreate
  <2>2. hdlm!Ancestors(f) \ {hdlm!Root} \subseteq hdlm!Targets
    <3>1. f \in Nodes /\ f \in Seq(Segments)
      BY <2>1, NodesAssumption DEF hdlm!Targets
    <3>2. \A k \in 0..Len(f) - 1 : SubSeq(f, 1, k) \in Nodes
      BY <3>1, NodesAssumption
    <3> QED
      BY <3>2 DEF hdlm!Ancestors, hdlm!Targets
  <2>3. disk' \subseteq hdlm!Targets /\ UNCHANGED <<tree, docs, down>>
    BY <1>6, <2>1, <2>2 DEF FileCreate, IInv, TypeOK
  <2> QED
    BY <2>3 DEF ServerStep, IInv, TypeOK, NobodyButGains, Knows
<1>7. CASE FileDeleted(u)
  <2>1. f \in Nodes
    BY <1>7, Taken, FromTab DEF FileDeleted, hdlm!Targets
  <2>2. tree' = hdlm!Pruned(tree, f)
    BY <1>7 DEF FileDeleted
  <2>3. TreeOK(tree') /\ \A q \in Nodes : NobodyButGains(tree[q], tree'[q], u)
    BY <2>1, <2>2, PrunedFacts DEF IInv
  <2>4. Deliver(connected, LockSync(tree')) /\ docs' = docs /\ disk' \subseteq hdlm!Targets
    BY <1>7 DEF FileDeleted, PublishAndSend, IInv, TypeOK
  <2> QED
    BY <2>3, <2>4, LocksAnnounced
<1>8. CASE FileDeleteFails(u)
  BY <1>8 DEF FileDeleteFails, ServerStep, IInv, TypeOK, NobodyButGains, Knows
<1> QED
  BY <1>1, <1>2, <1>3, <1>4, <1>5, <1>6, <1>7, <1>8 DEF Handle

\* Closing the connection of u.
LEMMA CloseStep ==
  ASSUME IInv, NEW u \in Users, Close(u)
  PROVE  /\ TreeOK(tree')
         /\ \A p \in hdlm!Targets, v \in Users :
              hdlm!Holds(tree'[p], v) => hdlm!Holds(tree[p], v) /\ v # u
         /\ down' \in [Users -> Seq(ToClient)]
         /\ down'[u] = <<>>
         /\ \A v \in Users \ connected : down'[v] = <<>>
         /\ \A v \in connected \ {u} :
              ComesToKnow(down'[v], v \in synced, activeLocks[v], hdlm!ActiveLocks(tree'))
<1> DEFINE S == hdlm!HeldBy(tree, u)
           m == LockSync(tree')
<1>1. S \in SUBSET Nodes
  BY DEF hdlm!HeldBy, hdlm!Targets
<1>2. tree' = hdlm!ReleaseMany(tree, S, u)
  BY DEF Close
<1> HIDE DEF S
<1>3. /\ TreeOK(tree')
      /\ \A p \in Nodes, v \in Users :
           hdlm!Holds(tree'[p], v) => hdlm!Holds(tree[p], v) /\ (p \in S => v # u)
  BY <1>1, <1>2, ReleaseManyFacts DEF IInv
<1>4. ASSUME NEW p \in hdlm!Targets, NEW v \in Users, hdlm!Holds(tree'[p], v)
      PROVE  hdlm!Holds(tree[p], v) /\ v # u
  <2>1. p \in Nodes /\ hdlm!Holds(tree[p], v) /\ (p \in S => v # u)
    BY <1>3, <1>4 DEF hdlm!Targets
  <2>2. v = u => p \in S
    BY <1>4, <2>1 DEF S, hdlm!HeldBy
  <2> QED
    BY <2>1, <2>2
<1>5. m \in ToClient
  BY <1>3, ToClientTyped
<1>6. \A v \in Users : down[v] \in Seq(ToClient)
  BY DEF IInv, TypeOK
<1>7. down' = [v \in Users |->
                 IF v = u THEN <<>>
                 ELSE IF v \in connected THEN Append(down[v], m) ELSE down[v]]
  BY DEF Close, Disconnect
<1>8. \A v \in connected : ComesToKnow(Append(down[v], m), v \in synced, activeLocks[v],
                                       hdlm!ActiveLocks(tree'))
  BY <1>6, KnowsWhenTold DEF IInv, TypeOK
<1> HIDE DEF m
<1>9. down' \in [Users -> Seq(ToClient)]
  BY <1>5, <1>6, <1>7
<1>10. \A v \in Users \ connected : down'[v] = <<>>
  BY <1>7 DEF IInv, Gone
<1>11. \A v \in connected \ {u} : down'[v] = Append(down[v], m)
  BY <1>7 DEF IInv, TypeOK
<1> QED
  BY <1>3, <1>4, <1>7, <1>8, <1>9, <1>10, <1>11

------------------------------------------------------------------------------
(* The steps of the tabs *)

\* The tab of a connection that ends is left with the initial values.
LEMMA CloseTyped ==
  ASSUME IInv, NEW u \in Users, Close(u)
  PROVE  IInv'
<1>1. /\ TreeOK(tree') /\ hdlm!TypeOK'
      /\ down' \in [Users -> Seq(ToClient)]
      /\ down'[u] = <<>>
      /\ \A v \in Users \ connected : down'[v] = <<>>
  BY CloseStep DEF TreeOK, hdlm!TypeOK
<1>2. up' \in [Users -> Seq(ToServer)] /\ up'[u] = <<>>
  BY DEF Close, Disconnect, IInv, TypeOK
<1>3. /\ activeFile' \in [Users -> Files]
      /\ buffer' \in [Users -> Texts]
      /\ isRemoteUpdate' \in [Users -> BOOLEAN]
      /\ shown' \in [Users -> Files \cup {NoFile}]
  BY FilesAssumption DEF Close, Disconnect, IInv, TypeOK, Texts
<1>4. activeLocks' \in [Users -> LockTable]
  BY DEF Close, Disconnect, IInv, TypeOK, LockTable, NoLocks
<1>5. /\ connected' = connected \ {u} /\ synced' = synced \ {u}
      /\ UNCHANGED <<docs, disk, clicks>>
  BY DEF Close, Disconnect
<1>6. TypeOK'
  BY <1>1, <1>2, <1>3, <1>4, <1>5 DEF IInv, TypeOK
<1>7. Gone'
  <2> SUFFICES ASSUME NEW v \in Users, v \notin connected'
               PROVE  up'[v] = <<>> /\ down'[v] = <<>> /\ v \notin synced'
    BY DEF Gone
  <2>1. CASE v = u
    BY <1>1, <1>2, <1>5, <2>1
  <2>2. CASE v # u
    BY <1>1, <1>5, <2>2 DEF Close, Disconnect, IInv, TypeOK, Gone
  <2> QED
    BY <2>1, <2>2
<1> QED
  BY <1>1, <1>6, <1>7 DEF IInv

\* What u does, and the messages ms it sends.
LEMMA InputTyped ==
  ASSUME IInv, NEW u \in Users, NEW ms \in Seq(ToServer), Input(u, ms),
         activeFile' \in [Users -> Files],
         buffer' \in [Users -> Texts],
         isRemoteUpdate' \in [Users -> BOOLEAN],
         shown' \in [Users -> Files \cup {NoFile}]
  PROVE  IInv'
<1>1. u \in connected /\ clicks' = clicks + 1 /\ clicks < MaxClicks
  BY DEF Input
<1>2. up' = [up EXCEPT ![u] = @ \o ms]
  BY DEF Input
<1>3. UNCHANGED <<tree, docs, disk, connected, down, activeLocks, synced>>
  BY DEF Input, server
<1>4. up' \in [Users -> Seq(ToServer)]
  BY <1>2 DEF IInv, TypeOK
<1>5. clicks' \in 0..MaxClicks
  BY <1>1, BoundsAssumption DEF IInv, TypeOK
<1>6. TypeOK'
  BY <1>3, <1>4, <1>5 DEF IInv, TypeOK, TreeOK, hdlm!TypeOK
<1>7. \A v \in Users \ connected : up'[v] = up[v]
  BY <1>1, <1>2 DEF IInv, TypeOK
<1>8. Gone'
  BY <1>3, <1>7 DEF IInv, Gone
<1> QED
  BY <1>3, <1>6, <1>8 DEF IInv

\* Every input of a user.
LEMMA UserInputTyped ==
  ASSUME IInv, NEW u \in Users, UserInput(u)
  PROVE  IInv'
<1> USE DEF editor
<1>0. /\ activeFile \in [Users -> Files]
      /\ buffer \in [Users -> Texts]
      /\ isRemoteUpdate \in [Users -> BOOLEAN]
      /\ shown \in [Users -> Files \cup {NoFile}]
  BY DEF IInv, TypeOK
<1>1. ASSUME NEW f \in Files, OpenFile(u, f) PROVE IInv'
  <2>1. <<Msg("FILE_REQUEST", f)>> \in Seq(ToServer)
    BY ToServerTyped
  <2> QED
    BY <1>0, <1>1, <2>1, InputTyped DEF OpenFile
<1>2. ASSUME NEW f \in Files, CreateFile(u, f) PROVE IInv'
  <2>1. <<Msg("FILE_CREATE", f), Msg("FILE_REQUEST", f), Msg("LOCK_REQUEST", f)>> \in Seq(ToServer)
    <3>1. \A ty \in {"FILE_CREATE", "FILE_REQUEST", "LOCK_REQUEST"} : Msg(ty, f) \in ToServer
      BY ToServerTyped
    <3> QED
      BY <3>1
  <2> QED
    BY <1>0, <1>2, <2>1, InputTyped DEF CreateFile
<1>3. ASSUME NEW p \in hdlm!Targets, DeleteFile(u, p) PROVE IInv'
  <2>1. <<Msg("FILE_DELETE", p)>> \in Seq(ToServer)
    BY ToServerTyped
  <2> QED
    BY <1>0, <1>3, <2>1, InputTyped DEF DeleteFile
<1>4. CASE PressAcquire(u)
  <2>1. <<Msg("LOCK_REQUEST", activeFile[u])>> \in Seq(ToServer)
    BY <1>0, ToServerTyped
  <2> QED
    BY <1>0, <1>4, <2>1, InputTyped DEF PressAcquire
<1>5. CASE PressRelease(u)
  <2>1. <<Msg("LOCK_RELEASE", activeFile[u])>> \in Seq(ToServer)
    BY <1>0, ToServerTyped
  <2> QED
    BY <1>0, <1>5, <2>1, InputTyped DEF PressRelease
<1>6. CASE Type(u)
  <2> DEFINE text == Append(buffer[u], clicks + 1)
             ms == IF isRemoteUpdate[u] THEN <<>> ELSE <<TextMsg("DELTA", activeFile[u], text)>>
  <2>1. clicks + 1 \in 1..MaxClicks
    BY <1>6, BoundsAssumption DEF Type, Input, IInv, TypeOK
  <2>2. text \in Texts
    BY <1>0, <2>1 DEF Texts
  <2>3. buffer' = [buffer EXCEPT ![u] = text] /\ Input(u, ms)
        /\ UNCHANGED <<activeFile, isRemoteUpdate, shown>>
    BY <1>6 DEF Type
  <2> HIDE DEF text
  <2>4. ms \in Seq(ToServer)
    BY <1>0, <2>2, ToServerTyped
  <2>5. buffer' \in [Users -> Texts]
    BY <1>0, <2>2, <2>3
  <2> HIDE DEF ms
  <2> QED
    BY <1>0, <2>3, <2>4, <2>5, InputTyped
<1> QED
  BY <1>1, <1>2, <1>3, <1>4, <1>5, <1>6 DEF UserInput

\* Every message that arrives at a tab.
LEMMA ReceiveTyped ==
  ASSUME IInv, NEW u \in Users, Receive(u)
  PROVE  IInv'
<1> DEFINE m == Head(down[u])
<1>1. PICK ty : Arrives(u, ty)
  BY DEF Receive, LockSyncArrives, FileContentArrives, DeltaArrives, StateRevertArrives
<1>2. /\ down \in [Users -> Seq(ToClient)] /\ down[u] # <<>>
      /\ down' = [down EXCEPT ![u] = Tail(@)]
      /\ UNCHANGED <<tree, docs, disk, connected, up, activeFile, clicks>>
  BY <1>1 DEF IInv, TypeOK, Arrives, server
<1>3. m \in ToClient /\ Tail(down[u]) \in Seq(ToClient) /\ u \in connected
  BY <1>2 DEF IInv, Gone
<1>4. down' \in [Users -> Seq(ToClient)]
  BY <1>2, <1>3
<1>5. \A v \in Users \ connected : down'[v] = down[v]
  BY <1>2, <1>3
<1>6. /\ activeLocks' \in [Users -> LockTable]
      /\ synced' \subseteq synced \cup {u}
      /\ buffer' \in [Users -> Texts]
      /\ isRemoteUpdate' \in [Users -> BOOLEAN]
      /\ shown' \in [Users -> Files \cup {NoFile}]
  <2> USE DEF editor, Arrives
  <2>0. /\ activeFile \in [Users -> Files]
        /\ activeLocks \in [Users -> LockTable]
        /\ buffer \in [Users -> Texts]
        /\ isRemoteUpdate \in [Users -> BOOLEAN]
        /\ shown \in [Users -> Files \cup {NoFile}]
    BY DEF IInv, TypeOK
  <2>1. CASE LockSyncArrives(u)
    <3>1. m.active_locks \in LockTable
      BY <1>3, <2>1, FromServer DEF LockSyncArrives
    <3> QED
      BY <2>0, <2>1, <3>1 DEF LockSyncArrives
  <2>2. CASE FileContentArrives(u)
    <3>1. m.full_text \in Texts
      BY <1>3, <2>2, FromServer DEF FileContentArrives
    <3> QED
      BY <2>0, <2>2, <3>1 DEF FileContentArrives, WriteEditor
  <2>3. CASE DeltaArrives(u)
    <3>1. m.full_text \in Texts
      BY <1>3, <2>3, FromServer DEF DeltaArrives
    <3> QED
      BY <2>0, <2>3, <3>1 DEF DeltaArrives, WriteEditor
  <2>4. CASE StateRevertArrives(u)
    BY <2>0, <2>4 DEF StateRevertArrives
  <2> QED
    BY <2>1, <2>2, <2>3, <2>4 DEF Receive
<1>7. TypeOK'
  BY <1>2, <1>4, <1>6 DEF IInv, TypeOK, TreeOK, hdlm!TypeOK
<1>8. Gone'
  BY <1>2, <1>3, <1>5, <1>6 DEF IInv, Gone
<1> QED
  BY <1>2, <1>7, <1>8 DEF IInv

\* What the server does with a message leaves the rest of the state alone.
LEMMA HandleTyped ==
  ASSUME IInv, NEW u \in Users, Handle(u)
  PROVE  IInv'
<1>1. ServerStep(u)
  BY HandleStep
<1>2. PICK ty : Takes(u, ty)
  BY DEF Handle, DeltaAccepted, DeltaRefused, LockRequest, LockRelease, FileRequest,
         FileCreate, FileDeleted, FileDeleteFails
<1>3. /\ up' \in [Users -> Seq(ToServer)]
      /\ \A v \in Users \ connected : up'[v] = <<>>
      /\ UNCHANGED <<connected, activeFile, activeLocks, buffer, isRemoteUpdate, shown,
                     synced, clicks>>
  BY <1>2, Taken DEF client, editor
<1>4. TypeOK'
  BY <1>1, <1>3 DEF ServerStep, IInv, TypeOK, TreeOK, hdlm!TypeOK
<1>5. Gone'
  BY <1>1, <1>3 DEF ServerStep, IInv, Gone
<1> QED
  BY <1>1, <1>4, <1>5 DEF IInv, ServerStep

\* Every step keeps the invariant.
LEMMA IInvStep ==
  ASSUME IInv, [Next]_vars
  PROVE  IInv'
<1>1. ASSUME NEW u \in Users, Connect(u) PROVE IInv'
  BY <1>1 DEF Connect, server, client, editor, IInv, TypeOK, TreeOK, Gone, hdlm!TypeOK
<1>2. ASSUME NEW u \in Users, RemoteUpdateDone(u) PROVE IInv'
  BY <1>2 DEF RemoteUpdateDone, server, IInv, TypeOK, TreeOK, Gone, hdlm!TypeOK
<1>3. CASE UNCHANGED vars
  BY <1>3 DEF vars, server, client, editor, IInv, TypeOK, TreeOK, Gone, hdlm!TypeOK
<1> QED
  BY <1>1, <1>2, <1>3, CloseTyped, HandleTyped, UserInputTyped, ReceiveTyped DEF Next

\* It holds at the start.
LEMMA IInvInit == Init => IInv
<1> SUFFICES ASSUME Init PROVE IInv
  OBVIOUS
<1>1. TreeOK(tree) /\ hdlm!TypeOK
  BY FreshOK DEF Init, hdlm!Init, TreeOK, NodeOK, hdlm!TypeOK
<1>2. docs \in [Files -> Texts] /\ buffer \in [Users -> Texts]
  BY DEF Init, Texts
<1>3. activeLocks \in [Users -> LockTable]
  BY DEF Init, NoLocks, LockTable
<1>4. up \in [Users -> Seq(ToServer)] /\ down \in [Users -> Seq(ToClient)]
  BY DEF Init
<1>5. TypeOK
  BY <1>1, <1>2, <1>3, <1>4, FilesAssumption, BoundsAssumption DEF Init, TypeOK
<1>6. Gone
  BY DEF Init, Gone
<1> QED
  BY <1>1, <1>5, <1>6 DEF IInv

------------------------------------------------------------------------------
(* The theorems *)

\* The invariant the others rest on: the state is well typed, every owner in the
\* lock tree is a user and nobody waits there, and nothing is left of a tab that
\* is closed.
THEOREM IInvHolds == Spec => []IInv
  BY IInvInit, IInvStep, PTL DEF Spec

\* The whole system keeps its types: every text the tabs and the server
\* exchange, every lock table and every message on the wire.
THEOREM TypesKept == Spec => []TypeOK
<1>1. IInv => TypeOK
  BY DEF IInv
<1> QED
  BY <1>1, IInvHolds, PTL

\* Nobody but a connected user ever holds a lock, whatever requests, closings
\* and reconnections race each other.
THEOREM LocksDieWithConnections == Spec => []OwnersAreConnected
<1> DEFINE O == \A u \in Users, p \in hdlm!Targets : hdlm!Holds(tree[p], u) => u \in connected
<1>1. OwnersAreConnected <=> O
  BY DEF OwnersAreConnected, hdlm!HeldBy
<1>2. Init => O
  BY DEF Init, hdlm!Init, hdlm!Targets, hdlm!Holds, hdlm!FreshNode
<1>3. ASSUME IInv, O, [Next]_vars PROVE O'
  <2>1. ASSUME NEW u \in Users, Connect(u) PROVE O'
    BY <1>3, <2>1 DEF Connect, server, hdlm!Targets, hdlm!Holds
  <2>2. ASSUME NEW u \in Users, Close(u) PROVE O'
    <3>1. \A p \in hdlm!Targets, v \in Users :
            hdlm!Holds(tree'[p], v) => hdlm!Holds(tree[p], v) /\ v # u
      BY <1>3, <2>2, CloseStep
    <3>2. connected' = connected \ {u}
      BY <2>2 DEF Close, Disconnect
    <3>3. \A p \in hdlm!Targets, v \in Users : hdlm!Holds(tree'[p], v) => v \in connected'
      BY <1>3, <3>1, <3>2
    <3> QED
      BY <3>3 DEF hdlm!Targets, hdlm!Holds
  <2>3. ASSUME NEW u \in Users, Handle(u) PROVE O'
    <3>1. \A q \in Nodes : NobodyButGains(tree[q], tree'[q], u)
      BY <1>3, <2>3, HandleStep DEF ServerStep
    <3>2. PICK ty : Takes(u, ty)
      BY <2>3 DEF Handle, DeltaAccepted, DeltaRefused, LockRequest, LockRelease,
                  FileRequest, FileCreate, FileDeleted, FileDeleteFails
    <3>3. u \in connected /\ connected' = connected
      BY <1>3, <3>2, Taken
    <3>4. \A p \in hdlm!Targets, v \in Users : hdlm!Holds(tree'[p], v) => v \in connected'
      BY <1>3, <3>1, <3>3 DEF NobodyButGains, hdlm!Targets
    <3> QED
      BY <3>4 DEF hdlm!Targets, hdlm!Holds
  <2>4. ASSUME UNCHANGED <<tree, connected>> PROVE O'
    BY <1>3, <2>4 DEF hdlm!Targets, hdlm!Holds
  <2>5. ASSUME NEW u \in Users, UserInput(u) PROVE UNCHANGED <<tree, connected>>
    BY <2>5 DEF UserInput, OpenFile, CreateFile, DeleteFile, PressAcquire, PressRelease,
                Type, Input, server
  <2>6. ASSUME NEW u \in Users, Receive(u) PROVE UNCHANGED <<tree, connected>>
    BY <2>6 DEF Receive, LockSyncArrives, FileContentArrives, DeltaArrives,
                StateRevertArrives, Arrives, server
  <2>7. ASSUME NEW u \in Users, RemoteUpdateDone(u) PROVE UNCHANGED <<tree, connected>>
    BY <2>7 DEF RemoteUpdateDone, server
  <2>8. CASE UNCHANGED vars
    BY <2>4, <2>8 DEF vars, server
  <2> HIDE DEF O
  <2> QED
    BY <1>3, <2>1, <2>2, <2>3, <2>4, <2>5, <2>6, <2>7, <2>8 DEF Next
<1>4. Spec => []O
  <2> HIDE DEF O
  <2> QED
    BY <1>2, <1>3, IInvHolds, PTL DEF Spec
<1> HIDE DEF O
<1> QED
  BY <1>1, <1>4, PTL

\* No change of the lock table is kept from a tab: what it will have shown when
\* its messages have arrived is the table, for any number of tabs and messages.
THEOREM ViewsConverge == Spec => []LockViewsConverge
<1> DEFINE L == LockViewsConverge
<1>1. L <=> \A v \in connected : Knows(v)
  BY DEF LockViewsConverge, Knows
<1>2. Init => L
  BY DEF Init, LockViewsConverge
<1>3. ASSUME IInv, \A v \in connected : Knows(v), [Next]_vars PROVE L'
  <2>1. ASSUME NEW u \in Users, Connect(u) PROVE L'
    <3>1. u \notin connected /\ down[u] = <<>> /\ u \notin synced
      BY <1>3, <2>1 DEF Connect, IInv, Gone
    <3>2. Knows(u)
      BY <3>1 DEF Knows, ComesToKnow, LastSync
    <3>3. UNCHANGED <<tree, down, activeLocks, synced>> /\ connected' = connected \cup {u}
      BY <2>1 DEF Connect, server, client
    <3> QED
      BY <1>3, <3>2, <3>3 DEF LockViewsConverge, Knows, hdlm!ActiveLocks, hdlm!Targets
  <2>2. ASSUME NEW u \in Users, Close(u) PROVE L'
    <3>1. \A v \in connected \ {u} :
            ComesToKnow(down'[v], v \in synced, activeLocks[v], hdlm!ActiveLocks(tree'))
      BY <1>3, <2>2, CloseStep
    <3>2. /\ connected' = connected \ {u} /\ synced' = synced \ {u}
          /\ activeLocks' = [activeLocks EXCEPT ![u] = NoLocks]
      BY <2>2 DEF Close, Disconnect
    <3>3. \A v \in connected \ {u} :
            (v \in synced' <=> v \in synced) /\ activeLocks'[v] = activeLocks[v]
      BY <1>3, <3>2 DEF IInv, TypeOK
    <3>4. ASSUME NEW v \in connected'
          PROVE  ComesToKnow(down'[v], v \in synced', activeLocks'[v], hdlm!ActiveLocks(tree'))
      BY <3>1, <3>2, <3>3 DEF ComesToKnow
    <3> QED
      BY <3>4 DEF LockViewsConverge
  <2>3. ASSUME NEW u \in Users, Handle(u) PROVE L'
    <3>1. \A v \in connected :
            ComesToKnow(down'[v], v \in synced, activeLocks[v], hdlm!ActiveLocks(tree'))
      BY <1>3, <2>3, HandleStep DEF ServerStep
    <3>2. UNCHANGED <<connected, activeLocks, synced>>
      BY <2>3 DEF Handle, DeltaAccepted, DeltaRefused, LockRequest, LockRelease,
                  FileRequest, FileCreate, FileDeleted, FileDeleteFails, Takes, client
    <3> QED
      BY <3>1, <3>2 DEF LockViewsConverge
  <2>4. ASSUME UNCHANGED <<tree, connected, down, activeLocks, synced>> PROVE L'
    BY <1>3, <2>4 DEF LockViewsConverge, Knows, hdlm!ActiveLocks, hdlm!Targets
  <2>5. ASSUME NEW u \in Users, UserInput(u)
        PROVE  UNCHANGED <<tree, connected, down, activeLocks, synced>>
    BY <2>5 DEF UserInput, OpenFile, CreateFile, DeleteFile, PressAcquire, PressRelease,
                Type, Input, server
  <2>6. ASSUME NEW u \in Users, Receive(u) PROVE L'
    <3> DEFINE known(v) == ComesToKnow(down'[v], v \in synced', activeLocks'[v],
                                       hdlm!ActiveLocks(tree))
    <3>1. PICK ty : Arrives(u, ty)
      BY <2>6 DEF Receive, LockSyncArrives, FileContentArrives, DeltaArrives, StateRevertArrives
    <3>2. /\ down \in [Users -> Seq(ToClient)] /\ down[u] # <<>>
          /\ down' = [down EXCEPT ![u] = Tail(@)]
          /\ activeLocks \in [Users -> LockTable]
          /\ UNCHANGED <<tree, connected>>
      BY <1>3, <3>1 DEF IInv, TypeOK, Arrives, server
    <3>3. Knows(u)
      BY <1>3, <3>2 DEF IInv, Gone
    <3>4. CASE LockSyncArrives(u)
      <4>1. /\ Head(down[u]).type = "LOCK_SYNC"
            /\ activeLocks' = [activeLocks EXCEPT ![u] = Head(down[u]).active_locks]
            /\ synced' = synced \cup {u}
        BY <3>4 DEF LockSyncArrives, Arrives
      <4>2. ComesToKnow(Tail(down[u]), TRUE, Head(down[u]).active_locks, hdlm!ActiveLocks(tree))
        BY <3>2, <3>3, <4>1, KnowsWithLess DEF Knows
      <4>3. known(u)
        BY <3>2, <4>1, <4>2 DEF ComesToKnow
      <4>4. ASSUME NEW v \in connected, v # u PROVE known(v)
        <5>1. /\ v \in Users /\ Knows(v) /\ down'[v] = down[v]
              /\ activeLocks'[v] = activeLocks[v]
              /\ v \in synced' <=> v \in synced
          BY <1>3, <3>2, <4>1, <4>4 DEF IInv, TypeOK
        <5> QED
          BY <5>1 DEF Knows, ComesToKnow
      <4> QED
        BY <3>2, <4>3, <4>4 DEF LockViewsConverge, hdlm!ActiveLocks, hdlm!Targets
    <3>5. CASE ~LockSyncArrives(u)
      <4>1. Head(down[u]).type # "LOCK_SYNC" /\ UNCHANGED <<activeLocks, synced>>
        BY <2>6, <3>5 DEF Receive, FileContentArrives, DeltaArrives, StateRevertArrives, Arrives
      <4>2. ComesToKnow(Tail(down[u]), u \in synced, activeLocks[u], hdlm!ActiveLocks(tree))
        BY <3>2, <3>3, <4>1, KnowsWithLess DEF Knows
      <4>3. known(u)
        BY <3>2, <4>1, <4>2
      <4>4. ASSUME NEW v \in connected, v # u PROVE known(v)
        <5>1. v \in Users /\ Knows(v) /\ down'[v] = down[v]
          BY <1>3, <3>2, <4>4 DEF IInv, TypeOK
        <5> QED
          BY <4>1, <5>1 DEF Knows
      <4> QED
        BY <3>2, <4>3, <4>4 DEF LockViewsConverge, hdlm!ActiveLocks, hdlm!Targets
    <3> QED
      BY <3>4, <3>5
  <2>7. ASSUME NEW u \in Users, RemoteUpdateDone(u)
        PROVE  UNCHANGED <<tree, connected, down, activeLocks, synced>>
    BY <2>7 DEF RemoteUpdateDone, server
  <2>8. CASE UNCHANGED vars
    BY <2>4, <2>8 DEF vars, server, client
  <2> HIDE DEF L
  <2> QED
    BY <1>3, <2>1, <2>2, <2>3, <2>4, <2>5, <2>6, <2>7, <2>8 DEF Next
<1>4. ASSUME IInv, L, [Next]_vars PROVE L'
  BY <1>1, <1>3, <1>4
<1> HIDE DEF L
<1>5. Spec => []L
  BY <1>2, <1>4, IInvHolds, PTL DEF Spec
<1> QED
  BY <1>5, PTL DEF L

------------------------------------------------------------------------------
(* What a tab believes about its own lock on a file, now and at each message it *)
(* has still to handle, and why that belief is never behind the edits that      *)
(* arrive.                                                                      *)
(*                                                                              *)
(* In what follows ns is what is on its way to the tab of u, ms what is on its  *)
(* way from it, kn the owners of the file f that u has shown, and own whether u *)
(* does own f in the server's lock tree.                                        *)

Owner(f, u) == hdlm!IsExclusiveOwner(tree, f, u)

\* m is a message of this type about f.
Is(m, type, f) == m.type = type /\ m.file_path = f

\* The tab is told the owners by the j-th message, or by what it has shown.
Tells(ns, j) == j = 0 \/ ns[j].type = "LOCK_SYNC"

\* They are u alone.
Says(ns, kn, u, f, j) == IF j = 0 THEN kn = {u} ELSE ns[j].active_locks[f] = {u}

\* The j-th is the last that tells u before the i-th.
LastTold(ns, i, j) ==
  /\ j \in 0..(i - 1)
  /\ Tells(ns, j)
  /\ \A k \in (j + 1)..(i - 1) : ~Tells(ns, k)

\* When the i-th message arrives, u believes to own f or not, as b says.
Believes(ns, kn, u, f, i, b) ==
  \E j \in 0..(i - 1) : LastTold(ns, i, j) /\ (Says(ns, kn, u, f, j) <=> b)

------------------------------------------------------------------------------
(* Sequences of messages *)

\* One message more.
LEMMA OneMore ==
  ASSUME NEW S, NEW ms \in Seq(S), NEW m \in S
  PROVE  LET ns == Append(ms, m)
         IN  /\ ns \in Seq(S)
             /\ Len(ns) = Len(ms) + 1
             /\ DOMAIN ns = 1..(Len(ms) + 1)
             /\ \A i \in 1..Len(ms) : ns[i] = ms[i]
             /\ ns[Len(ms) + 1] = m
  OBVIOUS

\* One message less.
LEMMA OneLess ==
  ASSUME NEW S, NEW ms \in Seq(S), ms # <<>>
  PROVE  LET ns == Tail(ms)
         IN  /\ ns \in Seq(S)
             /\ Len(ms) \in Nat /\ Len(ms) >= 1
             /\ Len(ns) = Len(ms) - 1
             /\ DOMAIN ns = 1..(Len(ms) - 1)
             /\ \A i \in 1..(Len(ms) - 1) : ns[i] = ms[i + 1]
             /\ Head(ms) = ms[1] /\ ms[1] \in S
  OBVIOUS

\* What u believes at a message does not depend on the later ones.
LEMMA BelievesStill ==
  ASSUME NEW ns \in Seq(ToClient), NEW m \in ToClient, NEW kn, NEW u, NEW f,
         NEW b \in BOOLEAN, NEW i \in 1..(Len(ns) + 1), Believes(ns, kn, u, f, i, b)
  PROVE  Believes(Append(ns, m), kn, u, f, i, b)
<1> DEFINE ps == Append(ns, m)
<1>1. Len(ns) \in Nat /\ \A k \in 1..Len(ns) : ps[k] = ns[k]
  BY OneMore
<1> HIDE DEF ps
<1>2. PICK j \in 0..(i - 1) : LastTold(ns, i, j) /\ (Says(ns, kn, u, f, j) <=> b)
  BY DEF Believes
<1>3. \A k \in 0..(i - 1) : Tells(ps, k) <=> Tells(ns, k)
  BY <1>1 DEF Tells
<1>4. LastTold(ps, i, j)
  BY <1>2, <1>3 DEF LastTold
<1>5. Says(ps, kn, u, f, j) <=> Says(ns, kn, u, f, j)
  BY <1>1, <1>2 DEF Says
<1> QED
  BY <1>2, <1>4, <1>5 DEF Believes, ps

\* After a LOCK_SYNC u believes what that says.
LEMMA BelievesWhenTold ==
  ASSUME NEW ns \in Seq(ToClient), NEW m \in ToClient, m.type = "LOCK_SYNC", NEW kn,
         NEW u, NEW f
  PROVE  Believes(Append(ns, m), kn, u, f, Len(ns) + 2, m.active_locks[f] = {u})
<1> DEFINE ps == Append(ns, m)
           n == Len(ns) + 1
<1>1. Len(ns) \in Nat /\ ps[n] = m
  BY OneMore
<1> HIDE DEF ps
<1>2. LastTold(ps, n + 1, n)
  BY <1>1 DEF LastTold, Tells
<1>3. Says(ps, kn, u, f, n) <=> m.active_locks[f] = {u}
  BY <1>1 DEF Says
<1>4. n \in 0..(n + 1 - 1) /\ n + 1 = Len(ns) + 2
  BY <1>1
<1> HIDE DEF n
<1> QED
  BY <1>2, <1>3, <1>4 DEF Believes, ps

\* After another message u believes what it did before.
LEMMA BelievesWithMore ==
  ASSUME NEW ns \in Seq(ToClient), NEW m \in ToClient, m.type # "LOCK_SYNC", NEW kn,
         NEW u, NEW f, NEW b \in BOOLEAN, Believes(ns, kn, u, f, Len(ns) + 1, b)
  PROVE  Believes(Append(ns, m), kn, u, f, Len(ns) + 2, b)
<1> DEFINE ps == Append(ns, m)
<1>1. Len(ns) \in Nat /\ (\A k \in 1..Len(ns) : ps[k] = ns[k]) /\ ps[Len(ns) + 1] = m
  BY OneMore
<1> HIDE DEF ps
<1>2. PICK j \in 0..Len(ns) : LastTold(ns, Len(ns) + 1, j) /\ (Says(ns, kn, u, f, j) <=> b)
  BY <1>1 DEF Believes
<1>3. (\A k \in 0..Len(ns) : Tells(ps, k) <=> Tells(ns, k)) /\ ~Tells(ps, Len(ns) + 1)
  BY <1>1 DEF Tells
<1>4. LastTold(ps, Len(ns) + 2, j)
  BY <1>1, <1>2, <1>3 DEF LastTold
<1>5. Says(ps, kn, u, f, j) <=> Says(ns, kn, u, f, j)
  BY <1>1, <1>2 DEF Says
<1>6. j \in 0..(Len(ns) + 2 - 1)
  BY <1>1
<1> QED
  BY <1>2, <1>4, <1>5, <1>6 DEF Believes, ps

\* What u believes when the first message arrives is what it has shown.
LEMMA BelievesAtFirst ==
  ASSUME NEW ns, NEW kn, NEW u, NEW f, NEW b \in BOOLEAN, Believes(ns, kn, u, f, 1, b)
  PROVE  kn = {u} <=> b
<1>1. PICK j \in 0..0 : Says(ns, kn, u, f, j) <=> b
  BY DEF Believes
<1> QED
  BY <1>1 DEF Says

\* The first message, handled, leaves what u will believe at the later ones.
LEMMA BelievesLater ==
  ASSUME NEW ns \in Seq(ToClient), ns # <<>>, NEW kn, NEW u, NEW f, NEW b \in BOOLEAN,
         NEW i \in 2..(Len(ns) + 1), Believes(ns, kn, u, f, i, b)
  PROVE  LET k == IF Head(ns).type = "LOCK_SYNC" THEN Head(ns).active_locks[f] ELSE kn
         IN  Believes(Tail(ns), k, u, f, i - 1, b)
<1> DEFINE ps == Tail(ns)
           h == IF Head(ns).type = "LOCK_SYNC" THEN Head(ns).active_locks[f] ELSE kn
<1>1. /\ Len(ns) \in Nat /\ Len(ns) >= 1 /\ Head(ns) = ns[1]
      /\ \A k \in 1..(Len(ns) - 1) : ps[k] = ns[k + 1]
  BY OneLess
<1> HIDE DEF ps
<1>2. PICK j \in 0..(i - 1) : LastTold(ns, i, j) /\ (Says(ns, kn, u, f, j) <=> b)
  BY DEF Believes
<1>3. \A k \in 1..(i - 2) : Tells(ps, k) <=> Tells(ns, k + 1)
  BY <1>1 DEF Tells
<1>4. CASE j >= 1
  <2>1. j - 1 \in 0..(i - 2) /\ i - 1 \in Nat
    BY <1>2, <1>4
  <2>2. Tells(ps, j - 1)
    BY <1>2, <1>3, <1>4, <2>1 DEF LastTold, Tells
  <2>3. \A k \in j..(i - 2) : ~Tells(ps, k)
    BY <1>2, <1>3, <1>4 DEF LastTold
  <2>4. LastTold(ps, i - 1, j - 1)
    BY <2>1, <2>2, <2>3 DEF LastTold
  <2>5. Says(ps, h, u, f, j - 1) <=> Says(ns, kn, u, f, j)
    <3>1. CASE j = 1
      <4>1. ns[1].type = "LOCK_SYNC" /\ j - 1 = 0
        BY <1>2, <3>1 DEF LastTold, Tells
      <4>2. h = ns[1].active_locks[f]
        BY <1>1, <4>1
      <4> HIDE DEF h
      <4> QED
        BY <3>1, <4>1, <4>2 DEF Says
    <3>2. CASE j # 1
      <4>1. j - 1 # 0 /\ j # 0 /\ j - 1 \in 1..(Len(ns) - 1) /\ j - 1 + 1 = j
        BY <1>1, <1>4, <2>1, <3>2
      <4>2. ps[j - 1] = ns[j]
        BY <1>1, <4>1
      <4> QED
        BY <4>1, <4>2 DEF Says
    <3> QED
      BY <3>1, <3>2
  <2>6. i - 1 - 1 = i - 2
    OBVIOUS
  <2> HIDE DEF h
  <2> QED
    BY <1>2, <2>1, <2>4, <2>5, <2>6 DEF Believes, ps, h
<1>5. CASE j = 0
  <2>1. ns[1].type # "LOCK_SYNC"
    BY <1>2, <1>5 DEF LastTold, Tells
  <2>2. h = kn
    BY <1>1, <2>1
  <2>3. \A k \in 1..(i - 2) : ~Tells(ps, k)
    BY <1>2, <1>3, <1>5 DEF LastTold
  <2>4. LastTold(ps, i - 1, 0)
    BY <2>3 DEF LastTold, Tells
  <2>5. Says(ps, h, u, f, 0) <=> b
    BY <1>2, <1>5, <2>2 DEF Says
  <2>6. 0 \in 0..(i - 1 - 1)
    OBVIOUS
  <2> HIDE DEF h
  <2> QED
    BY <2>4, <2>5, <2>6 DEF Believes, ps, h
<1> QED
  BY <1>2, <1>4, <1>5

------------------------------------------------------------------------------
(* Who owns a file *)

\* No tab ever asks for a SHARED lock.
NoSharersIn(t) == \A p \in Nodes : t[p].current_mode # "SHARED"
NoSharers == NoSharersIn(tree)

\* From the lock tree t to the lock tree r nobody but u gains p.
GainsOnly(t, r, u, p) ==
  \A q \in Nodes, v \in Users :
    hdlm!IsExclusiveOwner(r, q, v) => hdlm!IsExclusiveOwner(t, q, v) \/ (q = p /\ v = u)

\* Nobody gains anything.
GainsNone(t, r) ==
  \A q \in Nodes, v \in Users :
    hdlm!IsExclusiveOwner(r, q, v) => hdlm!IsExclusiveOwner(t, q, v)

\* Without sharers, to hold a node is to own it.
LEMMA HoldsIsOwns ==
  ASSUME NEW t, NoSharersIn(t), NEW p \in Nodes, NEW u
  PROVE  hdlm!Holds(t[p], u) <=> hdlm!IsExclusiveOwner(t, p, u)
  BY DEF NoSharersIn, hdlm!Holds, hdlm!IsExclusiveOwner

\* The owners a tab is shown for a file are the owner.
LEMMA ShownOwner ==
  ASSUME NEW t, TreeOK(t), NoSharersIn(t), NEW f \in Files, NEW u \in Users
  PROVE  hdlm!ActiveLocks(t)[f] = {u} <=> hdlm!IsExclusiveOwner(t, f, u)
<1>1. f \in hdlm!Targets /\ f \in Nodes
  BY FilesAssumption DEF hdlm!Targets, hdlm!Root
<1>2. t[f].current_mode # "SHARED"
  BY <1>1 DEF NoSharersIn
<1>3. hdlm!ActiveLocks(t)[f] = IF t[f].current_mode = "EXCLUSIVE"
                               THEN {t[f].exclusive_owner} ELSE {}
  BY <1>1, <1>2 DEF hdlm!ActiveLocks
<1> QED
  BY <1>3 DEF hdlm!IsExclusiveOwner

\* A node that is released is not SHARED if it was not before.
LEMMA ReleasedUnshared ==
  ASSUME NEW n, NodeOK(n), n.current_mode # "SHARED", NEW u \in Users
  PROVE  hdlm!ReleaseNode(n, u).current_mode # "SHARED"
<1> DEFINE f == hdlm!Freed(n, u)
<1>1. hdlm!ReleaseNode(n, u) = f
  BY DEF NodeOK, hdlm!ReleaseNode, hdlm!HandsOver
<1>2. CASE n.current_mode = "EXCLUSIVE"
  <2>1. f = [n EXCEPT !.exclusive_owner = NoUser, !.current_mode = "UNLOCKED"]
    BY <1>2 DEF hdlm!Freed
  <2> HIDE DEF f
  <2> QED
    BY <1>1, <2>1 DEF NodeOK, hdlm!LockNode
<1>3. CASE n.current_mode # "EXCLUSIVE"
  <2> DEFINE m == IF n.shared_owners = {u} THEN "UNLOCKED" ELSE n.current_mode
  <2>1. f = [n EXCEPT !.shared_owners = n.shared_owners \ {u}, !.current_mode = m]
    BY <1>3 DEF hdlm!Freed
  <2>2. m # "SHARED"
    OBVIOUS
  <2> HIDE DEF f, m
  <2> QED
    BY <1>1, <2>1, <2>2 DEF NodeOK, hdlm!LockNode
<1> QED
  BY <1>2, <1>3

\* Releasing gives nobody anything.
LEMMA ReleasedOwners ==
  ASSUME NEW t, TreeOK(t), NoSharersIn(t), NEW u \in Users, NEW S \in SUBSET Nodes
  PROVE  LET r == hdlm!ReleaseMany(t, S, u) IN NoSharersIn(r) /\ GainsNone(t, r)
<1> DEFINE k(q) == hdlm!Cardinality({p \in S : q \in hdlm!Ancestors(p) /\ ~hdlm!HandsOver(t[p], u)})
           n(q) == IF q \in S THEN hdlm!ReleaseNode(t[q], u) ELSE t[q]
           r == hdlm!ReleaseMany(t, S, u)
<1>1. r = [q \in Nodes |-> hdlm!Unwind(n(q), k(q))]
  BY DEF hdlm!ReleaseMany
<1>2. ASSUME NEW q \in Nodes PROVE r[q].current_mode # "SHARED"
  <2>1. t[q] \in hdlm!LockNode /\ t[q].wait_queue = <<>> /\ t[q].current_mode # "SHARED"
    BY DEF TreeOK, NodeOK, NoSharersIn
  <2>2. NodeOK(n(q)) /\ n(q).current_mode # "SHARED"
    <3>1. NodeOK(n(q))
      BY ReleaseNodeFacts DEF TreeOK
    <3>2. NodeOK(t[q])
      BY DEF TreeOK
    <3> QED
      BY <2>1, <3>1, <3>2, ReleasedUnshared
  <2> HIDE DEF n, k
  <2>3. n(q) \in hdlm!LockNode
    BY <2>2 DEF NodeOK
  <2>4. hdlm!Unwind(n(q), k(q)).current_mode \in {"UNLOCKED", n(q).current_mode}
    BY <2>3 DEF hdlm!Unwind, hdlm!LockNode
  <2> QED
    BY <1>1, <2>2, <2>4
<1> HIDE DEF k, n, r
<1>3. NoSharersIn(r)
  BY <1>2 DEF NoSharersIn
<1>4. \A p \in Nodes, v \in Users : hdlm!Holds(r[p], v) => hdlm!Holds(t[p], v)
  BY ReleaseManyFacts DEF r
<1>5. GainsNone(t, r)
  BY <1>3, <1>4, HoldsIsOwns DEF GainsNone
<1> QED
  BY <1>3, <1>5 DEF r

\* So does deleting.
LEMMA PrunedOwners ==
  ASSUME NEW t, NoSharersIn(t), NEW p
  PROVE  LET r == hdlm!Pruned(t, p) IN NoSharersIn(r) /\ GainsNone(t, r)
<1> DEFINE r == hdlm!Pruned(t, p)
<1>1. \A q \in Nodes : r[q] = hdlm!FreshNode \/ r[q] = t[q]
  BY DEF hdlm!Pruned
<1> HIDE DEF r
<1>2. hdlm!FreshNode.current_mode = "UNLOCKED"
  BY DEF hdlm!FreshNode
<1> QED
  BY <1>1, <1>2 DEF NoSharersIn, GainsNone, hdlm!IsExclusiveOwner, r

\* The user who seizes a file is its owner then, and nobody else gains anything.
LEMMA SeizedOwners ==
  ASSUME NEW t, TreeOK(t), NoSharersIn(t), NEW u \in Users, NEW p \in Nodes
  PROVE  LET r == [t EXCEPT ![p] = hdlm!Preempt(@, u, "EXCLUSIVE")]
         IN  NoSharersIn(r) /\ GainsOnly(t, r, u, p)
<1> DEFINE s == hdlm!Preempt(t[p], u, "EXCLUSIVE")
           r == [t EXCEPT ![p] = s]
<1>1. s.current_mode = "EXCLUSIVE" /\ s.exclusive_owner = u
  BY DEF TreeOK, NodeOK, hdlm!Preempt, hdlm!LockNode
<1> HIDE DEF s
<1>2. \A q \in Nodes : r[q] = IF q = p THEN s ELSE t[q]
  BY DEF TreeOK
<1> HIDE DEF r
<1>3. NoSharersIn(r) /\ GainsOnly(t, r, u, p)
  BY <1>1, <1>2 DEF NoSharersIn, GainsOnly, hdlm!IsExclusiveOwner
<1> QED
  BY <1>3 DEF r, s

------------------------------------------------------------------------------
(* Beliefs and edits *)

\* In the end u is right about its lock on f, and by the time an edit of f
\* arrives, always another tab's, u has been told that the lock is not its own.
Told(ns, kn, u, f, own) ==
  /\ Believes(ns, kn, u, f, Len(ns) + 1, own)
  /\ \A i \in 1..Len(ns) : Is(ns[i], "DELTA", f) =>
       ns[i].client_id # u /\ Believes(ns, kn, u, f, i, FALSE)

\* It stays so when a message that is neither a LOCK_SYNC nor an edit of f is sent.
LEMMA ToldWithOther ==
  ASSUME NEW ns \in Seq(ToClient), NEW m \in ToClient, NEW kn, NEW u, NEW f,
         NEW own \in BOOLEAN, Told(ns, kn, u, f, own),
         m.type # "LOCK_SYNC", ~Is(m, "DELTA", f)
  PROVE  Told(Append(ns, m), kn, u, f, own)
<1> DEFINE ps == Append(ns, m)
<1>1. /\ Len(ns) \in Nat /\ Len(ps) = Len(ns) + 1 /\ ps[Len(ns) + 1] = m
      /\ \A i \in 1..Len(ns) : ps[i] = ns[i]
  BY OneMore
<1>2. Believes(ps, kn, u, f, Len(ns) + 2, own)
  BY BelievesWithMore DEF Told
<1>3. ASSUME NEW i \in 1..Len(ns), Believes(ns, kn, u, f, i, FALSE)
      PROVE  Believes(ps, kn, u, f, i, FALSE)
  <2>1. i \in 1..(Len(ns) + 1)
    BY <1>1
  <2> HIDE DEF ps
  <2> QED
    BY <1>3, <2>1, BelievesStill DEF ps
<1> HIDE DEF ps
<1>4. ASSUME NEW i \in 1..Len(ps), Is(ps[i], "DELTA", f)
      PROVE  ps[i].client_id # u /\ Believes(ps, kn, u, f, i, FALSE)
  <2>1. i \in 1..Len(ns)
    BY <1>1, <1>4
  <2> QED
    BY <1>1, <1>3, <1>4, <2>1 DEF Told
<1>5. Len(ps) + 1 = Len(ns) + 2
  BY <1>1
<1> QED
  BY <1>2, <1>4, <1>5 DEF Told, ps

\* When an edit of f by another tab is sent, u does not own f.
LEMMA ToldWithEdit ==
  ASSUME NEW ns \in Seq(ToClient), NEW m \in ToClient, NEW kn, NEW u, NEW f,
         Told(ns, kn, u, f, FALSE), Is(m, "DELTA", f), m.client_id # u
  PROVE  Told(Append(ns, m), kn, u, f, FALSE)
<1> DEFINE ps == Append(ns, m)
<1>1. /\ Len(ns) \in Nat /\ Len(ps) = Len(ns) + 1 /\ ps[Len(ns) + 1] = m
      /\ \A i \in 1..Len(ns) : ps[i] = ns[i]
  BY OneMore
<1>2. Believes(ps, kn, u, f, Len(ns) + 2, FALSE)
  BY BelievesWithMore DEF Told, Is
<1>3. ASSUME NEW i \in 1..(Len(ns) + 1), Believes(ns, kn, u, f, i, FALSE)
      PROVE  Believes(ps, kn, u, f, i, FALSE)
  BY <1>3, BelievesStill
<1> HIDE DEF ps
<1>4. ASSUME NEW i \in 1..Len(ps), Is(ps[i], "DELTA", f)
      PROVE  ps[i].client_id # u /\ Believes(ps, kn, u, f, i, FALSE)
  <2>1. CASE i \in 1..Len(ns)
    BY <1>1, <1>3, <1>4, <2>1 DEF Told
  <2>2. CASE i = Len(ns) + 1
    <3>1. Believes(ns, kn, u, f, i, FALSE) /\ i \in 1..(Len(ns) + 1)
      BY <1>1, <2>2 DEF Told
    <3>2. Believes(ps, kn, u, f, i, FALSE)
      BY <1>3, <3>1
    <3>3. ps[i] = m
      BY <1>1, <2>2
    <3>4. ps[i].client_id # u
      BY <3>3
    <3> QED
      BY <3>2, <3>4
  <2>3. i \in 1..Len(ns) \/ i = Len(ns) + 1
    BY <1>1
  <2> QED
    BY <2>1, <2>2, <2>3
<1>5. Len(ps) + 1 = Len(ns) + 2
  BY <1>1
<1> QED
  BY <1>2, <1>4, <1>5 DEF Told, ps

\* When the locks change, every tab is told.
LEMMA ToldWithLocks ==
  ASSUME NEW ns \in Seq(ToClient), NEW m \in ToClient, NEW kn, NEW u, NEW f,
         NEW own \in BOOLEAN, NEW now \in BOOLEAN, Told(ns, kn, u, f, own),
         m.type = "LOCK_SYNC", m.active_locks[f] = {u} <=> now
  PROVE  Told(Append(ns, m), kn, u, f, now)
<1> DEFINE ps == Append(ns, m)
<1>1. /\ Len(ns) \in Nat /\ Len(ps) = Len(ns) + 1 /\ ps[Len(ns) + 1] = m
      /\ \A i \in 1..Len(ns) : ps[i] = ns[i]
  BY OneMore
<1>2. Believes(ps, kn, u, f, Len(ns) + 2, m.active_locks[f] = {u})
  BY BelievesWhenTold
<1>3. ASSUME NEW i \in 1..Len(ns), Believes(ns, kn, u, f, i, FALSE)
      PROVE  Believes(ps, kn, u, f, i, FALSE)
  <2>1. i \in 1..(Len(ns) + 1)
    BY <1>1
  <2> HIDE DEF ps
  <2> QED
    BY <1>3, <2>1, BelievesStill DEF ps
<1> HIDE DEF ps
<1>4. ASSUME NEW i \in 1..Len(ps), Is(ps[i], "DELTA", f)
      PROVE  ps[i].client_id # u /\ Believes(ps, kn, u, f, i, FALSE)
  <2>1. i \in 1..Len(ns)
    BY <1>1, <1>4 DEF Is
  <2> QED
    BY <1>1, <1>3, <1>4, <2>1 DEF Told
<1>5. Believes(ps, kn, u, f, Len(ps) + 1, now)
  <2>1. Len(ps) + 1 = Len(ns) + 2
    BY <1>1
  <2>2. Believes(ps, kn, u, f, Len(ps) + 1, m.active_locks[f] = {u})
    BY <1>2, <2>1
  <2> QED
    BY <2>2 DEF Believes
<1> QED
  BY <1>4, <1>5 DEF Told, ps

\* When a message has arrived.
LEMMA ToldLater ==
  ASSUME NEW ns \in Seq(ToClient), ns # <<>>, NEW kn, NEW u, NEW f, NEW own \in BOOLEAN,
         Told(ns, kn, u, f, own)
  PROVE  LET k == IF Head(ns).type = "LOCK_SYNC" THEN Head(ns).active_locks[f] ELSE kn
         IN  Told(Tail(ns), k, u, f, own)
<1> DEFINE ps == Tail(ns)
           h == IF Head(ns).type = "LOCK_SYNC" THEN Head(ns).active_locks[f] ELSE kn
<1>1. /\ Len(ns) \in Nat /\ Len(ns) >= 1 /\ Len(ps) = Len(ns) - 1
      /\ \A i \in 1..(Len(ns) - 1) : ps[i] = ns[i + 1]
  BY OneLess
<1>2. ASSUME NEW i \in 2..(Len(ns) + 1), NEW b \in BOOLEAN, Believes(ns, kn, u, f, i, b)
      PROVE  Believes(ps, h, u, f, i - 1, b)
  BY <1>2, BelievesLater
<1> HIDE DEF ps, h
<1>3. Believes(ps, h, u, f, Len(ps) + 1, own)
  <2>1. Len(ns) + 1 \in 2..(Len(ns) + 1) /\ Len(ns) + 1 - 1 = Len(ps) + 1
    BY <1>1
  <2> QED
    BY <1>2, <2>1 DEF Told
<1>4. ASSUME NEW i \in 1..Len(ps), Is(ps[i], "DELTA", f)
      PROVE  ps[i].client_id # u /\ Believes(ps, h, u, f, i, FALSE)
  <2>1. i + 1 \in 1..Len(ns) /\ i + 1 \in 2..(Len(ns) + 1) /\ i + 1 - 1 = i /\ ps[i] = ns[i + 1]
    BY <1>1
  <2>2. ns[i + 1].client_id # u /\ Believes(ns, kn, u, f, i + 1, FALSE)
    BY <1>4, <2>1 DEF Told
  <2> DEFINE l == i + 1
  <2>3. l \in 2..(Len(ns) + 1) /\ l - 1 = i
    BY <2>1
  <2>4. Believes(ns, kn, u, f, l, FALSE)
    BY <2>2
  <2> HIDE DEF l
  <2>5. Believes(ps, h, u, f, l - 1, FALSE)
    BY <1>2, <2>3, <2>4
  <2>6. Believes(ps, h, u, f, i, FALSE)
    BY <2>3, <2>5
  <2> QED
    BY <2>1, <2>2, <2>6
<1> QED
  BY <1>3, <1>4 DEF Told, ps, h

\* A tab that has nothing to receive and shows no lock of its own, and owns none.
LEMMA ToldNothing ==
  ASSUME NEW kn, NEW u, NEW f, kn # {u}
  PROVE  Told(<<>>, kn, u, f, FALSE)
<1>1. LastTold(<<>>, 1, 0) /\ ~Says(<<>>, kn, u, f, 0)
  BY DEF LastTold, Tells, Says
<1>2. Believes(<<>>, kn, u, f, 1, FALSE)
  BY <1>1 DEF Believes
<1>3. Len(<<>>) = 0
  OBVIOUS
<1>4. Len(<<>>) + 1 = 1 /\ 1..Len(<<>>) = {}
  BY <1>3
<1> QED
  BY <1>2, <1>4 DEF Told

------------------------------------------------------------------------------
(* What the server does with a message, as the tabs see it *)

\* m is sent to the tabs of S.
Sent(S, m) ==
  \A v \in Users : down'[v] = IF v \in S THEN Append(down[v], m) ELSE down[v]

Edit(f, text, u) ==
  [type |-> "DELTA", client_id |-> u, file_path |-> f, full_text |-> text]

\* The next message of u is taken.
Handled(u) ==
  /\ u \in connected
  /\ up[u] # <<>>
  /\ up'[u] = Tail(up[u])
  /\ \A v \in Users \ {u} : up'[v] = up[v]
  /\ UNCHANGED <<connected, activeFile, activeLocks, buffer, shown, synced, clicks>>

\* Nothing is sent: a file is created, or one that is not there is deleted.
Unheard(u) ==
  /\ Head(up[u]).type \in {"FILE_CREATE", "FILE_DELETE"}
  /\ UNCHANGED <<tree, docs, down>>

\* An edit of a file that u does not own is refused.
Reverted(u, f) ==
  /\ Is(Head(up[u]), "DELTA", f)
  /\ ~Owner(f, u)
  /\ UNCHANGED <<tree, docs>>
  /\ Sent({u}, TextMsg("STATE_REVERT", f, docs[f]))

\* A document is sent to the tab that asked for it.
Loaded(u, f) ==
  /\ Is(Head(up[u]), "FILE_REQUEST", f)
  /\ UNCHANGED <<tree, docs>>
  /\ Sent({u}, TextMsg("FILE_CONTENT", f, docs[f]))

\* The owner's edit is sent to the others.
Accepted(u, f) ==
  LET text == Head(up[u]).full_text
  IN  /\ Is(Head(up[u]), "DELTA", f)
      /\ Owner(f, u)
      /\ UNCHANGED tree
      /\ docs' = [docs EXCEPT ![f] = text]
      /\ Sent(connected \ {u}, Edit(f, text, u))

\* u takes the lock on f, and everybody is told.
Seized(u, f) ==
  /\ Is(Head(up[u]), "LOCK_REQUEST", f)
  /\ UNCHANGED docs
  /\ Sent(connected, LockSync(tree'))
  /\ GainsOnly(tree, tree', u, f)

\* Locks are lost, and everybody is told.
Lost(u) ==
  /\ Head(up[u]).type \in {"LOCK_RELEASE", "FILE_DELETE"}
  /\ UNCHANGED docs
  /\ Sent(connected, LockSync(tree'))
  /\ GainsNone(tree, tree')

\* A message is handled in one of these ways.
LEMMA HandleOutcome ==
  ASSUME IInv, NoSharers, NEW u \in Users, Handle(u)
  PROVE  /\ Handled(u)
         /\ NoSharers'
         /\ \/ Unheard(u)
            \/ Lost(u)
            \/ \E f \in Files : Reverted(u, f) \/ Loaded(u, f) \/ Accepted(u, f) \/ Seized(u, f)
<1> DEFINE m == Head(up[u])
           f == m.file_path
<1> USE DEF server
<1>1. PICK ty : Takes(u, ty)
  BY DEF Handle, DeltaAccepted, DeltaRefused, LockRequest, LockRelease, FileRequest,
         FileCreate, FileDeleted, FileDeleteFails
<1>2. Handled(u)
  <2>1. up \in [Users -> Seq(ToServer)] /\ up[u] # <<>> /\ up' = [up EXCEPT ![u] = Tail(@)]
    BY <1>1 DEF IInv, TypeOK, Takes
  <2>2. u \in connected /\ UNCHANGED <<connected, client, clicks>>
    BY <1>1, Taken
  <2> QED
    BY <2>1, <2>2 DEF Handled, client, editor
<1>3. down \in [Users -> Seq(ToClient)] /\ TreeOK(tree) /\ NoSharersIn(tree)
  BY DEF IInv, TypeOK, NoSharers
<1>4. \A S, msg : Deliver(S, msg) => Sent(S, msg)
  BY DEF Deliver, Sent
<1>5. UNCHANGED tree => NoSharers'
  BY DEF NoSharers, NoSharersIn
<1>6. CASE DeltaAccepted(u)
  <2>1. f \in Files /\ Is(m, "DELTA", f)
    BY <1>6, Taken, FromTab DEF DeltaAccepted, Is
  <2>2. Accepted(u, f)
    BY <1>4, <1>6, <2>1 DEF DeltaAccepted, Publish, Accepted, Owner, Edit
  <2> QED
    BY <1>2, <1>5, <2>1, <2>2 DEF Accepted
<1>7. CASE DeltaRefused(u)
  <2>1. f \in Files /\ Is(m, "DELTA", f)
    BY <1>7, Taken, FromTab DEF DeltaRefused, Is
  <2>2. Reverted(u, f)
    BY <1>4, <1>7, <2>1 DEF DeltaRefused, Reverted, Owner
  <2> QED
    BY <1>2, <1>5, <2>1, <2>2 DEF Reverted
<1>8. CASE FileRequest(u)
  <2>1. f \in Files /\ Is(m, "FILE_REQUEST", f)
    BY <1>8, Taken, FromTab DEF FileRequest, Is
  <2>2. Loaded(u, f)
    BY <1>4, <1>8, <2>1 DEF FileRequest, Loaded
  <2> QED
    BY <1>2, <1>5, <2>1, <2>2 DEF Loaded
<1>9. CASE LockRequest(u)
  <2>1. f \in Files /\ f \in Nodes /\ Is(m, "LOCK_REQUEST", f)
    BY <1>9, Taken, FromTab, FilesAssumption DEF LockRequest, Is
  <2>2. tree' = [tree EXCEPT ![f] = hdlm!Preempt(@, u, "EXCLUSIVE")]
    BY <1>9 DEF LockRequest, hdlm!AcquireByPreemption
  <2>3. NoSharersIn(tree') /\ GainsOnly(tree, tree', u, f)
    BY <1>3, <2>1, <2>2, SeizedOwners
  <2>4. Seized(u, f)
    BY <1>4, <1>9, <2>1, <2>3 DEF LockRequest, PublishAndSend, Seized
  <2> QED
    BY <1>2, <2>1, <2>3, <2>4 DEF NoSharers
<1>10. CASE LockRelease(u)
  <2> DEFINE S == {f} \cap hdlm!HeldBy(tree, u)
  <2>1. S \in SUBSET Nodes
    BY DEF hdlm!HeldBy, hdlm!Targets
  <2>2. tree' = hdlm!ReleaseMany(tree, S, u)
    BY <1>10 DEF LockRelease
  <2> HIDE DEF S
  <2>3. NoSharersIn(tree') /\ GainsNone(tree, tree')
    BY <1>3, <2>1, <2>2, ReleasedOwners
  <2>4. m.type \in {"LOCK_RELEASE", "FILE_DELETE"}
    BY <1>10, Taken DEF LockRelease
  <2>5. Lost(u)
    BY <1>4, <1>10, <2>3, <2>4 DEF LockRelease, PublishAndSend, Lost
  <2> QED
    BY <1>2, <2>3, <2>5 DEF NoSharers
<1>11. CASE FileDeleted(u)
  <2>1. tree' = hdlm!Pruned(tree, f)
    BY <1>11 DEF FileDeleted
  <2>2. NoSharersIn(tree') /\ GainsNone(tree, tree')
    BY <1>3, <2>1, PrunedOwners
  <2>3. m.type \in {"LOCK_RELEASE", "FILE_DELETE"}
    BY <1>11, Taken DEF FileDeleted
  <2>4. Lost(u)
    BY <1>4, <1>11, <2>2, <2>3 DEF FileDeleted, PublishAndSend, Lost
  <2> QED
    BY <1>2, <2>2, <2>4 DEF NoSharers
<1>12. CASE FileCreate(u) \/ FileDeleteFails(u)
  <2>1. m.type \in {"FILE_CREATE", "FILE_DELETE"}
    BY <1>12, Taken DEF FileCreate, FileDeleteFails
  <2>2. Unheard(u)
    BY <1>12, <2>1 DEF FileCreate, FileDeleteFails, Unheard
  <2> QED
    BY <1>2, <1>5, <2>2 DEF Unheard
<1> QED
  BY <1>6, <1>7, <1>8, <1>9, <1>10, <1>11, <1>12 DEF Handle

\* The tab of v shows what it did.
ViewKept(v) ==
  /\ activeFile'[v] = activeFile[v] /\ activeLocks'[v] = activeLocks[v]
  /\ buffer'[v] = buffer[v] /\ shown'[v] = shown[v]

\* The connection of u ends.
Closed(u) ==
  /\ u \in connected
  /\ connected' = connected \ {u}
  /\ up'[u] = <<>> /\ down'[u] = <<>>
  /\ activeLocks'[u] = NoLocks /\ shown'[u] = NoFile
  /\ \A f \in Files : ~hdlm!IsExclusiveOwner(tree', f, u)
  /\ GainsNone(tree, tree')
  /\ UNCHANGED docs
  /\ \A v \in Users \ {u} :
       /\ up'[v] = up[v]
       /\ down'[v] = IF v \in connected THEN Append(down[v], LockSync(tree')) ELSE down[v]
       /\ ViewKept(v)

\* What the end of a connection does, as the tabs see it.
LEMMA CloseOutcome ==
  ASSUME IInv, NoSharers, NEW u \in Users, Close(u)
  PROVE  Closed(u) /\ NoSharers'
<1> DEFINE S == hdlm!HeldBy(tree, u)
<1>1. S \in SUBSET Nodes
  BY DEF hdlm!HeldBy, hdlm!Targets
<1>2. tree' = hdlm!ReleaseMany(tree, S, u)
  BY DEF Close
<1> HIDE DEF S
<1>3. NoSharersIn(tree') /\ GainsNone(tree, tree')
  BY <1>1, <1>2, ReleasedOwners DEF IInv, NoSharers
<1>4. ASSUME NEW f \in Files PROVE ~hdlm!IsExclusiveOwner(tree', f, u)
  <2>1. f \in hdlm!Targets /\ f \in Nodes
    BY FilesAssumption DEF hdlm!Targets, hdlm!Root
  <2>2. ~hdlm!Holds(tree'[f], u)
    BY <2>1, CloseStep
  <2> QED
    BY <1>3, <2>1, <2>2, HoldsIsOwns
<1>5. /\ up' = [up EXCEPT ![u] = <<>>]
      /\ down' = [v \in Users |->
                    IF v = u THEN <<>>
                    ELSE IF v \in connected THEN Append(down[v], LockSync(tree')) ELSE down[v]]
      /\ activeFile' = [activeFile EXCEPT ![u] = DefaultFile]
      /\ activeLocks' = [activeLocks EXCEPT ![u] = NoLocks]
      /\ buffer' = [buffer EXCEPT ![u] = <<>>]
      /\ shown' = [shown EXCEPT ![u] = NoFile]
      /\ u \in connected /\ connected' = connected \ {u} /\ docs' = docs
  BY DEF Close, Disconnect
<1>6. /\ up \in [Users -> Seq(ToServer)] /\ activeFile \in [Users -> Files]
      /\ activeLocks \in [Users -> LockTable] /\ buffer \in [Users -> Texts]
      /\ shown \in [Users -> Files \cup {NoFile}]
  BY DEF IInv, TypeOK
<1>7. up'[u] = <<>> /\ down'[u] = <<>> /\ activeLocks'[u] = NoLocks /\ shown'[u] = NoFile
  BY <1>5, <1>6
<1>8. ASSUME NEW v \in Users \ {u}
      PROVE  /\ up'[v] = up[v]
             /\ down'[v] = IF v \in connected THEN Append(down[v], LockSync(tree')) ELSE down[v]
             /\ ViewKept(v)
  <2>1. ViewKept(v) /\ up'[v] = up[v]
    BY <1>5, <1>6 DEF ViewKept
  <2>2. down'[v] = IF v \in connected THEN Append(down[v], LockSync(tree')) ELSE down[v]
    BY <1>5
  <2> QED
    BY <2>1, <2>2
<1>9. u \in connected /\ connected' = connected \ {u} /\ UNCHANGED docs
  BY <1>5
<1>10. NoSharers'
  BY <1>3 DEF NoSharers
<1> QED
  BY <1>3, <1>4, <1>7, <1>8, <1>9, <1>10 DEF Closed

\* The first message that arrives is written into the editor.
Written(u) ==
  LET m == Head(down[u])
  IN  \/ Is(m, "FILE_CONTENT", activeFile[u])
      \/ m.type = "DELTA" /\ Applies(u, m)

\* A message has arrived at u.
Arrived(u) ==
  LET m == Head(down[u])
  IN  /\ u \in connected
      /\ down[u] # <<>> /\ down'[u] = Tail(down[u])
      /\ \A v \in Users \ {u} : down'[v] = down[v] /\ ViewKept(v)
      /\ UNCHANGED <<tree, docs, connected, up, activeFile>>
      /\ activeLocks'[u] = IF m.type = "LOCK_SYNC" THEN m.active_locks ELSE activeLocks[u]
      /\ buffer'[u] = IF Written(u) THEN m.full_text ELSE buffer[u]
      /\ shown'[u] = IF Written(u) THEN activeFile[u] ELSE shown[u]

\* What a tab does with the message that arrives.
LEMMA ReceiveOutcome ==
  ASSUME IInv, NEW u \in Users, Receive(u)
  PROVE  Arrived(u)
<1> DEFINE m == Head(down[u])
<1> USE DEF Arrives, server, editor, ViewKept
<1>1. PICK ty : Arrives(u, ty)
  BY DEF Receive, LockSyncArrives, FileContentArrives, DeltaArrives, StateRevertArrives
<1>2. /\ down \in [Users -> Seq(ToClient)] /\ activeLocks \in [Users -> LockTable]
      /\ buffer \in [Users -> Texts] /\ shown \in [Users -> Files \cup {NoFile}]
      /\ u \in connected
  BY <1>1 DEF IInv, TypeOK, Gone
<1>3. /\ down[u] # <<>> /\ down'[u] = Tail(down[u])
      /\ \A v \in Users \ {u} : down'[v] = down[v]
      /\ UNCHANGED <<tree, docs, connected, up, activeFile>>
  BY <1>1, <1>2
<1>4. CASE LockSyncArrives(u)
  <2>1. ~Written(u) /\ m.type = "LOCK_SYNC"
    BY <1>4 DEF LockSyncArrives, Written, Is
  <2> QED
    BY <1>2, <1>3, <1>4, <2>1 DEF LockSyncArrives, Arrived
<1>5. CASE FileContentArrives(u)
  <2>1. Written(u) <=> m.file_path = activeFile[u]
    BY <1>5 DEF FileContentArrives, Written, Is
  <2>2. m.type = "FILE_CONTENT" /\ UNCHANGED activeLocks
    BY <1>5 DEF FileContentArrives
  <2>3. /\ buffer' = IF Written(u) THEN [buffer EXCEPT ![u] = m.full_text] ELSE buffer
        /\ shown' = IF Written(u) THEN [shown EXCEPT ![u] = activeFile[u]] ELSE shown
    BY <1>5, <2>1 DEF FileContentArrives, WriteEditor
  <2> QED
    BY <1>2, <1>3, <2>2, <2>3 DEF Arrived
<1>6. CASE DeltaArrives(u)
  <2>1. Written(u) <=> Applies(u, m)
    BY <1>6 DEF DeltaArrives, Written, Is
  <2>2. m.type = "DELTA" /\ UNCHANGED activeLocks
    BY <1>6 DEF DeltaArrives
  <2>3. /\ buffer' = IF Written(u) THEN [buffer EXCEPT ![u] = m.full_text] ELSE buffer
        /\ shown' = IF Written(u) THEN [shown EXCEPT ![u] = activeFile[u]] ELSE shown
    BY <1>6, <2>1 DEF DeltaArrives, WriteEditor
  <2> QED
    BY <1>2, <1>3, <2>2, <2>3 DEF Arrived
<1>7. CASE StateRevertArrives(u)
  <2>1. ~Written(u) /\ m.type = "STATE_REVERT"
    BY <1>7 DEF StateRevertArrives, Written, Is
  <2> QED
    BY <1>2, <1>3, <1>7, <2>1 DEF StateRevertArrives, Arrived
<1> QED
  BY <1>4, <1>5, <1>6, <1>7 DEF Receive

------------------------------------------------------------------------------
(* No edit arrives before its tab has been told *)

TabTold(u, f) == Told(down[u], activeLocks[u][f], u, f, Owner(f, u))
TabsTold == \A u \in Users, f \in Files : TabTold(u, f)

\* An owner is connected.
LEMMA OwnerConnected ==
  ASSUME OwnersAreConnected, NEW u \in Users, NEW f \in Files, Owner(f, u)
  PROVE  u \in connected
<1>1. f \in hdlm!Targets
  BY FilesAssumption DEF hdlm!Targets, hdlm!Root
<1> QED
  BY <1>1 DEF OwnersAreConnected, hdlm!HeldBy, hdlm!Holds, Owner, hdlm!IsExclusiveOwner

\* A tab whose channel and view stay, and whose ownership does too.
LEMMA TabToldStays ==
  ASSUME NEW u, NEW f, TabTold(u, f), down'[u] = down[u], activeLocks'[u] = activeLocks[u],
         hdlm!IsExclusiveOwner(tree', f, u) <=> Owner(f, u)
  PROVE  TabTold(u, f)'
<1>1. Owner(f, u)' <=> hdlm!IsExclusiveOwner(tree', f, u)
  BY DEF Owner, hdlm!IsExclusiveOwner
<1>2. Told(down[u], activeLocks[u][f], u, f, hdlm!IsExclusiveOwner(tree', f, u))
  BY DEF TabTold, Told, Believes
<1> QED
  BY <1>2 DEF TabTold, Owner

\* A tab that is told the new locks, or is not connected and gains nothing.
LEMMA TabToldAnnounced ==
  ASSUME IInv, OwnersAreConnected, NEW u \in Users, NEW f \in Files, TabTold(u, f),
         TreeOK(tree'), NoSharersIn(tree'), activeLocks'[u] = activeLocks[u],
         down'[u] = IF u \in connected THEN Append(down[u], LockSync(tree')) ELSE down[u],
         u \notin connected => ~hdlm!IsExclusiveOwner(tree', f, u)
  PROVE  TabTold(u, f)'
<1> DEFINE m == LockSync(tree')
           now == hdlm!IsExclusiveOwner(tree', f, u)
<1>1. CASE u \in connected
  <2>1. m \in ToClient /\ m.type = "LOCK_SYNC" /\ m.active_locks = hdlm!ActiveLocks(tree')
    BY ToClientTyped DEF LockSync
  <2>2. m.active_locks[f] = {u} <=> now
    BY <2>1, ShownOwner
  <2>3. down[u] \in Seq(ToClient) /\ Owner(f, u) \in BOOLEAN /\ now \in BOOLEAN
    BY DEF IInv, TypeOK, Owner, hdlm!IsExclusiveOwner
  <2>4. Told(down[u], activeLocks[u][f], u, f, Owner(f, u))
    BY DEF TabTold
  <2> HIDE DEF m, now
  <2>5. Told(Append(down[u], m), activeLocks[u][f], u, f, now)
    BY <2>1, <2>2, <2>3, <2>4, ToldWithLocks
  <2>6. down'[u] = Append(down[u], m)
    BY <1>1 DEF m
  <2>7. Told(down'[u], activeLocks'[u][f], u, f, now)
    BY <2>5, <2>6
  <2> QED
    BY <2>7 DEF TabTold, Owner, now
<1>2. CASE u \notin connected
  BY <1>2, OwnerConnected, TabToldStays
<1> QED
  BY <1>1, <1>2

\* A tab to which another message is sent.
LEMMA TabToldMore ==
  ASSUME IInv, NEW u \in Users, NEW f \in Files, TabTold(u, f), NEW m \in ToClient,
         m.type # "LOCK_SYNC", Is(m, "DELTA", f) => m.client_id # u /\ ~Owner(f, u),
         down'[u] = Append(down[u], m), UNCHANGED tree, activeLocks'[u] = activeLocks[u]
  PROVE  TabTold(u, f)'
<1> DEFINE own == Owner(f, u)
<1>1. down[u] \in Seq(ToClient) /\ own \in BOOLEAN
  BY DEF IInv, TypeOK, Owner, hdlm!IsExclusiveOwner
<1>2. Told(down[u], activeLocks[u][f], u, f, own)
  BY DEF TabTold
<1>3. Told(Append(down[u], m), activeLocks[u][f], u, f, own)
  <2>1. CASE ~Is(m, "DELTA", f)
    <3> HIDE DEF own
    <3> QED
      BY <1>1, <1>2, <2>1, ToldWithOther
  <2>2. CASE Is(m, "DELTA", f)
    <3>1. own = FALSE /\ m.client_id # u
      BY <2>2
    <3> HIDE DEF own
    <3>2. Told(down[u], activeLocks[u][f], u, f, FALSE)
      BY <1>2, <3>1
    <3>3. Told(Append(down[u], m), activeLocks[u][f], u, f, FALSE)
      BY <1>1, <2>2, <3>1, <3>2, ToldWithEdit
    <3> QED
      BY <3>1, <3>3
  <2> QED
    BY <2>1, <2>2
<1> QED
  BY <1>3 DEF TabTold, Owner

\* Whatever the server does with a message of w.
LEMMA TabsToldHandle ==
  ASSUME IInv, OwnersAreConnected, NoSharers, TabsTold, NEW w \in Users, Handle(w)
  PROVE  TabsTold' /\ NoSharers'
<1>1. Handled(w) /\ NoSharers'
  BY HandleOutcome
<1>2. IInv'
  BY HandleTyped
<1>3. TreeOK(tree') /\ NoSharersIn(tree')
  BY <1>1, <1>2 DEF IInv, NoSharers
<1> SUFFICES ASSUME NEW u \in Users, NEW g \in Files PROVE TabTold(u, g)'
  BY <1>1 DEF TabsTold
<1>4. TabTold(u, g) /\ activeLocks'[u] = activeLocks[u]
  BY <1>1 DEF TabsTold, Handled
<1>5. UNCHANGED tree => (hdlm!IsExclusiveOwner(tree', g, u) <=> Owner(g, u))
  BY DEF Owner, hdlm!IsExclusiveOwner
<1>6. CASE Unheard(w)
  BY <1>4, <1>5, <1>6, TabToldStays DEF Unheard
<1>7. ASSUME Sent(connected, LockSync(tree')),
             u \notin connected => ~hdlm!IsExclusiveOwner(tree', g, u)
      PROVE  TabTold(u, g)'
  <2>1. down'[u] = IF u \in connected THEN Append(down[u], LockSync(tree')) ELSE down[u]
    BY <1>7 DEF Sent
  <2> QED
    BY <1>3, <1>4, <1>7, <2>1, TabToldAnnounced
<1>8. g \in Nodes
  BY FilesAssumption
<1>9. Owner(g, u) => u \in connected
  BY OwnerConnected
<1>10. CASE Lost(w)
  BY <1>7, <1>8, <1>9, <1>10 DEF Lost, GainsNone, Owner
<1>11. ASSUME NEW f \in Files, Seized(w, f) PROVE TabTold(u, g)'
  BY <1>1, <1>7, <1>8, <1>9, <1>11 DEF Seized, GainsOnly, Owner, Handled
<1>12. ASSUME NEW S, NEW m \in ToClient, Sent(S, m), UNCHANGED tree, m.type # "LOCK_SYNC",
              u \in S /\ Is(m, "DELTA", g) => m.client_id # u /\ ~Owner(g, u)
       PROVE  TabTold(u, g)'
  <2>1. CASE u \in S
    <3>1. down'[u] = Append(down[u], m)
      BY <1>12, <2>1 DEF Sent
    <3> QED
      BY <1>4, <1>12, <2>1, <3>1, TabToldMore
  <2>2. CASE u \notin S
    <3>1. down'[u] = down[u]
      BY <1>12, <2>2 DEF Sent
    <3> QED
      BY <1>4, <1>5, <1>12, <3>1, TabToldStays
  <2> QED
    BY <2>1, <2>2
<1>13. docs \in [Files -> Texts] /\ up \in [Users -> Seq(ToServer)]
  BY DEF IInv, TypeOK
<1>14. ASSUME NEW f \in Files, Reverted(w, f) PROVE TabTold(u, g)'
  <2> DEFINE m == TextMsg("STATE_REVERT", f, docs[f])
  <2>1. m \in ToClient /\ m.type = "STATE_REVERT" /\ Sent({w}, m) /\ UNCHANGED tree
    BY <1>13, <1>14, ToClientTyped DEF TextMsg, Reverted
  <2> HIDE DEF m
  <2> QED
    BY <1>12, <2>1 DEF Is
<1>15. ASSUME NEW f \in Files, Loaded(w, f) PROVE TabTold(u, g)'
  <2> DEFINE m == TextMsg("FILE_CONTENT", f, docs[f])
  <2>1. m \in ToClient /\ m.type = "FILE_CONTENT" /\ Sent({w}, m) /\ UNCHANGED tree
    BY <1>13, <1>15, ToClientTyped DEF TextMsg, Loaded
  <2> HIDE DEF m
  <2> QED
    BY <1>12, <2>1 DEF Is
<1>16. ASSUME NEW f \in Files, Accepted(w, f) PROVE TabTold(u, g)'
  <2> DEFINE m == Edit(f, Head(up[w]).full_text, w)
  <2>1. Head(up[w]).full_text \in Texts
    <3>1. Head(up[w]) \in ToServer
      BY <1>1, <1>13, OneLess DEF Handled
    <3> QED
      BY <1>16, <3>1, FromTab DEF Accepted, Is
  <2>2. m \in ToClient
    BY <2>1, ToClientTyped DEF Edit
  <2>3. m.type = "DELTA" /\ m.client_id = w /\ m.file_path = f
    BY DEF Edit
  <2>4. Sent(connected \ {w}, m) /\ UNCHANGED tree /\ Owner(f, w)
    BY <1>16 DEF Accepted
  <2> HIDE DEF m
  <2>5. w # u => ~Owner(f, u)
    BY <2>4 DEF Owner, hdlm!IsExclusiveOwner
  <2>6. u \in connected \ {w} /\ Is(m, "DELTA", g) => m.client_id # u /\ ~Owner(g, u)
    BY <2>3, <2>5 DEF Is
  <2>7. m.type # "LOCK_SYNC"
    BY <2>3
  <2> QED
    BY <1>12, <2>2, <2>4, <2>6, <2>7
<1> QED
  BY <1>1, <1>6, <1>10, <1>11, <1>14, <1>15, <1>16, HandleOutcome

\* Whatever connection ends.
LEMMA TabsToldClose ==
  ASSUME IInv, OwnersAreConnected, NoSharers, TabsTold, NEW w \in Users, Close(w)
  PROVE  TabsTold' /\ NoSharers'
<1>1. Closed(w) /\ NoSharers'
  BY CloseOutcome
<1>2. TreeOK(tree') /\ NoSharersIn(tree')
  BY <1>1, CloseTyped DEF IInv, NoSharers
<1> SUFFICES ASSUME NEW u \in Users, NEW g \in Files PROVE TabTold(u, g)'
  BY <1>1 DEF TabsTold
<1>3. TabTold(u, g) /\ g \in Nodes
  BY FilesAssumption DEF TabsTold
<1>4. CASE u # w
  <2>1. Owner(g, u) => u \in connected
    BY OwnerConnected
  <2>2. u \notin connected => ~hdlm!IsExclusiveOwner(tree', g, u)
    BY <1>1, <1>3, <2>1 DEF Closed, GainsNone, Owner
  <2>3. /\ activeLocks'[u] = activeLocks[u]
        /\ down'[u] = IF u \in connected THEN Append(down[u], LockSync(tree')) ELSE down[u]
    BY <1>1, <1>4 DEF Closed, ViewKept
  <2> QED
    BY <1>2, <1>3, <2>2, <2>3, TabToldAnnounced
<1>5. CASE u = w
  <2>1. down'[u] = <<>> /\ activeLocks'[u] = NoLocks /\ ~hdlm!IsExclusiveOwner(tree', g, u)
    BY <1>1, <1>5 DEF Closed
  <2>2. NoLocks[g] # {u}
    BY FilesAssumption DEF NoLocks, hdlm!Targets, hdlm!Root
  <2>3. Told(<<>>, NoLocks[g], u, g, FALSE)
    BY <2>2, ToldNothing
  <2>4. hdlm!IsExclusiveOwner(tree', g, u) = FALSE
    BY <2>1 DEF hdlm!IsExclusiveOwner
  <2>5. Told(down'[u], activeLocks'[u][g], u, g, hdlm!IsExclusiveOwner(tree', g, u))
    BY <2>1, <2>3, <2>4
  <2> QED
    BY <2>5 DEF TabTold, Owner
<1> QED
  BY <1>4, <1>5

\* Whatever arrives at a tab.
LEMMA TabsToldReceive ==
  ASSUME IInv, NoSharers, TabsTold, NEW w \in Users, Receive(w)
  PROVE  TabsTold' /\ NoSharers'
<1>1. Arrived(w)
  BY ReceiveOutcome
<1>2. NoSharers' /\ UNCHANGED tree
  BY <1>1 DEF Arrived, NoSharers, NoSharersIn
<1> SUFFICES ASSUME NEW u \in Users, NEW g \in Files PROVE TabTold(u, g)'
  BY <1>2 DEF TabsTold
<1>3. TabTold(u, g)
  BY DEF TabsTold
<1>4. hdlm!IsExclusiveOwner(tree', g, u) <=> Owner(g, u)
  BY <1>2 DEF Owner, hdlm!IsExclusiveOwner
<1>5. CASE u # w
  BY <1>1, <1>3, <1>4, <1>5, TabToldStays DEF Arrived, ViewKept
<1>6. CASE u = w
  <2> DEFINE m == Head(down[u])
             k == IF m.type = "LOCK_SYNC" THEN m.active_locks[g] ELSE activeLocks[u][g]
  <2>1. down[u] \in Seq(ToClient) /\ down[u] # <<>> /\ Owner(g, u) \in BOOLEAN
    BY <1>1, <1>6 DEF IInv, TypeOK, Owner, hdlm!IsExclusiveOwner, Arrived
  <2>2. Told(down[u], activeLocks[u][g], u, g, Owner(g, u))
    BY <1>3 DEF TabTold
  <2>3. Told(Tail(down[u]), k, u, g, Owner(g, u))
    BY <2>1, <2>2, ToldLater
  <2>4. activeLocks'[u][g] = k /\ down'[u] = Tail(down[u])
    BY <1>1, <1>6 DEF Arrived
  <2> HIDE DEF k
  <2>5. Told(down'[u], activeLocks'[u][g], u, g, Owner(g, u))
    BY <2>3, <2>4
  <2> QED
    BY <1>2, <2>5 DEF TabTold, Owner, hdlm!IsExclusiveOwner
<1> QED
  BY <1>5, <1>6

\* A step that changes neither the locks, nor what is sent, nor what is shown.
LEMMA TabsToldStay ==
  ASSUME NoSharers, TabsTold, UNCHANGED <<tree, down, activeLocks>>
  PROVE  TabsTold' /\ NoSharers'
<1>1. NoSharers'
  BY DEF NoSharers, NoSharersIn
<1>2. ASSUME NEW u \in Users, NEW g \in Files PROVE TabTold(u, g)'
  <2>1. TabTold(u, g) /\ (hdlm!IsExclusiveOwner(tree', g, u) <=> Owner(g, u))
    BY DEF TabsTold, Owner, hdlm!IsExclusiveOwner
  <2> QED
    BY <2>1, TabToldStays
<1> QED
  BY <1>1, <1>2 DEF TabsTold

\* What the user of a tab does.
LEMMA InputKeeps ==
  ASSUME NEW u, UserInput(u)
  PROVE  UNCHANGED <<tree, docs, connected, down, activeLocks, synced>>
  BY DEF UserInput, OpenFile, CreateFile, DeleteFile, PressAcquire, PressRelease, Type,
         Input, server

\* Every step keeps the tabs told.
LEMMA TabsToldStep ==
  ASSUME IInv, OwnersAreConnected, NoSharers, TabsTold, [Next]_vars
  PROVE  TabsTold' /\ NoSharers'
<1>1. ASSUME NEW u \in Users, Connect(u) PROVE TabsTold' /\ NoSharers'
  BY <1>1, TabsToldStay DEF Connect, server, client
<1>2. ASSUME NEW u \in Users, RemoteUpdateDone(u) PROVE TabsTold' /\ NoSharers'
  BY <1>2, TabsToldStay DEF RemoteUpdateDone, server
<1>3. ASSUME NEW u \in Users, UserInput(u) PROVE TabsTold' /\ NoSharers'
  BY <1>3, InputKeeps, TabsToldStay
<1>4. CASE UNCHANGED vars
  BY <1>4, TabsToldStay DEF vars, server, client
<1> QED
  BY <1>1, <1>2, <1>3, <1>4, TabsToldHandle, TabsToldClose, TabsToldReceive DEF Next

\* Nobody owns anything at first, or believes to.
LEMMA TabsToldInit == Init => TabsTold /\ NoSharers
<1> SUFFICES ASSUME Init PROVE TabsTold /\ NoSharers
  OBVIOUS
<1>1. \A p \in Nodes : tree[p] = hdlm!FreshNode
  BY DEF Init, hdlm!Init
<1>2. NoSharers /\ \A f \in Files, u \in Users : ~Owner(f, u)
  BY <1>1, FilesAssumption
     DEF NoSharers, NoSharersIn, Owner, hdlm!IsExclusiveOwner, hdlm!FreshNode
<1>3. ASSUME NEW u \in Users, NEW f \in Files PROVE TabTold(u, f)
  <2>1. down[u] = <<>> /\ activeLocks[u] = NoLocks
    BY DEF Init
  <2>2. NoLocks[f] # {u}
    BY FilesAssumption DEF NoLocks, hdlm!Targets, hdlm!Root
  <2>3. Owner(f, u) = FALSE
    BY <1>2 DEF Owner, hdlm!IsExclusiveOwner
  <2>4. Told(down[u], activeLocks[u][f], u, f, FALSE)
    BY <2>1, <2>2, ToldNothing
  <2> QED
    BY <2>3, <2>4 DEF TabTold
<1> QED
  BY <1>2, <1>3 DEF TabsTold

\* Every tab ends up right about its locks, and is told that a lock is not its own
\* before any edit made under another's lock reaches it; nobody ever shares a lock.
THEOREM BeliefsHold == Spec => [](IInv /\ OwnersAreConnected /\ NoSharers /\ TabsTold)
<1>1. ASSUME IInv, OwnersAreConnected, NoSharers /\ TabsTold, [Next]_vars
      PROVE  (NoSharers /\ TabsTold)'
  BY <1>1, TabsToldStep
<1> QED
  BY <1>1, TabsToldInit, IInvHolds, LocksDieWithConnections, PTL DEF Spec

\* A tab never drops another user's accepted edit because it believes to have the
\* lock: when the edit arrives it has been told that the lock is not its own, for
\* any number of tabs, messages under way and hand-overs.
THEOREM OwnersAreTold == Spec => OwnersAreToldBeforeEdits
<1> DEFINE A == \A u \in Users :
                  DeltaArrives(u) => activeLocks[u][Head(down[u]).file_path] # {u}
<1>1. ASSUME IInv, TabsTold, NEW u \in Users, DeltaArrives(u)
      PROVE  activeLocks[u][Head(down[u]).file_path] # {u}
  <2> DEFINE m == Head(down[u])
             f == m.file_path
  <2>1. down[u] \in Seq(ToClient) /\ down[u] # <<>> /\ m.type = "DELTA"
    BY <1>1 DEF IInv, TypeOK, DeltaArrives, Arrives
  <2>2. m \in ToClient /\ m = down[u][1] /\ 1 \in 1..Len(down[u])
    BY <2>1
  <2>3. f \in Files
    BY <2>1, <2>2, FromServer
  <2>4. Is(down[u][1], "DELTA", f)
    BY <2>1, <2>2 DEF Is
  <2>5. Told(down[u], activeLocks[u][f], u, f, Owner(f, u))
    BY <1>1, <2>3 DEF TabsTold, TabTold
  <2> HIDE DEF f
  <2>6. Believes(down[u], activeLocks[u][f], u, f, 1, FALSE)
    BY <2>2, <2>4, <2>5 DEF Told
  <2>7. activeLocks[u][f] = {u} <=> FALSE
    BY <2>6, BelievesAtFirst
  <2> QED
    BY <2>7 DEF f
<1>2. IInv /\ TabsTold => A
  BY <1>1
<1> HIDE DEF A
<1>3. Spec => [][A]_vars
  BY <1>2, BeliefsHold, PTL DEF Spec
<1> QED
  BY <1>3 DEF OwnersAreToldBeforeEdits, A

=============================================================================
