# DistW in TLA+

DistW is a collaborative code editor: one C++ server process that keeps the
documents and a tree of locks, and browser tabs that show and edit the files
over WebSockets. This directory holds its specifications, their TLC
configurations and the proofs about them. Paths below are relative to the root
of the repository.

## 1. The system

### Parts, their state and their operations

| part | state | operations | what makes it correct |
|---|---|---|---|
| `HierarchicalLockTree` over `LockNode` (`include/HierarchicalLockTree.hpp`, `src/HierarchicalLockTree.cpp`, `include/LockNode.hpp`) | a trie of nodes: mode, exclusive owner, shared owners, queue, count of queued writers, count of locks beneath | `acquire_single_lock` (queue, preempt, grant), `release_lock` (free, hand over, unwind), `release_all_locks_for_user`, `prune_path`, `is_exclusive_owner`, `get_all_active_locks`, `acquire_locks_atomically` | the fields of a node agree; waiters are neither lost nor overtaken; disconnecting frees everything; a lock on a directory covers what is below |
| `WebSocketRouter` (`include/WebSocketRouter.hpp`) | the connections | open, close, one route per message type; answers and broadcasts | every change of the locks is announced; nothing is handled for a closed connection |
| `DeltaEngine`, `TextDocument` | the text of every file, in memory | `force_state` behind the ownership check, `generate_full_sync`, line operations | only the owner replaces a text; an accepted edit is not lost |
| `FileSystemManager` | the workspace directory | `create_file`, `delete_file`, `get_file_tree` | files are never overwritten; deletion takes the locks with it |
| browser: `useSocketStore`, `EditorWorkspace`, `FileExplorer` (`distw-ui/src`) | lock table, active file, editor buffer, the `isRemoteUpdate` window | open, create, delete, lock, release, type; arrival of each message | a tab shows what the server accepted; the writer's buffer is its own |
| `SessionManager`, `ReaperEngine` | sessions with their last activity; a background thread | create, cull; sweep, stop | no session outlives the timeout; the thread stops before what it works on goes |
| `AdminWarmPool` | three files in `/tmp`, the same for everybody; child processes | compile and run a program | everybody is answered the output of the own program; the event loop goes on afterwards |
| `main.cpp` | the parts and their order | start, serve, return | whatever moment the process ends at, it ends in order and starts again |
| edge worker (`edge_main.cpp`, `LocalGateway`, `StateMirror`, `LocalExecutionEngine`) | a mirror of the files | stubs | - |

### How they interact

`main.cpp` builds the server's parts and enters the event loop of uWebSockets.
All routes run on that one thread, so a message is handled to its end, with
every call it makes, before the next one is looked at. The only other thread of
the server is the reaper's, which touches sessions only. The router calls the
lock tree for lock messages, the delta engine (which asks the lock tree who the
owner is) for text, and the file system for files. It answers to the sender,
publishes to the other subscribers of the session, or both. A WebSocket keeps
the order of its messages in each direction; nothing relates the order of two
sockets. In the browser the store's `onmessage` updates the lock table and
raises DOM events that the editor handles.

### What is hard

* Locks move by five different routes (request, release, disconnect, deletion,
  preemption), each of which updates several fields of several nodes.
* The queues are served only at particular moments; whoever is not served then
  waits for another such moment.
* Between what a tab believes about a lock and what the server knows lie two
  message queues. Text typed under a lock can be handled under another; content
  asked for before a lock can arrive after it.
* Tabs vanish at any moment, with messages and queued requests of theirs
  behind them.
* The lock tree is written for threads: each node has a mutex, some paths through
  the code keep one while they take another, in two different orders, and nodes
  are deleted while other threads hold pointers to them.
* The reaper's thread sleeps in a timed wait, is told to stop without its
  mutex, and uses members that are destroyed around it.
* Operations on the workspace fail half way and are answered as if nothing
  had happened.
* Programs are compiled and run by child processes, in files that are the same for
  everybody. They outlive a server that is killed, and go on beside the next.

`PROJECT.json` lists the hazards one by one, each at its line, with the
properties that watch it or the reason why none does yet.

## 2. The modules

    RWLocks <--refined by-- LockTree     <-- MCLockTree
                            LockTree     <-- LockTreeProofs

    RWLocks <--refined by-- LockThreads  <-- MCLockThreads
    LockTree <--INSTANCE--- LockThreads  <-- LockThreadsProofs
    LockTreeProofs <--INSTANCE-------------- LockThreadsProofs

    LockTree <--INSTANCE--- Collab       <-- MCCollab
                            Collab       <-- CollabProofs <-- CollabTextProofs
                                                              <-- CollabUpdateProofs

    FlatText <--refined by-- Documents   <-- MCDocuments
                             Documents   <-- DocumentsProofs

    Reaper, WarmPool, Workspace <--EXTENDS-- Server <-- MCServer
                                                ^
                                                '------ ServerProofs

* **`RWLocks`** - the abstract specification: what the lock manager promises of
  every file or folder by itself, a readers-writer lock that only its holder
  gives up, that an administrator may seize, and that deletion destroys.
* **`LockTree`** - the lock manager. `tree` maps every path to its `LockNode`.
  `Acquire` has one action per answer of `acquire_single_lock`
  (`AcquireQueuedAtParent`, `AcquireByPreemption`, `AcquireQueuedAtTarget`,
  `AcquireGranted`); `Release`, `ReleaseAll` and `Prune` are `release_lock`,
  `release_all_locks_for_user` and `prune_path`. The steps of each function on a
  single node are operators of their own (`Enqueue`, `Grant`, `Preempt`,
  `SetIntent`, `Freed`, `Promote`, `Unwind`), which is what the proofs are
  organised by. `Obstructs` and `Inspected` are the check of the descent, with
  the range the loop really has. A node that does not exist yet is `FreshNode`;
  no operation of the code tells the two apart.
* **`Collab`** - the deployed system: the server with one action per route and
  outcome, and the tabs with one action per input and per arriving message, over
  FIFO channels `up[u]` and `down[u]`. It uses the operators of `LockTree`
  through `hdlm == INSTANCE LockTree WITH Admins <- Users`, because
  `WebSocketRouter.hpp:74` makes every connection an administrator.
  `shown`, `synced` and `clicks` are auxiliary: the file whose text is in the
  editor, the tabs that have had a lock table, the number of inputs.
* **`LockThreads`** - the lock manager called by several threads. `node`, `kids` and
  `made` are the trie, whose nodes are objects that go on existing for whoever
  has reached them after `prune_path` has taken them out; `th[t]` is where thread
  `t` is, with its `traversal_path`. A critical section under a single mutex is
  one step (`Descend`, `TakeQueued`, `Find`, `Free`, `Cut`); the mutexes that are
  kept while others are taken are `writer` (the target's, from `TakeGranted` to
  the last `Ascend`) and `sharers` (those above a walk, `WalkDown` to `WalkUp`, and
  the parent's in `Verify` and `Inspect`). The batch operation is `Verify` and
  `Inspect` for every path, then an acquisition for every path. What is done to a node is
  said by the operators of `LockTree` (`hdlm!Enqueue`, `hdlm!Grant`,
  `hdlm!ReleaseNode` and so on), through an INSTANCE that maps the tree to the nodes
  that can be found now (`NodeAt`).
* **`FlatText`** - the abstract specification of the documents: one sequence of
  characters per file, changed at a row and column as an editor means it.
* **`Documents`** - `DeltaEngine` over `TextDocument`: a document is its vector of
  lines; `insert_text`, `delete_text`, `insert_newline`, `set_full_text` and
  `get_full_text` are operators of these names. `FlatText` is implemented under the
  mapping that reads every document with `get_full_text`.
* **`Reaper`** - `SessionManager` and the thread of `ReaperEngine`, with a clock. The
  places of the thread (`test`, `resting`, `asleep`, `sweep`) split the timed wait
  where a notification can be lost: between its predicate and its block.
* **`WarmPool`** - `AdminWarmPool::execute_code` step by step over its three files, and
  the compilers that killed servers have left behind (`strays`): one reads its source
  (`StrayReads`) and replaces the program or fails (`StrayEnds`) whenever it comes to it.
* **`Workspace`** - `FileSystemManager` as a set of folders and a set of files, with
  the effects of operations that fail.
* **`Server`** - composes these three: `main()`, the event loop with the routes that
  concern them, and the tabs. Its actions add to an action of a component what the
  route around it sends. `Kill` ends the process at any moment, and may leave the compiler
  it was waiting for at work (`LeavesCompiler`); `Start` makes a new one that finds the old
  files, and `StraysGoOn` are the compilers beside it. On the way out of `main()` the
  reaper's thread is waited for (`Join`), and the process ends in a step after it
  (`Return`). `outdated` and `overtaken` are auxiliary: the tabs that a failure has left
  untold, and those whose program a stray compiler has replaced before it was loaded.
* **`MCLockTree`, `MCLockThreads`, `MCCollab`, `MCDocuments`, `MCServer`** - the
  small instances for TLC.
* **`Induction`** - induction over the natural numbers in the form the prover can use,
  stated of a set of numbers; what a fold of the library comes to step by step
  (`FoldExists`, `FoldRuns`); flattening and splitting of sequences. `LockTreeProofs`,
  `LockThreadsProofs` and `DocumentsProofs` use it.
* **`LockTreeProofs`** - the theorems about `LockTree`: its inductive invariant, what
  follows from it about single steps (waiting order, disconnection, the
  refinement of `RWLocks`), and the order of a disconnection's releases.
* **`DocumentsProofs`** - the theorems about `Documents`: its types, reloading, the
  line operations and the refinement of `FlatText`.
* **`CollabProofs`** - `Collab`'s types, connected owners and lock views, and what a
  tab believes about its own locks;
  **`CollabTextProofs`** - what messages and texts of one tab must agree on, as
  lemmas about sequences of messages; **`CollabUpdateProofs`** - that every step keeps
  it, and the two theorems about texts.
* **`LockThreadsProofs`** - the theorems about `LockThreads`, its deadlocks among them;
  what an operation does to one node is taken from `LockTreeProofs`.
* **`ServerProofs`** - the theorems about `Server` and the three parts it composes.

### What is abstracted

A path is the sequence of its segments (what `tokenize_path` returns). A text is
the sequence of the edits in it, one new edit per keystroke, appended; this is
what losing an edit can be told from. Where in the text an edit goes, the line
endings that `TextDocument` normalises and the `changes` array of a DELTA (the
receiver ends with `full_text` whether or not the ranges fit) are left out. So
are messages that change none of the state of `Collab`: LOCK_RESPONSE (which no
browser reads), cursors, and the file tree and program runs, which `Server`
has. A Close takes the tab
with it: the store has no reconnect, and a tab that stays open without a socket
sends and receives nothing.

`Server` in turn leaves out locks and texts: the two share nothing but the set of
existing files, which `FILE_DELETE` looks at before it prunes locks.

In `Documents` a character is CR, LF or a letter; in `WarmPool` a program or an
input is known by the user who sent it, and what a program prints by whose
program ran on whose input; in `Reaper` a time is a number of ticks. A compiler
reads its source at one moment and writes the program at another, whole; a program that
is run writes to none of the three files.

The threads of `LockThreads` may wait for a mutex in any order; that some
implementations of `std::shared_mutex` refuse new readers while a writer waits is
left out, so blockings that need it would not be found. A
thread makes the calls of one user of its own. `is_exclusive_owner` is
left out: it reads one node at a time and keeps no mutex. A node lives on as long as
anybody refers to it; in the code `current = it->second` (`HierarchicalLockTree.hpp:105`,
`HierarchicalLockTree.cpp:148`) gives up the pointer a thread has reached a node by,
possibly the last one to a node pruned meanwhile, while the guard that is to unlock its
mutex still exists. The life of nodes is not followed.

The line operations of `Documents` are what `process_delta` offers: the router never calls
it, so the deployed server only sets and reads whole texts.

`active_locks_beneath` is a C++ `int` that only ever goes down and is only ever
compared with zero: it is not followed below `-MaxUnwind`.

### Mutants

An operator preceded by "Mutant:" is a wrong version of the definition after
it, the way a plausible slip in the code would make it. The specification never
uses it; it exists to show that a property can fail (`PROJECT.json`, "mutants").

## 3. The runs

| run | instance | what it asks |
|---|---|---|
| `lock_tree` | chain `a/b/c`, two users and an administrator, queues of one | type invariant; fields of a node agree; writers are counted exactly; nobody waits at a free node; the order of the releases of a disconnect does not matter; a disconnected user keeps nothing but a promotion; writers are not overtaken; `LockTree` implements `RWLocks` |
| `lock_service` | one file, three users, queue of three, `FairSpec` | waiters are served in order; a waiting writer gets the file; a waiting reader gets it unless others are let past it for ever |
| `lock_threads` | chain `a/b/c`, a plain thread and an administrator's, three calls of any operation, two nodes made per path, fair threads | a granted lock is still there when the call answers; threads block each other only in an acquisition under a walk; every call that is not behind such a block returns; each path remains a lock of `RWLocks`, though nodes are deleted under the threads |
| `batch_partly` | two files, two threads, a batch and a plain call | *violated*: a batch is answered as acquired of which another thread holds a part |
| `subtree_exclusion` | chain `a/b`, two users | *violated*: a directory and a file in it locked by different users |
| `idle_waiters` | chain `a/b`, two users | *violated*: somebody waits though nobody holds anything |
| `collab` | two tabs, one file, five inputs, five messages under way | owners are connected; lock views converge; no accepted edit is dropped; a tab that has lost its lock knows when the new owner's edits arrive; settled tabs show every accepted edit |
| `collab_files` | two tabs, a file in a folder and one beside it, four inputs, three messages | the same two convergence properties with switching, creating and deleting |
| `documents` | one file, texts of up to three characters out of letter, CR and LF, positions from -1 to 2, documents of up to five characters | a reloaded text keeps its lines; line operations are the edits the browser means; `Documents` implements `FlatText` |
| `server` | two tabs, a folder and a file in it, two inputs, one session, restarts without bound, `FairSpec` | file trees converge; nobody is answered another one's output, unless a compiler that outlived its server ends at one particular moment; stale sessions go; a failed start ends; requests are handled |
| `typist_overwritten` | as `collab`, users type before the file is loaded | *violated*: a settled tab lacks an accepted edit |
| `lost_update` | as `collab`, users may ask for a lock twice | *violated*: an accepted edit is dropped |

### Bounds

* The chain of three is the shortest in which the descent inspects a lockable
  directory (`a`, for a request of `a/b/c`) and skips another (`a/b`). Three
  users are enough for a holder, a waiter and a third that might overtake.
  `MaxQueue = 1` in `lock_tree` keeps promotion at every node and level;
  `lock_service` has queues of three, so every order of readers and writers.
  A request that finds a full queue is not taken by the model at all.
* `MaxUnwind = 1`: below zero the code never tells counts apart.
* `MaxClicks` bounds the inputs of all users together, keystrokes included: five
  are two locks, a release and two edits. `MaxWire` bounds the messages on the
  wire; a step that would exceed it is postponed, so a slow receiver is still
  possible and only long pile-ups are cut off. The `collab` instance was also
  run once with six inputs and four messages, with the same result.
* `lock_threads`: two threads and three calls are what the blocking of an
  acquisition by a walk, and a deletion between two steps of another call, take
  (the first needs two calls, the second three); a path's node is made `MaxMade` times
  at most, and a call that would make another one waits. Three threads with three calls
  on `a/b`, and two threads with four calls, were run once with the same result.
* `documents`: three characters make every combination of an empty line, a CR
  before or not before an LF, and a last line with or without LF; positions reach
  one before and beyond such a text. Line operations insert text without
  LF, as an editor's line insertion does; one with LF would make a line with an
  LF in it, which the next reload splits.
* `server`: `TIMEOUT_MINUTES = 0` stands for 20 (the comparison is of whole
  minutes, so a session is stale after one) and two ticks make a minute, so that ages
  between two minutes exist. With one whole minute the run was made once, with the same
  result. Two inputs are a creation or run by each of the tabs, or two of one;
  the files in `/tmp` and in the workspace carry over restarts, and so do compilers:
  one run can be killed while it compiles and another be overtaken by its compiler.
* The tabs of `collab` are interchangeable, as are the plain users of
  `lock_tree`: symmetry is used for these runs and for no liveness run.

### Fairness

`FairSpec` adds `EveryHolderReleases`: a user that holds a lock eventually
releases it. The lock tree itself has no timeout; this is an assumption on its
environment, namely on users who release or disconnect. The connection's idle timeout
(`WebSocketRouter.hpp:56`) does not supply it: it ends connections that no longer
answer, and an open tab answers the server's pings for as long as its user is away. Nothing is assumed of requests: readers may keep coming for ever.
`lock_service` has no administrators, whose preemptions could go on for ever.
No fairness is needed in `Collab`; its properties are safety.

`LockThreads` assumes that a thread that can go on is scheduled, which is the
operating system's part. `Server` assumes the same of its two threads, that time
passes, that the event loop looks at every socket (it polls them all), and that
the compiler and the programs it runs come to an end. The last is an assumption on
the users: nothing in the code limits a program, and an endless one stops the
server. Nothing is assumed of tabs, kills, starts and stray compilers. In `Reaper` a thread does
what it can before the clock ticks, so the bound on ages is of a machine whose
scheduling delays are small against a minute.

### What the violated runs say

1. **`subtree_exclusion`** - the loop of the descent runs over the first
   `size - 1` nodes and never inspects the immediate parent of the target, so the
   promised exclusion between a directory and its files is missing for the files
   directly in it. (From the grandchildren on the descent does meet the
   directory's lock, except for an administrator's request.)
2. **`idle_waiters`** - `active_locks_beneath` is decremented by releases and never
   incremented, so an INTENT mark stays until the directory is deleted, and a
   request for the directory is queued for good.
3. **`typist_overwritten`** - `handleFileLoaded` does not look at the lock; the owner's
   typing is overwritten by content that was under way.
4. **`batch_partly`** - `acquire_locks_atomically` is atomic against other batches
   only: single requests do not take `global_tree_mutex`, and the answers of
   the second loop are ignored.
5. **`lost_update`** - with two requests for the same lock under way, a text typed
   under the first is accepted under the second and drops the edits another user
   made in between.

The passing runs of `Collab` therefore state their assumption openly, as two
constants: users type only into a loaded file (`TypesWhileLoading = FALSE`) and do
not ask again for a lock whose answer is still to come (`AsksAgain = FALSE`). The
first two and the fourth concern the lock manager as a library with unprivileged
users; the deployed server makes everybody an administrator, who is never queued,
and calls no batches.

### What the passing runs leave standing

Several of their properties say what the code does guarantee next to what it does
not. `StuckOnlyUnderWalk`: an acquisition keeps its target's mutex
while it marks the ancestors, and `get_all_active_locks`, `release_all_locks_for_user`
and the verification of a batch keep the ancestors' while they go down, so these two
block each other, and no call gives up waiting. Every other
combination of calls comes through. `Stuck(W)` says that each mutex of `W` is kept
for another one of `W`: by a thread that waits for that one and will not let go
before it has had it. It is about some of the threads as about all of them, and
what `CallsReturn` excepts is a call that waits for a mutex of such a `W`, no more.
The deployed server has one thread there. `ReaderServed`: a promotion serves the head of the
queue alone and later readers are granted past those still in it, so a reader is
sure of its turn only if that stops. `StaleSessionsGo`: sessions end after the
timeout whether or not they are used, because nothing calls `get_session`; nothing
else uses the session either, so nobody notices. `ShutdownEnds` needs the wait's timeout:
a stop requested between the predicate and the block is noticed up to a minute
late, and the condition variable is gone by then (the model lets the process
abort there, or go on).

`AnswersOwnProgram`: the program that is run is the user's own although sources, inputs
and programs of all users replace each other in three files, because a run is not
interrupted by another and gives up when its compiler fails. That does not extend to
a compiler started by `popen` for a server that was killed: it goes on, and if it
ends after the next server's compiler and before the program is loaded, the tab is
answered what another's program prints for the tab's input. So the executions are not
"isolated", as `src/README.md:47` has it; the property says that this moment is the only one.
`DisconnectLeavesOnlyPromotions`: a release of all of a user's locks may promote a
request that the same user has queued, and nobody takes that lock back.
`TreeViewsConverge` leaves out the tabs that an operation failing half way has left
untold, until the next announced change; a failure that throws ends the process, tabs
and messages with it, and so breaks none of these properties. `LockViewsConverge` leaves
out a tab that has not been sent a lock table yet: it shows every file as free.
`ImplementsFlatText` takes over from the code that an unwritten document reads as one
newline, and `LineEditsAreTextEdits` that a negative length means the rest of the line.

## 4. The proofs

All theorems hold for all users, administrators, paths, files and bounds that
satisfy the named assumptions of the modules: "nobody" is no user, the set of
paths is finite (in `LockTree`, `LockThreads` and `Collab`) and closed under taking
prefixes, the files are among the paths, "no file" is no file, the lists of a batch are
not empty and name no root, a minute has at least one tick, CR is not LF, a text inserted
in a line holds no LF (line ends come as NEWLINE), and the bounds are natural
numbers. TLC evaluates all of them in every run.

### The lock tree

| theorem | statement |
|---|---|
| `Invariance` | `Spec => []Inv`, the inductive invariant |
| `TypeCorrect` | `Spec => []TypeOK` |
| `OwnershipAlwaysCoherent` | `Spec => []OwnershipCoherent` |
| `PendingAlwaysExact` | `Spec => []PendingCountsWriters` |
| `NobodyWaitsAtFreeNode` | `Spec => []NoWaiterAtFreeNode` |
| `NobodyOvertakesWriters` | `Spec => WritersNotOvertaken` |
| `QueuesServeInOrder` | `Spec => WaitersServedInOrder` |
| `OnlyPromotionsOutlive` | `Spec => []DisconnectLeavesOnlyPromotions` |
| `LockTreeImplementsRWLocks` | `Spec => ImplementsRWLocks` |
| `AnyReleaseOrder` | `Spec => []ReleaseOrderIrrelevant` |

**The invariant.** `Inv` says of every node (`NodeInv`): it is well typed, its
ownership fields agree with its mode, the count of pending writers is the number
of writers in the queue, it has no queue when UNLOCKED, and
`active_locks_beneath <= 0`. The four properties are not inductive one by one.
That the count of writers stays natural needs its exactness (a promoted writer
was counted); that no queue is left at a free node needs the coherence (a
release frees a node only when its queue has been looked at) and
the sign of the counter: requests do wait at INTENT nodes, and only because
the counter is never positive does an unwinding never clear such a node's mark.

**The argument.** Each operation on a single node preserves `NodeInv`
(`EnqueueOK`, `GrantOK`, `PreemptOK`, `SetIntentOK`, `FreedOK`, `PromoteOK`,
`ReleaseNodeOK`, `UnwindOK`); an action changes every node by such an operation
(`ReleaseManyOK`, `AcquireOK`); `StepOK` goes through the actions. The lemmas
`WritersOf...` relate the number of writers of a queue to `Append` and `Tail`.

**Steps.** `NodeStep(n, s)` lists everything a step can do
to one node: nothing, an intent mark, a request queued, a grant, a preemption,
an unwinding of a released or unreleased node, deletion. Every step of `Spec`
changes every node by it, and the action properties are proved of `NodeStep`
one alternative at a time, from `NodeInv`. Preemption is where the
exceptions of the properties come from, and the invariant is what makes the
unwinding harmless.

**The refinement.** The mapping reads `exclusive_owner` and `shared_owners` of the
targets. Acquisitions map to `TakeWrite`, `TakeRead` or `Seize` or to no step at
all; a release of one lock or of many to `GiveUp`; deletion to `Destroy`. It is
`OwnershipCoherent` that makes the guards of the code, which look at the mode,
the guards of `RWLocks`, which look at the owners.

**The order of releases.** `OneMoreReleased` says what one more release after those of a
set of locks makes of the tree: the release of the set with that lock. At a node, the
question is whether two unwindings that come separately do what they do together
(`UnwindTwice`: yes, the counter stops at its bound either way and a mark once cleared is
not set), and whether a request that one release promotes can be met by another
(it cannot: a lock is released once, at its own node). The counters stay above
`-MaxUnwind` (`AlwaysFollowed`). A fold of the library is a function on the sets of
places in the sequence; `FoldIsRelease` gives that function, the release of the
locks at those places, and `ReleasesAre` shows by induction that there is no other.

### The lock tree under several threads

| theorem | statement |
|---|---|
| `ThreadsInvariance` | `Spec => []IInv` |
| `ThreadsTyped` | `Spec => []TypeOK` |
| `GrantLasts` | `Spec => []GrantLastsUntilAnswered` |
| `ThreadsImplementRWLocks` | `Spec => ImplementsRWLocks` |
| `KeepersInvariance` | `Spec => []KeepersOK` |
| `DeadlocksPassAWalk` | `Spec => []StuckOnlyUnderWalk` |
| `SingleLocksDoNotDeadlock` | `Spec => [](\A W \in SUBSET Kept : ~Stuck(W))`, if `Operations` has none of `release_all`, `list` and `batch` |

**The invariant.** `IInv` says of the nodes, pruned ones included, what `Inv` says of
those of `LockTree` (`NodesOK`), and that nobody locks the root; of the trie, that a
node's children are nodes that were made and have different paths, and that an object
not made yet is as it will be when it is (`TrieOK`); of each thread, that its trail
consists of nodes that were made and begins at the root, and that on the way down
it is at the node of the part of its path that it has come along (`PlaceOK`).
`GrantsKept` is `GrantLastsUntilAnswered` with the reason for it: a thread that marks
ancestors has the mutex of its target. It was checked by TLC first, on the
instance of `lock_threads` and on one with two plain users, siblings and all operations
(67 570 and 307 560 states).

**The argument.** `QuietChange` and `HolderChange` list what one step does to one node;
`QuietChangeOK` and `HolderChangeOK` are about each by itself, from the lemmas about
`LockTree`. A step changes one node, adds one child or takes one out (`TrieChange`),
and moves one thread (`Moves`). That a thread is where it should be after a step is a
matter of its trail only: one node further down (`EnterMoves`), one back (`BackOK`),
or the start of the next path of a batch.

**The refinement.** `NodeAt[p]`, the node that the trie has at `p` now, is defined by
recursion on the path, so even its equation has to be proved. The library's induction
theorems take an operator, but the least element of a set of numbers is a theorem about
sets (`Least` of `Induction`): induction over a set of lengths (`SetInduction`) and with it over
sets of paths (`PathInduction`) needs nothing else. `WayDownIs` is the equation, for any
children. With it: a new child is the way to its own path, nothing below it is there
yet, and every other way is as it was (`GrownWay`); taking a child out loses
exactly the ways through it (`CutWay`). So a change of a node maps to a step of the lock
of its path if the node can still be found and to no step if it cannot
(`ChangesNodeRefines`); making a node changes no lock, since it is as free as no
node is (`GrowsTrieRefines`); cutting one out is `Destroy` of everything below it
(`CutsTrieRefines`).

**Who keeps which mutex.** `KeepersOK` is inductive together with `IInv`: a mutex that
one thread keeps to itself is that of the target of an ascent (`WritersOK`); one
that is shared is shared by verifications and by walks, and a walk shares exactly those
on its trail (`SharersOK`, `WalksOK`), which are as deep as they are far along it;
and the way of an acquisition leads down (`TrailsLengthen`), as children are one
segment longer than their parents (`KidsBeneath`). Most steps are `Plain`: their
thread keeps nothing before or after. The others are taken one by one. TLC checked
`KeepersOK` first, and `StuckOnlyUnderWalk` with it, on the instance of
`lock_threads`, with three plain users on two siblings (181 674 states), and with
three on a tree of two files, one of them in a directory, that only
acquire and list (four calls, 1 080 154 states).

**Deadlocks.** A walk or a verification waits only for a mutex that one thread has to
itself, so a `Stuck` set has one that an ascent keeps. Of these take the one nearest to
the root (`Least` again; the threads need not be finite in number). Its ascent waits for
a node further up (`AscentGoesUp`), of the same set; no ascent keeps that one, so
it is shared, by a walk or a verification (`StuckUnderWalk`).

### The documents

| theorem | statement |
|---|---|
| `DocsInvariance` | `Spec => []DocsOK` |
| `DocumentsTyped` | `Spec => []TypeOK` |
| `ReloadsKeepLines` | `Spec => []ReloadKeepsLines` |
| `LineEditsEditTexts` | `Spec => []LineEditsAreTextEdits` |
| `DocumentsImplementFlatText` | `Spec => ImplementsFlatText` |

**The invariant.** `DocsOK`: every document is a non-empty vector of lines, which are
sequences of characters other than LF. It is all that the other results need of a
state; the rest is about the operators.

**The argument.** `get_full_text` and the reading of a text are folds of the library, each a
function on sets of places that is only described by an equation. `FoldExists` gives
the function, `FoldRuns` what it says of the first places, and so folds become runs
with one step per line (`FlattenIs`, `FullText`) or character (`ReadingRuns`, `KeepingRuns`).

*Reading back.* `Unread(x)` is the text that has been read when the lines are `x`:
one more character makes it one longer (`UnreadRead`), so reading a text ends with lines
that stand for it (`ReadingStandsFor`), and no others do (`UnreadOnce`). Hence
`LinesComeBack`: what `get_full_text` puts together is taken apart into the same lines.

*Places.* The line ends of a text are where its lines end (`LineEndsAre`), in order
(`EndsGrow`), so the row-th one is found by counting those before it (`EndsBefore`,
`PlacesAre`): a row and a column mean the same place to both (`PlaceIs`). A
line operation changes one line (`LineAt`, `LineIsThere`) in one part of it
(`LineSplit`), and the same part of the text (`SpliceIs`); `InsertTextIs`, `DeleteTextIs`
and `InsertNewlineIs` put that together. Where the code and the editor differ in their
guards, a deletion behind the last character of a line, nothing is deleted (`NothingDeleted`).

*Line endings.* `FlatText` drops a CR when it comes before a line end; the code strips it
from the line when it has been read. `Same` relates the two, character by
character (`KeptLineEnd`, `KeptInLine`), and `LastRead` tells a text that ends with a line end
from one that does not: `NormalIs`.

### The deployed system

| theorem | statement |
|---|---|
| `IInvHolds` | `Spec => []IInv` |
| `TypesKept` | `Spec => []TypeOK` |
| `LocksDieWithConnections` | `Spec => []OwnersAreConnected` |
| `ViewsConverge` | `Spec => []LockViewsConverge` |
| `BeliefsHold` | `Spec => [](IInv /\ OwnersAreConnected /\ NoSharers /\ TabsTold)` |
| `OwnersAreTold` | `Spec => OwnersAreToldBeforeEdits` |
| `TextsHold` | `Patience` implies `Spec => [](Sound /\ TabsAgree /\ Blank)` |
| `NoUpdateLost` | `Patience` implies `Spec => NoLostUpdate` |
| `SettledUpToDate` | `Patience` implies `Spec => []SettledTabsUpToDate` |

`Patience` says that both constants which describe the users' habits are FALSE, as in
the passing runs; `typist_overwritten` and `lost_update` show that neither of the last
two theorems holds without it. The other theorems hold for any habits.

**The invariant.** `IInv` is `TypeOK` with two facts: of the lock tree as this server
uses it, that every owner is a user and no queue has a member (`TreeOK`; every
request preempts), and of the tabs, that a closed one has no message in either
channel and is told afresh when it returns (`Gone`). The second is why no
request of a closed connection takes a lock.

**The argument.** `ServerStep(u)` is what every handler does: it gives locks to
nobody but `u`, keeps the types, reaches connected tabs only, and either leaves the
locks alone and sends anything but a LOCK_SYNC (`LocksKept`) or sends the new
table to everybody (`LocksAnnounced`). What a tab comes to know
(`ComesToKnow`) is then a matter of three facts about a channel: after a LOCK_SYNC
has joined it, after another message has, and after its head has been taken
(`KnowsWhenTold`, `KnowsWithMore`, `KnowsWithLess`).

**Beliefs.** `Believes(ns, kn, u, f, i, b)` is what `u` will believe about its lock on
`f` when the `i`-th message arrives: what the last LOCK_SYNC before it says, or what the
tab has shown already. `Told` says that after all of them it will be right, and that
at every edit of `f` on its way it will know not to be the owner. `NoSharers` is needed
because a tab shows sharers too: the browser asks for exclusive locks only, so there
are none.

**Texts.** For every tab and file, `Agrees` relates the messages under way in both
directions, the owners shown, the server's text and the editor. `Loads`: no edit is sent
between a FILE_REQUEST and its answer, and what is loaded last is the open file.
`Asks`: a lock is asked for once, by a tab that will not be told to own the file before
the request is handled, so no edit follows the request; and an owner who has been told
so is not told otherwise. That is where a second request breaks `NoLostUpdate`.
`TextsAgree`: the last text on its way to a tab is the server's; the edits on their way
from the owner extend the server's text, each the one before; and a tab with nothing of
the file on its way shows all of them. `CollabTextProofs` shows what each kind of
message does to the three as channels grow and shrink, without looking at the
system; `CollabUpdateProofs` classifies what a step of the system is for a tab
(`Unheard`, `Lost`, `Reverted`, `Loaded`, `Accepted`, `Seized` and the inputs) and applies
those lemmas. TLC had confirmed the whole invariant before, on the instances of `collab`
(2 437 164 states) and `collab_files` (1 044 618).

### The server process

| theorem | statement |
|---|---|
| `ServerTyped` | `Spec => []TypeOK` |
| `ServerTreeViewsConverge` | `Spec => []TreeViewsConverge` |
| `ServerAnswersOwnProgram` | `Spec => []AnswersOwnProgram` |
| `ServerStaleSessionsGo` | `Spec => []StaleSessionsGo` |

**The invariant.** `IInv` adds to the types and to the properties of the messages what
makes each component's property inductive. `AgesOK` says how old a session can be
at each place of the reaper's thread: below the limit just after a sweep, and
below the limit and a minute less what is left of the wait while it sleeps;
`StaleSessionsGo` alone would not survive a tick. `ProcessOK` ties the thread to
main: there is one exactly while there is a process, it is told to stop only
when main is on its way out, and a server that is on its way out never had a
session. `RunOK` says which of the three files already belong to the user whose
program is being run, at each step of the run, and that only for an overtaken tab the
program does not, and `IdleOK` that there is no run unless the event loop is in it.

**The argument.** One lemma per component and step (`CreateOK`, `ReaperStepOK`,
`PoolStepOK`, `StraysOK`, `WorkspaceStepOK`), one per part of the invariant over all of `Next`
(`ProcessStep` to `ViewsStep`). The workspace needs that prefixes compose
(`PrefixesCompose`, `ParentsCompose`): deleting a folder takes everything that has it
as a parent, and a partial deletion never leaves a child without its folder. The
trees follow the same three facts about a channel as the lock tables of `Collab`
(`ShowsWhenTold`, `ShowsWithMore`, `ShowsWithLess`); `ViewStays` and `ViewTold` are
the two things a step can do to what a tab comes to show. The rounding of ages to
whole minutes is the only arithmetic beyond additions (`MinutesFacts`).

### Only model-checked

Liveness under fairness (`WriterServed`, `ReaderServed`, `CallsReturn`, `ShutdownEnds`,
`RequestsHandled`) is outside what the prover handles. That `Stuck` is the right
notion of deadlock, namely that a call which waits for no such set does come back,
is `CallsReturn`, so it is checked by TLC only. Every safety property of the passing runs,
invariants, action properties and refinements, is stated by a theorem. No module declares a RECURSIVE operator.

## 5. Not modelled

* **The edge worker**: its gateway neither sends nor receives, so the callbacks of
  `edge_main.cpp` are never called, and with them neither the mirror nor
  `LocalExecutionEngine`. There is no behaviour yet to be faithful to.
* **The vendored `json.hpp`**, which is most of the repository's lines: messages are
  records in the models. A malformed message is dropped before it has any effect.
* **Several sessions, tabs with the same user id or with two sockets, a tab that has
  lost its connection, messages dropped for a slow tab**: listed as hazards; the
  tabs of `Collab` have one connection and one user id each, to the one session
  the browser uses.
* **Layout, terminal, cursors**: no state any property is about.
* **Durability of texts**: no code saves a document or loads one. `src/README.md:127`
  draws such an arrow between the delta engine and the file system.
* **Failures of `/tmp`** other than files that cannot be opened, and of the directory scan.

## 6. Plan

1. *(done)* `RWLocks`, `LockTree` and its proofs; `Collab` and the proofs of
   `OwnersAreConnected` and `LockViewsConverge`.
2. *(done)* `LockThreads`; `Documents`; `Reaper`, `WarmPool`, `Workspace` and `Server`.
3. *(done)* The safety properties of `Server`.
4. *(done)* `LockThreads`: its invariant, `GrantLastsUntilAnswered` and the refinement.
5. *(done)* `OwnersAreToldBeforeEdits`, `NoLostUpdate` and `SettledTabsUpToDate`.
6. *(done)* `ReleaseOrderIrrelevant`, by the induction over sets of numbers that
   `LockThreadsProofs` uses for the recursion of `NodeAt`.
7. *(done)* `Documents`, by the same induction over the lines of a document and the
   characters of a text.
8. *(done)* `StuckOnlyUnderWalk` without ENABLED, for some of the threads as for all.
9. *(done)* The compilers that outlive their servers, in `WarmPool` and `Server`.
