------------------------------- MODULE Collab -------------------------------
(***************************************************************************)
(* The deployed system: one server process (WebSocketRouter over the lock  *)
(* tree, DeltaEngine and FileSystemManager) and the browser tabs of one    *)
(* session (useSocketStore, EditorWorkspace, FileExplorer).                *)
(*                                                                         *)
(* The server runs on one event loop, so a message is handled as one step; *)
(* a WebSocket delivers in order in each direction, up[u] and down[u].     *)
(* Every connection is made an administrator (WebSocketRouter.hpp:74), so  *)
(* a lock request always preempts.  The browsers only ask for EXCLUSIVE    *)
(* locks.  Messages that change nothing modelled here are left out:        *)
(* LOCK_RESPONSE, which no browser reads, the file tree, cursors and       *)
(* program runs.                                                           *)
(*                                                                         *)
(* A text is the sequence of the edits in it: each keystroke appends an    *)
(* edit of its own, something visible, since TextDocument normalises line  *)
(* endings.  <<>> is the empty document.                                   *)
(***************************************************************************)
EXTENDS Integers, FiniteSets, SequencesExt

CONSTANTS
  Users,           (* the tabs, each with its own user id                  *)
  NoUser, Segments, Nodes, MaxQueue, MaxUnwind,   (* as in LockTree        *)
  Files,           (* the paths that are files                             *)
  DefaultFile,     (* the file a new tab shows                             *)
  NoFile,          (* no file's text is in the editor yet                  *)
  MaxClicks,       (* bound on the users' inputs, keystrokes included      *)
  MaxWire,         (* bound on the messages between server and tabs        *)
  TypesWhileLoading,   (* may users type before the open file is loaded?   *)
  AsksAgain            (* may users ask for a lock they have asked for?    *)

ASSUME UsersAssumption == NoUser \notin Users

ASSUME NodesAssumption ==
  /\ IsFiniteSet(Nodes)
  /\ Nodes \subseteq Seq(Segments)
  /\ \A p \in Nodes : \A k \in 0..Len(p) : SubSeq(p, 1, k) \in Nodes

ASSUME FilesAssumption ==
  /\ Files \subseteq Nodes \ {<<>>}
  /\ DefaultFile \in Files
  /\ NoFile \notin Files

ASSUME BoundsAssumption == MaxUnwind \in Nat \ {0} /\ MaxClicks \in Nat

ASSUME HabitsAssumption == TypesWhileLoading \in BOOLEAN /\ AsksAgain \in BOOLEAN

VARIABLES
  tree,            (* the server's lock tree                               *)
  docs,            (* DeltaEngine.mp_docs                                  *)
  disk,            (* the files and folders in the workspace               *)
  connected,       (* the tabs with an open WebSocket                      *)
  up, down,        (* messages on their way to the server, to each tab     *)
  activeFile,      (* the store's activeFile of each tab                   *)
  activeLocks,     (* the store's activeLocks: the owners each tab knows   *)
  buffer,          (* the text in each tab's editor                        *)
  isRemoteUpdate,  (* set while the editor is being written by a message   *)
  shown,           (* auxiliary: the file whose text is in the editor      *)
  synced,          (* auxiliary: the tabs that have had a LOCK_SYNC        *)
  clicks           (* the number of inputs so far                          *)

server == <<tree, docs, disk>>
editor == <<buffer, isRemoteUpdate, shown>>
client == <<activeFile, activeLocks, editor, synced>>
vars == <<server, connected, up, down, client, clicks>>

hdlm == INSTANCE LockTree WITH Admins <- Users

Texts == Seq(1..MaxClicks)
LockTable == [hdlm!Targets -> SUBSET Users]
NoLocks == [p \in hdlm!Targets |-> {}]

------------------------------------------------------------------------------
(* Messages *)

ToServer ==
  [type : {"DELTA"}, file_path : Files, full_text : Texts] \cup
  [type : {"LOCK_REQUEST", "LOCK_RELEASE", "FILE_REQUEST", "FILE_CREATE"},
   file_path : Files] \cup
  [type : {"FILE_DELETE"}, file_path : hdlm!Targets]

ToClient ==
  [type : {"DELTA"}, client_id : Users, file_path : Files, full_text : Texts] \cup
  [type : {"STATE_REVERT", "FILE_CONTENT"}, file_path : Files, full_text : Texts] \cup
  [type : {"LOCK_SYNC"}, active_locks : LockTable]

Msg(type, f) == [type |-> type, file_path |-> f]
TextMsg(type, f, text) == [type |-> type, file_path |-> f, full_text |-> text]
LockSync(t) == [type |-> "LOCK_SYNC", active_locks |-> hdlm!ActiveLocks(t)]

OnWire == FoldSet(LAMBDA u, n : n + Len(up[u]) + Len(down[u]), 0, Users)

\* No more messages are under way after the step than the bound.
WithinBounds == OnWire' <= MaxWire

\* m is put on the way to the tabs of S.
Deliver(S, m) ==
  /\ down' = [v \in Users |-> IF v \in S THEN Append(down[v], m) ELSE down[v]]
  /\ WithinBounds

\* ws->publish reaches the other tabs of the session, ws->send the sender.
Publish(u, m) == Deliver(connected \ {u}, m)
\* Mutant: the other tabs are not told.
SendOnly(u, m) == Deliver({u}, m)

\* Mutant: the sender is not told.
PublishOnly(u, m) == Deliver(connected \ {u}, m)

PublishAndSend(u, m) == Deliver(connected, m)

------------------------------------------------------------------------------
(* The server: WebSocketRouter *)

\* A new tab starts from the store's initial values, which are those a tab
\* that is closed is left with here.
Connect(u) ==
  /\ u \notin connected
  /\ connected' = connected \cup {u}
  /\ UNCHANGED <<server, up, down, client, clicks>>

\* u's socket is gone, and the tab with it; whoever is left is sent m.
Disconnect(u, m) ==
  /\ u \in connected
  /\ connected' = connected \ {u}
  /\ up' = [up EXCEPT ![u] = <<>>]
  /\ down' = [v \in Users |->
                IF v = u THEN <<>>
                ELSE IF v \in connected THEN Append(down[v], m) ELSE down[v]]
  /\ WithinBounds
  /\ activeFile' = [activeFile EXCEPT ![u] = DefaultFile]
  /\ activeLocks' = [activeLocks EXCEPT ![u] = NoLocks]
  /\ buffer' = [buffer EXCEPT ![u] = <<>>]
  /\ isRemoteUpdate' = [isRemoteUpdate EXCEPT ![u] = FALSE]
  /\ shown' = [shown EXCEPT ![u] = NoFile]
  /\ synced' = synced \ {u}
  /\ UNCHANGED <<docs, disk, clicks>>

\* Mutant: the locks of the closed connection stay.
CloseKeepingLocks(u) ==
  /\ UNCHANGED tree
  /\ Disconnect(u, LockSync(tree))

\* The connection ends, with whatever was still on its way in it.
Close(u) ==
  /\ tree' = hdlm!ReleaseMany(tree, hdlm!HeldBy(tree, u), u)
  /\ Disconnect(u, LockSync(tree'))

\* The next message of u is of this type; it is taken off the wire.
Takes(u, type) ==
  /\ up[u] # <<>>
  /\ Head(up[u]).type = type
  /\ up' = [up EXCEPT ![u] = Tail(@)]
  /\ UNCHANGED <<connected, client, clicks>>

\* Mutant: the owner is not looked at.
DeltaUnchecked(u) ==
  LET m == Head(up[u])
  IN  /\ Takes(u, "DELTA")
      /\ docs' = [docs EXCEPT ![m.file_path] = m.full_text]
      /\ Publish(u, [type |-> "DELTA", client_id |-> u,
                     file_path |-> m.file_path, full_text |-> m.full_text])
      /\ UNCHANGED <<tree, disk>>

\* DeltaEngine.force_state: the owner's text replaces the document.
DeltaAccepted(u) ==
  LET m == Head(up[u])
  IN  /\ Takes(u, "DELTA")
      /\ hdlm!IsExclusiveOwner(tree, m.file_path, u)
      /\ docs' = [docs EXCEPT ![m.file_path] = m.full_text]
      /\ Publish(u, [type |-> "DELTA", client_id |-> u,
                     file_path |-> m.file_path, full_text |-> m.full_text])
      /\ UNCHANGED <<tree, disk>>

DeltaRefused(u) ==
  LET m == Head(up[u])
  IN  /\ Takes(u, "DELTA")
      /\ ~hdlm!IsExclusiveOwner(tree, m.file_path, u)
      /\ Deliver({u}, TextMsg("STATE_REVERT", m.file_path, docs[m.file_path]))
      /\ UNCHANGED server

LockRequest(u) ==
  /\ Takes(u, "LOCK_REQUEST")
  /\ hdlm!AcquireByPreemption(Head(up[u]).file_path, u, "EXCLUSIVE")
  /\ PublishAndSend(u, LockSync(tree'))
  /\ UNCHANGED <<docs, disk>>

LockRelease(u) ==
  LET f == Head(up[u]).file_path
  IN  /\ Takes(u, "LOCK_RELEASE")
      /\ tree' = hdlm!ReleaseMany(tree, {f} \cap hdlm!HeldBy(tree, u), u)
      /\ PublishAndSend(u, LockSync(tree'))
      /\ UNCHANGED <<docs, disk>>

FileRequest(u) ==
  LET f == Head(up[u]).file_path
  IN  /\ Takes(u, "FILE_REQUEST")
      /\ Deliver({u}, TextMsg("FILE_CONTENT", f, docs[f]))
      /\ UNCHANGED server

\* Mutant: the workspace folder itself is recorded.
FileCreateWithRoot(u) ==
  LET f == Head(up[u]).file_path
  IN  /\ Takes(u, "FILE_CREATE")
      /\ disk' = disk \cup {f} \cup hdlm!Ancestors(f)
      /\ UNCHANGED <<tree, docs, down>>

\* create_file makes the missing folders too and never overwrites.
FileCreate(u) ==
  LET f == Head(up[u]).file_path
  IN  /\ Takes(u, "FILE_CREATE")
      /\ disk' = disk \cup {f} \cup (hdlm!Ancestors(f) \ {hdlm!Root})
      /\ UNCHANGED <<tree, docs, down>>

\* Mutant: the tabs are not told that the locks are gone.
FileDeletedSilently(u) ==
  LET p == Head(up[u]).file_path
  IN  /\ Takes(u, "FILE_DELETE")
      /\ p \in disk
      /\ disk' = disk \ hdlm!Subtree(p)
      /\ tree' = hdlm!Pruned(tree, p)
      /\ UNCHANGED <<docs, down>>

\* delete_file; nobody's lock is looked at, and the document stays.
FileDeleted(u) ==
  LET p == Head(up[u]).file_path
  IN  /\ Takes(u, "FILE_DELETE")
      /\ p \in disk
      /\ disk' = disk \ hdlm!Subtree(p)
      /\ tree' = hdlm!Pruned(tree, p)
      /\ PublishAndSend(u, LockSync(tree'))
      /\ UNCHANGED docs

FileDeleteFails(u) ==
  /\ Takes(u, "FILE_DELETE")
  /\ Head(up[u]).file_path \notin disk
  /\ UNCHANGED <<server, down>>

Handle(u) ==
  \/ DeltaAccepted(u)
  \/ DeltaRefused(u)
  \/ LockRequest(u)
  \/ LockRelease(u)
  \/ FileRequest(u)
  \/ FileCreate(u)
  \/ FileDeleted(u)
  \/ FileDeleteFails(u)

------------------------------------------------------------------------------
(* The tabs: what the user does *)

HasLock(u) == activeLocks[u][activeFile[u]] = {u}

\* The user of a connected tab does something that sends the messages ms.
Input(u, ms) ==
  /\ u \in connected
  /\ clicks < MaxClicks
  /\ clicks' = clicks + 1
  /\ up' = [up EXCEPT ![u] = @ \o ms]
  /\ UNCHANGED <<server, connected, down, activeLocks, synced>>
  /\ WithinBounds

\* A click in the explorer: setActiveFile.
OpenFile(u, f) ==
  /\ Input(u, <<Msg("FILE_REQUEST", f)>>)
  /\ activeFile' = [activeFile EXCEPT ![u] = f]
  /\ UNCHANGED editor

\* u believes to have the lock on f, or the answer is still to come.
Asked(u, f) ==
  \/ activeLocks[u][f] = {u}
  \/ \E i \in DOMAIN up[u] : up[u][i] = Msg("LOCK_REQUEST", f)
  \/ \E i \in DOMAIN down[u] :
       down[u][i].type = "LOCK_SYNC" /\ down[u][i].active_locks[f] = {u}

\* handleCreate: the new file is created, opened and locked, whether or not
\* there already is a file of that name.
CreateFile(u, f) ==
  /\ AsksAgain \/ ~Asked(u, f)
  /\ Input(u, <<Msg("FILE_CREATE", f), Msg("FILE_REQUEST", f), Msg("LOCK_REQUEST", f)>>)
  /\ activeFile' = [activeFile EXCEPT ![u] = f]
  /\ UNCHANGED editor

DeleteFile(u, p) ==
  /\ Input(u, <<Msg("FILE_DELETE", p)>>)
  /\ UNCHANGED <<activeFile, editor>>

\* The lock button is disabled while another user is shown as the owner.
PressAcquire(u) ==
  /\ activeLocks[u][activeFile[u]] = {}
  /\ AsksAgain \/ ~Asked(u, activeFile[u])
  /\ Input(u, <<Msg("LOCK_REQUEST", activeFile[u])>>)
  /\ UNCHANGED <<activeFile, editor>>

PressRelease(u) ==
  /\ HasLock(u)
  /\ Input(u, <<Msg("LOCK_RELEASE", activeFile[u])>>)
  /\ UNCHANGED <<activeFile, editor>>

\* A file content u asked for is still to come.
Loading(u) ==
  \/ \E i \in DOMAIN up[u] : up[u][i].type = "FILE_REQUEST"
  \/ \E i \in DOMAIN down[u] : down[u][i].type = "FILE_CONTENT"

\* A keystroke.  The editor takes it only while the tab believes it has the
\* lock; the change is sent unless a message has just written the editor.
Type(u) ==
  LET text == Append(buffer[u], clicks + 1)
  IN  /\ HasLock(u)
      /\ TypesWhileLoading \/ (shown[u] = activeFile[u] /\ ~Loading(u))
      /\ Input(u, IF isRemoteUpdate[u] THEN <<>>
                  ELSE <<TextMsg("DELTA", activeFile[u], text)>>)
      /\ buffer' = [buffer EXCEPT ![u] = text]
      /\ UNCHANGED <<activeFile, isRemoteUpdate, shown>>

\* The timer of 50 ms after a message has written the editor.
RemoteUpdateDone(u) ==
  /\ isRemoteUpdate[u]
  /\ isRemoteUpdate' = [isRemoteUpdate EXCEPT ![u] = FALSE]
  /\ UNCHANGED <<server, connected, up, down, activeFile, activeLocks, buffer,
                 shown, synced, clicks>>

------------------------------------------------------------------------------
(* The tabs: what arrives *)

\* A message writes text, of the active file, into the editor.
WriteEditor(u, text) ==
  /\ buffer' = [buffer EXCEPT ![u] = text]
  /\ isRemoteUpdate' = [isRemoteUpdate EXCEPT ![u] = TRUE]
  /\ shown' = [shown EXCEPT ![u] = activeFile[u]]

Arrives(u, type) ==
  /\ down[u] # <<>>
  /\ Head(down[u]).type = type
  /\ down' = [down EXCEPT ![u] = Tail(@)]
  /\ UNCHANGED <<server, connected, up, activeFile, clicks>>

LockSyncArrives(u) ==
  /\ Arrives(u, "LOCK_SYNC")
  /\ activeLocks' = [activeLocks EXCEPT ![u] = Head(down[u]).active_locks]
  /\ synced' = synced \cup {u}
  /\ UNCHANGED editor

\* handleFileLoaded writes the content whoever has the lock.
FileContentArrives(u) ==
  LET m == Head(down[u])
  IN  /\ Arrives(u, "FILE_CONTENT")
      /\ IF m.file_path = activeFile[u] THEN WriteEditor(u, m.full_text)
                                        ELSE UNCHANGED editor
      /\ UNCHANGED <<activeLocks, synced>>

\* Mutant: changes to a file somebody has locked are ignored.
AppliesIfUnlocked(u, m) ==
  /\ m.client_id # u
  /\ activeLocks[u][m.file_path] = {}
  /\ m.file_path = activeFile[u]

\* Mutant: changes to other files are written into the editor too.
AppliesToAnyFile(u, m) ==
  /\ m.client_id # u
  /\ activeLocks[u][m.file_path] # {u}

\* handleRemoteDelta ignores the tab's own changes, those to a file it believes
\* to own, and those to a file it does not show.
Applies(u, m) ==
  /\ m.client_id # u
  /\ activeLocks[u][m.file_path] # {u}
  /\ m.file_path = activeFile[u]

DeltaArrives(u) ==
  LET m == Head(down[u])
  IN  /\ Arrives(u, "DELTA")
      /\ IF Applies(u, m) THEN WriteEditor(u, m.full_text) ELSE UNCHANGED editor
      /\ UNCHANGED <<activeLocks, synced>>

\* No case of the store's onmessage is for it.
StateRevertArrives(u) ==
  /\ Arrives(u, "STATE_REVERT")
  /\ UNCHANGED <<activeLocks, synced, editor>>

Receive(u) ==
  \/ LockSyncArrives(u)
  \/ FileContentArrives(u)
  \/ DeltaArrives(u)
  \/ StateRevertArrives(u)

------------------------------------------------------------------------------
Init ==
  /\ hdlm!Init
  /\ docs = [f \in Files |-> <<>>]
  /\ disk = {}
  /\ connected = {}
  /\ up = [u \in Users |-> <<>>]
  /\ down = [u \in Users |-> <<>>]
  /\ activeFile = [u \in Users |-> DefaultFile]
  /\ activeLocks = [u \in Users |-> NoLocks]
  /\ buffer = [u \in Users |-> <<>>]
  /\ isRemoteUpdate = [u \in Users |-> FALSE]
  /\ shown = [u \in Users |-> NoFile]
  /\ synced = {}
  /\ clicks = 0

UserInput(u) ==
  \/ \E f \in Files : OpenFile(u, f) \/ CreateFile(u, f)
  \/ \E p \in hdlm!Targets : DeleteFile(u, p)
  \/ PressAcquire(u)
  \/ PressRelease(u)
  \/ Type(u)

Next ==
  \E u \in Users :
    \/ Connect(u)
    \/ Close(u)
    \/ Handle(u)
    \/ UserInput(u)
    \/ Receive(u)
    \/ RemoteUpdateDone(u)

Spec == Init /\ [][Next]_vars

------------------------------------------------------------------------------
(* Properties *)

TypeOK ==
  /\ hdlm!TypeOK
  /\ docs \in [Files -> Texts]
  /\ disk \subseteq hdlm!Targets
  /\ connected \subseteq Users
  /\ up \in [Users -> Seq(ToServer)]
  /\ down \in [Users -> Seq(ToClient)]
  /\ activeFile \in [Users -> Files]
  /\ activeLocks \in [Users -> LockTable]
  /\ buffer \in [Users -> Texts]
  /\ isRemoteUpdate \in [Users -> BOOLEAN]
  /\ shown \in [Users -> Files \cup {NoFile}]
  /\ synced \subseteq Users
  /\ clicks \in 0..MaxClicks

\* Nobody but a connected user holds a lock: closing the tab wipes out its
\* locks, and no request of a closed connection is handled afterwards.
OwnersAreConnected ==
  \A u \in Users : hdlm!HeldBy(tree, u) # {} => u \in connected

\* The last LOCK_SYNC among the messages ms is the i-th.
LastSync(ms, i) ==
  /\ i \in DOMAIN ms
  /\ ms[i].type = "LOCK_SYNC"
  /\ \A j \in DOMAIN ms : j > i => ms[j].type # "LOCK_SYNC"

\* A tab that knows the locks `known', if it has been told any, and is still to
\* receive ms, ends up knowing `locks'.
ComesToKnow(ms, told, known, locks) ==
  /\ \A i \in DOMAIN ms : LastSync(ms, i) => ms[i].active_locks = locks
  /\ told /\ (\A i \in DOMAIN ms : ms[i].type # "LOCK_SYNC") => known = locks

\* Every change of the lock tree is announced: what a tab will know when the
\* messages on their way to it have arrived is the lock table as it is.  (A tab
\* that has just connected is told nothing until the next change.)
LockViewsConverge ==
  \A u \in connected :
    ComesToKnow(down[u], u \in synced, activeLocks[u], hdlm!ActiveLocks(tree))

\* An accepted change never drops an edit accepted earlier, through any race of
\* deltas, lock hand-overs, preemptions, reloads and reconnections, as long as
\* the users type only into a file that is loaded and do not ask for a lock
\* again before the answer has arrived.  (Otherwise it does: a keystroke made
\* under an old lock is accepted under the new one, or one made in a text that
\* a late FILE_CONTENT has put back replaces the document.)
NoLostUpdate ==
  [][\A f \in Files : IsPrefix(docs[f], docs'[f])]_vars

\* A tab ignores the changes to a file it believes to own.  That never hides
\* another user's accepted edit: by the time the edit arrives, the tab has been
\* told that the lock is no longer its own, though it may have asked for the lock
\* again since, been preempted, or had the file deleted under it.
OwnersAreToldBeforeEdits ==
  [][\A u \in Users : DeltaArrives(u) =>
       activeLocks[u][Head(down[u]).file_path] # {u}]_vars

\* Nothing is on its way to u or from it, and its editor shows the open file.
Settled(u) ==
  /\ u \in connected
  /\ up[u] = <<>> /\ down[u] = <<>>
  /\ shown[u] = activeFile[u]

\* When its messages have arrived, a tab that shows a file shows every edit
\* the server has accepted for it, whether it is the writer or a reader.  (A
\* user who types before the file is loaded loses that: the FILE_CONTENT still
\* to come overwrites the editor although the tab has the lock.)
SettledTabsUpToDate ==
  \A u \in Users : Settled(u) => IsPrefix(docs[activeFile[u]], buffer[u])
==============================================================================
