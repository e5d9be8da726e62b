-------------------------- MODULE CollabUpdateProofs --------------------------
(***************************************************************************)
(* The steps of the system, each keeping what CollabTextProofs says of the *)
(* messages and texts of a tab; and from that NoLostUpdate and             *)
(* SettledTabsUpToDate, for any users, files and bounds, while users type  *)
(* only into a loaded file and do not ask for a lock they have asked for.  *)
(***************************************************************************)
EXTENDS CollabTextProofs

------------------------------------------------------------------------------
(* All that holds of a tab and a file *)

\* As in CollabTextProofs: ms and ns are on their way from and to the tab.
Agrees(ms, ns, kn, u, f, own, doc, act, shn, buf) ==
  /\ Loads(ms, ns, act)
  /\ Asks(ms, ns, kn, u, f, own)
  /\ TextsAgree(ms, ns, f, own, doc, act, shn, buf)

\* The server takes a message that is not a FILE_REQUEST, and nothing else changes.
LEMMA AgreesTaken ==
  ASSUME NEW ms \in Seq(ToServer), ms # <<>>, NEW ns \in Seq(ToClient), NEW kn, NEW u, NEW f,
         NEW own \in BOOLEAN, NEW doc, NEW act, NEW shn, NEW buf,
         Agrees(ms, ns, kn, u, f, own, doc, act, shn, buf), Head(ms).type # "FILE_REQUEST"
  PROVE  Agrees(Tail(ms), ns, kn, u, f, own, doc, act, shn, buf)
<1>1. Loads(Tail(ms), ns, act)
  BY LoadsTaken DEF Agrees
<1>2. Asks(Tail(ms), ns, kn, u, f, own)
  BY AsksTaken DEF Agrees
<1>3. TextsAgree(Tail(ms), ns, f, own, doc, act, shn, buf)
  BY TextsTaken DEF Agrees
<1> QED
  BY <1>1, <1>2, <1>3 DEF Agrees

\* The server sends a message that brings neither locks nor a text of f.
LEMMA AgreesSent ==
  ASSUME NEW ms, NEW ns \in Seq(ToClient), NEW m \in ToClient, NEW kn, NEW u, NEW f,
         NEW own \in BOOLEAN, NEW doc, NEW act, NEW shn, NEW buf,
         Agrees(ms, ns, kn, u, f, own, doc, act, shn, buf),
         m.type \notin {"LOCK_SYNC", "FILE_CONTENT"}, ~Carries(m, f)
  PROVE  Agrees(ms, Append(ns, m), kn, u, f, own, doc, act, shn, buf)
<1>1. Loads(ms, Append(ns, m), act)
  BY LoadsSent DEF Agrees
<1>2. Asks(ms, Append(ns, m), kn, u, f, own)
  BY AsksSent DEF Agrees
<1>3. TextsAgree(ms, Append(ns, m), f, own, doc, act, shn, buf)
  BY TextsSent DEF Agrees
<1> QED
  BY <1>1, <1>2, <1>3 DEF Agrees

\* The server sends the locks, of which u has gained none.
LEMMA AgreesTold ==
  ASSUME NEW ms, NEW ns \in Seq(ToClient), NEW m \in ToClient, NEW kn, NEW u, NEW f,
         NEW own \in BOOLEAN, NEW doc, NEW act, NEW shn, NEW buf, NEW now \in BOOLEAN,
         Agrees(ms, ns, kn, u, f, own, doc, act, shn, buf),
         m.type = "LOCK_SYNC", m.active_locks[f] = {u} <=> now, now => own
  PROVE  Agrees(ms, Append(ns, m), kn, u, f, now, doc, act, shn, buf)
<1>1. Loads(ms, Append(ns, m), act)
  BY LoadsSent DEF Agrees
<1>2. Asks(ms, Append(ns, m), kn, u, f, now)
  BY AsksTold DEF Agrees
<1>3. TextsAgree(ms, ns, f, now, doc, act, shn, buf)
  BY TextsLost DEF Agrees
<1>4. TextsAgree(ms, Append(ns, m), f, now, doc, act, shn, buf)
  BY <1>3, TextsSent DEF Carries
<1> QED
  BY <1>1, <1>2, <1>4 DEF Agrees

\* The server answers a FILE_REQUEST.
LEMMA AgreesAnswered ==
  ASSUME NEW ms \in Seq(ToServer), ms # <<>>, NEW ns \in Seq(ToClient), NEW m \in ToClient,
         NEW kn, NEW u, NEW f, NEW own \in BOOLEAN, NEW doc, NEW act, NEW shn, NEW buf,
         Agrees(ms, ns, kn, u, f, own, doc, act, shn, buf), Head(ms).type = "FILE_REQUEST",
         m.type = "FILE_CONTENT", m.file_path = Head(ms).file_path,
         m.file_path = f => m.full_text = doc
  PROVE  Agrees(Tail(ms), Append(ns, m), kn, u, f, own, doc, act, shn, buf)
<1>1. Loads(Tail(ms), Append(ns, m), act)
  BY LoadsAnswered DEF Agrees
<1>2. Asks(Tail(ms), ns, kn, u, f, own)
  BY AsksTaken DEF Agrees
<1>3. Tail(ms) \in Seq(ToServer)
  OBVIOUS
<1>4. Asks(Tail(ms), Append(ns, m), kn, u, f, own)
  BY <1>2, <1>3, AsksSent
<1>5. TextsAgree(Tail(ms), Append(ns, m), f, own, doc, act, shn, buf)
  BY TextsAnswered DEF Agrees
<1> QED
  BY <1>1, <1>4, <1>5 DEF Agrees

\* The server grants the request of u and tells it.
LEMMA AgreesGranted ==
  ASSUME NEW ms \in Seq(ToServer), ms # <<>>, NEW ns \in Seq(ToClient), NEW m \in ToClient,
         NEW kn, NEW u, NEW f, NEW own \in BOOLEAN, NEW doc, NEW act, NEW shn, NEW buf,
         NEW now \in BOOLEAN, Agrees(ms, ns, kn, u, f, own, doc, act, shn, buf),
         Is(Head(ms), "LOCK_REQUEST", f), m.type = "LOCK_SYNC",
         m.active_locks[f] = {u} <=> now
  PROVE  Agrees(Tail(ms), Append(ns, m), kn, u, f, now, doc, act, shn, buf)
<1>1. Head(ms).type # "FILE_REQUEST" /\ Tail(ms) \in Seq(ToServer)
  BY DEF Is
<1>2. Loads(Tail(ms), Append(ns, m), act)
  BY <1>1, LoadsTaken, LoadsSent DEF Agrees
<1>3. /\ Asks(Tail(ms), Append(ns, m), kn, u, f, now)
      /\ \A k \in 1..Len(Tail(ms)) : ~Is(Tail(ms)[k], "DELTA", f)
  BY AsksGranted DEF Agrees
<1>4. TextsAgree(Tail(ms), ns, f, now, doc, act, shn, buf)
  BY <1>1, <1>3, TextsTaken DEF Agrees
<1>5. TextsAgree(Tail(ms), Append(ns, m), f, now, doc, act, shn, buf)
  BY <1>4, TextsSent DEF Carries
<1> QED
  BY <1>2, <1>3, <1>5 DEF Agrees

\* The server accepts the edit of u, which then extends the document.
LEMMA AgreesAccepted ==
  ASSUME NEW ms \in Seq(ToServer), ms # <<>>, NEW ns \in Seq(ToClient), NEW kn, NEW u, NEW f,
         NEW doc, NEW act, NEW shn, NEW buf,
         Agrees(ms, ns, kn, u, f, TRUE, doc, act, shn, buf), Told(ns, kn, u, f, TRUE),
         Is(Head(ms), "DELTA", f)
  PROVE  /\ Agrees(Tail(ms), ns, kn, u, f, TRUE, Head(ms).full_text, act, shn, buf)
         /\ IsPrefix(doc, Head(ms).full_text)
<1>1. Head(ms).type # "FILE_REQUEST" /\ Head(ms) = ms[1] /\ 1 \in 1..Len(ms)
  BY DEF Is
<1>2. Loads(Tail(ms), ns, act)
  BY <1>1, LoadsTaken DEF Agrees
<1>3. Asks(Tail(ms), ns, kn, u, f, TRUE)
  BY AsksTaken DEF Agrees
<1>4. Steady(ns, kn, u, f) /\ kn = {u}
  BY <1>1 DEF Agrees, Asks, EditsKnowingly
<1>5. \A i \in 1..Len(ns) : ~Is(ns[i], "DELTA", f)
  BY <1>4, NoEditForOwner
<1>6. \A i \in 1..Len(ns) : ns[i].type # "FILE_CONTENT"
  BY <1>1 DEF Agrees, Loads, NoEditWhileLoading, Is
<1>7. \A i \in 1..Len(ns) : ~Carries(ns[i], f)
  BY <1>5, <1>6 DEF Carries, Is
<1>8. TextsAgree(ms, ns, f, TRUE, doc, act, shn, buf)
  BY DEF Agrees
<1>9. /\ TextsAgree(Tail(ms), ns, f, TRUE, Head(ms).full_text, act, shn, buf)
      /\ IsPrefix(doc, Head(ms).full_text)
  BY <1>7, <1>8, TextsAccepted
<1> QED
  BY <1>2, <1>3, <1>9 DEF Agrees

\* The server sends u, who does not own f, another user's edit of it.
LEMMA AgreesEdited ==
  ASSUME NEW ms, NEW ns \in Seq(ToClient), NEW m \in ToClient, NEW kn, NEW u, NEW f,
         NEW doc, NEW act, NEW shn, NEW buf,
         Agrees(ms, ns, kn, u, f, FALSE, doc, act, shn, buf), Is(m, "DELTA", f)
  PROVE  Agrees(ms, Append(ns, m), kn, u, f, FALSE, m.full_text, act, shn, buf)
<1>1. m.type # "FILE_CONTENT" /\ m.type # "LOCK_SYNC"
  BY DEF Is
<1>2. Loads(ms, Append(ns, m), act)
  BY <1>1, LoadsSent DEF Agrees
<1>3. Asks(ms, Append(ns, m), kn, u, f, FALSE)
  BY <1>1, AsksSent DEF Agrees
<1>4. TextsAgree(ms, Append(ns, m), f, FALSE, m.full_text, act, shn, buf)
  BY TextsEdited
<1> QED
  BY <1>2, <1>3, <1>4 DEF Agrees

\* A message arrives.
LEMMA AgreesArrived ==
  ASSUME NEW ms, NEW ns \in Seq(ToClient), ns # <<>>, NEW kn, NEW u, NEW f,
         NEW own \in BOOLEAN, NEW doc \in Texts, NEW act, NEW shn, NEW buf, NEW shn2, NEW buf2,
         NEW kn2, kn2 = IF Head(ns).type = "LOCK_SYNC" THEN Head(ns).active_locks[f] ELSE kn,
         Agrees(ms, ns, kn, u, f, own, doc, act, shn, buf), Told(ns, kn, u, f, own),
         act = f => /\ shn2 = IF Carries(Head(ns), f) THEN f ELSE shn
                    /\ buf2 = IF Carries(Head(ns), f) THEN Head(ns).full_text ELSE buf
  PROVE  Agrees(ms, Tail(ns), kn2, u, f, own, doc, act, shn2, buf2)
<1>1. Loads(ms, Tail(ns), act)
  BY LoadsArrived DEF Agrees
<1>2. Asks(ms, Tail(ns), kn2, u, f, own)
  BY AsksArrived DEF Agrees
<1>3. Loads(ms, ns, act) /\ Asks(ms, ns, kn, u, f, own)
      /\ TextsAgree(ms, ns, f, own, doc, act, shn, buf)
  BY DEF Agrees
<1>4. TextsAgree(ms, Tail(ns), f, own, doc, act, shn2, buf2)
  BY <1>3, TextsArrived
<1> QED
  BY <1>1, <1>2, <1>4 DEF Agrees

\* A closed tab.
LEMMA AgreesNothing ==
  ASSUME NEW f \in Files, NEW kn, NEW u, NEW doc, NEW act, NEW buf
  PROVE  Agrees(<<>>, <<>>, kn, u, f, FALSE, doc, act, NoFile, buf)
<1>1. Loads(<<>>, <<>>, act)
  BY LoadsNothing
<1>2. Asks(<<>>, <<>>, kn, u, f, FALSE)
  BY AsksNothing
<1>3. TextsAgree(<<>>, <<>>, f, FALSE, doc, act, NoFile, buf)
  BY TextsNothing
<1> QED
  BY <1>1, <1>2, <1>3 DEF Agrees

------------------------------------------------------------------------------
(* The tabs of the system *)

TabAgrees(u, f) ==
  Agrees(up[u], down[u], activeLocks[u][f], u, f, Owner(f, u), docs[f],
         activeFile[u], shown[u], buffer[u])
TabsAgree == \A u \in Users, f \in Files : TabAgrees(u, f)

\* A tab that is closed shows nothing.
Blank == \A u \in Users \ connected : shown[u] = NoFile

\* What holds of all tabs.
Sound == IInv /\ OwnersAreConnected /\ NoSharers /\ TabsTold

\* The types of what belongs to a tab.
LEMMA TabTyped ==
  ASSUME IInv, NEW u \in Users, NEW f \in Files
  PROVE  /\ up[u] \in Seq(ToServer) /\ down[u] \in Seq(ToClient)
         /\ Owner(f, u) \in BOOLEAN /\ docs[f] \in Texts /\ buffer[u] \in Texts
         /\ activeFile[u] \in Files
  BY DEF IInv, TypeOK, Owner, hdlm!IsExclusiveOwner

\* The tab after a step.
LEMMA TabAgreesNext ==
  ASSUME NEW u, NEW f,
         Agrees(up'[u], down'[u], activeLocks'[u][f], u, f,
                hdlm!IsExclusiveOwner(tree', f, u), docs'[f],
                activeFile'[u], shown'[u], buffer'[u])
  PROVE  TabAgrees(u, f)'
  BY DEF TabAgrees, Owner

\* A tab that is not connected after a step.
LEMMA TabAgreesClosed ==
  ASSUME IInv', OwnersAreConnected', Blank', NEW u \in Users, u \notin connected',
         NEW f \in Files
  PROVE  TabAgrees(u, f)'
<1>1. up'[u] = <<>> /\ down'[u] = <<>> /\ shown'[u] = NoFile
  BY DEF IInv, Gone, Blank
<1>2. ~hdlm!IsExclusiveOwner(tree', f, u)
  <2>1. f \in hdlm!Targets
    BY FilesAssumption DEF hdlm!Targets, hdlm!Root
  <2> QED
    BY <2>1 DEF OwnersAreConnected, hdlm!HeldBy, hdlm!Holds, hdlm!IsExclusiveOwner
<1>3. hdlm!IsExclusiveOwner(tree', f, u) = FALSE
  BY <1>2 DEF hdlm!IsExclusiveOwner
<1>4. Agrees(<<>>, <<>>, activeLocks'[u][f], u, f, FALSE, docs'[f], activeFile'[u], NoFile,
             buffer'[u])
  BY AgreesNothing
<1>5. Agrees(up'[u], down'[u], activeLocks'[u][f], u, f,
             hdlm!IsExclusiveOwner(tree', f, u), docs'[f],
             activeFile'[u], shown'[u], buffer'[u])
  BY <1>1, <1>3, <1>4
<1> QED
  BY <1>5, TabAgreesNext

\* A tab of which nothing changes.
LEMMA TabAgreesStays ==
  ASSUME NEW u, NEW f, TabAgrees(u, f), up'[u] = up[u], down'[u] = down[u], ViewKept(u),
         hdlm!IsExclusiveOwner(tree', f, u) <=> Owner(f, u), docs'[f] = docs[f]
  PROVE  TabAgrees(u, f)'
<1>1. hdlm!IsExclusiveOwner(tree', f, u) = Owner(f, u)
  BY DEF Owner, hdlm!IsExclusiveOwner
<1>2. Agrees(up'[u], down'[u], activeLocks'[u][f], u, f,
             hdlm!IsExclusiveOwner(tree', f, u), docs'[f],
             activeFile'[u], shown'[u], buffer'[u])
  BY <1>1 DEF TabAgrees, ViewKept
<1> QED
  BY <1>2, TabAgreesNext

\* A connected tab that is told the new locks, of which it has gained none.
LEMMA TabAgreesAnnounced ==
  ASSUME IInv, TreeOK(tree'), NoSharersIn(tree'), NEW u \in Users, NEW f \in Files,
         NEW ms, Agrees(ms, down[u], activeLocks[u][f], u, f, Owner(f, u), docs[f],
                        activeFile[u], shown[u], buffer[u]),
         up'[u] = ms, down'[u] = Append(down[u], LockSync(tree')), ViewKept(u),
         UNCHANGED docs, hdlm!IsExclusiveOwner(tree', f, u) => Owner(f, u)
  PROVE  TabAgrees(u, f)'
<1> DEFINE m == LockSync(tree')
           now == hdlm!IsExclusiveOwner(tree', f, u)
<1>1. m \in ToClient /\ m.type = "LOCK_SYNC" /\ m.active_locks = hdlm!ActiveLocks(tree')
  BY ToClientTyped DEF LockSync
<1>2. m.active_locks[f] = {u} <=> now
  BY <1>1, ShownOwner
<1>3. down[u] \in Seq(ToClient) /\ Owner(f, u) \in BOOLEAN /\ now \in BOOLEAN
  BY TabTyped DEF hdlm!IsExclusiveOwner
<1>4. (now => Owner(f, u)) /\ down'[u] = Append(down[u], m)
  OBVIOUS
<1> HIDE DEF m, now
<1>5. Agrees(ms, Append(down[u], m), activeLocks[u][f], u, f, now, docs[f],
             activeFile[u], shown[u], buffer[u])
  BY <1>1, <1>2, <1>3, <1>4, AgreesTold
<1>6. Agrees(up'[u], down'[u], activeLocks'[u][f], u, f, now, docs'[f],
             activeFile'[u], shown'[u], buffer'[u])
  BY <1>4, <1>5 DEF ViewKept
<1> QED
  BY <1>6, TabAgreesNext DEF now

------------------------------------------------------------------------------
(* The server *)

\* The tab of the message that the server handles.
LEMMA HandledTab ==
  ASSUME Sound, TabsAgree, IInv', NoSharers', NEW u \in Users, NEW g \in Files, Handled(u),
         \/ Unheard(u)
         \/ Lost(u)
         \/ \E f \in Files : Reverted(u, f) \/ Loaded(u, f) \/ Accepted(u, f) \/ Seized(u, f)
  PROVE  TabAgrees(u, g)'
<1> DEFINE ms == up[u]
           h == Head(ms)
           own == Owner(g, u)
<1>1. /\ ms \in Seq(ToServer) /\ down[u] \in Seq(ToClient) /\ own \in BOOLEAN
      /\ docs \in [Files -> Texts] /\ IInv
  BY TabTyped DEF Sound, IInv, TypeOK
<1>2. /\ ms # <<>> /\ up'[u] = Tail(ms) /\ ViewKept(u) /\ u \in connected
  BY DEF Handled, ViewKept
<1>3. Agrees(ms, down[u], activeLocks[u][g], u, g, own, docs[g], activeFile[u], shown[u],
             buffer[u])
  BY DEF TabsAgree, TabAgrees
<1>4. h.type # "FILE_REQUEST" =>
        Agrees(Tail(ms), down[u], activeLocks[u][g], u, g, own, docs[g], activeFile[u],
               shown[u], buffer[u])
  <2> HIDE DEF own
  <2> QED
    BY <1>1, <1>2, <1>3, AgreesTaken
<1>5. UNCHANGED tree => hdlm!IsExclusiveOwner(tree', g, u) = own
  BY DEF Owner, hdlm!IsExclusiveOwner
<1>6. TreeOK(tree') /\ NoSharersIn(tree') /\ g \in Nodes
  BY FilesAssumption DEF IInv, NoSharers
<1>7. ASSUME NEW ns, NEW d, UNCHANGED tree, down'[u] = ns, docs'[g] = d,
             Agrees(Tail(ms), ns, activeLocks[u][g], u, g, own, d, activeFile[u],
                    shown[u], buffer[u])
      PROVE  TabAgrees(u, g)'
  <2>1. Agrees(up'[u], down'[u], activeLocks'[u][g], u, g,
               hdlm!IsExclusiveOwner(tree', g, u), docs'[g],
               activeFile'[u], shown'[u], buffer'[u])
    BY <1>2, <1>5, <1>7 DEF ViewKept
  <2> QED
    BY <2>1, TabAgreesNext
<1>8. CASE Unheard(u)
  <2>1. UNCHANGED tree /\ down'[u] = down[u] /\ docs'[g] = docs[g] /\ h.type # "FILE_REQUEST"
    BY <1>8 DEF Unheard
  <2> HIDE DEF ms, h, own
  <2> QED
    BY <1>4, <1>7, <2>1
<1>9. CASE Lost(u)
  <2>1. /\ down'[u] = Append(down[u], LockSync(tree')) /\ UNCHANGED docs
        /\ h.type # "FILE_REQUEST"
        /\ hdlm!IsExclusiveOwner(tree', g, u) => own
    BY <1>2, <1>6, <1>9 DEF Lost, Sent, GainsNone, Owner
  <2>2. Agrees(Tail(ms), down[u], activeLocks[u][g], u, g, Owner(g, u), docs[g],
               activeFile[u], shown[u], buffer[u])
    BY <1>4, <2>1
  <2>3. hdlm!IsExclusiveOwner(tree', g, u) => Owner(g, u)
    BY <2>1
  <2> HIDE DEF ms, h, own
  <2> QED
    BY <1>1, <1>2, <1>6, <2>1, <2>2, <2>3, TabAgreesAnnounced
<1>10. ASSUME NEW f \in Files, Reverted(u, f) PROVE TabAgrees(u, g)'
  <2> DEFINE m == TextMsg("STATE_REVERT", f, docs[f])
  <2>1. m \in ToClient /\ m.type = "STATE_REVERT" /\ ~Carries(m, g)
    BY <1>1, ToClientTyped DEF TextMsg, Carries
  <2>2. /\ UNCHANGED tree /\ docs'[g] = docs[g] /\ down'[u] = Append(down[u], m)
        /\ h.type # "FILE_REQUEST"
    BY <1>10 DEF Reverted, Sent, Is
  <2> HIDE DEF m, own, h
  <2>3. Tail(ms) \in Seq(ToServer)
    BY <1>1, <1>2
  <2>4. Agrees(Tail(ms), Append(down[u], m), activeLocks[u][g], u, g, own, docs[g],
               activeFile[u], shown[u], buffer[u])
    BY <1>1, <1>4, <2>1, <2>2, <2>3, AgreesSent
  <2> QED
    BY <1>7, <2>2, <2>4
<1>11. ASSUME NEW f \in Files, Loaded(u, f) PROVE TabAgrees(u, g)'
  <2> DEFINE m == TextMsg("FILE_CONTENT", f, docs[f])
  <2>1. /\ m \in ToClient /\ m.type = "FILE_CONTENT" /\ m.file_path = f
        /\ m.file_path = g => m.full_text = docs[g]
    BY <1>1, ToClientTyped DEF TextMsg
  <2>2. /\ UNCHANGED tree /\ docs'[g] = docs[g] /\ down'[u] = Append(down[u], m)
        /\ h.type = "FILE_REQUEST" /\ h.file_path = f
    BY <1>11 DEF Loaded, Sent, Is
  <2> HIDE DEF m, own
  <2>3. Agrees(Tail(ms), Append(down[u], m), activeLocks[u][g], u, g, own, docs[g],
               activeFile[u], shown[u], buffer[u])
    BY <1>1, <1>2, <1>3, <2>1, <2>2, AgreesAnswered
  <2> QED
    BY <1>7, <2>2, <2>3
<1>12. ASSUME NEW f \in Files, Accepted(u, f) PROVE TabAgrees(u, g)'
  <2>1. UNCHANGED tree /\ down'[u] = down[u] /\ Is(h, "DELTA", f) /\ Owner(f, u)
    BY <1>12 DEF Accepted, Sent
  <2>2. docs'[g] = IF g = f THEN h.full_text ELSE docs[g]
    BY <1>1, <1>12 DEF Accepted
  <2>3. CASE g # f
    <3>1. h.type # "FILE_REQUEST" /\ docs'[g] = docs[g]
      BY <2>1, <2>2, <2>3 DEF Is
    <3> HIDE DEF own, h, ms
    <3> QED
      BY <1>4, <1>7, <2>1, <3>1
  <2>4. CASE g = f
    <3>1. own = TRUE
      BY <1>1, <2>1, <2>4
    <3>2. Told(down[u], activeLocks[u][g], u, g, own)
      BY DEF Sound, TabsTold, TabTold
    <3>3. docs'[g] = h.full_text /\ Is(h, "DELTA", g)
      BY <2>1, <2>2, <2>4
    <3> HIDE DEF own
    <3>4. Agrees(ms, down[u], activeLocks[u][g], u, g, TRUE, docs[g], activeFile[u], shown[u],
                 buffer[u])
      BY <1>3, <3>1
    <3>5. Told(down[u], activeLocks[u][g], u, g, TRUE)
      BY <3>1, <3>2
    <3>6. Agrees(Tail(ms), down[u], activeLocks[u][g], u, g, TRUE, h.full_text, activeFile[u],
                 shown[u], buffer[u])
      BY <1>1, <1>2, <3>3, <3>4, <3>5, AgreesAccepted
    <3>7. Agrees(Tail(ms), down[u], activeLocks[u][g], u, g, own, h.full_text, activeFile[u],
                 shown[u], buffer[u])
      BY <3>1, <3>6
    <3> QED
      BY <1>7, <2>1, <3>3, <3>7
  <2> QED
    BY <2>3, <2>4
<1>13. ASSUME NEW f \in Files, Seized(u, f) PROVE TabAgrees(u, g)'
  <2>1. /\ down'[u] = Append(down[u], LockSync(tree')) /\ UNCHANGED docs
        /\ Is(h, "LOCK_REQUEST", f)
        /\ g # f => (hdlm!IsExclusiveOwner(tree', g, u) => own)
    BY <1>2, <1>6, <1>13 DEF Seized, Sent, GainsOnly, Owner
  <2>2. CASE g # f
    <3>1. h.type # "FILE_REQUEST"
      BY <2>1 DEF Is
    <3> QED
      BY <1>1, <1>2, <1>4, <1>6, <2>1, <2>2, <3>1, TabAgreesAnnounced
  <2>3. CASE g = f
    <3> DEFINE m == LockSync(tree')
               now == hdlm!IsExclusiveOwner(tree', g, u)
    <3>1. m \in ToClient /\ m.type = "LOCK_SYNC" /\ m.active_locks = hdlm!ActiveLocks(tree')
      BY <1>6, ToClientTyped DEF LockSync
    <3>2. m.active_locks[g] = {u} <=> now
      BY <1>6, <3>1, ShownOwner
    <3>3. now \in BOOLEAN
      BY DEF hdlm!IsExclusiveOwner
    <3>4. down'[u] = Append(down[u], m) /\ Is(h, "LOCK_REQUEST", g)
      BY <2>1, <2>3
    <3> HIDE DEF m, now, own
    <3>5. Agrees(Tail(ms), Append(down[u], m), activeLocks[u][g], u, g, now, docs[g],
                 activeFile[u], shown[u], buffer[u])
      <4> DEFINE ns == down[u]
                 doc == docs[g]
      <4>1. /\ ms \in Seq(ToServer) /\ ms # <<>> /\ ns \in Seq(ToClient)
            /\ Agrees(ms, ns, activeLocks[u][g], u, g, own, doc, activeFile[u], shown[u],
                      buffer[u])
            /\ Is(Head(ms), "LOCK_REQUEST", g)
        BY <1>1, <1>2, <1>3, <3>4
      <4> HIDE DEF ms, ns, doc, h
      <4> QED
        BY <1>1, <3>1, <3>2, <3>3, <4>1, AgreesGranted DEF ns, doc
    <3>6. Agrees(up'[u], down'[u], activeLocks'[u][g], u, g, now, docs'[g],
                 activeFile'[u], shown'[u], buffer'[u])
      BY <1>2, <2>1, <3>4, <3>5 DEF ViewKept
    <3> QED
      BY <3>6, TabAgreesNext DEF now
  <2> QED
    BY <2>2, <2>3
<1> QED
  BY <1>8, <1>9, <1>10, <1>11, <1>12, <1>13

\* Another tab than that of the message the server handles.
LEMMA OtherTab ==
  ASSUME Sound, TabsAgree, IInv', OwnersAreConnected', NoSharers', Blank',
         NEW w \in Users, NEW u \in Users \ {w}, NEW g \in Files, Handled(w),
         \/ Unheard(w)
         \/ Lost(w)
         \/ \E f \in Files : Reverted(w, f) \/ Loaded(w, f) \/ Accepted(w, f) \/ Seized(w, f)
  PROVE  TabAgrees(u, g)'
<1> DEFINE own == Owner(g, u)
<1>1. CASE u \notin connected
  <2>1. u \notin connected'
    BY <1>1 DEF Handled
  <2> QED
    BY <2>1, TabAgreesClosed
<1>2. CASE u \in connected
  <2>1. /\ up[u] \in Seq(ToServer) /\ down[u] \in Seq(ToClient) /\ own \in BOOLEAN
        /\ docs \in [Files -> Texts] /\ IInv
    BY TabTyped DEF Sound, IInv, TypeOK
  <2>2. up'[u] = up[u] /\ ViewKept(u)
    BY DEF Handled, ViewKept
  <2>3. TabAgrees(u, g)
    BY DEF TabsAgree
  <2>4. Agrees(up[u], down[u], activeLocks[u][g], u, g, own, docs[g], activeFile[u], shown[u],
               buffer[u])
    BY <2>3 DEF TabAgrees
  <2>5. UNCHANGED tree => hdlm!IsExclusiveOwner(tree', g, u) = own
    BY DEF Owner, hdlm!IsExclusiveOwner
  <2>6. TreeOK(tree') /\ NoSharersIn(tree') /\ g \in Nodes
    BY FilesAssumption DEF IInv, NoSharers
  <2>7. ASSUME UNCHANGED <<tree, docs>>, down'[u] = down[u] PROVE TabAgrees(u, g)'
    BY <2>2, <2>3, <2>5, <2>7, TabAgreesStays
  <2>8. ASSUME UNCHANGED docs, Sent(connected, LockSync(tree')),
               hdlm!IsExclusiveOwner(tree', g, u) => own
        PROVE  TabAgrees(u, g)'
    <3>1. down'[u] = Append(down[u], LockSync(tree'))
      BY <1>2, <2>8 DEF Sent
    <3> QED
      BY <2>1, <2>2, <2>4, <2>6, <2>8, <3>1, TabAgreesAnnounced
  <2>9. CASE Unheard(w)
    BY <2>7, <2>9 DEF Unheard
  <2>10. CASE Lost(w)
    BY <2>6, <2>8, <2>10 DEF Lost, GainsNone, Owner
  <2>11. ASSUME NEW f \in Files, Reverted(w, f) PROVE TabAgrees(u, g)'
    BY <2>7, <2>11 DEF Reverted, Sent
  <2>12. ASSUME NEW f \in Files, Loaded(w, f) PROVE TabAgrees(u, g)'
    BY <2>7, <2>12 DEF Loaded, Sent
  <2>13. ASSUME NEW f \in Files, Seized(w, f) PROVE TabAgrees(u, g)'
    BY <2>6, <2>8, <2>13 DEF Seized, GainsOnly, Owner
  <2>14. ASSUME NEW f \in Files, Accepted(w, f) PROVE TabAgrees(u, g)'
    <3> DEFINE text == Head(up[w]).full_text
               m == Edit(f, text, w)
    <3>1. /\ UNCHANGED tree /\ docs' = [docs EXCEPT ![f] = text] /\ Owner(f, w)
          /\ Is(Head(up[w]), "DELTA", f) /\ down'[u] = Append(down[u], m)
      BY <1>2, <2>14 DEF Accepted, Sent
    <3>2. text \in Texts
      <4>1. up[w] \in Seq(ToServer) /\ up[w] # <<>>
        BY DEF Sound, IInv, TypeOK, Handled
      <4>2. Head(up[w]) \in ToServer
        BY <4>1
      <4> QED
        BY <3>1, <4>2, FromTab DEF Is
    <3>3. m \in ToClient /\ Is(m, "DELTA", f) /\ m.full_text = text /\ m.type = "DELTA"
      BY <3>2, ToClientTyped DEF Edit, Is
    <3>4. docs'[g] = IF g = f THEN text ELSE docs[g]
      BY <2>1, <3>1
    <3> HIDE DEF m, text
    <3>5. ASSUME Agrees(up[u], Append(down[u], m), activeLocks[u][g], u, g, own, docs'[g],
                        activeFile[u], shown[u], buffer[u])
          PROVE  TabAgrees(u, g)'
      <4>1. Agrees(up'[u], down'[u], activeLocks'[u][g], u, g,
                   hdlm!IsExclusiveOwner(tree', g, u), docs'[g],
                   activeFile'[u], shown'[u], buffer'[u])
        BY <2>2, <2>5, <3>1, <3>5 DEF ViewKept
      <4> QED
        BY <4>1, TabAgreesNext
    <3>6. CASE g # f
      <4>1. ~Carries(m, g) /\ m.type \notin {"LOCK_SYNC", "FILE_CONTENT"} /\ docs'[g] = docs[g]
        BY <3>3, <3>4, <3>6 DEF Carries, Is
      <4> HIDE DEF own
      <4>2. Agrees(up[u], Append(down[u], m), activeLocks[u][g], u, g, own, docs[g],
                   activeFile[u], shown[u], buffer[u])
        BY <2>1, <2>4, <3>3, <4>1, AgreesSent
      <4> QED
        BY <3>5, <4>1, <4>2
    <3>7. CASE g = f
      <4>1. own = FALSE
        BY <2>1, <3>1, <3>7 DEF Owner, hdlm!IsExclusiveOwner
      <4>2. docs'[g] = m.full_text /\ Is(m, "DELTA", g)
        BY <3>3, <3>4, <3>7
      <4> HIDE DEF own
      <4>3. Agrees(up[u], down[u], activeLocks[u][g], u, g, FALSE, docs[g], activeFile[u],
                   shown[u], buffer[u])
        BY <2>4, <4>1
      <4>4. Agrees(up[u], Append(down[u], m), activeLocks[u][g], u, g, FALSE, m.full_text,
                   activeFile[u], shown[u], buffer[u])
        BY <2>1, <3>3, <4>2, <4>3, AgreesEdited
      <4>5. Agrees(up[u], Append(down[u], m), activeLocks[u][g], u, g, own, docs'[g],
                   activeFile[u], shown[u], buffer[u])
        BY <4>1, <4>2, <4>4
      <4> QED
        BY <3>5, <4>5
    <3> QED
      BY <3>6, <3>7
  <2> QED
    BY <2>9, <2>10, <2>11, <2>12, <2>13, <2>14
<1> QED
  BY <1>1, <1>2

\* Whatever the server does with a message of w.
LEMMA TabsAgreeHandle ==
  ASSUME Sound, TabsAgree, Blank, IInv', OwnersAreConnected', NEW w \in Users, Handle(w)
  PROVE  TabsAgree' /\ Blank'
<1>1. /\ Handled(w) /\ NoSharers'
      /\ \/ Unheard(w)
         \/ Lost(w)
         \/ \E f \in Files : Reverted(w, f) \/ Loaded(w, f) \/ Accepted(w, f) \/ Seized(w, f)
  BY HandleOutcome DEF Sound
<1>2. Blank'
  BY <1>1 DEF Blank, Handled
<1>3. ASSUME NEW u \in Users, NEW g \in Files PROVE TabAgrees(u, g)'
  <2>1. CASE u = w
    BY <1>1, <2>1, HandledTab
  <2>2. CASE u # w
    BY <1>1, <1>2, <2>2, OtherTab
  <2> QED
    BY <2>1, <2>2
<1> QED
  BY <1>2, <1>3 DEF TabsAgree

\* Whatever connection ends.
LEMMA TabsAgreeClose ==
  ASSUME Sound, TabsAgree, Blank, IInv', OwnersAreConnected', NEW w \in Users, Close(w)
  PROVE  TabsAgree' /\ Blank'
<1>1. Closed(w) /\ NoSharers'
  BY CloseOutcome DEF Sound
<1>2. Blank'
  BY <1>1 DEF Blank, Closed, ViewKept
<1>3. TreeOK(tree') /\ NoSharersIn(tree')
  BY <1>1 DEF IInv, NoSharers
<1>4. ASSUME NEW u \in Users, NEW g \in Files PROVE TabAgrees(u, g)'
  <2>1. CASE u \notin connected'
    BY <1>2, <2>1, TabAgreesClosed
  <2>2. CASE u \in connected'
    <3>1. u \in connected /\ u \in Users \ {w}
      BY <1>1, <2>2 DEF Closed
    <3>2. /\ up'[u] = up[u] /\ ViewKept(u) /\ UNCHANGED docs
          /\ down'[u] = Append(down[u], LockSync(tree'))
      BY <1>1, <3>1 DEF Closed
    <3>3. g \in Nodes
      BY FilesAssumption
    <3>4. hdlm!IsExclusiveOwner(tree', g, u) => Owner(g, u)
      BY <1>1, <3>3 DEF Closed, GainsNone, Owner
    <3>5. Agrees(up[u], down[u], activeLocks[u][g], u, g, Owner(g, u), docs[g], activeFile[u],
                 shown[u], buffer[u])
      BY DEF TabsAgree, TabAgrees
    <3> QED
      BY <1>3, <3>2, <3>4, <3>5, TabAgreesAnnounced DEF Sound
  <2> QED
    BY <2>1, <2>2
<1> QED
  BY <1>2, <1>4 DEF TabsAgree

------------------------------------------------------------------------------
(* The tabs *)

\* Whatever arrives at a tab.
LEMMA TabsAgreeReceive ==
  ASSUME Sound, TabsAgree, Blank, NEW w \in Users, Receive(w)
  PROVE  TabsAgree' /\ Blank'
<1>1. Arrived(w) /\ IInv
  BY ReceiveOutcome DEF Sound
<1>2. Blank'
  BY <1>1 DEF Blank, Arrived, ViewKept
<1>3. ASSUME NEW u \in Users, NEW f \in Files PROVE TabAgrees(u, f)'
  <2>1. TabAgrees(u, f) /\ (hdlm!IsExclusiveOwner(tree', f, u) <=> Owner(f, u))
    BY <1>1 DEF TabsAgree, Arrived, Owner, hdlm!IsExclusiveOwner
  <2>2. CASE u # w
    BY <1>1, <2>1, <2>2, TabAgreesStays DEF Arrived
  <2>3. CASE u = w
    <3> DEFINE ns == down[u]
               h == Head(ns)
               kn == activeLocks[u][f]
               kn2 == IF h.type = "LOCK_SYNC" THEN h.active_locks[f] ELSE kn
               own == Owner(f, u)
    <3>1. ns \in Seq(ToClient) /\ own \in BOOLEAN /\ docs[f] \in Texts
      BY <1>1, TabTyped
    <3>2. /\ ns # <<>> /\ down'[u] = Tail(ns) /\ UNCHANGED <<tree, docs, up, activeFile>>
          /\ activeLocks'[u][f] = kn2
          /\ buffer'[u] = IF Written(u) THEN h.full_text ELSE buffer[u]
          /\ shown'[u] = IF Written(u) THEN activeFile[u] ELSE shown[u]
      BY <1>1, <2>3 DEF Arrived
    <3>3. Told(ns, kn, u, f, own)
      BY DEF Sound, TabsTold, TabTold
    <3>4. h = ns[1] /\ 1 \in 1..Len(ns)
      BY <3>1, <3>2
    <3>5. activeFile[u] = f => (Written(u) <=> Carries(h, f))
      <4>1. ASSUME Is(h, "DELTA", f) PROVE h.client_id # u /\ kn # {u}
        <5>1. h.client_id # u /\ Believes(ns, kn, u, f, 1, FALSE)
          BY <3>3, <3>4, <4>1 DEF Told
        <5>2. kn = {u} <=> FALSE
          BY <5>1, BelievesAtFirst
        <5> QED
          BY <5>1, <5>2
      <4> QED
        BY <4>1 DEF Written, Carries, Applies, Is
    <3>6. Agrees(up[u], ns, kn, u, f, own, docs[f], activeFile[u], shown[u], buffer[u])
      BY <2>1 DEF TabAgrees
    <3>7. activeFile[u] = f => /\ shown'[u] = IF Carries(h, f) THEN f ELSE shown[u]
                               /\ buffer'[u] = IF Carries(h, f) THEN h.full_text ELSE buffer[u]
      BY <3>2, <3>5
    <3>8. kn2 = IF Head(ns).type = "LOCK_SYNC" THEN Head(ns).active_locks[f] ELSE kn
      OBVIOUS
    <3> HIDE DEF ns, kn, kn2, own
    <3>9. Agrees(up[u], Tail(ns), kn2, u, f, own, docs[f], activeFile[u], shown'[u], buffer'[u])
      BY <3>1, <3>2, <3>3, <3>6, <3>7, <3>8, AgreesArrived
    <3>10. hdlm!IsExclusiveOwner(tree', f, u) = own
      BY <3>2 DEF own, Owner, hdlm!IsExclusiveOwner
    <3>11. Agrees(up'[u], down'[u], activeLocks'[u][f], u, f,
                  hdlm!IsExclusiveOwner(tree', f, u), docs'[f],
                  activeFile'[u], shown'[u], buffer'[u])
      BY <3>2, <3>9, <3>10
    <3> QED
      BY <3>11, TabAgreesNext
  <2> QED
    BY <2>2, <2>3
<1> QED
  BY <1>2, <1>3 DEF TabsAgree

\* The messages ms are no edits, and if the tab shows another file then, `now'
\* instead of act, they ask for its text once.
Opens(ms, act, now) ==
  /\ \A i \in 1..Len(ms) : ms[i].type # "DELTA"
  /\ \/ now = act /\ \A i \in 1..Len(ms) : ms[i].type # "FILE_REQUEST"
     \/ \E k \in 1..Len(ms) : /\ Is(ms[k], "FILE_REQUEST", now)
                              /\ \A i \in 1..Len(ms) : i # k => ms[i].type # "FILE_REQUEST"

\* They ask for no lock on f, or once, and u has not asked for it yet.
Requests(ms, ps, ns, kn, u, f) ==
  \/ \A i \in 1..Len(ps) : ~Is(ps[i], "LOCK_REQUEST", f)
  \/ /\ NeverTold(ns, kn, u, f)
     /\ \A i \in 1..Len(ms) : ~Is(ms[i], "LOCK_REQUEST", f)
     /\ \E k \in 1..Len(ps) : \A i \in 1..Len(ps) : Is(ps[i], "LOCK_REQUEST", f) => i = k

\* The user of a tab sends the messages ps, which are no edits.
LEMMA AgreesInput ==
  ASSUME NEW ms \in Seq(ToServer), NEW ns \in Seq(ToClient), NEW kn, NEW u, NEW f,
         NEW own \in BOOLEAN, NEW doc, NEW act, NEW shn, NEW buf, NEW now,
         NEW ps \in Seq(ToServer), Agrees(ms, ns, kn, u, f, own, doc, act, shn, buf),
         Told(ns, kn, u, f, own), Opens(ps, act, now), Requests(ms, ps, ns, kn, u, f)
  PROVE  Agrees(ms \o ps, ns, kn, u, f, own, doc, now, shn, buf)
<1>1. /\ Loads(ms, ns, act) /\ Asks(ms, ns, kn, u, f, own)
      /\ TextsAgree(ms, ns, f, own, doc, act, shn, buf)
  BY DEF Agrees
<1>2. \A i \in 1..Len(ps) : ps[i].type # "DELTA" /\ ~Is(ps[i], "DELTA", f)
  BY DEF Opens, Is
<1>3. Loads(ms \o ps, ns, now)
  <2>1. CASE now = act /\ \A i \in 1..Len(ps) : ps[i].type # "FILE_REQUEST"
    <3>1. \A i \in 1..Len(ps) : ps[i].type \notin {"FILE_REQUEST", "DELTA"}
      BY <1>2, <2>1
    <3>2. Loads(ms \o ps, ns, act)
      BY <1>1, <3>1, LoadsOther
    <3> QED
      BY <2>1, <3>2
  <2>2. ASSUME NEW k \in 1..Len(ps), Is(ps[k], "FILE_REQUEST", now),
               \A i \in 1..Len(ps) : i # k => ps[i].type # "FILE_REQUEST"
        PROVE  Loads(ms \o ps, ns, now)
    <3>1. \A i \in 1..Len(ps) : i # k => ps[i].type \notin {"FILE_REQUEST", "DELTA"}
      BY <1>2, <2>2
    <3> QED
      BY <1>1, <2>2, <3>1, LoadsOpened
  <2> QED
    BY <2>1, <2>2 DEF Opens
<1>4. Asks(ms \o ps, ns, kn, u, f, own)
  <2>1. CASE \A i \in 1..Len(ps) : ~Is(ps[i], "LOCK_REQUEST", f)
    BY <1>1, <1>2, <2>1, AsksOther
  <2>2. CASE /\ NeverTold(ns, kn, u, f)
             /\ \A i \in 1..Len(ms) : ~Is(ms[i], "LOCK_REQUEST", f)
             /\ \E k \in 1..Len(ps) :
                  \A i \in 1..Len(ps) : Is(ps[i], "LOCK_REQUEST", f) => i = k
    <3>1. PICK k \in 1..Len(ps) : \A i \in 1..Len(ps) : Is(ps[i], "LOCK_REQUEST", f) => i = k
      BY <2>2
    <3> QED
      BY <1>2, <2>2, <3>1, AsksRequested
  <2> QED
    BY <2>1, <2>2 DEF Requests
<1>5. TextsAgree(ms \o ps, ns, f, own, doc, now, shn, buf)
  <2>1. now = act \/ \E i \in 1..Len(ps) : ps[i].type = "FILE_REQUEST"
    BY DEF Opens, Is
  <2> QED
    BY <1>1, <1>2, <2>1, TextsOther
<1> QED
  BY <1>3, <1>4, <1>5 DEF Agrees

\* The user of a tab that shows the open file as its own, and is not loading, types.
LEMMA AgreesTyped ==
  ASSUME NEW ms \in Seq(ToServer), NEW ns \in Seq(ToClient), NEW kn, NEW u, NEW f,
         NEW own \in BOOLEAN, NEW doc \in Texts, NEW act, NEW buf \in Texts,
         NEW c \in 1..MaxClicks, NEW m \in ToServer,
         Agrees(ms, ns, kn, u, f, own, doc, act, act, buf), Told(ns, kn, u, f, own),
         f = act => kn = {u},
         \A i \in 1..Len(ms) : ms[i].type # "FILE_REQUEST",
         \A i \in 1..Len(ns) : ns[i].type # "FILE_CONTENT",
         m.type = "DELTA", m.file_path = act, m.full_text = Append(buf, c)
  PROVE  /\ Agrees(ms, ns, kn, u, f, own, doc, act, act, Append(buf, c))
         /\ Agrees(Append(ms, m), ns, kn, u, f, own, doc, act, act, Append(buf, c))
<1>1. /\ Loads(ms, ns, act) /\ Asks(ms, ns, kn, u, f, own)
      /\ TextsAgree(ms, ns, f, own, doc, act, act, buf)
  BY DEF Agrees
<1>2. Loads(Append(ms, m), ns, act)
  BY <1>1, LoadsEdited
<1>3. Asks(Append(ms, m), ns, kn, u, f, own)
  <2>1. CASE f = act
    BY <1>1, <2>1, AsksEdited
  <2>2. CASE f # act
    <3> DEFINE ps == <<m>>
    <3>1. ps \in Seq(ToServer) /\ Append(ms, m) = ms \o ps
      OBVIOUS
    <3>2. \A i \in 1..Len(ps) : ~Is(ps[i], "LOCK_REQUEST", f) /\ ~Is(ps[i], "DELTA", f)
      BY <2>2 DEF Is
    <3> HIDE DEF ps
    <3>3. Asks(ms \o ps, ns, kn, u, f, own)
      BY <1>1, <3>1, <3>2, AsksOther
    <3> QED
      BY <3>1, <3>3
  <2> QED
    BY <2>1, <2>2
<1>4. ASSUME f = act, own PROVE Shows(ms, ns, f, act, act)
  <2>1. kn = {u} /\ Steady(ns, kn, u, f)
    BY <1>1, <1>4 DEF Asks
  <2>2. \A i \in 1..Len(ns) : ~Is(ns[i], "DELTA", f)
    BY <2>1, NoEditForOwner
  <2> QED
    BY <1>4, <2>2 DEF Shows
<1>5. \A i \in 1..Len(ms) : ms[i] \in ToServer
  OBVIOUS
<1>6. /\ TextsAgree(ms, ns, f, own, doc, act, act, Append(buf, c))
      /\ TextsAgree(Append(ms, m), ns, f, own, doc, act, act, Append(buf, c))
  BY <1>1, <1>4, <1>5, TextsTyped
<1> QED
  BY <1>1, <1>2, <1>3, <1>6 DEF Agrees

\* A tab that neither shows f as its own, nor will be told so, nor has asked for it.
LEMMA NotAsked ==
  ASSUME IInv, NEW u \in Users, NEW f \in Files, ~Asked(u, f)
  PROVE  /\ NeverTold(down[u], activeLocks[u][f], u, f)
         /\ \A i \in 1..Len(up[u]) : ~Is(up[u][i], "LOCK_REQUEST", f)
<1>1. up[u] \in Seq(ToServer) /\ down[u] \in Seq(ToClient)
  BY TabTyped
<1>2. DOMAIN up[u] = 1..Len(up[u]) /\ DOMAIN down[u] = 1..Len(down[u])
  BY <1>1
<1>3. NeverTold(down[u], activeLocks[u][f], u, f)
  <2> SUFFICES ASSUME NEW j \in 0..Len(down[u]), Tells(down[u], j),
                      Says(down[u], activeLocks[u][f], u, f, j)
               PROVE  FALSE
    BY DEF NeverTold
  <2>1. CASE j = 0
    BY <2>1 DEF Says, Asked
  <2>2. CASE j # 0
    <3>1. j \in 1..Len(down[u])
      BY <1>1, <2>2
    <3> QED
      BY <1>2, <2>2, <3>1 DEF Says, Tells, Asked
  <2> QED
    BY <2>1, <2>2
<1>4. ASSUME NEW i \in 1..Len(up[u]), Is(up[u][i], "LOCK_REQUEST", f) PROVE FALSE
  <2>1. up[u][i] \in ToServer
    BY <1>1
  <2>2. up[u][i] = Msg("LOCK_REQUEST", f)
    BY <1>4, <2>1 DEF ToServer, Msg, Is
  <2> QED
    BY <1>2, <2>2 DEF Asked
<1> QED
  BY <1>3, <1>4

\* The user of w sends the messages ps, with now as the open file.
LEMMA InputTab ==
  ASSUME Sound, TabsAgree, NEW w \in Users, NEW ps \in Seq(ToServer), Input(w, ps),
         UNCHANGED editor, NEW now, activeFile' = [activeFile EXCEPT ![w] = now],
         Opens(ps, activeFile[w], now),
         \A f \in Files : Requests(up[w], ps, down[w], activeLocks[w][f], w, f)
  PROVE  TabsAgree'
<1>1. IInv /\ UNCHANGED <<tree, docs, connected, down, activeLocks, buffer, shown>>
  BY DEF Sound, Input, server, editor
<1>2. up \in [Users -> Seq(ToServer)] /\ activeFile \in [Users -> Files]
      /\ up' = [up EXCEPT ![w] = @ \o ps]
  BY <1>1 DEF IInv, TypeOK, Input
<1>3. ASSUME NEW u \in Users, NEW f \in Files PROVE TabAgrees(u, f)'
  <2>1. TabAgrees(u, f) /\ (hdlm!IsExclusiveOwner(tree', f, u) <=> Owner(f, u))
    BY <1>1 DEF TabsAgree, Owner, hdlm!IsExclusiveOwner
  <2>2. CASE u # w
    <3>1. up'[u] = up[u] /\ down'[u] = down[u] /\ docs'[f] = docs[f] /\ ViewKept(u)
      BY <1>1, <1>2, <2>2 DEF ViewKept
    <3> QED
      BY <2>1, <3>1, TabAgreesStays
  <2>3. CASE u = w
    <3>1. /\ up[u] \in Seq(ToServer) /\ down[u] \in Seq(ToClient) /\ Owner(f, u) \in BOOLEAN
      BY <1>1, TabTyped
    <3>2. Told(down[u], activeLocks[u][f], u, f, Owner(f, u))
      BY DEF Sound, TabsTold, TabTold
    <3>3. Agrees(up[u], down[u], activeLocks[u][f], u, f, Owner(f, u), docs[f],
                 activeFile[u], shown[u], buffer[u])
      BY <2>1 DEF TabAgrees
    <3>4. Opens(ps, activeFile[u], now) /\ Requests(up[u], ps, down[u], activeLocks[u][f], u, f)
      BY <2>3
    <3>5. Agrees(up[u] \o ps, down[u], activeLocks[u][f], u, f, Owner(f, u), docs[f],
                 now, shown[u], buffer[u])
      BY <3>1, <3>2, <3>3, <3>4, AgreesInput
    <3>6. up'[u] = up[u] \o ps /\ activeFile'[u] = now
      BY <1>2, <2>3
    <3>7. hdlm!IsExclusiveOwner(tree', f, u) = Owner(f, u)
      BY <1>1 DEF Owner, hdlm!IsExclusiveOwner
    <3>8. Agrees(up'[u], down'[u], activeLocks'[u][f], u, f,
                 hdlm!IsExclusiveOwner(tree', f, u), docs'[f],
                 activeFile'[u], shown'[u], buffer'[u])
      BY <1>1, <3>5, <3>6, <3>7
    <3> QED
      BY <3>8, TabAgreesNext
  <2> QED
    BY <2>2, <2>3
<1> QED
  BY <1>3 DEF TabsAgree

\* The user of w types.
LEMMA TypeTab ==
  ASSUME Patience, Sound, TabsAgree, NEW w \in Users, Type(w)
  PROVE  TabsAgree'
<1> DEFINE c == clicks + 1
           act == activeFile[w]
           text == Append(buffer[w], c)
           m == TextMsg("DELTA", act, text)
           ps == IF isRemoteUpdate[w] THEN <<>> ELSE <<m>>
<1>1. /\ activeLocks[w][act] = {w} /\ shown[w] = act /\ ~Loading(w)
      /\ Input(w, ps) /\ buffer' = [buffer EXCEPT ![w] = text]
      /\ UNCHANGED <<activeFile, shown>>
  BY DEF Type, Patience, HasLock
<1>2. IInv /\ UNCHANGED <<tree, docs, connected, down, activeLocks>>
  BY <1>1 DEF Sound, Input, server
<1>3. /\ up \in [Users -> Seq(ToServer)] /\ buffer \in [Users -> Texts]
      /\ up' = [up EXCEPT ![w] = @ \o ps] /\ act \in Files
  BY <1>1, <1>2 DEF IInv, TypeOK, Input
<1>4. c \in 1..MaxClicks
  BY <1>1, <1>2, BoundsAssumption DEF Input, IInv, TypeOK
<1>5. text \in Texts /\ m \in ToServer
  <2>1. text \in Texts
    BY <1>3, <1>4 DEF Texts
  <2> HIDE DEF text
  <2> QED
    BY <1>3, <2>1, ToServerTyped
<1>6. m.type = "DELTA" /\ m.file_path = act /\ m.full_text = text
  BY DEF TextMsg
<1>7. up'[w] = up[w] \/ up'[w] = Append(up[w], m)
  <2> HIDE DEF m
  <2>1. up'[w] = up[w] \o ps /\ up[w] \in Seq(ToServer)
    BY <1>3
  <2>2. up[w] \o <<>> = up[w] /\ up[w] \o <<m>> = Append(up[w], m)
    BY <1>5, <2>1
  <2> QED
    BY <2>1, <2>2
<1> HIDE DEF ps, m, text, c
<1>8. ASSUME NEW u \in Users, NEW f \in Files PROVE TabAgrees(u, f)'
  <2>1. TabAgrees(u, f) /\ (hdlm!IsExclusiveOwner(tree', f, u) <=> Owner(f, u))
    BY <1>2 DEF TabsAgree, Owner, hdlm!IsExclusiveOwner
  <2>2. CASE u # w
    <3>1. up'[u] = up[u] /\ down'[u] = down[u] /\ docs'[f] = docs[f] /\ ViewKept(u)
      BY <1>1, <1>2, <1>3, <2>2 DEF ViewKept
    <3> QED
      BY <2>1, <3>1, TabAgreesStays
  <2>3. CASE u = w
    <3> DEFINE kn == activeLocks[w][f]
               own == Owner(f, w)
    <3>1. /\ up[w] \in Seq(ToServer) /\ down[w] \in Seq(ToClient) /\ own \in BOOLEAN
          /\ docs[f] \in Texts /\ buffer[w] \in Texts
      BY <1>2, TabTyped
    <3>2. Told(down[w], kn, w, f, own)
      BY DEF Sound, TabsTold, TabTold
    <3>3. Agrees(up[w], down[w], kn, w, f, own, docs[f], act, act, buffer[w])
      BY <1>1, <2>1, <2>3 DEF TabAgrees
    <3>4. /\ \A i \in 1..Len(up[w]) : up[w][i].type # "FILE_REQUEST"
          /\ \A i \in 1..Len(down[w]) : down[w][i].type # "FILE_CONTENT"
      BY <1>1, <3>1 DEF Loading
    <3>5. f = act => kn = {w}
      BY <1>1
    <3>6. text = Append(buffer[w], c)
      BY DEF text
    <3> DEFINE ms == up[w]
               ns == down[w]
               buf == buffer[w]
               doc == docs[f]
    <3>7. /\ ms \in Seq(ToServer) /\ ns \in Seq(ToClient) /\ own \in BOOLEAN
          /\ doc \in Texts /\ buf \in Texts
          /\ Told(ns, kn, w, f, own)
          /\ Agrees(ms, ns, kn, w, f, own, doc, act, act, buf)
          /\ \A i \in 1..Len(ms) : ms[i].type # "FILE_REQUEST"
          /\ \A i \in 1..Len(ns) : ns[i].type # "FILE_CONTENT"
          /\ f = act => kn = {w}
      BY <3>1, <3>2, <3>3, <3>4, <3>5
    <3>8. /\ m \in ToServer /\ m.type = "DELTA" /\ m.file_path = act
          /\ m.full_text = Append(buf, c)
      BY <1>5, <1>6, <3>6
    <3> HIDE DEF kn, own, act, ms, ns, buf, doc
    <3>9. /\ Agrees(ms, ns, kn, w, f, own, doc, act, act, Append(buf, c))
          /\ Agrees(Append(ms, m), ns, kn, w, f, own, doc, act, act, Append(buf, c))
      BY <1>4, <3>7, <3>8, AgreesTyped
    <3>10. /\ Agrees(up[w], down[w], kn, w, f, own, docs[f], act, act, Append(buffer[w], c))
           /\ Agrees(Append(up[w], m), down[w], kn, w, f, own, docs[f], act, act,
                     Append(buffer[w], c))
      BY <3>9 DEF ms, ns, buf, doc
    <3>11. Agrees(up'[w], down[w], kn, w, f, own, docs[f], act, act, text)
      BY <1>7, <3>6, <3>10
    <3>12. buffer'[w] = text /\ hdlm!IsExclusiveOwner(tree', f, w) = own
      BY <1>1, <1>2, <1>3 DEF own, Owner, hdlm!IsExclusiveOwner
    <3>13. Agrees(up'[w], down'[w], activeLocks'[w][f], w, f,
                  hdlm!IsExclusiveOwner(tree', f, w), docs'[f],
                  activeFile'[w], shown'[w], buffer'[w])
      BY <1>1, <1>2, <3>11, <3>12 DEF kn, act
    <3> QED
      BY <2>3, <3>13, TabAgreesNext
  <2> QED
    BY <2>2, <2>3
<1> QED
  BY <1>8 DEF TabsAgree

\* Whatever the user of w does.
LEMMA TabsAgreeInput ==
  ASSUME Patience, Sound, TabsAgree, Blank, NEW w \in Users, UserInput(w)
  PROVE  TabsAgree' /\ Blank'
<1> DEFINE act == activeFile[w]
<1>1. IInv /\ act \in Files /\ activeFile \in [Users -> Files]
  BY DEF Sound, IInv, TypeOK
<1>2. activeFile = [activeFile EXCEPT ![w] = act]
  BY <1>1
<1>3. Blank'
  BY DEF Blank, UserInput, OpenFile, CreateFile, DeleteFile, PressAcquire, PressRelease, Type,
         Input, editor, server
<1>4. ASSUME NEW f \in Files, ~Asked(w, f), NEW ps, NEW k \in 1..Len(ps),
             \A i \in 1..Len(ps) : i # k => ps[i].type # "LOCK_REQUEST",
             ps[k].file_path = f, NEW g \in Files
      PROVE  Requests(up[w], ps, down[w], activeLocks[w][g], w, g)
  <2>1. CASE g = f
    <3>1. /\ NeverTold(down[w], activeLocks[w][g], w, g)
          /\ \A i \in 1..Len(up[w]) : ~Is(up[w][i], "LOCK_REQUEST", g)
      BY <1>1, <1>4, <2>1, NotAsked
    <3> QED
      BY <1>4, <3>1 DEF Requests, Is
  <2>2. CASE g # f
    BY <1>4, <2>2 DEF Requests, Is
  <2> QED
    BY <2>1, <2>2
<1>5. ASSUME NEW m \in ToServer, m.type \notin {"DELTA", "FILE_REQUEST"}
      PROVE  <<m>> \in Seq(ToServer) /\ Opens(<<m>>, act, act)
  BY <1>5 DEF Opens
<1>6. ASSUME NEW f \in Files, OpenFile(w, f) PROVE TabsAgree'
  <2> DEFINE m == Msg("FILE_REQUEST", f)
             ps == <<m>>
  <2>1. m \in ToServer /\ Is(m, "FILE_REQUEST", f)
    BY ToServerTyped DEF Msg, Is
  <2>2. Input(w, ps) /\ UNCHANGED editor /\ activeFile' = [activeFile EXCEPT ![w] = f]
    BY <1>6 DEF OpenFile
  <2> HIDE DEF m
  <2>3. ps \in Seq(ToServer) /\ Len(ps) = 1 /\ ps[1] = m
    BY <2>1
  <2> HIDE DEF ps
  <2>4. Opens(ps, act, f)
    <3>1. /\ 1 \in 1..Len(ps) /\ Is(ps[1], "FILE_REQUEST", f)
          /\ \A i \in 1..Len(ps) : i = 1
      BY <2>1, <2>3
    <3> QED
      BY <3>1 DEF Opens, Is
  <2>5. \A g \in Files : Requests(up[w], ps, down[w], activeLocks[w][g], w, g)
    BY <2>1, <2>3 DEF Requests, Is
  <2> QED
    BY <2>2, <2>3, <2>4, <2>5, InputTab
<1>7. ASSUME NEW f \in Files, CreateFile(w, f) PROVE TabsAgree'
  <2> DEFINE l == Msg("FILE_CREATE", f)
             m == Msg("FILE_REQUEST", f)
             n == Msg("LOCK_REQUEST", f)
             ps == <<l, m, n>>
  <2>1. /\ l \in ToServer /\ m \in ToServer /\ n \in ToServer
        /\ l.type = "FILE_CREATE" /\ Is(m, "FILE_REQUEST", f)
        /\ n.type = "LOCK_REQUEST" /\ n.file_path = f
    BY ToServerTyped DEF Msg, Is
  <2>2. /\ Input(w, ps) /\ UNCHANGED editor /\ activeFile' = [activeFile EXCEPT ![w] = f]
        /\ ~Asked(w, f)
    BY <1>7 DEF CreateFile, Patience
  <2> HIDE DEF l, m, n
  <2>3. ps \in Seq(ToServer) /\ Len(ps) = 3 /\ ps[1] = l /\ ps[2] = m /\ ps[3] = n
    BY <2>1
  <2> HIDE DEF ps
  <2>4. Opens(ps, act, f)
    <3>1. /\ 2 \in 1..Len(ps) /\ Is(ps[2], "FILE_REQUEST", f)
          /\ \A i \in 1..Len(ps) : i # 2 => ps[i].type \notin {"DELTA", "FILE_REQUEST"}
      BY <2>1, <2>3
    <3> QED
      BY <3>1 DEF Opens, Is
  <2>5. \A g \in Files : Requests(up[w], ps, down[w], activeLocks[w][g], w, g)
    <3>1. /\ 3 \in 1..Len(ps) /\ ps[3].file_path = f
          /\ \A i \in 1..Len(ps) : i # 3 => ps[i].type # "LOCK_REQUEST"
      BY <2>1, <2>3 DEF Is
    <3> QED
      BY <1>4, <2>2, <3>1
  <2> QED
    BY <2>2, <2>3, <2>4, <2>5, InputTab
<1>8. ASSUME NEW m \in ToServer, m.type \in {"FILE_DELETE", "LOCK_RELEASE"}, Input(w, <<m>>),
             UNCHANGED <<activeFile, editor>>
      PROVE  TabsAgree'
  <2> DEFINE ps == <<m>>
  <2>1. ps \in Seq(ToServer) /\ Opens(ps, act, act)
    BY <1>5, <1>8
  <2>2. \A g \in Files : Requests(up[w], ps, down[w], activeLocks[w][g], w, g)
    BY <1>8 DEF Requests, Is
  <2>3. Input(w, ps) /\ UNCHANGED editor /\ activeFile' = [activeFile EXCEPT ![w] = act]
    BY <1>2, <1>8
  <2> HIDE DEF ps
  <2> QED
    BY <2>1, <2>2, <2>3, InputTab
<1>9. ASSUME NEW p \in hdlm!Targets, DeleteFile(w, p) PROVE TabsAgree'
  <2> DEFINE m == Msg("FILE_DELETE", p)
  <2>1. m \in ToServer /\ m.type = "FILE_DELETE"
    BY ToServerTyped DEF Msg
  <2>2. Input(w, <<m>>) /\ UNCHANGED <<activeFile, editor>>
    BY <1>9 DEF DeleteFile
  <2> HIDE DEF m
  <2> QED
    BY <1>8, <2>1, <2>2
<1>10. CASE PressRelease(w)
  <2> DEFINE m == Msg("LOCK_RELEASE", act)
  <2>1. m \in ToServer /\ m.type = "LOCK_RELEASE"
    BY <1>1, ToServerTyped DEF Msg
  <2>2. Input(w, <<m>>) /\ UNCHANGED <<activeFile, editor>>
    BY <1>10 DEF PressRelease
  <2> HIDE DEF m
  <2> QED
    BY <1>3, <1>8, <2>1, <2>2
<1>11. CASE PressAcquire(w)
  <2> DEFINE m == Msg("LOCK_REQUEST", act)
             ps == <<m>>
  <2>1. m \in ToServer /\ m.type = "LOCK_REQUEST" /\ m.file_path = act
    BY <1>1, ToServerTyped DEF Msg
  <2>2. Input(w, ps) /\ UNCHANGED <<activeFile, editor>> /\ ~Asked(w, act)
    BY <1>11 DEF PressAcquire, Patience
  <2> HIDE DEF m
  <2>3. ps \in Seq(ToServer) /\ Opens(ps, act, act) /\ Len(ps) = 1 /\ ps[1] = m
    BY <1>5, <2>1
  <2> HIDE DEF ps
  <2>4. \A g \in Files : Requests(up[w], ps, down[w], activeLocks[w][g], w, g)
    <3>1. 1 \in 1..Len(ps) /\ ps[1].file_path = act /\ \A i \in 1..Len(ps) : i = 1
      BY <2>1, <2>3
    <3> QED
      BY <1>1, <1>4, <2>2, <3>1
  <2>5. activeFile' = [activeFile EXCEPT ![w] = act] /\ UNCHANGED editor
    BY <1>2, <2>2
  <2> QED
    BY <1>3, <2>2, <2>3, <2>4, <2>5, InputTab
<1>12. CASE Type(w)
  BY <1>3, <1>12, TypeTab
<1> QED
  BY <1>3, <1>6, <1>7, <1>9, <1>10, <1>11, <1>12 DEF UserInput

\* A step that changes nothing of the tabs, locks and documents.
LEMMA TabsAgreeStay ==
  ASSUME TabsAgree, Blank, connected \subseteq connected',
         UNCHANGED <<tree, docs, up, down, activeFile, activeLocks, buffer, shown>>
  PROVE  TabsAgree' /\ Blank'
<1>1. Blank'
  BY DEF Blank
<1>2. ASSUME NEW u \in Users, NEW g \in Files PROVE TabAgrees(u, g)'
  <2>1. TabAgrees(u, g) /\ (hdlm!IsExclusiveOwner(tree', g, u) <=> Owner(g, u))
    BY DEF TabsAgree, Owner, hdlm!IsExclusiveOwner
  <2> QED
    BY <2>1, TabAgreesStays DEF ViewKept
<1> QED
  BY <1>1, <1>2 DEF TabsAgree

\* Every step.
LEMMA TabsAgreeStep ==
  ASSUME Patience, Sound, Sound', TabsAgree, Blank, [Next]_vars
  PROVE  TabsAgree' /\ Blank'
<1>1. IInv' /\ OwnersAreConnected'
  BY DEF Sound
<1>2. ASSUME NEW u \in Users, Connect(u) PROVE TabsAgree' /\ Blank'
  BY <1>2, TabsAgreeStay DEF Connect, server, client, editor
<1>3. ASSUME NEW u \in Users, RemoteUpdateDone(u) PROVE TabsAgree' /\ Blank'
  BY <1>3, TabsAgreeStay DEF RemoteUpdateDone, server
<1>4. CASE UNCHANGED vars
  BY <1>4, TabsAgreeStay DEF vars, server, client, editor
<1> QED
  BY <1>1, <1>2, <1>3, <1>4, TabsAgreeHandle, TabsAgreeClose, TabsAgreeReceive, TabsAgreeInput
     DEF Next

\* The start.
LEMMA TabsAgreeInit == Init => TabsAgree /\ Blank
<1> SUFFICES ASSUME Init PROVE TabsAgree /\ Blank
  OBVIOUS
<1>1. Blank
  BY DEF Init, Blank
<1>2. ASSUME NEW u \in Users, NEW f \in Files PROVE TabAgrees(u, f)
  <2>1. up[u] = <<>> /\ down[u] = <<>> /\ shown[u] = NoFile
    BY DEF Init
  <2>2. tree[f] = hdlm!FreshNode
    BY FilesAssumption DEF Init, hdlm!Init
  <2>3. Owner(f, u) = FALSE
    BY <2>2 DEF Owner, hdlm!IsExclusiveOwner, hdlm!FreshNode
  <2>4. Agrees(<<>>, <<>>, activeLocks[u][f], u, f, FALSE, docs[f], activeFile[u], NoFile,
               buffer[u])
    BY AgreesNothing
  <2> QED
    BY <2>1, <2>3, <2>4 DEF TabAgrees
<1> QED
  BY <1>1, <1>2 DEF TabsAgree

------------------------------------------------------------------------------
(* The theorems *)

\* Every message and every text of every tab agrees with the documents, the locks
\* and what is under way, as long as the users wait for what they have asked for.
THEOREM TextsHold == ASSUME Patience PROVE Spec => [](Sound /\ TabsAgree /\ Blank)
<1>1. Sound /\ Sound' /\ TabsAgree /\ Blank /\ [Next]_vars => (TabsAgree /\ Blank)'
  BY TabsAgreeStep
<1>2. Init => TabsAgree /\ Blank
  BY TabsAgreeInit
<1>3. Spec => []Sound
  BY BeliefsHold DEF Sound
<1> QED
  BY <1>1, <1>2, <1>3, PTL DEF Spec

\* A document after a step extends what it was.
LEMMA UpdateKept ==
  ASSUME Sound, TabsAgree, [Next]_vars, NEW f \in Files
  PROVE  IsPrefix(docs[f], docs'[f])
<1>1. docs \in [Files -> Texts] /\ docs[f] \in Texts /\ IInv /\ NoSharers
  BY DEF Sound, IInv, TypeOK
<1>2. ASSUME docs'[f] = docs[f] PROVE IsPrefix(docs[f], docs'[f])
  BY <1>1, <1>2, PrefixSelf DEF Texts
<1>3. ASSUME NEW u \in Users, Handle(u) PROVE IsPrefix(docs[f], docs'[f])
  <2>1. /\ Handled(u)
        /\ \/ Unheard(u)
           \/ Lost(u)
           \/ \E g \in Files : Reverted(u, g) \/ Loaded(u, g) \/ Accepted(u, g) \/ Seized(u, g)
    BY <1>1, <1>3, HandleOutcome
  <2>2. ASSUME ~\E g \in Files : Accepted(u, g) PROVE IsPrefix(docs[f], docs'[f])
    <3>1. UNCHANGED docs
      BY <2>1, <2>2 DEF Unheard, Lost, Reverted, Loaded, Seized
    <3> QED
      BY <1>2, <3>1
  <2>3. ASSUME NEW g \in Files, Accepted(u, g) PROVE IsPrefix(docs[f], docs'[f])
    <3> DEFINE h == Head(up[u])
    <3>1. Is(h, "DELTA", g) /\ Owner(g, u) /\ docs'[f] = IF f = g THEN h.full_text ELSE docs[f]
      BY <1>1, <2>3 DEF Accepted
    <3>2. CASE f # g
      BY <1>2, <3>1, <3>2
    <3>3. CASE f = g
      <4>1. /\ up[u] \in Seq(ToServer) /\ up[u] # <<>> /\ down[u] \in Seq(ToClient)
            /\ Owner(f, u) \in BOOLEAN
        BY <1>1, <2>1, TabTyped DEF Handled
      <4>2. Owner(f, u) = TRUE
        BY <3>1, <3>3, <4>1
      <4>3. /\ Told(down[u], activeLocks[u][f], u, f, Owner(f, u))
            /\ Agrees(up[u], down[u], activeLocks[u][f], u, f, Owner(f, u), docs[f],
                      activeFile[u], shown[u], buffer[u])
        BY DEF Sound, TabsTold, TabTold, TabsAgree, TabAgrees
      <4>4. /\ Told(down[u], activeLocks[u][f], u, f, TRUE)
            /\ Agrees(up[u], down[u], activeLocks[u][f], u, f, TRUE, docs[f],
                      activeFile[u], shown[u], buffer[u])
        BY <4>2, <4>3
      <4>5. Is(h, "DELTA", f) /\ docs'[f] = h.full_text
        BY <3>1, <3>3
      <4>6. IsPrefix(docs[f], h.full_text)
        BY <4>1, <4>4, <4>5, AgreesAccepted
      <4> QED
        BY <4>5, <4>6
    <3> QED
      BY <3>2, <3>3
  <2> QED
    BY <2>2, <2>3
<1>4. ASSUME NEW u \in Users, Close(u) PROVE IsPrefix(docs[f], docs'[f])
  BY <1>2, <1>4 DEF Close, Disconnect
<1>5. ASSUME NEW u \in Users, UserInput(u) PROVE IsPrefix(docs[f], docs'[f])
  BY <1>2, <1>5, InputKeeps
<1>6. ASSUME NEW u \in Users, Receive(u) PROVE IsPrefix(docs[f], docs'[f])
  BY <1>1, <1>2, <1>6, ReceiveOutcome DEF Arrived
<1>7. ASSUME NEW u \in Users, Connect(u) \/ RemoteUpdateDone(u) PROVE IsPrefix(docs[f], docs'[f])
  BY <1>2, <1>7 DEF Connect, RemoteUpdateDone, server
<1>8. CASE UNCHANGED vars
  BY <1>2, <1>8 DEF vars, server
<1> QED
  BY <1>3, <1>4, <1>5, <1>6, <1>7, <1>8 DEF Next

\* No accepted edit is ever dropped from a document, through any race of edits,
\* hand-overs, preemptions, deletions, reloads and reconnections, for any number
\* of tabs and messages, as long as the users wait for what they have asked for.
THEOREM NoUpdateLost == ASSUME Patience PROVE Spec => NoLostUpdate
<1> DEFINE A == \A f \in Files : IsPrefix(docs[f], docs'[f])
<1>1. Sound /\ TabsAgree /\ [Next]_vars => A
  BY UpdateKept
<1>2. Spec => [](Sound /\ TabsAgree /\ Blank)
  BY TextsHold
<1> HIDE DEF A
<1>3. Spec => [][A]_vars
  BY <1>1, <1>2, PTL DEF Spec
<1> QED
  BY <1>3 DEF NoLostUpdate, A

\* When nothing is on its way, a tab shows every edit of its file that the server
\* has accepted, as long as the users wait for what they have asked for.
THEOREM SettledUpToDate == ASSUME Patience PROVE Spec => []SettledTabsUpToDate
<1>1. ASSUME Sound, TabsAgree PROVE SettledTabsUpToDate
  <2> SUFFICES ASSUME NEW u \in Users, Settled(u)
               PROVE  IsPrefix(docs[activeFile[u]], buffer[u])
    BY DEF SettledTabsUpToDate
  <2> DEFINE f == activeFile[u]
  <2>1. f \in Files
    BY <1>1 DEF Sound, IInv, TypeOK
  <2>2. up[u] = <<>> /\ down[u] = <<>> /\ shown[u] = f
    BY DEF Settled
  <2>3. TextsAgree(up[u], down[u], f, Owner(f, u), docs[f], f, f, buffer[u])
    BY <1>1, <2>1, <2>2 DEF TabsAgree, TabAgrees, Agrees
  <2> HIDE DEF f
  <2>4. 1..Len(<<>>) = {}
    OBVIOUS
  <2>5. Shows(up[u], down[u], f, f, f)
    BY <2>2, <2>4 DEF Shows
  <2>6. IsPrefix(docs[f], buffer[u])
    BY <2>3, <2>5 DEF TextsAgree, Current
  <2> QED
    BY <2>6 DEF f
<1>2. Spec => [](Sound /\ TabsAgree /\ Blank)
  BY TextsHold
<1> QED
  BY <1>1, <1>2, PTL

=============================================================================
