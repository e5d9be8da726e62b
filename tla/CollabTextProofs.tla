--------------------------- MODULE CollabTextProofs ---------------------------
(***************************************************************************)
(* Why no accepted edit is ever dropped and every settled tab shows all of *)
(* them: NoLostUpdate and SettledTabsUpToDate, for any users, files and    *)
(* bounds, while users type only into a loaded file and do not ask for a   *)
(* lock they have asked for.                                               *)
(*                                                                         *)
(* As in CollabProofs, ms is on its way from the tab of u and ns to  *)
(* it, kn are the owners it shows for the file f, and own is whether u     *)
(* owns f; doc is the server's text of f; act, shn and buf are the open    *)
(* file, the file whose text is in the editor, and that text.              *)
(***************************************************************************)
EXTENDS CollabProofs, SequenceTheorems

\* The users wait for what they have asked for.
Patience == TypesWhileLoading = FALSE /\ AsksAgain = FALSE

------------------------------------------------------------------------------
(* Sequences *)

\* Several messages more.
LEMMA SomeMore ==
  ASSUME NEW S, NEW ms \in Seq(S), NEW ps \in Seq(S)
  PROVE  LET ns == ms \o ps
         IN  /\ ns \in Seq(S)
             /\ Len(ms) \in Nat /\ Len(ps) \in Nat
             /\ Len(ns) = Len(ms) + Len(ps)
             /\ \A i \in 1..Len(ms) : ns[i] = ms[i]
             /\ \A i \in 1..Len(ps) : ns[Len(ms) + i] = ps[i]
             /\ \A i \in 1..Len(ns) :
                  \/ i \in 1..Len(ms) /\ ns[i] = ms[i]
                  \/ i > Len(ms) /\ i - Len(ms) \in 1..Len(ps) /\ ns[i] = ps[i - Len(ms)]
  OBVIOUS

\* A text is a prefix of itself.
LEMMA PrefixSelf == ASSUME NEW S, NEW s \in Seq(S) PROVE IsPrefix(s, s)
  BY DEF IsPrefix

\* What a text extends is also extended by the text with one edit more.
LEMMA PrefixMore ==
  ASSUME NEW S, NEW s \in Seq(S), NEW t \in Seq(S), NEW e \in S, IsPrefix(s, t)
  PROVE  IsPrefix(s, Append(t, e))
<1> DEFINE r == Append(t, e)
<1>1. Len(s) \in Nat /\ Len(t) \in Nat /\ Len(s) <= Len(t)
  BY DEF IsPrefix
<1>2. Len(r) = Len(t) + 1 /\ \A i \in 1..Len(t) : r[i] = t[i]
  BY OneMore
<1> DEFINE n == Len(s)
<1>3. /\ n \in 0..Len(t) /\ n \in 0..Len(r) /\ 1 \in 1..(Len(t) + 1) /\ 1 \in 1..(Len(r) + 1)
      /\ r \in Seq(S)
  BY <1>1, <1>2
<1> HIDE DEF n, r
<1>4. SubSeq(t, 1, n) \in Seq(S) /\ \A i \in 1..n : SubSeq(t, 1, n)[i] = t[i]
  BY <1>3, SubSeqProperties
<1>5. SubSeq(r, 1, n) \in Seq(S) /\ \A i \in 1..n : SubSeq(r, 1, n)[i] = r[i]
  BY <1>3, SubSeqProperties
<1>6. Len(SubSeq(t, 1, n)) = n /\ Len(SubSeq(r, 1, n)) = n
  BY <1>3, SubSeqProperties
<1>7. \A i \in 1..n : SubSeq(t, 1, n)[i] = SubSeq(r, 1, n)[i]
  BY <1>1, <1>2, <1>3, <1>4, <1>5
<1>8. SubSeq(r, 1, n) = SubSeq(t, 1, n)
  BY <1>4, <1>5, <1>6, <1>7, SeqEqual
<1> QED
  BY <1>1, <1>2, <1>8 DEF IsPrefix, n, r

------------------------------------------------------------------------------
(* Loading *)

\* The i-th of ms is the last message of this type.
LastOf(ms, i, type) ==
  ms[i].type = type /\ \A j \in 1..Len(ms) : j > i => ms[j].type # type

\* No edit is sent between a FILE_REQUEST and the arrival of its FILE_CONTENT.
NoEditWhileLoading(ms, ns) ==
  /\ \A i, j \in 1..Len(ms) : i < j /\ ms[i].type = "FILE_REQUEST" => ms[j].type # "DELTA"
  /\ \A i \in 1..Len(ns), j \in 1..Len(ms) :
       ns[i].type = "FILE_CONTENT" => ms[j].type # "DELTA"

\* What is loaded last is the open file.
LoadsActive(ms, ns, act) ==
  /\ \A i \in 1..Len(ms) : LastOf(ms, i, "FILE_REQUEST") => ms[i].file_path = act
  /\ (\A j \in 1..Len(ms) : ms[j].type # "FILE_REQUEST") =>
       \A i \in 1..Len(ns) : LastOf(ns, i, "FILE_CONTENT") => ns[i].file_path = act

Loads(ms, ns, act) == NoEditWhileLoading(ms, ns) /\ LoadsActive(ms, ns, act)

\* The server takes a message that is not a FILE_REQUEST.
LEMMA LoadsTaken ==
  ASSUME NEW ms \in Seq(ToServer), ms # <<>>, NEW ns \in Seq(ToClient), NEW act,
         Loads(ms, ns, act), Head(ms).type # "FILE_REQUEST"
  PROVE  Loads(Tail(ms), ns, act)
<1> DEFINE ps == Tail(ms)
<1>1. /\ Len(ms) \in Nat /\ Len(ms) >= 1 /\ Len(ps) = Len(ms) - 1
      /\ \A i \in 1..Len(ps) : i + 1 \in 1..Len(ms) /\ ps[i] = ms[i + 1]
      /\ ms[1].type # "FILE_REQUEST"
  BY OneLess
<1> HIDE DEF ps
<1>2. NoEditWhileLoading(ps, ns)
  <2>1. ASSUME NEW i \in 1..Len(ps), NEW j \in 1..Len(ps), i < j, ps[i].type = "FILE_REQUEST"
        PROVE  ps[j].type # "DELTA"
    <3>1. i + 1 < j + 1
      BY <1>1, <2>1
    <3> QED
      BY <1>1, <2>1, <3>1 DEF Loads, NoEditWhileLoading
  <2> QED
    BY <1>1, <2>1 DEF Loads, NoEditWhileLoading
<1>3. \A i \in 1..Len(ms) : ms[i].type = "FILE_REQUEST" =>
        i - 1 \in 1..Len(ps) /\ ps[i - 1] = ms[i]
  BY <1>1
<1>4. ASSUME NEW i \in 1..Len(ps), LastOf(ps, i, "FILE_REQUEST")
      PROVE  ps[i].file_path = act
  <2>1. ASSUME NEW j \in 1..Len(ms), j > i + 1 PROVE ms[j].type # "FILE_REQUEST"
    <3>1. j - 1 > i
      BY <1>1, <2>1
    <3> QED
      BY <1>3, <1>4, <3>1 DEF LastOf
  <2>2. LastOf(ms, i + 1, "FILE_REQUEST")
    BY <1>1, <1>4, <2>1 DEF LastOf
  <2> QED
    BY <1>1, <2>2 DEF Loads, LoadsActive
<1>5. (\A j \in 1..Len(ps) : ps[j].type # "FILE_REQUEST") =>
        (\A j \in 1..Len(ms) : ms[j].type # "FILE_REQUEST")
  BY <1>3
<1>6. LoadsActive(ps, ns, act)
  BY <1>4, <1>5 DEF Loads, LoadsActive
<1> QED
  BY <1>2, <1>6 DEF Loads, ps

\* The server sends a message that is not a FILE_CONTENT.
LEMMA LoadsSent ==
  ASSUME NEW ms, NEW ns \in Seq(ToClient), NEW act, NEW m \in ToClient,
         Loads(ms, ns, act), m.type # "FILE_CONTENT"
  PROVE  Loads(ms, Append(ns, m), act)
<1> DEFINE ps == Append(ns, m)
<1>1. /\ Len(ns) \in Nat /\ Len(ps) = Len(ns) + 1 /\ ps[Len(ns) + 1] = m
      /\ \A i \in 1..Len(ns) : i \in 1..Len(ps) /\ ps[i] = ns[i]
  BY OneMore
<1> HIDE DEF ps
<1>2. \A i \in 1..Len(ps) : ps[i].type = "FILE_CONTENT" => i \in 1..Len(ns) /\ ps[i] = ns[i]
  BY <1>1
<1>3. NoEditWhileLoading(ms, ps)
  BY <1>2 DEF Loads, NoEditWhileLoading
<1>4. ASSUME NEW i \in 1..Len(ps), LastOf(ps, i, "FILE_CONTENT")
      PROVE  LastOf(ns, i, "FILE_CONTENT") /\ i \in 1..Len(ns) /\ ps[i] = ns[i]
  BY <1>1, <1>2, <1>4 DEF LastOf
<1>5. LoadsActive(ms, ps, act)
  BY <1>4 DEF Loads, LoadsActive
<1> QED
  BY <1>3, <1>5 DEF Loads, ps

\* The server answers a FILE_REQUEST.
LEMMA LoadsAnswered ==
  ASSUME NEW ms \in Seq(ToServer), ms # <<>>, NEW ns \in Seq(ToClient), NEW act,
         NEW m \in ToClient, Loads(ms, ns, act), Head(ms).type = "FILE_REQUEST",
         m.type = "FILE_CONTENT", m.file_path = Head(ms).file_path
  PROVE  Loads(Tail(ms), Append(ns, m), act)
<1> DEFINE ps == Tail(ms)
           qs == Append(ns, m)
<1>1. /\ Len(ms) \in Nat /\ Len(ms) >= 1 /\ Len(ps) = Len(ms) - 1
      /\ \A i \in 1..Len(ps) : i + 1 \in 1..Len(ms) /\ ps[i] = ms[i + 1]
      /\ ms[1].type = "FILE_REQUEST" /\ ms[1].file_path = m.file_path /\ 1 \in 1..Len(ms)
  BY OneLess
<1>2. /\ Len(ns) \in Nat /\ Len(qs) = Len(ns) + 1 /\ qs[Len(ns) + 1] = m
      /\ \A i \in 1..Len(ns) : qs[i] = ns[i]
  BY OneMore
<1> HIDE DEF ps, qs
<1>3. \A j \in 1..Len(ps) : ps[j].type # "DELTA"
  BY <1>1 DEF Loads, NoEditWhileLoading
<1>4. NoEditWhileLoading(ps, qs)
  BY <1>3 DEF NoEditWhileLoading
<1>5. ASSUME NEW i \in 1..Len(ps), LastOf(ps, i, "FILE_REQUEST")
      PROVE  ps[i].file_path = act
  <2>1. ASSUME NEW j \in 1..Len(ms), j > i + 1 PROVE ms[j].type # "FILE_REQUEST"
    <3>1. j - 1 \in 1..Len(ps) /\ j - 1 > i /\ ps[j - 1] = ms[j]
      BY <1>1, <2>1
    <3> QED
      BY <1>5, <3>1 DEF LastOf
  <2>2. LastOf(ms, i + 1, "FILE_REQUEST")
    BY <1>1, <1>5, <2>1 DEF LastOf
  <2> QED
    BY <1>1, <2>2 DEF Loads, LoadsActive
<1>6. ASSUME \A j \in 1..Len(ps) : ps[j].type # "FILE_REQUEST",
             NEW i \in 1..Len(qs), LastOf(qs, i, "FILE_CONTENT")
      PROVE  qs[i].file_path = act
  <2>1. ASSUME NEW j \in 1..Len(ms), j > 1 PROVE ms[j].type # "FILE_REQUEST"
    <3>1. j - 1 \in 1..Len(ps) /\ ps[j - 1] = ms[j]
      BY <1>1, <2>1
    <3> QED
      BY <1>6, <3>1
  <2>2. LastOf(ms, 1, "FILE_REQUEST")
    BY <1>1, <2>1 DEF LastOf
  <2>3. m.file_path = act
    BY <1>1, <2>2 DEF Loads, LoadsActive
  <2>4. i = Len(ns) + 1
    BY <1>2, <1>6 DEF LastOf
  <2> QED
    BY <1>2, <2>3, <2>4
<1> QED
  BY <1>4, <1>5, <1>6 DEF Loads, LoadsActive, ps, qs

\* A message arrives.
LEMMA LoadsArrived ==
  ASSUME NEW ms, NEW ns \in Seq(ToClient), ns # <<>>, NEW act, Loads(ms, ns, act)
  PROVE  Loads(ms, Tail(ns), act)
<1> DEFINE ps == Tail(ns)
<1>1. /\ Len(ns) \in Nat /\ Len(ns) >= 1 /\ Len(ps) = Len(ns) - 1
      /\ \A i \in 1..Len(ps) : i + 1 \in 1..Len(ns) /\ ps[i] = ns[i + 1]
  BY OneLess
<1> HIDE DEF ps
<1>2. NoEditWhileLoading(ms, ps)
  <2>1. ASSUME NEW i \in 1..Len(ps), NEW j \in 1..Len(ms), ps[i].type = "FILE_CONTENT"
        PROVE  ms[j].type # "DELTA"
    BY <1>1, <2>1 DEF Loads, NoEditWhileLoading
  <2> QED
    BY <2>1 DEF Loads, NoEditWhileLoading
<1>3. ASSUME NEW i \in 1..Len(ps), LastOf(ps, i, "FILE_CONTENT")
      PROVE  LastOf(ns, i + 1, "FILE_CONTENT") /\ i + 1 \in 1..Len(ns) /\ ps[i] = ns[i + 1]
  <2>1. ASSUME NEW j \in 1..Len(ns), j > i + 1 PROVE ns[j].type # "FILE_CONTENT"
    <3>1. j - 1 \in 1..Len(ps) /\ j - 1 > i /\ ps[j - 1] = ns[j]
      BY <1>1, <2>1
    <3> QED
      BY <1>3, <3>1 DEF LastOf
  <2> QED
    BY <1>1, <1>3, <2>1 DEF LastOf
<1>4. LoadsActive(ms, ps, act)
  BY <1>3 DEF Loads, LoadsActive
<1> QED
  BY <1>2, <1>4 DEF Loads, ps

\* A tab sends messages that neither load nor edit.
LEMMA LoadsOther ==
  ASSUME NEW ms \in Seq(ToServer), NEW ns, NEW act, NEW ps \in Seq(ToServer),
         Loads(ms, ns, act), \A i \in 1..Len(ps) : ps[i].type \notin {"FILE_REQUEST", "DELTA"}
  PROVE  Loads(ms \o ps, ns, act)
<1> DEFINE qs == ms \o ps
<1>1. /\ Len(ms) \in Nat /\ Len(ps) \in Nat /\ Len(qs) = Len(ms) + Len(ps)
      /\ \A i \in 1..Len(ms) : i \in 1..Len(qs) /\ qs[i] = ms[i]
      /\ \A i \in 1..Len(qs) :
           \/ i \in 1..Len(ms) /\ qs[i] = ms[i]
           \/ i > Len(ms) /\ qs[i].type \notin {"FILE_REQUEST", "DELTA"}
  BY SomeMore
<1> HIDE DEF qs
<1>2. NoEditWhileLoading(qs, ns)
  BY <1>1 DEF Loads, NoEditWhileLoading
<1>3. ASSUME NEW i \in 1..Len(qs), LastOf(qs, i, "FILE_REQUEST")
      PROVE  LastOf(ms, i, "FILE_REQUEST") /\ i \in 1..Len(ms) /\ qs[i] = ms[i]
  BY <1>1, <1>3 DEF LastOf
<1>4. (\A j \in 1..Len(qs) : qs[j].type # "FILE_REQUEST") =>
        (\A j \in 1..Len(ms) : ms[j].type # "FILE_REQUEST")
  BY <1>1
<1>5. LoadsActive(qs, ns, act)
  BY <1>3, <1>4 DEF Loads, LoadsActive
<1> QED
  BY <1>2, <1>5 DEF Loads, qs

\* A tab opens the file `now': the k-th message it sends asks for it.
LEMMA LoadsOpened ==
  ASSUME NEW ms \in Seq(ToServer), NEW ns, NEW act, NEW now, NEW ps \in Seq(ToServer),
         Loads(ms, ns, act), NEW k \in 1..Len(ps), Is(ps[k], "FILE_REQUEST", now),
         \A i \in 1..Len(ps) : i # k => ps[i].type \notin {"FILE_REQUEST", "DELTA"}
  PROVE  Loads(ms \o ps, ns, now)
<1> DEFINE qs == ms \o ps
           n == Len(ms) + k
<1>1. /\ Len(ms) \in Nat /\ Len(ps) \in Nat /\ Len(qs) = Len(ms) + Len(ps)
      /\ \A i \in 1..Len(qs) :
           \/ i \in 1..Len(ms) /\ qs[i] = ms[i]
           \/ i > Len(ms) /\ i - Len(ms) \in 1..Len(ps) /\ qs[i] = ps[i - Len(ms)]
      /\ \A i \in 1..Len(ps) : qs[Len(ms) + i] = ps[i]
  BY SomeMore
<1> HIDE DEF qs
<1>2. n \in 1..Len(qs) /\ n > Len(ms) /\ Is(qs[n], "FILE_REQUEST", now)
  BY <1>1
<1>3. ASSUME NEW i \in 1..Len(qs), i # n
      PROVE  \/ i \in 1..Len(ms) /\ qs[i] = ms[i]
             \/ i > Len(ms) /\ qs[i].type \notin {"FILE_REQUEST", "DELTA"}
  <2>1. CASE i > Len(ms) /\ i - Len(ms) \in 1..Len(ps) /\ qs[i] = ps[i - Len(ms)]
    <3>1. i - Len(ms) # k
      BY <1>1, <1>3
    <3> QED
      BY <2>1, <3>1
  <2> QED
    BY <1>1, <2>1
<1> HIDE DEF n
<1>4. NoEditWhileLoading(qs, ns)
  <2>1. ASSUME NEW j \in 1..Len(qs), qs[j].type = "DELTA"
        PROVE  j \in 1..Len(ms) /\ qs[j] = ms[j]
    BY <1>2, <1>3, <2>1 DEF Is
  <2>2. ASSUME NEW i \in 1..Len(qs), NEW j \in 1..Len(qs), i < j, qs[i].type = "FILE_REQUEST",
               qs[j].type = "DELTA"
        PROVE  FALSE
    <3>1. j \in 1..Len(ms) /\ qs[j] = ms[j]
      BY <2>1, <2>2
    <3>2. i \in 1..Len(ms) /\ qs[i] = ms[i]
      BY <1>1, <2>2, <3>1
    <3> QED
      BY <2>2, <3>1, <3>2 DEF Loads, NoEditWhileLoading
  <2> QED
    BY <2>1, <2>2 DEF Loads, NoEditWhileLoading
<1>5. ASSUME NEW i \in 1..Len(qs), LastOf(qs, i, "FILE_REQUEST") PROVE i = n
  <2>1. ~(n > i)
    BY <1>2, <1>5 DEF LastOf, Is
  <2>2. ~(i > n)
    BY <1>1, <1>2, <1>3, <1>5 DEF LastOf
  <2>3. i \in Int /\ n \in Int
    BY <1>1, <1>2
  <2> QED
    BY <2>1, <2>2, <2>3
<1>6. LoadsActive(qs, ns, now)
  BY <1>2, <1>5 DEF LoadsActive, Is
<1> QED
  BY <1>4, <1>6 DEF Loads, qs

\* A tab that is not loading sends an edit.
LEMMA LoadsEdited ==
  ASSUME NEW ms \in Seq(ToServer), NEW ns, NEW act, NEW m \in ToServer, Loads(ms, ns, act),
         m.type = "DELTA",
         \A i \in 1..Len(ms) : ms[i].type # "FILE_REQUEST",
         \A i \in 1..Len(ns) : ns[i].type # "FILE_CONTENT"
  PROVE  Loads(Append(ms, m), ns, act)
<1> DEFINE qs == Append(ms, m)
<1>1. Len(ms) \in Nat /\ Len(qs) = Len(ms) + 1 /\ qs[Len(ms) + 1] = m
      /\ \A i \in 1..Len(ms) : qs[i] = ms[i]
  BY OneMore
<1> HIDE DEF qs
<1>2. \A i \in 1..Len(qs) : qs[i].type # "FILE_REQUEST"
  BY <1>1
<1>3. NoEditWhileLoading(qs, ns) /\ LoadsActive(qs, ns, act)
  BY <1>2 DEF NoEditWhileLoading, LoadsActive, LastOf
<1> QED
  BY <1>3 DEF Loads, qs

\* Nothing is on its way.
LEMMA LoadsNothing == ASSUME NEW act PROVE Loads(<<>>, <<>>, act)
<1>1. 1..Len(<<>>) = {}
  OBVIOUS
<1> QED
  BY <1>1 DEF Loads, NoEditWhileLoading, LoadsActive

------------------------------------------------------------------------------
(* Asking for a lock *)

\* u is told nowhere on its way, nor shown, that f is its own.
NeverTold(ns, kn, u, f) == \A j \in 0..Len(ns) : Tells(ns, j) => ~Says(ns, kn, u, f, j)

\* A request for f is made once, by a tab that does not own f nor will be told so
\* before it is handled; so no edit of f follows it.
AsksOnce(ms, ns, kn, u, f, own) ==
  \A i \in 1..Len(ms) : Is(ms[i], "LOCK_REQUEST", f) =>
    /\ ~own
    /\ NeverTold(ns, kn, u, f)
    /\ \A k \in 1..Len(ms) : k > i => ~Is(ms[k], "DELTA", f)
    /\ \A k \in 1..Len(ms) : Is(ms[k], "LOCK_REQUEST", f) => k = i

\* An owner who has been told so is not told otherwise.
Steady(ns, kn, u, f) ==
  \A j, k \in 0..Len(ns) :
    j < k /\ Tells(ns, j) /\ Tells(ns, k) /\ Says(ns, kn, u, f, j) => Says(ns, kn, u, f, k)

\* An owner with edits on their way knows that it is the owner.
EditsKnowingly(ms, kn, u, f) == (\E i \in 1..Len(ms) : Is(ms[i], "DELTA", f)) => kn = {u}

Asks(ms, ns, kn, u, f, own) ==
  /\ AsksOnce(ms, ns, kn, u, f, own)
  /\ own => Steady(ns, kn, u, f) /\ EditsKnowingly(ms, kn, u, f)

\* A tab that is told nowhere that f is its own does not own it.
LEMMA NeverToldNotOwner ==
  ASSUME NEW ns \in Seq(ToClient), NEW kn, NEW u, NEW f, NEW own \in BOOLEAN,
         Told(ns, kn, u, f, own), NeverTold(ns, kn, u, f)
  PROVE  ~own
<1>1. Len(ns) \in Nat
  OBVIOUS
<1>2. PICK j \in 0..Len(ns) : LastTold(ns, Len(ns) + 1, j) /\ (Says(ns, kn, u, f, j) <=> own)
  BY <1>1 DEF Told, Believes
<1> QED
  BY <1>2 DEF NeverTold, LastTold

\* An owner who knows it is sent no edit of the file.
LEMMA NoEditForOwner ==
  ASSUME NEW ns \in Seq(ToClient), NEW kn, NEW u, NEW f, kn = {u}, Steady(ns, kn, u, f),
         NEW own, Told(ns, kn, u, f, own)
  PROVE  \A i \in 1..Len(ns) : ~Is(ns[i], "DELTA", f)
<1> SUFFICES ASSUME NEW i \in 1..Len(ns), Is(ns[i], "DELTA", f) PROVE FALSE
  OBVIOUS
<1>1. Len(ns) \in Nat
  OBVIOUS
<1>2. PICK j \in 0..(i - 1) : LastTold(ns, i, j) /\ ~Says(ns, kn, u, f, j)
  BY DEF Told, Believes
<1>3. Says(ns, kn, u, f, 0) /\ Tells(ns, 0) /\ Tells(ns, j)
  BY <1>2 DEF Says, Tells, LastTold
<1>4. j \in 0..Len(ns) /\ 0 \in 0..Len(ns) /\ (j = 0 \/ 0 < j)
  BY <1>1
<1> QED
  BY <1>2, <1>3, <1>4 DEF Steady

\* The server takes a message.
LEMMA AsksTaken ==
  ASSUME NEW ms \in Seq(ToServer), ms # <<>>, NEW ns, NEW kn, NEW u, NEW f, NEW own \in BOOLEAN,
         Asks(ms, ns, kn, u, f, own)
  PROVE  Asks(Tail(ms), ns, kn, u, f, own)
<1> DEFINE ps == Tail(ms)
<1>1. /\ Len(ms) \in Nat /\ Len(ms) >= 1 /\ Len(ps) = Len(ms) - 1
      /\ \A i \in 1..Len(ps) : i + 1 \in 1..Len(ms) /\ ps[i] = ms[i + 1]
  BY OneLess
<1> HIDE DEF ps
<1>2. ASSUME NEW i \in 1..Len(ps), Is(ps[i], "LOCK_REQUEST", f)
      PROVE  /\ ~own /\ NeverTold(ns, kn, u, f)
             /\ \A k \in 1..Len(ps) : k > i => ~Is(ps[k], "DELTA", f)
             /\ \A k \in 1..Len(ps) : Is(ps[k], "LOCK_REQUEST", f) => k = i
  <2>1. i + 1 \in 1..Len(ms) /\ Is(ms[i + 1], "LOCK_REQUEST", f)
    BY <1>1, <1>2
  <2>2. /\ ~own /\ NeverTold(ns, kn, u, f)
        /\ \A k \in 1..Len(ms) : k > i + 1 => ~Is(ms[k], "DELTA", f)
        /\ \A k \in 1..Len(ms) : Is(ms[k], "LOCK_REQUEST", f) => k = i + 1
    BY <2>1 DEF Asks, AsksOnce
  <2>3. ASSUME NEW k \in 1..Len(ps)
        PROVE  /\ k > i => ~Is(ps[k], "DELTA", f)
               /\ Is(ps[k], "LOCK_REQUEST", f) => k = i
    <3>1. k + 1 \in 1..Len(ms) /\ ps[k] = ms[k + 1] /\ (k > i => k + 1 > i + 1)
          /\ (k + 1 = i + 1 => k = i)
      BY <1>1
    <3> QED
      BY <2>2, <3>1
  <2> QED
    BY <2>2, <2>3
<1>3. EditsKnowingly(ms, kn, u, f) => EditsKnowingly(ps, kn, u, f)
  BY <1>1 DEF EditsKnowingly
<1>4. AsksOnce(ps, ns, kn, u, f, own)
  BY <1>2 DEF AsksOnce
<1> QED
  BY <1>3, <1>4 DEF Asks, ps

\* The server sends something else than the locks.
LEMMA AsksSent ==
  ASSUME NEW ms, NEW ns \in Seq(ToClient), NEW m \in ToClient, m.type # "LOCK_SYNC", NEW kn,
         NEW u, NEW f, NEW own \in BOOLEAN, Asks(ms, ns, kn, u, f, own)
  PROVE  Asks(ms, Append(ns, m), kn, u, f, own)
<1> DEFINE ps == Append(ns, m)
<1>1. /\ Len(ns) \in Nat /\ Len(ps) = Len(ns) + 1 /\ ps[Len(ns) + 1] = m
      /\ \A i \in 1..Len(ns) : ps[i] = ns[i]
  BY OneMore
<1> HIDE DEF ps
<1>2. ASSUME NEW j \in 0..Len(ps), Tells(ps, j)
      PROVE  /\ j \in 0..Len(ns) /\ Tells(ns, j)
             /\ Says(ps, kn, u, f, j) <=> Says(ns, kn, u, f, j)
  <2>1. j \in 0..Len(ns)
    BY <1>1, <1>2 DEF Tells
  <2> QED
    BY <1>1, <1>2, <2>1 DEF Tells, Says
<1>3. NeverTold(ns, kn, u, f) => NeverTold(ps, kn, u, f)
  BY <1>2 DEF NeverTold
<1>4. Steady(ns, kn, u, f) => Steady(ps, kn, u, f)
  BY <1>2 DEF Steady
<1>5. AsksOnce(ms, ps, kn, u, f, own)
  BY <1>3 DEF Asks, AsksOnce
<1> QED
  BY <1>4, <1>5 DEF Asks, ps

\* The server sends the locks, of which u has gained none.
LEMMA AsksTold ==
  ASSUME NEW ms, NEW ns \in Seq(ToClient), NEW m \in ToClient, m.type = "LOCK_SYNC", NEW kn,
         NEW u, NEW f, NEW own \in BOOLEAN, NEW now \in BOOLEAN, Asks(ms, ns, kn, u, f, own),
         now => own, m.active_locks[f] = {u} <=> now
  PROVE  Asks(ms, Append(ns, m), kn, u, f, now)
<1> DEFINE ps == Append(ns, m)
<1>1. /\ Len(ns) \in Nat /\ Len(ps) = Len(ns) + 1 /\ ps[Len(ns) + 1] = m
      /\ \A i \in 1..Len(ns) : ps[i] = ns[i]
  BY OneMore
<1> HIDE DEF ps
<1>2. \A j \in 0..Len(ns) : /\ Tells(ps, j) <=> Tells(ns, j)
                            /\ Says(ps, kn, u, f, j) <=> Says(ns, kn, u, f, j)
  BY <1>1 DEF Tells, Says
<1>3. Says(ps, kn, u, f, Len(ns) + 1) <=> now
  BY <1>1 DEF Says
<1>4. \A j \in 0..Len(ps) : j \in 0..Len(ns) \/ j = Len(ns) + 1
  BY <1>1
<1>5. NeverTold(ns, kn, u, f) /\ ~now => NeverTold(ps, kn, u, f)
  BY <1>2, <1>3, <1>4 DEF NeverTold
<1>6. Steady(ns, kn, u, f) /\ now => Steady(ps, kn, u, f)
  <2> SUFFICES ASSUME Steady(ns, kn, u, f), now, NEW j \in 0..Len(ps), NEW k \in 0..Len(ps),
                      j < k, Tells(ps, j), Tells(ps, k), Says(ps, kn, u, f, j)
               PROVE  Says(ps, kn, u, f, k)
    BY DEF Steady
  <2>1. CASE k = Len(ns) + 1
    BY <1>3, <2>1
  <2>2. CASE k \in 0..Len(ns)
    <3>1. j \in 0..Len(ns)
      BY <1>1, <2>2
    <3> QED
      BY <1>2, <2>2, <3>1 DEF Steady
  <2> QED
    BY <1>4, <2>1, <2>2
<1>7. AsksOnce(ms, ps, kn, u, f, now)
  BY <1>5 DEF Asks, AsksOnce
<1> QED
  BY <1>6, <1>7 DEF Asks, ps

\* The server grants the request of u and tells it.
LEMMA AsksGranted ==
  ASSUME NEW ms \in Seq(ToServer), ms # <<>>, NEW ns \in Seq(ToClient), NEW m \in ToClient,
         m.type = "LOCK_SYNC", NEW kn, NEW u, NEW f, NEW own \in BOOLEAN, NEW now \in BOOLEAN,
         Asks(ms, ns, kn, u, f, own), Is(Head(ms), "LOCK_REQUEST", f),
         m.active_locks[f] = {u} <=> now
  PROVE  /\ Asks(Tail(ms), Append(ns, m), kn, u, f, now)
         /\ \A k \in 1..Len(Tail(ms)) : ~Is(Tail(ms)[k], "DELTA", f)
<1> DEFINE ps == Append(ns, m)
           qs == Tail(ms)
<1>1. /\ Len(ns) \in Nat /\ Len(ps) = Len(ns) + 1 /\ ps[Len(ns) + 1] = m
      /\ \A i \in 1..Len(ns) : ps[i] = ns[i]
  BY OneMore
<1>2. /\ Len(ms) \in Nat /\ Len(ms) >= 1 /\ Len(qs) = Len(ms) - 1 /\ Head(ms) = ms[1]
      /\ \A i \in 1..Len(qs) : i + 1 \in 1..Len(ms) /\ i + 1 > 1 /\ qs[i] = ms[i + 1]
  BY OneLess
<1> HIDE DEF ps, qs
<1>3. 1 \in 1..Len(ms) /\ Is(ms[1], "LOCK_REQUEST", f)
  BY <1>2
<1>4. /\ NeverTold(ns, kn, u, f)
      /\ \A k \in 1..Len(ms) : k > 1 => ~Is(ms[k], "DELTA", f)
      /\ \A k \in 1..Len(ms) : k > 1 => ~Is(ms[k], "LOCK_REQUEST", f)
  BY <1>3 DEF Asks, AsksOnce
<1>5. \A k \in 1..Len(qs) : ~Is(qs[k], "DELTA", f) /\ ~Is(qs[k], "LOCK_REQUEST", f)
  BY <1>2, <1>4
<1>6. \A j \in 0..Len(ns) : Tells(ps, j) => ~Says(ps, kn, u, f, j)
  BY <1>1, <1>4 DEF NeverTold, Tells, Says
<1>7. Steady(ps, kn, u, f)
  <2>1. \A j, k \in 0..Len(ps) : j < k => j \in 0..Len(ns)
    BY <1>1
  <2> QED
    BY <1>6, <2>1 DEF Steady
<1> QED
  BY <1>5, <1>7 DEF Asks, AsksOnce, EditsKnowingly, ps, qs

\* A message arrives.
LEMMA AsksArrived ==
  ASSUME NEW ms, NEW ns \in Seq(ToClient), ns # <<>>, NEW kn, NEW u, NEW f,
         NEW own \in BOOLEAN, Asks(ms, ns, kn, u, f, own)
  PROVE  LET k == IF Head(ns).type = "LOCK_SYNC" THEN Head(ns).active_locks[f] ELSE kn
         IN  Asks(ms, Tail(ns), k, u, f, own)
<1> DEFINE ps == Tail(ns)
           h == IF Head(ns).type = "LOCK_SYNC" THEN Head(ns).active_locks[f] ELSE kn
           g == [j \in 0..Len(ps) |-> IF j > 0 THEN j + 1
                                     ELSE IF ns[1].type = "LOCK_SYNC" THEN 1 ELSE 0]
<1>1. /\ Len(ns) \in Nat /\ Len(ns) >= 1 /\ Len(ps) = Len(ns) - 1 /\ Head(ns) = ns[1]
      /\ \A i \in 1..Len(ps) : ps[i] = ns[i + 1]
  BY OneLess
<1> HIDE DEF ps
<1>2. ASSUME NEW j \in 0..Len(ps)
      PROVE  /\ g[j] \in 0..Len(ns)
             /\ Tells(ps, j) => Tells(ns, g[j])
             /\ Tells(ps, j) => (Says(ps, h, u, f, j) <=> Says(ns, kn, u, f, g[j]))
  <2>1. CASE j > 0
    <3>1. g[j] = j + 1 /\ j + 1 # 0 /\ j # 0 /\ j \in 1..Len(ps) /\ ps[j] = ns[j + 1]
      BY <1>1, <2>1
    <3>2. g[j] \in 0..Len(ns)
      BY <1>1, <3>1
    <3> HIDE DEF g, h
    <3> QED
      BY <3>1, <3>2 DEF Tells, Says
  <2>2. CASE j = 0 /\ ns[1].type = "LOCK_SYNC"
    <3>1. g[j] = 1 /\ h = ns[1].active_locks[f]
      BY <1>1, <2>2
    <3> HIDE DEF g, h
    <3> QED
      BY <1>1, <2>2, <3>1 DEF Tells, Says
  <2>3. CASE j = 0 /\ ns[1].type # "LOCK_SYNC"
    <3>1. g[j] = 0 /\ h = kn
      BY <1>1, <2>3
    <3> HIDE DEF g, h
    <3> QED
      BY <1>1, <2>3, <3>1 DEF Tells, Says
  <2> QED
    BY <2>1, <2>2, <2>3
<1>3. \A j, k \in 0..Len(ps) : j < k => g[j] < g[k]
  BY <1>1
<1> HIDE DEF g
<1>4. NeverTold(ns, kn, u, f) => NeverTold(ps, h, u, f)
  BY <1>2 DEF NeverTold
<1>5. Steady(ns, kn, u, f) => Steady(ps, h, u, f)
  BY <1>2, <1>3 DEF Steady
<1>6. Steady(ns, kn, u, f) /\ kn = {u} => h = {u}
  <2> SUFFICES ASSUME Steady(ns, kn, u, f), kn = {u}, ns[1].type = "LOCK_SYNC"
               PROVE  ns[1].active_locks[f] = {u}
    BY <1>1
  <2>1. Tells(ns, 0) /\ Tells(ns, 1) /\ Says(ns, kn, u, f, 0)
    BY DEF Tells, Says
  <2>2. 0 \in 0..Len(ns) /\ 1 \in 0..Len(ns) /\ 0 < 1
    BY <1>1
  <2>3. Says(ns, kn, u, f, 1)
    BY <2>1, <2>2 DEF Steady
  <2> QED
    BY <2>3 DEF Says
<1> HIDE DEF h
<1>7. AsksOnce(ms, ps, h, u, f, own)
  BY <1>4 DEF Asks, AsksOnce
<1>8. own => Steady(ps, h, u, f) /\ EditsKnowingly(ms, h, u, f)
  BY <1>5, <1>6 DEF Asks, EditsKnowingly
<1> QED
  BY <1>7, <1>8 DEF Asks, ps, h

\* A tab sends messages other than a request for f and an edit of f.
LEMMA AsksOther ==
  ASSUME NEW ms \in Seq(ToServer), NEW ns, NEW kn, NEW u, NEW f, NEW own \in BOOLEAN,
         NEW ps \in Seq(ToServer), Asks(ms, ns, kn, u, f, own),
         \A i \in 1..Len(ps) : ~Is(ps[i], "LOCK_REQUEST", f) /\ ~Is(ps[i], "DELTA", f)
  PROVE  Asks(ms \o ps, ns, kn, u, f, own)
<1> DEFINE qs == ms \o ps
<1>1. /\ Len(ms) \in Nat /\ Len(ps) \in Nat /\ Len(qs) = Len(ms) + Len(ps)
      /\ \A i \in 1..Len(qs) :
           \/ i \in 1..Len(ms) /\ qs[i] = ms[i]
           \/ i > Len(ms) /\ i - Len(ms) \in 1..Len(ps) /\ qs[i] = ps[i - Len(ms)]
  BY SomeMore
<1> HIDE DEF qs
<1>2. \A i \in 1..Len(qs) :
        Is(qs[i], "LOCK_REQUEST", f) \/ Is(qs[i], "DELTA", f) =>
          i \in 1..Len(ms) /\ qs[i] = ms[i]
  BY <1>1
<1>3. AsksOnce(qs, ns, kn, u, f, own)
  BY <1>2 DEF Asks, AsksOnce
<1>4. EditsKnowingly(ms, kn, u, f) => EditsKnowingly(qs, kn, u, f)
  BY <1>2 DEF EditsKnowingly
<1> QED
  BY <1>3, <1>4 DEF Asks, qs

\* A tab asks for f, not having asked yet: the k-th message it sends is the request.
LEMMA AsksRequested ==
  ASSUME NEW ms \in Seq(ToServer), NEW ns \in Seq(ToClient), NEW kn, NEW u, NEW f,
         NEW own \in BOOLEAN, NEW ps \in Seq(ToServer), Told(ns, kn, u, f, own),
         NeverTold(ns, kn, u, f),
         \A i \in 1..Len(ms) : ~Is(ms[i], "LOCK_REQUEST", f),
         NEW k \in 1..Len(ps), \A i \in 1..Len(ps) : ~Is(ps[i], "DELTA", f),
         \A i \in 1..Len(ps) : Is(ps[i], "LOCK_REQUEST", f) => i = k
  PROVE  Asks(ms \o ps, ns, kn, u, f, own)
<1> DEFINE qs == ms \o ps
<1>1. /\ Len(ms) \in Nat /\ Len(ps) \in Nat /\ Len(qs) = Len(ms) + Len(ps)
      /\ \A i \in 1..Len(qs) :
           \/ i \in 1..Len(ms) /\ qs[i] = ms[i]
           \/ i > Len(ms) /\ i - Len(ms) \in 1..Len(ps) /\ qs[i] = ps[i - Len(ms)]
  BY SomeMore
<1> HIDE DEF qs
<1>2. ~own
  BY NeverToldNotOwner
<1>3. ASSUME NEW i \in 1..Len(qs), Is(qs[i], "LOCK_REQUEST", f)
      PROVE  i > Len(ms) /\ i = Len(ms) + k
  <2>1. ~(i \in 1..Len(ms) /\ qs[i] = ms[i])
    BY <1>3
  <2>2. i > Len(ms) /\ i - Len(ms) \in 1..Len(ps) /\ qs[i] = ps[i - Len(ms)]
    BY <1>1, <2>1
  <2>3. i - Len(ms) = k
    BY <1>3, <2>2
  <2> QED
    BY <1>1, <2>2, <2>3
<1>4. ASSUME NEW i \in 1..Len(qs), i > Len(ms) PROVE ~Is(qs[i], "DELTA", f)
  <2>1. i \notin 1..Len(ms)
    BY <1>1, <1>4
  <2>2. i - Len(ms) \in 1..Len(ps) /\ qs[i] = ps[i - Len(ms)]
    BY <1>1, <2>1
  <2> QED
    BY <2>2
<1>5. \A i, j \in 1..Len(qs) : j > i /\ i > Len(ms) => j > Len(ms)
  BY <1>1
<1>6. AsksOnce(qs, ns, kn, u, f, own)
  BY <1>2, <1>3, <1>4, <1>5 DEF AsksOnce
<1> QED
  BY <1>2, <1>6 DEF Asks, qs

\* A tab that shows f as its own sends an edit.
LEMMA AsksEdited ==
  ASSUME NEW ms \in Seq(ToServer), NEW ns \in Seq(ToClient), NEW kn, NEW u, NEW f,
         NEW own \in BOOLEAN, NEW m \in ToServer, Asks(ms, ns, kn, u, f, own),
         m.type = "DELTA", kn = {u}
  PROVE  Asks(Append(ms, m), ns, kn, u, f, own)
<1> DEFINE qs == Append(ms, m)
<1>1. Len(ms) \in Nat /\ Len(qs) = Len(ms) + 1 /\ qs[Len(ms) + 1] = m
      /\ \A i \in 1..Len(ms) : qs[i] = ms[i]
  BY OneMore
<1> HIDE DEF qs
<1>2. ~NeverTold(ns, kn, u, f)
  <2>1. Tells(ns, 0) /\ Says(ns, kn, u, f, 0) /\ 0 \in 0..Len(ns)
    BY DEF Tells, Says
  <2> QED
    BY <2>1 DEF NeverTold
<1>3. \A i \in 1..Len(qs) : ~Is(qs[i], "LOCK_REQUEST", f)
  <2>1. \A i \in 1..Len(ms) : ~Is(ms[i], "LOCK_REQUEST", f)
    BY <1>2 DEF Asks, AsksOnce
  <2> QED
    BY <1>1, <2>1 DEF Is
<1> QED
  BY <1>3 DEF Asks, AsksOnce, EditsKnowingly, qs

\* Nothing is on its way, and u owns nothing.
LEMMA AsksNothing == ASSUME NEW kn, NEW u, NEW f PROVE Asks(<<>>, <<>>, kn, u, f, FALSE)
<1>1. 1..Len(<<>>) = {}
  OBVIOUS
<1> QED
  BY <1>1 DEF Asks, AsksOnce

------------------------------------------------------------------------------
(* Texts *)

\* m brings a text of f to a tab.
Carries(m, f) == m.type \in {"FILE_CONTENT", "DELTA"} /\ m.file_path = f

\* The last text of f on its way to a tab is the server's.
NewestLast(ns, f, doc) ==
  \A i \in 1..Len(ns) :
    Carries(ns[i], f) /\ (\A j \in 1..Len(ns) : j > i => ~Carries(ns[j], f)) =>
      ns[i].full_text = doc

\* The edits of f on their way from its owner extend doc, each the one before.
Extends(ms, f, doc) ==
  \A i \in 1..Len(ms) : Is(ms[i], "DELTA", f) =>
    /\ IsPrefix(doc, ms[i].full_text)
    /\ \A j \in 1..Len(ms) :
         j > i /\ Is(ms[j], "DELTA", f) => IsPrefix(ms[i].full_text, ms[j].full_text)

\* The tab shows f, and no text of it is asked for or on its way.
Shows(ms, ns, f, act, shn) ==
  /\ shn = f /\ act = f
  /\ \A i \in 1..Len(ms) : ms[i].type # "FILE_REQUEST"
  /\ \A i \in 1..Len(ns) : ns[i].type # "FILE_CONTENT" /\ ~Is(ns[i], "DELTA", f)

\* What it shows then has every accepted edit, and an owner's every edit on its way.
Current(ms, f, own, doc, buf) ==
  /\ IsPrefix(doc, buf)
  /\ own => \A i \in 1..Len(ms) : Is(ms[i], "DELTA", f) => IsPrefix(ms[i].full_text, buf)

TextsAgree(ms, ns, f, own, doc, act, shn, buf) ==
  /\ NewestLast(ns, f, doc)
  /\ own => Extends(ms, f, doc)
  /\ Shows(ms, ns, f, act, shn) => Current(ms, f, own, doc, buf)

\* The server takes a message that is not a FILE_REQUEST; u gains f, if at all, when
\* no edit of f is left on its way.
LEMMA TextsTaken ==
  ASSUME NEW ms \in Seq(ToServer), ms # <<>>, NEW ns, NEW f, NEW own \in BOOLEAN,
         NEW now \in BOOLEAN, NEW doc, NEW act, NEW shn, NEW buf,
         TextsAgree(ms, ns, f, own, doc, act, shn, buf), Head(ms).type # "FILE_REQUEST",
         now => own \/ \A i \in 1..Len(Tail(ms)) : ~Is(Tail(ms)[i], "DELTA", f)
  PROVE  TextsAgree(Tail(ms), ns, f, now, doc, act, shn, buf)
<1> DEFINE ps == Tail(ms)
<1>1. /\ Len(ms) \in Nat /\ Len(ms) >= 1 /\ Len(ps) = Len(ms) - 1
      /\ \A i \in 1..Len(ps) : i + 1 \in 1..Len(ms) /\ ps[i] = ms[i + 1]
      /\ ms[1].type # "FILE_REQUEST"
  BY OneLess
<1> HIDE DEF ps
<1>2. \A i \in 1..Len(ms) : i # 1 => i - 1 \in 1..Len(ps) /\ ms[i] = ps[i - 1]
  BY <1>1
<1>3. Shows(ps, ns, f, act, shn) => Shows(ms, ns, f, act, shn)
  BY <1>1, <1>2 DEF Shows
<1>4. Current(ms, f, own, doc, buf) => Current(ps, f, now, doc, buf)
  BY <1>1 DEF Current, ps
<1>5. ASSUME now PROVE Extends(ps, f, doc)
  <2>1. CASE own
    <3>1. \A i, j \in 1..Len(ps) : j > i => j + 1 > i + 1
      BY <1>1
    <3> QED
      BY <1>1, <2>1, <3>1 DEF TextsAgree, Extends
  <2>2. CASE \A i \in 1..Len(ps) : ~Is(ps[i], "DELTA", f)
    BY <2>2 DEF Extends
  <2> QED
    BY <1>5, <2>1, <2>2 DEF ps
<1> QED
  BY <1>3, <1>4, <1>5 DEF TextsAgree, ps

\* u loses f.
LEMMA TextsLost ==
  ASSUME NEW ms, NEW ns, NEW f, NEW own \in BOOLEAN, NEW now \in BOOLEAN, NEW doc, NEW act,
         NEW shn, NEW buf, TextsAgree(ms, ns, f, own, doc, act, shn, buf), now => own
  PROVE  TextsAgree(ms, ns, f, now, doc, act, shn, buf)
  BY DEF TextsAgree, Current

\* The server sends a message that brings no text of f.
LEMMA TextsSent ==
  ASSUME NEW ms, NEW ns \in Seq(ToClient), NEW f, NEW own \in BOOLEAN, NEW doc, NEW act,
         NEW shn, NEW buf, TextsAgree(ms, ns, f, own, doc, act, shn, buf),
         NEW m \in ToClient, ~Carries(m, f)
  PROVE  TextsAgree(ms, Append(ns, m), f, own, doc, act, shn, buf)
<1> DEFINE ps == Append(ns, m)
<1>1. /\ Len(ns) \in Nat /\ Len(ps) = Len(ns) + 1 /\ ps[Len(ns) + 1] = m
      /\ \A i \in 1..Len(ns) : i \in 1..Len(ps) /\ ps[i] = ns[i]
  BY OneMore
<1> HIDE DEF ps
<1>2. ASSUME NEW i \in 1..Len(ps), Carries(ps[i], f) PROVE i \in 1..Len(ns) /\ ps[i] = ns[i]
  BY <1>1, <1>2
<1>3. NewestLast(ps, f, doc)
  BY <1>1, <1>2 DEF TextsAgree, NewestLast
<1>4. Shows(ms, ps, f, act, shn) => Shows(ms, ns, f, act, shn)
  BY <1>1 DEF Shows
<1> QED
  BY <1>3, <1>4 DEF TextsAgree, ps

\* The server answers a FILE_REQUEST, with the text of f if it is for f.
LEMMA TextsAnswered ==
  ASSUME NEW ms \in Seq(ToServer), ms # <<>>, NEW ns \in Seq(ToClient), NEW f,
         NEW own \in BOOLEAN, NEW doc, NEW act, NEW shn, NEW buf,
         TextsAgree(ms, ns, f, own, doc, act, shn, buf), NEW m \in ToClient,
         m.type = "FILE_CONTENT", m.file_path = f => m.full_text = doc
  PROVE  TextsAgree(Tail(ms), Append(ns, m), f, own, doc, act, shn, buf)
<1> DEFINE ps == Append(ns, m)
           qs == Tail(ms)
<1>1. /\ Len(ns) \in Nat /\ Len(ps) = Len(ns) + 1 /\ ps[Len(ns) + 1] = m
      /\ \A i \in 1..Len(ns) : i \in 1..Len(ps) /\ ps[i] = ns[i]
  BY OneMore
<1>2. /\ Len(ms) \in Nat /\ Len(ms) >= 1 /\ Len(qs) = Len(ms) - 1
      /\ \A i \in 1..Len(qs) : i + 1 \in 1..Len(ms) /\ qs[i] = ms[i + 1]
  BY OneLess
<1> HIDE DEF ps, qs
<1>3. ~Shows(qs, ps, f, act, shn)
  <2>1. Len(ns) + 1 \in 1..Len(ps)
    BY <1>1
  <2> QED
    BY <1>1, <2>1 DEF Shows
<1>4. ASSUME own PROVE Extends(qs, f, doc)
  <2>1. \A i, j \in 1..Len(qs) : j > i => j + 1 > i + 1
    BY <1>2
  <2> QED
    BY <1>2, <1>4, <2>1 DEF TextsAgree, Extends
<1>5. NewestLast(ps, f, doc)
  <2> SUFFICES ASSUME NEW i \in 1..Len(ps), Carries(ps[i], f),
                      \A j \in 1..Len(ps) : j > i => ~Carries(ps[j], f)
               PROVE  ps[i].full_text = doc
    BY DEF NewestLast
  <2>1. CASE i = Len(ns) + 1
    BY <1>1, <2>1 DEF Carries
  <2>2. CASE i \in 1..Len(ns)
    BY <1>1, <2>2 DEF TextsAgree, NewestLast
  <2> QED
    BY <1>1, <2>1, <2>2
<1> QED
  BY <1>3, <1>4, <1>5 DEF TextsAgree, ps, qs

\* The server accepts the edit of u, to whom no text of f is on its way.
LEMMA TextsAccepted ==
  ASSUME NEW ms \in Seq(ToServer), ms # <<>>, NEW ns, NEW f,
         NEW doc, NEW act, NEW shn, NEW buf,
         TextsAgree(ms, ns, f, TRUE, doc, act, shn, buf),
         Is(Head(ms), "DELTA", f), \A i \in 1..Len(ns) : ~Carries(ns[i], f)
  PROVE  /\ TextsAgree(Tail(ms), ns, f, TRUE, Head(ms).full_text, act, shn, buf)
         /\ IsPrefix(doc, Head(ms).full_text)
<1> DEFINE ps == Tail(ms)
           t == Head(ms).full_text
<1>1. /\ Len(ms) \in Nat /\ Len(ms) >= 1 /\ Len(ps) = Len(ms) - 1
      /\ \A i \in 1..Len(ps) : i + 1 \in 1..Len(ms) /\ i + 1 > 1 /\ ps[i] = ms[i + 1]
      /\ 1 \in 1..Len(ms) /\ Is(ms[1], "DELTA", f) /\ t = ms[1].full_text
  BY OneLess
<1> HIDE DEF ps, t
<1>2. Extends(ms, f, doc)
  BY DEF TextsAgree
<1>3. IsPrefix(doc, t)
  BY <1>1, <1>2 DEF Extends
<1>4. Extends(ps, f, t)
  <2>1. \A i, j \in 1..Len(ps) : j > i => j + 1 > i + 1
    BY <1>1
  <2> QED
    BY <1>1, <1>2, <2>1 DEF Extends
<1>5. \A i \in 1..Len(ms) : ms[i].type = "FILE_REQUEST" =>
        i - 1 \in 1..Len(ps) /\ ms[i] = ps[i - 1]
  BY <1>1 DEF Is
<1>6. Shows(ps, ns, f, act, shn) => Shows(ms, ns, f, act, shn)
  BY <1>5 DEF Shows
<1>7. Current(ms, f, TRUE, doc, buf) => Current(ps, f, TRUE, t, buf)
  BY <1>1 DEF Current
<1>8. NewestLast(ns, f, t)
  BY DEF NewestLast
<1> QED
  BY <1>3, <1>4, <1>6, <1>7, <1>8 DEF TextsAgree, ps, t

\* The server sends u another user's edit of f, which u does not own.
LEMMA TextsEdited ==
  ASSUME NEW ms, NEW ns \in Seq(ToClient), NEW f, NEW doc, NEW act, NEW shn, NEW buf,
         NEW m \in ToClient, Is(m, "DELTA", f)
  PROVE  TextsAgree(ms, Append(ns, m), f, FALSE, m.full_text, act, shn, buf)
<1> DEFINE ps == Append(ns, m)
<1>1. /\ Len(ns) \in Nat /\ Len(ps) = Len(ns) + 1 /\ ps[Len(ns) + 1] = m
  BY OneMore
<1> HIDE DEF ps
<1>2. Len(ns) + 1 \in 1..Len(ps)
  BY <1>1
<1>3. ~Shows(ms, ps, f, act, shn)
  BY <1>1, <1>2 DEF Shows
<1>4. NewestLast(ps, f, m.full_text)
  <2> SUFFICES ASSUME NEW i \in 1..Len(ps), \A j \in 1..Len(ps) : j > i => ~Carries(ps[j], f)
               PROVE  ps[i].full_text = m.full_text
    BY DEF NewestLast
  <2>1. Carries(ps[Len(ns) + 1], f)
    BY <1>1 DEF Carries, Is
  <2>2. ~(Len(ns) + 1 > i)
    BY <1>2, <2>1
  <2>3. i = Len(ns) + 1
    BY <1>1, <2>2
  <2> QED
    BY <1>1, <2>3
<1> QED
  BY <1>3, <1>4 DEF TextsAgree, ps

\* A message arrives; if the tab has f open, it writes what the message brings of f.
LEMMA TextsArrived ==
  ASSUME NEW ms, NEW ns \in Seq(ToClient), ns # <<>>, NEW kn, NEW u, NEW f,
         NEW own \in BOOLEAN, NEW doc \in Texts, NEW act, NEW shn, NEW buf, NEW shn2, NEW buf2,
         TextsAgree(ms, ns, f, own, doc, act, shn, buf), Loads(ms, ns, act),
         Told(ns, kn, u, f, own), Asks(ms, ns, kn, u, f, own),
         act = f => /\ shn2 = IF Carries(Head(ns), f) THEN f ELSE shn
                    /\ buf2 = IF Carries(Head(ns), f) THEN Head(ns).full_text ELSE buf
  PROVE  TextsAgree(ms, Tail(ns), f, own, doc, act, shn2, buf2)
<1> DEFINE ps == Tail(ns)
           h == Head(ns)
<1>1. /\ Len(ns) \in Nat /\ Len(ns) >= 1 /\ Len(ps) = Len(ns) - 1
      /\ \A i \in 1..Len(ps) : i + 1 \in 1..Len(ns) /\ ps[i] = ns[i + 1]
      /\ h = ns[1] /\ 1 \in 1..Len(ns)
  BY OneLess
<1> HIDE DEF ps, h
<1>2. \A i \in 1..Len(ns) : i # 1 => i > 1 /\ i - 1 \in 1..Len(ps) /\ ns[i] = ps[i - 1]
  BY <1>1
<1>3. NewestLast(ps, f, doc)
  <2> SUFFICES ASSUME NEW i \in 1..Len(ps), Carries(ps[i], f),
                      \A j \in 1..Len(ps) : j > i => ~Carries(ps[j], f)
               PROVE  ps[i].full_text = doc
    BY DEF NewestLast
  <2>1. ASSUME NEW j \in 1..Len(ns), j > i + 1 PROVE ~Carries(ns[j], f)
    <3>1. j - 1 \in 1..Len(ps) /\ j - 1 > i /\ ns[j] = ps[j - 1]
      BY <1>1, <2>1
    <3> QED
      BY <3>1
  <2>2. i + 1 \in 1..Len(ns) /\ ps[i] = ns[i + 1]
    BY <1>1
  <2> QED
    BY <2>1, <2>2 DEF TextsAgree, NewestLast
<1>4. ASSUME Shows(ms, ps, f, act, shn2) PROVE Current(ms, f, own, doc, buf2)
  <2>1. act = f /\ \A i \in 1..Len(ms) : ms[i].type # "FILE_REQUEST"
    BY <1>4 DEF Shows
  <2>2. \A j \in 1..Len(ns) : j # 1 => ns[j].type # "FILE_CONTENT" /\ ~Is(ns[j], "DELTA", f)
    BY <1>2, <1>4 DEF Shows
  <2>3. CASE Carries(h, f)
    <3>1. \A j \in 1..Len(ns) : j > 1 => ~Carries(ns[j], f)
      BY <2>2 DEF Carries, Is
    <3>2. h.full_text = doc
      BY <1>1, <2>3, <3>1 DEF TextsAgree, NewestLast
    <3>3. buf2 = doc /\ IsPrefix(doc, doc)
      BY <2>1, <2>3, <3>2, PrefixSelf DEF h, Texts
    <3>4. ASSUME own, NEW i \in 1..Len(ms), Is(ms[i], "DELTA", f) PROVE FALSE
      <4>1. CASE h.type = "FILE_CONTENT"
        BY <1>1, <3>4, <4>1 DEF Loads, NoEditWhileLoading, Is
      <4>2. CASE Is(ns[1], "DELTA", f)
        <5>1. Believes(ns, kn, u, f, 1, FALSE)
          BY <1>1, <4>2 DEF Told
        <5>2. kn = {u} <=> FALSE
          BY <5>1, BelievesAtFirst
        <5>3. EditsKnowingly(ms, kn, u, f)
          BY <3>4 DEF Asks
        <5> QED
          BY <3>4, <5>2, <5>3 DEF EditsKnowingly
      <4> QED
        BY <1>1, <2>3, <4>1, <4>2 DEF Carries, Is
    <3> QED
      BY <3>3, <3>4 DEF Current
  <2>4. CASE ~Carries(h, f)
    <3>1. shn2 = shn /\ buf2 = buf
      BY <2>1, <2>4 DEF h
    <3>2. h.type # "FILE_CONTENT"
      <4> SUFFICES ASSUME h.type = "FILE_CONTENT" PROVE FALSE
        OBVIOUS
      <4>1. LastOf(ns, 1, "FILE_CONTENT")
        BY <1>1, <2>2 DEF LastOf
      <4>2. ns[1].file_path = act
        BY <1>1, <2>1, <4>1 DEF Loads, LoadsActive
      <4> QED
        BY <1>1, <2>1, <2>4, <4>2 DEF Carries
    <3>3. Shows(ms, ns, f, act, shn)
      <4>1. \A i \in 1..Len(ns) : ns[i].type # "FILE_CONTENT" /\ ~Is(ns[i], "DELTA", f)
        BY <1>1, <2>2, <2>4, <3>2 DEF Carries, Is
      <4> QED
        BY <1>4, <2>1, <3>1, <4>1 DEF Shows
    <3> QED
      BY <3>1, <3>3 DEF TextsAgree
  <2> QED
    BY <2>3, <2>4
<1> QED
  BY <1>3, <1>4 DEF TextsAgree, ps

\* A tab sends messages that are no edits; if it opens another file, it asks for it.
LEMMA TextsOther ==
  ASSUME NEW ms \in Seq(ToServer), NEW ns, NEW f, NEW own \in BOOLEAN, NEW doc, NEW act,
         NEW shn, NEW buf, NEW ps \in Seq(ToServer), NEW now,
         TextsAgree(ms, ns, f, own, doc, act, shn, buf),
         \A i \in 1..Len(ps) : ps[i].type # "DELTA",
         now = act \/ \E i \in 1..Len(ps) : ps[i].type = "FILE_REQUEST"
  PROVE  TextsAgree(ms \o ps, ns, f, own, doc, now, shn, buf)
<1> DEFINE qs == ms \o ps
<1>1. /\ Len(ms) \in Nat /\ Len(ps) \in Nat /\ Len(qs) = Len(ms) + Len(ps)
      /\ \A i \in 1..Len(ms) : i \in 1..Len(qs) /\ qs[i] = ms[i]
      /\ \A i \in 1..Len(ps) : Len(ms) + i \in 1..Len(qs) /\ qs[Len(ms) + i] = ps[i]
      /\ \A i \in 1..Len(qs) :
           \/ i \in 1..Len(ms) /\ qs[i] = ms[i]
           \/ i > Len(ms) /\ i - Len(ms) \in 1..Len(ps) /\ qs[i] = ps[i - Len(ms)]
  BY SomeMore
<1> HIDE DEF qs
<1>2. ASSUME NEW i \in 1..Len(qs), Is(qs[i], "DELTA", f) PROVE i \in 1..Len(ms) /\ qs[i] = ms[i]
  BY <1>1, <1>2 DEF Is
<1>3. Extends(ms, f, doc) => Extends(qs, f, doc)
  BY <1>2 DEF Extends
<1>4. Current(ms, f, own, doc, buf) => Current(qs, f, own, doc, buf)
  BY <1>2 DEF Current
<1>5. Shows(qs, ns, f, now, shn) => now = act /\ Shows(ms, ns, f, act, shn)
  BY <1>1 DEF Shows
<1> QED
  BY <1>3, <1>4, <1>5 DEF TextsAgree, qs

\* The user of a tab that shows an up-to-date text types in it, with or without
\* the edit being sent.
LEMMA TextsTyped ==
  ASSUME NEW ms \in Seq(ToServer), NEW ns, NEW f, NEW own \in BOOLEAN, NEW doc \in Texts,
         NEW act, NEW shn, NEW buf \in Texts, NEW c \in 1..MaxClicks, NEW m \in ToServer,
         TextsAgree(ms, ns, f, own, doc, act, shn, buf),
         \A i \in 1..Len(ms) : ms[i] \in ToServer,
         f = act /\ own => Shows(ms, ns, f, act, shn),
         m.type = "DELTA", m.file_path = act, m.full_text = Append(buf, c)
  PROVE  /\ TextsAgree(ms, ns, f, own, doc, act, shn, Append(buf, c))
         /\ TextsAgree(Append(ms, m), ns, f, own, doc, act, shn, Append(buf, c))
<1> DEFINE qs == Append(ms, m)
           t == Append(buf, c)
<1>1. /\ Len(ms) \in Nat /\ Len(qs) = Len(ms) + 1 /\ qs[Len(ms) + 1] = m
      /\ \A i \in 1..Len(ms) : i \in 1..Len(qs) /\ qs[i] = ms[i]
  BY OneMore
<1>2. t \in Texts
  BY DEF Texts
<1>3. \A s \in Texts : IsPrefix(s, buf) => IsPrefix(s, t)
  BY PrefixMore DEF Texts
<1>4. IsPrefix(t, t)
  BY <1>2, PrefixSelf DEF Texts
<1>5. \A i \in 1..Len(ms) : ms[i].type = "DELTA" => ms[i].full_text \in Texts
  BY FromTab
<1> HIDE DEF qs, t
<1>6. Current(ms, f, own, doc, buf) => Current(ms, f, own, doc, t)
  BY <1>3, <1>5 DEF Current, Is
<1>7. TextsAgree(ms, ns, f, own, doc, act, shn, t)
  BY <1>6 DEF TextsAgree
<1>8. Shows(qs, ns, f, act, shn) => Shows(ms, ns, f, act, shn)
  BY <1>1 DEF Shows
<1>9. \A i \in 1..Len(qs) : i \in 1..Len(ms) \/ i = Len(ms) + 1
  BY <1>1
<1>10. Current(ms, f, own, doc, t) => Current(qs, f, own, doc, t)
  <2>1. m.full_text = t
    BY DEF t
  <2> QED
    BY <1>1, <1>4, <1>9, <2>1 DEF Current
<1>11. ASSUME own PROVE Extends(qs, f, doc)
  <2>1. CASE f # act
    <3>1. \A i \in 1..Len(qs) : Is(qs[i], "DELTA", f) => i \in 1..Len(ms) /\ qs[i] = ms[i]
      BY <1>1, <1>9, <2>1 DEF Is
    <3> QED
      BY <1>11, <3>1 DEF TextsAgree, Extends
  <2>2. CASE f = act
    <3>1. Current(ms, f, own, doc, t) /\ Extends(ms, f, doc)
      BY <1>6, <1>11, <2>2 DEF TextsAgree
    <3>2. m.full_text = t
      BY DEF t
    <3>3. ASSUME NEW i \in 1..Len(qs), Is(qs[i], "DELTA", f),
                 NEW j \in 1..Len(qs), j > i, Is(qs[j], "DELTA", f)
          PROVE  IsPrefix(qs[i].full_text, qs[j].full_text)
      <4>1. i \in 1..Len(ms) /\ qs[i] = ms[i]
        BY <1>1, <1>9, <3>3
      <4>2. CASE j \in 1..Len(ms)
        BY <1>1, <3>1, <3>3, <4>1, <4>2 DEF Extends
      <4>3. CASE j = Len(ms) + 1
        BY <1>1, <1>11, <3>1, <3>2, <3>3, <4>1, <4>3 DEF Current
      <4> QED
        BY <1>9, <4>2, <4>3
    <3>4. \A i \in 1..Len(qs) : Is(qs[i], "DELTA", f) => IsPrefix(doc, qs[i].full_text)
      BY <1>1, <1>9, <3>1, <3>2 DEF Extends, Current
    <3> QED
      BY <3>3, <3>4 DEF Extends
  <2> QED
    BY <2>1, <2>2
<1> QED
  BY <1>7, <1>8, <1>10, <1>11 DEF TextsAgree, qs, t

\* Nothing is on its way, and no text is shown.
LEMMA TextsNothing ==
  ASSUME NEW f \in Files, NEW doc, NEW act, NEW buf
  PROVE  TextsAgree(<<>>, <<>>, f, FALSE, doc, act, NoFile, buf)
<1>1. 1..Len(<<>>) = {}
  OBVIOUS
<1> QED
  BY <1>1, FilesAssumption DEF TextsAgree, NewestLast, Shows

=============================================================================
