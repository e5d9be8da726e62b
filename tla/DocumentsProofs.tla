-------------------------- MODULE DocumentsProofs --------------------------
(***************************************************************************)
(* Theorems about the documents: they are what FlatText says, a sequence   *)
(* of characters per file.                                                 *)
(*                                                                         *)
(* A document is a vector of lines, and what is said of it is about the    *)
(* text it stands for: get_full_text puts the lines together, which is     *)
(* taken apart again line by line, by induction over the vector; reading   *)
(* a text goes character by character, by induction over the text.  Where  *)
(* a line is in the text follows from counting the line ends before it.    *)
(***************************************************************************)
EXTENDS Documents, Induction, FiniteSetTheorems

(* The text of a vector of lines. *)

\* The characters there are, the lines made of them, and the vectors of lines.
Chars == {CR, LF} \cup UNION {Range(t) : t \in Texts \cup Inserts}
Lines == Seq(Chars \ {LF})
Vectors == Seq(Lines)
Docs == Vectors \ {<<>>}

\* Every text that is sent is made of the characters.
LEMMA TextsAreOfChars ==
  /\ \A t \in Texts : t \in Seq(Chars)
  /\ \A t \in Inserts : t \in Lines
<1>1. ASSUME NEW t \in Texts \cup Inserts PROVE t \in Seq(Range(t)) /\ Range(t) \subseteq Chars
  BY TextsAssumption DEF Chars
<1>2. ASSUME NEW t \in Texts PROVE t \in Seq(Chars)
  <2>1. t \in Texts \cup Inserts
    OBVIOUS
  <2> QED
    BY <1>1, <2>1, SeqMonotonic
<1>3. ASSUME NEW t \in Inserts PROVE t \in Lines
  <2>1. t \in Texts \cup Inserts
    OBVIOUS
  <2>2. Range(t) \subseteq Chars \ {LF}
    BY <1>1, <2>1, InsertsAssumption
  <2>3. t \in Seq(Range(t))
    BY <1>1, <2>1
  <2> HIDE DEF Chars
  <2> QED
    BY <2>2, <2>3, SeqMonotonic DEF Lines
<1> QED
  BY <1>2, <1>3

\* A line is a text, with its end too.
LEMMA LineIsText ==
  ASSUME NEW l \in Lines
  PROVE  /\ l \in Seq(Chars)
         /\ Append(l, LF) \in Seq(Chars)
         /\ \A i \in 1..Len(l) : l[i] # LF
<1>1. Chars \ {LF} \subseteq Chars /\ LF \in Chars
  BY DEF Chars
<1>2. l \in Seq(Chars \ {LF})
  BY DEF Lines
<1>3. l \in Seq(Chars)
  <2> HIDE DEF Chars
  <2> QED
    BY <1>1, <1>2, SeqMonotonic
<1>4. Append(l, LF) \in Seq(Chars)
  BY <1>1, <1>3, AppendProperties
<1>5. \A i \in 1..Len(l) : l[i] \in Chars \ {LF}
  BY <1>2, ElementOfSeq
<1> QED
  BY <1>3, <1>4, <1>5

\* The lines with their ends.
WithEnds(d) == [i \in DOMAIN d |-> Append(d[i], LF)]

\* What is read is one line with its end after the other.
LEMMA FullText ==
  /\ get_full_text(<<>>) = <<>>
  /\ \A d \in Vectors : get_full_text(d) \in Seq(Chars)
  /\ \A d \in Vectors, l \in Lines :
       get_full_text(Append(d, l)) = get_full_text(d) \o Append(l, LF)
<1>1. ASSUME NEW d \in Vectors
      PROVE  WithEnds(d) \in Seq(Seq(Chars)) /\ Len(WithEnds(d)) = Len(d)
  <2>1. PICK n \in Nat : n = Len(d) /\ DOMAIN d = 1..n
    BY LenProperties DEF Vectors
  <2>2. \A i \in 1..n : d[i] \in Lines
    BY <2>1, ElementOfSeq DEF Vectors
  <2>3. \A i \in 1..n : Append(d[i], LF) \in Seq(Chars)
    BY <2>2, LineIsText
  <2>4. WithEnds(d) = [i \in 1..n |-> Append(d[i], LF)]
    BY <2>1 DEF WithEnds
  <2>5. WithEnds(d) \in [1..n -> Seq(Chars)]
    BY <2>3, <2>4
  <2> QED
    BY <2>1, <2>5
<1>2. WithEnds(<<>>) = <<>>
  <2>1. <<>> \in Vectors /\ Len(<<>>) = 0
    BY EmptySeq DEF Vectors
  <2>2. WithEnds(<<>>) \in Seq(Seq(Chars)) /\ Len(WithEnds(<<>>)) = 0
    BY <1>1, <2>1
  <2> QED
    BY <2>2, EmptySeq
<1>3. ASSUME NEW d \in Vectors, NEW l \in Lines
      PROVE  WithEnds(Append(d, l)) = Append(WithEnds(d), Append(l, LF))
  <2>1. PICK n \in Nat : n = Len(d) /\ DOMAIN d = 1..n
    BY LenProperties DEF Vectors
  <2>2. PICK w \in Vectors : /\ w = Append(d, l)
                             /\ Len(w) = n + 1
                             /\ \A i \in 1..n : w[i] = d[i]
                             /\ w[n + 1] = l
    BY <2>1, AppendProperties DEF Vectors
  <2>3. PICK a \in Seq(Seq(Chars)) : a = WithEnds(d) /\ Len(a) = n
    BY <1>1, <2>1
  <2>4. PICK b \in Seq(Seq(Chars)) : b = WithEnds(w) /\ Len(b) = n + 1
    BY <1>1, <2>2
  <2>5. Append(l, LF) \in Seq(Chars)
    BY LineIsText
  <2>6. PICK e \in Seq(Seq(Chars)) : /\ e = Append(a, Append(l, LF))
                                     /\ Len(e) = n + 1
                                     /\ \A i \in 1..n : e[i] = a[i]
                                     /\ e[n + 1] = Append(l, LF)
    <3>1. PICK v \in Seq(Chars) : v = Append(l, LF)
      BY <2>5
    <3>2. /\ Append(a, v) \in Seq(Seq(Chars))
          /\ Len(Append(a, v)) = Len(a) + 1
          /\ \A i \in 1..Len(a) : Append(a, v)[i] = a[i]
          /\ Append(a, v)[Len(a) + 1] = v
      BY AppendProperties
    <3> QED
      BY <2>3, <3>1, <3>2, Zenon
  <2>7. \A i \in 1..n : a[i] = Append(d[i], LF)
    BY <2>1, <2>3 DEF WithEnds
  <2>8. DOMAIN w = 1..(n + 1)
    BY <2>2, LenProperties DEF Vectors
  <2>9. \A i \in 1..(n + 1) : b[i] = Append(w[i], LF)
    BY <2>4, <2>8 DEF WithEnds
  <2>10. ASSUME NEW i \in 1..(n + 1) PROVE b[i] = e[i]
    <3>1. CASE i \in 1..n
      BY <2>2, <2>6, <2>7, <2>9, <3>1
    <3>2. CASE i = n + 1
      BY <2>2, <2>6, <2>9, <3>2
    <3> QED
      BY <3>1, <3>2
  <2>11. b = e
    BY <2>4, <2>6, <2>10, SeqEqual
  <2> QED
    BY <2>2, <2>3, <2>4, <2>6, <2>11
<1>4. \A d : get_full_text(d) = FlattenSeq(WithEnds(d))
  BY Zenon DEF get_full_text, WithEnds
<1>5. get_full_text(<<>>) = <<>>
  BY <1>2, <1>4, FlattenIs
<1>6. ASSUME NEW d \in Vectors PROVE get_full_text(d) \in Seq(Chars)
  <2>1. WithEnds(d) \in Seq(Seq(Chars))
    BY <1>1
  <2>2. FlattenSeq(WithEnds(d)) \in Seq(Chars)
    BY <2>1, FlattenIs
  <2> QED
    BY <1>4, <2>2
<1>7. ASSUME NEW d \in Vectors, NEW l \in Lines
      PROVE  get_full_text(Append(d, l)) = get_full_text(d) \o Append(l, LF)
  <2>1. WithEnds(d) \in Seq(Seq(Chars))
    BY <1>1
  <2>2. Append(l, LF) \in Seq(Chars)
    BY LineIsText
  <2>3. FlattenSeq(Append(WithEnds(d), Append(l, LF))) = FlattenSeq(WithEnds(d)) \o Append(l, LF)
    BY <2>1, <2>2, FlattenIs
  <2> QED
    BY <1>3, <1>4, <2>3, Zenon
<1> QED
  BY <1>5, <1>6, <1>7

------------------------------------------------------------------------------
(* Reading a text: the lines read so far stand for the characters read so far. *)

\* Front and Last take an appended element off again.
LEMMA FrontLast ==
  ASSUME NEW S, NEW z \in Seq(S), NEW e \in S
  PROVE  Front(Append(z, e)) = z /\ Last(Append(z, e)) = e
<1>1. PICK w \in Seq(S) : w = Append(z, e) /\ w # <<>>
  BY AppendProperties
<1>2. /\ Last(w) \in S
      /\ Append(Front(w), Last(w)) = w
  BY <1>1, SplitSequence
<1>3. Front(w) \in Seq(S)
  <2>1. PICK m \in Nat : m + 1 = Len(w)
    <3>1. Len(w) \in Nat \ {0}
      BY <1>1
    <3>2. Len(w) - 1 \in Nat /\ (Len(w) - 1) + 1 = Len(w)
      BY <3>1
    <3> QED
      BY <3>2
  <2>2. Len(w) - 1 = m
    BY <2>1
  <2>3. SubSeq(w, 1, m) \in Seq(S)
    BY <2>1
  <2> QED
    BY <2>2, <2>3, Zenon DEF Front
<1>4. Append(Front(w), Last(w)) = Append(z, e)
  BY <1>1, <1>2
<1> QED
  BY <1>1, <1>2, <1>3, <1>4, AppendInjective

\* Every sequence but the empty one is what is before its last element, and that.
LEMMA FrontAndLast ==
  ASSUME NEW S, NEW w \in Seq(S), w # <<>>
  PROVE  Front(w) \in Seq(S) /\ Last(w) \in S /\ w = Append(Front(w), Last(w))
<1>1. PICK z \in Seq(S), e \in S : w = Append(z, e)
  BY SequenceEmptyOrAppend
<1> QED
  BY <1>1, FrontLast

\* The characters that lines being read stand for: the last one has no end yet.
Unread(x) == get_full_text(Front(x)) \o Last(x)

\* Taking a document apart.
LEMMA DocParts ==
  ASSUME NEW x \in Docs
  PROVE  /\ Front(x) \in Vectors
         /\ Last(x) \in Lines
         /\ x = Append(Front(x), Last(x))
         /\ Unread(x) \in Seq(Chars)
<1>1. /\ Front(x) \in Vectors
      /\ Last(x) \in Lines
      /\ x = Append(Front(x), Last(x))
  BY FrontAndLast DEF Docs, Vectors
<1>2. Last(x) \in Seq(Chars)
  BY <1>1, LineIsText
<1>3. get_full_text(Front(x)) \in Seq(Chars)
  BY <1>1, FullText
<1>4. Unread(x) \in Seq(Chars)
  BY <1>2, <1>3, ConcatProperties DEF Unread
<1> QED
  BY <1>1, <1>4

\* Putting one together.
LEMMA DocMade ==
  ASSUME NEW d \in Vectors, NEW l \in Lines
  PROVE  /\ Append(d, l) \in Docs
         /\ Front(Append(d, l)) = d
         /\ Last(Append(d, l)) = l
         /\ Unread(Append(d, l)) = get_full_text(d) \o l
<1>1. Append(d, l) \in Docs
  BY AppendProperties DEF Docs, Vectors
<1>2. Front(Append(d, l)) = d /\ Last(Append(d, l)) = l
  BY FrontLast DEF Vectors
<1> QED
  BY <1>1, <1>2 DEF Unread

\* No line read yet.
LEMMA EmptyIsDoc ==
  /\ <<>> \in Lines
  /\ <<>> \in Vectors
  /\ EmptyDocument = Append(<<>>, <<>>)
  /\ EmptyDocument \in Docs
  /\ Unread(EmptyDocument) = <<>>
<1>1. <<>> \in Lines /\ <<>> \in Vectors
  BY EmptySeq DEF Lines, Vectors
<1>2. EmptyDocument = Append(<<>>, <<>>)
  <2>1. PICK e : e = <<>>
    OBVIOUS
  <2>2. <<e>> = Append(<<>>, e)
    OBVIOUS
  <2> QED
    BY <2>1, <2>2 DEF EmptyDocument
<1>3. Append(<<>>, <<>>) \in Docs /\ Unread(Append(<<>>, <<>>)) = get_full_text(<<>>) \o <<>>
  BY <1>1, DocMade
<1>4. get_full_text(<<>>) \o <<>> = <<>>
  <2>1. <<>> \o <<>> = <<>>
    OBVIOUS
  <2> QED
    BY <2>1, FullText
<1> QED
  BY <1>1, <1>2, <1>3, <1>4, Zenon

\* Appending to a concatenation.
LEMMA AppendConcat ==
  ASSUME NEW S, NEW s \in Seq(S), NEW z \in Seq(S), NEW e \in S
  PROVE  s \o Append(z, e) = Append(s \o z, e)
<1>1. <<e>> \in Seq(S)
  OBVIOUS
<1>2. Append(z, e) = z \o <<e>>
  BY AppendIsConcat
<1>3. s \o z \in Seq(S)
  BY ConcatProperties
<1>4. Append(s \o z, e) = (s \o z) \o <<e>>
  BY <1>3, AppendIsConcat
<1>5. (s \o z) \o <<e>> = s \o (z \o <<e>>)
  BY <1>1, ConcatAssociative
<1> QED
  BY <1>2, <1>4, <1>5, Zenon

\* Reading a character: what the lines stand for is longer by it.
LEMMA ReadIs ==
  ASSUME NEW d \in Vectors, NEW l \in Lines, NEW c \in Chars
  PROVE  /\ c = LF => Read(Append(d, l), c) = Append(Append(d, l), <<>>)
         /\ c # LF => /\ Append(l, c) \in Lines
                      /\ Read(Append(d, l), c) = Append(d, Append(l, c))
<1>1. c = LF => Read(Append(d, l), c) = Append(Append(d, l), <<>>)
  BY Zenon DEF Read
<1>2. ASSUME c # LF
      PROVE  /\ Append(l, c) \in Lines
             /\ Read(Append(d, l), c) = Append(d, Append(l, c))
  <2>1. Append(l, c) \in Lines
    BY <1>2, AppendProperties DEF Lines
  <2>2. PICK n \in Nat : n = Len(d)
    BY DEF Vectors
  <2>3. PICK w \in Vectors : /\ w = Append(d, l)
                             /\ Len(w) = n + 1
                             /\ \A i \in 1..n : w[i] = d[i]
                             /\ w[n + 1] = l
    BY <2>2, AppendProperties DEF Vectors
  <2>4. PICK m \in Lines : m = Append(l, c)
    BY <2>1
  <2>5. PICK v \in Vectors : /\ v = Append(d, m)
                             /\ Len(v) = n + 1
                             /\ \A i \in 1..n : v[i] = d[i]
                             /\ v[n + 1] = m
    BY <2>2, AppendProperties DEF Vectors
  <2>6. Read(w, c) = [w EXCEPT ![n + 1] = m]
    BY <1>2, <2>3, <2>4 DEF Read
  <2>7. PICK k \in 1..Len(w) : k = n + 1
    BY <2>3
  <2>8. /\ [w EXCEPT ![k] = m] \in Vectors
        /\ Len([w EXCEPT ![k] = m]) = Len(w)
        /\ \A j \in 1..Len(w) : [w EXCEPT ![k] = m][j] = IF j = k THEN m ELSE w[j]
    <3>1. w \in Seq(Lines)
      BY DEF Vectors
    <3> QED
      BY <3>1, ExceptSeq DEF Vectors
  <2>9. PICK x \in Vectors : x = [w EXCEPT ![k] = m]
    BY <2>8
  <2>10. Len(x) = n + 1 /\ \A j \in 1..(n + 1) : x[j] = IF j = n + 1 THEN m ELSE w[j]
    BY <2>3, <2>7, <2>8, <2>9
  <2>11. \A j \in 1..(n + 1) : x[j] = v[j]
    BY <2>3, <2>5, <2>10
  <2>12. x = v
    BY <2>5, <2>10, <2>11, SeqEqual DEF Vectors
  <2> QED
    BY <2>1, <2>3, <2>4, <2>5, <2>6, <2>7, <2>9, <2>12
<1> QED
  BY <1>1, <1>2

\* Reading a character makes the lines stand for one character more.
LEMMA UnreadRead ==
  ASSUME NEW x \in Docs, NEW c \in Chars
  PROVE  Read(x, c) \in Docs /\ Unread(Read(x, c)) = Append(Unread(x), c)
<1>1. PICK d \in Vectors, l \in Lines : /\ x = Append(d, l)
                                        /\ d = Front(x)
                                        /\ l = Last(x)
  BY DocParts
<1>2. Unread(x) = get_full_text(d) \o l
  BY <1>1, Zenon DEF Unread
<1>3. get_full_text(d) \in Seq(Chars) /\ l \in Seq(Chars)
  BY FullText, LineIsText
<1>4. get_full_text(d) \o Append(l, c) = Append(get_full_text(d) \o l, c)
  BY <1>3, AppendConcat
<1>5. CASE c = LF
  <2>1. Read(x, c) = Append(x, <<>>)
    BY <1>1, <1>5, ReadIs, Zenon
  <2>2. x \in Vectors /\ <<>> \in Lines
    BY EmptyIsDoc DEF Docs
  <2>3. /\ Append(x, <<>>) \in Docs
        /\ Unread(Append(x, <<>>)) = get_full_text(x) \o <<>>
    BY <2>2, DocMade
  <2>4. get_full_text(x) = get_full_text(d) \o Append(l, LF)
    BY <1>1, FullText, Zenon
  <2>5. get_full_text(x) \o <<>> = get_full_text(x)
    BY <2>2, FullText, ConcatEmptySeq
  <2> QED
    BY <1>2, <1>4, <1>5, <2>1, <2>3, <2>4, <2>5, Zenon
<1>6. CASE c # LF
  <2>1. Append(l, c) \in Lines /\ Read(x, c) = Append(d, Append(l, c))
    BY <1>1, <1>6, ReadIs, Zenon
  <2>2. /\ Append(d, Append(l, c)) \in Docs
        /\ Unread(Append(d, Append(l, c))) = get_full_text(d) \o Append(l, c)
    BY <2>1, DocMade
  <2> QED
    BY <1>2, <1>4, <2>1, <2>2, Zenon
<1> QED
  BY <1>5, <1>6

\* Any lines can come about by reading.
LEMMA ReadBack ==
  ASSUME NEW x \in Docs, x # EmptyDocument
  PROVE  \E y \in Docs, c \in Chars : x = Read(y, c)
<1>1. PICK d \in Vectors, l \in Lines : x = Append(d, l)
  BY DocParts
<1>2. CASE l = <<>>
  <2>1. d # <<>>
    BY <1>1, <1>2, EmptyIsDoc
  <2>2. d \in Docs
    BY <2>1 DEF Docs
  <2>3. PICK b \in Vectors, m \in Lines : d = Append(b, m)
    BY <2>2, DocParts
  <2>4. LF \in Chars
    BY DEF Chars
  <2>5. Read(d, LF) = Append(d, <<>>)
    BY <2>3, <2>4, ReadIs, Zenon
  <2> QED
    BY <1>1, <1>2, <2>2, <2>4, <2>5, Zenon
<1>3. CASE l # <<>>
  <2>1. PICK m \in Lines, c \in Chars \ {LF} : l = Append(m, c)
    BY <1>3, FrontAndLast DEF Lines
  <2>2. c \in Chars /\ c # LF
    BY <2>1
  <2>3. Append(d, m) \in Docs
    BY DocMade
  <2>4. Read(Append(d, m), c) = Append(d, Append(m, c))
    BY <2>2, ReadIs
  <2> QED
    BY <1>1, <2>1, <2>2, <2>3, <2>4, Zenon
<1> QED
  BY <1>2, <1>3

\* No two vectors of lines stand for the same characters.
LEMMA UnreadOnce ==
  ASSUME NEW x \in Docs, NEW y \in Docs, Unread(x) = Unread(y)
  PROVE  x = y
<1> DEFINE P == {t \in Seq(Chars) : \A a, b \in Docs : Unread(a) = t /\ Unread(b) = t => a = b}
<1>1. ASSUME NEW a \in Docs, a # EmptyDocument
      PROVE  \E z \in Docs, c \in Chars : a = Read(z, c) /\ Unread(a) = Append(Unread(z), c)
  <2>1. PICK z \in Docs, c \in Chars : a = Read(z, c)
    BY <1>1, ReadBack
  <2>2. Unread(a) = Append(Unread(z), c)
    BY <2>1, UnreadRead
  <2> QED
    BY <2>1, <2>2
<1>2. \A z \in Docs : Unread(z) \in Seq(Chars)
  BY DocParts
<1>3. <<>> \in P
  <2>1. ASSUME NEW a \in Docs, Unread(a) = <<>> PROVE a = EmptyDocument
    <3> SUFFICES ASSUME a # EmptyDocument PROVE FALSE
      OBVIOUS
    <3>1. PICK z \in Docs, c \in Chars : Unread(a) = Append(Unread(z), c)
      BY <1>1
    <3>2. Append(Unread(z), c) # <<>>
      BY <1>2, AppendProperties
    <3> QED
      BY <2>1, <3>1, <3>2
  <2>2. <<>> \in Seq(Chars)
    OBVIOUS
  <2> QED
    BY <2>1, <2>2
<1>4. ASSUME NEW t \in Seq(Chars), NEW e \in Chars, t \in P PROVE Append(t, e) \in P
  <2>1. Append(t, e) \in Seq(Chars) /\ Append(t, e) # <<>>
    BY AppendProperties
  <2>2. ASSUME NEW a \in Docs, Unread(a) = Append(t, e)
        PROVE  \E z \in Docs : a = Read(z, e) /\ Unread(z) = t
    <3>1. a # EmptyDocument
      BY <2>1, <2>2, EmptyIsDoc
    <3>2. PICK z \in Docs, c \in Chars : a = Read(z, c) /\ Unread(a) = Append(Unread(z), c)
      BY <1>1, <3>1
    <3>3. Unread(z) = t /\ c = e
      <4>1. Append(Unread(z), c) = Append(t, e)
        BY <2>2, <3>2
      <4> QED
        BY <1>2, <4>1, AppendInjective
    <3> QED
      BY <3>2, <3>3
  <2>3. ASSUME NEW a \in Docs, NEW b \in Docs, Unread(a) = Append(t, e), Unread(b) = Append(t, e)
        PROVE  a = b
    <3>1. PICK z \in Docs : a = Read(z, e) /\ Unread(z) = t
      BY <2>2, <2>3
    <3>2. PICK w \in Docs : b = Read(w, e) /\ Unread(w) = t
      BY <2>2, <2>3
    <3>3. z = w
      BY <1>4, <3>1, <3>2
    <3> QED
      BY <3>1, <3>2, <3>3, Zenon
  <2> QED
    BY <2>1, <2>3
<1> HIDE DEF P
<1>5. Unread(x) \in P
  BY <1>2, <1>3, <1>4, SequenceSetInduction
<1> QED
  BY <1>5 DEF P

\* Reading a text goes character by character.
LEMMA ReadingRuns ==
  ASSUME NEW text \in Seq(Chars), NEW n \in Nat, n = Len(text)
  PROVE  \E h \in [0..n -> Docs] :
           /\ h[0] = EmptyDocument
           /\ \A k \in 0..(n - 1) : h[k + 1] = Read(h[k], text[k + 1])
           /\ h[n] = FoldLeft(Read, EmptyDocument, text)
<1> DEFINE st == [q \in Docs \X (1..n) |-> Read(q[1], text[q[2]])]
           Is(f) == f = [s \in SUBSET (1..n) |->
                           IF s = {} THEN EmptyDocument
                           ELSE Read(f[s \ {Max(s)}], text[Max(s)])]
           g == CHOOSE f : Is(f)
<1>1. \A i \in 1..n : text[i] \in Chars
  BY ElementOfSeq
<1>2. \A x \in Docs, i \in 1..n : <<x, i>> \in Docs \X (1..n) /\ st[<<x, i>>] = Read(x, text[i])
  OBVIOUS
<1>3. st \in [Docs \X (1..n) -> Docs]
  <2>1. \A x \in Docs, i \in 1..n : Read(x, text[i]) \in Docs
    BY <1>1, UnreadRead
  <2>2. ASSUME NEW q \in Docs \X (1..n) PROVE Read(q[1], text[q[2]]) \in Docs
    <3>1. q[1] \in Docs /\ q[2] \in 1..n
      OBVIOUS
    <3> QED
      BY <2>1, <3>1
  <2> QED
    BY <2>2
<1> HIDE DEF st
<1>4. EmptyDocument \in Docs
  BY EmptyIsDoc
<1>5. PICK f \in [SUBSET (1..n) -> Docs] : Folds(st, EmptyDocument, f, n)
  BY <1>3, <1>4, FoldExists
<1>6. Is(f)
  <2> DEFINE e == [s \in SUBSET (1..n) |->
                     IF s = {} THEN EmptyDocument ELSE Read(f[s \ {Max(s)}], text[Max(s)])]
  <2>1. ASSUME NEW s \in SUBSET (1..n) PROVE f[s] = e[s]
    <3>1. f[s] = IF s = {} THEN EmptyDocument ELSE st[<<f[s \ {Max(s)}], Max(s)>>]
      BY <1>5 DEF Folds
    <3>2. s # {} => Max(s) \in 1..n
      BY Largest
    <3>3. f[s \ {Max(s)}] \in Docs
      <4>1. s \ {Max(s)} \in SUBSET (1..n)
        OBVIOUS
      <4> QED
        BY <4>1
    <3>4. s # {} => st[<<f[s \ {Max(s)}], Max(s)>>] = Read(f[s \ {Max(s)}], text[Max(s)])
      BY <1>2, <3>2, <3>3
    <3> QED
      BY <3>1, <3>4
  <2>2. f = [s \in SUBSET (1..n) |-> f[s]] /\ e = [s \in SUBSET (1..n) |-> e[s]]
    OBVIOUS
  <2> HIDE DEF e
  <2>3. f = e
    BY <2>1, <2>2, Zenon
  <2> QED
    BY <2>3, Zenon DEF e
<1>7. Is(g)
  BY <1>6, Zenon
<1>8. FoldLeft(Read, EmptyDocument, text) = g[1..n]
  <2>1. DOMAIN text = 1..n
    BY LenProperties
  <2> QED
    BY <2>1, Zenon DEF FoldLeft, MapThenFoldSet
<1> HIDE DEF g
<1>9. g[{}] = EmptyDocument
  <2>1. {} \in SUBSET (1..n)
    OBVIOUS
  <2> QED
    BY <1>7, <2>1, Zenon
<1>10. ASSUME NEW s \in SUBSET (1..n), s # {}, g[s \ {Max(s)}] \in Docs
       PROVE  g[s] = st[<<g[s \ {Max(s)}], Max(s)>>]
  <2>1. g[s] = Read(g[s \ {Max(s)}], text[Max(s)])
    BY <1>7, <1>10, Zenon
  <2>2. Max(s) \in 1..n
    BY <1>10, Largest
  <2> QED
    BY <1>2, <1>10, <2>1, <2>2
<1>11. FoldsWithin(st, Docs, EmptyDocument, g, n)
  BY <1>9, <1>10 DEF FoldsWithin
<1>12. /\ g[1..0] = EmptyDocument
       /\ \A k \in 0..n : g[1..k] \in Docs
       /\ \A k \in 0..(n - 1) : g[1..(k + 1)] = st[<<g[1..k], k + 1>>]
  <2>1. StepByStep(st, Docs, EmptyDocument, g, n)
    BY <1>3, <1>4, <1>11, FoldRuns
  <2> QED
    BY <2>1 DEF StepByStep
<1>13. ASSUME NEW k \in 0..(n - 1) PROVE g[1..(k + 1)] = Read(g[1..k], text[k + 1])
  <2>1. k \in 0..n /\ k + 1 \in 1..n
    OBVIOUS
  <2>2. g[1..k] \in Docs /\ g[1..(k + 1)] = st[<<g[1..k], k + 1>>]
    BY <1>12, <2>1
  <2> QED
    BY <1>2, <2>1, <2>2, Zenon
<1> DEFINE h == [k \in 0..n |-> g[1..k]]
<1>14. \A k \in 0..n : h[k] = g[1..k]
  OBVIOUS
<1>15. h \in [0..n -> Docs]
  BY <1>12
<1> HIDE DEF h
<1>16. h[0] = EmptyDocument /\ h[n] = g[1..n]
  BY <1>12, <1>14
<1>17. ASSUME NEW k \in 0..(n - 1) PROVE h[k + 1] = Read(h[k], text[k + 1])
  <2>1. k \in 0..n /\ k + 1 \in 0..n
    OBVIOUS
  <2> QED
    BY <1>13, <1>14, <2>1, Zenon
<1> QED
  BY <1>8, <1>15, <1>16, <1>17

\* One place more is one element more.
LEMMA OneMore ==
  ASSUME NEW S, NEW s \in Seq(S), NEW k \in Nat, k + 1 <= Len(s)
  PROVE  /\ SubSeq(s, 1, k) \in Seq(S)
         /\ s[k + 1] \in S
         /\ SubSeq(s, 1, k + 1) = Append(SubSeq(s, 1, k), s[k + 1])
<1>1. PICK n \in Nat : n = Len(s)
  OBVIOUS
<1>2. \A i \in 1..n : s[i] \in S
  BY <1>1, ElementOfSeq
<1>3. k + 1 \in 1..n
  BY <1>1
<1>4. SubSeq(s, 1, k) \in Seq(S)
  BY <1>1, <1>2
<1>5. PICK a \in Seq(S) : a = SubSeq(s, 1, k)
  BY <1>4
<1>6. PICK m \in Nat : m = k + 1 /\ m <= n
  BY <1>1
<1>7. PICK b \in Seq(S) : b = SubSeq(s, 1, m)
  <2>1. \A i \in 1..m : s[i] \in S
    BY <1>2, <1>6
  <2>2. 1 \in Int /\ m \in Int
    OBVIOUS
  <2>3. SubSeq(s, 1, m) \in Seq(S)
    BY <2>1, <2>2, SubSeqProperties
  <2> QED
    BY <2>3
<1>8. Len(a) = k /\ \A i \in 1..k : a[i] = s[i]
  BY <1>1, <1>5
<1>9. Len(b) = m /\ \A i \in 1..m : b[i] = s[i]
  BY <1>1, <1>6, <1>7
<1>10. PICK e \in S : e = s[k + 1]
  BY <1>2, <1>3
<1>11. PICK c \in Seq(S) : /\ c = Append(a, e)
                           /\ Len(c) = k + 1
                           /\ \A i \in 1..k : c[i] = a[i]
                           /\ c[k + 1] = e
  <2>1. PICK c \in Seq(S) : c = Append(a, e)
    BY AppendProperties
  <2>2. /\ Len(c) = Len(a) + 1
        /\ \A i \in 1..Len(a) : c[i] = a[i]
        /\ c[Len(a) + 1] = e
    BY <2>1, AppendProperties
  <2> QED
    BY <1>8, <2>1, <2>2, Zenon
<1>12. \A i \in 1..m : b[i] = c[i]
  BY <1>6, <1>8, <1>9, <1>10, <1>11
<1>13. b = c
  BY <1>6, <1>9, <1>11, <1>12, SeqEqual
<1> QED
  BY <1>4, <1>5, <1>6, <1>7, <1>10, <1>11, <1>13

\* The lines that reading ends with stand for the text that was read.
LEMMA ReadingStandsFor ==
  ASSUME NEW text \in Seq(Chars), NEW n \in Nat, n = Len(text), NEW h \in [0..n -> Docs],
         h[0] = EmptyDocument,
         \A k \in 0..(n - 1) : h[k + 1] = Read(h[k], text[k + 1])
  PROVE  Unread(h[n]) = text
<1> DEFINE E == {k \in Nat : k <= n => Unread(h[k]) = SubSeq(text, 1, k)}
<1>1. 0 \in E
  <2>1. SubSeq(text, 1, 0) = <<>>
    OBVIOUS
  <2> QED
    BY <2>1, EmptyIsDoc
<1>2. ASSUME NEW k \in Nat, k \in E PROVE k + 1 \in E
  <2> SUFFICES ASSUME k + 1 <= n PROVE Unread(h[k + 1]) = SubSeq(text, 1, k + 1)
    OBVIOUS
  <2>1. Unread(h[k]) = SubSeq(text, 1, k)
    BY <1>2
  <2>2. k \in 0..(n - 1) /\ h[k] \in Docs
    OBVIOUS
  <2>3. /\ text[k + 1] \in Chars
        /\ SubSeq(text, 1, k + 1) = Append(SubSeq(text, 1, k), text[k + 1])
    BY OneMore
  <2>4. h[k + 1] = Read(h[k], text[k + 1])
    BY <2>2
  <2>5. Unread(Read(h[k], text[k + 1])) = Append(Unread(h[k]), text[k + 1])
    BY <2>2, <2>3, UnreadRead
  <2> QED
    BY <2>1, <2>3, <2>4, <2>5, Zenon
<1> HIDE DEF E
<1>3. n \in E
  BY <1>1, <1>2, SetInduction
<1>4. SubSeq(text, 1, n) = text
  BY SubSeqFull
<1> QED
  BY <1>3, <1>4 DEF E

\* The lines read from a text.
LEMMA GetLinesIs ==
  ASSUME NEW text \in Seq(Chars)
  PROVE  \E x \in Docs : /\ x = FoldLeft(Read, EmptyDocument, text)
                         /\ Unread(x) = text
                         /\ GetLines(text) = IF Last(x) = <<>> THEN Front(x) ELSE x
<1>1. PICK n \in Nat : n = Len(text)
  OBVIOUS
<1>2. PICK h \in [0..n -> Docs] :
        /\ h[0] = EmptyDocument
        /\ \A k \in 0..(n - 1) : h[k + 1] = Read(h[k], text[k + 1])
        /\ h[n] = FoldLeft(Read, EmptyDocument, text)
  BY <1>1, ReadingRuns
<1>3. Unread(h[n]) = text
  BY <1>1, <1>2, ReadingStandsFor
<1>4. n \in 0..n
  OBVIOUS
<1>5. PICK x \in Docs : x = h[n]
  BY <1>4
<1>6. GetLines(text) = IF Last(x) = <<>> THEN Front(x) ELSE x
  BY <1>2, <1>5, Zenon DEF GetLines
<1> QED
  BY <1>2, <1>3, <1>5, <1>6

\* Lines that are written out and read again are the same lines.
LEMMA LinesComeBack ==
  ASSUME NEW d \in Vectors
  PROVE  GetLines(get_full_text(d)) = d
<1>1. PICK t \in Seq(Chars) : t = get_full_text(d)
  BY FullText
<1>2. PICK x \in Docs : /\ Unread(x) = t
                        /\ GetLines(t) = IF Last(x) = <<>> THEN Front(x) ELSE x
  BY GetLinesIs
<1>3. /\ Append(d, <<>>) \in Docs
      /\ Front(Append(d, <<>>)) = d
      /\ Last(Append(d, <<>>)) = <<>>
      /\ Unread(Append(d, <<>>)) = get_full_text(d) \o <<>>
  BY EmptyIsDoc, DocMade
<1>4. t \o <<>> = t
  BY ConcatEmptySeq
<1>5. x = Append(d, <<>>)
  BY <1>1, <1>2, <1>3, <1>4, UnreadOnce
<1> QED
  BY <1>1, <1>2, <1>3, <1>5, Zenon

\* All the lines without a CR at their end.
AllStripped(d) == [i \in DOMAIN d |-> Stripped(d[i])]

\* Each of them is a line.
LEMMA StrippedIsLine ==
  ASSUME NEW l \in Lines
  PROVE  Stripped(l) \in Lines
<1>1. l # <<>> => Front(l) \in Lines
  BY FrontAndLast DEF Lines
<1> QED
  BY <1>1, Zenon DEF Stripped

\* Stripping goes line by line.
LEMMA AllStrippedIs ==
  /\ AllStripped(<<>>) = <<>>
  /\ \A d \in Vectors : AllStripped(d) \in Vectors /\ Len(AllStripped(d)) = Len(d)
  /\ \A d \in Vectors, l \in Lines :
       AllStripped(Append(d, l)) = Append(AllStripped(d), Stripped(l))
<1>1. ASSUME NEW d \in Vectors
      PROVE  AllStripped(d) \in Vectors /\ Len(AllStripped(d)) = Len(d)
  <2>1. PICK n \in Nat : n = Len(d) /\ DOMAIN d = 1..n
    BY LenProperties DEF Vectors
  <2>2. \A i \in 1..n : d[i] \in Lines
    BY <2>1, ElementOfSeq DEF Vectors
  <2>3. \A i \in 1..n : Stripped(d[i]) \in Lines
    BY <2>2, StrippedIsLine
  <2>4. AllStripped(d) = [i \in 1..n |-> Stripped(d[i])]
    BY <2>1 DEF AllStripped
  <2>5. AllStripped(d) \in [1..n -> Lines]
    BY <2>3, <2>4
  <2> QED
    BY <2>1, <2>5 DEF Vectors
<1>2. AllStripped(<<>>) = <<>>
  <2>1. <<>> \in Vectors /\ Len(<<>>) = 0
    BY EmptySeq DEF Vectors
  <2>2. AllStripped(<<>>) \in Vectors /\ Len(AllStripped(<<>>)) = 0
    BY <1>1, <2>1
  <2> QED
    BY <2>2, EmptySeq DEF Vectors
<1>3. ASSUME NEW d \in Vectors, NEW l \in Lines
      PROVE  AllStripped(Append(d, l)) = Append(AllStripped(d), Stripped(l))
  <2>1. PICK n \in Nat : n = Len(d) /\ DOMAIN d = 1..n
    BY LenProperties DEF Vectors
  <2>2. PICK w \in Vectors : /\ w = Append(d, l)
                             /\ Len(w) = n + 1
                             /\ \A i \in 1..n : w[i] = d[i]
                             /\ w[n + 1] = l
    BY <2>1, AppendProperties DEF Vectors
  <2>3. PICK a \in Vectors : a = AllStripped(d) /\ Len(a) = n
    BY <1>1, <2>1
  <2>4. PICK b \in Vectors : b = AllStripped(w) /\ Len(b) = n + 1
    BY <1>1, <2>2
  <2>5. PICK m \in Lines : m = Stripped(l)
    BY StrippedIsLine
  <2>6. PICK e \in Vectors : /\ e = Append(a, m)
                             /\ Len(e) = n + 1
                             /\ \A i \in 1..n : e[i] = a[i]
                             /\ e[n + 1] = m
    BY <2>3, AppendProperties DEF Vectors
  <2>7. \A i \in 1..n : a[i] = Stripped(d[i])
    BY <2>1, <2>3 DEF AllStripped
  <2>8. DOMAIN w = 1..(n + 1)
    BY <2>2, LenProperties DEF Vectors
  <2>9. \A i \in 1..(n + 1) : b[i] = Stripped(w[i])
    BY <2>4, <2>8 DEF AllStripped
  <2>10. ASSUME NEW i \in 1..(n + 1) PROVE b[i] = e[i]
    <3>1. CASE i \in 1..n
      BY <2>2, <2>6, <2>7, <2>9, <3>1
    <3>2. CASE i = n + 1
      BY <2>2, <2>5, <2>6, <2>9, <3>2
    <3> QED
      BY <3>1, <3>2
  <2>11. b = e
    BY <2>4, <2>6, <2>10, SeqEqual DEF Vectors
  <2> QED
    BY <2>2, <2>3, <2>4, <2>5, <2>6, <2>11
<1> QED
  BY <1>1, <1>2, <1>3

\* A text that is set makes a document.
LEMMA SetFullTextIs ==
  ASSUME NEW text \in Seq(Chars)
  PROVE  /\ GetLines(text) \in Vectors
         /\ set_full_text(text) = IF GetLines(text) = <<>> THEN EmptyDocument
                                  ELSE AllStripped(GetLines(text))
         /\ set_full_text(text) \in Docs
<1>1. GetLines(text) \in Vectors
  <2>1. PICK x \in Docs : GetLines(text) = IF Last(x) = <<>> THEN Front(x) ELSE x
    BY GetLinesIs
  <2>2. x \in Vectors /\ Front(x) \in Vectors
    BY DocParts DEF Docs
  <2> QED
    BY <2>1, <2>2
<1>2. set_full_text(text) = IF GetLines(text) = <<>> THEN EmptyDocument
                            ELSE AllStripped(GetLines(text))
  BY Zenon DEF set_full_text, AllStripped
<1>3. ASSUME NEW d \in Docs PROVE AllStripped(d) \in Docs
  <2>1. d \in Vectors /\ Len(d) # 0
    BY EmptySeq DEF Docs, Vectors
  <2>2. AllStripped(d) \in Vectors /\ Len(AllStripped(d)) # 0
    BY <2>1, AllStrippedIs
  <2>3. AllStripped(d) # <<>>
    BY <2>2
  <2> QED
    BY <2>2, <2>3 DEF Docs
<1>4. GetLines(text) # <<>> => GetLines(text) \in Docs
  BY <1>1 DEF Docs
<1> QED
  BY <1>1, <1>2, <1>3, <1>4, EmptyIsDoc, Zenon

\* A document whose lines do not end with CR comes back as it was.
LEMMA Reloaded ==
  ASSUME NEW d \in Docs, \A i \in DOMAIN d : Stripped(d[i]) = d[i]
  PROVE  set_full_text(get_full_text(d)) = d
<1>1. d \in Vectors /\ d # <<>>
  BY DEF Docs
<1>2. get_full_text(d) \in Seq(Chars)
  BY <1>1, FullText
<1>3. GetLines(get_full_text(d)) = d
  BY <1>1, LinesComeBack
<1>4. set_full_text(get_full_text(d)) = AllStripped(d)
  BY <1>1, <1>2, <1>3, SetFullTextIs
<1>5. AllStripped(d) = d
  <2>1. AllStripped(d) \in Seq(Lines) /\ Len(AllStripped(d)) = Len(d) /\ d \in Seq(Lines)
    BY <1>1, AllStrippedIs DEF Vectors
  <2>2. DOMAIN d = 1..Len(d)
    BY <2>1, LenProperties
  <2>3. \A i \in 1..Len(d) : AllStripped(d)[i] = d[i]
    BY <2>2 DEF AllStripped
  <2>4. PICK a \in Seq(Lines) : a = AllStripped(d)
    BY <2>1
  <2>5. Len(a) = Len(d) /\ \A i \in 1..Len(a) : a[i] = d[i]
    BY <2>1, <2>3, <2>4
  <2>6. a = d
    BY <2>1, <2>5, SeqEqual
  <2> QED
    BY <2>4, <2>6
<1> QED
  BY <1>4, <1>5

------------------------------------------------------------------------------
(* Where a line is in the text. *)

\* The text of two vectors of lines is that of the one and that of the other.
LEMMA TwoTexts ==
  ASSUME NEW a \in Vectors, NEW b \in Vectors
  PROVE  get_full_text(a \o b) = get_full_text(a) \o get_full_text(b)
<1> DEFINE P == {z \in Vectors : get_full_text(a \o z) = get_full_text(a) \o get_full_text(z)}
<1>1. get_full_text(a) \in Seq(Chars)
  BY FullText
<1>2. <<>> \in P
  <2>1. a \o <<>> = a
    BY ConcatEmptySeq DEF Vectors
  <2>2. get_full_text(a) \o <<>> = get_full_text(a)
    BY <1>1, ConcatEmptySeq
  <2> QED
    BY <2>1, <2>2, FullText, EmptyIsDoc
<1>3. ASSUME NEW z \in Vectors, NEW l \in Lines, z \in P PROVE Append(z, l) \in P
  <2>1. Append(z, l) \in Vectors /\ a \o z \in Vectors
    BY AppendProperties, ConcatProperties DEF Vectors
  <2>2. a \o Append(z, l) = Append(a \o z, l)
    BY AppendConcat DEF Vectors
  <2>3. get_full_text(Append(a \o z, l)) = get_full_text(a \o z) \o Append(l, LF)
    BY <2>1, FullText
  <2>4. get_full_text(a \o z) = get_full_text(a) \o get_full_text(z)
    BY <1>3
  <2>5. get_full_text(Append(z, l)) = get_full_text(z) \o Append(l, LF)
    BY FullText
  <2>6. (get_full_text(a) \o get_full_text(z)) \o Append(l, LF)
          = get_full_text(a) \o (get_full_text(z) \o Append(l, LF))
    <3>1. PICK e \in Seq(Chars) : e = Append(l, LF)
      BY LineIsText
    <3>2. get_full_text(z) \in Seq(Chars)
      BY FullText
    <3>3. (get_full_text(a) \o get_full_text(z)) \o e = get_full_text(a) \o (get_full_text(z) \o e)
      BY <1>1, <3>2, ConcatAssociative
    <3> QED
      BY <3>1, <3>3, Zenon
  <2>7. get_full_text(a \o Append(z, l)) = get_full_text(a) \o get_full_text(Append(z, l))
    BY <2>2, <2>3, <2>4, <2>5, <2>6, Zenon
  <2> QED
    BY <2>1, <2>7
<1> HIDE DEF P
<1>4. b \in P
  <2>1. \A s \in Seq(Lines), e \in Lines : s \in P => Append(s, e) \in P
    BY <1>3 DEF Vectors
  <2>2. Seq(Lines) \subseteq P
    BY <1>2, <2>1, SequenceSetInduction
  <2> QED
    BY <2>2 DEF Vectors
<1> QED
  BY <1>4 DEF P

\* What is before a place of a sequence, and what is behind it.
Parts(S, d, r, a, b) ==
  /\ a \in Seq(S)
  /\ b \in Seq(S)
  /\ a = SubSeq(d, 1, r)
  /\ Len(a) = r
  /\ d[r + 1] \in S
  /\ d = Append(a, d[r + 1]) \o b
  /\ \A l \in S : [d EXCEPT ![r + 1] = l] = Append(a, l) \o b

\* A sequence is what is before a place, the element there, and what is behind;
\* another element in the place leaves the rest.
LEMMA PlaceParts ==
  ASSUME NEW S, NEW d \in Seq(S), NEW r \in Nat, r + 1 <= Len(d)
  PROVE  \E a, b : Parts(S, d, r, a, b)
<1>1. PICK n \in Nat : n = Len(d)
  OBVIOUS
<1>2. PICK k \in 1..n : k = r + 1
  BY <1>1
<1>3. \A i \in 1..n : d[i] \in S
  BY <1>1, ElementOfSeq
<1>4. PICK a \in Seq(S) : a = SubSeq(d, 1, r) /\ Len(a) = r /\ \A i \in 1..r : a[i] = d[i]
  <2>1. PICK a \in Seq(S) : a = SubSeq(d, 1, r)
    BY OneMore
  <2>2. Len(a) = r /\ \A i \in 1..r : a[i] = d[i]
    BY <1>1, <2>1
  <2> QED
    BY <2>1, <2>2
<1>5. PICK b \in Seq(S) : b = SubSeq(d, k + 1, n)
  <2>1. \A i \in (k + 1)..n : d[i] \in S
    BY <1>3
  <2>2. k + 1 \in Int /\ n \in Int
    OBVIOUS
  <2>3. SubSeq(d, k + 1, n) \in Seq(S)
    BY <2>1, <2>2, SubSeqProperties
  <2> QED
    BY <2>3
<1>6. Len(b) = n - k /\ \A i \in 1..(n - k) : b[i] = d[k + i]
  <2>1. \A i \in (k + 1)..n : d[i] \in S
    BY <1>3
  <2>2. k + 1 \in Int /\ n \in Int
    OBVIOUS
  <2>3. /\ Len(b) = IF k + 1 <= n THEN n - (k + 1) + 1 ELSE 0
        /\ \A i \in 1..(n - (k + 1) + 1) : b[i] = d[(k + 1) + i - 1]
    BY <1>5, <2>1, <2>2, SubSeqProperties
  <2>4. n - (k + 1) + 1 = n - k /\ \A i \in 1..(n - k) : (k + 1) + i - 1 = k + i
    OBVIOUS
  <2>5. Len(b) = n - k
    BY <2>3
  <2> QED
    BY <2>3, <2>4, <2>5
<1>7. ASSUME NEW l \in S
      PROVE  Append(a, l) \o b \in Seq(S) /\ Len(Append(a, l) \o b) = n
             /\ \A i \in 1..n : (Append(a, l) \o b)[i] = IF i = k THEN l ELSE d[i]
  <2>1. PICK c \in Seq(S) : /\ c = Append(a, l)
                            /\ Len(c) = k
                            /\ \A i \in 1..r : c[i] = a[i]
                            /\ c[k] = l
    <3>1. /\ Append(a, l) \in Seq(S)
          /\ Len(Append(a, l)) = Len(a) + 1
          /\ \A i \in 1..Len(a) : Append(a, l)[i] = a[i]
          /\ Append(a, l)[Len(a) + 1] = l
      BY AppendProperties
    <3> QED
      BY <1>2, <1>4, <3>1
  <2>2. PICK w \in Seq(S) : w = c \o b
    BY ConcatProperties
  <2>3. Len(w) = n /\ \A i \in 1..n : w[i] = IF i <= k THEN c[i] ELSE b[i - k]
    <3>1. Len(w) = Len(c) + Len(b)
      BY <2>2, ConcatProperties
    <3>2. \A i \in 1..(Len(c) + Len(b)) : w[i] = IF i <= Len(c) THEN c[i] ELSE b[i - Len(c)]
      BY <2>2, ConcatProperties
    <3>3. Len(c) + Len(b) = n
      BY <1>6, <2>1
    <3> QED
      BY <2>1, <3>1, <3>2, <3>3
  <2>4. ASSUME NEW i \in 1..n PROVE w[i] = IF i = k THEN l ELSE d[i]
    <3>1. CASE i \in 1..r
      BY <1>2, <1>4, <2>1, <2>3, <3>1
    <3>2. CASE i = k
      BY <2>1, <2>3, <3>2
    <3>3. CASE i > k
      <4>1. i - k \in 1..(n - k) /\ k + (i - k) = i /\ ~(i <= k) /\ i # k
        BY <3>3
      <4>2. b[i - k] = d[k + (i - k)]
        BY <1>6, <4>1, Zenon
      <4> QED
        BY <2>3, <4>1, <4>2
    <3> QED
      BY <1>2, <3>1, <3>2, <3>3
  <2> QED
    BY <2>1, <2>2, <2>3, <2>4
<1>8. ASSUME NEW l \in S PROVE [d EXCEPT ![k] = l] = Append(a, l) \o b
  <2>1. /\ [d EXCEPT ![k] = l] \in Seq(S)
        /\ Len([d EXCEPT ![k] = l]) = Len(d)
        /\ \A j \in 1..Len(d) : [d EXCEPT ![k] = l][j] = IF j = k THEN l ELSE d[j]
    BY <1>1, ExceptSeq
  <2>2. PICK x \in Seq(S) : x = [d EXCEPT ![k] = l]
    BY <2>1
  <2>3. PICK y \in Seq(S) : y = Append(a, l) \o b
    BY <1>7
  <2>4. Len(x) = n /\ \A j \in 1..n : x[j] = IF j = k THEN l ELSE d[j]
    BY <1>1, <2>1, <2>2
  <2>5. Len(y) = n /\ \A j \in 1..n : y[j] = IF j = k THEN l ELSE d[j]
    BY <1>7, <2>3
  <2>6. x = y
    BY <2>4, <2>5, SeqEqual
  <2> QED
    BY <2>2, <2>3, <2>6
<1>9. d[k] \in S
  BY <1>3
<1>10. [d EXCEPT ![k] = d[k]] = d
  OBVIOUS
<1>11. d = Append(a, d[k]) \o b
  BY <1>8, <1>9, <1>10
<1>12. \A l \in S : [d EXCEPT ![r + 1] = l] = Append(a, l) \o b
  BY <1>2, <1>8
<1>13. d[r + 1] \in S /\ d = Append(a, d[r + 1]) \o b
  BY <1>2, <1>9, <1>11
<1>14. a = SubSeq(d, 1, r) /\ Len(a) = r
  BY <1>4
<1>15. Parts(S, d, r, a, b)
  BY <1>12, <1>13, <1>14, Zenon DEF Parts
<1> QED
  BY <1>15, Zenon

\* A line of a document, the lines before it and those behind.
LineAt(d, row, a, l, b) ==
  /\ a \in Vectors
  /\ l \in Lines
  /\ b \in Vectors
  /\ a = SubSeq(d, 1, row)
  /\ Len(a) = row
  /\ l = d[row + 1]
  /\ d = Append(a, l) \o b
  /\ \A z \in Lines : [d EXCEPT ![row + 1] = z] = Append(a, z) \o b

\* Every row has one.
LEMMA LineIsThere ==
  ASSUME NEW d \in Docs, NEW row \in 0..(Len(d) - 1)
  PROVE  \E a, l, b : LineAt(d, row, a, l, b)
<1>1. d \in Seq(Lines) /\ row \in Nat /\ row + 1 <= Len(d)
  <2>1. d \in Seq(Lines)
    BY DEF Docs, Vectors
  <2> QED
    BY <2>1
<1>2. PICK a, b : Parts(Lines, d, row, a, b)
  BY <1>1, PlaceParts
<1>3. LineAt(d, row, a, d[row + 1], b)
  BY <1>2, Zenon DEF Parts, LineAt, Vectors
<1> QED
  BY <1>3, Zenon

\* The text of a document with a line replaced.
LEMMA TextWithLine ==
  ASSUME NEW a \in Vectors, NEW l \in Lines, NEW b \in Vectors
  PROVE  /\ Append(a, l) \o b \in Docs
         /\ get_full_text(Append(a, l) \o b)
              = get_full_text(a) \o (Append(l, LF) \o get_full_text(b))
<1>1. Append(a, l) \in Vectors /\ Append(a, l) # <<>>
  BY AppendProperties DEF Vectors
<1>2. Append(a, l) \o b \in Docs
  <2>1. Append(a, l) \o b \in Vectors
    BY <1>1, ConcatProperties DEF Vectors
  <2>2. Append(a, l) \o b # <<>>
    BY <1>1, ConcatEqualIffEmpty, ConcatSimplifications DEF Vectors
  <2> QED
    BY <2>1, <2>2 DEF Docs
<1>3. get_full_text(Append(a, l) \o b) = (get_full_text(a) \o Append(l, LF)) \o get_full_text(b)
  BY <1>1, TwoTexts, FullText
<1>4. (get_full_text(a) \o Append(l, LF)) \o get_full_text(b)
        = get_full_text(a) \o (Append(l, LF) \o get_full_text(b))
  <2>1. get_full_text(a) \in Seq(Chars) /\ get_full_text(b) \in Seq(Chars)
    BY FullText
  <2>2. PICK e \in Seq(Chars) : e = Append(l, LF)
    BY LineIsText
  <2>3. (get_full_text(a) \o e) \o get_full_text(b) = get_full_text(a) \o (e \o get_full_text(b))
    BY <2>1, ConcatAssociative
  <2> QED
    BY <2>2, <2>3, Zenon
<1> QED
  BY <1>2, <1>3, <1>4

\* Where the r-th line ends in the text.
EndAt(d, r) == Len(get_full_text(SubSeq(d, 1, r)))

\* The first elements of a sequence.
LEMMA FirstOnes ==
  ASSUME NEW S, NEW s \in Seq(S), NEW r \in Nat, r <= Len(s)
  PROVE  /\ SubSeq(s, 1, r) \in Seq(S)
         /\ Len(SubSeq(s, 1, r)) = r
         /\ \A i \in 1..r : SubSeq(s, 1, r)[i] = s[i]
<1>1. \A i \in 1..r : s[i] \in S
  BY ElementOfSeq
<1>2. 1 \in Int /\ r \in Int
  OBVIOUS
<1>3. /\ SubSeq(s, 1, r) \in Seq(S)
      /\ Len(SubSeq(s, 1, r)) = IF 1 <= r THEN r - 1 + 1 ELSE 0
      /\ \A i \in 1..(r - 1 + 1) : SubSeq(s, 1, r)[i] = s[1 + i - 1]
  BY <1>1, <1>2, SubSeqProperties
<1>4. r - 1 + 1 = r /\ \A i \in 1..r : 1 + i - 1 = i
  OBVIOUS
<1> QED
  BY <1>3, <1>4

\* The next line ends as far behind as it is long, and one.
LEMMA EndAtIs ==
  ASSUME NEW d \in Vectors, NEW n \in Nat, n = Len(d)
  PROVE  /\ EndAt(d, 0) = 0
         /\ \A r \in 0..n : EndAt(d, r) \in Nat
         /\ \A r \in 0..(n - 1) : /\ d[r + 1] \in Lines
                                  /\ EndAt(d, r + 1) = EndAt(d, r) + Len(d[r + 1]) + 1
         /\ EndAt(d, n) = Len(get_full_text(d))
<1>1. d \in Seq(Lines)
  BY DEF Vectors
<1>2. EndAt(d, 0) = 0
  <2>1. SubSeq(d, 1, 0) = <<>>
    BY <1>1
  <2>2. Len(<<>>) = 0
    OBVIOUS
  <2> QED
    BY <2>1, <2>2, FullText, Zenon DEF EndAt
<1>3. EndAt(d, n) = Len(get_full_text(d))
  BY <1>1, SubSeqFull DEF EndAt
<1>4. ASSUME NEW r \in 0..n PROVE EndAt(d, r) \in Nat
  <2>1. SubSeq(d, 1, r) \in Vectors
    <3>1. CASE r = n
      BY <1>1, <3>1, SubSeqFull
    <3>2. CASE r # n
      <4>1. r \in Nat /\ r + 1 <= Len(d)
        BY <3>2
      <4> QED
        BY <1>1, <4>1, OneMore DEF Vectors
    <3> QED
      BY <3>1, <3>2
  <2>2. get_full_text(SubSeq(d, 1, r)) \in Seq(Chars)
    BY <2>1, FullText
  <2> QED
    BY <2>2 DEF EndAt
<1>5. ASSUME NEW r \in 0..(n - 1)
      PROVE  /\ d[r + 1] \in Lines
             /\ EndAt(d, r + 1) = EndAt(d, r) + Len(d[r + 1]) + 1
  <2>1. r \in Nat /\ r + 1 <= Len(d)
    OBVIOUS
  <2>2. /\ SubSeq(d, 1, r) \in Seq(Lines)
        /\ d[r + 1] \in Lines
        /\ SubSeq(d, 1, r + 1) = Append(SubSeq(d, 1, r), d[r + 1])
    BY <1>1, <2>1, OneMore
  <2>3. PICK a \in Vectors : a = SubSeq(d, 1, r)
    BY <2>2 DEF Vectors
  <2>4. PICK l \in Lines : l = d[r + 1]
    BY <2>2
  <2>5. get_full_text(Append(a, l)) = get_full_text(a) \o Append(l, LF)
    BY FullText
  <2>6. PICK t \in Seq(Chars) : t = get_full_text(a)
    BY FullText
  <2>7. PICK s \in Seq(Chars) : s = Append(l, LF)
    BY LineIsText
  <2>8. Len(s) = Len(l) + 1
    <3>1. l \in Seq(Chars) /\ LF \in Chars
      BY LineIsText DEF Chars
    <3> QED
      BY <2>7, <3>1, AppendProperties
  <2>9. Len(t \o s) = Len(t) + Len(s)
    BY ConcatProperties
  <2>10. EndAt(d, r + 1) = Len(t \o s) /\ EndAt(d, r) = Len(t)
    BY <2>2, <2>3, <2>4, <2>5, <2>6, <2>7, Zenon DEF EndAt
  <2>11. Len(t) \in Nat /\ Len(l) \in Nat
    BY DEF Lines
  <2> QED
    BY <2>2, <2>4, <2>8, <2>9, <2>10, <2>11
<1> QED
  BY <1>2, <1>3, <1>4, <1>5

\* Lines end one after the other.
LEMMA EndsGrow ==
  ASSUME NEW d \in Vectors, NEW n \in Nat, n = Len(d), NEW q \in 0..n, NEW r \in 0..n, r < q
  PROVE  EndAt(d, r) < EndAt(d, q)
<1> DEFINE E == {k \in Nat : r + 1 + k <= n => EndAt(d, r) < EndAt(d, r + 1 + k)}
<1>1. \A m \in 0..n : EndAt(d, m) \in Nat
  BY EndAtIs
<1>2. \A m \in 0..(n - 1) : EndAt(d, m) < EndAt(d, m + 1)
  <2> TAKE m \in 0..(n - 1)
  <2>1. d[m + 1] \in Lines /\ EndAt(d, m + 1) = EndAt(d, m) + Len(d[m + 1]) + 1
    BY EndAtIs
  <2>2. Len(d[m + 1]) \in Nat
    BY <2>1 DEF Lines
  <2>3. EndAt(d, m) \in Nat
    BY <1>1
  <2> QED
    BY <2>1, <2>2, <2>3
<1>3. 0 \in E
  <2>1. r + 1 + 0 = r + 1
    OBVIOUS
  <2>2. r \in 0..(n - 1)
    OBVIOUS
  <2>3. EndAt(d, r) < EndAt(d, r + 1)
    BY <1>2, <2>2
  <2> QED
    BY <2>1, <2>3
<1>4. ASSUME NEW k \in Nat, k \in E PROVE k + 1 \in E
  <2> SUFFICES ASSUME r + 1 + (k + 1) <= n PROVE EndAt(d, r) < EndAt(d, r + 1 + (k + 1))
    OBVIOUS
  <2>1. PICK m \in 0..(n - 1) : m = r + 1 + k
    OBVIOUS
  <2>2. EndAt(d, r) < EndAt(d, m)
    BY <1>4, <2>1
  <2>3. EndAt(d, m) < EndAt(d, m + 1)
    BY <1>2
  <2>4. r + 1 + (k + 1) = m + 1
    BY <2>1
  <2>5. EndAt(d, r) \in Nat /\ EndAt(d, m) \in Nat /\ EndAt(d, m + 1) \in Nat
    <3>1. m \in 0..n /\ m + 1 \in 0..n
      OBVIOUS
    <3> QED
      BY <1>1, <3>1
  <2>6. EndAt(d, r) < EndAt(d, m + 1)
    BY <2>2, <2>3, <2>5
  <2> QED
    BY <2>4, <2>6
<1> HIDE DEF E
<1>5. q - (r + 1) \in E
  <2>1. q - (r + 1) \in Nat
    OBVIOUS
  <2> QED
    BY <1>3, <1>4, <2>1, SetInduction
<1>6. PICK k \in E : k = q - (r + 1)
  BY <1>5
<1>7. k \in Nat /\ r + 1 + k = q
  BY <1>6
<1> QED
  BY <1>6, <1>7 DEF E

\* There are LFs where lines end and nowhere else.
LEMMA LineEndsAre ==
  ASSUME NEW d \in Vectors
  PROVE  Flat!LineEnds(get_full_text(d)) = {EndAt(d, r) : r \in 1..Len(d)}
<1> DEFINE P == {z \in Vectors :
                   Flat!LineEnds(get_full_text(z)) = {EndAt(z, r) : r \in 1..Len(z)}}
<1>1. <<>> \in P
  <2>1. get_full_text(<<>>) = <<>> /\ <<>> \in Vectors
    BY FullText, EmptyIsDoc
  <2>2. Flat!LineEnds(<<>>) = {}
    BY DEF Flat!LineEnds
  <2>3. {EndAt(<<>>, r) : r \in 1..Len(<<>>)} = {}
    OBVIOUS
  <2> QED
    BY <2>1, <2>2, <2>3
<1>2. ASSUME NEW z \in Seq(Lines), NEW l \in Lines, z \in P PROVE Append(z, l) \in P
  <2>1. PICK n \in Nat : n = Len(z)
    OBVIOUS
  <2>2. PICK w \in Seq(Lines) : w = Append(z, l) /\ Len(w) = n + 1
    BY <2>1, AppendProperties
  <2>3. z \in Vectors /\ w \in Vectors
    BY DEF Vectors
  <2>4. PICK t \in Seq(Chars) : t = get_full_text(z)
    BY <2>3, FullText
  <2>5. PICK m \in Nat : m = Len(t)
    OBVIOUS
  <2>6. PICK s \in Seq(Chars) : /\ s = Append(l, LF)
                                /\ Len(s) = Len(l) + 1
                                /\ \A i \in 1..Len(l) : s[i] # LF
                                /\ s[Len(l) + 1] = LF
    <3>1. l \in Seq(Chars) /\ LF \in Chars /\ \A i \in 1..Len(l) : l[i] # LF
      BY LineIsText DEF Chars
    <3>2. PICK s \in Seq(Chars) : s = Append(l, LF)
      BY LineIsText
    <3>3. /\ Len(s) = Len(l) + 1
          /\ \A i \in 1..Len(l) : s[i] = l[i]
          /\ s[Len(l) + 1] = LF
      BY <3>1, <3>2, AppendProperties
    <3> QED
      BY <3>1, <3>2, <3>3
  <2>7. PICK k \in Nat : k = Len(l)
    BY DEF Lines
  <2>8. PICK v \in Seq(Chars) : /\ v = get_full_text(w)
                                /\ v = t \o s
                                /\ Len(v) = m + (k + 1)
                                /\ \A i \in 1..(m + (k + 1)) :
                                     v[i] = IF i <= m THEN t[i] ELSE s[i - m]
    <3>1. get_full_text(w) = t \o s
      BY <2>2, <2>3, <2>4, <2>6, FullText
    <3>2. /\ t \o s \in Seq(Chars)
          /\ Len(t \o s) = Len(t) + Len(s)
          /\ \A i \in 1..(Len(t) + Len(s)) :
               (t \o s)[i] = IF i <= Len(t) THEN t[i] ELSE s[i - Len(t)]
      BY ConcatProperties
    <3> QED
      BY <2>5, <2>6, <2>7, <3>1, <3>2
  <2>9. Flat!LineEnds(v) = Flat!LineEnds(t) \cup {m + (k + 1)}
    <3>1. DOMAIN v = 1..(m + (k + 1)) /\ DOMAIN t = 1..m
      BY <2>5, <2>8, LenProperties
    <3>2. ASSUME NEW i \in 1..(m + (k + 1))
          PROVE  v[i] = LF <=> (i \in 1..m /\ t[i] = LF) \/ i = m + (k + 1)
      <4>1. CASE i <= m
        BY <2>8, <4>1
      <4>2. CASE i > m /\ i # m + (k + 1)
        <5>1. i - m \in 1..k /\ ~(i <= m)
          BY <4>2
        <5>2. s[i - m] # LF
          BY <2>6, <2>7, <5>1
        <5> QED
          BY <2>8, <4>2, <5>1, <5>2
      <4>3. CASE i = m + (k + 1)
        <5>1. i - m = k + 1 /\ ~(i <= m)
          BY <4>3
        <5>2. s[k + 1] = LF
          BY <2>6, <2>7
        <5> QED
          BY <2>8, <4>3, <5>1, <5>2
      <4> QED
        BY <4>1, <4>2, <4>3
    <3>3. 1..m \subseteq 1..(m + (k + 1)) /\ m + (k + 1) \in 1..(m + (k + 1))
      OBVIOUS
    <3> QED
      BY <3>1, <3>2, <3>3 DEF Flat!LineEnds
  <2>10. \A r \in 1..n : EndAt(w, r) = EndAt(z, r)
    <3> TAKE r \in 1..n
    <3>1. \A i \in 1..n : w[i] = z[i]
      BY <2>1, <2>2, AppendProperties
    <3>2. SubSeq(w, 1, r) = SubSeq(z, 1, r)
      <4>1. r \in Nat /\ r <= Len(w) /\ r <= Len(z)
        BY <2>1, <2>2
      <4>2. PICK a \in Seq(Lines) :
              a = SubSeq(w, 1, r) /\ Len(a) = r /\ \A i \in 1..r : a[i] = w[i]
        <5>1. /\ SubSeq(w, 1, r) \in Seq(Lines)
              /\ Len(SubSeq(w, 1, r)) = r
              /\ \A i \in 1..r : SubSeq(w, 1, r)[i] = w[i]
          BY <4>1, FirstOnes
        <5> QED
          BY <5>1, Zenon
      <4>3. PICK b \in Seq(Lines) :
              b = SubSeq(z, 1, r) /\ Len(b) = r /\ \A i \in 1..r : b[i] = z[i]
        <5>1. /\ SubSeq(z, 1, r) \in Seq(Lines)
              /\ Len(SubSeq(z, 1, r)) = r
              /\ \A i \in 1..r : SubSeq(z, 1, r)[i] = z[i]
          BY <4>1, FirstOnes
        <5> QED
          BY <5>1, Zenon
      <4>4. \A i \in 1..r : a[i] = b[i]
        BY <3>1, <4>2, <4>3
      <4>5. a = b
        BY <4>2, <4>3, <4>4, SeqEqual
      <4> QED
        BY <4>2, <4>3, <4>5
    <3> QED
      BY <3>2 DEF EndAt
  <2>11. EndAt(w, n + 1) = m + (k + 1)
    <3>1. PICK q \in Nat : q = n + 1 /\ q = Len(w)
      BY <2>2
    <3>2. EndAt(w, q) = Len(get_full_text(w))
      BY <2>3, <3>1, EndAtIs
    <3> QED
      BY <2>8, <3>1, <3>2
  <2>12. Flat!LineEnds(t) = {EndAt(z, r) : r \in 1..n}
    BY <1>2, <2>1, <2>4
  <2>13. {EndAt(w, r) : r \in 1..(n + 1)} = {EndAt(z, r) : r \in 1..n} \cup {m + (k + 1)}
    <3>1. 1..(n + 1) = (1..n) \cup {n + 1}
      OBVIOUS
    <3> QED
      BY <2>10, <2>11, <3>1
  <2>14. Flat!LineEnds(get_full_text(w)) = {EndAt(w, r) : r \in 1..(n + 1)}
    BY <2>8, <2>9, <2>12, <2>13
  <2> HIDE DEF P
  <2>15. w \in P
    BY <2>2, <2>3, <2>14 DEF P
  <2> QED
    BY <2>2, <2>15
<1> HIDE DEF P
<1>3. Seq(Lines) \subseteq P
  BY <1>1, <1>2, SequenceSetInduction
<1> QED
  BY <1>3 DEF P, Vectors

\* k numbers that grow are k numbers.
LEMMA GrowingOnes ==
  ASSUME NEW k \in Nat, NEW e \in [1..k -> Nat],
         \A i, j \in 1..k : i < j => e[i] < e[j]
  PROVE  Cardinality({e[i] : i \in 1..k}) = k
<1> DEFINE T == {e[i] : i \in 1..k}
<1>1. \A i, j \in 1..k : e[i] = e[j] => i = j
  <2> TAKE i, j \in 1..k
  <2>1. i < j \/ j < i \/ i = j
    OBVIOUS
  <2>2. e[i] \in Nat /\ e[j] \in Nat
    OBVIOUS
  <2>3. i < j => e[i] < e[j]
    OBVIOUS
  <2>4. j < i => e[j] < e[i]
    OBVIOUS
  <2> QED
    BY <2>1, <2>2, <2>3, <2>4
<1>2. e \in [1..k -> T]
  OBVIOUS
<1>3. e \in Bijection(1..k, T)
  BY <1>1, <1>2 DEF Bijection, Injection, Surjection, IsInjective
<1>4. IsFiniteSet(1..k) /\ Cardinality(1..k) = k
  BY FS_Interval
<1>5. ExistsBijection(1..k, T)
  BY <1>3 DEF ExistsBijection
<1> HIDE DEF T
<1>6. Cardinality(T) = Cardinality(1..k)
  BY <1>4, <1>5, FS_Bijection
<1> QED
  BY <1>4, <1>6 DEF T

\* Before the end of the m-th line there are the ends of the lines before it.
LEMMA EndsBefore ==
  ASSUME NEW d \in Vectors, NEW n \in Nat, n = Len(d)
  PROVE  /\ \A m \in 1..n :
              Cardinality({j \in Flat!LineEnds(get_full_text(d)) : j < EndAt(d, m)}) = m - 1
         /\ Cardinality(Flat!LineEnds(get_full_text(d))) = n
<1>1. \A r \in 1..n : EndAt(d, r) \in Nat
  <2>1. \A r \in 0..n : EndAt(d, r) \in Nat
    BY EndAtIs
  <2> QED
    BY <2>1
<1>2. \A i, j \in 1..n : i < j => EndAt(d, i) < EndAt(d, j)
  BY EndsGrow
<1>3. ASSUME NEW k \in 0..n PROVE Cardinality({EndAt(d, r) : r \in 1..k}) = k
  <2> DEFINE e == [r \in 1..k |-> EndAt(d, r)]
  <2>1. e \in [1..k -> Nat]
    BY <1>1
  <2>2. \A i, j \in 1..k : i < j => e[i] < e[j]
    BY <1>2
  <2>3. {e[i] : i \in 1..k} = {EndAt(d, r) : r \in 1..k}
    OBVIOUS
  <2> HIDE DEF e
  <2>4. Cardinality({e[i] : i \in 1..k}) = k
    BY <2>1, <2>2, GrowingOnes
  <2> QED
    BY <2>3, <2>4
<1>4. Flat!LineEnds(get_full_text(d)) = {EndAt(d, r) : r \in 1..n}
  BY LineEndsAre
<1>5. ASSUME NEW m \in 1..n
      PROVE  {j \in Flat!LineEnds(get_full_text(d)) : j < EndAt(d, m)}
               = {EndAt(d, r) : r \in 1..(m - 1)}
  <2>1. ASSUME NEW r \in 1..n PROVE EndAt(d, r) < EndAt(d, m) <=> r \in 1..(m - 1)
    <3>1. r < m => EndAt(d, r) < EndAt(d, m)
      BY <1>2
    <3>2. m < r => EndAt(d, m) < EndAt(d, r)
      BY <1>2
    <3>3. r < m \/ m < r \/ r = m
      OBVIOUS
    <3>4. EndAt(d, r) \in Nat /\ EndAt(d, m) \in Nat
      BY <1>1
    <3> QED
      BY <3>1, <3>2, <3>3, <3>4
  <2>2. 1..(m - 1) \subseteq 1..n
    OBVIOUS
  <2> QED
    BY <1>4, <2>1, <2>2
<1>6. ASSUME NEW m \in 1..n
      PROVE  Cardinality({j \in Flat!LineEnds(get_full_text(d)) : j < EndAt(d, m)}) = m - 1
  <2>1. m - 1 \in 0..n
    OBVIOUS
  <2>2. Cardinality({EndAt(d, r) : r \in 1..(m - 1)}) = m - 1
    BY <1>3, <2>1
  <2> QED
    BY <1>5, <2>2
<1>7. Cardinality(Flat!LineEnds(get_full_text(d))) = n
  <2>1. n \in 0..n
    OBVIOUS
  <2> QED
    BY <1>3, <1>4, <2>1
<1> QED
  BY <1>6, <1>7

\* So the places of FlatText are those of the lines.
LEMMA PlacesAre ==
  ASSUME NEW d \in Vectors, NEW n \in Nat, n = Len(d), NEW row \in 0..(n - 1)
  PROVE  LET t == get_full_text(d)
         IN  /\ Cardinality(Flat!LineEnds(t)) = n
             /\ Flat!StartOf(t, row) = EndAt(d, row)
             /\ Flat!LengthOf(t, row) = Len(d[row + 1])
<1> DEFINE t == get_full_text(d)
<1>1. /\ \A m \in 1..n : Cardinality({j \in Flat!LineEnds(t) : j < EndAt(d, m)}) = m - 1
      /\ Cardinality(Flat!LineEnds(t)) = n
  BY EndsBefore
<1>2. Flat!LineEnds(t) = {EndAt(d, r) : r \in 1..n}
  BY LineEndsAre
<1> HIDE DEF t
<1>3. ASSUME NEW m \in 1..n PROVE Flat!EndOf(t, m - 1) = EndAt(d, m)
  <2> DEFINE Is(i) == Cardinality({j \in Flat!LineEnds(t) : j < i}) = m - 1
  <2>1. EndAt(d, m) \in Flat!LineEnds(t) /\ Is(EndAt(d, m))
    BY <1>1, <1>2
  <2>2. \A i \in Flat!LineEnds(t) : Is(i) => i = EndAt(d, m)
    <3> TAKE i \in Flat!LineEnds(t)
    <3>1. PICK r \in 1..n : i = EndAt(d, r)
      BY <1>2
    <3>2. Cardinality({j \in Flat!LineEnds(t) : j < i}) = r - 1
      BY <1>1, <3>1
    <3>3. Is(i) => r - 1 = m - 1
      BY <3>2
    <3>4. r - 1 = m - 1 => r = m
      OBVIOUS
    <3> QED
      BY <3>1, <3>3, <3>4
  <2>3. Flat!EndOf(t, m - 1) = CHOOSE i \in Flat!LineEnds(t) : Is(i)
    BY Zenon DEF Flat!EndOf, Flat!Cardinality, Cardinality
  <2> HIDE DEF Is
  <2>4. (CHOOSE i \in Flat!LineEnds(t) : Is(i)) = EndAt(d, m)
    BY <2>1, <2>2, Zenon
  <2> QED
    BY <2>3, <2>4, Zenon
<1>4. EndAt(d, 0) = 0
  BY EndAtIs
<1>5. Flat!StartOf(t, row) = EndAt(d, row)
  <2>1. CASE row = 0
    BY <1>4, <2>1 DEF Flat!StartOf
  <2>2. CASE row # 0
    <3>1. row \in 1..n
      BY <2>2
    <3> QED
      BY <1>3, <2>2, <3>1 DEF Flat!StartOf
  <2> QED
    BY <2>1, <2>2
<1>6. Flat!LengthOf(t, row) = Len(d[row + 1])
  <2>1. row + 1 \in 1..n /\ (row + 1) - 1 = row
    OBVIOUS
  <2>2. Flat!EndOf(t, row) = EndAt(d, row + 1)
    BY <1>3, <2>1
  <2>3. /\ d[row + 1] \in Lines
        /\ EndAt(d, row + 1) = EndAt(d, row) + Len(d[row + 1]) + 1
    BY EndAtIs
  <2>4. EndAt(d, row) \in Nat
    <3>1. row \in 0..n
      OBVIOUS
    <3> QED
      BY <3>1, EndAtIs
  <2>5. Len(d[row + 1]) \in Nat
    BY <2>3 DEF Lines
  <2> QED
    BY <1>5, <2>2, <2>3, <2>4, <2>5 DEF Flat!LengthOf
<1> QED
  BY <1>1, <1>5, <1>6 DEF t

------------------------------------------------------------------------------
(* Replacing a part of a line. *)

\* Concatenation, as an operator that nothing but these two facts is known of.
Cat(s, t) == s \o t

\* It makes a sequence.
LEMMA CatIs ==
  ASSUME NEW S, NEW r \in Seq(S), NEW t \in Seq(S)
  PROVE  Cat(r, t) \in Seq(S)
BY ConcatProperties DEF Cat

\* It can be grouped as one likes.
LEMMA CatAssociative ==
  ASSUME NEW S, NEW r \in Seq(S), NEW t \in Seq(S), NEW u \in Seq(S)
  PROVE  Cat(Cat(r, t), u) = Cat(r, Cat(t, u))
BY ConcatAssociative DEF Cat

\* An element can be appended before or after it.
LEMMA CatAppend ==
  ASSUME NEW S, NEW r \in Seq(S), NEW t \in Seq(S), NEW e \in S
  PROVE  Cat(r, Append(t, e)) = Append(Cat(r, t), e)
BY AppendConcat DEF Cat

\* Grouping of concatenations.
LEMMA Regroup ==
  ASSUME NEW S, NEW p \in Seq(S), NEW x \in Seq(S), NEW m \in Seq(S), NEW e \in Seq(S),
         NEW q \in Seq(S)
  PROVE  /\ Cat(p, Cat(Cat(Cat(x, m), e), q)) = Cat(Cat(p, x), Cat(m, Cat(e, q)))
         /\ Cat(p, Cat(Cat(Cat(x, m), e), q)) = Cat(Cat(Cat(p, x), m), Cat(e, q))
         /\ Cat(p, Cat(Cat(Cat(x, m), e), q)) = Cat(Cat(p, Cat(x, m)), Cat(e, q))
<1>0. /\ \A r, t \in Seq(S) : Cat(r, t) \in Seq(S)
      /\ \A r, t, u \in Seq(S) : Cat(Cat(r, t), u) = Cat(r, Cat(t, u))
  <2>1. ASSUME NEW r \in Seq(S), NEW t \in Seq(S) PROVE Cat(r, t) \in Seq(S)
    BY CatIs
  <2>2. ASSUME NEW r \in Seq(S), NEW t \in Seq(S), NEW u \in Seq(S)
        PROVE  Cat(Cat(r, t), u) = Cat(r, Cat(t, u))
    BY CatAssociative
  <2> QED
    BY <2>1, <2>2
<1>1. PICK xm \in Seq(S) : xm = Cat(x, m)
  BY <1>0, Zenon
<1>2. PICK px \in Seq(S) : px = Cat(p, x)
  BY <1>0, Zenon
<1>3. PICK w \in Seq(S) : w = Cat(e, q)
  BY <1>0, Zenon
<1>4. PICK mw \in Seq(S) : mw = Cat(m, w)
  BY <1>0, Zenon
<1>5. Cat(Cat(xm, e), q) = Cat(xm, w)
  BY <1>0, <1>3
<1>6. Cat(xm, w) = Cat(x, mw)
  BY <1>0, <1>1, <1>4
<1>7. Cat(p, Cat(x, mw)) = Cat(px, mw)
  BY <1>0, <1>2
<1>8. Cat(Cat(px, m), w) = Cat(px, mw)
  BY <1>0, <1>4
<1>9. Cat(Cat(p, xm), w) = Cat(p, Cat(xm, w))
  BY <1>0
<1>10. /\ Cat(p, Cat(Cat(xm, e), q)) = Cat(px, mw)
       /\ Cat(p, Cat(Cat(xm, e), q)) = Cat(Cat(px, m), w)
       /\ Cat(p, Cat(Cat(xm, e), q)) = Cat(Cat(p, xm), w)
  BY <1>5, <1>6, <1>7, <1>8, <1>9, Zenon
<1> QED
  BY <1>1, <1>2, <1>3, <1>4, <1>10, Zenon

\* Replacing the middle of a sequence.
LEMMA SpliceMiddle ==
  ASSUME NEW S, NEW x \in Seq(S), NEW m \in Seq(S), NEW y \in Seq(S), NEW t,
         t = x \o (m \o y)
  PROVE  /\ SubSeq(t, 1, Len(x)) = x
         /\ SubSeq(t, Len(x) + Len(m) + 1, Len(t)) = y
<1>1. m \o y \in Seq(S) /\ x \o m \in Seq(S)
  BY ConcatProperties
<1>2. SubSeq(t, 1, Len(x)) = x
  BY <1>1, TakeDrop
<1>3. t = (x \o m) \o y
  <2>1. Cat(Cat(x, m), y) = Cat(x, Cat(m, y))
    BY CatAssociative
  <2> QED
    BY <2>1, Zenon DEF Cat
<1>4. PICK w \in Seq(S) : w = x \o m
  BY <1>1
<1>5. SubSeq(t, Len(w) + 1, Len(t)) = y
  BY <1>3, <1>4, TakeDrop
<1>6. Len(w) = Len(x) + Len(m)
  BY <1>4, ConcatProperties
<1> QED
  BY <1>2, <1>5, <1>6

\* A line x \o m \o e between the texts before and behind it, and a text in which
\* what is between the first k characters and the j-th is replaced by s.
Whole(p, x, m, e, q) == p \o (((x \o m) \o e) \o q)
Spliced(t, k, j, s) == SubSeq(t, 1, k) \o s \o SubSeq(t, j, Len(t))

\* The same in a larger one.
LEMMA SpliceText ==
  ASSUME NEW S, NEW p \in Seq(S), NEW x \in Seq(S), NEW m \in Seq(S), NEW e \in Seq(S),
         NEW q \in Seq(S), NEW s \in Seq(S)
  PROVE  Spliced(Whole(p, x, m, e, q), Len(p) + Len(x), Len(p) + Len(x) + Len(m) + 1, s)
           = Whole(p, x, s, e, q)
<1> DEFINE t == Whole(p, x, m, e, q)
           k == Len(p) + Len(x)
           j == Len(p) + Len(x) + Len(m) + 1
<1> HIDE DEF k, j
<1>1. /\ t = (p \o x) \o (m \o (e \o q))
      /\ p \o (((x \o s) \o e) \o q) = ((p \o x) \o s) \o (e \o q)
  <2>1. Cat(p, Cat(Cat(Cat(x, m), e), q)) = Cat(Cat(p, x), Cat(m, Cat(e, q)))
    BY Regroup
  <2>2. Cat(p, Cat(Cat(Cat(x, s), e), q)) = Cat(Cat(Cat(p, x), s), Cat(e, q))
    BY Regroup
  <2>3. t = (p \o x) \o (m \o (e \o q))
    BY <2>1, Zenon DEF Cat, Whole
  <2>4. p \o (((x \o s) \o e) \o q) = ((p \o x) \o s) \o (e \o q)
    BY <2>2, Zenon DEF Cat
  <2> QED
    BY <2>3, <2>4, Zenon
<1>2. PICK z \in Seq(S) : z = p \o x
  BY ConcatProperties
<1>3. PICK w \in Seq(S) : w = e \o q
  BY ConcatProperties
<1>4. t = z \o (m \o w)
  BY <1>1, <1>2, <1>3, Zenon
<1> HIDE DEF t
<1>5. SubSeq(t, 1, Len(z)) = z /\ SubSeq(t, Len(z) + Len(m) + 1, Len(t)) = w
  BY <1>4, SpliceMiddle
<1>6. Len(z) = k /\ Len(z) + Len(m) + 1 = j
  BY <1>2, ConcatProperties DEF k, j
<1>7. Spliced(t, k, j, s) = Whole(p, x, s, e, q)
  BY <1>1, <1>2, <1>3, <1>5, <1>6, Zenon DEF Spliced, Whole
<1> QED
  BY <1>7, Zenon DEF t, k, j

\* So it is with texts.
LEMMA SpliceChars ==
  \A p, x, m, e, q, s \in Seq(Chars) :
    Spliced(Whole(p, x, m, e, q), Len(p) + Len(x), Len(p) + Len(x) + Len(m) + 1, s)
      = Whole(p, x, s, e, q)
<1> SUFFICES ASSUME NEW p \in Seq(Chars), NEW x \in Seq(Chars), NEW m \in Seq(Chars),
                    NEW e \in Seq(Chars), NEW q \in Seq(Chars), NEW s \in Seq(Chars)
             PROVE  Spliced(Whole(p, x, m, e, q), Len(p) + Len(x), Len(p) + Len(x) + Len(m) + 1, s)
                      = Whole(p, x, s, e, q)
  BY Zenon
<1> QED
  BY SpliceText

\* A line before a column, from there on for n characters, and after that.
Middle(l, col, n) == SubSeq(l, col + 1, col + n)

\* The three make up the line.
LEMMA LineSplit ==
  ASSUME NEW l \in Lines, NEW col \in Nat, NEW n \in Nat, col + n <= Len(l)
  PROVE  /\ Before(l, col) \in Lines /\ Len(Before(l, col)) = col
         /\ Middle(l, col, n) \in Lines /\ Len(Middle(l, col, n)) = n
         /\ After(l, col + n) \in Lines
         /\ l = (Before(l, col) \o Middle(l, col, n)) \o After(l, col + n)
<1> DEFINE C == Chars \ {LF}
<1>1. l \in Seq(C)
  BY DEF Lines
<1> HIDE DEF C
<1>2. PICK k \in Nat : k = Len(l)
  BY <1>1
<1>3. \A i \in 1..k : l[i] \in C
  BY <1>1, <1>2, ElementOfSeq
<1>4. PICK j \in Nat : j = col + n /\ j <= k
  BY <1>2
<1>5. ASSUME NEW a \in Nat, NEW b \in Nat, b <= k
      PROVE  /\ SubSeq(l, a + 1, b) \in Seq(C)
             /\ a <= b => Len(SubSeq(l, a + 1, b)) = b - a
  <2>1. \A i \in (a + 1)..b : l[i] \in C
    BY <1>3, <1>5
  <2>2. a + 1 \in Int /\ b \in Int
    OBVIOUS
  <2>3. /\ SubSeq(l, a + 1, b) \in Seq(C)
        /\ Len(SubSeq(l, a + 1, b)) = IF a + 1 <= b THEN b - (a + 1) + 1 ELSE 0
    BY <2>1, <2>2, SubSeqProperties
  <2>4. a <= b => (IF a + 1 <= b THEN b - (a + 1) + 1 ELSE 0) = b - a
    OBVIOUS
  <2> QED
    BY <2>3, <2>4
<1>6. SubSeq(l, 1, col) \in Seq(C) /\ Len(SubSeq(l, 1, col)) = col
  <2>1. 0 \in Nat /\ 0 + 1 = 1 /\ 0 <= col /\ col <= k /\ col - 0 = col
    BY <1>2
  <2> QED
    BY <1>5, <2>1
<1>7. SubSeq(l, col + 1, j) \in Seq(C) /\ Len(SubSeq(l, col + 1, j)) = n
  <2>1. col <= j /\ j - col = n
    BY <1>4
  <2> QED
    BY <1>4, <1>5, <2>1
<1>8. SubSeq(l, j + 1, k) \in Seq(C)
  <2>1. k <= k
    OBVIOUS
  <2> QED
    BY <1>5, <2>1
<1>9. SubSeq(l, 1, col) \o SubSeq(l, col + 1, j) = SubSeq(l, 1, j)
  <2>1. 1 \in 1..(Len(l) + 1) /\ col \in (1 - 1)..Len(l) /\ j \in col..Len(l)
    BY <1>2, <1>4
  <2> QED
    BY <1>1, <2>1, ConcatAdjacentSubSeq
<1>10. SubSeq(l, 1, j) \o SubSeq(l, j + 1, k) = SubSeq(l, 1, k)
  <2>1. 1 \in 1..(Len(l) + 1) /\ j \in (1 - 1)..Len(l) /\ k \in j..Len(l)
    BY <1>2, <1>4
  <2> QED
    BY <1>1, <2>1, ConcatAdjacentSubSeq
<1>11. SubSeq(l, 1, k) = l
  BY <1>1, <1>2, SubSeqFull
<1>12. /\ Before(l, col) = SubSeq(l, 1, col)
       /\ Middle(l, col, n) = SubSeq(l, col + 1, j)
       /\ After(l, col + n) = SubSeq(l, j + 1, k)
  BY <1>2, <1>4 DEF Before, Middle, After
<1>13. Seq(C) = Lines
  BY DEF C, Lines
<1>14. l = (Before(l, col) \o Middle(l, col, n)) \o After(l, col + n)
  BY <1>9, <1>10, <1>11, <1>12, Zenon
<1> QED
  BY <1>6, <1>7, <1>8, <1>12, <1>13, <1>14, Zenon

\* What FlatText makes of a text when it replaces n characters of a line by s.
LEMMA SpliceIs ==
  ASSUME NEW d \in Docs, NEW row \in 0..(Len(d) - 1),
         NEW a, NEW l, NEW b, LineAt(d, row, a, l, b),
         NEW col \in Nat, NEW n \in Nat, col + n <= Len(l), NEW s \in Seq(Chars)
  PROVE  Flat!Splice(get_full_text(d), row, col, n, s)
           = Whole(get_full_text(a), Before(l, col), s, Append(After(l, col + n), LF),
                   get_full_text(b))
<1>0. /\ a \in Vectors
      /\ l \in Lines
      /\ b \in Vectors
      /\ a = SubSeq(d, 1, row)
      /\ d = Append(a, l) \o b
  BY Zenon DEF LineAt
<1> DEFINE t == get_full_text(d)
<1>1. PICK p \in Seq(Chars) : p = get_full_text(a)
  BY <1>0, FullText
<1>2. PICK q \in Seq(Chars) : q = get_full_text(b)
  BY <1>0, FullText
<1>3. PICK x \in Lines : x = Before(l, col) /\ Len(x) = col
  BY <1>0, LineSplit
<1>4. PICK m \in Lines : m = Middle(l, col, n) /\ Len(m) = n
  BY <1>0, LineSplit
<1>5. PICK y \in Lines : y = After(l, col + n)
  BY <1>0, LineSplit
<1>6. l = (x \o m) \o y
  BY <1>0, <1>3, <1>4, <1>5, LineSplit
<1>7. x \in Seq(Chars) /\ m \in Seq(Chars) /\ y \in Seq(Chars)
  BY LineIsText
<1>8. PICK e \in Seq(Chars) : e = Append(y, LF)
  BY LineIsText
<1>9. Append(l, LF) = (x \o m) \o e
  <2>1. PICK xm \in Seq(Chars) : xm = x \o m
    BY <1>7, ConcatProperties
  <2>2. LF \in Chars
    BY DEF Chars
  <2>3. xm \o Append(y, LF) = Append(xm \o y, LF)
    <3>1. Cat(xm, Append(y, LF)) = Append(Cat(xm, y), LF)
      BY <1>7, <2>2, CatAppend
    <3> QED
      BY <3>1, Zenon DEF Cat
  <2> QED
    BY <1>6, <1>8, <2>1, <2>3, Zenon
<1>10. t = Whole(p, x, m, e, q)
  <2>1. get_full_text(Append(a, l) \o b) = get_full_text(a) \o (Append(l, LF) \o get_full_text(b))
    BY <1>0, TextWithLine
  <2> QED
    BY <1>0, <1>1, <1>2, <1>9, <2>1, Zenon DEF Whole
<1>11. Flat!StartOf(t, row) = Len(p)
  <2>1. d \in Vectors /\ Len(d) \in Nat
    BY DEF Docs, Vectors
  <2>2. Flat!StartOf(t, row) = EndAt(d, row)
    BY <2>1, PlacesAre
  <2> QED
    BY <1>0, <1>1, <2>2, Zenon DEF EndAt
<1> HIDE DEF t
<1>12. PICK k : k = Len(p) + Len(x)
  OBVIOUS
<1>13. PICK j : j = k + Len(m) + 1
  OBVIOUS
<1>14. Spliced(t, k, j, s) = Whole(p, x, s, e, q)
  <2>1. Spliced(Whole(p, x, m, e, q), Len(p) + Len(x), Len(p) + Len(x) + Len(m) + 1, s)
          = Whole(p, x, s, e, q)
    BY <1>7, SpliceChars
  <2> QED
    BY <1>10, <1>12, <1>13, <2>1, Zenon
<1>15. Flat!Splice(t, row, col, n, s) = Spliced(t, k, j, s)
  <2>1. Flat!StartOf(t, row) + col = k /\ k + n + 1 = j
    BY <1>3, <1>4, <1>11, <1>12, <1>13
  <2> QED
    BY <2>1, Zenon DEF Flat!Splice, Spliced
<1> QED
  BY <1>1, <1>2, <1>3, <1>5, <1>8, <1>14, <1>15, Zenon DEF t

------------------------------------------------------------------------------
(* The line operations. *)

\* A place is one of the text if it is one of the lines.
LEMMA PlaceIs ==
  ASSUME NEW d \in Docs, NEW row, NEW col
  PROVE  Flat!IsAt(get_full_text(d), row, col)
           <=> IsIndex(row, Len(d)) /\ IsCursor(col, Len(d[row + 1]))
<1>1. PICK n \in Nat : n = Len(d)
  BY DEF Docs, Vectors
<1>2. d \in Vectors
  BY DEF Docs
<1>3. PICK t : t = get_full_text(d)
  OBVIOUS
<1>4. ASSUME NEW r \in 0..(n - 1)
      PROVE  Cardinality(Flat!LineEnds(t)) = n /\ Flat!LengthOf(t, r) = Len(d[r + 1])
  BY <1>1, <1>2, <1>3, <1>4, PlacesAre
<1>5. Cardinality(Flat!LineEnds(t)) = n
  BY <1>1, <1>2, <1>3, EndsBefore
<1>6. Flat!IsAt(t, row, col)
        <=> row \in 0..(Cardinality(Flat!LineEnds(t)) - 1) /\ col \in 0..Flat!LengthOf(t, row)
  BY Zenon DEF Flat!IsAt, Flat!Cardinality, Cardinality
<1>7. row \in 0..(n - 1) => Flat!LengthOf(t, row) = Len(d[row + 1])
  BY <1>4
<1> QED
  BY <1>1, <1>3, <1>5, <1>6, <1>7, Zenon DEF IsIndex, IsCursor

\* A line of which a part is replaced by a text without a line end is a line.
LEMMA NewLine ==
  ASSUME NEW x \in Lines, NEW s \in Lines, NEW y \in Lines
  PROVE  /\ Cat(Cat(x, s), y) \in Lines
         /\ Append(Cat(Cat(x, s), y), LF) = Cat(Cat(x, s), Append(y, LF))
<1>1. PICK z \in Lines : z = x \o s
  BY ConcatProperties DEF Lines
<1>2. z \o y \in Lines
  BY ConcatProperties DEF Lines
<1>3. z \o Append(y, LF) = Append(z \o y, LF)
  <2>1. z \in Seq(Chars) /\ y \in Seq(Chars) /\ LF \in Chars
    BY LineIsText DEF Chars
  <2> QED
    BY <2>1, AppendConcat
<1> QED
  BY <1>1, <1>2, <1>3, Zenon DEF Cat

\* The lines of new have the text that comes from the one of d by a replacement.
ReplacedBy(new, d, row, col, n, s) ==
  /\ new \in Docs
  /\ get_full_text(new) = Flat!Splice(get_full_text(d), row, col, n, s)

\* Replacing part of a line is the same change of the text.
LEMMA PartReplaced ==
  ASSUME NEW d \in Docs, NEW row \in 0..(Len(d) - 1), NEW l, l = d[row + 1],
         NEW col \in Nat, NEW n \in Nat, col + n <= Len(l), NEW s \in Lines,
         NEW new, new = (Before(l, col) \o s) \o After(l, col + n)
  PROVE  ReplacedBy([d EXCEPT ![row + 1] = new], d, row, col, n, s)
<1>1. PICK a, k, b : LineAt(d, row, a, k, b)
  BY LineIsThere
<1>2. LineAt(d, row, a, l, b)
  <2>1. k = l
    BY <1>1, Zenon DEF LineAt
  <2> QED
    BY <1>1, <2>1
<1>3. a \in Vectors /\ b \in Vectors /\ l \in Lines
  BY <1>2, Zenon DEF LineAt
<1>4. PICK x \in Lines : x = Before(l, col)
  BY <1>3, LineSplit
<1>5. PICK y \in Lines : y = After(l, col + n)
  BY <1>3, LineSplit
<1>6. /\ new \in Lines
      /\ Append(new, LF) = (x \o s) \o Append(y, LF)
  <2>1. /\ Cat(Cat(x, s), y) \in Lines
        /\ Append(Cat(Cat(x, s), y), LF) = Cat(Cat(x, s), Append(y, LF))
    BY NewLine
  <2> QED
    BY <1>4, <1>5, <2>1, Zenon DEF Cat
<1>7. /\ Append(a, new) \o b \in Docs
      /\ get_full_text(Append(a, new) \o b)
           = get_full_text(a) \o (Append(new, LF) \o get_full_text(b))
  BY <1>3, <1>6, TextWithLine
<1>8. s \in Seq(Chars)
  BY LineIsText
<1>9. Flat!Splice(get_full_text(d), row, col, n, s)
        = Whole(get_full_text(a), Before(l, col), s, Append(After(l, col + n), LF),
                get_full_text(b))
  BY <1>2, <1>8, SpliceIs
<1>10. [d EXCEPT ![row + 1] = new] = Append(a, new) \o b
  BY <1>2, <1>6 DEF LineAt
<1> QED
  BY <1>4, <1>5, <1>6, <1>7, <1>9, <1>10, Zenon DEF Whole, ReplacedBy

\* insert_text is an insertion in the text.
LEMMA InsertTextIs ==
  ASSUME NEW d \in Docs, NEW row, NEW col, NEW s \in Lines
  PROVE  /\ insert_text(d, row, col, s) \in Docs
         /\ get_full_text(insert_text(d, row, col, s))
              = Flat!Inserted(get_full_text(d), row, col, s)
<1>1. CASE ~(IsIndex(row, Len(d)) /\ IsCursor(col, Len(d[row + 1])))
  <2>1. ~Flat!IsAt(get_full_text(d), row, col)
    BY <1>1, PlaceIs
  <2> QED
    BY <1>1, <2>1, Zenon DEF insert_text, Flat!Inserted
<1>2. CASE IsIndex(row, Len(d)) /\ IsCursor(col, Len(d[row + 1]))
  <2>1. Flat!IsAt(get_full_text(d), row, col)
    BY <1>2, PlaceIs
  <2>2. PICK l : l = d[row + 1]
    OBVIOUS
  <2>3. PICK new : new = (Before(l, col) \o s) \o After(l, col + 0)
    OBVIOUS
  <2>4. /\ Len(d) \in Nat
        /\ row \in 0..(Len(d) - 1)
        /\ row + 1 \in 1..Len(d)
    <3>1. Len(d) \in Nat
      BY DEF Docs, Vectors
    <3> QED
      BY <1>2, <3>1 DEF IsIndex
  <2>5. l \in Lines
    BY <2>2, <2>4, ElementOfSeq DEF Docs, Vectors
  <2>6. Len(l) \in Nat
    BY <2>5 DEF Lines
  <2>7. col \in Nat /\ col + 0 = col /\ col + 0 <= Len(l) /\ 0 \in Nat
    BY <1>2, <2>2, <2>6 DEF IsCursor
  <2>8. ReplacedBy([d EXCEPT ![row + 1] = new], d, row, col, 0, s)
    BY <2>2, <2>3, <2>4, <2>7, PartReplaced
  <2>9. insert_text(d, row, col, s) = [d EXCEPT ![row + 1] = new]
    BY <1>2, <2>2, <2>3, <2>7, Zenon DEF insert_text
  <2>10. Flat!Inserted(get_full_text(d), row, col, s)
           = Flat!Splice(get_full_text(d), row, col, 0, s)
    BY <2>1, Zenon DEF Flat!Inserted
  <2> QED
    BY <2>8, <2>9, <2>10, Zenon DEF ReplacedBy
<1> QED
  BY <1>1, <1>2

\* What a row is, when it is one of d.
LEMMA RowIs ==
  ASSUME NEW d \in Docs, NEW row, IsIndex(row, Len(d))
  PROVE  /\ row \in 0..(Len(d) - 1)
         /\ d[row + 1] \in Lines
         /\ Len(d[row + 1]) \in Nat
<1>1. Len(d) \in Nat
  BY DEF Docs, Vectors
<1>2. row \in 0..(Len(d) - 1) /\ row + 1 \in 1..Len(d)
  BY <1>1 DEF IsIndex
<1>3. d[row + 1] \in Lines
  BY <1>2, ElementOfSeq DEF Docs, Vectors
<1>4. Len(d[row + 1]) \in Nat
  BY <1>3 DEF Lines
<1> QED
  BY <1>2, <1>3, <1>4

\* Deleting n characters of a line.
LEMMA PartDeleted ==
  ASSUME NEW d \in Docs, NEW row \in 0..(Len(d) - 1), NEW l, l = d[row + 1],
         NEW col \in Nat, NEW n \in Nat, col + n <= Len(l),
         NEW new, new = Before(l, col) \o After(l, col + n)
  PROVE  ReplacedBy([d EXCEPT ![row + 1] = new], d, row, col, n, <<>>)
<1>1. <<>> \in Lines
  BY EmptyIsDoc
<1>2. l \in Lines
  BY LineIsThere, Zenon DEF LineAt
<1>3. PICK x \in Lines : x = Before(l, col)
  BY <1>2, LineSplit
<1>4. x \o <<>> = x
  BY <1>3, ConcatEmptySeq DEF Lines
<1>5. new = (Before(l, col) \o <<>>) \o After(l, col + n)
  BY <1>3, <1>4, Zenon
<1> QED
  BY <1>1, <1>5, PartReplaced

\* The parts of a line make it up.
LEMMA LineOfParts ==
  ASSUME NEW l \in Lines, NEW col \in Nat, NEW n \in Nat, col + n <= Len(l)
  PROVE  l = Cat(Cat(Before(l, col), Middle(l, col, n)), After(l, col + n))
<1>1. l = (Before(l, col) \o Middle(l, col, n)) \o After(l, col + n)
  BY LineSplit
<1> QED
  BY <1>1, Zenon DEF Cat

\* Deleting none leaves the text.
LEMMA NothingDeleted ==
  ASSUME NEW d \in Docs, NEW row \in 0..(Len(d) - 1), NEW col, col = Len(d[row + 1])
  PROVE  Flat!Splice(get_full_text(d), row, col, 0, <<>>) = get_full_text(d)
<1>1. PICK l \in Lines : l = d[row + 1]
  BY LineIsThere, Zenon DEF LineAt
<1>2. PICK n \in Nat : n = 0
  OBVIOUS
<1>3. col \in Nat /\ col + n <= Len(l)
  BY <1>1, <1>2 DEF Lines
<1>4. PICK x \in Lines : x = Before(l, col)
  BY <1>3, LineSplit
<1>5. PICK m \in Lines : m = Middle(l, col, n) /\ Len(m) = 0
  BY <1>2, <1>3, LineSplit
<1>6. PICK y \in Lines : y = After(l, col + n)
  BY <1>3, LineSplit
<1>7. l = (x \o m) \o y
  <2>1. l = Cat(Cat(Before(l, col), Middle(l, col, n)), After(l, col + n))
    BY <1>3, LineOfParts
  <2> QED
    BY <1>4, <1>5, <1>6, <2>1, Zenon DEF Cat
<1>8. m = <<>>
  BY <1>5, EmptySeq DEF Lines
<1>9. x \o <<>> = x
  BY <1>4, ConcatEmptySeq DEF Lines
<1>10. l = Before(l, col) \o After(l, col + n)
  BY <1>4, <1>6, <1>7, <1>8, <1>9, Zenon
<1>11. ReplacedBy([d EXCEPT ![row + 1] = l], d, row, col, n, <<>>)
  BY <1>1, <1>3, <1>10, PartDeleted
<1>12. [d EXCEPT ![row + 1] = l] = d
  <2>1. d \in [DOMAIN d -> Lines]
    BY DEF Docs, Vectors
  <2> QED
    BY <1>1, <2>1
<1> QED
  BY <1>2, <1>11, <1>12, Zenon DEF ReplacedBy

\* delete_text is a deletion in the text.
LEMMA DeleteTextIs ==
  ASSUME NEW d \in Docs, NEW row, NEW col, NEW length
  PROVE  /\ delete_text(d, row, col, length) \in Docs
         /\ get_full_text(delete_text(d, row, col, length))
              = Flat!Deleted(get_full_text(d), row, col, length)
<1>1. CASE ~(IsIndex(row, Len(d)) /\ IsCursor(col, Len(d[row + 1])))
  <2>1. ~Flat!IsAt(get_full_text(d), row, col)
    BY <1>1, PlaceIs
  <2>2. ~(IsIndex(row, Len(d)) /\ IsIndex(col, Len(d[row + 1])))
    <3> SUFFICES ASSUME IsIndex(row, Len(d)), IsIndex(col, Len(d[row + 1])) PROVE FALSE
      BY Zenon
    <3>1. Len(d[row + 1]) \in Nat
      BY RowIs
    <3> QED
      BY <1>1, <3>1 DEF IsIndex, IsCursor
  <2> QED
    BY <2>1, <2>2, Zenon DEF delete_text, Flat!Deleted
<1>2. CASE IsIndex(row, Len(d)) /\ IsCursor(col, Len(d[row + 1]))
  <2>1. Flat!IsAt(get_full_text(d), row, col)
    BY <1>2, PlaceIs
  <2>2. PICK l \in Lines : l = d[row + 1]
    BY <1>2, RowIs
  <2>3. row \in 0..(Len(d) - 1) /\ Len(l) \in Nat
    BY <1>2, <2>2, RowIs
  <2>4. col \in 0..Len(l)
    BY <1>2, <2>2 DEF IsCursor
  <2>5. PICK rest \in Nat : rest = Len(l) - col
    <3>1. Len(l) - col \in Nat
      BY <2>3, <2>4
    <3> QED
      BY <3>1, Zenon
  <2>6. PICK n \in Nat : n = (IF length \in 0..rest THEN length ELSE rest) /\ n <= rest
    BY <2>5
  <2>7. col \in Nat /\ col + n <= Len(l)
    BY <2>3, <2>4, <2>5, <2>6
  <2>8. Flat!LengthOf(get_full_text(d), row) = Len(l)
    <3>1. d \in Vectors /\ Len(d) \in Nat
      BY DEF Docs, Vectors
    <3> QED
      BY <2>2, <2>3, <3>1, PlacesAre
  <2>9. Flat!Deleted(get_full_text(d), row, col, length)
          = Flat!Splice(get_full_text(d), row, col, n, <<>>)
    BY <2>1, <2>5, <2>6, <2>8, Zenon DEF Flat!Deleted
  <2>10. CASE IsIndex(col, Len(l))
    <3>1. PICK new : new = Before(l, col) \o After(l, col + n)
      OBVIOUS
    <3>2. delete_text(d, row, col, length) = [d EXCEPT ![row + 1] = new]
      BY <1>2, <2>2, <2>5, <2>6, <2>10, <3>1, Zenon DEF delete_text
    <3>3. ReplacedBy([d EXCEPT ![row + 1] = new], d, row, col, n, <<>>)
      BY <2>2, <2>3, <2>7, <3>1, PartDeleted
    <3> QED
      BY <2>9, <3>2, <3>3, Zenon DEF ReplacedBy
  <2>11. CASE ~IsIndex(col, Len(l))
    <3>1. col = Len(l) /\ n = 0
      BY <2>3, <2>4, <2>5, <2>6, <2>11 DEF IsIndex
    <3>2. delete_text(d, row, col, length) = d
      BY <2>2, <2>11, Zenon DEF delete_text
    <3>3. Flat!Splice(get_full_text(d), row, col, 0, <<>>) = get_full_text(d)
      BY <2>2, <2>3, <3>1, NothingDeleted
    <3> QED
      BY <2>9, <3>1, <3>2, <3>3, Zenon
  <2> QED
    BY <2>10, <2>11
<1> QED
  BY <1>1, <1>2

\* An element inserted between two parts of a sequence.
LEMMA InsertBetween ==
  ASSUME NEW S, NEW a \in Seq(S), NEW b \in Seq(S), NEW e \in S, NEW k, k = Len(a) + 1
  PROVE  InsertAt(a \o b, k, e) = Append(a, e) \o b
<1>1. /\ SubSeq(a \o b, 1, Len(a)) = a
      /\ SubSeq(a \o b, Len(a) + 1, Len(a \o b)) = b
  BY TakeDrop
<1>2. Append(a, e) = a \o <<e>>
  BY AppendIsConcat
<1>3. PICK c : c = a \o b
  OBVIOUS
<1>4. SubSeq(c, 1, k - 1) = a /\ SubSeq(c, k, Len(c)) = b
  <2>1. k - 1 = Len(a)
    OBVIOUS
  <2> QED
    BY <1>1, <1>3, <2>1, Zenon
<1>5. InsertAt(c, k, e) = Append(a, e) \o b
  BY <1>2, <1>4, Zenon DEF InsertAt
<1> QED
  BY <1>3, <1>5, Zenon

\* So it is with lines.
LEMMA LineBetween ==
  ASSUME NEW a \in Vectors, NEW b \in Vectors, NEW e \in Lines, NEW k, k = Len(a) + 1
  PROVE  InsertAt(Cat(a, b), k, e) = Cat(Append(a, e), b)
<1>1. InsertAt(a \o b, k, e) = Append(a, e) \o b
  BY InsertBetween DEF Vectors
<1> QED
  BY <1>1, Zenon DEF Cat

\* Breaking a line is the insertion of a line end in the text.
LEMMA LineBroken ==
  ASSUME NEW a \in Vectors, NEW x \in Lines, NEW y \in Lines, NEW b \in Vectors
  PROVE  /\ Append(Append(a, x), y) \o b \in Docs
         /\ get_full_text(Append(Append(a, x), y) \o b)
              = Whole(get_full_text(a), x, <<LF>>, Append(y, LF), get_full_text(b))
<1>1. PICK ax \in Vectors : ax = Append(a, x)
  BY AppendProperties DEF Vectors
<1>2. PICK p \in Seq(Chars) : p = get_full_text(a)
  BY FullText
<1>3. PICK q \in Seq(Chars) : q = get_full_text(b)
  BY FullText
<1>4. PICK z \in Seq(Chars) : z = Append(x, LF)
  BY LineIsText
<1>5. PICK e \in Seq(Chars) : e = Append(y, LF)
  BY LineIsText
<1>6. /\ Append(ax, y) \o b \in Docs
      /\ get_full_text(Append(ax, y) \o b)
           = get_full_text(ax) \o (Append(y, LF) \o get_full_text(b))
  BY TextWithLine
<1>7. get_full_text(ax) = p \o z
  <2>1. get_full_text(Append(a, x)) = get_full_text(a) \o Append(x, LF)
    BY FullText
  <2> QED
    BY <1>1, <1>2, <1>4, <2>1, Zenon
<1>8. z = x \o <<LF>>
  <2>1. x \in Seq(Chars) /\ LF \in Chars
    BY LineIsText DEF Chars
  <2> QED
    BY <1>4, <2>1, AppendIsConcat
<1>9. (p \o z) \o (e \o q) = p \o ((z \o e) \o q)
  <2>1. PICK w \in Seq(Chars) : w = Cat(e, q)
    BY CatIs
  <2>2. Cat(Cat(p, z), w) = Cat(p, Cat(z, w))
    BY CatAssociative
  <2>3. Cat(Cat(z, e), q) = Cat(z, Cat(e, q))
    BY CatAssociative
  <2> QED
    BY <2>1, <2>2, <2>3, Zenon DEF Cat
<1>10. get_full_text(Append(ax, y) \o b) = p \o ((z \o e) \o q)
  BY <1>3, <1>5, <1>6, <1>7, <1>9, Zenon
<1> QED
  BY <1>1, <1>2, <1>3, <1>5, <1>6, <1>8, <1>10, Zenon DEF Whole

\* insert_newline is the insertion of a line end in the text.
LEMMA InsertNewlineIs ==
  ASSUME NEW d \in Docs, NEW row, NEW col
  PROVE  /\ insert_newline(d, row, col) \in Docs
         /\ get_full_text(insert_newline(d, row, col))
              = Flat!Inserted(get_full_text(d), row, col, <<LF>>)
<1>1. CASE ~(IsIndex(row, Len(d)) /\ IsCursor(col, Len(d[row + 1])))
  <2>1. ~Flat!IsAt(get_full_text(d), row, col)
    BY <1>1, PlaceIs
  <2> QED
    BY <1>1, <2>1, Zenon DEF insert_newline, Flat!Inserted
<1>2. CASE IsIndex(row, Len(d)) /\ IsCursor(col, Len(d[row + 1]))
  <2>1. Flat!IsAt(get_full_text(d), row, col)
    BY <1>2, PlaceIs
  <2>2. PICK a, l, b : LineAt(d, row, a, l, b)
    BY <1>2, RowIs, LineIsThere
  <2>3. /\ a \in Vectors
        /\ l \in Lines
        /\ b \in Vectors
        /\ Len(a) = row
        /\ l = d[row + 1]
        /\ \A z \in Lines : [d EXCEPT ![row + 1] = z] = Append(a, z) \o b
    BY <2>2, Zenon DEF LineAt
  <2>4. row \in 0..(Len(d) - 1) /\ Len(l) \in Nat
    BY <1>2, <2>3, RowIs
  <2>5. PICK n \in Nat : n = 0
    OBVIOUS
  <2>6. col \in Nat /\ col + n = col /\ col + n <= Len(l)
    BY <1>2, <2>3, <2>4, <2>5 DEF IsCursor
  <2>7. PICK x \in Lines : x = Before(l, col)
    BY <2>3, <2>6, LineSplit
  <2>8. PICK y \in Lines : y = After(l, col)
    <3>1. After(l, col + n) \in Lines
      BY <2>3, <2>6, LineSplit
    <3> QED
      BY <2>6, <3>1, Zenon
  <2>9. PICK ax \in Vectors : ax = Append(a, x) /\ Len(ax) = row + 1
    BY <2>3, AppendProperties DEF Vectors
  <2>10. insert_newline(d, row, col) = Append(Append(a, x), y) \o b
    <3>1. PICK k : k = row + 2 /\ k = Len(ax) + 1
      BY <2>4, <2>9
    <3>2. InsertAt(Cat(ax, b), k, y) = Cat(Append(ax, y), b)
      BY <2>3, <3>1, LineBetween
    <3>3. [d EXCEPT ![row + 1] = x] = ax \o b
      BY <2>3, <2>9, Zenon
    <3>4. insert_newline(d, row, col) = InsertAt([d EXCEPT ![row + 1] = x], k, y)
      BY <1>2, <2>3, <2>7, <2>8, <3>1, Zenon DEF insert_newline
    <3> QED
      BY <2>9, <3>2, <3>3, <3>4, Zenon DEF Cat
  <2>11. /\ Append(Append(a, x), y) \o b \in Docs
         /\ get_full_text(Append(Append(a, x), y) \o b)
              = Whole(get_full_text(a), x, <<LF>>, Append(y, LF), get_full_text(b))
    BY <2>3, LineBroken
  <2>12. Flat!Splice(get_full_text(d), row, col, n, <<LF>>)
           = Whole(get_full_text(a), Before(l, col), <<LF>>, Append(After(l, col + n), LF),
                   get_full_text(b))
    <3>1. PICK s \in Seq(Chars) : s = <<LF>>
      <4>1. LF \in Chars
        BY DEF Chars
      <4>2. <<LF>> \in Seq(Chars)
        BY <4>1
      <4> QED
        BY <4>2, Zenon
    <3>2. Flat!Splice(get_full_text(d), row, col, n, s)
            = Whole(get_full_text(a), Before(l, col), s, Append(After(l, col + n), LF),
                    get_full_text(b))
      BY <2>2, <2>4, <2>6, SpliceIs
    <3> QED
      BY <3>1, <3>2, Zenon
  <2>13. Flat!Inserted(get_full_text(d), row, col, <<LF>>)
           = Flat!Splice(get_full_text(d), row, col, n, <<LF>>)
    BY <2>1, <2>5, Zenon DEF Flat!Inserted
  <2> QED
    BY <2>6, <2>7, <2>8, <2>10, <2>11, <2>12, <2>13, Zenon
<1> QED
  BY <1>1, <1>2

------------------------------------------------------------------------------
(* The normal form of a text. *)

\* The places of the characters of t that stay.
Kept(t) == {i \in DOMAIN t : ~(t[i] = CR /\ (i = Len(t) \/ t[i + 1] = LF))}

\* The characters are taken one by one, and those that stay are kept.
LEMMA KeepingRuns ==
  ASSUME NEW t \in Seq(Chars), NEW n \in Nat, n = Len(t)
  PROVE  \E h \in [0..n -> Seq(Chars)] :
           /\ h[0] = <<>>
           /\ \A k \in 0..(n - 1) :
                h[k + 1] = IF k + 1 \in Kept(t) THEN Append(h[k], t[k + 1]) ELSE h[k]
           /\ Flat!Normal(t) = IF t # <<>> /\ Last(t) = LF THEN h[n] ELSE Append(h[n], LF)
<1> DEFINE D == Seq(Chars)
           seq == [i \in DOMAIN t |-> i]
           Step(x, i) == IF i \in Kept(t) THEN Append(x, t[i]) ELSE x
           st == [q \in D \X (1..n) |-> Step(q[1], q[2])]
           Is(f) == f = [s \in SUBSET DOMAIN seq |->
                           IF s = {} THEN <<>> ELSE Step(f[s \ {Max(s)}], seq[Max(s)])]
           g == CHOOSE f : Is(f)
<1>1. \A i \in 1..n : t[i] \in Chars
  BY ElementOfSeq
<1>2. DOMAIN t = 1..n
  BY LenProperties
<1>3. DOMAIN seq = 1..n /\ \A i \in 1..n : seq[i] = i
  BY <1>2
<1>4. ASSUME NEW x \in D, NEW i \in 1..n PROVE Step(x, i) \in D
  <2>1. t[i] \in Chars
    BY <1>1
  <2>2. Append(x, t[i]) \in D
    BY <2>1, AppendProperties
  <2> QED
    BY <2>2
<1> HIDE DEF D, Step, seq
<1>5. \A x \in D, i \in 1..n : <<x, i>> \in D \X (1..n) /\ st[<<x, i>>] = Step(x, i)
  OBVIOUS
<1>6. st \in [D \X (1..n) -> D]
  <2>1. ASSUME NEW q \in D \X (1..n) PROVE Step(q[1], q[2]) \in D
    <3>1. q[1] \in D /\ q[2] \in 1..n
      OBVIOUS
    <3> QED
      BY <1>4, <3>1
  <2> QED
    BY <2>1
<1> HIDE DEF st
<1>7. <<>> \in D
  BY DEF D
<1>8. PICK f \in [SUBSET (1..n) -> D] : Folds(st, <<>>, f, n)
  BY <1>6, <1>7, FoldExists
<1>9. Is(f)
  <2> DEFINE e == [s \in SUBSET (1..n) |->
                     IF s = {} THEN <<>> ELSE Step(f[s \ {Max(s)}], seq[Max(s)])]
  <2>1. ASSUME NEW s \in SUBSET (1..n) PROVE f[s] = e[s]
    <3>1. f[s] = IF s = {} THEN <<>> ELSE st[<<f[s \ {Max(s)}], Max(s)>>]
      BY <1>8 DEF Folds
    <3>2. s # {} => Max(s) \in 1..n
      BY Largest
    <3>3. f[s \ {Max(s)}] \in D
      <4>1. s \ {Max(s)} \in SUBSET (1..n)
        OBVIOUS
      <4> QED
        BY <4>1
    <3>4. s # {} => st[<<f[s \ {Max(s)}], Max(s)>>] = Step(f[s \ {Max(s)}], seq[Max(s)])
      BY <1>3, <1>5, <3>2, <3>3
    <3> QED
      BY <3>1, <3>4
  <2>2. f = [s \in SUBSET (1..n) |-> f[s]] /\ e = [s \in SUBSET (1..n) |-> e[s]]
    OBVIOUS
  <2> HIDE DEF e
  <2>3. f = e
    BY <2>1, <2>2, Zenon
  <2>4. e = [s \in SUBSET DOMAIN seq |->
               IF s = {} THEN <<>> ELSE Step(f[s \ {Max(s)}], seq[Max(s)])]
    BY <1>3, Zenon DEF e
  <2> QED
    BY <2>3, <2>4, Zenon
<1>10. Is(g)
  BY <1>9, Zenon
<1>11. Flat!Normal(t) = IF t # <<>> /\ Last(t) = LF THEN g[DOMAIN seq]
                        ELSE Append(g[DOMAIN seq], LF)
  BY Zenon DEF Flat!Normal, Flat!FoldLeft, Flat!MapThenFoldSet, Flat!Last, Last, Flat!Max, Max,
    seq, Step, Kept
<1> HIDE DEF g
<1>12. g[{}] = <<>>
  <2>1. {} \in SUBSET (1..n)
    OBVIOUS
  <2> QED
    BY <1>3, <1>10, <2>1, Zenon
<1>13. ASSUME NEW s \in SUBSET (1..n), s # {}, g[s \ {Max(s)}] \in D
       PROVE  g[s] = st[<<g[s \ {Max(s)}], Max(s)>>]
  <2>1. g[s] = Step(g[s \ {Max(s)}], seq[Max(s)])
    BY <1>3, <1>10, <1>13, Zenon
  <2>2. Max(s) \in 1..n
    BY <1>13, Largest
  <2>3. seq[Max(s)] = Max(s)
    BY <1>3, <2>2
  <2> QED
    BY <1>5, <1>13, <2>1, <2>2, <2>3, Zenon
<1>14. FoldsWithin(st, D, <<>>, g, n)
  BY <1>12, <1>13 DEF FoldsWithin
<1>15. StepByStep(st, D, <<>>, g, n)
  BY <1>6, <1>7, <1>14, FoldRuns
<1>16. /\ g[1..0] = <<>>
       /\ \A k \in 0..n : g[1..k] \in D
       /\ \A k \in 0..(n - 1) : g[1..(k + 1)] = st[<<g[1..k], k + 1>>]
  BY <1>15 DEF StepByStep
<1>17. ASSUME NEW k \in 0..(n - 1) PROVE g[1..(k + 1)] = Step(g[1..k], k + 1)
  <2>1. k \in 0..n /\ k + 1 \in 1..n
    OBVIOUS
  <2>2. g[1..k] \in D /\ g[1..(k + 1)] = st[<<g[1..k], k + 1>>]
    BY <1>16, <2>1
  <2> QED
    BY <1>5, <2>1, <2>2, Zenon
<1> DEFINE h == [k \in 0..n |-> g[1..k]]
<1>18. \A k \in 0..n : h[k] = g[1..k]
  OBVIOUS
<1>19. h \in [0..n -> D]
  BY <1>16
<1> HIDE DEF h
<1>20. h[0] = <<>> /\ h[n] = g[1..n]
  BY <1>16, <1>18
<1>21. ASSUME NEW k \in 0..(n - 1)
       PROVE  h[k + 1] = IF k + 1 \in Kept(t) THEN Append(h[k], t[k + 1]) ELSE h[k]
  <2>1. k \in 0..n /\ k + 1 \in 0..n
    OBVIOUS
  <2>2. h[k + 1] = Step(h[k], k + 1)
    BY <1>17, <1>18, <2>1, Zenon
  <2> QED
    BY <2>2, Zenon DEF Step
<1>22. Flat!Normal(t) = IF t # <<>> /\ Last(t) = LF THEN h[n] ELSE Append(h[n], LF)
  BY <1>3, <1>11, <1>20, Zenon
<1> QED
  BY <1>19, <1>20, <1>21, <1>22, Zenon DEF D

\* The last line that has been read of t after k characters, without the CR that ends
\* it if nothing can follow in that line.
Cut(t, n, k, l) == IF k = n \/ t[k + 1] = LF THEN Stripped(l) ELSE l

\* The characters kept so far are those of the lines read so far.
Same(t, n, k, x, s) == s = get_full_text(AllStripped(Front(x))) \o Cut(t, n, k, Last(x))

\* What becomes of a line when one more character is added.
LEMMA StrippedAppend ==
  ASSUME NEW l \in Lines, NEW c \in Chars, c # LF
  PROVE  /\ Append(l, c) \in Lines
         /\ Stripped(Append(l, c)) = IF c = CR THEN l ELSE Append(l, c)
<1>1. c \in Chars \ {LF} /\ l \in Seq(Chars \ {LF})
  BY DEF Lines
<1>2. Append(l, c) \in Lines /\ Append(l, c) # <<>>
  <2> DEFINE C == Chars \ {LF}
  <2>1. c \in C /\ l \in Seq(C)
    BY <1>1
  <2> HIDE DEF C
  <2>2. Append(l, c) \in Seq(C) /\ Append(l, c) # <<>>
    BY <2>1, AppendProperties
  <2> QED
    BY <2>2 DEF C, Lines
<1>3. Front(Append(l, c)) = l /\ Last(Append(l, c)) = c
  BY <1>1, FrontLast
<1> QED
  BY <1>2, <1>3, Zenon DEF Stripped

\* One character more: a line end.
LEMMA KeptLineEnd ==
  ASSUME NEW t \in Seq(Chars), NEW n \in Nat, n = Len(t), NEW k \in 0..(n - 1), t[k + 1] = LF,
         NEW d \in Vectors, NEW l \in Lines, NEW s, Same(t, n, k, Append(d, l), s)
  PROVE  Same(t, n, k + 1, Read(Append(d, l), LF), Append(s, LF))
<1>1. Read(Append(d, l), LF) = Append(Append(d, l), <<>>)
  <2>1. LF \in Chars
    BY DEF Chars
  <2> QED
    BY <2>1, ReadIs
<1>2. Append(d, l) \in Vectors
  BY AppendProperties DEF Vectors
<1>3. Front(Append(Append(d, l), <<>>)) = Append(d, l) /\ Last(Append(Append(d, l), <<>>)) = <<>>
  BY <1>2, EmptyIsDoc, DocMade
<1>4. Front(Append(d, l)) = d /\ Last(Append(d, l)) = l
  BY DocMade
<1>5. PICK p \in Seq(Chars) : p = get_full_text(AllStripped(d))
  BY AllStrippedIs, FullText
<1>6. PICK z \in Lines : z = Stripped(l)
  BY StrippedIsLine
<1>7. s = p \o z
  BY <1>4, <1>5, <1>6, Zenon DEF Same, Cut
<1>8. get_full_text(AllStripped(Append(d, l))) = p \o Append(z, LF)
  <2>1. AllStripped(Append(d, l)) = Append(AllStripped(d), Stripped(l))
    BY AllStrippedIs
  <2>2. AllStripped(d) \in Vectors
    BY AllStrippedIs
  <2>3. get_full_text(Append(AllStripped(d), z)) = get_full_text(AllStripped(d)) \o Append(z, LF)
    BY <2>2, FullText
  <2> QED
    BY <1>5, <1>6, <2>1, <2>3, Zenon
<1>9. p \o Append(z, LF) = Append(s, LF)
  <2>1. z \in Seq(Chars) /\ LF \in Chars
    BY LineIsText DEF Chars
  <2>2. p \o Append(z, LF) = Append(p \o z, LF)
    BY <2>1, AppendConcat
  <2> QED
    BY <1>7, <2>2, Zenon
<1>10. Cut(t, n, k + 1, <<>>) = <<>>
  BY Zenon DEF Cut, Stripped
<1>11. (p \o Append(z, LF)) \o <<>> = p \o Append(z, LF)
  <2>1. PICK e \in Seq(Chars) : e = Append(z, LF)
    BY LineIsText
  <2>2. PICK w \in Seq(Chars) : w = p \o e
    BY ConcatProperties
  <2>3. w \o <<>> = w
    BY ConcatEmptySeq
  <2> QED
    BY <2>1, <2>2, <2>3, Zenon
<1> QED
  BY <1>1, <1>3, <1>8, <1>9, <1>10, <1>11, Zenon DEF Same

\* One character more in the line.
LEMMA KeptInLine ==
  ASSUME NEW t \in Seq(Chars), NEW n \in Nat, n = Len(t), NEW k \in 0..(n - 1),
         NEW c \in Chars, c = t[k + 1], c # LF,
         NEW d \in Vectors, NEW l \in Lines, NEW s, Same(t, n, k, Append(d, l), s)
  PROVE  Same(t, n, k + 1, Read(Append(d, l), c),
              IF k + 1 \in Kept(t) THEN Append(s, c) ELSE s)
<1>1. Read(Append(d, l), c) = Append(d, Append(l, c)) /\ Append(l, c) \in Lines
  BY ReadIs
<1>2. Front(Append(d, Append(l, c))) = d /\ Last(Append(d, Append(l, c))) = Append(l, c)
  BY <1>1, DocMade
<1>3. Front(Append(d, l)) = d /\ Last(Append(d, l)) = l
  BY DocMade
<1>4. PICK p \in Seq(Chars) : p = get_full_text(AllStripped(d))
  BY AllStrippedIs, FullText
<1>5. k # n
  OBVIOUS
<1>6. s = p \o l
  BY <1>3, <1>4, <1>5, Zenon DEF Same, Cut
<1>7. p \o Append(l, c) = Append(s, c)
  <2>1. l \in Seq(Chars)
    BY LineIsText
  <2>2. p \o Append(l, c) = Append(p \o l, c)
    BY <2>1, AppendConcat
  <2> QED
    BY <1>6, <2>2, Zenon
<1>8. Stripped(Append(l, c)) = IF c = CR THEN l ELSE Append(l, c)
  BY StrippedAppend
<1>9. k + 1 \in Kept(t) <=> ~(c = CR /\ (k + 1 = n \/ t[(k + 1) + 1] = LF))
  <2>1. DOMAIN t = 1..n /\ k + 1 \in 1..n
    BY LenProperties
  <2> QED
    BY <2>1, Zenon DEF Kept
<1>10. Cut(t, n, k + 1, Append(l, c)) = IF k + 1 \in Kept(t) THEN Append(l, c) ELSE l
  BY <1>8, <1>9, Zenon DEF Cut
<1> QED
  BY <1>1, <1>2, <1>4, <1>6, <1>7, <1>10, Zenon DEF Same

\* The characters kept of a text are those of the lines read of it.
LEMMA KeptIs ==
  ASSUME NEW t \in Seq(Chars)
  PROVE  \E x \in Docs, s \in Seq(Chars) :
           /\ x = FoldLeft(Read, EmptyDocument, t)
           /\ Unread(x) = t
           /\ s = get_full_text(AllStripped(Front(x))) \o Stripped(Last(x))
           /\ Flat!Normal(t) = IF t # <<>> /\ Last(t) = LF THEN s ELSE Append(s, LF)
<1>1. PICK n \in Nat : n = Len(t)
  OBVIOUS
<1>2. PICK h \in [0..n -> Docs] :
        /\ h[0] = EmptyDocument
        /\ \A k \in 0..(n - 1) : h[k + 1] = Read(h[k], t[k + 1])
        /\ h[n] = FoldLeft(Read, EmptyDocument, t)
  BY <1>1, ReadingRuns
<1>3. PICK g \in [0..n -> Seq(Chars)] :
        /\ g[0] = <<>>
        /\ \A k \in 0..(n - 1) :
             g[k + 1] = IF k + 1 \in Kept(t) THEN Append(g[k], t[k + 1]) ELSE g[k]
        /\ Flat!Normal(t) = IF t # <<>> /\ Last(t) = LF THEN g[n] ELSE Append(g[n], LF)
  BY <1>1, KeepingRuns
<1>4. Unread(h[n]) = t
  BY <1>1, <1>2, ReadingStandsFor
<1> DEFINE K == {k \in Nat : k <= n => Same(t, n, k, h[k], g[k])}
<1>5. 0 \in K
  <2>1. Front(EmptyDocument) = <<>> /\ Last(EmptyDocument) = <<>>
    BY EmptyIsDoc, DocMade
  <2>2. get_full_text(AllStripped(<<>>)) = <<>>
    BY AllStrippedIs, FullText
  <2>3. Cut(t, n, 0, <<>>) = <<>>
    BY Zenon DEF Cut, Stripped
  <2>4. <<>> \o <<>> = <<>>
    OBVIOUS
  <2>5. Same(t, n, 0, EmptyDocument, <<>>)
    BY <2>1, <2>2, <2>3, <2>4, Zenon DEF Same
  <2> QED
    BY <1>2, <1>3, <2>5
<1>6. ASSUME NEW k \in Nat, k \in K PROVE k + 1 \in K
  <2> SUFFICES ASSUME k + 1 <= n PROVE Same(t, n, k + 1, h[k + 1], g[k + 1])
    OBVIOUS
  <2>1. k \in 0..(n - 1) /\ k \in 0..n /\ k + 1 \in 1..n
    OBVIOUS
  <2>2. Same(t, n, k, h[k], g[k])
    BY <1>6, <2>1
  <2>3. h[k] \in Docs /\ g[k] \in Seq(Chars)
    BY <2>1
  <2>4. PICK d \in Vectors, l \in Lines : h[k] = Append(d, l)
    BY <2>3, DocParts
  <2>5. PICK c \in Chars : c = t[k + 1]
    BY <1>1, <2>1, ElementOfSeq
  <2>6. h[k + 1] = Read(Append(d, l), c)
    BY <1>2, <2>1, <2>4, <2>5, Zenon
  <2>7. g[k + 1] = IF k + 1 \in Kept(t) THEN Append(g[k], c) ELSE g[k]
    BY <1>3, <2>1, <2>5, Zenon
  <2>8. CASE c = LF
    <3>1. k + 1 \in Kept(t)
      <4>1. k + 1 \in DOMAIN t
        BY <1>1, <2>1, LenProperties
      <4> QED
        BY <2>5, <2>8, <4>1, CharsAssumption, Zenon DEF Kept
    <3>2. g[k + 1] = Append(g[k], LF)
      BY <2>7, <2>8, <3>1, Zenon
    <3>3. Same(t, n, k + 1, Read(Append(d, l), LF), Append(g[k], LF))
      BY <1>1, <2>1, <2>2, <2>4, <2>5, <2>8, KeptLineEnd
    <3> QED
      BY <2>6, <2>8, <3>2, <3>3, Zenon
  <2>9. CASE c # LF
    <3>1. Same(t, n, k + 1, Read(Append(d, l), c),
               IF k + 1 \in Kept(t) THEN Append(g[k], c) ELSE g[k])
      BY <1>1, <2>1, <2>2, <2>4, <2>5, <2>9, KeptInLine
    <3> QED
      BY <2>6, <2>7, <3>1, Zenon
  <2> QED
    BY <2>8, <2>9
<1> HIDE DEF K
<1>7. n \in K
  <2>1. K = Nat
    <3>1. K \subseteq Nat
      BY DEF K
    <3> QED
      BY <1>5, <1>6, <3>1, SetInduction
  <2> QED
    BY <2>1
<1>8. Same(t, n, n, h[n], g[n])
  BY <1>7 DEF K
<1>9. g[n] = get_full_text(AllStripped(Front(h[n]))) \o Stripped(Last(h[n]))
  BY <1>8, Zenon DEF Same, Cut
<1>10. h[n] \in Docs /\ g[n] \in Seq(Chars)
  OBVIOUS
<1> QED
  BY <1>2, <1>3, <1>4, <1>9, <1>10, Zenon

\* What the last character of a text is that is read as x.
LEMMA LastRead ==
  ASSUME NEW x \in Docs, NEW t, t = Unread(x)
  PROVE  /\ Last(x) # <<>> => ~(t # <<>> /\ Last(t) = LF)
         /\ Last(x) = <<>> /\ Front(x) # <<>> => t # <<>> /\ Last(t) = LF
         /\ Last(x) = <<>> /\ Front(x) = <<>> => t = <<>>
<1>1. PICK d \in Vectors, l \in Lines : d = Front(x) /\ l = Last(x)
  BY DocParts
<1>2. PICK p \in Seq(Chars) : p = get_full_text(d)
  BY FullText
<1>3. t = p \o l
  BY <1>1, <1>2, Zenon DEF Unread
<1>4. p \o <<>> = p
  BY ConcatEmptySeq
<1>5. ASSUME l # <<>> PROVE Last(t) # LF
  <2> DEFINE C == Chars \ {LF}
  <2>1. l \in Seq(C)
    BY DEF Lines
  <2> HIDE DEF C
  <2>2. PICK z \in Seq(C), c \in C : l = Append(z, c)
    BY <1>5, <2>1, FrontAndLast
  <2>3. z \in Seq(Chars) /\ c \in Chars /\ c # LF
    <3>1. z \in Lines
      BY DEF C, Lines
    <3> QED
      BY <3>1, LineIsText DEF C
  <2>4. p \o Append(z, c) = Append(p \o z, c)
    BY <2>3, AppendConcat
  <2>5. PICK w \in Seq(Chars) : w = p \o z
    BY <2>3, ConcatProperties
  <2>6. t = Append(w, c)
    BY <1>3, <2>2, <2>4, <2>5, Zenon
  <2>7. Last(Append(w, c)) = c
    BY <2>3, FrontLast
  <2> QED
    BY <2>3, <2>6, <2>7, Zenon
<1>6. ASSUME d # <<>>, l = <<>> PROVE t # <<>> /\ Last(t) = LF
  <2>1. PICK z \in Vectors, m \in Lines : d = Append(z, m)
    BY <1>6, FrontAndLast DEF Vectors
  <2>2. get_full_text(Append(z, m)) = get_full_text(z) \o Append(m, LF)
    BY FullText
  <2>3. PICK q \in Seq(Chars) : q = get_full_text(z)
    BY FullText
  <2>4. m \in Seq(Chars) /\ LF \in Chars
    BY LineIsText DEF Chars
  <2>5. q \o Append(m, LF) = Append(q \o m, LF)
    BY <2>4, AppendConcat
  <2>6. PICK w \in Seq(Chars) : w = q \o m
    BY <2>4, ConcatProperties
  <2>7. t = Append(w, LF)
    BY <1>2, <1>3, <1>4, <1>6, <2>1, <2>2, <2>3, <2>5, <2>6, Zenon
  <2>8. Last(Append(w, LF)) = LF /\ Append(w, LF) # <<>>
    BY <2>4, FrontLast, AppendProperties
  <2> QED
    BY <2>7, <2>8, Zenon
<1>7. ASSUME d = <<>>, l = <<>> PROVE t = <<>>
  <2>1. p = <<>>
    BY <1>2, <1>7, FullText
  <2> QED
    BY <1>3, <1>4, <1>7, <2>1, Zenon
<1> QED
  BY <1>1, <1>5, <1>6, <1>7, Zenon

\* set_full_text gives the lines of the normal form of the text.
LEMMA NormalIs ==
  ASSUME NEW t \in Seq(Chars)
  PROVE  get_full_text(set_full_text(t)) = Flat!Normal(t)
<1>1. PICK x \in Docs, s \in Seq(Chars) :
        /\ x = FoldLeft(Read, EmptyDocument, t)
        /\ Unread(x) = t
        /\ s = get_full_text(AllStripped(Front(x))) \o Stripped(Last(x))
        /\ Flat!Normal(t) = IF t # <<>> /\ Last(t) = LF THEN s ELSE Append(s, LF)
  BY KeptIs
<1>2. GetLines(t) = IF Last(x) = <<>> THEN Front(x) ELSE x
  BY <1>1, GetLinesIs, Zenon
<1>3. set_full_text(t) = IF GetLines(t) = <<>> THEN EmptyDocument ELSE AllStripped(GetLines(t))
  BY SetFullTextIs
<1>4. PICK d \in Vectors, l \in Lines : d = Front(x) /\ l = Last(x) /\ x = Append(d, l)
  BY DocParts
<1>5. PICK m \in Lines : m = Stripped(l)
  BY StrippedIsLine
<1>6. PICK a \in Vectors : a = AllStripped(d)
  BY AllStrippedIs
<1>7. PICK p \in Seq(Chars) : p = get_full_text(a)
  BY FullText
<1>8. s = p \o m
  BY <1>1, <1>4, <1>5, <1>6, <1>7, Zenon
<1>9. p \o Append(m, LF) = Append(s, LF)
  <2>1. m \in Seq(Chars) /\ LF \in Chars
    BY LineIsText DEF Chars
  <2>2. p \o Append(m, LF) = Append(p \o m, LF)
    BY <2>1, AppendConcat
  <2> QED
    BY <1>8, <2>2, Zenon
<1>10. /\ l # <<>> => ~(t # <<>> /\ Last(t) = LF)
       /\ l = <<>> /\ d # <<>> => t # <<>> /\ Last(t) = LF
       /\ l = <<>> /\ d = <<>> => t = <<>>
  BY <1>1, <1>4, LastRead
<1>11. CASE l # <<>>
  <2>1. Flat!Normal(t) = Append(s, LF)
    BY <1>1, <1>10, <1>11, Zenon
  <2>2. Append(d, l) # <<>>
    BY AppendProperties DEF Vectors
  <2>3. set_full_text(t) = AllStripped(Append(d, l))
    BY <1>2, <1>3, <1>4, <1>11, <2>2, Zenon
  <2>4. AllStripped(Append(d, l)) = Append(a, m)
    BY <1>5, <1>6, AllStrippedIs
  <2>5. get_full_text(Append(a, m)) = get_full_text(a) \o Append(m, LF)
    BY FullText
  <2> QED
    BY <1>7, <1>9, <2>1, <2>3, <2>4, <2>5, Zenon
<1>12. CASE l = <<>>
  <2>1. m = <<>>
    BY <1>5, <1>12, Zenon DEF Stripped
  <2>2. s = p
    <3>1. p \o <<>> = p
      BY ConcatEmptySeq
    <3> QED
      BY <1>8, <2>1, <3>1, Zenon
  <2>3. GetLines(t) = d
    BY <1>2, <1>4, <1>12, Zenon
  <2>4. CASE d # <<>>
    <3>1. Flat!Normal(t) = s
      BY <1>1, <1>10, <1>12, <2>4, Zenon
    <3>2. set_full_text(t) = a
      BY <1>3, <1>6, <2>3, <2>4, Zenon
    <3> QED
      BY <1>7, <2>2, <3>1, <3>2, Zenon
  <2>5. CASE d = <<>>
    <3>1. Flat!Normal(t) = Append(s, LF)
      BY <1>1, <1>10, <1>12, <2>5, Zenon
    <3>2. set_full_text(t) = EmptyDocument
      BY <1>3, <2>3, <2>5, Zenon
    <3>3. a = <<>> /\ p = <<>>
      BY <1>6, <1>7, <2>5, AllStrippedIs, FullText, Zenon
    <3>4. EmptyDocument = Append(<<>>, <<>>)
      BY EmptyIsDoc
    <3>5. get_full_text(Append(<<>>, <<>>)) = get_full_text(<<>>) \o Append(<<>>, LF)
      BY EmptyIsDoc, FullText
    <3> QED
      BY <1>7, <1>9, <2>1, <3>1, <3>2, <3>3, <3>4, <3>5, Zenon
  <2> QED
    BY <2>4, <2>5
<1> QED
  BY <1>11, <1>12

------------------------------------------------------------------------------
(* The documents at every time. *)

\* Every document that has been made consists of lines.
DocsOK ==
  /\ DOMAIN mp_docs \subseteq Files
  /\ \A f \in DOMAIN mp_docs : mp_docs[f] \in Docs
  /\ owner \in [Files -> Users \cup {NoUser}]

\* So does the one that is made for a file which has none.
LEMMA DocIsDoc ==
  ASSUME DocsOK
  PROVE  \A f \in Files : Doc(f) \in Docs
BY EmptyIsDoc DEF DocsOK, Doc

\* What a document is after the one of f has been replaced.
LEMMA UpdatedIs ==
  ASSUME NEW f \in Files, NEW lines, mp_docs' = Updated(f, lines)
  PROVE  /\ DOMAIN mp_docs' = DOMAIN mp_docs \cup {f}
         /\ \A g \in DOMAIN mp_docs' : mp_docs'[g] = IF g = f THEN lines ELSE mp_docs[g]
         /\ \A g \in Files : Doc(g)' = IF g = f THEN lines ELSE Doc(g)
BY Zenon DEF Updated, Doc

\* Documents of lines stay so when one of them is replaced by lines.
LEMMA UpdatedOK ==
  ASSUME DocsOK, NEW f \in Files, NEW lines \in Docs, mp_docs' = Updated(f, lines),
         owner' \in [Files -> Users \cup {NoUser}]
  PROVE  DocsOK'
<1>1. /\ DOMAIN mp_docs' = DOMAIN mp_docs \cup {f}
      /\ \A g \in DOMAIN mp_docs' : mp_docs'[g] = IF g = f THEN lines ELSE mp_docs[g]
  BY UpdatedIs
<1> QED
  BY <1>1 DEF DocsOK

\* What the owner of f can make of its document is made of lines.
LEMMA OverwriteOK ==
  ASSUME DocsOK, NEW u, NEW f \in Files, NEW lines \in Docs, Overwrite(u, f, lines)
  PROVE  DocsOK'
<1>1. mp_docs' = Updated(f, lines) /\ owner' = owner
  BY DEF Overwrite
<1>2. owner' \in [Files -> Users \cup {NoUser}]
  BY <1>1 DEF DocsOK
<1> QED
  BY <1>1, <1>2, UpdatedOK

\* Every step keeps the documents made of lines.
LEMMA DocsOKStep ==
  ASSUME DocsOK, [Next]_vars
  PROVE  DocsOK'
<1>1. CASE UNCHANGED vars
  BY <1>1, Zenon DEF DocsOK, vars
<1>2. ASSUME NEW f \in Files, NEW u \in Users, process_delta(u, f) PROVE DocsOK'
  <2>1. Doc(f) \in Docs
    BY DocIsDoc
  <2>2. PICK row \in Positions, col \in Positions :
          \/ \E t \in Inserts : Overwrite(u, f, insert_text(Doc(f), row, col, t))
          \/ \E n \in Positions : Overwrite(u, f, delete_text(Doc(f), row, col, n))
          \/ Overwrite(u, f, insert_newline(Doc(f), row, col))
    BY <1>2, Zenon DEF process_delta
  <2>3. CASE \E t \in Inserts : Overwrite(u, f, insert_text(Doc(f), row, col, t))
    <3>1. PICK t \in Inserts : Overwrite(u, f, insert_text(Doc(f), row, col, t))
      BY <2>3
    <3>2. insert_text(Doc(f), row, col, t) \in Docs
      BY <2>1, InsertTextIs, TextsAreOfChars
    <3> QED
      BY <3>1, <3>2, OverwriteOK
  <2>4. CASE \E n \in Positions : Overwrite(u, f, delete_text(Doc(f), row, col, n))
    <3>1. PICK n \in Positions : Overwrite(u, f, delete_text(Doc(f), row, col, n))
      BY <2>4
    <3>2. delete_text(Doc(f), row, col, n) \in Docs
      BY <2>1, DeleteTextIs
    <3> QED
      BY <3>1, <3>2, OverwriteOK
  <2>5. CASE Overwrite(u, f, insert_newline(Doc(f), row, col))
    <3>1. insert_newline(Doc(f), row, col) \in Docs
      BY <2>1, InsertNewlineIs
    <3> QED
      BY <2>5, <3>1, OverwriteOK
  <2> QED
    BY <2>2, <2>3, <2>4, <2>5, Zenon
<1>3. ASSUME NEW f \in Files, NEW u \in Users, force_state(u, f) PROVE DocsOK'
  <2>1. PICK t \in Texts : Overwrite(u, f, set_full_text(t))
    BY <1>3 DEF force_state
  <2>2. set_full_text(t) \in Docs
    BY TextsAreOfChars, SetFullTextIs
  <2> QED
    BY <2>1, <2>2, OverwriteOK
<1>4. ASSUME NEW f \in Files, generate_full_sync(f) PROVE DocsOK'
  <2>1. Doc(f) \in Docs
    BY DocIsDoc
  <2>2. mp_docs' = Updated(f, Doc(f)) /\ owner' \in [Files -> Users \cup {NoUser}]
    BY <1>4 DEF generate_full_sync, DocsOK
  <2> QED
    BY <2>1, <2>2, UpdatedOK
<1>5. ASSUME NEW f \in Files, HandOver(f) PROVE DocsOK'
  BY <1>5 DEF HandOver, DocsOK
<1> QED
  BY <1>1, <1>2, <1>3, <1>4, <1>5, Zenon DEF Next

\* The documents are made of lines from the start.
LEMMA DocsOKInit ==
  ASSUME Init
  PROVE  DocsOK
BY DEF Init, DocsOK

\* In every reachable state, each document DeltaEngine has made is made of lines.
THEOREM DocsInvariance == Spec => []DocsOK
<1>1. Init => DocsOK
  BY DocsOKInit
<1>2. DocsOK /\ [Next]_vars => DocsOK'
  BY DocsOKStep
<1> QED
  BY <1>1, <1>2, PTL DEF Spec

\* No document is without a line, and none of its lines holds a line end.
THEOREM DocumentsTyped == Spec => []TypeOK
<1>1. DocsOK => TypeOK
  <2> SUFFICES ASSUME DocsOK PROVE TypeOK
    OBVIOUS
  <2>1. ASSUME NEW f \in DOMAIN mp_docs
        PROVE  mp_docs[f] # <<>> /\ \A i \in DOMAIN mp_docs[f] : LF \notin Range(mp_docs[f][i])
    <3>1. PICK d \in Docs : d = mp_docs[f]
      BY DEF DocsOK
    <3>2. d \in Seq(Lines) /\ d # <<>>
      BY DEF Docs, Vectors
    <3>3. ASSUME NEW i \in DOMAIN d PROVE LF \notin Range(d[i])
      <4>1. DOMAIN d = 1..Len(d)
        BY <3>2, LenProperties
      <4>2. PICK l \in Lines : l = d[i]
        BY <3>2, <3>3, <4>1, ElementOfSeq
      <4>3. DOMAIN l = 1..Len(l) /\ \A j \in 1..Len(l) : l[j] # LF
        BY LenProperties, LineIsText DEF Lines
      <4> QED
        BY <4>2, <4>3 DEF Range
    <3> QED
      BY <3>1, <3>2, <3>3
  <2> QED
    BY <2>1 DEF TypeOK, DocsOK
<1> QED
  BY <1>1, DocsInvariance, PTL

\* A browser that loads a document and sends it back as it is leaves the same lines,
\* if none of them ends with CR.
THEOREM ReloadsKeepLines == Spec => []ReloadKeepsLines
<1>1. DocsOK => ReloadKeepsLines
  BY Reloaded DEF DocsOK, ReloadKeepsLines
<1> QED
  BY <1>1, DocsInvariance, PTL

\* insert_text, delete_text and insert_newline do to the lines what the same change
\* at the same row and column does to the text.
THEOREM LineEditsEditTexts == Spec => []LineEditsAreTextEdits
<1>1. DocsOK => LineEditsAreTextEdits
  <2> SUFFICES ASSUME DocsOK, NEW f \in Files, NEW row \in Positions, NEW col \in Positions
               PROVE  LET d == Doc(f)
                          t == get_full_text(d)
                      IN  /\ \A s \in Inserts :
                               get_full_text(insert_text(d, row, col, s))
                                 = Flat!Inserted(t, row, col, s)
                          /\ \A n \in Positions :
                               get_full_text(delete_text(d, row, col, n))
                                 = Flat!Deleted(t, row, col, n)
                          /\ get_full_text(insert_newline(d, row, col))
                               = Flat!Inserted(t, row, col, <<LF>>)
    BY Zenon DEF LineEditsAreTextEdits
  <2>1. Doc(f) \in Docs
    BY DocIsDoc
  <2>2. ASSUME NEW s \in Inserts
        PROVE  get_full_text(insert_text(Doc(f), row, col, s))
                 = Flat!Inserted(get_full_text(Doc(f)), row, col, s)
    BY <2>1, TextsAreOfChars, InsertTextIs
  <2>3. ASSUME NEW n \in Positions
        PROVE  get_full_text(delete_text(Doc(f), row, col, n))
                 = Flat!Deleted(get_full_text(Doc(f)), row, col, n)
    BY <2>1, DeleteTextIs
  <2>4. get_full_text(insert_newline(Doc(f), row, col))
          = Flat!Inserted(get_full_text(Doc(f)), row, col, <<LF>>)
    BY <2>1, InsertNewlineIs
  <2> QED
    BY <2>2, <2>3, <2>4, Zenon
<1> QED
  BY <1>1, DocsInvariance, PTL

------------------------------------------------------------------------------
(* The documents as texts. *)

\* The texts of the documents, which FlatText's variable text stands for.
FlatTexts == [f \in Files |-> get_full_text(Doc(f))]

\* No document has been made at first: every text is a line end.
LEMMA FlatStarts ==
  ASSUME Init
  PROVE  Flat!Init
<1>1. get_full_text(EmptyDocument) = <<LF>>
  <2>1. get_full_text(Append(<<>>, <<>>)) = get_full_text(<<>>) \o Append(<<>>, LF)
    BY EmptyIsDoc, FullText
  <2>2. get_full_text(<<>>) = <<>>
    BY FullText
  <2>3. LF \in Chars
    BY DEF Chars
  <2>4. Append(<<>>, LF) = <<LF>> /\ <<LF>> \in Seq(Chars)
    BY <2>3
  <2>5. <<>> \o <<LF>> = <<LF>>
    BY <2>4, ConcatEmptySeq
  <2> QED
    BY EmptyIsDoc, <2>1, <2>2, <2>4, <2>5, Zenon
<1>2. \A f \in Files : Doc(f) = EmptyDocument
  BY DEF Init, Doc
<1>3. FlatTexts = [f \in Files |-> <<LF>>]
  BY <1>1, <1>2 DEF FlatTexts
<1> QED
  BY <1>3, Zenon DEF Init, Flat!Init, FlatTexts

\* When the document of f is replaced, its text is, and no other.
LEMMA TextBecomes ==
  ASSUME NEW f \in Files, NEW lines, mp_docs' = Updated(f, lines)
  PROVE  FlatTexts' = [FlatTexts EXCEPT ![f] = get_full_text(lines)]
<1>1. \A g \in Files : Doc(g)' = IF g = f THEN lines ELSE Doc(g)
  BY UpdatedIs
<1>2. FlatTexts' = [g \in Files |-> get_full_text(Doc(g)')]
  BY DEF FlatTexts, get_full_text
<1>3. \A g \in Files : get_full_text(Doc(g)') = IF g = f THEN get_full_text(lines)
                                               ELSE get_full_text(Doc(g))
  BY <1>1, Zenon
<1> QED
  BY <1>2, <1>3 DEF FlatTexts

\* Every text that the owner of f can make of its document by an edit of a line or
\* by force_state is one FlatText allows.
Allowed(f, t) ==
  \/ \E row \in Positions, col \in Positions :
       \/ \E s \in Inserts \cup {<<LF>>} : t = Flat!Inserted(FlatTexts[f], row, col, s)
       \/ \E n \in Positions : t = Flat!Deleted(FlatTexts[f], row, col, n)
  \/ \E s \in Texts : t = Flat!Normal(s)

\* The text of the document that replaces that of f is one FlatText allows.
LEMMA FlatEdits ==
  ASSUME DocsOK, NEW f \in Files, NEW u \in Users, NEW lines, Overwrite(u, f, lines),
         Allowed(f, get_full_text(lines))
  PROVE  Flat!Edit(f)
<1>1. owner[f] # NoUser /\ owner' = owner
  BY NobodyAssumption DEF Overwrite
<1>2. FlatTexts' = [FlatTexts EXCEPT ![f] = get_full_text(lines)]
  BY TextBecomes DEF Overwrite
<1>3. ASSUME NEW t, t = get_full_text(lines) PROVE Flat!Becomes(f, t)
  BY <1>2, <1>3, Zenon DEF Flat!Becomes, FlatTexts
<1> QED
  BY <1>1, <1>3, Zenon DEF Allowed, Flat!Edit, FlatTexts

\* Every step of the documents is one of the texts, or leaves them.
LEMMA FlatSteps ==
  ASSUME DocsOK, [Next]_vars
  PROVE  [Flat!Next]_(Flat!vars)
<1> DEFINE Unchanged == FlatTexts' = FlatTexts /\ owner' = owner
<1>1. Unchanged => [Flat!Next]_(Flat!vars)
  BY Zenon DEF Flat!vars, FlatTexts
<1>2. \A f \in Files : Flat!Edit(f) \/ Flat!HandOver(f) => [Flat!Next]_(Flat!vars)
  BY Zenon DEF Flat!Next
<1>3. ASSUME UNCHANGED vars PROVE [Flat!Next]_(Flat!vars)
  <2>1. mp_docs' = mp_docs /\ owner' = owner
    BY <1>3 DEF vars
  <2>2. FlatTexts' = FlatTexts
    BY <2>1, Zenon DEF FlatTexts, Doc
  <2> QED
    BY <1>1, <2>1, <2>2
<1>4. \A f \in Files : FlatTexts[f] = get_full_text(Doc(f))
  BY DEF FlatTexts
<1>5. ASSUME NEW f \in Files, NEW u \in Users, process_delta(u, f) PROVE Flat!Edit(f)
  <2>1. Doc(f) \in Docs
    BY DocIsDoc
  <2>2. PICK row \in Positions, col \in Positions :
          \/ \E t \in Inserts : Overwrite(u, f, insert_text(Doc(f), row, col, t))
          \/ \E n \in Positions : Overwrite(u, f, delete_text(Doc(f), row, col, n))
          \/ Overwrite(u, f, insert_newline(Doc(f), row, col))
    BY <1>5, Zenon DEF process_delta
  <2>3. ASSUME NEW t \in Inserts, Overwrite(u, f, insert_text(Doc(f), row, col, t))
        PROVE  Flat!Edit(f)
    <3>1. get_full_text(insert_text(Doc(f), row, col, t))
            = Flat!Inserted(get_full_text(Doc(f)), row, col, t)
      BY <2>1, TextsAreOfChars, InsertTextIs
    <3>2. Allowed(f, get_full_text(insert_text(Doc(f), row, col, t)))
      BY <1>4, <3>1 DEF Allowed
    <3> QED
      BY <2>3, <3>2, FlatEdits
  <2>4. ASSUME NEW n \in Positions, Overwrite(u, f, delete_text(Doc(f), row, col, n))
        PROVE  Flat!Edit(f)
    <3>1. get_full_text(delete_text(Doc(f), row, col, n))
            = Flat!Deleted(get_full_text(Doc(f)), row, col, n)
      BY <2>1, DeleteTextIs
    <3>2. Allowed(f, get_full_text(delete_text(Doc(f), row, col, n)))
      BY <1>4, <3>1 DEF Allowed
    <3> QED
      BY <2>4, <3>2, FlatEdits
  <2>5. ASSUME Overwrite(u, f, insert_newline(Doc(f), row, col)) PROVE Flat!Edit(f)
    <3>1. get_full_text(insert_newline(Doc(f), row, col))
            = Flat!Inserted(get_full_text(Doc(f)), row, col, <<LF>>)
      BY <2>1, InsertNewlineIs
    <3>2. Allowed(f, get_full_text(insert_newline(Doc(f), row, col)))
      BY <1>4, <3>1 DEF Allowed
    <3> QED
      BY <2>5, <3>2, FlatEdits
  <2> QED
    BY <2>2, <2>3, <2>4, <2>5, Zenon
<1>6. ASSUME NEW f \in Files, NEW u \in Users, force_state(u, f) PROVE Flat!Edit(f)
  <2>1. PICK t \in Texts : Overwrite(u, f, set_full_text(t))
    BY <1>6 DEF force_state
  <2>2. get_full_text(set_full_text(t)) = Flat!Normal(t)
    BY TextsAreOfChars, NormalIs
  <2>3. Allowed(f, get_full_text(set_full_text(t)))
    BY <2>2, Zenon DEF Allowed
  <2> QED
    BY <2>1, <2>3, FlatEdits
<1>7. ASSUME NEW f \in Files, generate_full_sync(f) PROVE Unchanged
  <2>1. mp_docs' = Updated(f, Doc(f)) /\ owner' = owner
    BY <1>7 DEF generate_full_sync
  <2>2. FlatTexts' = [FlatTexts EXCEPT ![f] = get_full_text(Doc(f))]
    BY <2>1, TextBecomes
  <2>3. [FlatTexts EXCEPT ![f] = get_full_text(Doc(f))] = FlatTexts
    BY DEF FlatTexts
  <2> QED
    BY <2>1, <2>2, <2>3
<1>8. ASSUME NEW f \in Files, HandOver(f) PROVE Flat!HandOver(f)
  <2>1. mp_docs' = mp_docs
    BY <1>8 DEF HandOver
  <2>2. FlatTexts' = FlatTexts
    BY <2>1, Zenon DEF FlatTexts, Doc
  <2> QED
    BY <1>8, <2>2, Zenon DEF HandOver, Flat!HandOver, FlatTexts
<1> HIDE DEF Unchanged
<1> QED
  BY <1>1, <1>2, <1>3, <1>5, <1>6, <1>7, <1>8, Zenon DEF Next

\* DeltaEngine over TextDocument implements the texts of FlatText.
THEOREM DocumentsImplementFlatText == Spec => ImplementsFlatText
<1>1. Init => Flat!Init
  BY FlatStarts
<1>2. DocsOK /\ [Next]_vars => [Flat!Next]_(Flat!vars)
  BY FlatSteps
<1> QED
  BY <1>1, <1>2, DocsInvariance, PTL DEF Spec, ImplementsFlatText, Flat!Spec
=============================================================================
