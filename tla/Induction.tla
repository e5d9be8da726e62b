------------------------------ MODULE Induction ------------------------------
(***************************************************************************)
(* Induction over the natural numbers, stated of a set of numbers instead  *)
(* of a predicate; what a fold of the library is, step by step; and what   *)
(* the proofs by induction need of sequences.                              *)
(***************************************************************************)
EXTENDS Integers, SequencesExt, WellFoundedInduction, SequenceTheorems, TLAPS

\* A set of numbers has a least one.
LEMMA Least ==
  ASSUME NEW T \in SUBSET Nat, T # {}
  PROVE  \E x \in T : \A y \in T : x <= y
<1> DEFINE R == OpToRel(<, Nat)
<1>1. IsWellFoundedOn(R, Nat)
  BY NatLessThanWellFounded
<1>2. \A x, y \in Nat : <<x, y>> \in R <=> x < y
  BY DEF OpToRel
<1> HIDE DEF R
<1>3. \E x \in T : \A y \in T : ~(<<y, x>> \in R)
  BY <1>1, WFMin
<1>4. PICK x \in T : \A y \in T : ~(<<y, x>> \in R)
  BY <1>3
<1>5. \A y \in T : x <= y
  <2> TAKE y \in T
  <2>1. x \in Nat /\ y \in Nat
    OBVIOUS
  <2>2. ~(y < x)
    BY <1>2, <1>4, <2>1, Zenon
  <2> QED
    BY <2>1, <2>2
<1> QED
  BY <1>5

\* Induction, on a set of numbers.
LEMMA SetInduction ==
  ASSUME NEW S, 0 \in S, \A n \in Nat : n \in S => n + 1 \in S
  PROVE  Nat \subseteq S
<1> SUFFICES ASSUME Nat \ S # {} PROVE FALSE
  OBVIOUS
<1>1. PICK x \in Nat \ S : \A y \in Nat \ S : x <= y
  BY Least
<1>2. x # 0 /\ x - 1 \in Nat
  BY <1>1
<1>3. x - 1 \in S
  BY <1>1, <1>2
<1> QED
  BY <1>1, <1>2, <1>3

\* A sequence is what is before its last element, and that element.
LEMMA SplitSequence ==
  ASSUME NEW S, NEW s \in Seq(S), s # <<>>
  PROVE  /\ Last(s) \in S
         /\ Len(Front(s)) = Len(s) - 1
         /\ Append(Front(s), Last(s)) = s
<1>1. PICK n \in Nat : n + 1 = Len(s)
  <2>1. Len(s) \in Nat \ {0}
    OBVIOUS
  <2>2. Len(s) - 1 \in Nat /\ (Len(s) - 1) + 1 = Len(s)
    BY <2>1
  <2> QED
    BY <2>2
<1>2. Front(s) = SubSeq(s, 1, n) /\ Last(s) = s[n + 1]
  <2>1. Len(s) - 1 = n
    BY <1>1
  <2> QED
    BY <1>1, <2>1, Zenon DEF Front, Last
<1>3. /\ SubSeq(s, 1, n) \in Seq(S)
      /\ Len(SubSeq(s, 1, n)) = n
      /\ \A j \in 1..n : SubSeq(s, 1, n)[j] = s[j]
      /\ s[n + 1] \in S
  BY <1>1
<1>4. PICK z \in Seq(S) : z = SubSeq(s, 1, n)
  BY <1>3
<1>5. Len(z) = n /\ \A j \in 1..n : z[j] = s[j]
  BY <1>3, <1>4, Zenon
<1>6. Append(z, s[n + 1]) = s
  BY <1>1, <1>3, <1>5
<1> QED
  BY <1>1, <1>2, <1>3, <1>4, <1>5, <1>6

\* A set of numbers up to n has a largest one.
LEMMA Largest ==
  ASSUME NEW n \in Nat, NEW T \in SUBSET (1..n), T # {}
  PROVE  Max(T) \in T /\ \A y \in T : y <= Max(T)
<1> DEFINE D == {d \in Nat : n - d \in T}
<1>1. \A y \in T : y \in Nat /\ n - y \in D
  <2> TAKE y \in T
  <2>1. y \in Nat /\ y <= n /\ n \in Nat
    OBVIOUS
  <2>2. n - y \in Nat /\ n - (n - y) = y
    BY <2>1
  <2> QED
    BY <2>1, <2>2
<1>2. D \in SUBSET Nat /\ D # {}
  BY <1>1
<1>3. PICK d \in D : \A e \in D : d <= e
  BY <1>2, Least
<1>4. n - d \in T /\ d \in Nat
  BY <1>3
<1>5. \A y \in T : n - d >= y
  <2> TAKE y \in T
  <2>1. d <= n - y
    BY <1>1, <1>3
  <2> QED
    BY <1>1, <1>4, <2>1
<1>6. Max(T) \in T /\ \A y \in T : Max(T) >= y
  BY <1>4, <1>5, Zenon DEF Max
<1> QED
  BY <1>1, <1>6

\* That of the first k numbers is k, and leaves the first k - 1.
LEMMA LargestOfFirst ==
  ASSUME NEW k \in Nat
  PROVE  /\ Max(1..(k + 1)) = k + 1
         /\ (1..(k + 1)) \ {k + 1} = 1..k
         /\ 1..(k + 1) # {}
<1>1. k + 1 \in 1..(k + 1) /\ k + 1 \in Nat
  OBVIOUS
<1>2. /\ Max(1..(k + 1)) \in 1..(k + 1)
      /\ \A y \in 1..(k + 1) : y <= Max(1..(k + 1))
  <2>1. PICK T \in SUBSET (1..(k + 1)) : T = 1..(k + 1)
    OBVIOUS
  <2>2. T # {}
    BY <1>1, <2>1
  <2>3. Max(T) \in T /\ \A y \in T : y <= Max(T)
    BY <1>1, <2>2, Largest
  <2> QED
    BY <2>1, <2>3, Zenon
<1> QED
  BY <1>1, <1>2

------------------------------------------------------------------------------
(* Folds: what taking the places of a sequence one by one comes to. *)

\* f says of every set of places up to k what taking them one by one, the last place
\* last, makes of the base.
Folds(st, base, f, k) ==
  \A s \in SUBSET (1..k) :
    f[s] = IF s = {} THEN base ELSE st[<<f[s \ {Max(s)}], Max(s)>>]

\* Folding can be done: there is such a function.
LEMMA FoldExists ==
  ASSUME NEW n \in Nat, NEW D, NEW base \in D, NEW st \in [D \X (1..n) -> D]
  PROVE  \E f \in [SUBSET (1..n) -> D] : Folds(st, base, f, n)
<1> DEFINE Can(k) == \E f \in [SUBSET (1..k) -> D] : Folds(st, base, f, k)
           K == {k \in Nat : k <= n => Can(k)}
<1>1. 0 \in K
  <2> DEFINE f == [s \in SUBSET (1..0) |-> base]
  <2>1. f \in [SUBSET (1..0) -> D] /\ Folds(st, base, f, 0)
    BY DEF Folds
  <2> HIDE DEF f
  <2> QED
    BY <2>1
<1>2. ASSUME NEW k \in Nat, k \in K PROVE k + 1 \in K
  <2> SUFFICES ASSUME k + 1 <= n PROVE Can(k + 1)
    <3> HIDE DEF Can
    <3> QED
      OBVIOUS
  <2>0. Can(k)
    <3> HIDE DEF Can
    <3> QED
      BY <1>2
  <2>1. PICK f \in [SUBSET (1..k) -> D] : Folds(st, base, f, k)
    BY <2>0
  <2> DEFINE g == [s \in SUBSET (1..(k + 1)) |->
                     IF k + 1 \in s THEN st[<<f[s \ {k + 1}], k + 1>>] ELSE f[s]]
  <2>2. ASSUME NEW s \in SUBSET (1..(k + 1)), k + 1 \in s
        PROVE  /\ g[s] \in D
               /\ g[s] = st[<<g[s \ {Max(s)}], Max(s)>>]
    <3>1. Max(s) = k + 1
      <4>1. Max(s) \in s /\ \A y \in s : y <= Max(s)
        <5>1. k + 1 \in Nat /\ s # {}
          BY <2>2
        <5> QED
          BY <5>1, Largest
      <4>2. Max(s) \in 1..(k + 1) /\ k + 1 <= Max(s)
        BY <2>2, <4>1
      <4> QED
        BY <4>2
    <3>2. s \ {k + 1} \in SUBSET (1..k) /\ s \ {k + 1} \in SUBSET (1..(k + 1))
      OBVIOUS
    <3>3. g[s \ {k + 1}] = f[s \ {k + 1}] /\ f[s \ {k + 1}] \in D
      BY <3>2
    <3>4. k + 1 \in 1..n
      OBVIOUS
    <3>5. g[s] = st[<<f[s \ {k + 1}], k + 1>>]
      BY <2>2
    <3> HIDE DEF g
    <3> QED
      BY <3>1, <3>3, <3>4, <3>5
  <2>3. ASSUME NEW s \in SUBSET (1..(k + 1)), k + 1 \notin s
        PROVE  /\ g[s] \in D
               /\ g[s] = IF s = {} THEN base ELSE st[<<g[s \ {Max(s)}], Max(s)>>]
    <3>1. s \in SUBSET (1..k)
      BY <2>3
    <3>2. s # {} => s \ {Max(s)} \in SUBSET (1..k) /\ s \ {Max(s)} \in SUBSET (1..(k + 1))
      BY <3>1
    <3>3. g[s] = f[s] /\ f[s] \in D
      BY <2>3, <3>1
    <3>4. s # {} => g[s \ {Max(s)}] = f[s \ {Max(s)}]
      BY <2>3, <3>2
    <3>5. f[s] = IF s = {} THEN base ELSE st[<<f[s \ {Max(s)}], Max(s)>>]
      BY <2>1, <3>1 DEF Folds
    <3> HIDE DEF g
    <3> QED
      BY <3>3, <3>4, <3>5
  <2>4. g = [s \in SUBSET (1..(k + 1)) |-> g[s]]
    OBVIOUS
  <2> HIDE DEF g
  <2>5. g \in [SUBSET (1..(k + 1)) -> D] /\ Folds(st, base, g, k + 1)
    <3>1. \A s \in SUBSET (1..(k + 1)) : g[s] \in D
      BY <2>2, <2>3
    <3>2. g \in [SUBSET (1..(k + 1)) -> D]
      BY <2>4, <3>1
    <3>3. ASSUME NEW s \in SUBSET (1..(k + 1))
          PROVE  g[s] = IF s = {} THEN base ELSE st[<<g[s \ {Max(s)}], Max(s)>>]
      BY <2>2, <2>3
    <3> QED
      BY <3>2, <3>3 DEF Folds
  <2> QED
    BY <2>5
<1> HIDE DEF K
<1>3. n \in K
  BY <1>1, <1>2, SetInduction
<1> QED
  <2> HIDE DEF Can
  <2>1. Can(n)
    BY <1>3 DEF K
  <2> QED
    BY <2>1 DEF Can

\* So does g, as long as it stays in D.
FoldsWithin(st, D, base, g, n) ==
  /\ g[{}] = base
  /\ \A s \in SUBSET (1..n) :
       s # {} /\ g[s \ {Max(s)}] \in D => g[s] = st[<<g[s \ {Max(s)}], Max(s)>>]

\* What it then says of the first places comes about step by step.
StepByStep(st, D, base, g, n) ==
  /\ g[1..0] = base
  /\ \A k \in 0..n : g[1..k] \in D
  /\ \A k \in 0..(n - 1) : g[1..(k + 1)] = st[<<g[1..k], k + 1>>]

\* What such a function says of the first places comes about step by step.
LEMMA FoldRuns ==
  ASSUME NEW n \in Nat, NEW D, NEW base \in D, NEW st \in [D \X (1..n) -> D], NEW g,
         FoldsWithin(st, D, base, g, n)
  PROVE  StepByStep(st, D, base, g, n)
<1> DEFINE Known(k) == g[1..k] \in D
           K == {k \in Nat : k <= n => Known(k)}
<1>1. g[1..0] = base
  <2>1. 1..0 = {}
    OBVIOUS
  <2> QED
    BY <2>1, Zenon DEF FoldsWithin
<1>2. ASSUME NEW k \in Nat, k + 1 <= n, g[1..k] \in D
      PROVE  g[1..(k + 1)] = st[<<g[1..k], k + 1>>] /\ g[1..(k + 1)] \in D
  <2>1. 1..(k + 1) \in SUBSET (1..n) /\ k + 1 \in 1..n
    BY <1>2
  <2>2. /\ Max(1..(k + 1)) = k + 1
        /\ (1..(k + 1)) \ {k + 1} = 1..k
        /\ 1..(k + 1) # {}
    BY LargestOfFirst
  <2>3. g[1..(k + 1)] = st[<<g[1..k], k + 1>>]
    BY <1>2, <2>1, <2>2, Zenon DEF FoldsWithin
  <2>4. <<g[1..k], k + 1>> \in D \X (1..n)
    BY <1>2, <2>1
  <2> QED
    BY <2>3, <2>4
<1>3. \A k \in 0..n : g[1..k] \in D
  <2>1. K = Nat
    <3>1. 0 \in K
      BY <1>1
    <3>2. ASSUME NEW k \in Nat, k \in K PROVE k + 1 \in K
      <4> SUFFICES ASSUME k + 1 <= n PROVE Known(k + 1)
        <5> HIDE DEF Known
        <5> QED
          OBVIOUS
      <4>1. Known(k)
        <5> HIDE DEF Known
        <5> QED
          BY <3>2
      <4> QED
        BY <1>2, <4>1
    <3>3. K \subseteq Nat
      OBVIOUS
    <3> HIDE DEF K
    <3> QED
      BY <3>1, <3>2, <3>3, SetInduction
  <2> QED
    BY <2>1
<1>4. ASSUME NEW k \in 0..(n - 1) PROVE g[1..(k + 1)] = st[<<g[1..k], k + 1>>]
  <2>1. k \in 0..n /\ k \in Nat /\ k + 1 <= n
    OBVIOUS
  <2> QED
    BY <1>2, <1>3, <2>1
<1> QED
  BY <1>1, <1>3, <1>4 DEF StepByStep

------------------------------------------------------------------------------
(* Sequences. *)

\* Induction over sequences, on a set of them.
LEMMA SequenceSetInduction ==
  ASSUME NEW S, NEW P, <<>> \in P,
         \A s \in Seq(S), e \in S : s \in P => Append(s, e) \in P
  PROVE  Seq(S) \subseteq P
<1> DEFINE N == {n \in Nat : \A s \in Seq(S) : Len(s) = n => s \in P}
<1>1. 0 \in N
  <2>1. \A s \in Seq(S) : Len(s) = 0 => s = <<>>
    BY EmptySeq
  <2> QED
    BY <2>1
<1>2. ASSUME NEW n \in Nat, n \in N PROVE n + 1 \in N
  <2> SUFFICES ASSUME NEW s \in Seq(S), Len(s) = n + 1 PROVE s \in P
    OBVIOUS
  <2>1. s # <<>>
    OBVIOUS
  <2>2. PICK z \in Seq(S), e \in S : s = Append(z, e)
    BY <2>1, SequenceEmptyOrAppend
  <2>3. Len(z) = n
    BY <2>2
  <2>4. z \in P
    BY <1>2, <2>3
  <2> QED
    BY <2>2, <2>4
<1> HIDE DEF N
<1>3. Nat \subseteq N
  BY <1>1, <1>2, SetInduction
<1> QED
  BY <1>3 DEF N

\* What is before and what is after a place in a sequence.
LEMMA TakeDrop ==
  ASSUME NEW S, NEW s \in Seq(S), NEW z \in Seq(S)
  PROVE  /\ SubSeq(s \o z, 1, Len(s)) = s
         /\ SubSeq(s \o z, Len(s) + 1, Len(s \o z)) = z
<1>1. PICK m \in Nat : m = Len(s)
  OBVIOUS
<1>2. PICK n \in Nat : n = Len(z)
  OBVIOUS
<1>3. PICK w \in Seq(S) :
        /\ w = s \o z
        /\ Len(w) = m + n
        /\ \A i \in 1..(m + n) : w[i] = IF i <= m THEN s[i] ELSE z[i - m]
  <2>1. PICK w \in Seq(S) : w = s \o z
    BY ConcatProperties
  <2>2. Len(w) = m + n
    BY <1>1, <1>2, <2>1, ConcatProperties
  <2>3. \A i \in 1..(m + n) : w[i] = IF i <= m THEN s[i] ELSE z[i - m]
    BY <1>1, <1>2, <2>1, ConcatProperties
  <2> QED
    BY <2>1, <2>2, <2>3
<1>4. PICK a \in Seq(S) : /\ a = SubSeq(w, 1, m)
                          /\ Len(a) = m
                          /\ \A i \in 1..m : a[i] = w[i]
  <2>1. \A i \in 1..m : w[i] \in S
    BY <1>3
  <2>2. /\ SubSeq(w, 1, m) \in Seq(S)
        /\ Len(SubSeq(w, 1, m)) = IF 1 <= m THEN m - 1 + 1 ELSE 0
        /\ \A i \in 1..(m - 1 + 1) : SubSeq(w, 1, m)[i] = w[1 + i - 1]
    <3>1. 1 \in Int /\ m \in Int
      OBVIOUS
    <3> QED
      BY <2>1, <3>1, SubSeqProperties
  <2>3. PICK a \in Seq(S) : a = SubSeq(w, 1, m)
    BY <2>2
  <2>4. Len(a) = m
    BY <2>2, <2>3
  <2>5. \A i \in 1..m : a[i] = w[i]
    BY <2>2, <2>3
  <2> QED
    BY <2>3, <2>4, <2>5
<1>5. PICK b \in Seq(S) : /\ b = SubSeq(w, m + 1, m + n)
                          /\ Len(b) = n
                          /\ \A i \in 1..n : b[i] = w[m + i]
  <2>1. \A i \in (m + 1)..(m + n) : w[i] \in S
    BY <1>3
  <2>2. /\ SubSeq(w, m + 1, m + n) \in Seq(S)
        /\ Len(SubSeq(w, m + 1, m + n)) = IF m + 1 <= m + n THEN (m + n) - (m + 1) + 1 ELSE 0
        /\ \A i \in 1..((m + n) - (m + 1) + 1) : SubSeq(w, m + 1, m + n)[i] = w[(m + 1) + i - 1]
    <3>1. m + 1 \in Int /\ m + n \in Int
      OBVIOUS
    <3> QED
      BY <2>1, <3>1, SubSeqProperties
  <2>3. (m + n) - (m + 1) + 1 = n /\ \A i \in 1..n : (m + 1) + i - 1 = m + i
    OBVIOUS
  <2>4. PICK b \in Seq(S) : b = SubSeq(w, m + 1, m + n)
    BY <2>2
  <2>5. Len(b) = n
    BY <2>2, <2>4
  <2>6. \A i \in 1..n : b[i] = w[m + i]
    BY <2>2, <2>3, <2>4
  <2> QED
    BY <2>4, <2>5, <2>6
<1>6. a = s
  <2>1. \A i \in 1..m : a[i] = s[i]
    BY <1>3, <1>4
  <2> QED
    BY <1>1, <1>4, <2>1, SeqEqual
<1>7. b = z
  <2>1. ASSUME NEW i \in 1..n PROVE b[i] = z[i]
    <3>1. m + i \in 1..(m + n) /\ ~(m + i <= m) /\ (m + i) - m = i
      OBVIOUS
    <3>2. w[m + i] = z[i]
      BY <1>3, <3>1, Zenon
    <3> QED
      BY <1>5, <3>2
  <2> QED
    BY <1>2, <1>5, <2>1, SeqEqual
<1> QED
  BY <1>1, <1>3, <1>4, <1>5, <1>6, <1>7

\* The function that flattening a sequence of sequences defines.
Flattens(h, q) ==
  h = [i \in 1..Len(q) |-> IF i = 1 THEN q[i] ELSE h[i - 1] \o q[i]]

\* Flattening the m sequences of q is putting one after the other.
FlattensStepwise(S, q, m) ==
  \E h \in [1..m -> Seq(S)] :
    /\ FlattenSeq(q) = h[m]
    /\ h[1] = q[1]
    /\ \A i \in 1..m : i # 1 => h[i] = h[i - 1] \o q[i]

\* There is such a function, and flattening is its last value.
LEMMA FlattenRuns ==
  ASSUME NEW S, NEW q \in Seq(Seq(S)), q # <<>>
  PROVE  FlattensStepwise(S, q, Len(q))
<1>1. PICK n \in Nat : n = Len(q) /\ n # 0
  OBVIOUS
<1> DEFINE Goes(h, k) ==
             \A i \in 1..k : h[i] = IF i = 1 THEN q[i] ELSE h[i - 1] \o q[i]
           Can(k) == \E h \in [1..k -> Seq(S)] : Goes(h, k)
           K == {k \in Nat : k <= n => Can(k)}
<1>2. 0 \in K
  <2>1. PICK h : h \in [1..0 -> Seq(S)]
    <3>1. [i \in 1..0 |-> <<>>] \in [1..0 -> Seq(S)]
      OBVIOUS
    <3> QED
      BY <3>1
  <2>2. Goes(h, 0)
    OBVIOUS
  <2>3. Can(0)
    BY <2>1, <2>2
  <2> HIDE DEF Can
  <2> QED
    BY <2>3
<1>3. ASSUME NEW k \in Nat, k \in K PROVE k + 1 \in K
  <2> SUFFICES ASSUME k + 1 <= n PROVE Can(k + 1)
    <3> HIDE DEF Can
    <3> QED
      OBVIOUS
  <2>1. Can(k)
    <3> HIDE DEF Can
    <3> QED
      BY <1>3
  <2>2. PICK f \in [1..k -> Seq(S)] : Goes(f, k)
    BY <2>1
  <2>3. PICK l \in Seq(S) : l = q[k + 1]
    <3>1. k + 1 \in 1..Len(q)
      BY <1>1
    <3> QED
      BY <3>1, ElementOfSeq
  <2> DEFINE v == IF k = 0 THEN l ELSE f[k] \o l
             h == [i \in 1..(k + 1) |-> IF i = k + 1 THEN v ELSE f[i]]
  <2>4. v \in Seq(S)
    <3>1. k # 0 => f[k] \in Seq(S)
      OBVIOUS
    <3> QED
      BY <3>1, ConcatProperties
  <2> HIDE DEF v
  <2>5. h \in [1..(k + 1) -> Seq(S)]
    BY <2>4
  <2>6. h[k + 1] = v /\ \A i \in 1..k : h[i] = f[i]
    OBVIOUS
  <2> HIDE DEF h
  <2>7. ASSUME NEW i \in 1..(k + 1)
        PROVE  h[i] = IF i = 1 THEN q[i] ELSE h[i - 1] \o q[i]
    <3>1. CASE i = k + 1
      <4>1. CASE k = 0
        BY <2>3, <2>6, <3>1, <4>1 DEF v
      <4>2. CASE k # 0
        <5>1. h[k] = f[k] /\ i # 1 /\ i - 1 = k
          BY <2>6, <3>1, <4>2
        <5> QED
          BY <2>3, <2>6, <3>1, <4>2, <5>1, Zenon DEF v
      <4> QED
        BY <4>1, <4>2
    <3>2. CASE i # k + 1
      <4>1. i \in 1..k /\ (i # 1 => i - 1 \in 1..k)
        BY <3>2
      <4>2. f[i] = IF i = 1 THEN q[i] ELSE f[i - 1] \o q[i]
        BY <2>2, <4>1, Zenon
      <4> QED
        BY <2>6, <4>1, <4>2, Zenon
    <3> QED
      BY <3>1, <3>2
  <2> QED
    BY <2>5, <2>7, Zenon
<1> HIDE DEF K
<1>4. n \in K
  BY <1>2, <1>3, SetInduction
<1>5. Can(n)
  <2> HIDE DEF Can
  <2> QED
    BY <1>4 DEF K
<1>6. PICK h \in [1..n -> Seq(S)] : Goes(h, n)
  BY <1>5
<1>7. Flattens(h, q)
  <2> DEFINE g == [i \in 1..n |-> IF i = 1 THEN q[i] ELSE h[i - 1] \o q[i]]
  <2>1. \A i \in 1..n : h[i] = g[i]
    BY <1>6, Zenon
  <2>2. g = [i \in 1..n |-> g[i]]
    OBVIOUS
  <2>3. h = [i \in 1..n |-> h[i]]
    OBVIOUS
  <2> HIDE DEF g
  <2>4. h = g
    BY <2>1, <2>2, <2>3, Zenon
  <2> QED
    BY <1>1, <2>4, Zenon DEF g, Flattens
<1> DEFINE c == CHOOSE g : Flattens(g, q)
<1>8. Flattens(c, q)
  BY <1>7, Zenon
<1>9. FlattenSeq(q) = c[Len(q)]
  <2>1. Len(q) # 0
    BY <1>1
  <2> QED
    BY <2>1, Zenon DEF FlattenSeq, Flattens
<1> HIDE DEF c
<1>10. \A i \in 1..n : c[i] = IF i = 1 THEN q[i] ELSE c[i - 1] \o q[i]
  BY <1>1, <1>8, Zenon DEF Flattens
<1> DEFINE E == {k \in Nat : k + 1 <= n => c[k + 1] = h[k + 1]}
<1>11. 0 \in E
  <2>1. 1 \in 1..n /\ 0 + 1 = 1
    BY <1>1
  <2>2. c[1] = q[1] /\ h[1] = q[1]
    BY <1>6, <1>10, <2>1, Zenon
  <2> QED
    BY <2>1, <2>2
<1>12. ASSUME NEW k \in Nat, k \in E PROVE k + 1 \in E
  <2> SUFFICES ASSUME k + 2 <= n PROVE c[k + 2] = h[k + 2]
    <3>1. (k + 1) + 1 = k + 2
      OBVIOUS
    <3> QED
      BY <3>1
  <2>1. k + 2 \in 1..n /\ k + 2 # 1 /\ (k + 2) - 1 = k + 1
    OBVIOUS
  <2>2. c[k + 1] = h[k + 1]
    BY <1>12
  <2>3. /\ c[k + 2] = c[k + 1] \o q[k + 2]
        /\ h[k + 2] = h[k + 1] \o q[k + 2]
    BY <1>6, <1>10, <2>1, Zenon
  <2> QED
    BY <2>2, <2>3, Zenon
<1>13. c[n] = h[n]
  <2>1. n - 1 \in Nat /\ (n - 1) + 1 = n
    BY <1>1
  <2> HIDE DEF E
  <2>2. n - 1 \in E
    BY <1>11, <1>12, <2>1, SetInduction
  <2> QED
    BY <2>1, <2>2 DEF E
<1>14. 1 \in 1..n
  BY <1>1
<1>15. h[1] = q[1] /\ \A i \in 1..n : i # 1 => h[i] = h[i - 1] \o q[i]
  BY <1>6, <1>14, Zenon
<1> HIDE DEF Goes
<1> QED
  BY <1>1, <1>6, <1>9, <1>13, <1>15, Zenon DEF FlattensStepwise

\* Flattening appends one sequence after the other.
LEMMA FlattenIs ==
  ASSUME NEW S
  PROVE  /\ FlattenSeq(<<>>) = <<>>
         /\ \A q \in Seq(Seq(S)) : FlattenSeq(q) \in Seq(S)
         /\ \A q \in Seq(Seq(S)), l \in Seq(S) :
              FlattenSeq(Append(q, l)) = FlattenSeq(q) \o l
<1>1. FlattenSeq(<<>>) = <<>>
  <2>1. Len(<<>>) = 0
    OBVIOUS
  <2> QED
    BY <2>1, Zenon DEF FlattenSeq
<1>2. ASSUME NEW q \in Seq(Seq(S)) PROVE FlattenSeq(q) \in Seq(S)
  <2>1. CASE q = <<>>
    BY <1>1, <2>1, EmptySeq
  <2>2. CASE q # <<>>
    <3>1. Len(q) \in 1..Len(q)
      BY <2>2
    <3>2. PICK h \in [1..Len(q) -> Seq(S)] : FlattenSeq(q) = h[Len(q)]
      <4>1. FlattensStepwise(S, q, Len(q))
        BY <2>2, FlattenRuns
      <4> QED
        BY <4>1, Zenon DEF FlattensStepwise
    <3> QED
      BY <3>1, <3>2
  <2> QED
    BY <2>1, <2>2
<1>3. ASSUME NEW q \in Seq(Seq(S)), NEW l \in Seq(S)
      PROVE  FlattenSeq(Append(q, l)) = FlattenSeq(q) \o l
  <2>1. PICK n \in Nat : n = Len(q)
    OBVIOUS
  <2>2. PICK w \in Seq(Seq(S)) : /\ w = Append(q, l)
                                 /\ w # <<>>
                                 /\ Len(w) = n + 1
                                 /\ \A i \in 1..n : w[i] = q[i]
                                 /\ w[n + 1] = l
    BY <2>1, AppendProperties
  <2>3. PICK g \in [1..(n + 1) -> Seq(S)] :
          /\ FlattenSeq(w) = g[n + 1]
          /\ g[1] = w[1]
          /\ \A i \in 1..(n + 1) : i # 1 => g[i] = g[i - 1] \o w[i]
    <3>1. w # <<>> /\ Len(w) = n + 1
      BY <2>2
    <3>2. FlattensStepwise(S, w, Len(w))
      BY <3>1, FlattenRuns
    <3>3. FlattensStepwise(S, w, n + 1)
      BY <3>1, <3>2, Zenon
    <3> QED
      BY <3>3, Zenon DEF FlattensStepwise
  <2>4. CASE n = 0
    <3>1. q = <<>>
      BY <2>1, <2>4, EmptySeq
    <3>2. FlattenSeq(q) = <<>>
      BY <1>1, <3>1
    <3>3. FlattenSeq(w) = l
      BY <2>2, <2>3, <2>4
    <3>4. <<>> \o l = l
      BY ConcatEmptySeq
    <3> QED
      BY <2>2, <3>2, <3>3, <3>4, Zenon
  <2>5. CASE n # 0
    <3>1. q # <<>>
      BY <2>1, <2>5
    <3>2. PICK h \in [1..n -> Seq(S)] :
            /\ FlattenSeq(q) = h[n]
            /\ h[1] = q[1]
            /\ \A i \in 1..n : i # 1 => h[i] = h[i - 1] \o q[i]
      <4>1. FlattensStepwise(S, q, Len(q))
        BY <3>1, FlattenRuns
      <4>2. FlattensStepwise(S, q, n)
        BY <2>1, <4>1, Zenon
      <4> QED
        BY <4>2, Zenon DEF FlattensStepwise
    <3> DEFINE E == {k \in Nat : k + 1 <= n => g[k + 1] = h[k + 1]}
    <3>3. 0 \in E
      <4>1. 1 \in 1..n /\ 0 + 1 = 1
        BY <2>5
      <4>2. g[1] = h[1]
        BY <2>2, <2>3, <3>2, <4>1, Zenon
      <4> QED
        BY <4>1, <4>2
    <3>4. ASSUME NEW k \in Nat, k \in E PROVE k + 1 \in E
      <4> SUFFICES ASSUME k + 2 <= n PROVE g[k + 2] = h[k + 2]
        <5>1. (k + 1) + 1 = k + 2
          OBVIOUS
        <5> QED
          BY <5>1
      <4>1. /\ k + 2 \in 1..n /\ k + 2 \in 1..(n + 1) /\ k + 2 # 1
            /\ (k + 2) - 1 = k + 1
        OBVIOUS
      <4>2. g[k + 1] = h[k + 1]
        BY <3>4
      <4>3. /\ g[k + 2] = g[k + 1] \o w[k + 2]
            /\ h[k + 2] = h[k + 1] \o q[k + 2]
            /\ w[k + 2] = q[k + 2]
        BY <2>2, <2>3, <3>2, <4>1, Zenon
      <4> QED
        BY <4>2, <4>3, Zenon
    <3>5. g[n] = h[n]
      <4>1. n - 1 \in Nat /\ (n - 1) + 1 = n
        BY <2>5
      <4> HIDE DEF E
      <4>2. n - 1 \in E
        BY <3>3, <3>4, <4>1, SetInduction
      <4> QED
        BY <4>1, <4>2 DEF E
    <3>6. n + 1 \in 1..(n + 1) /\ n + 1 # 1 /\ (n + 1) - 1 = n
      BY <2>5
    <3>7. g[n + 1] = g[n] \o l
      BY <2>2, <2>3, <3>6, Zenon
    <3> QED
      BY <2>2, <2>3, <3>2, <3>5, <3>7, Zenon
  <2> QED
    BY <2>4, <2>5
<1> QED
  BY <1>1, <1>2, <1>3
==============================================================================
