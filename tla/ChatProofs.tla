------------------------------ MODULE ChatProofs ------------------------------
(***************************************************************************)
(* Proofs about AnswerStream, for any answers, excerpts, deltas and reads, *)
(* and about Chat, for any sessions, turns, limit and number of faults.    *)
(*                                                                         *)
(* AnswerStream: what the client sees, what the parser holds, what the     *)
(* buffer holds and what is on the wire are, one after the other, the      *)
(* answer as far as it is sent (StreamInv); and what is seen has each of   *)
(* its citations as an event (CutInv).                                     *)
(*                                                                         *)
(* Chat: the place of a turn says what may be stored of it (TurnInv), an   *)
(* answer shares the fate of its question, and the key-share lock keeps a  *)
(* question and the deletion of its session apart (SessionInv).  The slots *)
(* are counted apart (SlotInv).                                            *)
(***************************************************************************)
EXTENDS Chat, AnswerStream, FiniteSetTheorems, SequenceTheorems, WellFoundedInduction, TLAPS

-------------------------------------------------------------------------------
(***************************************************************************)
(* AnswerStream.  Nothing here depends on Chat.                            *)
(*                                                                         *)
(* First what the model's operators compute.  Concat is a recursive        *)
(* function; what it does to two sequences one after the other is proved   *)
(* once (ConcatJoins) and carried to every operator that is built from it, *)
(* a sequence `fn` of sequences in the place of each element (Spread).     *)
(***************************************************************************)

\* The smallest of a set of numbers.
LEMMA Smallest ==
  ASSUME NEW T \in SUBSET Nat, T # {}
  PROVE  \E x \in T : \A y \in T : x <= y
<1>. DEFINE R == StrictSubsetOrdering(T)  F == FiniteSubsetsOf(T)
            Below(x) == {y \in T : y <= x}   B == {Below(x) : x \in T}
<1>1. IsWellFoundedOn(R, F)
  BY FS_StrictSubsetOrderingWellFounded
<1>2. B \subseteq F /\ B # {}
  <2>1. ASSUME NEW x \in T PROVE Below(x) \in SUBSET T /\ IsFiniteSet(Below(x))
    <3>a. x \in Nat /\ IsFiniteSet(0..x)
      BY FS_Interval
    <3>1. Below(x) \subseteq 0..x
      <4>. SUFFICES ASSUME NEW y \in T, y <= x PROVE y \in 0..x
        OBVIOUS
      <4>1. y \in Nat
        OBVIOUS
      <4>. QED
        BY <3>a, <4>1
    <3>. HIDE DEF Below
    <3>2. IsFiniteSet(Below(x))
      BY <3>a, <3>1, FS_Subset
    <3>. QED
      BY <3>2 DEF Below
  <2>. HIDE DEF Below
  <2>. QED
    BY <2>1 DEF FiniteSubsetsOf
<1>3. \A X, Y \in F : X \subseteq Y /\ X # Y => <<X, Y>> \in R
  BY DEF StrictSubsetOrdering, FiniteSubsetsOf
<1>. HIDE DEF R, F
<1>4. PICK X \in B : \A Y \in B : ~(<<Y, X>> \in R)
  <2>. HIDE DEF B
  <2>. QED
    BY <1>1, <1>2, WFMin
<1>5. PICK x \in T : X = Below(x)
  BY <1>4
<1>6. ASSUME NEW y \in T, y < x PROVE FALSE
  <2>a. x \in Nat /\ y \in Nat
    OBVIOUS
  <2>b. ASSUME NEW z \in T, z <= y PROVE z <= x
    <3>1. z \in Nat
      OBVIOUS
    <3>. QED
      BY <1>6, <2>a, <2>b, <3>1
  <2>1. Below(y) \subseteq Below(x)
    BY <2>b
  <2>2. x \in Below(x) /\ x \notin Below(y)
    BY <1>6, <2>a
  <2>3. Below(y) \in B
    OBVIOUS
  <2>. HIDE DEF Below
  <2>4. <<Below(y), X>> \in R
    BY <1>2, <1>3, <1>4, <1>5, <2>1, <2>2, <2>3
  <2>. QED
    BY <1>4, <2>3, <2>4
<1>. QED
  BY <1>6

\* Induction, by the smallest number that is not in the set.
LEMMA Climb ==
  ASSUME NEW m \in Nat, NEW n \in Nat, NEW P, m \in P, \A k \in m+1..n : k - 1 \in P => k \in P
  PROVE  m..n \subseteq P
<1>. DEFINE T == (m..n) \ P
<1>. SUFFICES ASSUME T # {} PROVE FALSE
  OBVIOUS
<1>1. PICK k \in T : \A j \in T : k <= j
  <2>1. T \in SUBSET Nat
    OBVIOUS
  <2>. HIDE DEF T
  <2>. QED
    BY <2>1, Smallest
<1>2. k \in m+1..n /\ k - 1 \in m..n /\ k - 1 \notin T
  BY <1>1
<1>. QED
  BY <1>1, <1>2

\* A function may be defined by recursion over an interval.
Steps(A, a, m, n, step) ==
  a \in A /\ m \in Nat /\ n \in Nat /\ m <= n /\ step \in [(m..n) \X A -> A]
Recursive(A, a, m, n, step, f) ==
  f \in [m..n -> A] /\ \A i \in m..n : f[i] = IF i = m THEN a ELSE step[<<i, f[i - 1]>>]

\* There is one, step by step up to n.
LEMMA Recursion ==
  ASSUME NEW A, NEW a, NEW m, NEW n, NEW step, Steps(A, a, m, n, step)
  PROVE  \E f : Recursive(A, a, m, n, step, f)
<1>. USE DEF Steps, Recursive
<1>. DEFINE Solves(f, k) == /\ f \in [m..k -> A]
                          /\ \A i \in m..k : f[i] = IF i = m THEN a ELSE step[<<i, f[i - 1]>>]
            P == {k \in m..n : \E f : Solves(f, k)}
<1>1. m \in P
  <2>1. Solves([i \in m..m |-> a], m)
    OBVIOUS
  <2>. HIDE DEF Solves
  <2>. QED
    BY <2>1
<1>2. ASSUME NEW k \in m+1..n, k - 1 \in P PROVE k \in P
  <2>1. PICK f : Solves(f, k - 1)
    BY <1>2
  <2>. DEFINE g == [i \in m..k |-> IF i = k THEN step[<<k, f[k - 1]>>] ELSE f[i]]
  <2>2. k \in m..n /\ k # m /\ k - 1 \in m..k-1
    OBVIOUS
  <2>3. f[k - 1] \in A /\ <<k, f[k - 1]>> \in (m..n) \X A
    BY <2>1, <2>2
  <2>4. g \in [m..k -> A]
    BY <2>1, <2>2, <2>3
  <2>5. ASSUME NEW i \in m..k PROVE g[i] = IF i = m THEN a ELSE step[<<i, g[i - 1]>>]
    <3>1. CASE i = k
      <4>1. k - 1 \in m..k /\ k - 1 # k
        OBVIOUS
      <4>2. g[k] = step[<<k, f[k - 1]>>] /\ g[k - 1] = f[k - 1]
        BY <2>2, <4>1
      <4>. QED
        BY <2>2, <3>1, <4>2
    <3>2. CASE i # k
      <4>1. i \in m..k-1 /\ g[i] = f[i]
        BY <3>2
      <4>2. i # m => i - 1 \in m..k /\ i - 1 # k
        OBVIOUS
      <4>3. i # m => g[i - 1] = f[i - 1]
        BY <4>2
      <4>4. f[i] = IF i = m THEN a ELSE step[<<i, f[i - 1]>>]
        BY <2>1, <4>1
      <4>. HIDE DEF g
      <4>. QED
        BY <4>1, <4>3, <4>4
    <3>. QED
      BY <3>1, <3>2
  <2>6. Solves(g, k)
    <3>. HIDE DEF g
    <3>. QED
      BY <2>4, <2>5
  <2>. HIDE DEF Solves, g
  <2>. QED
    BY <2>2, <2>6
<1>3. n \in P
  <2>1. m..n \subseteq P
    <3>. HIDE DEF P
    <3>1. \A k \in m+1..n : k - 1 \in P => k \in P
      BY <1>2
    <3>2. m \in Nat /\ n \in Nat
      OBVIOUS
    <3>. HIDE DEF Steps, Recursive
    <3>. QED
      BY <1>1, <3>1, <3>2, Climb
  <2>2. n \in m..n
    OBVIOUS
  <2>. HIDE DEF P, Steps, Recursive
  <2>. QED
    BY <2>1, <2>2
<1>. QED
  BY <1>3
-------------------------------------------------------------------------------
\* Sequences cut in two.
LEMMA CutJoins ==
  ASSUME NEW S, NEW s \in Seq(S), NEW k \in Nat, k <= Len(s)
  PROVE  s = Upto(s, k) \o From(s, k + 1)
<1>. PICK n \in Nat : n = Len(s)
  OBVIOUS
<1>1. 1 \in 1..n+1 /\ k \in 1-1..n /\ n \in k..n
  OBVIOUS
<1>2. SubSeq(s, 1, k) \o SubSeq(s, k + 1, n) = SubSeq(s, 1, n)
  BY <1>1, ConcatAdjacentSubSeq
<1>3. SubSeq(s, 1, n) = s
  OBVIOUS
<1>. QED
  BY <1>2, <1>3 DEF Upto, From

LEMMA Joins ==
  ASSUME NEW S, NEW s \in Seq(S), NEW t \in Seq(S), NEW r \in Seq(S)
  PROVE  (s \o t) \o r = s \o (t \o r) /\ s \o t \in Seq(S)
OBVIOUS

\* A start of s and what follows it are a longer start.
LEMMA UptoGrows ==
  ASSUME NEW S, NEW s \in Seq(S), NEW a \in Nat, NEW b \in Nat, a <= b, b <= Len(s)
  PROVE  Upto(s, a) \o SubSeq(s, a + 1, b) = Upto(s, b)
<1>. PICK n \in Nat : n = Len(s)
  OBVIOUS
<1>1. 1 \in 1..n+1 /\ a \in 1-1..n /\ b \in a..n
  OBVIOUS
<1>. QED
  BY <1>1, ConcatAdjacentSubSeq DEF Upto

LEMMA UptoNext ==
  ASSUME NEW S, NEW s \in Seq(S), NEW k \in 1..Len(s)
  PROVE  Upto(s, k) = Upto(s, k - 1) \o <<s[k]>>
<1>1. 1 \in 1..Len(s) /\ k \in 1..Len(s)
  OBVIOUS
<1>. QED
  BY <1>1, SubSeqRecursiveSecond DEF Upto

-------------------------------------------------------------------------------
\* Concat of the first sequences.
Parts(C, seqs, f) ==
  /\ f \in [0..Len(seqs) -> Seq(C)] /\ f[0] = <<>>
  /\ \A i \in 1..Len(seqs) : f[i] = f[i - 1] \o seqs[i]

\* The recursion in Concat, over sequences of elements of C.
LEMMA ConcatIs ==
  ASSUME NEW C, NEW seqs \in Seq(Seq(C))
  PROVE  \E f : Parts(C, seqs, f) /\ Concat(seqs) = f[Len(seqs)]
<1>. DEFINE n == Len(seqs)
            step == [p \in (0..n) \X Seq(C) |-> IF p[1] = 0 THEN <<>> ELSE p[2] \o seqs[p[1]]]
            Eq(f) == f = [i \in 0..n |-> IF i = 0 THEN <<>> ELSE f[i - 1] \o seqs[i]]
<1>1. n \in Nat /\ <<>> \in Seq(C) /\ \A i \in 1..n, s \in Seq(C) : s \o seqs[i] \in Seq(C)
  OBVIOUS
<1>2. step \in [(0..n) \X Seq(C) -> Seq(C)]
  <2>1. \A p \in (0..n) \X Seq(C) : (p[1] = 0 \/ p[1] \in 1..n) /\ p[2] \in Seq(C)
    BY <1>1
  <2>. QED
    BY <1>1, <2>1
<1>3. PICK f : Recursive(Seq(C), <<>>, 0, n, step, f)
  <2>. HIDE DEF step, n
  <2>1. Steps(Seq(C), <<>>, 0, n, step)
    BY <1>1, <1>2 DEF Steps
  <2>. QED
    BY <2>1, Recursion
<1>4. f \in [0..n -> Seq(C)] /\ \A i \in 0..n : f[i] = IF i = 0 THEN <<>> ELSE step[<<i, f[i - 1]>>]
  BY <1>3 DEF Recursive
<1>5. ASSUME NEW i \in 1..n PROVE step[<<i, f[i - 1]>>] = f[i - 1] \o seqs[i]
  <2>1. i \in 0..n /\ i # 0 /\ i - 1 \in 0..n
    BY <1>1
  <2>2. <<i, f[i - 1]>> \in (0..n) \X Seq(C)
    BY <1>4, <2>1
  <2>. HIDE DEF n
  <2>. QED
    BY <2>1, <2>2
<1>. HIDE DEF step
<1>6. f[0] = <<>> /\ \A i \in 1..n : f[i] = f[i - 1] \o seqs[i]
  <2>1. 0 \in 0..n /\ \A i \in 1..n : i \in 0..n /\ i # 0
    BY <1>1
  <2>. QED
    BY <1>4, <1>5, <2>1
<1>7. Eq(f)
  <2>1. f = [i \in 0..n |-> f[i]] /\ \A i \in 0..n : i = 0 \/ i \in 1..n
    BY <1>1, <1>4
  <2>2. \A i \in 0..n : f[i] = IF i = 0 THEN <<>> ELSE f[i - 1] \o seqs[i]
    BY <1>6, <2>1
  <2>. QED
    BY <2>1, <2>2
<1>. DEFINE g == CHOOSE h : Eq(h)
<1>8. Eq(g)
  BY <1>7
<1>9. Concat(seqs) = g[n]
  BY DEF Concat
<1>. HIDE DEF g
<1>10. g[0] = <<>> /\ \A i \in 1..n : g[i] = g[i - 1] \o seqs[i]
  <2>1. \A i \in 0..n : g[i] = IF i = 0 THEN <<>> ELSE g[i - 1] \o seqs[i]
    BY <1>8
  <2>2. 0 \in 0..n /\ \A i \in 1..n : i \in 0..n /\ i # 0
    BY <1>1
  <2>. QED
    BY <2>1, <2>2
<1>11. 0..n \subseteq {i \in 0..n : g[i] = f[i]}
  <2>. DEFINE P == {i \in 0..n : g[i] = f[i]}
  <2>1. 0 \in P
    BY <1>1, <1>6, <1>10
  <2>2. ASSUME NEW k \in 1..n, k - 1 \in P PROVE k \in P
    <3>1. g[k - 1] = f[k - 1]
      BY <2>2
    <3>2. k \in 0..n
      BY <1>1
    <3>. HIDE DEF n
    <3>3. g[k] = g[k - 1] \o seqs[k] /\ f[k] = f[k - 1] \o seqs[k]
      BY <1>6, <1>10
    <3>. QED
      BY <3>1, <3>2, <3>3
  <2>. HIDE DEF P
  <2>3. 0 \in Nat /\ n \in Nat /\ 0 + 1 = 1
    BY <1>1
  <2>. HIDE DEF n
  <2>4. 0..n \subseteq P
    BY <2>1, <2>2, <2>3, Climb
  <2>. QED
    BY <2>4 DEF P
<1>12. n \in 0..n
  BY <1>1
<1>. HIDE DEF n
<1>13. Concat(seqs) = f[n]
  BY <1>9, <1>11, <1>12
<1>. QED
  BY <1>4, <1>6, <1>13 DEF Parts, n

\* Concat of two sequences one after the other.
LEMMA ConcatJoins ==
  ASSUME NEW C, NEW s \in Seq(Seq(C)), NEW t \in Seq(Seq(C))
  PROVE  Concat(s \o t) = Concat(s) \o Concat(t)
<1>1. PICK f : Parts(C, s, f) /\ Concat(s) = f[Len(s)]
  BY ConcatIs
<1>2. PICK g : Parts(C, t, g) /\ Concat(t) = g[Len(t)]
  BY ConcatIs
<1>3. s \o t \in Seq(Seq(C))
  OBVIOUS
<1>4. PICK h : Parts(C, s \o t, h) /\ Concat(s \o t) = h[Len(s \o t)]
  BY <1>3, ConcatIs
<1>. PICK m \in Nat, n \in Nat : m = Len(s) /\ n = Len(t)
  OBVIOUS
<1>5. /\ Len(s \o t) = m + n
      /\ \A i \in 1..m : (s \o t)[i] = s[i]
      /\ \A i \in 1..n : (s \o t)[m + i] = t[i]
  OBVIOUS
<1>6. /\ f \in [0..m -> Seq(C)] /\ f[0] = <<>>
      /\ \A i \in 1..m : f[i] = f[i - 1] \o s[i]
  BY <1>1 DEF Parts
<1>7. /\ g \in [0..n -> Seq(C)] /\ g[0] = <<>>
      /\ \A i \in 1..n : g[i] = g[i - 1] \o t[i]
  BY <1>2 DEF Parts
<1>8. /\ h \in [0..m + n -> Seq(C)] /\ h[0] = <<>>
      /\ \A i \in 1..m + n : h[i] = h[i - 1] \o (s \o t)[i]
  BY <1>4, <1>5 DEF Parts
<1>a. 0 \in Nat /\ 0 + 1 = 1 /\ m \in Nat /\ n \in Nat
  OBVIOUS
<1>b. \A a, b, c \in Seq(C) : (a \o b) \o c = a \o (b \o c)
  BY Joins
<1>9. h[m] = f[m]
  <2>. DEFINE P == {i \in 0..m : h[i] = f[i]}
  <2>1. 0 \in P
    BY <1>6, <1>8
  <2>2. ASSUME NEW k \in 1..m, k - 1 \in P PROVE k \in P
    <3>1. k \in 0..m /\ k \in 1..m + n /\ h[k - 1] = f[k - 1]
      BY <2>2
    <3>2. f[k] = f[k - 1] \o s[k]
      BY <1>6
    <3>3. h[k] = h[k - 1] \o s[k]
      BY <1>5, <1>8, <3>1
    <3>. QED
      BY <3>1, <3>2, <3>3
  <2>. HIDE DEF P
  <2>3. 0..m \subseteq P
    BY <1>a, <2>1, <2>2, Climb
  <2>. QED
    BY <2>3 DEF P
<1>10. h[m + n] = f[m] \o g[n]
  <2>. DEFINE P == {i \in 0..n : h[m + i] = f[m] \o g[i]}
  <2>a. m \in 0..m
    OBVIOUS
  <2>0. f[m] \in Seq(C) /\ \A i \in 0..n : g[i] \in Seq(C)
    <3>1. f[m] \in Seq(C)
      BY <1>6, <2>a
    <3>2. \A i \in 0..n : g[i] \in Seq(C)
      BY <1>7
    <3>. QED
      BY <3>1, <3>2
  <2>1. 0 \in P
    BY <1>7, <1>9, <2>0
  <2>2. ASSUME NEW k \in 1..n, k - 1 \in P PROVE k \in P
    <3>1. k \in 0..n /\ k - 1 \in 0..n /\ m + k \in 1..m + n /\ m + (k - 1) = (m + k) - 1
      OBVIOUS
    <3>2. h[m + (k - 1)] = f[m] \o g[k - 1]
      BY <2>2
    <3>3. g[k] = g[k - 1] \o t[k]
      BY <1>7
    <3>4. h[m + k] = h[(m + k) - 1] \o t[k]
      BY <1>5, <1>8, <3>1
    <3>5. h[m + k] = (f[m] \o g[k - 1]) \o t[k]
      BY <3>1, <3>2, <3>4
    <3>a. t[k] \in Seq(C)
      OBVIOUS
    <3>6. f[m] \in Seq(C) /\ g[k - 1] \in Seq(C) /\ t[k] \in Seq(C)
      BY <2>0, <3>1, <3>a
    <3>7. (f[m] \o g[k - 1]) \o t[k] = f[m] \o (g[k - 1] \o t[k])
      BY <1>b, <3>6
    <3>. QED
      BY <3>1, <3>3, <3>5, <3>7
  <2>. HIDE DEF P
  <2>b. \A k \in 0 + 1..n : k - 1 \in P => k \in P
    BY <1>a, <2>2
  <2>3. 0..n \subseteq P
    <3>1. 0 \in Nat /\ n \in Nat
      OBVIOUS
    <3>. QED
      BY <2>1, <2>b, <3>1, Climb
  <2>4. n \in P
    BY <2>3
  <2>. QED
    BY <2>4 DEF P
<1>. QED
  BY <1>1, <1>2, <1>4, <1>5, <1>9, <1>10

\* Of none, and of one.
LEMMA ConcatFew ==
  ASSUME NEW C, NEW s \in Seq(C)
  PROVE  Concat(<<>>) = <<>> /\ Concat(<<s>>) = s
<1>1. Concat(<<>>) = <<>>
  <2>1. <<>> \in Seq(Seq(C)) /\ Len(<<>>) = 0
    OBVIOUS
  <2>2. PICK f : Parts(C, <<>>, f) /\ Concat(<<>>) = f[Len(<<>>)]
    BY <2>1, ConcatIs
  <2>. QED
    BY <2>1, <2>2 DEF Parts
<1>2. Concat(<<s>>) = s
  <2>1. <<s>> \in Seq(Seq(C)) /\ Len(<<s>>) = 1 /\ <<s>>[1] = s
    OBVIOUS
  <2>2. PICK f : Parts(C, <<s>>, f) /\ Concat(<<s>>) = f[Len(<<s>>)]
    BY <2>1, ConcatIs
  <2>3. f[0] = <<>> /\ \A i \in 1..1 : f[i] = f[i - 1] \o <<s>>[i]
    BY <2>1, <2>2 DEF Parts
  <2>4. 1 \in 1..1 /\ 1 - 1 = 0
    OBVIOUS
  <2>5. f[1] = <<>> \o s
    BY <2>1, <2>3, <2>4
  <2>. QED
    BY <2>1, <2>2, <2>5
<1>. QED
  BY <1>1, <1>2

\* Concatenation as a relation.
IsConcat(p, a, c) == p = a \o c

\* The elements of a sequence that is joined of two.
LEMMA ConcatAt ==
  ASSUME NEW S, NEW a \in Seq(S), NEW c \in Seq(S), NEW p, IsConcat(p, a, c)
  PROVE  /\ p \in Seq(S) /\ Len(p) = Len(a) + Len(c)
         /\ \A i \in 1..Len(a) : p[i] = a[i]
         /\ \A i \in 1..Len(c) : p[Len(a) + i] = c[i]
  BY DEF IsConcat

LEMMA CutConcat ==
  ASSUME NEW S, NEW s \in Seq(S), NEW k \in Nat, k <= Len(s)
  PROVE  IsConcat(s, Upto(s, k), From(s, k + 1))
  BY CutJoins DEF IsConcat

-------------------------------------------------------------------------------
\* A sequence with a sequence in the place of each element.
Spread(fn, u)     == Concat([i \in 1..Len(u) |-> fn[u[i]]])
Spreads(fn, C, D) == fn \in [C -> Seq(D)]

\* It is a sequence,
LEMMA SpreadIs ==
  ASSUME NEW C, NEW D, NEW fn, Spreads(fn, C, D), NEW u \in Seq(C)
  PROVE  /\ [i \in 1..Len(u) |-> fn[u[i]]] \in Seq(Seq(D))
         /\ Spread(fn, u) \in Seq(D)
<1>. USE DEF Spreads
<1>. DEFINE s == [i \in 1..Len(u) |-> fn[u[i]]]
<1>1. s \in Seq(Seq(D)) /\ Len(s) \in 0..Len(s)
  OBVIOUS
<1>2. Concat(s) \in Seq(D)
  <2>. HIDE DEF s
  <2>1. PICK f : Parts(D, s, f) /\ Concat(s) = f[Len(s)]
    BY <1>1, ConcatIs
  <2>2. f \in [0..Len(s) -> Seq(D)]
    BY <2>1 DEF Parts
  <2>. QED
    BY <1>1, <2>1, <2>2
<1>. QED
  BY <1>1, <1>2 DEF Spread

\* of two sequences it is the one after the other,
LEMMA SpreadJoins ==
  ASSUME NEW C, NEW D, NEW fn, Spreads(fn, C, D), NEW u \in Seq(C), NEW v \in Seq(C)
  PROVE  Spread(fn, u \o v) = Spread(fn, u) \o Spread(fn, v)
<1>. USE DEF Spreads
<1>. DEFINE s == [i \in 1..Len(u) |-> fn[u[i]]]  t == [i \in 1..Len(v) |-> fn[v[i]]]
            r == [i \in 1..Len(u \o v) |-> fn[(u \o v)[i]]]
<1>1. u \o v \in Seq(C)
  OBVIOUS
<1>2. s \in Seq(Seq(D)) /\ t \in Seq(Seq(D)) /\ r \in Seq(Seq(D))
  BY <1>1, SpreadIs
<1>3. r = s \o t
  OBVIOUS
<1>. HIDE DEF r, s, t
<1>4. Concat(r) = Concat(s) \o Concat(t)
  BY <1>2, <1>3, ConcatJoins
<1>. QED
  BY <1>4 DEF Spread, r, s, t

\* and of one element the sequence in its place.
LEMMA SpreadFew ==
  ASSUME NEW C, NEW D, NEW fn, Spreads(fn, C, D), NEW c \in C
  PROVE  Spread(fn, <<>>) = <<>> /\ Spread(fn, <<c>>) = fn[c]
<1>. USE DEF Spreads
<1>1. [i \in 1..Len(<<>>) |-> fn[<<>>[i]]] = <<>>
  OBVIOUS
<1>2. [i \in 1..Len(<<c>>) |-> fn[<<c>>[i]]] = <<fn[c]>>
  OBVIOUS
<1>3. fn[c] \in Seq(D)
  OBVIOUS
<1>. QED
  BY <1>1, <1>2, <1>3, ConcatFew DEF Spread

\* Nothing changes, or nothing is left.
LEMMA SpreadSame ==
  ASSUME NEW C, NEW D, NEW fn, Spreads(fn, C, D), NEW u \in Seq(C), u \in Seq(D),
         \A i \in 1..Len(u) : fn[u[i]] = <<u[i]>>
  PROVE  Spread(fn, u) = u
<1>. USE DEF Spreads
<1>. PICK n \in Nat : n = Len(u)
  OBVIOUS
<1>. DEFINE s == [i \in 1..n |-> fn[u[i]]]
<1>1. s \in Seq(Seq(D)) /\ Len(s) = n /\ \A i \in 1..n : s[i] = <<u[i]>>
  OBVIOUS
<1>2. Spread(fn, u) = Concat(s)
  BY DEF Spread
<1>. HIDE DEF s
<1>3. PICK f : Parts(D, s, f) /\ Concat(s) = f[n]
  BY <1>1, ConcatIs
<1>4. f[0] = <<>> /\ \A i \in 1..n : f[i] = f[i - 1] \o <<u[i]>>
  BY <1>1, <1>3 DEF Parts
<1>. DEFINE P == {k \in 0..n : f[k] = Upto(u, k)}
<1>5. 0 \in P
  <2>1. Upto(u, 0) = <<>>
    BY DEF Upto
  <2>. QED
    BY <1>4, <2>1
<1>6. ASSUME NEW k \in 0+1..n, k - 1 \in P PROVE k \in P
  <2>1. k \in 1..n /\ k \in 0..n /\ k - 1 \in Nat /\ (k - 1) + 1 = k /\ k - 1 <= k /\ k <= n /\ k \in Nat
    OBVIOUS
  <2>2. f[k] = Upto(u, k - 1) \o <<u[k]>>
    BY <1>4, <1>6, <2>1
  <2>3. Upto(u, k) = Upto(u, k - 1) \o <<u[k]>>
    BY <2>1, UptoNext
  <2>. QED
    BY <2>1, <2>2, <2>3
<1>. HIDE DEF P
<1>7. 0 \in Nat /\ n \in Nat
  OBVIOUS
<1>8. n \in P
  <2>1. \A k \in 0+1..n : k - 1 \in P => k \in P
    BY <1>6
  <2>2. 0..n \subseteq P
    BY <1>5, <1>7, <2>1, Climb
  <2>. QED
    BY <1>7, <2>2
<1>9. Upto(u, n) = u
  BY DEF Upto
<1>. QED
  BY <1>2, <1>3, <1>8, <1>9 DEF P

\* Where every element has the empty sequence in its place, nothing is left.
LEMMA SpreadNone ==
  ASSUME NEW C, NEW D, NEW fn, Spreads(fn, C, D), NEW u \in Seq(C), \A i \in 1..Len(u) : fn[u[i]] = <<>>
  PROVE  Spread(fn, u) = <<>>
<1>. USE DEF Spreads
<1>. PICK n \in Nat : n = Len(u)
  OBVIOUS
<1>. DEFINE s == [i \in 1..n |-> fn[u[i]]]
<1>1. s \in Seq(Seq(D)) /\ Len(s) = n /\ \A i \in 1..n : s[i] = <<>>
  OBVIOUS
<1>2. Spread(fn, u) = Concat(s)
  BY DEF Spread
<1>. HIDE DEF s
<1>3. PICK f : Parts(D, s, f) /\ Concat(s) = f[n]
  BY <1>1, ConcatIs
<1>4. f[0] = <<>> /\ \A i \in 1..n : f[i] = f[i - 1] \o <<>>
  BY <1>1, <1>3 DEF Parts
<1>. DEFINE P == {k \in 0..n : f[k] = <<>>}
<1>5. 0 \in P
  BY <1>4
<1>6. ASSUME NEW k \in 0+1..n, k - 1 \in P PROVE k \in P
  <2>1. k \in 1..n /\ k \in 0..n
    OBVIOUS
  <2>. QED
    BY <1>4, <1>6, <2>1
<1>. HIDE DEF P
<1>7. 0 \in Nat /\ n \in Nat
  OBVIOUS
<1>8. n \in P
  <2>1. \A k \in 0+1..n : k - 1 \in P => k \in P
    BY <1>6
  <2>2. 0..n \subseteq P
    BY <1>5, <1>7, <2>1, Climb
  <2>. QED
    BY <1>7, <2>2
<1>. QED
  BY <1>2, <1>3, <1>8 DEF P

-------------------------------------------------------------------------------
\* The bytes of a text with marks.
Letters == Chars \cup Marks
Enc(u)  == Each(Encode, u)
EncOp   == [c \in Letters |-> Encode(c)]

LEMMA EncOpTyped ==
  Spreads(EncOp, Letters, Bytes) /\ \A c \in Letters : EncOp[c] = Encode(c)
<1>1. \A S : \A a, b \in S : <<a, b>> \in Seq(S) /\ <<a>> \in Seq(S)
  OBVIOUS
<1>2. {"w1", "w2"} \subseteq Bytes /\ \A c \in Letters : c # "w" => c \in Bytes
  BY DEF Bytes, Letters, Chars, Marks
<1>3. ASSUME NEW c \in Letters PROVE Encode(c) \in Seq(Bytes)
  <2>1. CASE c = "w"
    BY <1>1, <1>2, <2>1 DEF Encode
  <2>2. CASE c # "w"
    BY <1>1, <1>2, <2>2 DEF Encode
  <2>. QED
    BY <2>1, <2>2
<1>. QED
  BY <1>3 DEF EncOp, Spreads

\* Enc is Each(Encode, ...), and so joins what it encodes.
LEMMA EncIs ==
  ASSUME NEW u \in Seq(Letters)
  PROVE  Enc(u) = Spread(EncOp, u) /\ Enc(u) \in Seq(Bytes)
<1>1. \A i \in 1..Len(u) : u[i] \in Letters
  OBVIOUS
<1>2. \A i \in 1..Len(u) : Encode(u[i]) = EncOp[u[i]]
  BY <1>1, EncOpTyped
<1>3. [i \in 1..Len(u) |-> Encode(u[i])] = [i \in 1..Len(u) |-> EncOp[u[i]]]
  BY <1>2
<1>4. Enc(u) = Spread(EncOp, u)
  BY <1>3 DEF Enc, Each, Spread
<1>5. Spread(EncOp, u) \in Seq(Bytes)
  BY EncOpTyped, SpreadIs
<1>. QED
  BY <1>4, <1>5

LEMMA EncJoins ==
  ASSUME NEW u \in Seq(Letters), NEW v \in Seq(Letters)
  PROVE  Enc(u \o v) = Enc(u) \o Enc(v) /\ u \o v \in Seq(Letters)
<1>1. u \o v \in Seq(Letters)
  OBVIOUS
<1>2. Spread(EncOp, u \o v) = Spread(EncOp, u) \o Spread(EncOp, v)
  BY EncOpTyped, SpreadJoins
<1>. QED
  BY <1>1, <1>2, EncIs

LEMMA EncFew ==
  ASSUME NEW c \in Letters
  PROVE  Enc(<<>>) = <<>> /\ Enc(<<c>>) = Encode(c)
<1>1. <<>> \in Seq(Letters) /\ <<c>> \in Seq(Letters)
  OBVIOUS
<1>2. Spread(EncOp, <<>>) = <<>> /\ Spread(EncOp, <<c>>) = EncOp[c]
  BY EncOpTyped, SpreadFew
<1>. QED
  BY <1>1, <1>2, EncIs, EncOpTyped

\* Marks are bytes as they are.
LEMMA EncMarks ==
  ASSUME NEW u \in Seq(Marks)
  PROVE  Enc(u) = u /\ u \in Seq(Letters)
<1>1. Marks \subseteq Letters /\ Marks \subseteq Bytes /\ "w" \notin Marks
  BY DEF Letters, Bytes, Marks
<1>2. u \in Seq(Letters) /\ u \in Seq(Bytes)
  <2>. \A A, B : A \subseteq B => Seq(A) \subseteq Seq(B)
    OBVIOUS
  <2>. QED
    BY <1>1
<1>3. \A i \in 1..Len(u) : u[i] \in Marks
  OBVIOUS
<1>4. \A i \in 1..Len(u) : EncOp[u[i]] = <<u[i]>>
  BY <1>1, <1>3, EncOpTyped DEF Encode
<1>5. Spread(EncOp, u) = u
  BY <1>2, <1>4, EncOpTyped, SpreadSame
<1>. QED
  BY <1>2, <1>5, EncIs

\* The bytes of the characters before and after one of them.
LEMMA EncAround ==
  ASSUME NEW u \in Seq(Letters), NEW k \in 1..Len(u)
  PROVE  /\ Enc(Upto(u, k)) = Enc(Upto(u, k - 1)) \o Encode(u[k])
         /\ Enc(u) = Enc(Upto(u, k)) \o Enc(From(u, k + 1))
         /\ Enc(Upto(u, k)) \in Seq(Bytes) /\ Enc(Upto(u, k - 1)) \in Seq(Bytes)
         /\ Enc(From(u, k + 1)) \in Seq(Bytes)
         /\ u[k] \in Letters
<1>1. /\ Upto(u, k) \in Seq(Letters) /\ Upto(u, k - 1) \in Seq(Letters) /\ From(u, k + 1) \in Seq(Letters)
      /\ u[k] \in Letters /\ <<u[k]>> \in Seq(Letters)
  <2>1. u[k] \in Letters
    OBVIOUS
  <2>2. Upto(u, k) \in Seq(Letters) /\ Upto(u, k - 1) \in Seq(Letters) /\ From(u, k + 1) \in Seq(Letters)
    BY DEF Upto, From
  <2>3. \A S : \A a \in S : <<a>> \in Seq(S)
    OBVIOUS
  <2>. QED
    BY <2>1, <2>2, <2>3
<1>2. Upto(u, k) = Upto(u, k - 1) \o <<u[k]>>
  BY UptoNext
<1>3. u = Upto(u, k) \o From(u, k + 1)
  <2>1. k \in Nat /\ k <= Len(u)
    OBVIOUS
  <2>. QED
    BY <2>1, CutJoins
<1>4. Enc(Upto(u, k - 1) \o <<u[k]>>) = Enc(Upto(u, k - 1)) \o Encode(u[k])
  <2>1. Enc(Upto(u, k - 1) \o <<u[k]>>) = Enc(Upto(u, k - 1)) \o Enc(<<u[k]>>)
    BY <1>1, EncJoins
  <2>2. Enc(<<u[k]>>) = Encode(u[k])
    BY <1>1, EncFew
  <2>. QED
    BY <2>1, <2>2
<1>5. Enc(Upto(u, k) \o From(u, k + 1)) = Enc(Upto(u, k)) \o Enc(From(u, k + 1))
  BY <1>1, EncJoins
<1>6. /\ Enc(Upto(u, k)) \in Seq(Bytes) /\ Enc(Upto(u, k - 1)) \in Seq(Bytes)
      /\ Enc(From(u, k + 1)) \in Seq(Bytes)
  BY <1>1, EncIs
<1>. QED
  BY <1>1, <1>2, <1>3, <1>4, <1>5, <1>6

\* The bytes after a character are decoded as they are written.
LEMMA Decoded ==
  ASSUME NEW u \in Seq(Letters)
  PROVE  Decode(Enc(u)) = u
<1>. DEFINE bs == Enc(u)  m == Len(bs)
            one(i) == CASE bs[i] = "w1" -> IF i < m THEN <<"w">> ELSE <<Lost>>
                        [] bs[i] = "w2" -> IF i > 1 THEN <<>> ELSE <<Lost>>
                        [] OTHER        -> <<bs[i]>>
            r == [i \in 1..m |-> one(i)]
            All == Bytes \cup {"w", Lost}
            at_(k) == Len(Enc(Upto(u, k)))
<1>0. PICK n \in Nat : n = Len(u)
  OBVIOUS
<1>1. bs \in Seq(Bytes) /\ m \in Nat /\ \A i \in 1..m : bs[i] \in Bytes
  <2>1. bs \in Seq(Bytes)
    BY EncIs
  <2>. HIDE DEF bs
  <2>. QED
    BY <2>1
<1>2. Decode(bs) = Concat(r)
  BY DEF Decode
<1>3. r \in Seq(Seq(All)) /\ Len(r) = m /\ \A i \in 1..m : r[i] = one(i)
  <2>1. \A S : \A a \in S : <<a>> \in Seq(S) /\ <<>> \in Seq(S)
    OBVIOUS
  <2>2. Lost \in All /\ "w" \in All /\ \A i \in 1..m : bs[i] \in All
    BY <1>1
  <2>. HIDE DEF All, bs, m
  <2>3. ASSUME NEW i \in 1..m PROVE one(i) \in Seq(All)
    BY <2>1, <2>2
  <2>. HIDE DEF one
  <2>. QED
    BY <1>1, <2>3
<1>. HIDE DEF r, All
<1>4. PICK h : Parts(All, r, h) /\ Concat(r) = h[m]
  BY <1>3, ConcatIs
<1>5. h[0] = <<>> /\ \A i \in 1..m : h[i] = h[i - 1] \o one(i)
  BY <1>3, <1>4 DEF Parts
<1>. DEFINE P == {k \in 0..n : h[at_(k)] = Upto(u, k)}
<1>6. 0 \in P
  <2>1. Upto(u, 0) = <<>>
    BY DEF Upto
  <2>2. Enc(<<>>) = <<>>
    <3>1. "x" \in Letters
      BY DEF Letters, Chars
    <3>. QED
      BY <3>1, EncFew
  <2>3. at_(0) = 0
    BY <2>1, <2>2
  <2>. QED
    BY <1>0, <1>5, <2>1, <2>3
<1>7. ASSUME NEW k \in 0+1..n, k - 1 \in P PROVE k \in P
  <2>1. k \in 1..n /\ k \in 0..n /\ k \in 1..Len(u)
    BY <1>0
  <2>. DEFINE E == Enc(Upto(u, k - 1))  F == Enc(Upto(u, k))  R == Enc(From(u, k + 1))
  <2>2. /\ F = E \o Encode(u[k]) /\ bs = F \o R
        /\ F \in Seq(Bytes) /\ E \in Seq(Bytes) /\ R \in Seq(Bytes)
        /\ u[k] \in Letters
    BY <2>1, EncAround
  <2>3. Upto(u, k) = Upto(u, k - 1) \o <<u[k]>>
    BY <2>1, UptoNext
  <2>4. h[Len(E)] = Upto(u, k - 1)
    BY <1>7
  <2>5. Upto(u, k - 1) \in Seq(Letters) /\ "w" \in Letters
    BY <2>1 DEF Upto, Letters, Chars
  <2>. HIDE DEF E, F, R, bs
  <2>6. h[Len(F)] = h[Len(E)] \o <<u[k]>>
    <3>0. PICK l \in Nat : l = Len(E)
      BY <2>2
    <3>1. CASE u[k] = "w"
      <4>1. F = E \o <<"w1", "w2">>
        BY <2>2, <3>1 DEF Encode
      <4>2. Len(F) = l + 2 /\ F[l + 1] = "w1" /\ F[l + 2] = "w2"
        BY <2>2, <3>0, <4>1
      <4>3. m >= l + 2 /\ bs[l + 1] = F[l + 1] /\ bs[l + 2] = F[l + 2]
        BY <2>2, <4>2
      <4>4. l + 1 \in 1..m /\ l + 2 \in 1..m /\ (l + 1) - 1 = l /\ (l + 2) - 1 = l + 1
        BY <1>1, <4>3
      <4>5. one(l + 1) = <<"w">>
        <5>1. l + 1 < m
          BY <1>1, <4>3
        <5>2. bs[l + 1] = "w1"
          BY <4>2, <4>3
        <5>. HIDE DEF m
        <5>. QED
          BY <5>1, <5>2
      <4>6. one(l + 2) = <<>>
        <5>1. l + 2 > 1
          OBVIOUS
        <5>2. bs[l + 2] = "w2" /\ bs[l + 2] # "w1"
          BY <4>2, <4>3
        <5>. HIDE DEF m
        <5>. QED
          BY <5>1, <5>2
      <4>. HIDE DEF one, m
      <4>7. h[l + 1] = h[l] \o <<"w">> /\ h[l + 2] = h[l + 1] \o <<>>
        BY <1>5, <4>4, <4>5, <4>6
      <4>8. h[l] \o <<"w">> \in Seq(Letters)
        BY <2>4, <2>5, <3>0
      <4>9. h[l + 2] = h[l] \o <<"w">>
        BY <4>7, <4>8
      <4>. QED
        BY <3>0, <3>1, <4>2, <4>9
    <3>2. CASE u[k] # "w"
      <4>1. F = E \o <<u[k]>>
        BY <2>2, <3>2 DEF Encode
      <4>0. u[k] # "w1" /\ u[k] # "w2" /\ u[k] \in Bytes
        BY <2>2, <3>2 DEF Letters, Chars, Marks, Bytes
      <4>2. Len(F) = l + 1 /\ F[l + 1] = u[k]
        BY <2>2, <3>0, <4>0, <4>1
      <4>3. m >= l + 1 /\ bs[l + 1] = F[l + 1]
        BY <2>2, <4>2
      <4>4. l + 1 \in 1..m /\ (l + 1) - 1 = l
        BY <1>1, <4>3
      <4>5. one(l + 1) = <<u[k]>>
        <5>1. bs[l + 1] = u[k]
          BY <4>2, <4>3
        <5>. HIDE DEF m
        <5>. QED
          BY <4>0, <5>1
      <4>. HIDE DEF one, m
      <4>6. h[l + 1] = h[l] \o <<u[k]>>
        BY <1>5, <4>4, <4>5
      <4>. QED
        BY <3>0, <4>2, <4>6
    <3>. QED
      BY <3>1, <3>2
  <2>7. h[Len(F)] = Upto(u, k)
    BY <2>3, <2>4, <2>6
  <2>. QED
    BY <2>1, <2>7 DEF F
<1>8. n \in P
  <2>. HIDE DEF P
  <2>1. \A k \in 0+1..n : k - 1 \in P => k \in P
    BY <1>7
  <2>2. 0 \in Nat /\ n \in Nat
    OBVIOUS
  <2>3. 0..n \subseteq P
    BY <1>6, <2>1, <2>2, Climb
  <2>. QED
    BY <2>2, <2>3
<1>9. Upto(u, n) = u
  BY <1>0 DEF Upto
<1>10. h[m] = u
  <2>1. at_(n) = m
    BY <1>9
  <2>2. h[at_(n)] = Upto(u, n)
    BY <1>8
  <2>. QED
    BY <1>9, <2>1, <2>2
<1>. QED
  BY <1>2, <1>4, <1>10

\* A read that does not end inside a character ends between two.
LEMMA ReadSplits ==
  ASSUME NEW u \in Seq(Letters), NEW n \in 1..Len(Enc(u)), Enc(u)[n] # "w1"
  PROVE  \E k \in 0..Len(u) : /\ Upto(Enc(u), n) = Enc(Upto(u, k))
                              /\ From(Enc(u), n + 1) = Enc(From(u, k + 1))
<1>. DEFINE bs == Enc(u)  at_(k) == Len(Enc(Upto(u, k)))
            T == {k \in 0..Len(u) : at_(k) >= n}
<1>0. PICK z \in Nat : z = Len(u)
  OBVIOUS
<1>1. bs \in Seq(Bytes) /\ Len(bs) \in Nat /\ n \in Nat /\ n >= 1
  <2>1. bs \in Seq(Bytes)
    BY EncIs
  <2>. HIDE DEF bs
  <2>2. Len(bs) \in Nat /\ n \in 1..Len(bs)
    BY <2>1 DEF bs
  <2>. QED
    BY <2>1, <2>2
<1>2. Upto(u, z) = u /\ Upto(u, 0) = <<>>
  BY <1>0 DEF Upto
<1>3. z \in T
  <2>1. at_(z) = Len(bs)
    BY <1>2
  <2>. QED
    BY <1>0, <1>1, <2>1
<1>4. PICK k \in T : \A j \in T : k <= j
  <2>1. T \in SUBSET Nat
    OBVIOUS
  <2>. HIDE DEF T
  <2>. QED
    BY <1>3, <2>1, Smallest
<1>5. at_(0) = 0
  <2>1. Enc(<<>>) = <<>>
    <3>1. "x" \in Letters
      BY DEF Letters, Chars
    <3>. QED
      BY <3>1, EncFew
  <2>. QED
    BY <1>2, <2>1
<1>6. k # 0
  BY <1>1, <1>4, <1>5
<1>7. k \in 1..z /\ k \in 1..Len(u) /\ k - 1 \in 0..z /\ k \in 0..Len(u)
  BY <1>0, <1>4, <1>6
<1>. DEFINE E == Enc(Upto(u, k - 1))  F == Enc(Upto(u, k))  R == Enc(From(u, k + 1))
<1>8. /\ F = E \o Encode(u[k]) /\ bs = F \o R
      /\ F \in Seq(Bytes) /\ E \in Seq(Bytes) /\ R \in Seq(Bytes)
      /\ u[k] \in Letters
  BY <1>7, EncAround
<1>9. Len(F) >= n
  BY <1>4
<1>10. Len(E) < n
  <2>1. k - 1 \notin T
    BY <1>4, <1>7
  <2>2. Len(E) \in Nat
    BY <1>8
  <2>. QED
    BY <1>0, <1>1, <1>7, <2>1, <2>2
<1>. HIDE DEF T, E, F, R, bs
<1>11. Len(F) = n
  <2>0. PICK l \in Nat : l = Len(E)
    BY <1>8
  <2>1. CASE u[k] = "w"
    <3>1. F = E \o <<"w1", "w2">>
      BY <1>8, <2>1 DEF Encode
    <3>2. Len(F) = l + 2 /\ F[l + 1] = "w1"
      BY <1>8, <2>0, <3>1
    <3>3. bs[l + 1] = "w1"
      BY <1>8, <3>2
    <3>4. n # l + 1
      BY <3>3 DEF bs
    <3>. QED
      BY <1>1, <1>9, <1>10, <2>0, <3>2, <3>4
  <2>2. CASE u[k] # "w"
    <3>1. F = E \o <<u[k]>>
      BY <1>8, <2>2 DEF Encode
    <3>2. Len(F) = l + 1
      BY <1>8, <2>0, <3>1
    <3>. QED
      BY <1>1, <1>9, <1>10, <2>0, <3>2
  <2>. QED
    BY <2>1, <2>2
<1>12. Upto(bs, n) = F /\ From(bs, n + 1) = R
  BY <1>8, <1>11 DEF Upto, From
<1>. QED
  BY <1>7, <1>12 DEF bs, F, R

-------------------------------------------------------------------------------
\* A sequence without some elements.
KeepOp(C, S) == [c \in C |-> IF c \in S THEN <<>> ELSE <<c>>]

\* As a Spread.
LEMMA WithoutIs ==
  ASSUME NEW C, NEW S, NEW u \in Seq(C)
  PROVE  /\ Without(u, S) = Spread(KeepOp(C, S), u) /\ Without(u, S) \in Seq(C)
         /\ Spreads(KeepOp(C, S), C, C)
         /\ \A c \in C : KeepOp(C, S)[c] = IF c \in S THEN <<>> ELSE <<c>>
<1>. DEFINE fn == KeepOp(C, S)  keep(c) == IF c \in S THEN <<>> ELSE <<c>>
<1>1. fn \in [C -> Seq(C)] /\ \A c \in C : fn[c] = keep(c)
  BY DEF KeepOp
<1>2. \A i \in 1..Len(u) : u[i] \in C
  OBVIOUS
<1>3. Without(u, S) = Concat([i \in 1..Len(u) |-> keep(u[i])])
  BY DEF Without, Each
<1>. HIDE DEF fn, keep
<1>4. [i \in 1..Len(u) |-> keep(u[i])] = [i \in 1..Len(u) |-> fn[u[i]]]
  BY <1>1, <1>2
<1>5. Without(u, S) = Spread(fn, u)
  BY <1>3, <1>4 DEF Spread
<1>a. Spreads(fn, C, C)
  BY <1>1 DEF Spreads
<1>6. Spread(fn, u) \in Seq(C)
  BY <1>a, SpreadIs
<1>. QED
  BY <1>1, <1>a, <1>5, <1>6 DEF fn, keep

\* What is taken out of two sequences is taken out of each.
LEMMA WithoutJoins ==
  ASSUME NEW C, NEW S, NEW u \in Seq(C), NEW v \in Seq(C)
  PROVE  Without(u \o v, S) = Without(u, S) \o Without(v, S)
<1>1. u \o v \in Seq(C)
  OBVIOUS
<1>2. PICK fn : fn = KeepOp(C, S)
  OBVIOUS
<1>3. Spreads(fn, C, C)
  BY <1>2, WithoutIs
<1>4. Spread(fn, u \o v) = Spread(fn, u) \o Spread(fn, v)
  BY <1>3, SpreadJoins
<1>5. Without(u, S) = Spread(fn, u) /\ Without(v, S) = Spread(fn, v)
  BY <1>2, WithoutIs
<1>6. Without(u \o v, S) = Spread(fn, u \o v)
  <2>1. PICK w \in Seq(C) : w = u \o v
    BY <1>1
  <2>2. Without(w, S) = Spread(KeepOp(C, S), w)
    BY WithoutIs
  <2>. QED
    BY <1>2, <2>1, <2>2
<1>. QED
  BY <1>4, <1>5, <1>6

\* Nothing is taken out of a text without those elements, and all of one that has no
\* others.
LEMMA WithoutSame ==
  ASSUME NEW C, NEW S, NEW u \in Seq(C), \A i \in 1..Len(u) : u[i] \notin S
  PROVE  Without(u, S) = u
<1>1. Spreads(KeepOp(C, S), C, C) /\ Without(u, S) = Spread(KeepOp(C, S), u)
  BY WithoutIs
<1>2. \A i \in 1..Len(u) : KeepOp(C, S)[u[i]] = <<u[i]>>
  <2>1. \A i \in 1..Len(u) : u[i] \in C
    OBVIOUS
  <2>. QED
    BY <2>1 DEF KeepOp
<1>3. Spread(KeepOp(C, S), u) = u
  BY <1>1, <1>2, SpreadSame
<1>. QED
  BY <1>1, <1>3

LEMMA WithoutNone ==
  ASSUME NEW C, NEW S, NEW u \in Seq(C), \A i \in 1..Len(u) : u[i] \in S
  PROVE  Without(u, S) = <<>>
<1>1. Spreads(KeepOp(C, S), C, C) /\ Without(u, S) = Spread(KeepOp(C, S), u)
  BY WithoutIs
<1>2. \A i \in 1..Len(u) : KeepOp(C, S)[u[i]] = <<>>
  <2>1. \A i \in 1..Len(u) : u[i] \in C
    OBVIOUS
  <2>. QED
    BY <2>1, WithoutIs
<1>3. Spread(KeepOp(C, S), u) = <<>>
  BY <1>1, <1>2, SpreadNone
<1>. QED
  BY <1>1, <1>3

-------------------------------------------------------------------------------
\* A frame: what stands before its line ends.
Trailer(last)   == IF last THEN <<"stop", "}">> ELSE <<"}">>
Inner(s, last) == <<"{">> \o s \o Trailer(last)

LEMMA CharsAre == /\ Chars \subseteq Letters /\ Marks \subseteq Letters /\ Chars \cap Marks = {}
                  /\ Seq(Chars) \subseteq Seq(Letters) /\ Seq(Marks) \subseteq Seq(Letters)
<1>1. Chars \subseteq Letters /\ Marks \subseteq Letters /\ Chars \cap Marks = {}
  BY DEF Letters, Chars, Marks
<1>2. \A A, B : A \subseteq B => Seq(A) \subseteq Seq(B)
  OBVIOUS
<1>. QED
  BY <1>1, <1>2

\* The end of a frame: its bracket, perhaps after the finish_reason.
LEMMA TailIs ==
  ASSUME NEW M, NEW z \in M, NEW h \in M, h # z, NEW t, t = <<z>> \/ t = <<h, z>>
  PROVE  /\ t \in Seq(M) /\ Len(t) \in {1, 2} /\ t[Len(t)] = z
         /\ \A i \in 1..Len(t) : i < Len(t) => t[i] = h
         /\ (\E i \in 1..Len(t) : t[i] = h) <=> t = <<h, z>>
         /\ \A i \in 1..Len(t) : t[i] \in {h, z}
<1>1. CASE t = <<z>>
  BY <1>1
<1>2. CASE t = <<h, z>>
  <2>1. Len(t) = 2 /\ t[1] = h /\ t[2] = z /\ t \in Seq(M)
    BY <1>2
  <2>2. \A i \in 1..2 : i = 1 \/ i = 2
    OBVIOUS
  <2>3. 1 \in 1..Len(t)
    BY <2>1
  <2>. QED
    BY <1>2, <2>1, <2>2, <2>3
<1>. QED
  BY <1>1, <1>2

LEMMA Three ==
  ASSUME NEW S, NEW a \in S, NEW s \in Seq(S), NEW t \in Seq(S), NEW b, b = <<a>> \o s \o t
  PROVE  /\ b \in Seq(S) /\ Len(b) = 1 + Len(s) + Len(t) /\ b[1] = a
         /\ \A i \in 1..Len(s) : b[1 + i] = s[i]
         /\ \A i \in 1..Len(t) : b[1 + Len(s) + i] = t[i]
OBVIOUS

\* The shape of a frame, with any marks.
Framed(L, C, M, N, a, z, h, last, s, t, b) ==
  /\ L = C \cup M /\ C \cap M = {} /\ N \subseteq M /\ a \in M \ N /\ z \in M \ N /\ h \in M \ N
  /\ h # z /\ a # z /\ a # h
  /\ s \in Seq(C) /\ t = (IF last THEN <<h, z>> ELSE <<z>>) /\ last \in BOOLEAN /\ b = <<a>> \o s \o t

Shaped(L, N, a, z, h, last, b) ==
  /\ b \in Seq(L) /\ Len(b) \in Nat /\ Len(b) >= 2 /\ b[1] = a /\ b[Len(b)] = z
  /\ \A i \in 1..Len(b) : b[i] \notin N /\ (i < Len(b) => b[i] # z)
  /\ (\E i \in 1..Len(b) : b[i] = h) <=> last

\* So every frame begins with a, ends with z, and has neither line end in it.
LEMMA Shape ==
  ASSUME NEW L, NEW C, NEW M, NEW N, NEW a, NEW z, NEW h, NEW last, NEW s, NEW t, NEW b,
         Framed(L, C, M, N, a, z, h, last, s, t, b)
  PROVE  Shaped(L, N, a, z, h, last, b)
<1>. USE DEF Framed
<1>0. (t = <<z>> \/ t = <<h, z>>) /\ (t = <<h, z>> <=> last)
  <2>1. <<z>> # <<h, z>>
    OBVIOUS
  <2>. QED
    BY <2>1
<1>1. /\ t \in Seq(M) /\ Len(t) \in {1, 2} /\ t[Len(t)] = z
      /\ \A i \in 1..Len(t) : i < Len(t) => t[i] = h
      /\ (\E i \in 1..Len(t) : t[i] = h) <=> t = <<h, z>>
      /\ \A i \in 1..Len(t) : t[i] \in {h, z}
  <2>1. z \in M /\ h \in M /\ h # z
    OBVIOUS
  <2>. HIDE DEF Framed
  <2>. QED
    BY <1>0, <2>1, TailIs
<1>3. s \in Seq(L) /\ t \in Seq(L) /\ a \in L
  <2>1. \A A, B : A \subseteq B => Seq(A) \subseteq Seq(B)
    OBVIOUS
  <2>. QED
    BY <1>1, <2>1
<1>4. /\ b \in Seq(L) /\ Len(b) = 1 + Len(s) + Len(t) /\ b[1] = a
      /\ \A i \in 1..Len(s) : b[1 + i] = s[i]
      /\ \A i \in 1..Len(t) : b[1 + Len(s) + i] = t[i]
  BY <1>3, Three
<1>5. PICK m \in Nat, n \in Nat : m = Len(s) /\ n = Len(t)
  BY <1>1
<1>6. /\ Len(b) = 1 + m + n
      /\ \A i \in 1..m : b[1 + i] = s[i] /\ s[i] \in C
      /\ \A i \in 1..n : b[1 + m + i] = t[i]
  BY <1>4, <1>5
<1>7. n \in {1, 2} /\ n \in 1..n
  BY <1>1, <1>5
<1>8. b[1 + m + n] = z
  BY <1>1, <1>5, <1>6, <1>7
<1>9. \A i \in 1..1 + m + n :
        \/ i = 1 
        \/ \E j \in 1..m : i = 1 + j
        \/ \E j \in 1..n : i = 1 + m + j
  <2>. TAKE i \in 1..1 + m + n
  <2>1. CASE i \in 2..1 + m
    <3>1. i - 1 \in 1..m /\ i = 1 + (i - 1)
      BY <2>1
    <3>. QED
      BY <3>1
  <2>2. CASE i \in 2 + m..1 + m + n
    <3>1. i - (1 + m) \in 1..n /\ i = 1 + m + (i - (1 + m))
      BY <2>2
    <3>. QED
      BY <3>1
  <2>. QED
    BY <2>1, <2>2
<1>10. ASSUME NEW i \in 1..1 + m + n
       PROVE  b[i] \notin N /\ (i < 1 + m + n => b[i] # z)
  <2>1. CASE i = 1
    BY <1>4, <2>1
  <2>2. ASSUME NEW j \in 1..m, i = 1 + j PROVE b[i] \in C
    BY <1>6, <2>2
  <2>3. ASSUME NEW j \in 1..n, i = 1 + m + j PROVE b[i] \in {h, z} /\ (i < 1 + m + n => b[i] = h)
    <3>1. b[i] = t[j]
      BY <1>6, <2>3
    <3>2. i < 1 + m + n => j < n
      BY <2>3
    <3>. QED
      BY <1>1, <1>5, <3>1, <3>2
  <2>. QED
    BY <1>9, <2>1, <2>2, <2>3
<1>11. ASSUME NEW i \in 1..1 + m + n, b[i] = h PROVE t = <<h, z>>
  <2>1. i # 1
    BY <1>4, <1>11
  <2>2. \A j \in 1..m : i # 1 + j
    BY <1>6, <1>11
  <2>3. PICK j \in 1..n : i = 1 + m + j
    BY <1>9, <2>1, <2>2
  <2>4. t[j] = h
    BY <1>6, <1>11, <2>3
  <2>. QED
    BY <1>1, <1>5, <2>4
<1>12. ASSUME t = <<h, z>> PROVE \E i \in 1..1 + m + n : b[i] = h
  <2>1. PICK j \in 1..n : t[j] = h
    BY <1>1, <1>5, <1>12
  <2>2. 1 + m + j \in 1..1 + m + n /\ b[1 + m + j] = h
    BY <1>6, <2>1
  <2>. QED
    BY <2>2
<1>13. Len(b) \in Nat /\ Len(b) >= 2
  BY <1>6, <1>7
<1>. QED
  BY <1>0, <1>4, <1>6, <1>8, <1>10, <1>11, <1>12, <1>13 DEF Shaped

\* The frames of the provider are of this shape.
LEMMA BodyIs ==
  ASSUME NEW s \in Seq(Chars), NEW last \in BOOLEAN, NEW b, b = Inner(s, last)
  PROVE  Shaped(Letters, {"n", "r"}, "{", "}", "stop", last, b)
<1>1. PICK a, z, h, t, N : a = "{" /\ z = "}" /\ h = "stop" /\ t = Trailer(last) /\ N = {"n", "r"}
  OBVIOUS
<1>2. /\ a \in Marks \ N /\ z \in Marks \ N /\ h \in Marks \ N /\ N \subseteq Marks
      /\ h # z /\ a # z /\ a # h
  BY <1>1 DEF Marks
<1>3. t = (IF last THEN <<h, z>> ELSE <<z>>)
  BY <1>1 DEF Trailer
<1>5. b = <<a>> \o s \o t
  BY <1>1 DEF Inner
<1>6. Chars \cap Marks = {} /\ Chars \cup Marks = Letters
  BY CharsAre DEF Letters
<1>7. Framed(Letters, Chars, Marks, N, a, z, h, last, s, t, b)
  BY <1>2, <1>3, <1>5, <1>6 DEF Framed
<1>8. Shaped(Letters, N, a, z, h, last, b)
  BY <1>7, Shape
<1>. QED
  BY <1>1, <1>8

\* parse_sse_event finds the text of the delta in a frame, and its finish_reason.
LEMMA ContentIs ==
  ASSUME NEW s \in Seq(Chars), NEW last \in BOOLEAN, NEW b, b = Inner(s, last)
  PROVE  Content(b) = s /\ Stops(b) = last
<1>1. PICK a, z, h, t : a = "{" /\ z = "}" /\ h = "stop" /\ t = Trailer(last)
  OBVIOUS
<1>2. a \in Marks /\ z \in Marks /\ h \in Marks /\ h # z
  BY <1>1 DEF Marks
<1>3. t = <<z>> \/ t = <<h, z>>
  BY <1>1 DEF Trailer
<1>4. t \in Seq(Marks) /\ <<a>> \in Seq(Marks)
  <2>1. t \in Seq(Marks)
    BY <1>2, <1>3, TailIs
  <2>2. \A S : \A c \in S : <<c>> \in Seq(S)
    OBVIOUS
  <2>. QED
    BY <1>2, <2>1, <2>2
<1>5. b = (<<a>> \o s) \o t
  BY <1>1 DEF Inner
<1>6. PICK k : k = <<a>>
  OBVIOUS
<1>7. /\ k \in Seq(Marks) /\ k \in Seq(Letters) /\ s \in Seq(Letters) /\ t \in Seq(Letters)
      /\ k \o s \in Seq(Letters) /\ b = (k \o s) \o t
  <2>1. k \in Seq(Letters) /\ s \in Seq(Letters) /\ t \in Seq(Letters)
    BY <1>4, <1>6, CharsAre
  <2>2. \A u, v \in Seq(Letters) : u \o v \in Seq(Letters)
    OBVIOUS
  <2>. QED
    BY <1>4, <1>5, <1>6, <2>1, <2>2
<1>8. Without(k, Marks) = <<>> /\ Without(t, Marks) = <<>> /\ Without(s, Marks) = s
  <2>1. \A v \in Seq(Marks) : \A i \in 1..Len(v) : v[i] \in Marks
    OBVIOUS
  <2>3. \A i \in 1..Len(s) : s[i] \notin Marks
    <3>1. \A i \in 1..Len(s) : s[i] \in Chars
      OBVIOUS
    <3>. QED
      BY <3>1, CharsAre
  <2>4. Without(k, Marks) = <<>>
    BY <1>7, <2>1, WithoutNone
  <2>5. Without(t, Marks) = <<>>
    BY <1>4, <1>7, <2>1, WithoutNone
  <2>6. Without(s, Marks) = s
    BY <1>7, <2>3, WithoutSame
  <2>. QED
    BY <2>4, <2>5, <2>6
<1>9. Content(b) = s
  <2>1. Without(k \o s, Marks) = Without(k, Marks) \o Without(s, Marks)
    BY <1>7, WithoutJoins
  <2>2. Without((k \o s) \o t, Marks) = Without(k \o s, Marks) \o Without(t, Marks)
    BY <1>7, WithoutJoins
  <2>3. (<<>> \o s) \o <<>> = s
    OBVIOUS
  <2>. QED
    BY <1>7, <1>8, <2>1, <2>2, <2>3 DEF Content
<1>10. Stops(b) <=> last
  <2>1. (\E i \in 1..Len(b) : b[i] = "stop") <=> last
    BY BodyIs DEF Shaped
  <2>. QED
    BY <2>1 DEF Stops
<1>11. Stops(b) \in BOOLEAN
  BY DEF Stops
<1>. QED
  BY <1>9, <1>10, <1>11

-------------------------------------------------------------------------------
\* Where a sequence is found in another.
StandsAt(p, s, i) ==
  /\ i \in 1..Len(s) - Len(p) + 1
  /\ \A k \in 1..Len(p) : s[i + k - 1] = p[k]

LEMMA PlaceIs ==
  ASSUME NEW S, NEW p \in Seq(S), NEW s \in Seq(S), NEW i
  PROVE  i \in PlacesOf(p, s) <=> StandsAt(p, s, i)
<1>. PICK m \in Nat, n \in Nat : m = Len(p) /\ n = Len(s)
  OBVIOUS
<1>1. ASSUME i \in 1..n - m + 1
      PROVE  SubSeq(s, i, i + m - 1) = p <=> \A k \in 1..m : s[i + k - 1] = p[k]
  <2>1. i \in Nat /\ i >= 1 /\ i + m - 1 <= n
    BY <1>1
  <2>2. PICK t : t = SubSeq(s, i, i + m - 1)
    OBVIOUS
  <2>3. t \in Seq(S) /\ Len(t) = m /\ \A k \in 1..m : t[k] = s[i + k - 1]
    BY <2>1, <2>2
  <2>4. t = p <=> \A k \in 1..m : t[k] = p[k]
    BY <2>3
  <2>. QED
    BY <2>2, <2>3, <2>4
<1>. QED
  BY <1>1 DEF PlacesOf, StandsAt

\* Of one, two and four characters.
LEMMA Place1 ==
  ASSUME NEW S, NEW a \in S, NEW s \in Seq(S), NEW i
  PROVE  i \in PlacesOf(<<a>>, s) <=> i \in 1..Len(s) /\ s[i] = a
<1>1. PICK p \in Seq(S) : p = <<a>>
  <2>1. <<a>> \in Seq(S)
    OBVIOUS
  <2>. QED
    BY <2>1
<1>2. Len(p) = 1 /\ p[1] = a
  BY <1>1
<1>3. i \in PlacesOf(p, s) <=> /\ i \in 1..Len(s) - Len(p) + 1
                               /\ \A k \in 1..Len(p) : s[i + k - 1] = p[k]
  <2>1. p \in Seq(S) /\ s \in Seq(S)
    OBVIOUS
  <2>2. i \in PlacesOf(p, s) <=> StandsAt(p, s, i)
    BY <2>1, PlaceIs
  <2>. QED
    BY <2>2, Zenon DEF StandsAt
<1>4. (\A k \in 1..1 : s[i + k - 1] = p[k]) <=> s[i + 1 - 1] = p[1]
  OBVIOUS
<1>. QED
  BY <1>1, <1>2, <1>3, <1>4

LEMMA Place2 ==
  ASSUME NEW S, NEW a \in S, NEW b \in S, NEW s \in Seq(S), NEW i
  PROVE  i \in PlacesOf(<<a, b>>, s) <=> i \in 1..Len(s) - 1 /\ s[i] = a /\ s[i + 1] = b
<1>1. PICK p \in Seq(S) : p = <<a, b>>
  <2>1. <<a, b>> \in Seq(S)
    OBVIOUS
  <2>. QED
    BY <2>1
<1>2. Len(p) = 2 /\ p[1] = a /\ p[2] = b
  BY <1>1
<1>3. i \in PlacesOf(p, s) <=> /\ i \in 1..Len(s) - Len(p) + 1
                               /\ \A k \in 1..Len(p) : s[i + k - 1] = p[k]
  <2>1. p \in Seq(S) /\ s \in Seq(S)
    OBVIOUS
  <2>2. i \in PlacesOf(p, s) <=> StandsAt(p, s, i)
    BY <2>1, PlaceIs
  <2>. QED
    BY <2>2, Zenon DEF StandsAt
<1>4. (\A k \in 1..2 : s[i + k - 1] = p[k]) <=> s[i + 1 - 1] = p[1] /\ s[i + 2 - 1] = p[2]
  OBVIOUS
<1>5. i \in 1..Len(s) - 1 => i + 1 - 1 = i /\ i + 2 - 1 = i + 1
  OBVIOUS
<1>6. Len(s) - 2 + 1 = Len(s) - 1
  OBVIOUS
<1>. QED
  BY <1>1, <1>2, <1>3, <1>4, <1>5, <1>6

LEMMA Place4 ==
  ASSUME NEW S, NEW a \in S, NEW b \in S, NEW s \in Seq(S), NEW i
  PROVE  i \in PlacesOf(<<a, b, a, b>>, s) <=>
           i \in 1..Len(s) - 3 /\ s[i] = a /\ s[i + 1] = b /\ s[i + 2] = a /\ s[i + 3] = b
<1>1. PICK p \in Seq(S) : p = <<a, b, a, b>>
  <2>1. <<a, b, a, b>> \in Seq(S)
    OBVIOUS
  <2>. QED
    BY <2>1
<1>2. Len(p) = 4 /\ p[1] = a /\ p[2] = b /\ p[3] = a /\ p[4] = b
  BY <1>1
<1>3. i \in PlacesOf(p, s) <=> /\ i \in 1..Len(s) - Len(p) + 1
                               /\ \A k \in 1..Len(p) : s[i + k - 1] = p[k]
  <2>1. p \in Seq(S) /\ s \in Seq(S)
    OBVIOUS
  <2>2. i \in PlacesOf(p, s) <=> StandsAt(p, s, i)
    BY <2>1, PlaceIs
  <2>. QED
    BY <2>2, Zenon DEF StandsAt
<1>4. (\A k \in 1..4 : s[i + k - 1] = p[k]) <=>
        s[i + 1 - 1] = p[1] /\ s[i + 2 - 1] = p[2] /\ s[i + 3 - 1] = p[3] /\ s[i + 4 - 1] = p[4]
  <2>1. 1..4 = {1, 2, 3, 4}
    OBVIOUS
  <2>. QED
    BY <2>1
<1>5. i \in 1..Len(s) - 3 => i + 1 - 1 = i /\ i + 2 - 1 = i + 1 /\ i + 3 - 1 = i + 2 /\ i + 4 - 1 = i + 3
  OBVIOUS
<1>6. Len(s) - 4 + 1 = Len(s) - 3
  OBVIOUS
<1>. QED
  BY <1>1, <1>2, <1>3, <1>4, <1>5, <1>6

-------------------------------------------------------------------------------
\* The first blank line.
Two(b, x, i)     == i \in 1..Len(b) - 1 /\ b[i] = x /\ b[i + 1] = x
Four(b, y, x, i) == i \in 1..Len(b) - 3 /\ b[i] = y /\ b[i + 1] = x /\ b[i + 2] = y /\ b[i + 3] = x

\* EventEnds, character by character.
LEMMA EndIs ==
  ASSUME NEW b \in Seq(Letters), NEW f
  PROVE  f \in EventEnds(b) <=> \/ \E i \in Nat : f = <<i, 2>> /\ Two(b, "n", i)
                                \/ \E i \in Nat : f = <<i, 4>> /\ Four(b, "r", "n", i)
<1>1. PICK x \in Letters, y \in Letters : x = "n" /\ y = "r"
  BY DEF Letters, Marks
<1>2. \A i : i \in PlacesOf(<<x, x>>, b) <=> Two(b, x, i)
  BY Place2 DEF Two
<1>3. \A i : i \in PlacesOf(<<y, x, y, x>>, b) <=> Four(b, y, x, i)
  BY Place4 DEF Four
<1>4. EventEnds(b) = {<<i, 2>> : i \in PlacesOf(<<x, x>>, b)} \cup {<<i, 4>> : i \in PlacesOf(<<y, x, y, x>>, b)}
  BY <1>1 DEF EventEnds
<1>5. \A i : (Two(b, x, i) \/ Four(b, y, x, i)) => i \in Nat
  BY DEF Two, Four
<1>. QED
  BY <1>1, <1>2, <1>3, <1>4, <1>5

\* What comes in after an event and a blank line, in part or with more.
Arrives(S, x, y, body, e, rest, b, u) ==
  /\ x \in S /\ y \in S /\ x # y /\ body \in Seq(S) /\ Len(body) \in Nat /\ Len(body) >= 2
  /\ \A i \in 1..Len(body) : body[i] # x /\ body[i] # y
  /\ e = <<x, x>> \/ e = <<y, x, y, x>>
  /\ rest \in Seq(S) /\ b \in Seq(S) /\ u \in Seq(S) /\ b \o u = body \o e \o rest

LEMMA FirstBlank ==
  ASSUME NEW S, NEW x, NEW y, NEW body, NEW e, NEW rest, NEW b, NEW u, NEW l \in Nat, l = Len(body),
         Arrives(S, x, y, body, e, rest, b, u)
  PROVE  /\ \A i \in Nat : Two(b, x, i) \/ Four(b, y, x, i) => i >= l + 1 /\ Len(b) >= l + Len(e)
         /\ Len(b) >= l + Len(e) => /\ e = <<x, x>> => Two(b, x, l + 1) /\ ~Four(b, y, x, l + 1)
                                    /\ e # <<x, x>> => Four(b, y, x, l + 1) /\ ~Two(b, x, l + 1)
         /\ Len(b) \in Nat /\ Len(e) \in {2, 4} /\ (Len(e) = 2 <=> e = <<x, x>>)
<1>. USE DEF Arrives
<1>1. /\ e \in Seq(S) /\ Len(e) \in {2, 4} /\ (Len(e) = 2 <=> e = <<x, x>>)
      /\ Len(e) = 2 => e[1] = x /\ e[2] = x
      /\ Len(e) = 4 => e[1] = y /\ e[2] = x /\ e[3] = y /\ e[4] = x
  <2>0. x \in S /\ y \in S
    OBVIOUS
  <2>1. CASE e = <<x, x>>
    <3>. HIDE DEF Arrives
    <3>. QED
      BY <2>0, <2>1
  <2>2. CASE e = <<y, x, y, x>>
    <3>. HIDE DEF Arrives
    <3>1. e \in Seq(S)
      BY <2>0, <2>2
    <3>2. Len(e) = 4 /\ e[1] = y /\ e[2] = x /\ e[3] = y /\ e[4] = x
      BY <2>2
    <3>3. Len(<<x, x>>) = 2
      OBVIOUS
    <3>. QED
      BY <3>1, <3>2, <3>3
  <2>3. e = <<x, x>> \/ e = <<y, x, y, x>>
    OBVIOUS
  <2>. HIDE DEF Arrives
  <2>. QED
    BY <2>1, <2>2, <2>3
<1>2. PICK n \in Nat, k \in Nat : n = Len(b) /\ k = Len(e)
  <2>1. Len(b) \in Nat /\ Len(e) \in Nat
    BY <1>1
  <2>. QED
    BY <2>1
<1>3. PICK p : p = b \o u
  OBVIOUS
<1>4. \A i \in 1..n : b[i] = p[i]
  <2>. HIDE DEF Arrives
  <2>1. \A i \in 1..Len(b) : (b \o u)[i] = b[i]
    OBVIOUS
  <2>. QED
    BY <1>2, <1>3, <2>1, Zenon
<1>5. \A i \in 1..l : p[i] # x /\ p[i] # y
  <2>0. p = (body \o e) \o rest /\ body \in Seq(S) /\ rest \in Seq(S) /\ e \in Seq(S)
    BY <1>1, <1>3
  <2>1. p = body \o (e \o rest) /\ e \o rest \in Seq(S) /\ body \in Seq(S)
    <3>. HIDE DEF Arrives
    <3>1. (body \o e) \o rest = body \o (e \o rest) /\ e \o rest \in Seq(S)
      BY <2>0, Joins
    <3>. QED
      BY <2>0, <3>1
  <2>2. \A i \in 1..l : p[i] = body[i]
    <3>. HIDE DEF Arrives
    <3>. QED
      BY <2>1
  <2>. QED
    BY <2>2
<1>6. \A i \in 1..k : p[l + i] = e[i]
  <2>0. p = body \o e \o rest /\ body \in Seq(S) /\ rest \in Seq(S)
    BY <1>3
  <2>. HIDE DEF Arrives
  <2>1. PICK q : q = body \o e
    OBVIOUS
  <2>2. q \in Seq(S) /\ Len(q) = l + k /\ \A i \in 1..k : q[l + i] = e[i]
    <3>1. \A v, w \in Seq(S) : /\ v \o w \in Seq(S) /\ Len(v \o w) = Len(v) + Len(w)
                               /\ \A i \in 1..Len(w) : (v \o w)[Len(v) + i] = w[i]
      OBVIOUS
    <3>2. /\ q \in Seq(S) /\ Len(q) = Len(body) + Len(e)
          /\ \A i \in 1..Len(e) : q[Len(body) + i] = e[i]
      BY <1>1, <2>0, <2>1, <3>1
    <3>. QED
      BY <1>2, <3>2
  <2>3. \A i \in 1..l + k : p[i] = q[i]
    BY <2>0, <2>1, <2>2
  <2>4. \A i \in 1..k : l + i \in 1..l + k
    OBVIOUS
  <2>. QED
    BY <2>2, <2>3, <2>4
<1>7. k \in {2, 4} /\ (k = 2 <=> e = <<x, x>>)
  BY <1>1, <1>2
<1>8. /\ k = 2 => p[l + 1] = x /\ p[l + 2] = x
      /\ k = 4 => p[l + 1] = y /\ p[l + 2] = x /\ p[l + 3] = y /\ p[l + 4] = x
  <2>1. k = 2 => 1 \in 1..k /\ 2 \in 1..k
    OBVIOUS
  <2>2. k = 4 => 1 \in 1..k /\ 2 \in 1..k /\ 3 \in 1..k /\ 4 \in 1..k
    OBVIOUS
  <2>. HIDE DEF Arrives
  <2>. QED
    BY <1>1, <1>2, <1>6, <2>1, <2>2
<1>9. x # y
  OBVIOUS
<1>. HIDE DEF Arrives
<1>10. ASSUME NEW i \in Nat, Two(b, x, i) PROVE i >= l + 1 /\ n >= l + k
  <2>1. i \in 1..n - 1 /\ p[i] = x /\ p[i + 1] = x
    BY <1>2, <1>4, <1>10 DEF Two
  <2>2. i >= l + 1
    BY <1>5, <2>1
  <2>3. k = 4 => i # l + 1 /\ i # l + 2 /\ i # l + 3
    <3>1. i = l + 2 => i + 1 = l + 3
      OBVIOUS
    <3>. QED
      BY <1>8, <1>9, <2>1, <3>1
  <2>4. CASE k = 2
    BY <2>1, <2>2, <2>4
  <2>5. CASE k = 4
    BY <2>1, <2>2, <2>3, <2>5
  <2>. QED
    BY <1>7, <2>2, <2>4, <2>5
<1>11. ASSUME NEW i \in Nat, Four(b, y, x, i) PROVE i >= l + 1 /\ n >= l + k
  <2>1. i \in 1..n - 3 /\ p[i] = y
    BY <1>2, <1>4, <1>11 DEF Four
  <2>2. i >= l + 1
    BY <1>5, <2>1
  <2>. QED
    BY <1>7, <2>1, <2>2
<1>12. ASSUME n >= l + k, k = 2 PROVE Two(b, x, l + 1) /\ ~Four(b, y, x, l + 1)
  <2>1. l + 1 \in 1..n - 1 /\ l + 1 \in 1..n /\ l + 2 \in 1..n /\ (l + 1) + 1 = l + 2
    BY <1>12
  <2>. QED
    BY <1>2, <1>4, <1>8, <1>9, <1>12, <2>1 DEF Two, Four
<1>13. ASSUME n >= l + k, k = 4 PROVE Four(b, y, x, l + 1) /\ ~Two(b, x, l + 1)
  <2>1. /\ l + 1 \in 1..n - 3 /\ l + 1 \in 1..n /\ l + 2 \in 1..n /\ l + 3 \in 1..n /\ l + 4 \in 1..n
        /\ (l + 1) + 1 = l + 2 /\ (l + 1) + 2 = l + 3 /\ (l + 1) + 3 = l + 4
    BY <1>13
  <2>2. b[l + 1] = y /\ b[l + 2] = x /\ b[l + 3] = y /\ b[l + 4] = x
    BY <1>4, <1>8, <1>13, <2>1
  <2>. QED
    BY <1>2, <1>9, <2>1, <2>2 DEF Two, Four
<1>. QED
  BY <1>1, <1>2, <1>7, <1>10, <1>11, <1>12, <1>13

\* The first event end is the end of the first frame, of the length l without its line end.
Begins(s, last, e, rest, b, u, body, l, a, p) ==
  /\ s \in Seq(Chars) /\ last \in BOOLEAN /\ e \in LineEnds /\ rest \in Seq(Letters)
  /\ b \in Seq(Letters) /\ u \in Seq(Letters) /\ body = Inner(s, last) /\ l = Len(body)
  /\ IsConcat(a, body, e) /\ IsConcat(p, a, rest) /\ IsConcat(p, b, u)
EndsAt(b, l, k) ==
  /\ EventEnds(b) # {} => /\ <<l + 1, k>> \in EventEnds(b) /\ Len(b) >= l + k
                          /\ \A f \in EventEnds(b) : f[1] \in Nat /\ l + 1 <= f[1]
                          /\ \A f \in EventEnds(b) : f[1] = l + 1 => f = <<l + 1, k>>
  /\ EventEnds(b) = {} => Len(b) < l + k
  /\ l \in Nat /\ k \in {2, 4} /\ Len(b) \in Nat

LEMMA FirstEnd ==
  ASSUME NEW s, NEW last, NEW e, NEW rest, NEW b, NEW u, NEW body, NEW l, NEW a, NEW p,
         Begins(s, last, e, rest, b, u, body, l, a, p)
  PROVE  EndsAt(b, l, Len(e))
<1>0. /\ s \in Seq(Chars) /\ last \in BOOLEAN /\ e \in LineEnds /\ rest \in Seq(Letters)
      /\ b \in Seq(Letters) /\ u \in Seq(Letters) /\ body = Inner(s, last) /\ l = Len(body)
      /\ IsConcat(a, body, e) /\ IsConcat(p, a, rest) /\ IsConcat(p, b, u)
  BY DEF Begins
<1>1. PICK x, y : x = "n" /\ y = "r"
  OBVIOUS
<1>2. Shaped(Letters, {x, y}, "{", "}", "stop", last, body)
  BY <1>0, <1>1, BodyIs
<1>3. x \in Letters /\ y \in Letters /\ x # y /\ (e = <<x, x>> \/ e = <<y, x, y, x>>)
  BY <1>0, <1>1 DEF Letters, Marks, LineEnds
<1>4. l \in Nat
  BY <1>0, <1>2 DEF Shaped
<1>5. Arrives(Letters, x, y, body, e, rest, b, u)
  BY <1>0, <1>2, <1>3 DEF Arrives, Shaped, IsConcat
<1>6. /\ \A i \in Nat : Two(b, x, i) \/ Four(b, y, x, i) => i >= l + 1 /\ Len(b) >= l + Len(e)
      /\ Len(b) >= l + Len(e) => /\ e = <<x, x>> => Two(b, x, l + 1) /\ ~Four(b, y, x, l + 1)
                                 /\ e # <<x, x>> => Four(b, y, x, l + 1) /\ ~Two(b, x, l + 1)
      /\ Len(b) \in Nat /\ Len(e) \in {2, 4} /\ (Len(e) = 2 <=> e = <<x, x>>)
  BY <1>0, <1>4, <1>5, FirstBlank
<1>7. \A f : f \in EventEnds(b) <=> \/ \E i \in Nat : f = <<i, 2>> /\ Two(b, x, i)
                                    \/ \E i \in Nat : f = <<i, 4>> /\ Four(b, y, x, i)
  BY <1>0, <1>1, EndIs
<1>8. PICK k \in {2, 4} : k = Len(e)
  BY <1>6
<1>9. l + 1 \in Nat
  BY <1>4
<1>10. Len(b) >= l + k => <<l + 1, k>> \in EventEnds(b)
  BY <1>6, <1>7, <1>8, <1>9
<1>11. ASSUME NEW f \in EventEnds(b)
       PROVE f[1] \in Nat /\ l + 1 <= f[1] /\ Len(b) >= l + k /\ (f[1] = l + 1 => f = <<l + 1, k>>)
  <2>1. CASE \E i \in Nat : f = <<i, 2>> /\ Two(b, x, i)
    BY <1>4, <1>6, <1>8, <2>1
  <2>2. CASE \E i \in Nat : f = <<i, 4>> /\ Four(b, y, x, i)
    BY <1>4, <1>6, <1>8, <2>2
  <2>. QED
    BY <1>7, <1>11, <2>1, <2>2
<1>12. Len(b) < l + k \/ Len(b) >= l + k
  BY <1>4, <1>6
<1>. QED
  BY <1>4, <1>6, <1>8, <1>10, <1>11, <1>12 DEF EndsAt

-------------------------------------------------------------------------------
(***************************************************************************)
(* A row: what the provider has sent and the client has not taken as an    *)
(* event yet is a sequence of frames; the buffer and the wire cut it in    *)
(* two, between two characters when no read tears one.                     *)
(***************************************************************************)

\* The frames that are sent and not yet taken as events, and their texts.
Pieces   == [s : Seq(Chars), last : BOOLEAN, e : LineEnds]
FrameOp  == [q \in Pieces |-> Inner(q.s, q.last) \o q.e]
TextOp   == [q \in Pieces |-> q.s]

LEMMA LineEndIs ==
  ASSUME NEW e \in LineEnds
  PROVE  e \in Seq(Marks) /\ e \in Seq(Letters)
<1>1. "n" \in Marks /\ "r" \in Marks
  BY DEF Marks
<1>2. \A S : \A a, b \in S : <<a, a>> \in Seq(S) /\ <<b, a, b, a>> \in Seq(S)
  OBVIOUS
<1>3. e \in Seq(Marks)
  BY <1>1, <1>2 DEF LineEnds
<1>. QED
  BY <1>3, CharsAre

LEMMA BodyTyped ==
  ASSUME NEW s \in Seq(Chars), NEW last \in BOOLEAN
  PROVE  Inner(s, last) \in Seq(Letters)
<1>1. PICK b : b = Inner(s, last)
  OBVIOUS
<1>. QED
  BY <1>1, BodyIs DEF Shaped

\* FrameOp and TextOp: the bytes and the text of a piece.
LEMMA PieceIs ==
  /\ Spreads(FrameOp, Pieces, Letters) /\ Spreads(TextOp, Pieces, Chars)
  /\ \A q \in Pieces : FrameOp[q] = Inner(q.s, q.last) \o q.e /\ TextOp[q] = q.s
<1>1. ASSUME NEW q \in Pieces PROVE Inner(q.s, q.last) \o q.e \in Seq(Letters) /\ q.s \in Seq(Chars)
  <2>1. q.s \in Seq(Chars) /\ q.last \in BOOLEAN /\ q.e \in LineEnds
    BY DEF Pieces
  <2>2. Inner(q.s, q.last) \in Seq(Letters) /\ q.e \in Seq(Letters)
    BY <2>1, LineEndIs, BodyTyped
  <2>. QED
    BY <2>1, <2>2
<1>. QED
  BY <1>1 DEF FrameOp, TextOp, Spreads

LEMMA Pair ==
  ASSUME NEW b, NEW c
  PROVE  <<b>> \o <<c>> = <<b, c>> /\ <<>> \o <<c>> = <<c>>
<1>1. <<b>> \in Seq({b, c}) /\ <<c>> \in Seq({b, c}) /\ <<b, c>> \in Seq({b, c})
  OBVIOUS
<1>2. <<>> \o <<c>> = <<c>>
  BY <1>1, ConcatEmptySeq
<1>3. PICK s : s = <<b>> \o <<c>>
  OBVIOUS
<1>4. s \in Seq({b, c}) /\ Len(s) = 2 /\ s[1] = b /\ s[2] = c
  BY <1>1, <1>3, ConcatProperties
<1>5. PICK t : t = <<b, c>>
  OBVIOUS
<1>6. t \in Seq({b, c}) /\ Len(t) = 2 /\ t[1] = b /\ t[2] = c
  BY <1>1, <1>5
<1>7. s = t
  BY <1>4, <1>6, SeqEqual
<1>. QED
  BY <1>2, <1>3, <1>5, <1>7

\* The provider's bytes are the bytes of the frame.
LEMMA FrameIs ==
  ASSUME NEW s \in Seq(Chars), NEW last \in BOOLEAN, NEW e \in LineEnds
  PROVE  Frame(s, last) \o e = Enc(Inner(s, last) \o e)
<1>1. PICK a, z, h \in Marks : a = "{" /\ z = "}" /\ h = "stop"
  BY DEF Marks
<1>2. PICK k, t, v : /\ k = <<a>> /\ t = Trailer(last)
                     /\ v = IF last THEN <<h>> ELSE <<>>
  OBVIOUS
<1>3. t = v \o <<z>> /\ v \in Seq(Marks) /\ k \in Seq(Marks) /\ <<z>> \in Seq(Marks) /\ t \in Seq(Marks)
  <2>1. \A S : \A b \in S : <<b>> \in Seq(S) /\ <<>> \in Seq(S)
    OBVIOUS
  <2>4. \A S : \A b, c \in S : <<b, c>> \in Seq(S)
    OBVIOUS
  <2>2. <<h>> \o <<z>> = <<h, z>> /\ <<>> \o <<z>> = <<z>>
    BY Pair
  <2>3. t = IF last THEN <<h, z>> ELSE <<z>>
    BY <1>1, <1>2 DEF Trailer
  <2>. QED
    BY <1>2, <2>1, <2>2, <2>3, <2>4
<1>4. Enc(k) = k /\ Enc(t) = t /\ Enc(e) = e
  BY <1>3, EncMarks, LineEndIs
<1>5. k \in Seq(Letters) /\ s \in Seq(Letters) /\ t \in Seq(Letters) /\ e \in Seq(Letters)
  BY <1>3, CharsAre, LineEndIs
<1>6. Inner(s, last) = (k \o s) \o t
  BY <1>1, <1>2 DEF Inner
<1>7. Enc(((k \o s) \o t) \o e) = ((k \o Enc(s)) \o t) \o e
  <2>1. Enc(k \o s) = Enc(k) \o Enc(s) /\ k \o s \in Seq(Letters)
    BY <1>5, EncJoins
  <2>2. Enc((k \o s) \o t) = Enc(k \o s) \o Enc(t) /\ (k \o s) \o t \in Seq(Letters)
    BY <1>5, <2>1, EncJoins
  <2>3. Enc(((k \o s) \o t) \o e) = Enc((k \o s) \o t) \o Enc(e)
    BY <1>5, <2>2, EncJoins
  <2>. QED
    BY <1>4, <2>1, <2>2, <2>3
<1>8. Frame(s, last) = ((k \o Enc(s)) \o v) \o <<z>>
  BY <1>1, <1>2 DEF Frame, Enc
<1>9. ((k \o Enc(s)) \o v) \o <<z>> = (k \o Enc(s)) \o (v \o <<z>>)
  <2>0. PICK w \in Seq(Bytes) : w = Enc(s)
    BY <1>5, EncIs
  <2>1. k \in Seq(Bytes) /\ v \in Seq(Bytes) /\ <<z>> \in Seq(Bytes)
    <3>1. Marks \subseteq Bytes
      BY DEF Bytes
    <3>2. \A A, B : A \subseteq B => Seq(A) \subseteq Seq(B)
      OBVIOUS
    <3>. QED
      BY <1>3, <3>1, <3>2
  <2>2. k \o w \in Seq(Bytes)
    BY <2>1
  <2>3. PICK x : x = k \o w
    OBVIOUS
  <2>4. (x \o v) \o <<z>> = x \o (v \o <<z>>)
    BY <2>1, <2>2, <2>3, Joins
  <2>. QED
    BY <2>0, <2>3, <2>4
<1>. QED
  BY <1>3, <1>6, <1>7, <1>8, <1>9

\* A sequence and its first element.
LEMMA FromIs ==
  ASSUME NEW S, NEW q \in Seq(S), Len(q) >= 1
  PROVE  /\ From(q, 2) \in Seq(S) /\ Len(From(q, 2)) = Len(q) - 1
         /\ \A i \in 1..Len(q) - 1 : From(q, 2)[i] = q[i + 1]
         /\ Upto(q, 1) = <<q[1]>>
<1>0. PICK n \in Nat : n = Len(q)
  OBVIOUS
<1>1. From(q, 2) \in Seq(S) /\ Len(From(q, 2)) = Len(q) - 1
  <2>1. \A i \in 2..n : q[i] \in S
    BY <1>0
  <2>2. 2 \in Int /\ n \in Int
    OBVIOUS
  <2>3. SubSeq(q, 2, n) \in Seq(S) /\ Len(SubSeq(q, 2, n)) = IF 2 <= n THEN n - 2 + 1 ELSE 0
    BY <2>1, <2>2, SubSeqProperties
  <2>. QED
    BY <1>0, <2>3 DEF From
<1>2. \A i \in 1..Len(q) - 1 : From(q, 2)[i] = q[i + 1]
  BY DEF From
<1>3. Upto(q, 1) = <<q[1]>>
  <2>1. 1 \in 1..Len(q)
    BY <1>0
  <2>2. Upto(q, 1) = Upto(q, 1 - 1) \o <<q[1]>>
    BY <2>1, UptoNext
  <2>3. Upto(q, 0) = <<>> /\ 1 - 1 = 0 /\ <<>> \o <<q[1]>> = <<q[1]>>
    BY DEF Upto
  <2>. QED
    BY <2>2, <2>3
<1>. QED
  BY <1>1, <1>2, <1>3

LEMMA FirstOf ==
  ASSUME NEW S, NEW q \in Seq(S), Len(q) > 0
  PROVE  /\ q[1] \in S /\ From(q, 2) \in Seq(S) /\ q = <<q[1]>> \o From(q, 2)
         /\ Len(q) \in Nat /\ Len(From(q, 2)) = Len(q) - 1 /\ Len(q) >= 1
         /\ \A i \in 1..Len(From(q, 2)) : From(q, 2)[i] = q[i + 1]
<1>1. Len(q) \in Nat /\ Len(q) >= 1 /\ q[1] \in S
  OBVIOUS
<1>2. /\ From(q, 2) \in Seq(S) /\ Len(From(q, 2)) = Len(q) - 1
      /\ \A i \in 1..Len(q) - 1 : From(q, 2)[i] = q[i + 1]
  BY <1>1, FromIs
<1>3. q = Upto(q, 1) \o From(q, 1 + 1)
  <2>1. 1 \in Nat /\ 1 <= Len(q)
    BY <1>1
  <2>. QED
    BY <2>1, CutJoins
<1>4. Upto(q, 1) = <<q[1]>>
  BY <1>1, FromIs
<1>5. q = <<q[1]>> \o From(q, 2)
  <2>1. 1 + 1 = 2
    OBVIOUS
  <2>. QED
    BY <1>3, <1>4, <2>1, Zenon
<1>. QED
  BY <1>1, <1>2, <1>5

SpreadsFirst(fn, q) == Spread(fn, q) = fn[q[1]] \o Spread(fn, From(q, 2))

\* The first element, and the rest.
LEMMA SpreadFirst ==
  ASSUME NEW C, NEW D, NEW fn, Spreads(fn, C, D), NEW q \in Seq(C), Len(q) > 0
  PROVE  SpreadsFirst(fn, q)
<1>1. q[1] \in C /\ From(q, 2) \in Seq(C) /\ q = <<q[1]>> \o From(q, 2)
  BY FirstOf
<1>2. PICK c, r, k : c = q[1] /\ r = From(q, 2) /\ k = <<c>>
  OBVIOUS
<1>3. c \in C /\ r \in Seq(C) /\ k \in Seq(C)
  BY <1>1, <1>2
<1>4. Spread(fn, k \o r) = Spread(fn, k) \o Spread(fn, r)
  BY <1>3, SpreadJoins
<1>5. Spread(fn, <<c>>) = fn[c]
  BY <1>3, SpreadFew
<1>6. q = k \o r
  BY <1>1, <1>2, Zenon
<1>7. Spread(fn, q) = fn[c] \o Spread(fn, r)
  BY <1>2, <1>4, <1>5, <1>6, Zenon
<1>8. Spread(fn, q) = fn[q[1]] \o Spread(fn, From(q, 2))
  BY <1>2, <1>7, Zenon
<1>. QED
  BY <1>8 DEF SpreadsFirst

SpreadsLast(fn, q, c) == Spread(fn, q \o <<c>>) = Spread(fn, q) \o fn[c]

\* One element more.
LEMMA SpreadLast ==
  ASSUME NEW C, NEW D, NEW fn, Spreads(fn, C, D), NEW q \in Seq(C), NEW c \in C
  PROVE  SpreadsLast(fn, q, c)
<1>2. PICK k \in Seq(C) : k = <<c>>
  <2>1. <<c>> \in Seq(C)
    OBVIOUS
  <2>. QED
    BY <2>1
<1>3. Spread(fn, q \o k) = Spread(fn, q) \o Spread(fn, k)
  BY SpreadJoins
<1>4. Spread(fn, <<c>>) = fn[c]
  BY SpreadFew
<1>. QED
  BY <1>2, <1>3, <1>4 DEF SpreadsLast

LEMMA SpreadEmpty ==
  ASSUME NEW C, NEW D, NEW fn, Spreads(fn, C, D)
  PROVE  Spread(fn, <<>>) = <<>>
<1>1. <<>> \in Seq(C) /\ \A i \in 1..Len(<<>>) : fn[<<>>[i]] = <<>>
  OBVIOUS
<1>. QED
  BY <1>1, SpreadNone

-------------------------------------------------------------------------------
\* What the operators of the stream return.
Signs == Chars \cup {Lost}
Items == Texts \cup Cites

\* Which characters are where.
LEMMA SignsAre ==
  /\ Chars \subseteq Signs /\ Signs \subseteq Letters \cup {Lost} /\ (Letters \cup {Lost}) \ Marks \subseteq Signs
  /\ "1" \in Chars /\ "[" \in Chars /\ "c" \in Chars /\ "]" \in Chars
  /\ Seq(Chars) \subseteq Seq(Signs) /\ Seq(Letters) \subseteq Seq(Letters \cup {Lost})
  /\ Seq((Letters \cup {Lost}) \ Marks) \subseteq Seq(Signs) /\ Seq({"1"}) \subseteq Seq(Signs)
<1>1. /\ Chars \subseteq Signs /\ Signs \subseteq Letters \cup {Lost}
      /\ (Letters \cup {Lost}) \ Marks \subseteq Signs
      /\ Letters \subseteq Letters \cup {Lost}
      /\ "1" \in Chars /\ "[" \in Chars /\ "c" \in Chars /\ "]" \in Chars
  BY DEF Signs, Letters, Chars, Marks
<1>2. \A A, B : A \subseteq B => Seq(A) \subseteq Seq(B)
  OBVIOUS
<1>3. {"1"} \subseteq Signs
  BY <1>1
<1>. QED
  BY <1>1, <1>2, <1>3

\* Content has no marks.
LEMMA WithoutTyped ==
  ASSUME NEW C, NEW S, NEW u \in Seq(C)
  PROVE  Without(u, S) \in Seq(C \ S)
<1>1. PICK D : D = C \ S
  OBVIOUS
<1>2. \A c \in C : c \notin S => <<c>> \in Seq(D)
  <2>1. \A A : \A c \in A : <<c>> \in Seq(A)
    OBVIOUS
  <2>. QED
    BY <1>1, <2>1
<1>3. <<>> \in Seq(D)
  OBVIOUS
<1>4. Spreads(KeepOp(C, S), C, D)
  BY <1>2, <1>3 DEF Spreads, KeepOp
<1>5. Spread(KeepOp(C, S), u) \in Seq(D)
  BY <1>4, SpreadIs
<1>. QED
  BY <1>1, <1>5, WithoutIs

\* Whatever is read, characters come out.
LEMMA DecodeTyped ==
  ASSUME NEW bs \in Seq(Bytes)
  PROVE  Decode(bs) \in Seq(Letters \cup {Lost})
<1>. DEFINE m == Len(bs)
            one(i) == CASE bs[i] = "w1" -> IF i < m THEN <<"w">> ELSE <<Lost>>
                        [] bs[i] = "w2" -> IF i > 1 THEN <<>> ELSE <<Lost>>
                        [] OTHER        -> <<bs[i]>>
            r == [i \in 1..m |-> one(i)]
<1>0. PICK All : All = Letters \cup {Lost}
  OBVIOUS
<1>1. Decode(bs) = Concat(r)
  BY DEF Decode
<1>2. \A S : \A a \in S : <<a>> \in Seq(S) /\ <<>> \in Seq(S)
  OBVIOUS
<1>3. Lost \in All /\ "w" \in All /\ \A b \in Bytes : b # "w1" /\ b # "w2" => b \in All
  BY <1>0 DEF Letters, Bytes, Chars, Marks
<1>4. m \in Nat /\ \A i \in 1..m : bs[i] \in Bytes
  OBVIOUS
<1>. HIDE DEF m
<1>5. ASSUME NEW i \in 1..m PROVE one(i) \in Seq(All)
  <2>1. bs[i] \in Bytes
    BY <1>4
  <2>2. CASE bs[i] = "w1"
    <3>1. bs[i] # "w2"
      BY <2>2
    <3>. QED
      BY <1>2, <1>3, <2>2, <3>1
  <2>3. CASE bs[i] = "w2"
    <3>1. bs[i] # "w1"
      BY <2>3
    <3>. QED
      BY <1>2, <1>3, <2>3, <3>1
  <2>4. CASE bs[i] # "w1" /\ bs[i] # "w2"
    BY <1>2, <1>3, <2>1, <2>4
  <2>. QED
    BY <2>2, <2>3, <2>4
<1>6. r \in Seq(Seq(All)) /\ Len(r) = m
  <2>. HIDE DEF one
  <2>. QED
    BY <1>4, <1>5
<1>. HIDE DEF r
<1>7. PICK h : Parts(All, r, h) /\ Concat(r) = h[m]
  BY <1>6, ConcatIs
<1>8. m \in 0..m /\ h \in [0..m -> Seq(All)]
  BY <1>4, <1>6, <1>7 DEF Parts
<1>. QED
  BY <1>0, <1>1, <1>7, <1>8

-------------------------------------------------------------------------------
\* What the events show.
ShowOp == [e \in Items |-> IF "text" \in DOMAIN e THEN e.text ELSE Prefix \o e.cite \o <<"]">>]

\* Shown, of any events.
ShownOf(evs) ==
  LET show(e) == IF "text" \in DOMAIN e THEN e.text ELSE Prefix \o e.cite \o <<"]">>
  IN  Each(show, [i \in 1..Len(evs) |->
                    IF "text" \in DOMAIN evs[i] THEN evs[i] ELSE Resolve(evs[i].cite)])

LEMMA ItemIs ==
  ASSUME NEW e \in Items
  PROVE  /\ e \in Texts => "text" \in DOMAIN e /\ e.text \in Seq(Signs) /\ "cite" \notin DOMAIN e
         /\ e \in Cites => "text" \notin DOMAIN e /\ e.cite \in Seq({"1"}) /\ "cite" \in DOMAIN e
<1>1. "text" # "cite"
  OBVIOUS
<1>. QED
  BY <1>1 DEF Texts, Cites, Items, Signs

LEMMA ShowOpIs ==
  /\ Spreads(ShowOp, Items, Signs)
  /\ \A e \in Items : ShowOp[e] = IF "text" \in DOMAIN e THEN e.text ELSE Prefix \o e.cite \o <<"]">>
<1>1. Prefix \in Seq(Signs) /\ <<"]">> \in Seq(Signs)
  <2>1. \A S : \A a, b \in S : <<a>> \in Seq(S) /\ <<a, b>> \in Seq(S)
    OBVIOUS
  <2>2. "[" \in Signs /\ "c" \in Signs /\ "]" \in Signs
    BY SignsAre
  <2>. QED
    BY <2>1, <2>2 DEF Prefix
<1>2. ASSUME NEW e \in Items
      PROVE (IF "text" \in DOMAIN e THEN e.text ELSE Prefix \o e.cite \o <<"]">>) \in Seq(Signs)
  <2>1. e \in Texts \/ e \in Cites
    BY DEF Items
  <2>2. CASE e \in Texts
    BY <2>2, ItemIs
  <2>3. CASE e \in Cites
    <3>1. "text" \notin DOMAIN e /\ e.cite \in Seq(Signs)
      BY <2>3, ItemIs, SignsAre
    <3>2. PICK a, b, c \in Seq(Signs) : a = Prefix /\ b = e.cite /\ c = <<"]">>
      BY <1>1, <3>1
    <3>3. a \o b \o c \in Seq(Signs)
      OBVIOUS
    <3>. QED
      BY <3>1, <3>2, <3>3
  <2>. QED
    BY <2>1, <2>2, <2>3
<1>. QED
  BY <1>2 DEF ShowOp, Spreads

\* What events show is what each shows, one after the other.
LEMMA ShownOfIs ==
  ASSUME NEW evs \in Seq(Items)
  PROVE  ShownOf(evs) = Spread(ShowOp, evs)
<1>. DEFINE show(e) == IF "text" \in DOMAIN e THEN e.text ELSE Prefix \o e.cite \o <<"]">>
            rich == [i \in 1..Len(evs) |->
                       IF "text" \in DOMAIN evs[i] THEN evs[i] ELSE Resolve(evs[i].cite)]
<1>1. ShownOf(evs) = Concat([i \in 1..Len(rich) |-> show(rich[i])])
  BY DEF ShownOf, Each
<1>2. Len(rich) = Len(evs) /\ Len(evs) \in Nat
  OBVIOUS
<1>3. ASSUME NEW i \in 1..Len(evs) PROVE show(rich[i]) = ShowOp[evs[i]]
  <2>1. evs[i] \in Items
    OBVIOUS
  <2>2. rich[i] = IF "text" \in DOMAIN evs[i] THEN evs[i] ELSE Resolve(evs[i].cite)
    OBVIOUS
  <2>3. PICK e \in Items : e = evs[i]
    BY <2>1
  <2>. HIDE DEF rich
  <2>4. CASE "text" \in DOMAIN e
    BY <2>2, <2>3, <2>4, ShowOpIs
  <2>5. CASE "text" \notin DOMAIN e
    <3>1. rich[i] = Resolve(e.cite)
      BY <2>2, <2>3, <2>5
    <3>2. "text" \notin DOMAIN Resolve(e.cite) /\ Resolve(e.cite).cite = e.cite
      BY DEF Resolve
    <3>3. show(rich[i]) = Prefix \o e.cite \o <<"]">>
      BY <3>1, <3>2
    <3>. HIDE DEF show
    <3>. QED
      BY <2>3, <2>5, <3>3, ShowOpIs
  <2>. QED
    BY <2>4, <2>5
<1>. HIDE DEF rich, show
<1>4. [i \in 1..Len(rich) |-> show(rich[i])] = [i \in 1..Len(evs) |-> ShowOp[evs[i]]]
  BY <1>2, <1>3
<1>. QED
  BY <1>1, <1>4 DEF Spread

LEMMA ShownIs == Shown = ShownOf(events) /\ Shown' = ShownOf(events')
<1>1. Shown = ShownOf(events)
  BY DEF Shown, Enriched, ShownOf, Each
<1>2. Shown' = ShownOf(events')
  BY DEF Shown, Enriched, ShownOf, Each
<1>. QED
  BY <1>1, <1>2

\* A text event shows the text.
LEMMA TextIs ==
  ASSUME NEW s \in Seq(Signs)
  PROVE  /\ Text(s) \in Seq(Items) /\ Spread(ShowOp, Text(s)) = s
         /\ s # <<>> => [text |-> s] \in Items /\ ShowOp[[text |-> s]] = s
<1>1. PICK e : e = [text |-> s]
  OBVIOUS
<1>2. e \in Items /\ "text" \in DOMAIN e /\ e.text = s
  BY <1>1 DEF Items, Texts, Signs
<1>3. ShowOp[e] = s
  BY <1>2, ShowOpIs
<1>4. Spread(ShowOp, <<>>) = <<>> /\ Spread(ShowOp, <<e>>) = s
  BY <1>2, <1>3, ShowOpIs, SpreadFew
<1>5. <<>> \in Seq(Items) /\ <<e>> \in Seq(Items)
  BY <1>2
<1>6. CASE s = <<>>
  BY <1>4, <1>5, <1>6 DEF Text
<1>7. CASE s # <<>>
  BY <1>1, <1>2, <1>3, <1>4, <1>5, <1>7 DEF Text
<1>. QED
  BY <1>6, <1>7

\* A tag: its prefix, digits and a bracket.
LEMMA CitationIs ==
  ASSUME NEW tag \in Seq(Signs), NEW n \in Nat, n = Len(tag), n >= 1
  PROVE  IsCitation(tag) <=> /\ n >= 4 /\ tag[1] = "[" /\ tag[2] = "c" /\ tag[n] = "]"
                             /\ \A i \in 3..n - 1 : tag[i] = "1"
<1>1. PICK a, b \in Signs : a = "[" /\ b = "c"
  BY SignsAre
<1>2. Prefix = <<a, b>> /\ Len(Prefix) = 2
  BY <1>1 DEF Prefix
<1>3. ASSUME n >= 4 PROVE Upto(tag, 2) = Prefix <=> tag[1] = a /\ tag[2] = b
  <2>1. Upto(tag, 2) \in Seq(Signs) /\ Len(Upto(tag, 2)) = 2
    BY <1>3 DEF Upto
  <2>2. Upto(tag, 2)[1] = tag[1] /\ Upto(tag, 2)[2] = tag[2]
    BY <1>3 DEF Upto
  <2>3. PICK p \in Seq(Signs) : p = <<a, b>>
    <3>1. <<a, b>> \in Seq(Signs)
      BY <1>1
    <3>. QED
      BY <3>1
  <2>4. Len(p) = 2 /\ p[1] = a /\ p[2] = b
    BY <2>3
  <2>5. PICK u \in Seq(Signs) : u = Upto(tag, 2)
    BY <2>1
  <2>6. u = p <=> u[1] = p[1] /\ u[2] = p[2]
    <3>1. \A i \in 1..2 : i = 1 \/ i = 2
      OBVIOUS
    <3>2. Len(u) = 2
      BY <2>1, <2>5
    <3>3. ASSUME u[1] = p[1], u[2] = p[2] PROVE u = p
      <4>1. \A i \in 1..Len(u) : u[i] = p[i]
        BY <3>1, <3>2, <3>3
      <4>. QED
        BY <2>4, <3>2, <4>1, SeqEqual
    <3>. QED
      BY <3>3
  <2>. QED
    BY <1>2, <2>2, <2>3, <2>4, <2>5, <2>6
<1>4. IsCitation(tag) <=> /\ Upto(tag, 2) = Prefix /\ tag[n] = "]" /\ n > 2 + 1
                          /\ \A i \in 2 + 1..n - 1 : tag[i] = "1"
  BY <1>2 DEF IsCitation
<1>5. n > 2 + 1 <=> n >= 4
  OBVIOUS
<1>6. 2 + 1 = 3
  OBVIOUS
<1>. QED
  BY <1>1, <1>3, <1>4, <1>5, <1>6

\* Whether it becomes a citation or a text, a tag shows itself.
LEMMA TagIs ==
  ASSUME NEW tag \in Seq(Signs), Len(tag) >= 1
  PROVE  /\ Tag(tag) \in Seq(Items) /\ Spread(ShowOp, Tag(tag)) = tag
         /\ IsCitation(tag) => /\ [cite |-> SubSeq(tag, 3, Len(tag) - 1)] \in Cites
                               /\ ShowOp[[cite |-> SubSeq(tag, 3, Len(tag) - 1)]] = tag
<1>. PICK n \in Nat : n = Len(tag)
  OBVIOUS
<1>1. CASE ~IsCitation(tag)
  <2>1. Tag(tag) = Text(tag)
    BY <1>1 DEF Tag
  <2>. QED
    BY <1>1, <2>1, TextIs
<1>2. CASE IsCitation(tag)
  <2>1. /\ n >= 4 /\ tag[1] = "[" /\ tag[2] = "c" /\ tag[n] = "]"
        /\ \A i \in 3..n - 1 : tag[i] = "1"
    <3>1. n >= 1
      OBVIOUS
    <3>. QED
      BY <1>2, <3>1, CitationIs
  <2>2. PICK d : d = SubSeq(tag, 3, n - 1)
    OBVIOUS
  <2>3. d \in Seq({"1"}) /\ Len(d) = n - 3
    <3>1. 3 \in Int /\ n - 1 \in Int /\ \A i \in 3..n - 1 : tag[i] \in {"1"}
      BY <2>1
    <3>2. /\ SubSeq(tag, 3, n - 1) \in Seq({"1"})
          /\ Len(SubSeq(tag, 3, n - 1)) = IF 3 <= n - 1 THEN n - 1 - 3 + 1 ELSE 0
      BY <3>1, SubSeqProperties
    <3>. QED
      BY <2>1, <2>2, <3>2
  <2>4. PICK e : e = [cite |-> d]
    OBVIOUS
  <2>5. e \in Cites /\ e \in Items /\ "text" \notin DOMAIN e /\ e.cite = d
    BY <2>3, <2>4 DEF Items, Cites
  <2>6. ShowOp[e] = Prefix \o d \o <<"]">>
    BY <2>5, ShowOpIs
  <2>7. tag = Prefix \o d \o <<"]">>
    <3>1. PICK a, b, c \in Signs : a = "[" /\ b = "c" /\ c = "]"
      BY SignsAre
    <3>2. PICK p, z : p = <<a, b>> /\ z = <<c>>
      OBVIOUS
    <3>3. p \in Seq(Signs) /\ Len(p) = 2 /\ p[1] = a /\ p[2] = b
      BY <3>2
    <3>4. z \in Seq(Signs) /\ Len(z) = 1 /\ z[1] = c
      BY <3>2
    <3>5. d \in Seq(Signs) /\ Len(d) = n - 3 /\ \A i \in 1..n - 3 : d[i] = tag[i + 2]
      <4>1. \A i \in 1..n - 3 : d[i] = tag[i + 2]
        BY <2>1, <2>2
      <4>. QED
        BY <2>3, <4>1, SignsAre
    <3>6. PICK t : t = p \o d \o z
      OBVIOUS
    <3>7. PICK w : w = p \o d
      OBVIOUS
    <3>8. /\ w \in Seq(Signs) /\ Len(w) = n - 1 /\ w[1] = a /\ w[2] = b
          /\ \A i \in 3..n - 1 : w[i] = tag[i]
      <4>0. /\ w \in Seq(Signs) /\ Len(w) = 2 + (n - 3)
            /\ \A i \in 1..2 : w[i] = p[i]
            /\ \A i \in 1..n - 3 : w[2 + i] = d[i]
        <5>1. p \in Seq(Signs) /\ d \in Seq(Signs) /\ w = p \o d
          BY <3>3, <3>5, <3>7
        <5>2. /\ Len(w) = Len(p) + Len(d)
              /\ \A i \in 1..Len(p) : w[i] = p[i]
              /\ \A i \in 1..Len(d) : w[Len(p) + i] = d[i]
          BY <5>1
        <5>3. w \in Seq(Signs)
          BY <3>3, <3>5, <3>7
        <5>. QED
          BY <3>3, <3>5, <3>7, <5>2, <5>3
      <4>1. w \in Seq(Signs) /\ Len(w) = n - 1 /\ w[1] = a /\ w[2] = b
        <5>1. 1 \in 1..2 /\ 2 \in 1..2 /\ 2 + (n - 3) = n - 1
          OBVIOUS
        <5>. QED
          BY <4>0, <5>1, <3>3
      <4>2. \A i \in 3..n - 1 : w[i] = d[i - 2]
        <5>1. \A i \in 3..n - 1 : i - 2 \in 1..n - 3 /\ 2 + (i - 2) = i
          OBVIOUS
        <5>. QED
          BY <4>0, <5>1
      <4>3. \A i \in 3..n - 1 : i - 2 \in 1..n - 3 /\ (i - 2) + 2 = i
        OBVIOUS
      <4>. QED
        BY <3>5, <4>1, <4>2, <4>3
    <3>9. t \in Seq(Signs) /\ Len(t) = n /\ t[n] = c /\ \A i \in 1..n - 1 : t[i] = w[i]
      <4>1. t = w \o z
        BY <3>6, <3>7
      <4>2. /\ t \in Seq(Signs) /\ Len(t) = n - 1 + 1
            /\ \A i \in 1..n - 1 : t[i] = w[i]
            /\ \A i \in 1..1 : t[n - 1 + i] = z[i]
        <5>1. w \in Seq(Signs) /\ z \in Seq(Signs) /\ t = w \o z
          BY <3>4, <3>8, <4>1
        <5>2. /\ Len(t) = Len(w) + Len(z)
              /\ \A i \in 1..Len(w) : t[i] = w[i]
              /\ \A i \in 1..Len(z) : t[Len(w) + i] = z[i]
          BY <5>1
        <5>3. t \in Seq(Signs)
          BY <3>4, <3>8, <4>1
        <5>. QED
          BY <3>4, <3>8, <4>1, <5>2, <5>3
      <4>3. 1 \in 1..1 /\ n - 1 + 1 = n
        OBVIOUS
      <4>. QED
        BY <3>4, <4>2, <4>3
    <3>10. \A i \in 1..n : t[i] = tag[i]
      <4>1. \A i \in 1..n : i = 1 \/ i = 2 \/ i \in 3..n - 1 \/ i = n
        OBVIOUS
      <4>2. 1 \in 1..n - 1 /\ 2 \in 1..n - 1 /\ \A i \in 3..n - 1 : i \in 1..n - 1
        BY <2>1
      <4>3. t[1] = tag[1] /\ t[2] = tag[2] /\ t[n] = tag[n]
        BY <2>1, <3>1, <3>8, <3>9, <4>2
      <4>4. \A i \in 3..n - 1 : t[i] = tag[i]
        BY <3>8, <3>9, <4>2
      <4>. QED
        BY <4>1, <4>3, <4>4
    <3>11. t = tag
      BY <3>9, <3>10, SeqEqual
    <3>12. Prefix = <<a, b>>
      BY <3>1 DEF Prefix
    <3>. QED
      BY <3>1, <3>2, <3>6, <3>11, <3>12
  <2>8. Tag(tag) = <<e>>
    BY <1>2, <2>2, <2>4 DEF Tag
  <2>9. Spread(ShowOp, <<e>>) = tag
    BY <2>5, <2>6, <2>7, ShowOpIs, SpreadFew
  <2>10. <<e>> \in Seq(Items)
    BY <2>5
  <2>. QED
    BY <2>2, <2>4, <2>5, <2>6, <2>7, <2>8, <2>9, <2>10
<1>. QED
  BY <1>1, <1>2

-------------------------------------------------------------------------------
\* The first and the last of some places.
LEMMA FirstIs ==
  ASSUME NEW T \in SUBSET Nat, T # {}
  PROVE  First(T) \in T /\ \A j \in T : First(T) <= j
<1>1. \E x \in T : \A y \in T : x <= y
  BY Smallest
<1>. QED
  BY <1>1 DEF First

\* Longest is the last of them.
LEMMA LongestIs ==
  ASSUME NEW n \in Nat, NEW T \in SUBSET (1..n), T # {}
  PROVE  Longest(T) \in T /\ \A j \in T : j <= Longest(T)
<1>. DEFINE R == {n - i : i \in T}
<1>1. R \in SUBSET Nat /\ R # {}
  <2>1. \A i \in T : n - i \in Nat
    OBVIOUS
  <2>2. PICK i \in T : TRUE
    OBVIOUS
  <2>3. n - i \in R
    OBVIOUS
  <2>4. R \in SUBSET Nat
    BY <2>1
  <2>. QED
    BY <2>3, <2>4
<1>2. PICK r \in R : \A q \in R : r <= q
  <2>. HIDE DEF R
  <2>. QED
    BY <1>1, Smallest
<1>3. PICK x \in T : r = n - x
  BY <1>2
<1>4. \A y \in T : y <= x
  <2>. TAKE y \in T
  <2>1. n - y \in R
    OBVIOUS
  <2>2. n - x <= n - y
    BY <1>2, <1>3, <2>1
  <2>. QED
    BY <2>2
<1>5. \E z \in T : \A y \in T : y <= z
  BY <1>4
<1>. QED
  BY <1>5 DEF Longest

-------------------------------------------------------------------------------
\* The frames q are what is in the buffer b and, as characters u, on the wire w.
Row(rp, sd, en, w, b, sn, u, q) ==
  /\ u \in Seq(Letters) /\ q \in Seq(Pieces) /\ b \in Seq(Letters)
  /\ w = Enc(u)
  /\ b \o u = Spread(FrameOp, q)
  /\ sn \o Spread(TextOp, q) = Upto(rp, sd)
  /\ \A i \in 1..Len(q) : q[i].last => i = Len(q) /\ en

Kept(rp, sd, en, w, b, sn, a, rs) ==
  /\ \E rest \in Seq(Chars) : IsConcat(rp, sn, rest)
  /\ en => sd = Len(rp)
  /\ rs => sn = rp
  /\ a \in {"read", "drain"} => ~rs /\ \E u, q : Row(rp, sd, en, w, b, sn, u, q)

\* The types of a row.
LEMMA RowTyped ==
  ASSUME NEW rp, NEW sd, NEW en, NEW w, NEW b, NEW sn, NEW u, NEW q, Row(rp, sd, en, w, b, sn, u, q)
  PROVE  /\ Spread(FrameOp, q) \in Seq(Letters) /\ Spread(TextOp, q) \in Seq(Chars)
         /\ u \in Seq(Letters) /\ q \in Seq(Pieces) /\ b \in Seq(Letters)
<1>1. u \in Seq(Letters) /\ q \in Seq(Pieces) /\ b \in Seq(Letters)
  BY DEF Row
<1>. QED
  BY <1>1, PieceIs, SpreadIs

\* A frame is sent.
LEMMA SayKeeps ==
  ASSUME NEW rp \in Seq(Chars), NEW sd \in Nat, NEW k \in Nat, sd + k <= Len(rp), NEW last \in BOOLEAN,
         last => sd + k = Len(rp), NEW e \in LineEnds, NEW w, NEW b, NEW sn \in Seq(Signs), NEW u, NEW q,
         Row(rp, sd, FALSE, w, b, sn, u, q)
  PROVE  \E v, r : Row(rp, sd + k, last, w \o Frame(SubSeq(rp, sd + 1, sd + k), last) \o e, b, sn, v, r)
<1>0. PICK s \in Seq(Chars) : s = SubSeq(rp, sd + 1, sd + k)
  <2>1. SubSeq(rp, sd + 1, sd + k) \in Seq(Chars)
    OBVIOUS
  <2>. QED
    BY <2>1
<1>1. PICK c \in Pieces : c = [s |-> s, last |-> last, e |-> e]
  BY DEF Pieces
<1>2. c.s = s /\ c.last = last /\ c.e = e
  BY <1>1
<1>3. PICK f, F, T : /\ f = Inner(s, last) \o e /\ F = Spread(FrameOp, q) /\ T = Spread(TextOp, q)
  OBVIOUS
<1>4. /\ f \in Seq(Letters) /\ FrameOp[c] = f /\ TextOp[c] = s
      /\ F \in Seq(Letters) /\ T \in Seq(Chars)
      /\ u \in Seq(Letters) /\ q \in Seq(Pieces) /\ b \in Seq(Letters)
  <2>1. Inner(s, last) \in Seq(Letters) /\ e \in Seq(Letters)
    BY BodyTyped, LineEndIs
  <2>2. FrameOp[c] = f /\ TextOp[c] = s
    BY <1>2, <1>3, PieceIs
  <2>3. f \in Seq(Letters)
    BY <1>3, <2>1
  <2>. QED
    BY <1>3, <2>2, <2>3, RowTyped
<1>5. PICK v, r : v = u \o f /\ r = q \o <<c>>
  OBVIOUS
<1>6. v \in Seq(Letters) /\ r \in Seq(Pieces) /\ w = Enc(u) /\ b \o u = F /\ sn \o T = Upto(rp, sd)
  <2>1. v \in Seq(Letters)
    BY <1>4, <1>5
  <2>2. r \in Seq(Pieces)
    BY <1>4, <1>5
  <2>. QED
    BY <1>3, <2>1, <2>2 DEF Row
<1>7. w \o Frame(s, last) \o e = Enc(v)
  <2>1. Enc(v) = Enc(u) \o Enc(f)
    BY <1>4, <1>5, EncJoins
  <2>2. Frame(s, last) \o e = Enc(f)
    BY <1>3, FrameIs
  <2>3. PICK x, y, z \in Seq(Bytes) : x = w /\ y = Frame(s, last) /\ z = e
    <3>1. w \in Seq(Bytes)
      BY <1>4, <1>6, EncIs
    <3>2. e \in Seq(Bytes) /\ <<"{">> \in Seq(Bytes) /\ <<"}">> \in Seq(Bytes) /\ <<"stop">> \in Seq(Bytes)
      <4>1. Marks \subseteq Bytes /\ "{" \in Marks /\ "}" \in Marks /\ "stop" \in Marks
        BY DEF Bytes, Marks
      <4>2. \A A, B : A \subseteq B => Seq(A) \subseteq Seq(B)
        OBVIOUS
      <4>3. \A A : \A a \in A : <<a>> \in Seq(A)
        OBVIOUS
      <4>. QED
        BY <4>1, <4>2, <4>3, LineEndIs
    <3>3. Enc(s) \in Seq(Bytes)
      BY CharsAre, EncIs
    <3>4. PICK g, h, i, j \in Seq(Bytes) : /\ g = <<"{">> /\ h = Enc(s) /\ j = <<"}">>
                                           /\ i = IF last THEN <<"stop">> ELSE <<>>
      <4>1. <<>> \in Seq(Bytes)
        OBVIOUS
      <4>. QED
        BY <3>2, <3>3, <4>1
    <3>5. Frame(s, last) = g \o h \o i \o j
      BY <3>4 DEF Frame, Enc
    <3>6. g \o h \o i \o j \in Seq(Bytes)
      OBVIOUS
    <3>. QED
      BY <3>1, <3>2, <3>5, <3>6
  <2>4. (x \o y) \o z = x \o (y \o z)
    OBVIOUS
  <2>. QED
    BY <1>6, <2>1, <2>2, <2>3, <2>4
<1>8. b \o v = Spread(FrameOp, r)
  <2>1. Spread(FrameOp, q \o <<c>>) = Spread(FrameOp, q) \o FrameOp[c]
    <3>1. q \in Seq(Pieces) /\ c \in Pieces /\ Spreads(FrameOp, Pieces, Letters)
      BY <1>4, PieceIs
    <3>2. SpreadsLast(FrameOp, q, c)
      BY <3>1, SpreadLast
    <3>. QED
      BY <3>2 DEF SpreadsLast
  <2>2. Spread(FrameOp, r) = F \o f
    BY <1>3, <1>4, <1>5, <2>1
  <2>3. (b \o u) \o f = b \o (u \o f)
    <3>1. b \in Seq(Letters) /\ u \in Seq(Letters) /\ f \in Seq(Letters)
      BY <1>4
    <3>. QED
      BY <3>1
  <2>. QED
    BY <1>5, <1>6, <2>2, <2>3
<1>9. sn \o Spread(TextOp, r) = Upto(rp, sd + k)
  <2>1. Spread(TextOp, q \o <<c>>) = Spread(TextOp, q) \o TextOp[c]
    <3>1. q \in Seq(Pieces) /\ c \in Pieces /\ Spreads(TextOp, Pieces, Chars)
      BY <1>4, PieceIs
    <3>2. SpreadsLast(TextOp, q, c)
      BY <3>1, SpreadLast
    <3>. QED
      BY <3>2 DEF SpreadsLast
  <2>2. Spread(TextOp, r) = T \o s
    BY <1>3, <1>4, <1>5, <2>1
  <2>3. T \in Seq(Signs) /\ s \in Seq(Signs)
    BY <1>4, SignsAre
  <2>4. (sn \o T) \o s = sn \o (T \o s)
    BY <2>3
  <2>5. Upto(rp, sd) \o SubSeq(rp, sd + 1, sd + k) = Upto(rp, sd + k)
    <3>1. PICK m \in Nat : m = sd + k
      OBVIOUS
    <3>2. sd <= m /\ m <= Len(rp)
      BY <3>1
    <3>3. Upto(rp, sd) \o SubSeq(rp, sd + 1, m) = Upto(rp, m)
      BY <3>2, UptoGrows
    <3>. QED
      BY <3>1, <3>3
  <2>. QED
    BY <1>0, <1>6, <2>2, <2>4, <2>5
<1>10. \A i \in 1..Len(r) : r[i].last => i = Len(r) /\ last
  <2>1. \A i \in 1..Len(q) : ~q[i].last
    BY DEF Row
  <2>2. Len(q) \in Nat /\ Len(r) = Len(q) + 1 /\ r[Len(q) + 1] = c /\ \A i \in 1..Len(q) : r[i] = q[i]
    BY <1>4, <1>5
  <2>3. \A i \in 1..Len(r) : i \in 1..Len(q) \/ i = Len(q) + 1
    BY <2>2
  <2>. QED
    BY <1>2, <2>1, <2>2, <2>3
<1>11. Row(rp, sd + k, last, w \o Frame(s, last) \o e, b, sn, v, r)
  BY <1>4, <1>6, <1>7, <1>8, <1>9, <1>10 DEF Row
<1>. QED
  BY <1>0, <1>11

\* A read that ends between two characters.
LEMMA ReadKeeps ==
  ASSUME NEW rp, NEW sd, NEW en, NEW w, NEW b, NEW sn, NEW u, NEW q, Row(rp, sd, en, w, b, sn, u, q),
         NEW n \in 1..Len(w), w[n] # "w1"
  PROVE  \E v : Row(rp, sd, en, From(w, n + 1), b \o Decode(Upto(w, n)), sn, v, q)
<1>1. u \in Seq(Letters) /\ b \in Seq(Letters) /\ w = Enc(u) /\ b \o u = Spread(FrameOp, q)
  BY DEF Row
<1>2. PICK k \in 0..Len(u) : Upto(w, n) = Enc(Upto(u, k)) /\ From(w, n + 1) = Enc(From(u, k + 1))
  BY <1>1, ReadSplits
<1>3. PICK x, v : x = Upto(u, k) /\ v = From(u, k + 1)
  OBVIOUS
<1>4. k \in Nat /\ k <= Len(u)
  BY <1>1
<1>5. x \in Seq(Letters) /\ v \in Seq(Letters)
  <2>1. \A i \in 1..Len(u) : u[i] \in Letters
    BY <1>1
  <2>2. Len(u) \in Nat
    BY <1>1
  <2>. QED
    BY <1>1, <1>3, <1>4, <2>1, <2>2 DEF Upto, From
<1>6. u = x \o v
  BY <1>1, <1>3, <1>4, CutJoins
<1>7. Decode(Upto(w, n)) = x
  BY <1>2, <1>3, <1>5, Decoded
<1>8. (b \o x) \o v = b \o (x \o v) /\ b \o x \in Seq(Letters)
  <2>1. b \in Seq(Letters) /\ x \in Seq(Letters) /\ v \in Seq(Letters)
    BY <1>1, <1>5
  <2>. QED
    BY <2>1
<1>9. (b \o x) \o v = Spread(FrameOp, q)
  BY <1>1, <1>6, <1>8
<1>10. From(w, n + 1) = Enc(v)
  BY <1>2, <1>3
<1>11. Row(rp, sd, en, From(w, n + 1), b \o x, sn, v, q)
  BY <1>5, <1>8, <1>9, <1>10 DEF Row
<1>. QED
  BY <1>7, <1>11

\* The first of the frames of a row, and what is left.
Head1(rp, sd, en, b, sn, u, q, s, last, e, x, t) ==
  /\ s \in Seq(Chars) /\ last \in BOOLEAN /\ e \in LineEnds
  /\ From(q, 2) \in Seq(Pieces) /\ x \in Seq(Letters) /\ t \in Seq(Chars)
  /\ x = Spread(FrameOp, From(q, 2)) /\ t = Spread(TextOp, From(q, 2))
  /\ b \o u = Inner(s, last) \o e \o x
  /\ (sn \o s) \o t = Upto(rp, sd)
  /\ last => en /\ t = <<>>
  /\ \A i \in 1..Len(From(q, 2)) : From(q, 2)[i].last => i = Len(From(q, 2)) /\ en

\* A row of frames has a first frame.
LEMMA RowHead ==
  ASSUME NEW rp, NEW sd, NEW en, NEW w, NEW b, NEW sn \in Seq(Signs), NEW u, NEW q,
         Row(rp, sd, en, w, b, sn, u, q), Len(q) > 0
  PROVE  \E s, last, e, x, t : Head1(rp, sd, en, b, sn, u, q, s, last, e, x, t)
<1>1. /\ q \in Seq(Pieces) /\ b \o u = Spread(FrameOp, q) /\ sn \o Spread(TextOp, q) = Upto(rp, sd)
      /\ \A i \in 1..Len(q) : q[i].last => i = Len(q) /\ en
  BY DEF Row
<1>2. PICK c, r : c = q[1] /\ r = From(q, 2)
  OBVIOUS
<1>3. /\ c \in Pieces /\ r \in Seq(Pieces) /\ Len(q) \in Nat /\ Len(r) = Len(q) - 1
      /\ \A i \in 1..Len(r) : r[i] = q[i + 1]
  BY <1>1, <1>2, FirstOf
<1>4. PICK s, last, e : s = c.s /\ last = c.last /\ e = c.e
  OBVIOUS
<1>5. s \in Seq(Chars) /\ last \in BOOLEAN /\ e \in LineEnds
  BY <1>3, <1>4 DEF Pieces
<1>6. PICK x, t : x = Spread(FrameOp, r) /\ t = Spread(TextOp, r)
  OBVIOUS
<1>7. x \in Seq(Letters) /\ t \in Seq(Chars)
  BY <1>3, <1>6, PieceIs, SpreadIs
<1>8. Spread(FrameOp, q) = (Inner(s, last) \o e) \o x
  <2>1. SpreadsFirst(FrameOp, q)
    BY <1>1, PieceIs, SpreadFirst
  <2>2. FrameOp[c] = Inner(s, last) \o e
    BY <1>3, <1>4, PieceIs
  <2>. QED
    BY <1>2, <1>6, <2>1, <2>2, Zenon DEF SpreadsFirst
<1>9. Spread(TextOp, q) = s \o t
  <2>1. SpreadsFirst(TextOp, q)
    BY <1>1, PieceIs, SpreadFirst
  <2>2. TextOp[c] = s
    BY <1>3, <1>4, PieceIs
  <2>. QED
    BY <1>2, <1>6, <2>1, <2>2, Zenon DEF SpreadsFirst
<1>10. (sn \o s) \o t = Upto(rp, sd)
  <2>1. s \in Seq(Signs) /\ t \in Seq(Signs) /\ sn \in Seq(Signs)
    BY <1>5, <1>7, SignsAre
  <2>2. (sn \o s) \o t = sn \o (s \o t)
    BY <2>1
  <2>. QED
    BY <1>1, <1>9, <2>2, Zenon
<1>11. b \o u = Inner(s, last) \o e \o x
  BY <1>1, <1>8, Zenon
<1>12. last => en /\ t = <<>>
  <2>. SUFFICES ASSUME last PROVE en /\ t = <<>>
    OBVIOUS
  <2>1. 1 \in 1..Len(q)
    BY <1>3
  <2>2. 1 = Len(q) /\ en
    <3>1. q[1].last
      BY <1>2, <1>4
    <3>. QED
      BY <1>1, <2>1, <3>1
  <2>3. Len(r) = 0
    <3>1. Len(r) = Len(q) - 1 /\ Len(q) = 1
      BY <1>3, <2>2, Zenon
    <3>. QED
      BY <3>1
  <2>4. r = <<>>
    <3>1. r \in Seq(Pieces)
      BY <1>3
    <3>. QED
      BY <2>3, <3>1
  <2>5. Spread(TextOp, <<>>) = <<>>
    BY PieceIs, SpreadEmpty
  <2>. QED
    BY <1>6, <2>2, <2>4, <2>5, Zenon
<1>13. \A i \in 1..Len(r) : r[i].last => i = Len(r) /\ en
  <2>1. \A i \in 1..Len(r) : i + 1 \in 1..Len(q) /\ (i + 1 = Len(q) => i = Len(r))
    BY <1>3
  <2>. QED
    BY <1>1, <1>3, <2>1
<1>14. Head1(rp, sd, en, b, sn, u, q, s, last, e, x, t)
  BY <1>2, <1>3, <1>5, <1>6, <1>7, <1>10, <1>11, <1>12, <1>13 DEF Head1
<1>. QED
  BY <1>14

\* Without frames there is nothing to read an event from.
LEMMA NoFrames ==
  ASSUME NEW rp, NEW sd, NEW en, NEW w, NEW b, NEW sn, NEW u, NEW q,
         Row(rp, sd, en, w, b, sn, u, q), ~(Len(q) > 0)
  PROVE  b = <<>> /\ EventEnds(b) = {}
<1>1. q \in Seq(Pieces) /\ b \o u = Spread(FrameOp, q) /\ b \in Seq(Letters) /\ u \in Seq(Letters)
  BY DEF Row
<1>2. q = <<>>
  BY <1>1
<1>3. Spread(FrameOp, <<>>) = <<>>
  BY PieceIs, SpreadEmpty
<1>4. Len(b \o u) = 0
  <2>1. b \o u = <<>>
    BY <1>1, <1>2, <1>3, Zenon
  <2>2. Len(<<>>) = 0
    OBVIOUS
  <2>. QED
    BY <2>1, <2>2, Zenon
<1>5. Len(b) = 0
  BY <1>1, <1>4
<1>6. b = <<>>
  BY <1>1, <1>5
<1>7. \A i \in Nat : \A x, y : ~Two(b, x, i) /\ ~Four(b, y, x, i)
  BY <1>5 DEF Two, Four
<1>. QED
  BY <1>1, <1>6, <1>7, EndIs

\* Sequences that are told element by element to be joined.
LEMMA ConcatWhen ==
  ASSUME NEW S, NEW f \in Seq(S), NEW u \in Seq(S), NEW c \in Seq(S), Len(c) = Len(f) + Len(u),
         \A i \in 1..Len(f) : c[i] = f[i], \A i \in 1..Len(u) : c[Len(f) + i] = u[i]
  PROVE  IsConcat(c, f, u)
<1>1. PICK g : g = f \o u
  OBVIOUS
<1>2. g \in Seq(S) /\ Len(g) = Len(f) + Len(u)
  BY <1>1
<1>3. ASSUME NEW i \in 1..Len(g) PROVE g[i] = c[i]
  <2>0. Len(f) \in Nat /\ Len(u) \in Nat /\ i \in Nat
    BY <1>2
  <2>1. CASE i <= Len(f)
    BY <1>1, <1>2, <2>0, <2>1
  <2>2. CASE ~(i <= Len(f))
    <3>1. PICK j \in 1..Len(u) : i = Len(f) + j
      <4>1. i - Len(f) \in 1..Len(u) /\ i = Len(f) + (i - Len(f))
        BY <1>2, <2>0, <2>2
      <4>. QED
        BY <4>1
    <3>2. g[Len(f) + j] = u[j]
      BY <1>1
    <3>. QED
      BY <3>1, <3>2
  <2>. QED
    BY <2>1, <2>2
<1>4. g = c
  BY <1>2, <1>3, SeqEqual
<1>. QED
  BY <1>1, <1>4 DEF IsConcat

\* Cuts of sequences.
LEMMA CutAt ==
  ASSUME NEW S, NEW a \in Seq(S), NEW c \in Seq(S), NEW b \in Seq(S), NEW u \in Seq(S),
         NEW p, IsConcat(p, b, u), IsConcat(p, a, c), Len(b) >= Len(a)
  PROVE  /\ Upto(b, Len(a)) = a /\ From(b, Len(a) + 1) \in Seq(S)
         /\ IsConcat(c, From(b, Len(a) + 1), u)
<1>2. PICK k, m, n, l \in Nat : k = Len(a) /\ m = Len(b) /\ n = Len(c) /\ l = Len(u)
  OBVIOUS
<1>3. p \in Seq(S) /\ Len(p) = k + n /\ Len(p) = m + l
  BY <1>2, ConcatAt
<1>4. \A i \in 1..k : p[i] = a[i]
  BY <1>2, ConcatAt
<1>5. \A i \in 1..n : p[k + i] = c[i]
  BY <1>2, ConcatAt
<1>6. \A i \in 1..m : p[i] = b[i]
  BY <1>2, ConcatAt
<1>7. \A i \in 1..l : p[m + i] = u[i]
  BY <1>2, ConcatAt
<1>8. PICK v, f : v = Upto(b, k) /\ f = From(b, k + 1)
  OBVIOUS
<1>a. k <= m
  BY <1>2
<1>9. v \in Seq(S) /\ Len(v) = k /\ \A i \in 1..k : v[i] = b[i]
  BY <1>2, <1>8, <1>a DEF Upto
<1>10. f \in Seq(S) /\ Len(f) = m - k /\ \A i \in 1..m - k : f[i] = b[k + i]
  BY <1>2, <1>8, <1>a DEF From
<1>11. v = a
  <2>1. \A i \in 1..k : v[i] = a[i]
    BY <1>4, <1>6, <1>9, <1>a
  <2>. QED
    BY <1>2, <1>9, <2>1
<1>12. IsConcat(c, f, u)
  <2>0. k + n = m + l
    BY <1>3
  <2>1. Len(c) = Len(f) + Len(u)
    <3>1. Len(c) = n /\ Len(f) = m - k /\ Len(u) = l
      BY <1>2, <1>10
    <3>2. n = (m - k) + l
      BY <2>0
    <3>. QED
      BY <3>1, <3>2
  <2>2. \A i \in 1..Len(f) : c[i] = f[i]
    <3>1. ASSUME NEW i \in 1..m - k PROVE i \in 1..n /\ k + i \in 1..m
      BY <2>0, <1>a
    <3>. QED
      BY <1>5, <1>6, <1>10, <3>1
  <2>3. \A i \in 1..Len(u) : c[Len(f) + i] = u[i]
    <3>1. ASSUME NEW i \in 1..l
          PROVE  (m - k) + i \in 1..n /\ k + ((m - k) + i) = m + i /\ Len(f) + i = (m - k) + i
      BY <2>0, <1>10, <1>a
    <3>. QED
      BY <1>2, <1>5, <1>7, <3>1
  <2>. QED
    BY <1>10, <2>1, <2>2, <2>3, ConcatWhen
<1>. QED
  BY <1>2, <1>8, <1>10, <1>11, <1>12

\* How an event is found in the buffer.
Cut(b)    == CHOOSE e \in EventEnds(b) : \A f \in EventEnds(b) : e[1] <= f[1]
Popped(b) == Upto(b, Cut(b)[1] - 1)
Left(b)   == From(b, Cut(b)[1] + Cut(b)[2])

\* When the first frame and its line end are in the buffer, it is what PopEvent takes.
LEMMA CutIs ==
  ASSUME NEW s \in Seq(Chars), NEW last \in BOOLEAN, NEW e \in LineEnds, NEW x \in Seq(Letters),
         NEW b \in Seq(Letters), NEW u \in Seq(Letters), IsConcat(b \o u, Inner(s, last) \o e, x),
         EventEnds(b) # {}
  PROVE  Popped(b) = Inner(s, last) /\ Left(b) \in Seq(Letters) /\ IsConcat(x, Left(b), u)
<1>1. PICK body, l, k : body = Inner(s, last) /\ l = Len(body) /\ k = Len(e)
  OBVIOUS
<1>2. PICK a, p : a = body \o e /\ p = b \o u
  OBVIOUS
<1>9. IsConcat(a, body, e) /\ IsConcat(p, a, x) /\ IsConcat(p, b, u)
  BY <1>1, <1>2 DEF IsConcat
<1>3. /\ <<l + 1, k>> \in EventEnds(b) /\ Len(b) >= l + k
      /\ \A f \in EventEnds(b) : f[1] \in Nat /\ l + 1 <= f[1]
      /\ \A f \in EventEnds(b) : f[1] = l + 1 => f = <<l + 1, k>>
      /\ l \in Nat /\ k \in {2, 4} /\ Len(b) \in Nat
  <2>1. Begins(s, last, e, x, b, u, body, l, a, p)
    BY <1>1, <1>9 DEF Begins
  <2>2. EndsAt(b, l, Len(e))
    BY <2>1, FirstEnd
  <2>. QED
    BY <1>1, <2>2 DEF EndsAt
<1>4. \E g \in EventEnds(b) : \A f \in EventEnds(b) : g[1] <= f[1]
  <2>1. \A f \in EventEnds(b) : <<l + 1, k>>[1] <= f[1]
    BY <1>3
  <2>. QED
    BY <1>3, <2>1
<1>5. Cut(b) \in EventEnds(b) /\ \A f \in EventEnds(b) : Cut(b)[1] <= f[1]
  BY <1>4 DEF Cut
<1>6. Cut(b) = <<l + 1, k>>
  <2>1. Cut(b)[1] <= <<l + 1, k>>[1]
    BY <1>3, <1>5
  <2>2. Cut(b)[1] \in Nat /\ l + 1 <= Cut(b)[1]
    BY <1>3, <1>5
  <2>3. Cut(b)[1] = l + 1
    BY <1>3, <2>1, <2>2
  <2>. QED
    BY <1>3, <1>5, <2>3
<1>7. Popped(b) = Upto(b, l) /\ Left(b) = From(b, (l + k) + 1)
  <2>1. Cut(b)[1] - 1 = l /\ Cut(b)[1] + Cut(b)[2] = (l + k) + 1
    BY <1>3, <1>6
  <2>. QED
    BY <2>1 DEF Popped, Left
<1>8. body \in Seq(Letters) /\ e \in Seq(Letters)
  BY <1>1, BodyTyped, LineEndIs
<1>10. a \in Seq(Letters) /\ Len(a) = l + k /\ Upto(a, l) = body
  <2>1. a \in Seq(Letters) /\ Len(a) = Len(body) + Len(e)
    BY <1>8, <1>9, ConcatAt
  <2>2. /\ a = body \o e /\ body \in Seq(Letters) /\ e \in Seq(Letters)
    BY <1>2, <1>8
  <2>3. Upto(a, Len(body)) = body
    BY <2>2 DEF Upto
  <2>. QED
    BY <1>1, <2>1, <2>3
<1>12. Upto(b, Len(a)) = a /\ From(b, Len(a) + 1) \in Seq(Letters) /\ IsConcat(x, From(b, Len(a) + 1), u)
  <2>1. Len(b) >= Len(a)
    BY <1>3, <1>10
  <2>. QED
    BY <1>9, <1>10, <2>1, CutAt
<1>13. Upto(b, l) = body
  <2>1. Upto(Upto(b, l + k), l) = Upto(b, l)
    BY <1>3 DEF Upto
  <2>. QED
    BY <1>10, <1>12, <2>1
<1>. QED
  BY <1>1, <1>7, <1>10, <1>12, <1>13

\* What is taken from the frames goes on in the answer, and the last of it ends it.
LEMMA TakenIs ==
  ASSUME NEW rp \in Seq(Chars), NEW sd \in 0..Len(rp), NEW en, en => sd = Len(rp),
         NEW z \in Seq(Signs), NEW t \in Seq(Chars), IsConcat(Upto(rp, sd), z, t), NEW last, last => en /\ t = <<>>
  PROVE  (\E rest \in Seq(Chars) : IsConcat(rp, z, rest)) /\ (last => z = rp)
<1>0. z \o t = Upto(rp, sd)
  BY Zenon DEF IsConcat
<1>1. \E rest \in Seq(Chars) : IsConcat(rp, z, rest)
  <2>1. PICK v \in Seq(Chars) : v = From(rp, sd + 1)
    <3>1. From(rp, sd + 1) \in Seq(Chars)
      BY DEF From
    <3>. QED
      BY <3>1
  <2>2. rp = Upto(rp, sd) \o v
    <3>1. sd \in Nat /\ sd <= Len(rp)
      OBVIOUS
    <3>2. IsConcat(rp, Upto(rp, sd), From(rp, sd + 1))
      BY <3>1, CutConcat
    <3>. QED
      BY <2>1, <3>2, Zenon DEF IsConcat
  <2>3. t \in Seq(Signs) /\ v \in Seq(Signs)
    BY SignsAre
  <2>4. (z \o t) \o v = z \o (t \o v)
    BY <2>3
  <2>5. t \o v \in Seq(Chars)
    OBVIOUS
  <2>6. rp = z \o (t \o v)
    BY <1>0, <2>2, <2>4, Zenon
  <2>. QED
    BY <2>5, <2>6, Zenon DEF IsConcat
<1>2. ASSUME last PROVE z = rp
  <2>1. t = <<>> /\ sd = Len(rp)
    BY <1>2
  <2>2. z \o <<>> = z
    OBVIOUS
  <2>3. Upto(rp, Len(rp)) = rp
    BY DEF Upto
  <2>. QED
    BY <1>0, <2>1, <2>2, <2>3, Zenon
<1>. QED
  BY <1>1, <1>2

\* An event is taken from the buffer.
LEMMA PopKeeps ==
  ASSUME NEW rp \in Seq(Chars), NEW sd \in 0..Len(rp), NEW en, en => sd = Len(rp),
         NEW w, NEW b, NEW sn \in Seq(Signs), NEW u, NEW q,
         Row(rp, sd, en, w, b, sn, u, q), EventEnds(b) # {}, NEW a,
         a \in {"read", "drain"} => ~Stops(Popped(b))
  PROVE  /\ Content(Popped(b)) \in Seq(Chars)
         /\ Kept(rp, sd, en, w, Left(b), sn \o Content(Popped(b)), a, Stops(Popped(b)))
<1>1. Len(q) > 0
  BY NoFrames
<1>2. PICK s, last, e, x, t : Head1(rp, sd, en, b, sn, u, q, s, last, e, x, t)
  BY <1>1, RowHead
<1>3. PICK r : r = From(q, 2)
  OBVIOUS
<1>4. /\ s \in Seq(Chars) /\ last \in BOOLEAN /\ e \in LineEnds
      /\ r \in Seq(Pieces) /\ x \in Seq(Letters) /\ t \in Seq(Chars)
      /\ x = Spread(FrameOp, r) /\ t = Spread(TextOp, r)
      /\ last => en /\ t = <<>>
      /\ \A i \in 1..Len(r) : r[i].last => i = Len(r) /\ en
  BY <1>2, <1>3 DEF Head1
<1>5. (sn \o s) \o t = Upto(rp, sd)
  BY <1>2 DEF Head1
<1>6. u \in Seq(Letters) /\ b \in Seq(Letters) /\ w = Enc(u)
  BY DEF Row
<1>7. IsConcat(b \o u, Inner(s, last) \o e, x)
  BY <1>2 DEF Head1, IsConcat
<1>8. Popped(b) = Inner(s, last) /\ Left(b) \in Seq(Letters) /\ IsConcat(x, Left(b), u)
  BY <1>4, <1>6, <1>7, CutIs
<1>9. Content(Popped(b)) = s /\ Stops(Popped(b)) = last
  BY <1>4, <1>8, ContentIs
<1>10. Row(rp, sd, en, w, Left(b), sn \o s, u, r)
  BY <1>4, <1>5, <1>6, <1>8 DEF Row, IsConcat
<1>11. PICK z \in Seq(Signs) : z = sn \o s
  <2>1. s \in Seq(Signs)
    BY <1>4, SignsAre
  <2>2. sn \o s \in Seq(Signs)
    BY <2>1
  <2>. QED
    BY <2>2
<1>12. (\E rest \in Seq(Chars) : IsConcat(rp, z, rest)) /\ (last => z = rp)
  <2>1. IsConcat(Upto(rp, sd), z, t)
    BY <1>5, <1>11, Zenon DEF IsConcat
  <2>. QED
    BY <1>4, <2>1, TakenIs
<1>14. Row(rp, sd, en, w, Left(b), z, u, r)
  BY <1>10, <1>11, Zenon
<1>15. a \in {"read", "drain"} => ~last
  BY <1>9
<1>16. Kept(rp, sd, en, w, Left(b), z, a, last)
  BY <1>12, <1>14, <1>15 DEF Kept
<1>. QED
  BY <1>4, <1>9, <1>11, <1>16, Zenon

\* What is left without a blank line is nothing, a part of a frame, or a frame.
Partial(s, last, e, x, b, u, body, l, a, p, N, z) ==
  /\ Begins(s, last, e, x, b, u, body, l, a, p) /\ N = {"n", "r"} /\ z = "}"
  /\ EventEnds(b) = {} /\ PlacesOf(<<z>>, Without(b, N)) # {}

\* Line ends are taken out from behind a frame.
LEMMA WithoutRest ==
  ASSUME NEW S, NEW N, NEW body \in Seq(S), NEW f \in Seq(S), NEW b, IsConcat(b, body, f),
         \A i \in 1..Len(body) : body[i] \notin N, \A i \in 1..Len(f) : f[i] \in N
  PROVE  Without(b, N) = body
<1>1. Without(body, N) = body
  BY WithoutSame
<1>2. Without(f, N) = <<>>
  BY WithoutNone
<1>3. Without(body \o f, N) = Without(body, N) \o Without(f, N)
  BY WithoutJoins
<1>4. body \o <<>> = body
  OBVIOUS
<1>. QED
  BY <1>1, <1>2, <1>3, <1>4, Zenon DEF IsConcat

\* A frame with a part of its line end is the frame, once the line ends are taken out.
LEMMA LeftIs ==
  ASSUME NEW s, NEW last, NEW e, NEW x, NEW b, NEW u, NEW body, NEW l, NEW a, NEW p, NEW N, NEW z,
         Partial(s, last, e, x, b, u, body, l, a, p, N, z)
  PROVE  Without(b, N) = body
<1>1. /\ s \in Seq(Chars) /\ last \in BOOLEAN /\ e \in LineEnds /\ x \in Seq(Letters)
      /\ b \in Seq(Letters) /\ u \in Seq(Letters) /\ EventEnds(b) = {}
  BY DEF Partial, Begins
<1>b. body = Inner(s, last)
  BY DEF Partial, Begins
<1>l. l = Len(body)
  BY DEF Partial, Begins
<1>n. N = {"n", "r"} /\ z = "}"
  BY DEF Partial
<1>3. IsConcat(a, body, e) /\ IsConcat(p, a, x) /\ IsConcat(p, b, u)
  BY DEF Partial, Begins
<1>2. PICK k : k = Len(e)
  OBVIOUS
<1>4. Len(b) < l + k /\ l \in Nat /\ k \in {2, 4} /\ Len(b) \in Nat
  <2>1. Begins(s, last, e, x, b, u, body, l, a, p)
    BY DEF Partial
  <2>2. EndsAt(b, l, Len(e))
    BY <2>1, FirstEnd
  <2>. QED
    BY <1>1, <1>2, <2>2 DEF EndsAt
<1>5. /\ body \in Seq(Letters) /\ \A i \in 1..l : body[i] \notin N /\ (i < l => body[i] # z)
  <2>1. Shaped(Letters, {"n", "r"}, "{", "}", "stop", last, body)
    BY <1>1, <1>b, BodyIs
  <2>. QED
    BY <1>l, <1>n, <2>1 DEF Shaped
<1>6. e \in Seq(Letters) /\ \A i \in 1..k : e[i] \in N
  <2>1. \A c, d : /\ \A i \in 1..Len(<<c, c>>) : <<c, c>>[i] \in {c, d}
                  /\ \A i \in 1..Len(<<d, c, d, c>>) : <<d, c, d, c>>[i] \in {c, d}
    OBVIOUS
  <2>2. \A i \in 1..Len(e) : e[i] \in {"n", "r"}
    BY <1>1, <2>1 DEF LineEnds
  <2>. QED
    BY <1>1, <1>2, <1>n, <2>2, LineEndIs
<1>7. PICK c : c = e \o x
  OBVIOUS
<1>8. c \in Seq(Letters) /\ IsConcat(p, body, c) /\ IsConcat(c, e, x)
  <2>1. (body \o e) \o x = body \o (e \o x) /\ e \o x \in Seq(Letters)
    BY <1>1, <1>5, <1>6
  <2>2. p = (body \o e) \o x
    BY <1>3, Zenon DEF IsConcat
  <2>. QED
    BY <1>7, <2>1, <2>2, Zenon DEF IsConcat
<1>9. CASE Len(b) >= l
  <2>1. PICK f : f = From(b, l + 1)
    OBVIOUS
  <2>2. Upto(b, Len(body)) = body /\ f \in Seq(Letters) /\ IsConcat(c, f, u)
    <3>1. Len(b) >= Len(body)
      BY <1>l, <1>9
    <3>2. /\ Upto(b, Len(body)) = body /\ From(b, Len(body) + 1) \in Seq(Letters)
          /\ IsConcat(c, From(b, Len(body) + 1), u)
      BY <1>1, <1>3, <1>5, <1>8, <3>1, CutAt
    <3>. QED
      BY <1>l, <2>1, <3>2
  <2>3. IsConcat(b, body, f)
    <3>1. l \in Nat /\ l <= Len(b)
      BY <1>4, <1>9
    <3>2. IsConcat(b, Upto(b, l), From(b, l + 1))
      BY <1>1, <3>1, CutConcat
    <3>. QED
      BY <1>l, <2>1, <2>2, <3>2
  <2>4. Len(f) < k
    <3>1. Len(b) = Len(body) + Len(f)
      BY <1>5, <2>2, <2>3, ConcatAt
    <3>. QED
      BY <1>l, <1>4, <2>2, <3>1
  <2>5. \A i \in 1..Len(f) : f[i] \in N
    <3>1. \A i \in 1..Len(f) : c[i] = f[i]
      BY <1>1, <2>2, ConcatAt
    <3>2. \A i \in 1..Len(e) : c[i] = e[i]
      BY <1>1, <1>6, <1>8, ConcatAt
    <3>3. \A i \in 1..Len(f) : i \in 1..k
      BY <1>4, <2>2, <2>4
    <3>. QED
      BY <1>2, <1>6, <3>1, <3>2, <3>3
  <2>6. \A i \in 1..Len(body) : body[i] \notin N
    BY <1>l, <1>5
  <2>. QED
    BY <1>5, <2>2, <2>3, <2>5, <2>6, WithoutRest
<1>10. CASE ~(Len(b) >= l)
  <2>1. Upto(body, Len(b)) = b
    <3>1. Len(body) >= Len(b)
      BY <1>l, <1>4, <1>10
    <3>. QED
      BY <1>1, <1>3, <1>5, <1>8, <3>1, CutAt
  <2>2. \A i \in 1..Len(b) : b[i] = body[i] /\ i \in 1..l /\ i < l
    <3>1. \A i \in 1..Len(b) : Upto(body, Len(b))[i] = body[i]
      BY <1>l, <1>4, <1>5, <1>10 DEF Upto
    <3>. QED
      BY <1>4, <1>10, <2>1, <3>1
  <2>3. \A i \in 1..Len(b) : b[i] \notin N /\ b[i] # z
    BY <1>5, <2>2
  <2>4. Without(b, N) = b
    BY <1>1, <2>3, WithoutSame
  <2>5. z \in Letters
    BY <1>n DEF Letters, Marks
  <2>6. \A i : i \notin PlacesOf(<<z>>, b)
    BY <1>1, <2>3, <2>5, Place1
  <2>7. PlacesOf(<<z>>, b) # {}
    BY <2>4 DEF Partial
  <2>. QED
    BY <2>6, <2>7
<1>. QED
  BY <1>9, <1>10

\* The response ends with a whole frame in the buffer.
Ending(b, v, a) == EventEnds(b) = {} /\ v = Without(b, {"n", "r"}) /\ IsEvent(v) /\ a # "read" /\ a # "drain"

\* Its text goes on in the answer, and nothing is needed of the row afterwards.
LEMMA EndKeeps ==
  ASSUME NEW rp \in Seq(Chars), NEW sd \in 0..Len(rp), NEW en, en => sd = Len(rp),
         NEW w, NEW b, NEW sn \in Seq(Signs), NEW u, NEW q,
         Row(rp, sd, en, w, b, sn, u, q), NEW v, NEW a, Ending(b, v, a), NEW w2, NEW b2
  PROVE  /\ Content(v) \in Seq(Chars)
         /\ Kept(rp, sd, en, w2, b2, sn \o Content(v), a, Stops(v))
<1>1. Len(q) > 0
  <2>. SUFFICES ASSUME ~(Len(q) > 0) PROVE FALSE
    OBVIOUS
  <2>1. b = <<>>
    BY NoFrames
  <2>2. b \in Seq(Letters) /\ \A i \in 1..Len(b) : b[i] \in {"n", "r"}
    BY <2>1
  <2>3. v = <<>>
    BY <2>2, WithoutNone DEF Ending
  <2>4. Len(v) = 0 /\ v \in Seq(Letters)
    BY <2>3
  <2>5. PICK y \in Letters : y = "}"
    BY DEF Letters, Marks
  <2>6. \A i : i \notin PlacesOf(<<y>>, v)
    <3>1. Len(v) \in Nat /\ \A i : i \notin 1..Len(v)
      BY <2>4
    <3>. QED
      BY <2>4, <3>1, Place1
  <2>. QED
    BY <2>5, <2>6 DEF IsEvent, Ending
<1>2. PICK s, last, e, x, t : Head1(rp, sd, en, b, sn, u, q, s, last, e, x, t)
  BY <1>1, RowHead
<1>3. /\ s \in Seq(Chars) /\ last \in BOOLEAN /\ e \in LineEnds
      /\ x \in Seq(Letters) /\ t \in Seq(Chars) /\ (last => en /\ t = <<>>)
  BY <1>2 DEF Head1
<1>5. u \in Seq(Letters) /\ b \in Seq(Letters)
  BY DEF Row
<1>6. PICK body, l, a1, p, N, y : /\ body = Inner(s, last) /\ l = Len(body) /\ a1 = Inner(s, last) \o e
                                  /\ p = b \o u /\ N = {"n", "r"} /\ y = "}"
  OBVIOUS
<1>7. v = Inner(s, last)
  <2>1. IsConcat(a1, body, e) /\ IsConcat(p, a1, x) /\ IsConcat(p, b, u)
    BY <1>2, <1>6 DEF Head1, IsConcat
  <2>2. PlacesOf(<<y>>, Without(b, N)) # {}
    BY <1>6 DEF IsEvent, Ending
  <2>3. Begins(s, last, e, x, b, u, body, l, a1, p)
    BY <1>3, <1>5, <1>6, <2>1, Zenon DEF Begins
  <2>5. Partial(s, last, e, x, b, u, body, l, a1, p, N, y)
    BY <1>6, <2>2, <2>3 DEF Partial, Ending
  <2>4. Without(b, N) = body
    BY <2>5, LeftIs
  <2>. QED
    BY <1>6, <2>4 DEF Ending
<1>8. Content(v) = s /\ Stops(v) = last
  BY <1>3, <1>7, ContentIs
<1>9. PICK z \in Seq(Signs) : z = sn \o s
  <2>1. s \in Seq(Signs)
    BY <1>3, SignsAre
  <2>2. sn \o s \in Seq(Signs)
    BY <2>1
  <2>. QED
    BY <2>2
<1>10. (\E rest \in Seq(Chars) : IsConcat(rp, z, rest)) /\ (last => z = rp)
  <2>1. (sn \o s) \o t = Upto(rp, sd)
    BY <1>2 DEF Head1
  <2>2. IsConcat(Upto(rp, sd), z, t)
    BY <1>9, <2>1, Zenon DEF IsConcat
  <2>3. last => en /\ t = <<>>
    BY <1>3
  <2>4. t \in Seq(Chars)
    BY <1>3
  <2>. QED
    BY <2>2, <2>3, <2>4, TakenIs
<1>11. Kept(rp, sd, en, w2, b2, z, a, last)
  BY <1>10 DEF Kept, Ending
<1>. QED
  BY <1>3, <1>8, <1>9, <1>11, Zenon

-------------------------------------------------------------------------------
\* What the parser shows and holds is only cut anew.
Grown(ev, A, B, ev2)        == ev2 = ev \o A \o B
SameShown(ev, s, ev2, s2)   == ShownOf(ev2) \o s2 = ShownOf(ev) \o s

Regroups(h, A, B, C, s)     == ((h \o A) \o B) \o C = h \o s

\* What comes out in three parts, taken together from the left or from the right.
LEMMA Regroup ==
  ASSUME NEW S, NEW h \in Seq(S), NEW A \in Seq(S), NEW B \in Seq(S), NEW C \in Seq(S),
         NEW U, NEW s, IsConcat(U, A, B), IsConcat(s, U, C)
  PROVE  Regroups(h, A, B, C, s)
<1>1. ((h \o A) \o B) \o C = h \o ((A \o B) \o C)
  <2>1. PICK x : x = A \o B
    OBVIOUS
  <2>2. x \in Seq(S)
    BY <2>1
  <2>3. (h \o A) \o B = h \o x
    BY <2>1
  <2>4. (h \o x) \o C = h \o (x \o C)
    BY <2>2
  <2>. QED
    BY <2>1, <2>3, <2>4, Zenon
<1>. QED
  BY <1>1, Zenon DEF IsConcat, Regroups

LEMMA Regrouped ==
  ASSUME NEW S, NEW h \in Seq(S), NEW A \in Seq(S), NEW B \in Seq(S), NEW C \in Seq(S),
         NEW R, NEW s, IsConcat(R, B, C), IsConcat(s, A, R)
  PROVE  Regroups(h, A, B, C, s)
<1>1. PICK U : U = A \o B
  OBVIOUS
<1>2. U \o C = A \o (B \o C)
  <2>1. (A \o B) \o C = A \o (B \o C)
    OBVIOUS
  <2>. QED
    BY <1>1, <2>1, Zenon
<1>3. IsConcat(U, A, B) /\ IsConcat(s, U, C)
  BY <1>1, <1>2, Zenon DEF IsConcat
<1>. QED
  BY <1>3, Regroup

\* Events that grow by two groups show what these show, in their order.
LEMMA GrownIs ==
  ASSUME NEW ev \in Seq(Items), NEW A \in Seq(Items), NEW B \in Seq(Items), NEW ev2, Grown(ev, A, B, ev2)
  PROVE  /\ ev2 \in Seq(Items) /\ ShownOf(ev) \in Seq(Signs)
         /\ Grown(ShownOf(ev), Spread(ShowOp, A), Spread(ShowOp, B), ShownOf(ev2))
<1>1. PICK g : g = ev \o A
  OBVIOUS
<1>2. g \in Seq(Items) /\ g \o B \in Seq(Items)
  BY <1>1
<1>3. ev2 = g \o B
  BY <1>1, Zenon DEF Grown
<1>4. ev2 \in Seq(Items)
  BY <1>2, <1>3, Zenon
<1>5. Spread(ShowOp, g) = Spread(ShowOp, ev) \o Spread(ShowOp, A)
  BY <1>1, ShowOpIs, SpreadJoins
<1>6. Spread(ShowOp, g \o B) = Spread(ShowOp, g) \o Spread(ShowOp, B)
  BY <1>2, ShowOpIs, SpreadJoins
<1>7. ShownOf(ev) = Spread(ShowOp, ev) /\ ShownOf(ev2) = Spread(ShowOp, ev2)
  BY <1>4, ShownOfIs
<1>8. ShownOf(ev) \in Seq(Signs)
  BY <1>7, ShowOpIs, SpreadIs
<1>. QED
  BY <1>3, <1>4, <1>5, <1>6, <1>7, <1>8, Zenon DEF Grown

\* The places of the first tag.
LEMMA PlacesIn ==
  ASSUME NEW s \in Seq(Signs)
  PROVE  /\ Opens(s) \in SUBSET (1..Len(s) - 1) /\ Closes(s) \in SUBSET (1..Len(s))
         /\ \A i : i \in Opens(s) <=> i \in 1..Len(s) - 1 /\ s[i] = "[" /\ s[i + 1] = "c"
         /\ \A i : i \in Closes(s) <=> i \in 1..Len(s) /\ s[i] = "]"
<1>1. PICK a, b, c \in Signs : a = "[" /\ b = "c" /\ c = "]"
  BY SignsAre
<1>2. \A i : i \in PlacesOf(<<a, b>>, s) <=> i \in 1..Len(s) - 1 /\ s[i] = a /\ s[i + 1] = b
  BY Place2
<1>3. \A i : i \in PlacesOf(<<c>>, s) <=> i \in 1..Len(s) /\ s[i] = c
  BY Place1
<1>4. Opens(s) = PlacesOf(<<a, b>>, s) /\ Closes(s) = PlacesOf(<<c>>, s)
  BY <1>1 DEF Opens, Closes, Prefix
<1>. QED
  BY <1>1, <1>2, <1>3, <1>4

TagAt(s, i, j) == HasTag(s) /\ i = First(Opens(s)) /\ j = First({k \in Closes(s) : k > i})

\* What TakeTag takes starts at the first prefix and ends at the first bracket after it.
LEMMA TagAtIs ==
  ASSUME NEW s \in Seq(Signs), NEW i, NEW j, TagAt(s, i, j)
  PROVE  /\ i \in 1..Len(s) /\ j \in 1..Len(s) /\ i < j /\ Len(s) \in Nat /\ i \in Opens(s) /\ j \in Closes(s)
         /\ \A k \in Opens(s) : i <= k
         /\ \A k \in Closes(s) : k > i => j <= k
<1>1. Opens(s) \in SUBSET Nat /\ Closes(s) \in SUBSET Nat
  BY PlacesIn
<1>2. i \in Opens(s) /\ \A k \in Opens(s) : i <= k
  BY <1>1, FirstIs DEF TagAt, HasTag
<1>3. PICK T : T = {k \in Closes(s) : k > i}
  OBVIOUS
<1>4. T \in SUBSET Nat /\ T # {}
  BY <1>1, <1>3 DEF TagAt, HasTag
<1>5. j \in T /\ \A k \in T : j <= k
  BY <1>3, <1>4, FirstIs DEF TagAt
<1>. QED
  BY <1>2, <1>3, <1>5, PlacesIn

\* A tag is taken.
LEMMA TagKeeps ==
  ASSUME NEW ev \in Seq(Items), NEW s \in Seq(Signs), NEW i, NEW j, TagAt(s, i, j), NEW ev2, NEW s2,
         Grown(ev, Text(Upto(s, i - 1)), Tag(SubSeq(s, i, j)), ev2), s2 = From(s, j + 1)
  PROVE  ev2 \in Seq(Items) /\ s2 \in Seq(Signs) /\ SameShown(ev, s, ev2, s2)
<1>1. i \in 1..Len(s) /\ j \in 1..Len(s) /\ i < j /\ Len(s) \in Nat
  BY TagAtIs
<1>2. PICK a, b, c, U : a = Upto(s, i - 1) /\ b = SubSeq(s, i, j) /\ c = From(s, j + 1) /\ U = Upto(s, j)
  OBVIOUS
<1>3. a \in Seq(Signs) /\ b \in Seq(Signs) /\ c \in Seq(Signs) /\ Len(b) >= 1
  BY <1>1, <1>2 DEF Upto, From
<1>4. IsConcat(U, a, b)
  <2>1. PICK k \in Nat : k = i - 1
    BY <1>1
  <2>2. k <= j /\ j <= Len(s) /\ j \in Nat /\ k + 1 = i
    BY <1>1, <2>1
  <2>3. Upto(s, k) \o SubSeq(s, k + 1, j) = Upto(s, j)
    BY <2>2, UptoGrows
  <2>. QED
    BY <1>2, <2>1, <2>2, <2>3 DEF IsConcat
<1>5. IsConcat(s, U, c)
  <2>1. j \in Nat /\ j <= Len(s)
    BY <1>1
  <2>. QED
    BY <1>2, <2>1, CutConcat
<1>6. PICK A, B : A = Text(a) /\ B = Tag(b)
  OBVIOUS
<1>7. A \in Seq(Items) /\ B \in Seq(Items) /\ Spread(ShowOp, A) = a /\ Spread(ShowOp, B) = b
  <2>1. Text(a) \in Seq(Items) /\ Spread(ShowOp, Text(a)) = a
    BY <1>3, TextIs
  <2>2. Tag(b) \in Seq(Items) /\ Spread(ShowOp, Tag(b)) = b
    BY <1>3, TagIs
  <2>. QED
    BY <1>6, <2>1, <2>2, Zenon
<1>8. Grown(ev, A, B, ev2)
  BY <1>2, <1>6, Zenon
<1>9. PICK h, h2 : h = ShownOf(ev) /\ h2 = ShownOf(ev2)
  OBVIOUS
<1>10. ev2 \in Seq(Items) /\ h \in Seq(Signs) /\ Grown(h, a, b, h2)
  BY <1>7, <1>8, <1>9, GrownIs
<1>11. Regroups(h, a, b, c, s)
  BY <1>3, <1>4, <1>5, <1>10, Regroup
<1>. QED
  BY <1>2, <1>3, <1>9, <1>10, <1>11, Zenon DEF SameShown, Grown, Regroups

\* The suffixes that are held back start with a bracket, and the last bracket is held back.
LEMMA PrefixIs ==
  /\ Len(Prefix) = 2 /\ Prefix \in Seq(Signs)
  /\ \A k \in 1..2 : Upto(Prefix, k) \in Seq(Signs) /\ Len(Upto(Prefix, k)) = k /\ Upto(Prefix, k)[1] = "["
<1>1. PICK a, b \in Signs : a = "[" /\ b = "c"
  BY SignsAre
<1>2. PICK p : p = <<a, b>>
  OBVIOUS
<1>3. p \in Seq(Signs) /\ Len(p) = 2 /\ p[1] = a
  BY <1>2
<1>4. \A k \in 1..2 : Upto(p, k) \in Seq(Signs) /\ Len(Upto(p, k)) = k /\ Upto(p, k)[1] = p[1]
  BY <1>3 DEF Upto
<1>5. p = Prefix
  BY <1>1, <1>2 DEF Prefix
<1>. QED
  BY <1>1, <1>3, <1>4, <1>5

\* A suffix starts at its place and ends with the text.
LEMMA SuffixIs ==
  ASSUME NEW r \in Seq(Signs), NEW i \in 1..Len(r)
  PROVE  /\ From(r, i) \in Seq(Signs) /\ Len(From(r, i)) = Len(r) - i + 1 /\ From(r, i)[1] = r[i]
         /\ From(r, i)[Len(From(r, i))] = r[Len(r)]
<1>1. PICK n \in Nat : n = Len(r)
  OBVIOUS
<1>2. PICK t : t = From(r, i)
  OBVIOUS
<1>3. t \in Seq(Signs) /\ Len(t) = n - i + 1 /\ \A k \in 1..n - i + 1 : t[k] = r[i + k - 1]
  BY <1>1, <1>2 DEF From
<1>4. 1 \in 1..n - i + 1 /\ n - i + 1 \in 1..n - i + 1 /\ i + 1 - 1 = i /\ i + (n - i + 1) - 1 = n
  BY <1>1
<1>. QED
  BY <1>1, <1>2, <1>3, <1>4

\* So every suffix that is held starts with a bracket; a bracket at the end is held, and
\* so is a tag that is not closed.
LEMMA HeldIs ==
  ASSUME NEW r \in Seq(Signs)
  PROVE  /\ \A i \in Held(r) : i \in 1..Len(r) /\ r[i] = "["
         /\ Len(r) >= 1 /\ r[Len(r)] = "[" => Len(r) \in Held(r)
         /\ 1 \in Opens(r) /\ r[Len(r)] # "]" => 1 \in Held(r)
<1>1. PICK P : P = {Upto(Prefix, k) : k \in 1..Len(Prefix)}
  OBVIOUS
<1>2. \A i : i \in Held(r) <=> /\ i \in 1..Len(r)
                               /\ From(r, i) \in P \/ (i \in Opens(r) /\ From(r, i)[Len(From(r, i))] # "]")
  BY <1>1, Zenon DEF Held
<1>3. \A t \in P : t[1] = "["
  BY <1>1, PrefixIs
<1>4. ASSUME NEW i \in Held(r) PROVE i \in 1..Len(r) /\ r[i] = "["
  <2>1. i \in 1..Len(r)
    BY <1>2
  <2>2. CASE From(r, i) \in P
    <3>1. From(r, i)[1] = "["
      BY <1>3, <2>2
    <3>2. From(r, i)[1] = r[i]
      BY <2>1, SuffixIs
    <3>. QED
      BY <2>1, <3>1, <3>2, Zenon
  <2>3. CASE i \in Opens(r)
    <3>1. r[i] = "["
      BY <2>3, PlacesIn
    <3>. QED
      BY <2>1, <3>1
  <2>4. From(r, i) \in P \/ i \in Opens(r)
    BY <1>2, Zenon
  <2>5. r[i] = "["
    BY <2>2, <2>3, <2>4
  <2>. QED
    BY <2>1, <2>5
<1>5. ASSUME Len(r) >= 1, r[Len(r)] = "[" PROVE Len(r) \in Held(r)
  <2>1. PICK i : i = Len(r)
    OBVIOUS
  <2>2. i \in 1..Len(r)
    BY <1>5, <2>1
  <2>3. PICK t : t = From(r, i)
    OBVIOUS
  <2>4. t \in Seq(Signs) /\ Len(t) = 1 /\ t[1] = "["
    <3>1. From(r, i) \in Seq(Signs) /\ Len(From(r, i)) = Len(r) - i + 1 /\ From(r, i)[1] = r[i]
      BY <2>2, SuffixIs
    <3>2. Len(r) - Len(r) + 1 = 1
      OBVIOUS
    <3>. QED
      BY <1>5, <2>1, <2>3, <3>1, <3>2, Zenon
  <2>5. t = Upto(Prefix, 1)
    <3>1. PICK v : v = Upto(Prefix, 1)
      OBVIOUS
    <3>2. v \in Seq(Signs) /\ Len(v) = 1 /\ v[1] = "["
      <4>1. 1 \in 1..2
        OBVIOUS
      <4>. QED
        BY <3>1, <4>1, PrefixIs
    <3>3. \A k \in 1..1 : k = 1
      OBVIOUS
    <3>4. \A k \in 1..Len(t) : t[k] = v[k]
      BY <2>4, <3>2, <3>3
    <3>5. t = v
      BY <2>4, <3>2, <3>4, SeqEqual
    <3>. QED
      BY <3>1, <3>5
  <2>6. t \in P
    <3>1. 1 \in 1..Len(Prefix)
      BY PrefixIs
    <3>. QED
      BY <1>1, <2>5, <3>1
  <2>. QED
    BY <1>2, <2>1, <2>2, <2>3, <2>6
<1>6. ASSUME 1 \in Opens(r), r[Len(r)] # "]" PROVE 1 \in Held(r)
  <2>1. 1 \in 1..Len(r)
    BY <1>6, PlacesIn
  <2>2. From(r, 1)[Len(From(r, 1))] # "]"
    BY <1>6, <2>1, SuffixIs
  <2>. QED
    BY <1>2, <1>6, <2>1, <2>2
<1>. QED
  BY <1>4, <1>5, <1>6

\* Where the held text is cut, once it has no whole tag.
CutsAt(s, k, r, m) ==
  /\ s \in Seq(Signs) /\ ~HasTag(s)
  /\ k = IF Opens(s) = {} THEN 1 ELSE First(Opens(s))
  /\ r = From(s, k)
  /\ m = IF Held(r) = {} THEN Len(r) + 1 ELSE Longest(Held(r))

\* The parts of the text, and what may be held of it.
LEMMA CutsAtIs ==
  ASSUME NEW s, NEW k, NEW r, NEW m, CutsAt(s, k, r, m)
  PROVE  /\ s \in Seq(Signs) /\ Len(s) \in Nat /\ k \in 1..Len(s) + 1
         /\ r \in Seq(Signs) /\ Len(r) \in Nat /\ Len(r) = Len(s) - k + 1 /\ r = From(s, k)
         /\ \A x \in 1..Len(r) : r[x] = s[k + x - 1]
         /\ m \in 1..Len(r) + 1 /\ \A i \in Held(r) : i <= m
         /\ Held(r) # {} => m \in Held(r)
<1>1. s \in Seq(Signs) /\ Len(s) \in Nat /\ r = From(s, k)
  BY DEF CutsAt
<1>2. k \in 1..Len(s) + 1
  <2>1. Opens(s) \in SUBSET (1..Len(s) - 1) /\ Opens(s) \in SUBSET Nat
    BY <1>1, PlacesIn
  <2>2. CASE Opens(s) = {}
    BY <1>1, <2>2 DEF CutsAt
  <2>3. CASE Opens(s) # {}
    <3>1. First(Opens(s)) \in Opens(s)
      BY <2>1, <2>3, FirstIs
    <3>. QED
      BY <1>1, <2>1, <2>3, <3>1 DEF CutsAt
  <2>. QED
    BY <2>2, <2>3
<1>3. PICK n \in Nat : n = Len(s)
  BY <1>1
<1>4. /\ r \in Seq(Signs) /\ Len(r) \in Nat /\ Len(r) = Len(s) - k + 1
      /\ \A x \in 1..Len(r) : r[x] = s[k + x - 1]
  <2>1. k \in Int /\ n \in Int /\ \A x \in k..n : s[x] \in Signs
    BY <1>1, <1>2, <1>3
  <2>2. /\ SubSeq(s, k, n) \in Seq(Signs)
        /\ Len(SubSeq(s, k, n)) = IF k <= n THEN n - k + 1 ELSE 0
        /\ \A x \in 1..n - k + 1 : SubSeq(s, k, n)[x] = s[k + x - 1]
    BY <2>1, SubSeqProperties
  <2>3. r = SubSeq(s, k, n)
    BY <1>1, <1>3 DEF From
  <2>4. Len(r) = n - k + 1
    BY <1>2, <1>3, <2>2, <2>3
  <2>. QED
    BY <1>3, <2>2, <2>3, <2>4
<1>5. Held(r) \in SUBSET (1..Len(r))
  <2>1. \A i \in Held(r) : i \in 1..Len(r)
    BY <1>4, HeldIs
  <2>. QED
    BY <2>1
<1>6. CASE Held(r) = {}
  <2>1. m = Len(r) + 1
    BY <1>6 DEF CutsAt
  <2>. QED
    BY <1>1, <1>2, <1>4, <1>6, <2>1
<1>7. CASE Held(r) # {}
  <2>1. m = Longest(Held(r))
    BY <1>7 DEF CutsAt
  <2>2. m \in Held(r) /\ \A i \in Held(r) : i <= m
    BY <1>4, <1>5, <1>7, <2>1, LongestIs
  <2>3. m \in 1..Len(r) + 1
    BY <1>4, <1>5, <2>2
  <2>. QED
    BY <1>1, <1>2, <1>4, <2>2, <2>3
<1>. QED
  BY <1>6, <1>7

\* Text is shown that is no tag, and the rest is held back.
LEMMA TextKeeps ==
  ASSUME NEW ev \in Seq(Items), NEW s \in Seq(Signs), NEW k \in 1..Len(s) + 1, NEW r, r = From(s, k),
         NEW m \in 1..Len(r) + 1, NEW ev2, NEW s2,
         Grown(ev, Text(Upto(s, k - 1)), Text(Upto(r, m - 1)), ev2), s2 = From(r, m)
  PROVE  ev2 \in Seq(Items) /\ s2 \in Seq(Signs) /\ SameShown(ev, s, ev2, s2)
<1>1. r \in Seq(Signs) /\ Len(s) \in Nat
  BY DEF From
<1>2. PICK a, b, c : a = Upto(s, k - 1) /\ b = Upto(r, m - 1) /\ c = From(r, m)
  OBVIOUS
<1>3. a \in Seq(Signs) /\ b \in Seq(Signs) /\ c \in Seq(Signs)
  BY <1>1, <1>2 DEF Upto, From
<1>4. IsConcat(s, a, r)
  <2>1. PICK n \in Nat : n = k - 1
    OBVIOUS
  <2>2. n <= Len(s) /\ n + 1 = k
    BY <1>1, <2>1
  <2>3. IsConcat(s, Upto(s, n), From(s, n + 1))
    BY <2>2, CutConcat
  <2>. QED
    BY <1>2, <2>1, <2>2, <2>3
<1>5. IsConcat(r, b, c)
  <2>1. PICK n \in Nat : n = m - 1
    OBVIOUS
  <2>2. n <= Len(r) /\ n + 1 = m
    BY <1>1, <2>1
  <2>3. IsConcat(r, Upto(r, n), From(r, n + 1))
    BY <1>1, <2>2, CutConcat
  <2>. QED
    BY <1>2, <2>1, <2>2, <2>3
<1>6. PICK A, B : A = Text(a) /\ B = Text(b)
  OBVIOUS
<1>7. A \in Seq(Items) /\ B \in Seq(Items) /\ Spread(ShowOp, A) = a /\ Spread(ShowOp, B) = b
  <2>1. Text(a) \in Seq(Items) /\ Spread(ShowOp, Text(a)) = a
    BY <1>3, TextIs
  <2>2. Text(b) \in Seq(Items) /\ Spread(ShowOp, Text(b)) = b
    BY <1>3, TextIs
  <2>. QED
    BY <1>6, <2>1, <2>2, Zenon
<1>8. Grown(ev, A, B, ev2)
  BY <1>2, <1>6, Zenon
<1>9. PICK h, h2 : h = ShownOf(ev) /\ h2 = ShownOf(ev2)
  OBVIOUS
<1>10. ev2 \in Seq(Items) /\ h \in Seq(Signs) /\ Grown(h, a, b, h2)
  BY <1>7, <1>8, <1>9, GrownIs
<1>11. Regroups(h, a, b, c, s)
  BY <1>3, <1>4, <1>5, <1>10, Regrouped
<1>. QED
  BY <1>2, <1>3, <1>9, <1>10, <1>11, Zenon DEF SameShown, Grown, Regroups

-------------------------------------------------------------------------------
\* The types, by the operators' results.
LEMMA CutTyped ==
  ASSUME NEW S, NEW s \in Seq(S), NEW i \in Nat
  PROVE  From(s, i + 1) \in Seq(S) /\ (i <= Len(s) => Upto(s, i) \in Seq(S))
<1>1. PICK n \in Nat : n = Len(s)
  OBVIOUS
<1>2. \A k \in i + 1..n : s[k] \in S
  BY <1>1
<1>3. i + 1 \in Int /\ n \in Int
  OBVIOUS
<1>4. SubSeq(s, i + 1, n) \in Seq(S)
  BY <1>2, <1>3, SubSeqProperties
<1>5. i <= Len(s) => Upto(s, i) \in Seq(S)
  BY DEF Upto
<1>. QED
  BY <1>1, <1>4, <1>5 DEF From

LEMMA ContentTyped ==
  ASSUME NEW e \in Seq(Letters \cup {Lost})
  PROVE  Content(e) \in Seq(Signs) /\ Stops(e) \in BOOLEAN
<1>1. Content(e) \in Seq((Letters \cup {Lost}) \ Marks)
  BY WithoutTyped DEF Content
<1>. QED
  BY <1>1, SignsAre DEF Stops

LEMMA JoinTyped ==
  ASSUME NEW S, NEW a \in Seq(S), NEW b \in Seq(S)
  PROVE  a \o b \in Seq(S)
OBVIOUS

LEMMA FrameTyped ==
  ASSUME NEW s \in Seq(Chars), NEW last \in BOOLEAN, NEW e \in LineEnds, NEW w \in Seq(Bytes)
  PROVE  w \o Frame(s, last) \o e \in Seq(Bytes)
<1>3. /\ <<"{">> \in Seq(Bytes) /\ <<"}">> \in Seq(Bytes) /\ <<"stop">> \in Seq(Bytes)
      /\ Enc(s) \in Seq(Bytes) /\ e \in Seq(Bytes) /\ <<>> \in Seq(Bytes)
  <2>1. Marks \subseteq Bytes /\ "{" \in Marks /\ "}" \in Marks /\ "stop" \in Marks
    BY DEF Bytes, Marks
  <2>2. \A A, B : A \subseteq B => Seq(A) \subseteq Seq(B)
    OBVIOUS
  <2>3. \A A : \A a \in A : <<a>> \in Seq(A) /\ <<>> \in Seq(A)
    OBVIOUS
  <2>. QED
    BY <2>1, <2>2, <2>3, LineEndIs, CharsAre, EncIs
<1>4. PICK g, h, i, j \in Seq(Bytes) : /\ g = <<"{">> /\ h = Enc(s) /\ j = <<"}">>
                                       /\ i = IF last THEN <<"stop">> ELSE <<>>
  BY <1>3
<1>5. Frame(s, last) = ((g \o h) \o i) \o j
  BY <1>4 DEF Frame, Enc
<1>6. ((g \o h) \o i) \o j \in Seq(Bytes)
  OBVIOUS
<1>7. Frame(s, last) \in Seq(Bytes)
  BY <1>5, <1>6, Zenon
<1>8. w \o Frame(s, last) \in Seq(Bytes)
  BY <1>7, JoinTyped
<1>. QED
  BY <1>3, <1>8, JoinTyped

\* StreamTypeOK, in the words of the proofs.
Typed ==
  /\ reply \in Answers /\ said \in 0..Len(reply) /\ ended \in BOOLEAN
  /\ wire \in Seq(Bytes) /\ deltas \in 0..MaxDeltas /\ reads \in 0..MaxReads
  /\ buffer \in Seq(Letters \cup {Lost}) /\ tagBuffer \in Seq(Signs)
  /\ events \in Seq(Items)
  /\ at \in {"read", "drain", "finish", "flush", "done", "failed", "panicked"}
  /\ reason \in BOOLEAN /\ torn \in BOOLEAN

\* It is StreamTypeOK.
LEMMA TypedIs == (Typed <=> StreamTypeOK) /\ (Typed' <=> StreamTypeOK')
<1>1. Chars \cup Marks \cup {Lost} = Letters \cup {Lost} /\ Chars \cup {Lost} = Signs /\ Texts \cup Cites = Items
  BY DEF Letters, Signs, Items
<1>2. Typed <=> StreamTypeOK
  BY <1>1, Zenon DEF Typed, StreamTypeOK
<1>3. Typed' <=> StreamTypeOK'
  BY <1>1, Zenon DEF Typed, StreamTypeOK
<1>. QED
  BY <1>2, <1>3

LEMMA ReplyIs ==
  ASSUME Typed
  PROVE  reply \in Seq(Chars) /\ Len(reply) \in Nat /\ said \in Nat
<1>1. reply \in Seq(Chars)
  BY AnswersAssumption DEF Typed
<1>2. Len(reply) \in Nat
  BY <1>1
<1>. QED
  BY <1>1, <1>2 DEF Typed

\* Each action keeps the types.
LEMMA SayTyped ==
  ASSUME Typed, NEW k \in 0..Len(reply), NEW last \in BOOLEAN, Say(k, last)
  PROVE  Typed'
<1>1. PICK e \in LineEnds : wire' = wire \o Frame(SubSeq(reply, said + 1, said + k), last) \o e
  BY DEF Say
<1>2. k \in Nat /\ said \in Nat /\ said + k <= Len(reply) /\ reply \in Seq(Chars)
  BY ReplyIs DEF Say
<1>3. PICK s \in Seq(Chars) : s = SubSeq(reply, said + 1, said + k)
  <2>1. SubSeq(reply, said + 1, said + k) \in Seq(Chars)
    BY <1>2
  <2>. QED
    BY <2>1
<1>4. wire' \in Seq(Bytes)
  <2>1. wire \in Seq(Bytes)
    BY DEF Typed
  <2>2. wire \o Frame(s, last) \o e \in Seq(Bytes)
    BY <2>1, FrameTyped
  <2>. QED
    BY <1>1, <1>3, <2>2, Zenon
<1>5. said' \in 0..Len(reply') /\ ended' \in BOOLEAN /\ reply' = reply
  BY <1>2, ReplyIs DEF Say
<1>6. deltas' \in 0..MaxDeltas
  BY BoundAssumption DEF Say, Typed
<1>7. UNCHANGED <<reply, reads, buffer, tagBuffer, events, at, reason, torn>>
  BY DEF Say
<1>. QED
  BY <1>4, <1>5, <1>6, <1>7 DEF Typed

LEMMA ReadTyped ==
  ASSUME Typed, NEW n \in 1..Len(wire), Read(n)
  PROVE  Typed'
<1>1. wire \in Seq(Bytes) /\ n \in Nat /\ n <= Len(wire) /\ buffer \in Seq(Letters \cup {Lost})
  BY DEF Typed
<1>2. Upto(wire, n) \in Seq(Bytes) /\ From(wire, n + 1) \in Seq(Bytes)
  BY <1>1, CutTyped
<1>3. Decode(Upto(wire, n)) \in Seq(Letters \cup {Lost})
  BY <1>2, DecodeTyped
<1>4. buffer \o Decode(Upto(wire, n)) \in Seq(Letters \cup {Lost})
  BY <1>1, <1>3, JoinTyped
<1>5. wire' \in Seq(Bytes) /\ buffer' \in Seq(Letters \cup {Lost})
  BY <1>2, <1>4, Zenon DEF Read
<1>6. reads' \in 0..MaxReads
  BY BoundAssumption DEF Read, Typed
<1>7. torn' \in BOOLEAN /\ UNCHANGED <<reply, said, ended, deltas, tagBuffer, events, at, reason>>
  BY DEF Read
<1>. QED
  BY <1>5, <1>6, <1>7 DEF Typed

LEMMA PushTyped ==
  ASSUME Typed, NEW e \in Seq(Letters \cup {Lost}), NEW last \in BOOLEAN, Push(e, last)
  PROVE  /\ tagBuffer' \in Seq(Signs) /\ reason' \in BOOLEAN
         /\ at' \in {"read", "drain", "finish", "flush", "done", "failed", "panicked"}
<1>1. Content(e) \in Seq(Signs) /\ Stops(e) \in BOOLEAN /\ tagBuffer \in Seq(Signs)
  BY ContentTyped DEF Typed
<1>2. tagBuffer \o Content(e) \in Seq(Signs)
  BY <1>1, JoinTyped
<1>. QED
  BY <1>1, <1>2 DEF Push

LEMMA EventAt ==
  ASSUME NEW S, NEW b \in Seq(S), EventEnds(b) # {}
  PROVE  Popped(b) \in Seq(S) /\ Left(b) \in Seq(S)
<1>1. \A p, i : i \in PlacesOf(p, b) => i \in Nat /\ i >= 1 /\ i <= Len(b) - Len(p) + 1
  BY DEF PlacesOf
<1>2. Len(<<"n", "n">>) = 2 /\ Len(<<"r", "n", "r", "n">>) = 4 /\ Len(b) \in Nat
  OBVIOUS
<1>3. \A f \in EventEnds(b) : f[1] \in Nat /\ f[1] >= 1 /\ f[1] <= Len(b) /\ f[2] \in Nat /\ f[2] >= 1
  BY <1>1, <1>2 DEF EventEnds
<1>4. \E e \in EventEnds(b) : \A f \in EventEnds(b) : e[1] <= f[1]
  <2>1. PICK T : T = {f[1] : f \in EventEnds(b)}
    OBVIOUS
  <2>2. T \in SUBSET Nat /\ T # {}
    BY <1>3, <2>1
  <2>3. PICK i \in T : \A j \in T : i <= j
    BY <2>2, Smallest
  <2>. QED
    BY <2>1, <2>3
<1>5. PICK e \in EventEnds(b) : e = Cut(b)
  BY <1>4 DEF Cut
<1>6. PICK i, j \in Nat : e[1] - 1 = i /\ e[1] + e[2] = j + 1 /\ i <= Len(b)
  <2>1. e[1] - 1 \in Nat /\ (e[1] + e[2]) - 1 \in Nat /\ e[1] + e[2] = ((e[1] + e[2]) - 1) + 1 /\ e[1] - 1 <= Len(b)
    BY <1>2, <1>3
  <2>. QED
    BY <2>1
<1>. QED
  BY <1>5, <1>6, CutTyped DEF Popped, Left

LEMMA PopTyped ==
  ASSUME Typed, PopEvent
  PROVE  Typed'
<1>1. buffer \in Seq(Letters \cup {Lost}) /\ EventEnds(buffer) # {}
  BY DEF Typed, PopEvent
<1>2. Popped(buffer) \in Seq(Letters \cup {Lost}) /\ Left(buffer) \in Seq(Letters \cup {Lost})
  BY <1>1, EventAt
<1>3. buffer' = Left(buffer) /\ Push(Popped(buffer), Stops(Popped(buffer)))
  BY DEF PopEvent, Left, Popped, Cut
<1>4. Stops(Popped(buffer)) \in BOOLEAN
  BY DEF Stops
<1>5. /\ tagBuffer' \in Seq(Signs) /\ reason' \in BOOLEAN
      /\ at' \in {"read", "drain", "finish", "flush", "done", "failed", "panicked"}
  BY <1>2, <1>3, <1>4, PushTyped
<1>6. UNCHANGED <<reply, said, ended, wire, deltas, reads, events, torn>>
  BY DEF PopEvent
<1>. QED
  BY <1>2, <1>3, <1>5, <1>6 DEF Typed

LEMMA EndTyped ==
  ASSUME Typed, EndResponse
  PROVE  Typed'
<1>1. PICK v : v = Without(buffer, {"n", "r"})
  OBVIOUS
<1>2. v \in Seq(Letters \cup {Lost})
  <2>1. buffer \in Seq(Letters \cup {Lost})
    BY DEF Typed
  <2>. QED
    BY <1>1, <2>1, WithoutIs
<1>3. /\ tagBuffer' \in Seq(Signs) /\ reason' \in BOOLEAN
      /\ at' \in {"read", "drain", "finish", "flush", "done", "failed", "panicked"}
  <2>1. CASE Push(v, TRUE)
    BY <1>2, <2>1, PushTyped
  <2>2. CASE at' \in {"flush", "failed"} /\ UNCHANGED <<tagBuffer, reason>>
    BY <2>2 DEF Typed
  <2>. QED
    BY <1>1, <2>1, <2>2 DEF EndResponse
<1>4. buffer' = <<>> /\ wire' = <<>> /\ UNCHANGED <<reply, said, ended, deltas, reads, events, torn>>
  BY DEF EndResponse
<1>5. \A S : <<>> \in Seq(S)
  OBVIOUS
<1>. QED
  BY <1>3, <1>4, <1>5 DEF Typed

-------------------------------------------------------------------------------
\* The parser's steps.
ParserMoves ==
  /\ events' \in Seq(Items) /\ tagBuffer' \in Seq(Signs)
  /\ SameShown(events, tagBuffer, events', tagBuffer')
  /\ at' \in {"read", "drain", "finish", "flush", "done", "failed", "panicked"}
  /\ at' \in {"read", "drain"} => at \in {"read", "drain"}
  /\ UNCHANGED <<reply, said, ended, wire, deltas, reads, buffer, reason, torn>>

LEMMA TakeTagMoves ==
  ASSUME Typed, TakeTag
  PROVE  ParserMoves
<1>1. PICK i, j, s, s2, ev, ev2 :
        /\ s = tagBuffer /\ ev = events /\ s2 = tagBuffer' /\ ev2 = events'
        /\ i = First(Opens(s)) /\ j = First({k \in Closes(s) : k > i})
  OBVIOUS
<1>2. s \in Seq(Signs) /\ ev \in Seq(Items)
  BY <1>1 DEF Typed
<1>3. TagAt(s, i, j) /\ s2 = From(s, j + 1)
  BY <1>1 DEF TakeTag, TagAt
<1>4. Grown(ev, Text(Upto(s, i - 1)), Tag(SubSeq(s, i, j)), ev2)
  BY <1>1 DEF TakeTag, Grown
<1>5. ev2 \in Seq(Items) /\ s2 \in Seq(Signs) /\ SameShown(ev, s, ev2, s2)
  BY <1>2, <1>3, <1>4, TagKeeps
<1>6. /\ at' \in {"read", "drain", "finish", "flush", "done", "failed", "panicked"}
      /\ at' \in {"read", "drain"} => at \in {"read", "drain"}
      /\ UNCHANGED <<reply, said, ended, wire, deltas, reads, buffer, reason, torn>>
  BY DEF TakeTag, Typed
<1>. QED
  BY <1>1, <1>5, <1>6 DEF ParserMoves

LEMMA HoldBackMoves ==
  ASSUME Typed, HoldBack
  PROVE  ParserMoves
<1>1. PICK s, s2, ev, ev2 : s = tagBuffer /\ ev = events /\ s2 = tagBuffer' /\ ev2 = events'
  OBVIOUS
<1>2. s \in Seq(Signs) /\ ev \in Seq(Items) /\ Len(s) \in Nat
  BY <1>1 DEF Typed
<1>3. PICK k : k = IF Opens(s) = {} THEN 1 ELSE First(Opens(s))
  OBVIOUS
<1>4. PICK r : r = From(s, k)
  OBVIOUS
<1>5. PICK m : m = IF Held(r) = {} THEN Len(r) + 1 ELSE Longest(Held(r))
  OBVIOUS
<1>6. CutsAt(s, k, r, m)
  <2>1. ~HasTag(s)
    BY <1>1 DEF HoldBack
  <2>. QED
    BY <1>2, <1>3, <1>4, <1>5, <2>1 DEF CutsAt
<1>7. k \in 1..Len(s) + 1 /\ r \in Seq(Signs) /\ Len(r) \in Nat /\ m \in 1..Len(r) + 1
  BY <1>6, CutsAtIs
<1>8. CASE Panics(r)
  <2>1. at' = "panicked" /\ events' = events /\ tagBuffer' = tagBuffer
    BY <1>1, <1>3, <1>4, <1>8 DEF HoldBack
  <2>2. UNCHANGED <<reply, said, ended, wire, deltas, reads, buffer, reason, torn>>
    BY DEF HoldBack
  <2>. QED
    BY <1>1, <1>2, <2>1, <2>2 DEF ParserMoves, SameShown
<1>9. CASE ~Panics(r)
  <2>1. Grown(ev, Text(Upto(s, k - 1)), Text(Upto(r, m - 1)), ev2) /\ s2 = From(r, m)
    BY <1>1, <1>3, <1>4, <1>5, <1>9 DEF HoldBack, Grown
  <2>2. ev2 \in Seq(Items) /\ s2 \in Seq(Signs) /\ SameShown(ev, s, ev2, s2)
    BY <1>2, <1>4, <1>7, <2>1, TextKeeps
  <2>3. at' = IF at = "drain" THEN "read" ELSE "flush"
    BY <1>1, <1>3, <1>4, <1>9 DEF HoldBack
  <2>4. UNCHANGED <<reply, said, ended, wire, deltas, reads, buffer, reason, torn>>
    BY DEF HoldBack
  <2>. QED
    BY <1>1, <2>2, <2>3, <2>4 DEF ParserMoves
<1>. QED
  BY <1>8, <1>9

LEMMA FlushMoves ==
  ASSUME Typed, Flush
  PROVE  ParserMoves
<1>1. PICK s, ev, ev2 : s = tagBuffer /\ ev = events /\ ev2 = events'
  OBVIOUS
<1>2. s \in Seq(Signs) /\ ev \in Seq(Items)
  BY <1>1 DEF Typed
<1>3. PICK A : A = Text(s)
  OBVIOUS
<1>4. A \in Seq(Items) /\ Spread(ShowOp, A) = s
  <2>1. Text(s) \in Seq(Items) /\ Spread(ShowOp, Text(s)) = s
    BY <1>2, TextIs
  <2>. QED
    BY <1>3, <2>1, Zenon
<1>5. ev2 = ev \o A
  BY <1>1, <1>3 DEF Flush
<1>6. Spread(ShowOp, ev \o A) = Spread(ShowOp, ev) \o s
  <2>0. Spreads(ShowOp, Items, Signs) /\ ev \in Seq(Items) /\ A \in Seq(Items)
    BY <1>2, <1>4, ShowOpIs
  <2>1. Spread(ShowOp, ev \o A) = Spread(ShowOp, ev) \o Spread(ShowOp, A)
    BY <2>0, SpreadJoins
  <2>. QED
    BY <1>4, <2>1, Zenon
<1>7. ev2 \in Seq(Items)
  BY <1>2, <1>4, <1>5, JoinTyped
<1>8. ShownOf(ev2) = Spread(ShowOp, ev2) /\ ShownOf(ev) = Spread(ShowOp, ev)
  BY <1>2, <1>7, ShownOfIs
<1>9. Spread(ShowOp, ev2) \in Seq(Signs)
  BY <1>7, ShowOpIs, SpreadIs
<1>10. Spread(ShowOp, ev2) \o <<>> = Spread(ShowOp, ev2)
  BY <1>9, ConcatEmptySeq
<1>11. SameShown(ev, s, ev2, <<>>)
  BY <1>5, <1>6, <1>8, <1>10, Zenon DEF SameShown
<1>12. tagBuffer' = <<>> /\ <<>> \in Seq(Signs)
  BY DEF Flush
<1>13. at' = "done" /\ UNCHANGED <<reply, said, ended, wire, deltas, reads, buffer, reason, torn>>
  BY DEF Flush
<1>. QED
  BY <1>1, <1>7, <1>11, <1>12, <1>13 DEF ParserMoves

\* The parser moves characters from the buffer to events and touches nothing else.
LEMMA ParserTyped ==
  ASSUME Typed, ParserMoves
  PROVE  Typed'
BY DEF Typed, ParserMoves

LEMMA BreakTyped ==
  ASSUME Typed, Break
  PROVE  Typed'
BY DEF Typed, Break

LEMMA StreamInitTyped == StreamInit => Typed
<1>. SUFFICES ASSUME StreamInit PROVE Typed
  OBVIOUS
<1>1. \A S : <<>> \in Seq(S)
  OBVIOUS
<1>2. Len(reply) \in Nat /\ reply \in Answers
  BY AnswersAssumption DEF StreamInit
<1>3. /\ wire \in Seq(Bytes) /\ buffer \in Seq(Letters \cup {Lost}) /\ tagBuffer \in Seq(Signs)
      /\ events \in Seq(Items)
  BY <1>1 DEF StreamInit
<1>4. said \in 0..Len(reply) /\ deltas \in 0..MaxDeltas /\ reads \in 0..MaxReads
  BY <1>2, BoundAssumption DEF StreamInit
<1>. QED
  BY <1>2, <1>3, <1>4 DEF StreamInit, Typed

LEMMA StreamStepTyped == Typed /\ [StreamNext]_streamVars => Typed'
<1>. SUFFICES ASSUME Typed, [StreamNext]_streamVars PROVE Typed'
  OBVIOUS
<1>1. ASSUME NEW k \in 0..Len(reply), NEW last \in BOOLEAN, Say(k, last) PROVE Typed'
  BY <1>1, SayTyped
<1>2. ASSUME NEW n \in 1..Len(wire), Read(n) PROVE Typed'
  BY <1>2, ReadTyped
<1>3. ASSUME UNCHANGED streamVars PROVE Typed'
  BY <1>3 DEF streamVars, Typed
<1>4. PopEvent \/ EndResponse \/ Break => Typed'
  BY PopTyped, EndTyped, BreakTyped
<1>5. TakeTag \/ HoldBack \/ Flush => Typed'
  BY TakeTagMoves, HoldBackMoves, FlushMoves, ParserTyped
<1>. QED
  BY <1>1, <1>2, <1>3, <1>4, <1>5 DEF StreamNext

LEMMA TypedHolds == StreamSpec => []Typed
<1>. QED
  BY StreamInitTyped, StreamStepTyped, PTL DEF StreamSpec

\* The types of the stream, whatever is sent, read and cut.
THEOREM StreamTypeCorrect == StreamSpec => []StreamTypeOK
<1>. QED
  BY TypedHolds, TypedIs, PTL

-------------------------------------------------------------------------------
\* What is shown or held is a start of the reply, and what is buffered and on the wire are
\* the frames that go on with it.
Seen      == Shown \o tagBuffer
StreamInv == ~torn => Kept(reply, said, ended, wire, buffer, Seen, at, reason)

LEMMA SeenIs ==
  ASSUME Typed
  PROVE  Shown \in Seq(Signs) /\ tagBuffer \in Seq(Signs) /\ Seen \in Seq(Signs)
<1>1. events \in Seq(Items) /\ tagBuffer \in Seq(Signs)
  BY DEF Typed
<1>2. ShownOf(events) \in Seq(Signs)
  <2>1. Spread(ShowOp, events) \in Seq(Signs)
    BY <1>1, ShowOpIs, SpreadIs
  <2>. QED
    BY <1>1, <2>1, ShownOfIs
<1>3. Shown \in Seq(Signs)
  BY <1>2, ShownIs, Zenon
<1>4. Shown \o tagBuffer \in Seq(Signs)
  BY <1>1, <1>3, JoinTyped
<1>. QED
  BY <1>1, <1>3, <1>4, Zenon DEF Seen

LEMMA SeenSame ==
  ASSUME UNCHANGED <<events, tagBuffer>>
  PROVE  Seen' = Seen
<1>1. events' = events /\ tagBuffer' = tagBuffer
  OBVIOUS
<1>2. Shown' = Shown
  BY <1>1, ShownIs, Zenon
<1>. QED
  BY <1>1, <1>2 DEF Seen

\* What is only cut anew is still seen.
LEMMA SeenCut ==
  ASSUME SameShown(events, tagBuffer, events', tagBuffer')
  PROVE  Seen' = Seen
BY ShownIs, Zenon DEF Seen, SameShown

\* A delta is seen when it is pushed.
LEMMA SeenGrows ==
  ASSUME Typed, events' = events, NEW c \in Seq(Signs), tagBuffer' = tagBuffer \o c
  PROVE  Seen' = Seen \o c
<1>1. Shown' = Shown
  BY ShownIs, Zenon
<1>2. Shown \in Seq(Signs) /\ tagBuffer \in Seq(Signs)
  BY SeenIs
<1>3. (Shown \o tagBuffer) \o c = Shown \o (tagBuffer \o c)
  BY <1>2, Joins
<1>. QED
  BY <1>1, <1>3, Zenon DEF Seen

\* As the stream goes on, less is asked of it.
LEMMA KeptOn ==
  ASSUME NEW rp, NEW sd, NEW en, NEW w, NEW b, NEW sn, NEW a, NEW rs, Kept(rp, sd, en, w, b, sn, a, rs), NEW a2,
         a2 \in {"read", "drain"} => a \in {"read", "drain"}
  PROVE  Kept(rp, sd, en, w, b, sn, a2, rs)
BY DEF Kept

\* Nothing has to be left of the frames when the answer has ended.
LEMMA KeptLeaves ==
  ASSUME NEW rp, NEW sd, NEW en, NEW w, NEW b, NEW sn, NEW a, NEW rs, Kept(rp, sd, en, w, b, sn, a, rs), NEW a2,
         NEW w2, NEW b2, a2 # "read", a2 # "drain"
  PROVE  Kept(rp, sd, en, w2, b2, sn, a2, rs)
BY DEF Kept

\* StreamInv is inductive, with Typed; first the initial states, then each action.
LEMMA StreamInitInv == StreamInit => StreamInv
<1>. SUFFICES ASSUME StreamInit PROVE Kept(reply, said, ended, wire, buffer, Seen, at, reason)
  BY DEF StreamInv
<1>1. Typed
  BY StreamInitTyped
<1>2. reply \in Seq(Chars)
  BY <1>1, ReplyIs
<1>3. /\ wire = <<>> /\ buffer = <<>> /\ tagBuffer = <<>> /\ events = <<>>
      /\ said = 0 /\ ended = FALSE /\ at = "read" /\ reason = FALSE
  BY DEF StreamInit
<1>4. Seen = <<>>
  <2>1. Spread(ShowOp, <<>>) = <<>>
    BY ShowOpIs, SpreadEmpty
  <2>2. <<>> \in Seq(Items) /\ <<>> \o <<>> = <<>>
    OBVIOUS
  <2>3. Shown = ShownOf(events) /\ ShownOf(<<>>) = Spread(ShowOp, <<>>)
    BY <2>2, ShownIs, ShownOfIs
  <2>. QED
    BY <1>3, <2>1, <2>2, <2>3, Zenon DEF Seen
<1>5. IsConcat(reply, <<>>, reply)
  <2>1. <<>> \o reply = reply
    BY <1>2, ConcatEmptySeq
  <2>. QED
    BY <2>1 DEF IsConcat
<1>6. Row(reply, 0, FALSE, <<>>, <<>>, <<>>, <<>>, <<>>)
  <2>1. \A S : <<>> \in Seq(S)
    OBVIOUS
  <2>2. Enc(<<>>) = <<>>
    BY <2>1, EncMarks
  <2>3. Spread(FrameOp, <<>>) = <<>> /\ Spread(TextOp, <<>>) = <<>>
    BY PieceIs, SpreadEmpty
  <2>4. <<>> \o <<>> = <<>> /\ \A i : i \notin 1..Len(<<>>)
    OBVIOUS
  <2>5. Upto(reply, 0) = <<>>
    BY <1>2 DEF Upto
  <2>. QED
    BY <2>1, <2>2, <2>3, <2>4, <2>5, Zenon DEF Row
<1>. QED
  BY <1>2, <1>3, <1>4, <1>5, <1>6 DEF Kept

LEMMA SayKeepsInv ==
  ASSUME Typed, StreamInv, ~torn, NEW k \in 0..Len(reply), NEW last \in BOOLEAN, Say(k, last)
  PROVE  Kept(reply', said', ended', wire', buffer', Seen', at', reason')
<1>1. PICK rp, sd, en, w, b, sn, a, rs :
        /\ rp = reply /\ sd = said /\ en = ended /\ w = wire /\ b = buffer /\ sn = Seen /\ a = at /\ rs = reason
  OBVIOUS
<1>2. Kept(rp, sd, en, w, b, sn, a, rs)
  BY <1>1 DEF StreamInv
<1>3. rp \in Seq(Chars) /\ sd \in Nat /\ k \in Nat /\ sd + k <= Len(rp) /\ sn \in Seq(Signs) /\ en = FALSE
  BY <1>1, ReplyIs, SeenIs DEF Say, Typed
<1>4. last => sd + k = Len(rp)
  BY <1>1 DEF Say
<1>5. PICK e \in LineEnds : wire' = wire \o Frame(SubSeq(reply, said + 1, said + k), last) \o e
  BY DEF Say
<1>6. PICK w2 : w2 = wire'
  OBVIOUS
<1>7. ASSUME a \in {"read", "drain"} PROVE ~rs /\ \E v, r : Row(rp, sd + k, last, w2, b, sn, v, r)
  <2>1. ~rs /\ \E u, q : Row(rp, sd, FALSE, w, b, sn, u, q)
    BY <1>2, <1>3, <1>7 DEF Kept
  <2>2. PICK u, q : Row(rp, sd, FALSE, w, b, sn, u, q)
    BY <2>1
  <2>3. PICK v, r : Row(rp, sd + k, last, w \o Frame(SubSeq(rp, sd + 1, sd + k), last) \o e, b, sn, v, r)
    BY <1>3, <1>4, <2>2, SayKeeps
  <2>4. Row(rp, sd + k, last, w2, b, sn, v, r)
    BY <1>1, <1>5, <1>6, <2>3, Zenon
  <2>. QED
    BY <2>1, <2>4
<1>8. Kept(rp, sd + k, last, w2, b, sn, a, rs)
  BY <1>2, <1>4, <1>7 DEF Kept
<1>9. /\ reply' = reply /\ said' = said + k /\ ended' = last /\ buffer' = buffer /\ at' = at /\ reason' = reason
      /\ Seen' = Seen
  BY SeenSame DEF Say
<1>. QED
  BY <1>1, <1>6, <1>8, <1>9, Zenon

LEMMA ReadKeepsInv ==
  ASSUME Typed, StreamInv, ~torn, NEW n \in 1..Len(wire), Read(n), ~torn'
  PROVE  Kept(reply', said', ended', wire', buffer', Seen', at', reason')
<1>1. PICK rp, sd, en, w, b, sn, a, rs :
        /\ rp = reply /\ sd = said /\ en = ended /\ w = wire /\ b = buffer /\ sn = Seen /\ a = at /\ rs = reason
  OBVIOUS
<1>2. Kept(rp, sd, en, w, b, sn, a, rs) /\ a = "read"
  BY <1>1 DEF StreamInv, Read
<1>3. n \in 1..Len(w) /\ w[n] # "w1"
  BY <1>1 DEF Read
<1>4. PICK w2, b2 : w2 = From(w, n + 1) /\ b2 = b \o Decode(Upto(w, n))
  OBVIOUS
<1>5. w2 = wire' /\ b2 = buffer'
  BY <1>1, <1>4, Zenon DEF Read
<1>6. \E v, q : Row(rp, sd, en, w2, b2, sn, v, q)
  <2>1. PICK u, q : Row(rp, sd, en, w, b, sn, u, q)
    BY <1>2 DEF Kept
  <2>2. PICK v : Row(rp, sd, en, From(w, n + 1), b \o Decode(Upto(w, n)), sn, v, q)
    BY <1>3, <2>1, ReadKeeps
  <2>3. Row(rp, sd, en, w2, b2, sn, v, q)
    BY <1>4, <2>2, Zenon
  <2>. QED
    BY <2>3
<1>7. Kept(rp, sd, en, w2, b2, sn, a, rs)
  BY <1>2, <1>6 DEF Kept
<1>8. reply' = reply /\ said' = said /\ ended' = ended /\ at' = at /\ reason' = reason /\ Seen' = Seen
  BY SeenSame DEF Read
<1>. QED
  BY <1>1, <1>5, <1>7, <1>8, Zenon

LEMMA PopKeepsInv ==
  ASSUME Typed, StreamInv, ~torn, PopEvent
  PROVE  Kept(reply', said', ended', wire', buffer', Seen', at', reason')
<1>1. PICK rp, sd, en, w, b, sn, a :
        rp = reply /\ sd = said /\ en = ended /\ w = wire /\ b = buffer /\ sn = Seen /\ a = at'
  OBVIOUS
<1>2. rp \in Seq(Chars) /\ sd \in 0..Len(rp) /\ sn \in Seq(Signs)
  BY <1>1, ReplyIs, SeenIs DEF Typed
<1>3. en => sd = Len(rp)
  BY <1>1 DEF StreamInv, Kept
<1>4. PICK u, q : Row(rp, sd, en, w, b, sn, u, q)
  BY <1>1 DEF StreamInv, Kept, PopEvent
<1>5. EventEnds(b) # {} /\ buffer' = Left(b) /\ Push(Popped(b), Stops(Popped(b)))
  BY <1>1 DEF PopEvent, Left, Popped, Cut
<1>6. a \in {"read", "drain"} => ~Stops(Popped(b))
  BY <1>1, <1>5 DEF Push
<1>7. /\ Content(Popped(b)) \in Seq(Chars)
      /\ Kept(rp, sd, en, w, Left(b), sn \o Content(Popped(b)), a, Stops(Popped(b)))
  BY <1>2, <1>3, <1>4, <1>5, <1>6, PopKeeps
<1>8. tagBuffer' = tagBuffer \o Content(Popped(b)) /\ reason' = Stops(Popped(b))
  BY <1>5 DEF Push
<1>9. Content(Popped(b)) \in Seq(Signs)
  BY <1>7, SignsAre
<1>10. Seen' = sn \o Content(Popped(b))
  <2>1. events' = events
    BY DEF PopEvent
  <2>. QED
    BY <1>1, <1>8, <1>9, <2>1, SeenGrows
<1>11. reply' = reply /\ said' = said /\ ended' = ended /\ wire' = wire
  BY DEF PopEvent
<1>. QED
  BY <1>1, <1>5, <1>7, <1>8, <1>10, <1>11, Zenon

LEMMA EndKeepsInv ==
  ASSUME Typed, StreamInv, ~torn, EndResponse
  PROVE  Kept(reply', said', ended', wire', buffer', Seen', at', reason')
<1>1. PICK rp, sd, en, w, b, sn, a, rs :
        /\ rp = reply /\ sd = said /\ en = ended /\ w = wire /\ b = buffer /\ sn = Seen /\ a = at' /\ rs = reason
  OBVIOUS
<1>2. rp \in Seq(Chars) /\ sd \in 0..Len(rp) /\ sn \in Seq(Signs)
  BY <1>1, ReplyIs, SeenIs DEF Typed
<1>3. Kept(rp, sd, en, w, b, sn, at, rs) /\ at = "read"
  BY <1>1 DEF StreamInv, EndResponse
<1>4. PICK v : v = Without(b, {"n", "r"})
  OBVIOUS
<1>5. /\ reply' = reply /\ said' = said /\ ended' = ended /\ events' = events
  BY DEF EndResponse
<1>6. CASE a \in {"flush", "failed"} /\ UNCHANGED <<tagBuffer, reason>>
  <2>1. Seen' = Seen
    BY <1>5, <1>6, SeenSame
  <2>2. a # "read" /\ a # "drain"
    BY <1>6
  <2>3. \A w2, b2 : Kept(rp, sd, en, w2, b2, sn, a, rs)
    BY <1>3, <2>2, KeptLeaves
  <2>. QED
    BY <1>1, <1>5, <1>6, <2>1, <2>3
<1>7. CASE IsEvent(v) /\ Push(v, TRUE)
  <2>1. a # "read" /\ a # "drain"
    BY <1>1, <1>7 DEF Push
  <2>2. Ending(b, v, a)
    BY <1>1, <1>4, <1>7, <2>1 DEF Ending, EndResponse
  <2>3. en => sd = Len(rp)
    BY <1>3 DEF Kept
  <2>4. PICK u, q : Row(rp, sd, en, w, b, sn, u, q)
    BY <1>3 DEF Kept
  <2>5. PICK w2, b2 : w2 = wire' /\ b2 = buffer'
    OBVIOUS
  <2>6. Content(v) \in Seq(Chars) /\ Kept(rp, sd, en, w2, b2, sn \o Content(v), a, Stops(v))
    BY <1>2, <2>2, <2>3, <2>4, EndKeeps
  <2>7. tagBuffer' = tagBuffer \o Content(v) /\ reason' = Stops(v)
    BY <1>7 DEF Push
  <2>8. Content(v) \in Seq(Signs)
    BY <2>6, SignsAre
  <2>9. Seen' = sn \o Content(v)
    BY <1>1, <1>5, <2>7, <2>8, SeenGrows
  <2>. QED
    BY <1>1, <1>5, <2>5, <2>6, <2>7, <2>9, Zenon
<1>8. \/ a \in {"flush", "failed"} /\ UNCHANGED <<tagBuffer, reason>>
      \/ IsEvent(v) /\ Push(v, TRUE)
  BY <1>1, <1>4 DEF EndResponse
<1>. QED
  BY <1>6, <1>7, <1>8

LEMMA ParserKeepsInv ==
  ASSUME Typed, StreamInv, ~torn, ParserMoves
  PROVE  Kept(reply', said', ended', wire', buffer', Seen', at', reason')
<1>1. Kept(reply, said, ended, wire, buffer, Seen, at, reason)
  BY DEF StreamInv
<1>2. at' \in {"read", "drain"} => at \in {"read", "drain"}
  BY DEF ParserMoves
<1>3. Kept(reply, said, ended, wire, buffer, Seen, at', reason)
  BY <1>1, <1>2, KeptOn
<1>4. /\ reply' = reply /\ said' = said /\ ended' = ended /\ wire' = wire /\ buffer' = buffer /\ reason' = reason
      /\ Seen' = Seen
  BY SeenCut DEF ParserMoves
<1>. QED
  BY <1>3, <1>4, Zenon

LEMMA OthersKeepInv ==
  ASSUME StreamInv, ~torn, Break \/ UNCHANGED streamVars
  PROVE  Kept(reply', said', ended', wire', buffer', Seen', at', reason')
<1>1. Kept(reply, said, ended, wire, buffer, Seen, at, reason)
  BY DEF StreamInv
<1>2. at' \in {"read", "drain"} => at \in {"read", "drain"}
  BY DEF Break, streamVars
<1>3. Kept(reply, said, ended, wire, buffer, Seen, at', reason)
  BY <1>1, <1>2, KeptOn
<1>4. /\ reply' = reply /\ said' = said /\ ended' = ended /\ wire' = wire /\ buffer' = buffer /\ reason' = reason
      /\ events' = events /\ tagBuffer' = tagBuffer
  BY DEF Break, streamVars
<1>5. Seen' = Seen
  BY <1>4, SeenSame
<1>. QED
  BY <1>3, <1>4, <1>5, Zenon

LEMMA StreamStepInv == Typed /\ StreamInv /\ [StreamNext]_streamVars => StreamInv'
<1>. DEFINE KeptNext == Kept(reply', said', ended', wire', buffer', Seen', at', reason')
<1>. SUFFICES ASSUME Typed, StreamInv, [StreamNext]_streamVars, ~torn' PROVE KeptNext
  BY DEF StreamInv
<1>. HIDE DEF KeptNext
<1>1. ASSUME NEW k \in 0..Len(reply), NEW last \in BOOLEAN, Say(k, last) PROVE KeptNext
  <2>1. ~torn
    BY <1>1 DEF Say
  <2>. QED
    BY <1>1, <2>1, SayKeepsInv DEF KeptNext
<1>2. ASSUME NEW n \in 1..Len(wire), Read(n) PROVE KeptNext
  <2>1. ~torn
    BY <1>2 DEF Read
  <2>. QED
    BY <1>2, <2>1, ReadKeepsInv DEF KeptNext
<1>3. CASE PopEvent
  <2>1. ~torn
    BY <1>3 DEF PopEvent
  <2>. QED
    BY <1>3, <2>1, PopKeepsInv DEF KeptNext
<1>4. CASE EndResponse
  <2>1. ~torn
    BY <1>4 DEF EndResponse
  <2>. QED
    BY <1>4, <2>1, EndKeepsInv DEF KeptNext
<1>5. CASE TakeTag \/ HoldBack \/ Flush
  <2>1. ParserMoves
    BY <1>5, TakeTagMoves, HoldBackMoves, FlushMoves
  <2>2. ~torn
    BY <2>1 DEF ParserMoves
  <2>. QED
    BY <2>1, <2>2, ParserKeepsInv DEF KeptNext
<1>6. CASE Break \/ UNCHANGED streamVars
  <2>1. ~torn
    BY <1>6 DEF Break, streamVars
  <2>. QED
    BY <1>6, <2>1, OthersKeepInv DEF KeptNext
<1>. QED
  BY <1>1, <1>2, <1>3, <1>4, <1>5, <1>6 DEF StreamNext

\* A start of the reply is as much of it.
LEMMA KeptShows ==
  ASSUME NEW rp \in Seq(Chars), NEW sn \in Seq(Signs), NEW rest \in Seq(Chars), IsConcat(rp, sn, rest)
  PROVE  sn = Upto(rp, Len(sn))
<1>1. rest \in Seq(Signs)
  BY SignsAre
<1>2. /\ Len(rp) = Len(sn) + Len(rest) /\ rp \in Seq(Signs)
      /\ \A i \in 1..Len(sn) : rp[i] = sn[i]
  BY <1>1, ConcatAt
<1>3. PICK n \in Nat : n = Len(sn) /\ n <= Len(rp)
  BY <1>1, <1>2
<1>4. Upto(rp, n) \in Seq(Signs) /\ Len(Upto(rp, n)) = n /\ \A i \in 1..n : Upto(rp, n)[i] = rp[i]
  BY <1>2, <1>3 DEF Upto
<1>5. \A i \in 1..n : Upto(rp, n)[i] = sn[i]
  BY <1>2, <1>3, <1>4
<1>. QED
  BY <1>3, <1>4, <1>5, SeqEqual

\* However the answer is cut, on its way or in the parser, the client sees it in order and
\* nothing else, and all of it once the provider said that it is finished.
THEOREM WholeAnswers == StreamSpec => []WholeAnswerIsKept
<1>1. Typed /\ StreamInv => WholeAnswerIsKept
  <2>. SUFFICES ASSUME Typed, StreamInv, ~torn
                PROVE  Seen = Upto(reply, Len(Seen)) /\ (reason => Seen = reply)
    BY DEF WholeAnswerIsKept, Seen
  <2>1. Kept(reply, said, ended, wire, buffer, Seen, at, reason)
    BY DEF StreamInv
  <2>2. PICK rest \in Seq(Chars) : IsConcat(reply, Seen, rest)
    BY <2>1 DEF Kept
  <2>3. reply \in Seq(Chars) /\ Seen \in Seq(Signs)
    BY ReplyIs, SeenIs
  <2>. QED
    BY <2>1, <2>2, <2>3, KeptShows DEF Kept
<1>. QED
  BY <1>1, StreamInitTyped, StreamStepTyped, StreamInitInv, StreamStepInv, PTL DEF StreamSpec

-------------------------------------------------------------------------------
(***************************************************************************)
(* The citations.  An event is a citation when the parser takes a whole    *)
(* tag at once, so no tag may be let go in part: CiteInv says that however *)
(* the answer goes on, as X, a citation that starts in the part already    *)
(* shown is an event; HeldInv, that no whole tag is held between reads.    *)
(***************************************************************************)

\* A citation of the text w, a tag in a tag that is open, and the place of a citation event.
CiteIn(w, p, q) ==
  /\ p \in Nat /\ q \in Nat /\ p >= 1 /\ q >= p + 3 /\ q <= Len(w)
  /\ w[p] = "[" /\ w[p + 1] = "c" /\ w[q] = "]" /\ \A i \in p + 2..q - 1 : w[i] = "1"
NestsAt(w, i, j) ==
  /\ i \in Nat /\ j \in Nat /\ i >= 1 /\ i < j /\ j <= Len(w)
  /\ w[i] = "[" /\ w[i + 1] = "c" /\ w[j] = "[" /\ \A k \in i + 1..j - 1 : w[k] # "]"
Clean(w) == \A i, j : ~NestsAt(w, i, j)

ShownLen(ev) == Len(ShownOf(ev))
CiteAt(ev, n, p, q) ==
  /\ n \in 1..Len(ev) /\ ev[n] \in Cites
  /\ p = ShownLen(Upto(ev, n - 1)) + 1 /\ q = ShownLen(Upto(ev, n))
\* Every citation of w that starts in what the events show is a citation event.
Cited(ev, w) == \A p, q : CiteIn(w, p, q) /\ p <= ShownLen(ev) => \E n : CiteAt(ev, n, p, q)

\* The text t comes after the first l characters of w.
Lies(w, l, t) ==
  /\ w \in Seq(Signs) /\ t \in Seq(Signs) /\ l \in Nat /\ Len(w) \in Nat /\ Len(t) \in Nat
  /\ l + Len(t) <= Len(w) /\ \A k \in 1..Len(t) : w[l + k] = t[k]

\* A text between two others lies behind the first of them.
LEMMA LiesIn ==
  ASSUME NEW h \in Seq(Signs), NEW t \in Seq(Signs), NEW x \in Seq(Signs), NEW u, NEW w,
         IsConcat(u, h, t), IsConcat(w, u, x)
  PROVE  Lies(w, Len(h), t)
<1>1. /\ u \in Seq(Signs) /\ Len(u) = Len(h) + Len(t)
      /\ \A k \in 1..Len(t) : u[Len(h) + k] = t[k]
  BY ConcatAt
<1>2. /\ w \in Seq(Signs) /\ Len(w) = Len(u) + Len(x)
      /\ \A k \in 1..Len(u) : w[k] = u[k]
  <2>1. u \in Seq(Signs)
    BY <1>1
  <2>. QED
    BY <2>1, ConcatAt
<1>3. PICK l, n \in Nat : l = Len(h) /\ n = Len(t)
  OBVIOUS
<1>4. Len(x) \in Nat
  OBVIOUS
<1>a. Len(u) = l + n
  BY <1>1, <1>3
<1>5. \A k \in 1..n : l + k \in 1..Len(u)
  BY <1>a
<1>b. \A k \in 1..n : u[l + k] = t[k]
  BY <1>1, <1>3
<1>6. \A k \in 1..n : w[l + k] = t[k]
  BY <1>2, <1>5, <1>b
<1>7. Len(w) \in Nat /\ l + n <= Len(w)
  BY <1>a, <1>2, <1>4
<1>. QED
  BY <1>2, <1>3, <1>6, <1>7 DEF Lies

\* No citation starts before the first tag, and the first tag is all there is of it.
LEMMA BeforeTag ==
  ASSUME NEW w, NEW l, NEW s, Lies(w, l, s), NEW i \in 1..Len(s) + 1, NEW p, NEW q, CiteIn(w, p, q),
         \A k \in Opens(s) : i <= k, p > l, p < l + i, i <= Len(s)
  PROVE  FALSE
<1>1. /\ s \in Seq(Signs) /\ l \in Nat /\ Len(s) \in Nat /\ i \in Nat
      /\ \A k \in 1..Len(s) : w[l + k] = s[k]
  BY DEF Lies
<1>2. p \in Nat /\ w[p] = "[" /\ w[p + 1] = "c"
  BY DEF CiteIn
<1>3. PICK k \in Nat : p = l + k
  <2>1. p - l \in Nat /\ p = l + (p - l)
    BY <1>1, <1>2
  <2>. QED
    BY <2>1
<1>4. k \in 1..Len(s) - 1 /\ k + 1 \in 1..Len(s) /\ p + 1 = l + (k + 1) /\ k < i /\ k \in 1..Len(s)
  BY <1>1, <1>2, <1>3
<1>5. s[k] = "[" /\ s[k + 1] = "c"
  BY <1>1, <1>2, <1>3, <1>4
<1>6. k \in Opens(s)
  BY <1>1, <1>4, <1>5, PlacesIn
<1>. QED
  BY <1>1, <1>4, <1>6

\* The first tag of the text is the only citation that starts in what TakeTag takes.
LEMMA OnlyTag ==
  ASSUME NEW w, NEW l, NEW s, Lies(w, l, s), Clean(w), NEW i, NEW j, TagAt(s, i, j),
         NEW p, NEW q, CiteIn(w, p, q), p > l, p <= l + j
  PROVE  p = l + i /\ q = l + j
<1>1. /\ s \in Seq(Signs) /\ l \in Nat /\ Len(s) \in Nat /\ l + Len(s) <= Len(w) /\ Len(w) \in Nat
      /\ \A k \in 1..Len(s) : w[l + k] = s[k]
  BY DEF Lies
<1>2. /\ i \in 1..Len(s) /\ j \in 1..Len(s) /\ i < j /\ i \in Opens(s) /\ j \in Closes(s)
      /\ \A k \in Opens(s) : i <= k
      /\ \A k \in Closes(s) : k > i => j <= k
  BY <1>1, TagAtIs
<1>3. /\ p \in Nat /\ q \in Nat /\ p >= 1 /\ q >= p + 3 /\ q <= Len(w)
      /\ w[p] = "[" /\ w[p + 1] = "c" /\ w[q] = "]" /\ \A k \in p + 2..q - 1 : w[k] = "1"
  BY DEF CiteIn
<1>4. i \in 1..Len(s) - 1 /\ s[i] = "[" /\ s[i + 1] = "c" /\ s[j] = "]" /\ i \in Nat /\ j \in Nat
  BY <1>1, <1>2, PlacesIn
<1>5. w[l + i] = "[" /\ w[l + i + 1] = "c" /\ w[l + j] = "]"
  <2>1. i + 1 \in 1..Len(s) /\ l + i + 1 = l + (i + 1)
    BY <1>1, <1>4
  <2>. QED
    BY <1>1, <1>2, <1>4, <2>1
<1>6. ~(p < l + i)
  <2>. SUFFICES ASSUME p < l + i PROVE FALSE
    OBVIOUS
  <2>1. i \in 1..Len(s) + 1 /\ i <= Len(s)
    BY <1>1, <1>2
  <2>. QED
    BY <1>2, <2>1, BeforeTag
<1>7. \A k \in l + i + 1..l + j - 1 : w[k] # "]"
  <2>. SUFFICES ASSUME NEW k \in l + i + 1..l + j - 1, w[k] = "]" PROVE FALSE
    OBVIOUS
  <2>1. PICK m \in Nat : k = l + m
    <3>1. k - l \in Nat /\ k = l + (k - l)
      BY <1>1, <1>4
    <3>. QED
      BY <3>1
  <2>2. m \in 1..Len(s) /\ m > i /\ m < j
    BY <1>1, <1>2, <1>4, <2>1
  <2>3. m \in Closes(s)
    BY <1>1, <2>1, <2>2, PlacesIn
  <2>. QED
    BY <1>2, <1>4, <2>2, <2>3
<1>8. ~(p > l + i)
  <2>. SUFFICES ASSUME p > l + i PROVE FALSE
    OBVIOUS
  <2>1. p # l + j
    BY <1>3, <1>5
  <2>2. l + i \in Nat /\ l + i >= 1 /\ l + i < p /\ p <= Len(w)
    BY <1>1, <1>3, <1>4
  <2>3. \A k \in l + i + 1..p - 1 : k \in l + i + 1..l + j - 1
    BY <1>1, <1>3, <1>4
  <2>4. NestsAt(w, l + i, p)
    BY <1>3, <1>5, <1>7, <2>2, <2>3 DEF NestsAt
  <2>. QED
    BY <2>4 DEF Clean
<1>9. p = l + i
  BY <1>1, <1>3, <1>4, <1>6, <1>8
<1>10. ~(q < l + j)
  <2>. SUFFICES ASSUME q < l + j PROVE FALSE
    OBVIOUS
  <2>1. q \in l + i + 1..l + j - 1
    BY <1>1, <1>3, <1>4, <1>9
  <2>. QED
    BY <1>3, <1>7, <2>1
<1>11. ~(q > l + j)
  <2>. SUFFICES ASSUME q > l + j PROVE FALSE
    OBVIOUS
  <2>1. j # i + 1
    BY <1>4
  <2>2. l + j \in p + 2..q - 1
    BY <1>1, <1>2, <1>3, <1>4, <1>9, <2>1
  <2>. QED
    BY <1>3, <1>5, <2>2
<1>. QED
  BY <1>1, <1>3, <1>4, <1>9, <1>10, <1>11

\* The events before stay, and so do the places of their citations.
LEMMA ShownLenIs ==
  ASSUME NEW ev \in Seq(Items)
  PROVE  ShownOf(ev) \in Seq(Signs) /\ ShownLen(ev) \in Nat
<1>1. ShownOf(ev) = Spread(ShowOp, ev) /\ Spread(ShowOp, ev) \in Seq(Signs)
  BY ShownOfIs, ShowOpIs, SpreadIs
<1>2. ShownOf(ev) \in Seq(Signs)
  BY <1>1, Zenon
<1>. QED
  BY <1>2 DEF ShownLen

Shows(A, a) == a \in Seq(Signs) /\ Spread(ShowOp, A) = a

\* Events that show a are added, and so is a.
LEMMA ShownJoins ==
  ASSUME NEW ev \in Seq(Items), NEW A \in Seq(Items), NEW g, IsConcat(g, ev, A), NEW a, Shows(A, a)
  PROVE  g \in Seq(Items) /\ IsConcat(ShownOf(g), ShownOf(ev), a)
<1>1. g \in Seq(Items)
  BY ConcatAt
<1>2. Spreads(ShowOp, Items, Signs)
  BY ShowOpIs
<1>3. Spread(ShowOp, ev \o A) = Spread(ShowOp, ev) \o Spread(ShowOp, A)
  BY <1>2, SpreadJoins
<1>4. ShownOf(ev) = Spread(ShowOp, ev) /\ ShownOf(g) = Spread(ShowOp, g)
  BY <1>1, ShownOfIs
<1>5. Spread(ShowOp, g) = Spread(ShowOp, ev) \o Spread(ShowOp, A)
  BY <1>3, Zenon DEF IsConcat
<1>6. Spread(ShowOp, g) = ShownOf(ev) \o a
  BY <1>4, <1>5, Zenon DEF Shows
<1>. QED
  BY <1>1, <1>4, <1>6, Zenon DEF IsConcat

LEMMA ShownAdds ==
  ASSUME NEW ev \in Seq(Items), NEW A \in Seq(Items), NEW g, IsConcat(g, ev, A), NEW a, Shows(A, a)
  PROVE  g \in Seq(Items) /\ ShownLen(g) = ShownLen(ev) + Len(a)
<1>1. g \in Seq(Items) /\ IsConcat(ShownOf(g), ShownOf(ev), a)
  BY ShownJoins
<1>2. ShownOf(ev) \in Seq(Signs) /\ a \in Seq(Signs)
  BY ShownLenIs DEF Shows
<1>3. Len(ShownOf(g)) = Len(ShownOf(ev)) + Len(a)
  BY <1>1, <1>2, ConcatAt
<1>. QED
  BY <1>1, <1>3 DEF ShownLen

LEMMA UptoOf ==
  ASSUME NEW S, NEW ev \in Seq(S), NEW A \in Seq(S), NEW g, IsConcat(g, ev, A), NEW n \in 0..Len(ev)
  PROVE  Upto(g, n) = Upto(ev, n) /\ Upto(g, n) \in Seq(S)
<1>1. /\ g \in Seq(S) /\ Len(g) = Len(ev) + Len(A)
      /\ \A i \in 1..Len(ev) : g[i] = ev[i]
  BY ConcatAt
<1>2. PICK m, l \in Nat : m = Len(ev) /\ l = Len(A)
  OBVIOUS
<1>3. n \in Nat /\ n <= m /\ n <= m + l
  BY <1>2
<1>4. Upto(g, n) \in Seq(S) /\ Len(Upto(g, n)) = n /\ \A i \in 1..n : Upto(g, n)[i] = g[i]
  BY <1>1, <1>2, <1>3 DEF Upto
<1>5. Upto(ev, n) \in Seq(S) /\ Len(Upto(ev, n)) = n /\ \A i \in 1..n : Upto(ev, n)[i] = ev[i]
  BY <1>2, <1>3 DEF Upto
<1>6. \A i \in 1..n : i \in 1..Len(ev)
  BY <1>2, <1>3
<1>7. \A i \in 1..n : Upto(g, n)[i] = Upto(ev, n)[i]
  BY <1>1, <1>4, <1>5, <1>6
<1>. QED
  BY <1>4, <1>5, <1>7, SeqEqual

\* A citation event keeps its place when others follow it.
LEMMA CiteStays ==
  ASSUME NEW ev \in Seq(Items), NEW A \in Seq(Items), NEW g, IsConcat(g, ev, A), NEW n, NEW p, NEW q,
         CiteAt(ev, n, p, q)
  PROVE  CiteAt(g, n, p, q)
<1>1. n \in 1..Len(ev) /\ ev[n] \in Cites
  BY DEF CiteAt
<1>2. /\ g \in Seq(Items) /\ Len(g) = Len(ev) + Len(A)
      /\ \A i \in 1..Len(ev) : g[i] = ev[i]
  BY ConcatAt
<1>3. Len(ev) \in Nat /\ Len(A) \in Nat
  OBVIOUS
<1>4. n \in 1..Len(g) /\ n \in 0..Len(ev) /\ n - 1 \in 0..Len(ev)
  BY <1>1, <1>2, <1>3
<1>5. Upto(g, n) = Upto(ev, n) /\ Upto(g, n - 1) = Upto(ev, n - 1)
  BY <1>4, UptoOf
<1>. QED
  BY <1>1, <1>2, <1>4, <1>5 DEF CiteAt

\* Where no citation starts in the new text, none is missed.
LEMMA NoneMissed ==
  ASSUME NEW ev \in Seq(Items), NEW A \in Seq(Items), NEW g, IsConcat(g, ev, A), NEW w, Cited(ev, w),
         \A p, q : CiteIn(w, p, q) /\ p > ShownLen(ev) => p > ShownLen(g)
  PROVE  Cited(g, w)
<1>. SUFFICES ASSUME NEW p, NEW q, CiteIn(w, p, q), p <= ShownLen(g) PROVE \E n : CiteAt(g, n, p, q)
  BY DEF Cited
<1>1. p \in Nat /\ ShownLen(ev) \in Nat /\ ShownLen(g) \in Nat
  <2>1. g \in Seq(Items)
    BY ConcatAt
  <2>. QED
    BY <2>1, ShownLenIs DEF CiteIn
<1>2. p <= ShownLen(ev)
  BY <1>1
<1>3. PICK n : CiteAt(ev, n, p, q)
  BY <1>2 DEF Cited
<1>4. CiteAt(g, n, p, q)
  BY <1>3, CiteStays
<1>. QED
  BY <1>4

\* A tag that is a citation is one citation event.
LEMMA TagEvent ==
  ASSUME NEW tag \in Seq(Signs), Len(tag) >= 1, IsCitation(tag)
  PROVE  \E e \in Cites : e \in Items /\ Tag(tag) = <<e>> /\ e = [cite |-> SubSeq(tag, 3, Len(tag) - 1)]
<1>1. PICK e : e = [cite |-> SubSeq(tag, 3, Len(tag) - 1)]
  OBVIOUS
<1>2. e \in Cites
  BY <1>1, TagIs
<1>. QED
  BY <1>1, <1>2 DEF Tag, Items

\* The first tag of the held text becomes a citation event, when it is a citation.
LEMMA TagCites ==
  ASSUME NEW ev \in Seq(Items), NEW w, NEW s, Lies(w, ShownLen(ev), s), Clean(w), Cited(ev, w),
         NEW i, NEW j, TagAt(s, i, j), NEW ev2, Grown(ev, Text(Upto(s, i - 1)), Tag(SubSeq(s, i, j)), ev2)
  PROVE  Cited(ev2, w)
<1>1. PICK l : l = ShownLen(ev)
  OBVIOUS
<1>2. /\ s \in Seq(Signs) /\ l \in Nat /\ Len(s) \in Nat /\ Lies(w, l, s)
      /\ \A k \in 1..Len(s) : w[l + k] = s[k]
  BY <1>1 DEF Lies
<1>3. i \in 1..Len(s) /\ j \in 1..Len(s) /\ i < j /\ i \in Nat /\ j \in Nat
  BY <1>2, TagAtIs
<1>4. PICK a, tag, A, B, g : a = Upto(s, i - 1) /\ tag = SubSeq(s, i, j) /\ A = Text(a) /\ B = Tag(tag) /\ g = ev \o A
  OBVIOUS
<1>5. /\ a \in Seq(Signs) /\ Len(a) = i - 1 /\ tag \in Seq(Signs) /\ Len(tag) = (j - i) + 1
      /\ \A k \in 1..(j - i) + 1 : tag[k] = s[i + k - 1]
  BY <1>2, <1>3, <1>4 DEF Upto
<1>6. A \in Seq(Items) /\ Shows(A, a)
  <2>1. Text(a) \in Seq(Items) /\ Spread(ShowOp, Text(a)) = a
    BY <1>5, TextIs
  <2>. QED
    BY <1>4, <1>5, <2>1, Zenon DEF Shows
<1>7. B \in Seq(Items) /\ Shows(B, tag)
  <2>1. Len(tag) >= 1
    BY <1>3, <1>5
  <2>2. Tag(tag) \in Seq(Items) /\ Spread(ShowOp, Tag(tag)) = tag
    BY <1>5, <2>1, TagIs
  <2>. QED
    BY <1>4, <1>5, <2>2, Zenon DEF Shows
<1>8. IsConcat(g, ev, A) /\ IsConcat(ev2, g, B)
  BY <1>4, Zenon DEF IsConcat, Grown
<1>9. g \in Seq(Items) /\ ShownLen(g) = l + (i - 1)
  BY <1>1, <1>5, <1>6, <1>8, ShownAdds
<1>10. ev2 \in Seq(Items) /\ ShownLen(ev2) = l + j
  <2>1. ev2 \in Seq(Items) /\ ShownLen(ev2) = ShownLen(g) + Len(tag)
    BY <1>5, <1>7, <1>8, <1>9, ShownAdds
  <2>2. (l + (i - 1)) + ((j - i) + 1) = l + j
    BY <1>2, <1>3
  <2>. QED
    BY <1>5, <1>9, <2>1, <2>2
<1>. SUFFICES ASSUME NEW p, NEW q, CiteIn(w, p, q), p <= ShownLen(ev2) PROVE \E n : CiteAt(ev2, n, p, q)
  BY DEF Cited
<1>11. p \in Nat /\ p <= l + j
  BY <1>10 DEF CiteIn
<1>12. CASE p <= l
  <2>1. PICK n : CiteAt(ev, n, p, q)
    BY <1>1, <1>12 DEF Cited
  <2>2. CiteAt(g, n, p, q)
    BY <1>6, <1>8, <2>1, CiteStays
  <2>3. CiteAt(ev2, n, p, q)
    BY <1>7, <1>8, <1>9, <2>2, CiteStays
  <2>. QED
    BY <2>3
<1>13. CASE ~(p <= l)
  <2>1. p > l
    BY <1>2, <1>11, <1>13
  <2>2. p = l + i /\ q = l + j
    BY <1>2, <1>11, <2>1, OnlyTag
  <2>3. IsCitation(tag)
    <3>1. /\ q >= p + 3 /\ w[p] = "[" /\ w[p + 1] = "c" /\ w[q] = "]"
          /\ \A k \in p + 2..q - 1 : w[k] = "1"
      BY DEF CiteIn
    <3>2. PICK n \in Nat : n = (j - i) + 1
      BY <1>3
    <3>3. n >= 4
      BY <1>2, <1>3, <2>2, <3>1, <3>2
    <3>4. \A k \in 1..n : i + k - 1 \in 1..Len(s) /\ l + (i + k - 1) = p + (k - 1)
      BY <1>2, <1>3, <2>2, <3>2
    <3>5. \A k \in 1..n : tag[k] = w[p + (k - 1)]
      <4>1. \A k \in 1..n : tag[k] = s[i + k - 1]
        BY <1>5, <3>2
      <4>2. \A k \in 1..n : w[l + (i + k - 1)] = s[i + k - 1]
        BY <1>2, <3>4
      <4>. QED
        BY <3>4, <4>1, <4>2
    <3>6. /\ 1 \in 1..n /\ 2 \in 1..n /\ n \in 1..n /\ p + (1 - 1) = p /\ p + (2 - 1) = p + 1 /\ p + (n - 1) = q
          /\ \A k \in 3..n - 1 : k \in 1..n /\ p + (k - 1) \in p + 2..q - 1
      BY <1>2, <1>3, <1>11, <2>2, <3>2, <3>3
    <3>7. tag[1] = "[" /\ tag[2] = "c" /\ tag[n] = "]" /\ \A k \in 3..n - 1 : tag[k] = "1"
      BY <3>1, <3>5, <3>6
    <3>8. n = Len(tag) /\ n >= 1
      BY <1>5, <3>2, <3>3
    <3>. QED
      BY <1>5, <3>3, <3>7, <3>8, CitationIs
  <2>4. PICK e \in Cites : e \in Items /\ B = <<e>>
    <3>1. Len(tag) >= 1
      BY <1>3, <1>5
    <3>. QED
      BY <1>4, <1>5, <2>3, <3>1, TagEvent
  <2>5. PICK n \in Nat : n = Len(g) + 1
    BY <1>9
  <2>6. Len(ev2) = n /\ ev2[n] = e /\ n \in 1..n
    <3>1. /\ Len(ev2) = Len(g) + Len(B) /\ \A k \in 1..Len(B) : ev2[Len(g) + k] = B[k]
      BY <1>7, <1>8, <1>9, ConcatAt
    <3>2. Len(B) = 1 /\ B[1] = e /\ 1 \in 1..Len(B)
      BY <2>4
    <3>3. Len(g) \in Nat
      BY <1>9
    <3>. QED
      BY <2>5, <3>1, <3>2, <3>3
  <2>7. Upto(ev2, n - 1) = g
    <3>1. n - 1 = Len(g) /\ Len(g) \in 0..Len(g)
      BY <1>9, <2>5
    <3>2. Upto(ev2, Len(g)) = Upto(g, Len(g))
      BY <1>7, <1>8, <1>9, <3>1, UptoOf
    <3>3. Upto(g, Len(g)) = g
      BY <1>9 DEF Upto
    <3>. QED
      BY <3>1, <3>2, <3>3
  <2>8. Upto(ev2, n) = ev2
    BY <1>10, <2>6 DEF Upto
  <2>9. p = ShownLen(Upto(ev2, n - 1)) + 1 /\ q = ShownLen(Upto(ev2, n))
    <3>1. ShownLen(Upto(ev2, n - 1)) = l + (i - 1)
      BY <1>9, <2>7
    <3>2. (l + (i - 1)) + 1 = l + i
      BY <1>2, <1>3
    <3>. QED
      BY <1>10, <2>2, <2>8, <3>1, <3>2
  <2>10. CiteAt(ev2, n, p, q)
    BY <2>6, <2>9 DEF CiteAt
  <2>. QED
    BY <2>10
<1>. QED
  BY <1>12, <1>13

\* No citation starts in the text that is not held back.
LEMMA HeldTags ==
  ASSUME NEW w, NEW l, NEW s, Lies(w, l, s), Clean(w), NEW k, NEW r, NEW m, CutsAt(s, k, r, m),
         NEW p, NEW q, CiteIn(w, p, q), p > l, p <= l + ((k - 1) + (m - 1))
  PROVE  FALSE
<1>1. /\ s \in Seq(Signs) /\ l \in Nat /\ Len(s) \in Nat /\ l + Len(s) <= Len(w) /\ Len(w) \in Nat
      /\ \A x \in 1..Len(s) : w[l + x] = s[x]
  BY DEF Lies
<1>2. /\ k \in 1..Len(s) + 1
      /\ r \in Seq(Signs) /\ Len(r) \in Nat /\ Len(r) = Len(s) - k + 1
      /\ \A x \in 1..Len(r) : r[x] = s[k + x - 1]
      /\ m \in 1..Len(r) + 1 /\ \A i \in Held(r) : i <= m
      /\ Held(r) # {} => m \in Held(r)
  BY CutsAtIs
<1>3. p \in Nat /\ w[p] = "[" /\ w[p + 1] = "c" /\ p >= 1
  BY DEF CiteIn
<1>4. CASE Opens(s) # {}
  <2>1. Opens(s) \in SUBSET Nat
    BY <1>1, PlacesIn
  <2>2. k \in Opens(s) /\ \A x \in Opens(s) : k <= x
    BY <1>4, <2>1, FirstIs DEF CutsAt
  <2>3. k \in 1..Len(s) - 1 /\ s[k] = "[" /\ s[k + 1] = "c"
    BY <1>1, <2>2, PlacesIn
  <2>4. \A x \in Closes(s) : ~(x > k)
    BY <1>4 DEF CutsAt, HasTag
  <2>5. \A x \in k + 1..Len(s) : s[x] # "]"
    <3>1. ASSUME NEW x \in k + 1..Len(s), s[x] = "]" PROVE FALSE
      <4>1. x \in 1..Len(s) /\ x > k
        BY <1>1, <2>3
      <4>2. x \in Closes(s)
        BY <1>1, <3>1, <4>1, PlacesIn
      <4>. QED
        BY <2>4, <4>1, <4>2
    <3>. QED
      BY <3>1
  <2>6. 1 \in Opens(r) /\ r[Len(r)] # "]"
    <3>1. 1 \in 1..Len(r) - 1 /\ 1 \in 1..Len(r) /\ 2 \in 1..Len(r) /\ Len(r) \in 1..Len(r)
      BY <1>1, <1>2, <2>3
    <3>2. k + 1 - 1 = k /\ k + 2 - 1 = k + 1 /\ k + Len(r) - 1 = Len(s) /\ 1 + 1 = 2 /\ Len(s) \in k + 1..Len(s)
      BY <1>1, <1>2, <2>3
    <3>3. r[1] = s[k] /\ r[2] = s[k + 1] /\ r[Len(r)] = s[Len(s)]
      BY <1>2, <3>1, <3>2
    <3>4. 1 \in Opens(r)
      BY <1>2, <2>3, <3>1, <3>2, <3>3, PlacesIn
    <3>. QED
      BY <2>5, <3>2, <3>3, <3>4
  <2>7. 1 \in Held(r)
    BY <1>2, <2>6, HeldIs
  <2>8. m \in Held(r) /\ m >= 1
    BY <1>2, <2>7
  <2>9. m = 1
    <3>. SUFFICES ASSUME m # 1 PROVE FALSE
      OBVIOUS
    <3>1. m \in 1..Len(r) /\ r[m] = "["
      BY <1>2, <2>8, HeldIs
    <3>2. PICK x \in Nat : x = k + m - 1
      BY <1>2
    <3>3. x \in 1..Len(s) /\ x > k /\ s[x] = "["
      BY <1>1, <1>2, <3>1, <3>2
    <3>4. w[l + k] = "[" /\ w[l + k + 1] = "c" /\ w[l + x] = "["
      <4>1. k \in 1..Len(s) /\ k + 1 \in 1..Len(s) /\ l + k + 1 = l + (k + 1)
        BY <1>1, <2>3
      <4>. QED
        BY <1>1, <2>3, <3>3, <4>1
    <3>5. PICK a \in Nat, b \in Nat : a = l + k /\ b = l + x
      <4>1. l + k \in Nat /\ l + x \in Nat
        BY <1>1, <2>3, <3>3
      <4>. QED
        BY <4>1
    <3>6. \A y \in a + 1..b - 1 : w[y] # "]"
      <4>. TAKE y \in a + 1..b - 1
      <4>1. PICK z \in Nat : y = l + z
        <5>1. y \in Int /\ y >= l + k + 1 /\ k \in Nat
          BY <1>1, <2>3, <3>2, <3>5
        <5>2. y - l \in Nat /\ y = l + (y - l)
          BY <1>1, <5>1
        <5>. QED
          BY <5>2
      <4>2. z \in k + 1..Len(s) /\ z \in 1..Len(s)
        BY <1>1, <2>3, <3>3, <3>5, <4>1
      <4>. QED
        BY <1>1, <2>5, <4>1, <4>2
    <3>7. a >= 1 /\ a < b /\ b <= Len(w)
      BY <1>1, <2>3, <3>3, <3>5
    <3>8. w[a] = "[" /\ w[a + 1] = "c" /\ w[b] = "["
      BY <3>4, <3>5
    <3>11. NestsAt(w, a, b)
      BY <3>5, <3>6, <3>7, <3>8 DEF NestsAt
    <3>. QED
      BY <3>11 DEF Clean
  <2>10. p < l + k /\ k <= Len(s)
    BY <1>1, <1>2, <1>3, <2>3, <2>9
  <2>11. k \in 1..Len(s) + 1 /\ \A x \in Opens(s) : k <= x
    BY <1>2, <2>2
  <2>. QED
    BY <2>10, <2>11, BeforeTag
<1>5. CASE Opens(s) = {}
  <2>1. k = 1 /\ Len(r) = Len(s)
    BY <1>1, <1>2, <1>5 DEF CutsAt
  <2>2. PICK x \in Nat : p = l + x
    <3>1. p - l \in Nat /\ p = l + (p - l)
      BY <1>1, <1>3
    <3>. QED
      BY <3>1
  <2>3. x \in 1..m - 1 /\ x \in 1..Len(s) /\ x \in 1..Len(r)
    BY <1>1, <1>2, <2>1, <2>2
  <2>4. s[x] = "["
    BY <1>1, <1>3, <2>2, <2>3
  <2>5. CASE x < Len(s)
    <3>1. x \in 1..Len(s) - 1 /\ x + 1 \in 1..Len(s) /\ p + 1 = l + (x + 1)
      BY <1>1, <2>2, <2>3, <2>5
    <3>2. s[x + 1] = "c"
      BY <1>1, <1>3, <3>1
    <3>3. x \in Opens(s)
      BY <1>1, <2>4, <3>1, <3>2, PlacesIn
    <3>. QED
      BY <1>5, <3>3
  <2>6. CASE ~(x < Len(s))
    <3>1. x = Len(r) /\ Len(r) >= 1 /\ 1 + x - 1 = x
      BY <1>1, <2>1, <2>3, <2>6
    <3>2. r[Len(r)] = "["
      BY <1>2, <2>1, <2>3, <2>4, <3>1
    <3>3. Len(r) \in Held(r)
      BY <1>2, <3>1, <3>2, HeldIs
    <3>4. m \in Held(r)
      BY <1>2, <3>3
    <3>5. m \in 1..Len(r)
      BY <1>2, <3>4, HeldIs
    <3>. QED
      BY <1>2, <2>3, <3>1, <3>5
  <2>. QED
    BY <2>5, <2>6
<1>. QED
  BY <1>4, <1>5

\* A part of a text without a tag has no tag.
LEMMA NoTagIn ==
  ASSUME NEW s, NEW d, NEW t, Lies(s, d, t), ~HasTag(s)
  PROVE  ~HasTag(t)
<1>. SUFFICES ASSUME HasTag(t) PROVE FALSE
  OBVIOUS
<1>1. /\ s \in Seq(Signs) /\ t \in Seq(Signs) /\ d \in Nat /\ Len(s) \in Nat /\ Len(t) \in Nat
      /\ d + Len(t) <= Len(s) /\ \A x \in 1..Len(t) : s[d + x] = t[x]
  BY DEF Lies
<1>2. Opens(s) \in SUBSET Nat /\ Opens(t) \in SUBSET Nat
  BY <1>1, PlacesIn
<1>3. PICK i : i \in Opens(t) /\ i = First(Opens(t))
  BY <1>2, FirstIs DEF HasTag
<1>4. PICK j : j \in Closes(t) /\ j > i
  BY <1>3 DEF HasTag
<1>5. i \in 1..Len(t) - 1 /\ t[i] = "[" /\ t[i + 1] = "c" /\ j \in 1..Len(t) /\ t[j] = "]"
  BY <1>1, <1>3, <1>4, PlacesIn
<1>6. PICK a \in Nat, b \in Nat : a = d + i /\ b = d + j
  <2>1. d + i \in Nat /\ d + j \in Nat
    BY <1>1, <1>5
  <2>. QED
    BY <2>1
<1>7. a \in 1..Len(s) - 1 /\ b \in 1..Len(s) /\ b > a /\ i \in 1..Len(t) /\ i + 1 \in 1..Len(t) /\ a + 1 = d + (i + 1)
  BY <1>1, <1>4, <1>5, <1>6
<1>8. s[a] = "[" /\ s[a + 1] = "c" /\ s[b] = "]"
  BY <1>1, <1>5, <1>6, <1>7
<1>9. a \in Opens(s) /\ b \in Closes(s)
  BY <1>1, <1>7, <1>8, PlacesIn
<1>10. First(Opens(s)) \in Nat /\ First(Opens(s)) <= a
  BY <1>2, <1>9, FirstIs
<1>11. b > First(Opens(s))
  BY <1>7, <1>10
<1>. QED
  BY <1>9, <1>11 DEF HasTag

\* A citation in the last part of a text is a tag of that part.
LEMMA CiteTag ==
  ASSUME NEW w, NEW l, NEW s, Lies(w, l, s), Len(w) = l + Len(s), NEW p, NEW q, CiteIn(w, p, q), p > l
  PROVE  HasTag(s)
<1>1. /\ s \in Seq(Signs) /\ l \in Nat /\ Len(s) \in Nat
      /\ \A x \in 1..Len(s) : w[l + x] = s[x]
  BY DEF Lies
<1>2. /\ p \in Nat /\ q \in Nat /\ q >= p + 3 /\ q <= l + Len(s)
      /\ w[p] = "[" /\ w[p + 1] = "c" /\ w[q] = "]"
  BY DEF CiteIn
<1>3. PICK x \in Nat, y \in Nat : p = l + x /\ q = l + y
  <2>1. p - l \in Nat /\ q - l \in Nat /\ p = l + (p - l) /\ q = l + (q - l)
    BY <1>1, <1>2
  <2>. QED
    BY <2>1
<1>4. x \in 1..Len(s) - 1 /\ y \in 1..Len(s) /\ y > x /\ x \in 1..Len(s) /\ x + 1 \in 1..Len(s) /\ p + 1 = l + (x + 1)
  BY <1>1, <1>2, <1>3
<1>5. s[x] = "[" /\ s[x + 1] = "c" /\ s[y] = "]"
  BY <1>1, <1>2, <1>3, <1>4
<1>6. x \in Opens(s) /\ y \in Closes(s)
  BY <1>1, <1>4, <1>5, PlacesIn
<1>7. Opens(s) \in SUBSET Nat
  BY <1>1, PlacesIn
<1>8. First(Opens(s)) \in Nat /\ First(Opens(s)) <= x
  BY <1>6, <1>7, FirstIs
<1>9. y > First(Opens(s))
  BY <1>4, <1>8
<1>. QED
  BY <1>6, <1>9 DEF HasTag

\* What is left at the end holds no tag, and so no citation.
LEMMA FlushCites ==
  ASSUME NEW ev \in Seq(Items), NEW w, NEW s, Lies(w, ShownLen(ev), s), Len(w) = ShownLen(ev) + Len(s),
         ~HasTag(s), Cited(ev, w), NEW g, IsConcat(g, ev, Text(s))
  PROVE  Cited(g, w)
<1>1. Text(s) \in Seq(Items)
  BY TextIs DEF Lies
<1>2. \A p, q : ~(CiteIn(w, p, q) /\ p > ShownLen(ev))
  BY CiteTag
<1>. QED
  BY <1>1, <1>2, NoneMissed

\* Nor does what HoldBack lets go.
LEMMA HoldCites ==
  ASSUME NEW ev \in Seq(Items), NEW w, NEW s, Lies(w, ShownLen(ev), s), Clean(w), Cited(ev, w),
         NEW k, NEW r, NEW m, CutsAt(s, k, r, m),
         NEW ev2, Grown(ev, Text(Upto(s, k - 1)), Text(Upto(r, m - 1)), ev2)
  PROVE  Cited(ev2, w)
<1>1. PICK l : l = ShownLen(ev)
  OBVIOUS
<1>2. s \in Seq(Signs) /\ l \in Nat /\ Len(s) \in Nat /\ Lies(w, l, s)
  BY <1>1 DEF Lies
<1>3. k \in 1..Len(s) + 1 /\ r \in Seq(Signs) /\ Len(r) \in Nat /\ m \in 1..Len(r) + 1
  BY CutsAtIs
<1>4. PICK a, c, A, B, g : a = Upto(s, k - 1) /\ c = Upto(r, m - 1) /\ A = Text(a) /\ B = Text(c) /\ g = ev \o A
  OBVIOUS
<1>5. a \in Seq(Signs) /\ Len(a) = k - 1
  BY <1>2, <1>3, <1>4 DEF Upto
<1>6. c \in Seq(Signs) /\ Len(c) = m - 1
  BY <1>3, <1>4 DEF Upto
<1>7. A \in Seq(Items) /\ Shows(A, a)
  <2>1. Text(a) \in Seq(Items) /\ Spread(ShowOp, Text(a)) = a
    BY <1>5, TextIs
  <2>. QED
    BY <1>4, <1>5, <2>1, Zenon DEF Shows
<1>8. B \in Seq(Items) /\ Shows(B, c)
  <2>1. Text(c) \in Seq(Items) /\ Spread(ShowOp, Text(c)) = c
    BY <1>6, TextIs
  <2>. QED
    BY <1>4, <1>6, <2>1, Zenon DEF Shows
<1>9. IsConcat(g, ev, A) /\ IsConcat(ev2, g, B)
  BY <1>4, Zenon DEF IsConcat, Grown
<1>10. g \in Seq(Items) /\ ShownLen(g) = l + (k - 1)
  BY <1>1, <1>5, <1>7, <1>9, ShownAdds
<1>11. ShownLen(ev2) = ShownLen(g) + Len(c)
  BY <1>8, <1>9, <1>10, ShownAdds
<1>12. ASSUME NEW p, NEW q, CiteIn(w, p, q), p > l PROVE p > l + ((k - 1) + (m - 1))
  <2>1. p \in Nat
    BY <1>12 DEF CiteIn
  <2>2. ~(p <= l + ((k - 1) + (m - 1)))
    BY <1>2, <1>12, HeldTags
  <2>. QED
    BY <1>2, <1>3, <2>1, <2>2
<1>13. \A p, q : CiteIn(w, p, q) /\ p > ShownLen(ev) => p > ShownLen(g)
  <2>. SUFFICES ASSUME NEW p, NEW q, CiteIn(w, p, q), p > l PROVE p > l + (k - 1)
    BY <1>1, <1>10
  <2>1. p > l + ((k - 1) + (m - 1)) /\ p \in Nat
    BY <1>12 DEF CiteIn
  <2>. QED
    BY <1>2, <1>3, <2>1
<1>14. Cited(g, w)
  BY <1>7, <1>9, <1>13, NoneMissed
<1>15. \A p, q : CiteIn(w, p, q) /\ p > ShownLen(g) => p > ShownLen(ev2)
  <2>. SUFFICES ASSUME NEW p, NEW q, CiteIn(w, p, q), p > l + (k - 1) PROVE p > (l + (k - 1)) + (m - 1)
    BY <1>6, <1>10, <1>11
  <2>0. p \in Nat
    BY DEF CiteIn
  <2>1. p > l
    BY <1>2, <1>3, <2>0
  <2>2. p > l + ((k - 1) + (m - 1))
    BY <1>12, <2>1
  <2>. QED
    BY <1>2, <1>3, <2>0, <2>2
<1>. QED
  BY <1>8, <1>9, <1>10, <1>14, <1>15, NoneMissed

\* What HoldBack keeps has no tag.
LEMMA HoldNoTag ==
  ASSUME NEW s, NEW k, NEW r, NEW m, CutsAt(s, k, r, m)
  PROVE  ~HasTag(From(r, m))
<1>1. /\ s \in Seq(Signs) /\ Len(s) \in Nat /\ k \in 1..Len(s) + 1
      /\ r \in Seq(Signs) /\ Len(r) \in Nat /\ Len(r) = Len(s) - k + 1
      /\ \A x \in 1..Len(r) : r[x] = s[k + x - 1]
      /\ m \in 1..Len(r) + 1
  BY CutsAtIs
<1>2. ~HasTag(s)
  BY DEF CutsAt
<1>3. Lies(s, k - 1, r)
  <2>1. PICK d \in Nat : d = k - 1
    BY <1>1
  <2>2. \A x \in 1..Len(r) : s[d + x] = r[x]
    <3>1. \A x \in 1..Len(r) : k + x - 1 = d + x
      BY <1>1, <2>1
    <3>. QED
      BY <1>1, <3>1
  <2>3. d + Len(r) <= Len(s)
    BY <1>1, <2>1
  <2>. QED
    BY <1>1, <2>1, <2>2, <2>3 DEF Lies
<1>4. ~HasTag(r)
  BY <1>2, <1>3, NoTagIn
<1>5. PICK n \in Nat, d \in Nat : n = Len(r) /\ d + 1 = m
  <2>1. Len(r) \in Nat /\ m - 1 \in Nat /\ (m - 1) + 1 = m
    BY <1>1
  <2>. QED
    BY <2>1
<1>6. PICK t : t = From(r, m)
  OBVIOUS
<1>7. t \in Seq(Signs) /\ Len(t) = n - d /\ \A x \in 1..n - d : t[x] = r[d + x]
  <2>1. m \in Int /\ n \in Int /\ \A x \in m..n : r[x] \in Signs
    BY <1>1, <1>5
  <2>2. /\ SubSeq(r, m, n) \in Seq(Signs)
        /\ Len(SubSeq(r, m, n)) = IF m <= n THEN n - m + 1 ELSE 0
        /\ \A x \in 1..n - m + 1 : SubSeq(r, m, n)[x] = r[m + x - 1]
    BY <2>1, SubSeqProperties
  <2>3. t = SubSeq(r, m, n)
    BY <1>5, <1>6 DEF From
  <2>4. Len(t) = n - d
    <3>1. d <= n
      BY <1>1, <1>5
    <3>2. (IF m <= n THEN n - m + 1 ELSE 0) = n - d
      BY <1>5, <3>1
    <3>. QED
      BY <2>2, <2>3, <3>2
  <2>5. n - m + 1 = n - d /\ \A x \in 1..n - d : m + x - 1 = d + x
    BY <1>5
  <2>. QED
    BY <2>2, <2>3, <2>4, <2>5
<1>8. Lies(r, d, t)
  <2>1. Len(t) \in Nat /\ d + Len(t) <= Len(r)
    BY <1>1, <1>5, <1>7
  <2>. QED
    BY <1>1, <1>7, <2>1 DEF Lies
<1>. QED
  BY <1>4, <1>6, <1>8, NoTagIn

\* A citation event has a number.
Digits(ev) == \A n \in 1..Len(ev) : ev[n] \in Cites => Len(ev[n].cite) >= 1

\* Digits holds of two sequences of events joined, of texts and of tags.
LEMMA DigitsJoin ==
  ASSUME NEW ev \in Seq(Items), NEW A \in Seq(Items), NEW g, IsConcat(g, ev, A), Digits(ev), Digits(A)
  PROVE  Digits(g)
<1>. SUFFICES ASSUME NEW n \in 1..Len(g), g[n] \in Cites PROVE Len(g[n].cite) >= 1
  BY DEF Digits
<1>1. /\ g \in Seq(Items) /\ Len(g) = Len(ev) + Len(A)
      /\ \A i \in 1..Len(ev) : g[i] = ev[i]
      /\ \A i \in 1..Len(A) : g[Len(ev) + i] = A[i]
  BY ConcatAt
<1>2. PICK l \in Nat, m \in Nat : l = Len(ev) /\ m = Len(A)
  OBVIOUS
<1>3. CASE n <= l
  <2>1. n \in 1..Len(ev) /\ g[n] = ev[n]
    BY <1>1, <1>2, <1>3
  <2>. QED
    BY <2>1 DEF Digits
<1>4. CASE ~(n <= l)
  <2>1. PICK i \in Nat : n = l + i
    <3>1. n - l \in Nat /\ n = l + (n - l)
      BY <1>2, <1>4
    <3>. QED
      BY <3>1
  <2>2. i \in 1..Len(A)
    BY <1>1, <1>2, <1>4, <2>1
  <2>3. g[n] = A[i]
    BY <1>1, <1>2, <2>1, <2>2
  <2>. QED
    BY <2>2, <2>3 DEF Digits
<1>. QED
  BY <1>3, <1>4

LEMMA DigitsText ==
  ASSUME NEW s \in Seq(Signs)
  PROVE  Digits(Text(s))
<1>1. PICK e : e = [text |-> s]
  OBVIOUS
<1>2. e \notin Cites
  BY <1>1 DEF Cites
<1>3. \A n \in 1..Len(<<e>>) : <<e>>[n] = e
  OBVIOUS
<1>4. \A n \in 1..Len(<<>>) : FALSE
  OBVIOUS
<1>5. Text(s) = <<>> \/ Text(s) = <<e>>
  BY <1>1 DEF Text
<1>. QED
  BY <1>2, <1>3, <1>4, <1>5 DEF Digits

LEMMA DigitsTag ==
  ASSUME NEW tag \in Seq(Signs), Len(tag) >= 1
  PROVE  Digits(Tag(tag))
<1>1. CASE ~IsCitation(tag)
  <2>1. Tag(tag) = Text(tag)
    BY <1>1 DEF Tag
  <2>. QED
    BY <2>1, DigitsText
<1>2. CASE IsCitation(tag)
  <2>1. PICK n \in Nat : n = Len(tag)
    OBVIOUS
  <2>2. n >= 4
    BY <1>2, <2>1, CitationIs
  <2>3. PICK c : c = SubSeq(tag, 3, n - 1)
    OBVIOUS
  <2>4. Len(c) >= 1
    BY <2>1, <2>2, <2>3
  <2>5. PICK e : e = [cite |-> c]
    OBVIOUS
  <2>6. Tag(tag) = <<e>> /\ e.cite = c
    BY <1>2, <2>1, <2>3, <2>5 DEF Tag
  <2>7. \A k \in 1..Len(<<e>>) : <<e>>[k] = e
    OBVIOUS
  <2>. QED
    BY <2>4, <2>6, <2>7 DEF Digits
<1>. QED
  BY <1>1, <1>2

LEMMA DigitsGrow ==
  ASSUME NEW ev \in Seq(Items), NEW A \in Seq(Items), NEW B \in Seq(Items), NEW ev2, Grown(ev, A, B, ev2),
         Digits(ev), Digits(A), Digits(B)
  PROVE  Digits(ev2)
<1>1. PICK g : g = ev \o A
  OBVIOUS
<1>2. IsConcat(g, ev, A) /\ IsConcat(ev2, g, B)
  BY <1>1, Zenon DEF IsConcat, Grown
<1>3. g \in Seq(Items)
  BY <1>2, ConcatAt
<1>4. Digits(g)
  BY <1>2, DigitsJoin
<1>. QED
  BY <1>2, <1>3, <1>4, DigitsJoin

\* However the answer goes on, every citation of it that is shown is an event; between
\* two reads no whole tag is held.
CiteInv ==
  \A X \in Seq(Signs) : ((at = "done" => X = <<>>) /\ Clean(Seen \o X)) => Cited(events, Seen \o X)
HeldInv ==
  /\ at \in {"read", "flush"} => ~HasTag(tagBuffer)
  /\ at = "done" => tagBuffer = <<>>
CutInv == CiteInv /\ HeldInv /\ Digits(events)

\* What is shown and held stays,
LEMMA CiteSame ==
  ASSUME CiteInv, events' = events, Seen' = Seen, at = "done" => at' = "done"
  PROVE  CiteInv'
<1>. SUFFICES ASSUME NEW X \in Seq(Signs), at' = "done" => X = <<>>, Clean(Seen' \o X)
              PROVE  Cited(events', Seen' \o X)
  BY DEF CiteInv
<1>1. Seen' \o X = Seen \o X
  BY Zenon
<1>2. Clean(Seen \o X) /\ (at = "done" => X = <<>>)
  BY <1>1, Zenon
<1>3. Cited(events, Seen \o X)
  BY <1>2 DEF CiteInv
<1>. QED
  BY <1>1, <1>3, Zenon

\* or text is added to what is held: the answer goes on with less.
LEMMA CiteMore ==
  ASSUME Typed, CiteInv, events' = events, at # "done", NEW c \in Seq(Signs), tagBuffer' = tagBuffer \o c
  PROVE  CiteInv'
<1>. SUFFICES ASSUME NEW X \in Seq(Signs), Clean(Seen' \o X) PROVE Cited(events', Seen' \o X)
  BY DEF CiteInv
<1>1. Seen' = Seen \o c /\ Seen \in Seq(Signs)
  BY SeenGrows, SeenIs
<1>2. PICK Y \in Seq(Signs) : Y = c \o X
  <2>1. c \o X \in Seq(Signs)
    BY JoinTyped
  <2>. QED
    BY <2>1
<1>3. (Seen \o c) \o X = Seen \o (c \o X)
  <2>1. Seen \in Seq(Signs)
    BY SeenIs
  <2>. QED
    BY <2>1, Joins
<1>4. Seen' \o X = Seen \o Y
  BY <1>1, <1>2, <1>3, Zenon
<1>5. Clean(Seen \o Y)
  BY <1>4, Zenon
<1>6. Cited(events, Seen \o Y)
  BY <1>5 DEF CiteInv
<1>. QED
  BY <1>4, <1>6, Zenon

\* Where the held text lies in an answer that goes on with X.
LEMMA SeenLies ==
  ASSUME Typed, NEW X \in Seq(Signs), NEW W, W = Seen \o X
  PROVE  Lies(W, ShownLen(events), tagBuffer) /\ Len(W) = (ShownLen(events) + Len(tagBuffer)) + Len(X)
<1>1. Shown \in Seq(Signs) /\ tagBuffer \in Seq(Signs) /\ Seen \in Seq(Signs)
  BY SeenIs
<1>2. IsConcat(Seen, Shown, tagBuffer) /\ IsConcat(W, Seen, X)
  BY Zenon DEF IsConcat, Seen
<1>3. Lies(W, Len(Shown), tagBuffer)
  BY <1>1, <1>2, LiesIn
<1>4. Len(Shown) = ShownLen(events)
  BY ShownIs, Zenon DEF ShownLen
<1>5. Len(Seen) = Len(Shown) + Len(tagBuffer)
  BY <1>1, <1>2, ConcatAt
<1>6. Len(W) = Len(Seen) + Len(X)
  BY <1>1, <1>2, ConcatAt
<1>. QED
  BY <1>3, <1>4, <1>5, <1>6

\* The parser's steps leave what is seen, and so the answers it goes on to.
LEMMA ParserCites ==
  ASSUME Typed, CiteInv, Seen' = Seen, at # "done",
         NEW ev2, events' = ev2,
         \A W : (\E X \in Seq(Signs) : (at' = "done" => X = <<>>) /\ W = Seen \o X) /\ Clean(W) /\ Cited(events, W) =>
                  Cited(ev2, W)
  PROVE  CiteInv'
<1>. SUFFICES ASSUME NEW X \in Seq(Signs), at' = "done" => X = <<>>, Clean(Seen' \o X)
              PROVE  Cited(events', Seen' \o X)
  BY DEF CiteInv
<1>1. PICK W : W = Seen \o X
  OBVIOUS
<1>2. Seen' \o X = W
  BY <1>1, Zenon
<1>3. Clean(W)
  BY <1>2, Zenon
<1>4. Cited(events, W)
  <2>1. Clean(Seen \o X)
    BY <1>1, <1>3, Zenon
  <2>2. Cited(events, Seen \o X)
    BY <2>1 DEF CiteInv
  <2>. QED
    BY <1>1, <2>2, Zenon
<1>5. \E Y \in Seq(Signs) : (at' = "done" => Y = <<>>) /\ W = Seen \o Y
  BY <1>1, Zenon
<1>6. Cited(ev2, W)
  BY <1>3, <1>4, <1>5
<1>. QED
  BY <1>2, <1>6, Zenon

\* CutInv is inductive, with Typed; first the actions of the parser.
LEMMA TakeTagCuts ==
  ASSUME Typed, CutInv, TakeTag
  PROVE  CutInv'
<1>1. PICK i, j, s, s2, ev, ev2, A, B :
        /\ s = tagBuffer /\ ev = events /\ s2 = tagBuffer' /\ ev2 = events'
        /\ i = First(Opens(s)) /\ j = First({k \in Closes(s) : k > i})
        /\ A = Text(Upto(s, i - 1)) /\ B = Tag(SubSeq(s, i, j))
  OBVIOUS
<1>2. s \in Seq(Signs) /\ ev \in Seq(Items)
  BY <1>1 DEF Typed
<1>3. TagAt(s, i, j)
  BY <1>1 DEF TakeTag, TagAt
<1>4. Grown(ev, A, B, ev2)
  BY <1>1 DEF TakeTag, Grown
<1>5. ParserMoves
  BY TakeTagMoves
<1>6. Seen' = Seen
  BY <1>5, SeenCut DEF ParserMoves
<1>7. at' = at /\ at \in {"drain", "finish"}
  BY DEF TakeTag
<1>8. CiteInv'
  <2>1. ASSUME NEW W, NEW X \in Seq(Signs), W = Seen \o X, Clean(W), Cited(ev, W) PROVE Cited(ev2, W)
    <3>1. Lies(W, ShownLen(ev), s)
      BY <1>1, <2>1, SeenLies
    <3>2. Grown(ev, Text(Upto(s, i - 1)), Tag(SubSeq(s, i, j)), ev2)
      BY <1>1, <1>4, Zenon
    <3>. QED
      BY <1>2, <1>3, <2>1, <3>1, <3>2, TagCites
  <2>2. CiteInv
    BY DEF CutInv
  <2>. QED
    BY <1>1, <1>6, <1>7, <2>1, <2>2, ParserCites
<1>9. Digits(ev2)
  <2>1. i \in 1..Len(s) /\ j \in 1..Len(s) /\ i < j /\ Len(s) \in Nat
    BY <1>2, <1>3, TagAtIs
  <2>2. PICK a, t : a = Upto(s, i - 1) /\ t = SubSeq(s, i, j)
    OBVIOUS
  <2>3. a \in Seq(Signs) /\ t \in Seq(Signs) /\ Len(t) >= 1
    BY <1>2, <2>1, <2>2 DEF Upto
  <2>4. A \in Seq(Items) /\ B \in Seq(Items)
    BY <1>1, <2>2, <2>3, TextIs, TagIs
  <2>5. Digits(A) /\ Digits(B)
    BY <1>1, <2>2, <2>3, DigitsText, DigitsTag
  <2>6. Digits(ev)
    BY <1>1 DEF CutInv
  <2>. QED
    BY <1>2, <1>4, <2>4, <2>5, <2>6, DigitsGrow
<1>10. HeldInv'
  BY <1>7 DEF HeldInv
<1>. QED
  BY <1>1, <1>8, <1>9, <1>10 DEF CutInv

LEMMA HoldBackCuts ==
  ASSUME Typed, CutInv, HoldBack
  PROVE  CutInv'
<1>1. PICK s, s2, ev, ev2 : s = tagBuffer /\ ev = events /\ s2 = tagBuffer' /\ ev2 = events'
  OBVIOUS
<1>2. s \in Seq(Signs) /\ ev \in Seq(Items)
  BY <1>1 DEF Typed
<1>3. PICK k : k = IF Opens(s) = {} THEN 1 ELSE First(Opens(s))
  OBVIOUS
<1>4. PICK r : r = From(s, k)
  OBVIOUS
<1>5. PICK m : m = IF Held(r) = {} THEN Len(r) + 1 ELSE Longest(Held(r))
  OBVIOUS
<1>6. CutsAt(s, k, r, m)
  <2>1. ~HasTag(s)
    BY <1>1 DEF HoldBack
  <2>. QED
    BY <1>2, <1>3, <1>4, <1>5, <2>1 DEF CutsAt
<1>7. ParserMoves
  BY HoldBackMoves
<1>8. Seen' = Seen
  BY <1>7, SeenCut DEF ParserMoves
<1>9. at # "done" /\ at \in {"drain", "finish"}
  BY DEF HoldBack
<1>10. CASE Panics(r)
  <2>1. at' = "panicked" /\ events' = events /\ tagBuffer' = tagBuffer
    BY <1>1, <1>3, <1>4, <1>10 DEF HoldBack
  <2>2. CiteInv'
    BY <1>8, <1>9, <2>1, CiteSame DEF CutInv
  <2>. QED
    BY <2>1, <2>2 DEF CutInv, HeldInv
<1>11. CASE ~Panics(r)
  <2>1. Grown(ev, Text(Upto(s, k - 1)), Text(Upto(r, m - 1)), ev2) /\ s2 = From(r, m)
    BY <1>1, <1>3, <1>4, <1>5, <1>11 DEF HoldBack, Grown
  <2>2. at' = IF at = "drain" THEN "read" ELSE "flush"
    BY <1>1, <1>3, <1>4, <1>11 DEF HoldBack
  <2>3. HeldInv'
    <3>1. ~HasTag(s2)
      BY <1>6, <2>1, HoldNoTag
    <3>. QED
      BY <1>1, <2>2, <3>1 DEF HeldInv
  <2>4. CiteInv'
    <3>1. ASSUME NEW W, NEW X \in Seq(Signs), W = Seen \o X, Clean(W), Cited(ev, W) PROVE Cited(ev2, W)
      <4>1. Lies(W, ShownLen(ev), s)
        BY <1>1, <3>1, SeenLies
      <4>. QED
        BY <1>2, <1>6, <2>1, <3>1, <4>1, HoldCites
    <3>2. CiteInv
      BY DEF CutInv
    <3>. QED
      BY <1>1, <1>8, <1>9, <3>1, <3>2, ParserCites
  <2>5. Digits(ev2)
    <3>1. PICK a, c, A, B : a = Upto(s, k - 1) /\ c = Upto(r, m - 1) /\ A = Text(a) /\ B = Text(c)
      OBVIOUS
    <3>2. Len(s) \in Nat /\ k \in 1..Len(s) + 1 /\ r \in Seq(Signs) /\ Len(r) \in Nat /\ m \in 1..Len(r) + 1
      BY <1>6, CutsAtIs
    <3>3. a \in Seq(Signs)
      BY <1>2, <3>1, <3>2 DEF Upto
    <3>4. c \in Seq(Signs)
      BY <3>1, <3>2 DEF Upto
    <3>5. A \in Seq(Items) /\ B \in Seq(Items) /\ Digits(A) /\ Digits(B)
      BY <3>1, <3>3, <3>4, TextIs, DigitsText
    <3>6. Grown(ev, A, B, ev2)
      BY <2>1, <3>1, Zenon
    <3>7. Digits(ev)
      BY <1>1 DEF CutInv
    <3>. QED
      BY <1>2, <3>5, <3>6, <3>7, DigitsGrow
  <2>. QED
    BY <1>1, <2>3, <2>4, <2>5 DEF CutInv
<1>. QED
  BY <1>10, <1>11

LEMMA FlushCuts ==
  ASSUME Typed, CutInv, Flush
  PROVE  CutInv'
<1>1. PICK s, ev, ev2 : s = tagBuffer /\ ev = events /\ ev2 = events'
  OBVIOUS
<1>2. s \in Seq(Signs) /\ ev \in Seq(Items)
  BY <1>1 DEF Typed
<1>3. PICK A : A = Text(s)
  OBVIOUS
<1>4. A \in Seq(Items)
  BY <1>2, <1>3, TextIs
<1>5. IsConcat(ev2, ev, A)
  BY <1>1, <1>3 DEF Flush, IsConcat
<1>6. ParserMoves
  BY FlushMoves
<1>7. Seen' = Seen
  BY <1>6, SeenCut DEF ParserMoves
<1>8. at = "flush" /\ at' = "done" /\ tagBuffer' = <<>>
  BY DEF Flush
<1>9. ~HasTag(s)
  BY <1>1, <1>8 DEF CutInv, HeldInv
<1>10. CiteInv'
  <2>1. ASSUME NEW W, NEW X \in Seq(Signs), X = <<>>, W = Seen \o X, Cited(ev, W) PROVE Cited(ev2, W)
    <3>1. Lies(W, ShownLen(ev), s) /\ Len(W) = (ShownLen(ev) + Len(s)) + Len(X)
      BY <1>1, <2>1, SeenLies
    <3>2. Len(X) = 0 /\ ShownLen(ev) \in Nat /\ Len(s) \in Nat
      BY <2>1, <3>1 DEF Lies
    <3>3. Len(W) = ShownLen(ev) + Len(s)
      BY <3>1, <3>2
    <3>4. IsConcat(ev2, ev, Text(s))
      BY <1>3, <1>5, Zenon
    <3>. QED
      BY <1>2, <1>9, <2>1, <3>1, <3>3, <3>4, FlushCites
  <2>2. CiteInv /\ at # "done"
    BY <1>8 DEF CutInv
  <2>. QED
    BY <1>1, <1>7, <1>8, <2>1, <2>2, ParserCites
<1>11. Digits(ev2)
  <2>1. Digits(A) /\ Digits(ev)
    BY <1>1, <1>2, <1>3, DigitsText DEF CutInv
  <2>. QED
    BY <1>2, <1>4, <1>5, <2>1, DigitsJoin
<1>12. HeldInv'
  BY <1>8 DEF HeldInv
<1>. QED
  BY <1>1, <1>10, <1>11, <1>12 DEF CutInv

\* A delta is put behind what is held; without text, nothing is.
LEMMA PushCuts ==
  ASSUME Typed, CutInv, at = "read", events' = events, NEW e \in Seq(Letters \cup {Lost}),
         NEW last \in BOOLEAN, Push(e, last)
  PROVE  CutInv'
<1>1. PICK c : c = Content(e)
  OBVIOUS
<1>2. c \in Seq(Signs)
  BY <1>1, ContentTyped
<1>3. tagBuffer' = tagBuffer \o c
  BY <1>1 DEF Push
<1>4. CiteInv'
  BY <1>2, <1>3, CiteMore DEF CutInv
<1>5. at' # "done" /\ (at' \in {"read", "flush"} => c = <<>>)
  BY <1>1 DEF Push
<1>6. at' \in {"read", "flush"} => ~HasTag(tagBuffer')
  <2>. SUFFICES ASSUME c = <<>> PROVE ~HasTag(tagBuffer')
    BY <1>5
  <2>1. tagBuffer \in Seq(Signs)
    BY DEF Typed
  <2>2. tagBuffer \o <<>> = tagBuffer
    BY <2>1, ConcatEmptySeq
  <2>3. tagBuffer' = tagBuffer
    BY <1>3, <2>2, Zenon
  <2>4. ~HasTag(tagBuffer)
    BY DEF CutInv, HeldInv
  <2>. QED
    BY <2>3, <2>4, Zenon
<1>7. Digits(events')
  BY DEF CutInv
<1>. QED
  BY <1>4, <1>5, <1>6, <1>7 DEF CutInv, HeldInv

\* A push, or none, by PopEvent and EndResponse; the rest leaves what is shown and held.
LEMMA PopCuts ==
  ASSUME Typed, CutInv, PopEvent
  PROVE  CutInv'
<1>1. buffer \in Seq(Letters \cup {Lost}) /\ EventEnds(buffer) # {}
  BY DEF Typed, PopEvent
<1>2. Popped(buffer) \in Seq(Letters \cup {Lost})
  BY <1>1, EventAt
<1>3. Push(Popped(buffer), Stops(Popped(buffer))) /\ at = "read" /\ events' = events
  BY DEF PopEvent, Left, Popped, Cut
<1>4. Stops(Popped(buffer)) \in BOOLEAN
  BY DEF Stops
<1>. QED
  BY <1>2, <1>3, <1>4, PushCuts

LEMMA SameCuts ==
  ASSUME CutInv, UNCHANGED <<events, tagBuffer>>, at' = at \/ (at = "read" /\ at' \in {"flush", "failed"})
  PROVE  CutInv'
<1>1. events' = events /\ tagBuffer' = tagBuffer /\ Seen' = Seen
  BY SeenSame
<1>2. at = "done" => at' = "done"
  OBVIOUS
<1>3. CiteInv'
  BY <1>1, <1>2, CiteSame DEF CutInv
<1>4. HeldInv'
  BY <1>1 DEF CutInv, HeldInv
<1>5. Digits(events')
  BY <1>1 DEF CutInv
<1>. QED
  BY <1>3, <1>4, <1>5 DEF CutInv

LEMMA EndCuts ==
  ASSUME Typed, CutInv, EndResponse
  PROVE  CutInv'
<1>1. PICK v : v = Without(buffer, {"n", "r"})
  OBVIOUS
<1>2. at = "read" /\ events' = events
  BY DEF EndResponse
<1>3. CASE at' \in {"flush", "failed"} /\ UNCHANGED <<tagBuffer, reason>>
  BY <1>2, <1>3, SameCuts
<1>4. CASE Push(v, TRUE)
  <2>1. v \in Seq(Letters \cup {Lost})
    BY <1>1, WithoutIs DEF Typed
  <2>. QED
    BY <1>2, <1>4, <2>1, PushCuts
<1>5. (at' \in {"flush", "failed"} /\ UNCHANGED <<tagBuffer, reason>>) \/ Push(v, TRUE)
  BY <1>1 DEF EndResponse
<1>. QED
  BY <1>3, <1>4, <1>5

\* The initial states, and all steps.
LEMMA CutInit == StreamInit => CutInv
<1>. SUFFICES ASSUME StreamInit PROVE CutInv
  OBVIOUS
<1>1. events = <<>> /\ tagBuffer = <<>> /\ at = "read"
  BY DEF StreamInit
<1>2. <<>> \in Seq(Items) /\ <<>> \in Seq(Signs) /\ Len(<<>>) = 0 /\ \A n \in 1..Len(<<>>) : FALSE
  OBVIOUS
<1>3. ShownLen(events) = 0
  <2>1. Spread(ShowOp, <<>>) = <<>>
    BY ShowOpIs, SpreadEmpty
  <2>2. ShownOf(<<>>) = Spread(ShowOp, <<>>)
    BY <1>2, ShownOfIs
  <2>3. Len(ShownOf(<<>>)) = 0
    BY <1>2, <2>1, <2>2, Zenon
  <2>. QED
    BY <1>1, <2>3, Zenon DEF ShownLen
<1>4. \A w : Cited(events, w)
  <2>. SUFFICES ASSUME NEW w, NEW p, NEW q, CiteIn(w, p, q), p <= 0 PROVE FALSE
    BY <1>3 DEF Cited
  <2>. QED
    BY DEF CiteIn
<1>5. CiteInv
  BY <1>4 DEF CiteInv
<1>6. ~HasTag(<<>>)
  <2>1. \A i : i \in Opens(<<>>) => i \in 1..Len(<<>>) - 1
    BY <1>2, PlacesIn
  <2>. QED
    BY <1>2, <2>1 DEF HasTag
<1>7. Digits(events)
  BY <1>1, <1>2 DEF Digits
<1>. QED
  BY <1>1, <1>5, <1>6, <1>7 DEF CutInv, HeldInv

LEMMA CutStep == Typed /\ CutInv /\ [StreamNext]_streamVars => CutInv'
<1>. SUFFICES ASSUME Typed, CutInv, [StreamNext]_streamVars PROVE CutInv'
  OBVIOUS
<1>1. ASSUME NEW k \in 0..Len(reply), NEW last \in BOOLEAN, Say(k, last) PROVE CutInv'
  <2>1. UNCHANGED <<events, tagBuffer>> /\ at' = at
    BY <1>1 DEF Say
  <2>. QED
    BY <2>1, SameCuts
<1>2. ASSUME NEW n \in 1..Len(wire), Read(n) PROVE CutInv'
  <2>1. UNCHANGED <<events, tagBuffer>> /\ at' = at
    BY <1>2 DEF Read
  <2>. QED
    BY <2>1, SameCuts
<1>3. CASE Break
  <2>1. UNCHANGED <<events, tagBuffer>> /\ at = "read" /\ at' = "failed"
    BY <1>3 DEF Break
  <2>. QED
    BY <2>1, SameCuts
<1>4. CASE UNCHANGED streamVars
  <2>1. UNCHANGED <<events, tagBuffer>> /\ at' = at
    BY <1>4 DEF streamVars
  <2>. QED
    BY <2>1, SameCuts
<1>5. CASE PopEvent \/ EndResponse \/ TakeTag \/ HoldBack \/ Flush
  BY <1>5, PopCuts, EndCuts, TakeTagCuts, HoldBackCuts, FlushCuts
<1>. QED
  BY <1>1, <1>2, <1>3, <1>4, <1>5 DEF StreamNext

\* The text of a citation event, and its place in what is shown.
LEMMA CiteShape ==
  ASSUME NEW e \in Cites, NEW m \in Nat, m = Len(e.cite), NEW t, t = ShowOp[e]
  PROVE  /\ e \in Items /\ e.cite \in Seq({"1"}) /\ t \in Seq(Signs) /\ Len(t) = m + 3
         /\ t[1] = "[" /\ t[2] = "c" /\ t[m + 3] = "]"
         /\ \A i \in 1..m : t[i + 2] = e.cite[i] /\ e.cite[i] = "1"
<1>1. e \in Items /\ "text" \notin DOMAIN e /\ e.cite \in Seq({"1"})
  BY ItemIs DEF Items
<1>2. PICK a, b, z \in Signs : a = "[" /\ b = "c" /\ z = "]"
  BY SignsAre
<1>3. PICK c : c = e.cite
  OBVIOUS
<1>4. c \in Seq(Signs) /\ Len(c) = m /\ \A i \in 1..m : c[i] = "1"
  <2>1. c \in Seq({"1"}) /\ {"1"} \subseteq Signs
    BY <1>1, <1>3, SignsAre
  <2>2. \A A, B : A \subseteq B => Seq(A) \subseteq Seq(B)
    OBVIOUS
  <2>3. c \in Seq(Signs)
    BY <2>1, <2>2
  <2>4. \A i \in 1..m : c[i] \in {"1"}
    BY <1>3, <2>1
  <2>. QED
    BY <1>3, <2>3, <2>4
<1>5. t = (<<a, b>> \o c) \o <<z>>
  <2>1. ShowOp[e] = Prefix \o e.cite \o <<"]">>
    BY <1>1, ShowOpIs
  <2>. QED
    BY <1>2, <1>3, <2>1 DEF Prefix
<1>6. /\ (<<a, b>> \o c) \o <<z>> \in Seq(Signs) /\ Len((<<a, b>> \o c) \o <<z>>) = m + 3
      /\ ((<<a, b>> \o c) \o <<z>>)[1] = a /\ ((<<a, b>> \o c) \o <<z>>)[2] = b
      /\ ((<<a, b>> \o c) \o <<z>>)[m + 3] = z
      /\ \A i \in 1..m : ((<<a, b>> \o c) \o <<z>>)[i + 2] = c[i]
  BY <1>4
<1>7. t \in Seq(Signs) /\ Len(t) = m + 3 /\ t[1] = a /\ t[2] = b /\ t[m + 3] = z /\ \A i \in 1..m : t[i + 2] = c[i]
  BY <1>5, <1>6, Zenon
<1>. QED
  BY <1>1, <1>2, <1>3, <1>4, <1>7

\* More events show more.
LEMMA UptoShown ==
  ASSUME NEW ev \in Seq(Items), NEW a \in Nat, NEW b \in Nat, a <= b, b <= Len(ev)
  PROVE  /\ ShownLen(Upto(ev, a)) \in Nat /\ ShownLen(Upto(ev, b)) \in Nat
         /\ ShownLen(Upto(ev, a)) <= ShownLen(Upto(ev, b))
<1>1. PICK x, y, A : x = Upto(ev, a) /\ y = Upto(ev, b) /\ A = SubSeq(ev, a + 1, b)
  OBVIOUS
<1>2. x \in Seq(Items) /\ y \in Seq(Items)
  BY <1>1 DEF Upto
<1>3. A \in Seq(Items)
  BY <1>1
<1>4. IsConcat(y, x, A)
  BY <1>1, UptoGrows DEF IsConcat
<1>5. PICK s : Shows(A, s)
  <2>1. Spread(ShowOp, A) \in Seq(Signs)
    BY <1>3, ShowOpIs, SpreadIs
  <2>. QED
    BY <2>1 DEF Shows
<1>6. ShownLen(y) = ShownLen(x) + Len(s) /\ Len(s) \in Nat
  <2>1. Len(s) \in Nat
    BY <1>5 DEF Shows
  <2>. QED
    BY <1>2, <1>3, <1>4, <1>5, <2>1, ShownAdds
<1>7. ShownLen(x) \in Nat /\ ShownLen(y) \in Nat
  BY <1>2, ShownLenIs
<1>. QED
  BY <1>1, <1>6, <1>7

\* The place of a citation event is a citation of the text, of the same number.
LEMMA CitePlace ==
  ASSUME NEW ev \in Seq(Items), Digits(ev), NEW n, NEW p, NEW q, CiteAt(ev, n, p, q), NEW w, w = ShownOf(ev)
  PROVE  CiteIn(w, p, q) /\ SubSeq(w, p + 2, q - 1) = ev[n].cite
<1>1. /\ n \in 1..Len(ev) /\ ev[n] \in Cites
      /\ p = ShownLen(Upto(ev, n - 1)) + 1 /\ q = ShownLen(Upto(ev, n))
  BY DEF CiteAt
<1>2. PICK k \in Nat : k + 1 = n
  <2>1. n - 1 \in Nat /\ (n - 1) + 1 = n
    BY <1>1
  <2>. QED
    BY <2>1
<1>3. PICK u, v, x, e : u = Upto(ev, k) /\ v = Upto(ev, n) /\ x = From(ev, n + 1) /\ e = ev[n]
  OBVIOUS
<1>4. n \in Nat /\ n <= Len(ev) /\ k <= n /\ k <= Len(ev) /\ n - 1 = k
  BY <1>1, <1>2
<1>5. u \in Seq(Items) /\ v \in Seq(Items) /\ x \in Seq(Items)
  BY <1>3, <1>4, CutTyped
<1>6. e \in Cites /\ e \in Items /\ <<e>> \in Seq(Items)
  <2>1. \A S : \A a \in S : <<a>> \in Seq(S)
    OBVIOUS
  <2>. QED
    BY <1>1, <1>3, <2>1 DEF Items
<1>7. IsConcat(v, u, <<e>>) /\ IsConcat(ev, v, x)
  <2>1. Upto(ev, k) \o SubSeq(ev, k + 1, n) = Upto(ev, n)
    <3>1. ev \in Seq(Items) /\ k \in Nat /\ n \in Nat /\ k <= n /\ n <= Len(ev)
      BY <1>4
    <3>. QED
      BY <3>1, UptoGrows
  <2>2. SubSeq(ev, n, n) = <<ev[n]>>
    <3>1. n \in Int /\ \A i \in n..n : ev[i] \in Items
      BY <1>1
    <3>2. PICK c : c = SubSeq(ev, n, n)
      OBVIOUS
    <3>3. /\ SubSeq(ev, n, n) \in Seq(Items)
          /\ Len(SubSeq(ev, n, n)) = IF n <= n THEN n - n + 1 ELSE 0
          /\ \A i \in 1..n - n + 1 : SubSeq(ev, n, n)[i] = ev[n + i - 1]
      BY <3>1, SubSeqProperties
    <3>4. (IF n <= n THEN n - n + 1 ELSE 0) = 1 /\ n - n + 1 = 1 /\ n + 1 - 1 = n /\ 1 \in 1..n - n + 1
      BY <3>1
    <3>5. c \in Seq(Items) /\ Len(c) = 1 /\ c[1] = ev[n]
      BY <3>2, <3>3, <3>4
    <3>6. c = <<ev[n]>>
      BY <3>5
    <3>. QED
      BY <3>2, <3>6
  <2>3. Upto(ev, k) \o <<ev[n]>> = Upto(ev, n)
    BY <1>2, <2>1, <2>2, Zenon
  <2>4. IsConcat(ev, Upto(ev, n), From(ev, n + 1))
    BY <1>4, CutConcat
  <2>. QED
    BY <1>3, <2>3, <2>4, Zenon DEF IsConcat
<1>8. PICK t, s : t = ShowOp[e] /\ s = Spread(ShowOp, x)
  OBVIOUS
<1>9. Shows(<<e>>, t) /\ Shows(x, s)
  <2>1. t \in Seq(Signs) /\ s \in Seq(Signs)
    <3>1. ShowOp[e] \in Seq(Signs)
      BY <1>6, ShowOpIs DEF Spreads
    <3>2. Spread(ShowOp, x) \in Seq(Signs)
      BY <1>5, ShowOpIs, SpreadIs
    <3>. QED
      BY <1>8, <3>1, <3>2
  <2>2. Spread(ShowOp, <<e>>) = ShowOp[e]
    BY <1>6, ShowOpIs, SpreadFew
  <2>. QED
    BY <1>8, <2>1, <2>2, Zenon DEF Shows
<1>10. PICK h, g : h = ShownOf(u) /\ g = ShownOf(v)
  OBVIOUS
<1>11. IsConcat(g, h, t) /\ IsConcat(w, g, s)
  <2>1. IsConcat(ShownOf(v), ShownOf(u), t)
    BY <1>5, <1>6, <1>7, <1>9, ShownJoins
  <2>2. IsConcat(ShownOf(ev), ShownOf(v), s)
    BY <1>5, <1>7, <1>9, ShownJoins
  <2>. QED
    BY <1>10, <2>1, <2>2, Zenon
<1>12. h \in Seq(Signs) /\ g \in Seq(Signs) /\ t \in Seq(Signs) /\ s \in Seq(Signs)
  BY <1>5, <1>9, <1>10, ShownLenIs DEF Shows
<1>13. Lies(w, Len(h), t)
  BY <1>11, <1>12, LiesIn
<1>14. PICK l \in Nat, m \in Nat : l = Len(h) /\ m = Len(e.cite)
  <2>1. Len(h) \in Nat
    BY <1>12
  <2>2. e.cite \in Seq({"1"})
    BY <1>6, ItemIs
  <2>3. Len(e.cite) \in Nat
    BY <2>2
  <2>. QED
    BY <2>1, <2>3
<1>15. /\ e.cite \in Seq({"1"}) /\ Len(t) = m + 3
       /\ t[1] = "[" /\ t[2] = "c" /\ t[m + 3] = "]"
       /\ \A i \in 1..m : t[i + 2] = e.cite[i] /\ e.cite[i] = "1"
  BY <1>6, <1>8, <1>14, CiteShape
<1>16. Len(g) = l + (m + 3)
  BY <1>11, <1>12, <1>14, <1>15, ConcatAt
<1>17. p = l + 1 /\ q = l + (m + 3)
  BY <1>1, <1>3, <1>4, <1>10, <1>14, <1>16 DEF ShownLen
<1>18. m >= 1
  BY <1>1, <1>3, <1>14 DEF Digits
<1>19. w \in Seq(Signs) /\ Len(w) \in Nat /\ l + (m + 3) <= Len(w) /\ \A i \in 1..m + 3 : w[l + i] = t[i]
  BY <1>13, <1>14, <1>15 DEF Lies
<1>20. w[l + 1] = "[" /\ w[l + 2] = "c" /\ w[l + (m + 3)] = "]"
  <2>1. 1 \in 1..m + 3 /\ 2 \in 1..m + 3 /\ m + 3 \in 1..m + 3
    OBVIOUS
  <2>. QED
    BY <1>15, <1>19, <2>1
<1>21. \A i \in 1..m : w[(l + 2) + i] = e.cite[i]
  <2>1. \A i \in 1..m : i + 2 \in 1..m + 3 /\ l + (i + 2) = (l + 2) + i
    OBVIOUS
  <2>. QED
    BY <1>15, <1>19, <2>1
<1>22. CiteIn(w, p, q)
  <2>1. \A i \in p + 2..q - 1 : w[i] = "1"
    <3>. TAKE i \in p + 2..q - 1
    <3>1. PICK j \in Nat : i = (l + 2) + j
      <4>1. i - (l + 2) \in Nat /\ i = (l + 2) + (i - (l + 2))
        BY <1>17
      <4>. QED
        BY <4>1
    <3>2. j \in 1..m
      BY <1>17, <3>1
    <3>. QED
      BY <1>15, <1>21, <3>1, <3>2
  <2>2. /\ p \in Nat /\ q \in Nat /\ p >= 1 /\ q >= p + 3 /\ q <= Len(w) /\ p + 1 = l + 2
    BY <1>17, <1>18, <1>19
  <2>. QED
    BY <1>17, <1>20, <2>1, <2>2 DEF CiteIn
<1>23. SubSeq(w, p + 2, q - 1) = e.cite
  <2>1. PICK c : c = SubSeq(w, l + 3, l + (m + 2))
    OBVIOUS
  <2>2. c \in Seq(Signs) /\ Len(c) = m /\ \A i \in 1..m : c[i] = w[(l + 2) + i]
    <3>1. l + 3 \in Int /\ l + (m + 2) \in Int /\ \A i \in l + 3..l + (m + 2) : w[i] \in Signs
      BY <1>19
    <3>2. /\ SubSeq(w, l + 3, l + (m + 2)) \in Seq(Signs)
          /\ Len(SubSeq(w, l + 3, l + (m + 2))) = IF l + 3 <= l + (m + 2) THEN l + (m + 2) - (l + 3) + 1 ELSE 0
          /\ \A i \in 1..(l + (m + 2)) - (l + 3) + 1 : SubSeq(w, l + 3, l + (m + 2))[i] = w[l + 3 + i - 1]
      BY <3>1, SubSeqProperties
    <3>3. /\ (IF l + 3 <= l + (m + 2) THEN l + (m + 2) - (l + 3) + 1 ELSE 0) = m
          /\ (l + (m + 2)) - (l + 3) + 1 = m
          /\ \A i \in 1..m : l + 3 + i - 1 = (l + 2) + i
      BY <1>18
    <3>. QED
      BY <2>1, <3>2, <3>3
  <2>3. \A i \in 1..m : c[i] = e.cite[i]
    BY <1>21, <2>2
  <2>4. c = e.cite
    <3>1. c \in Seq(Signs) /\ e.cite \in Seq({"1"}) /\ Len(c) = Len(e.cite) /\ \A i \in 1..Len(c) : c[i] = e.cite[i]
      BY <1>14, <1>15, <2>2, <2>3
    <3>. QED
      BY <3>1
  <2>5. p + 2 = l + 3 /\ q - 1 = l + (m + 2)
    BY <1>17
  <2>. QED
    BY <2>1, <2>4, <2>5
<1>. QED
  BY <1>3, <1>22, <1>23

\* The citation events and the citations of the text, one to one.
CiteEvents(ev, X, k) == {i \in 1..Len(ev) : ev[i] \in Cites /\ ((ev[i].cite \in X) = k)}
CitePairs(w, X, k)   == {p \in Opens(w) \X Closes(w) :
                           /\ p[1] < p[2] /\ IsCitation(SubSeq(w, p[1], p[2]))
                           /\ (SubSeq(w, p[1] + 2, p[2] - 1) \in X) = k}

\* The citations of the property are those of CiteIn, and so are its nested tags.
LEMMA PairIs ==
  ASSUME NEW w \in Seq(Signs), NEW p \in Opens(w), NEW q \in Closes(w)
  PROVE  (p < q /\ IsCitation(SubSeq(w, p, q))) <=> CiteIn(w, p, q)
<1>1. /\ p \in 1..Len(w) - 1 /\ w[p] = "[" /\ w[p + 1] = "c"
      /\ q \in 1..Len(w) /\ w[q] = "]" /\ Len(w) \in Nat
  BY PlacesIn
<1>2. CASE ~(p < q)
  <2>1. ~(q >= p + 3)
    BY <1>1, <1>2
  <2>. QED
    BY <1>2, <2>1 DEF CiteIn
<1>3. CASE p < q
  <2>1. PICK n \in Nat : n = (q - p) + 1
    BY <1>1, <1>3
  <2>2. PICK t : t = SubSeq(w, p, q)
    OBVIOUS
  <2>3. t \in Seq(Signs) /\ Len(t) = n /\ \A i \in 1..n : t[i] = w[p + (i - 1)]
    <3>1. p \in Int /\ q \in Int /\ \A i \in p..q : w[i] \in Signs
      BY <1>1
    <3>2. /\ SubSeq(w, p, q) \in Seq(Signs)
          /\ Len(SubSeq(w, p, q)) = IF p <= q THEN q - p + 1 ELSE 0
          /\ \A i \in 1..q - p + 1 : SubSeq(w, p, q)[i] = w[p + i - 1]
      BY <3>1, SubSeqProperties
    <3>3. (IF p <= q THEN q - p + 1 ELSE 0) = n /\ q - p + 1 = n /\ \A i \in 1..n : p + i - 1 = p + (i - 1)
      BY <1>1, <1>3, <2>1
    <3>. QED
      BY <2>2, <3>2, <3>3
  <2>4. n >= 2
    BY <1>1, <1>3, <2>1
  <2>5. IsCitation(t) <=> /\ n >= 4 /\ t[1] = "[" /\ t[2] = "c" /\ t[n] = "]"
                          /\ \A i \in 3..n - 1 : t[i] = "1"
    <3>1. t \in Seq(Signs) /\ n = Len(t) /\ n >= 1
      BY <2>3, <2>4
    <3>. QED
      BY <3>1, CitationIs
  <2>6. t[1] = "[" /\ t[2] = "c" /\ t[n] = "]"
    <3>1. 1 \in 1..n /\ 2 \in 1..n /\ n \in 1..n /\ p + (1 - 1) = p /\ p + (2 - 1) = p + 1 /\ p + (n - 1) = q
      BY <1>1, <2>1, <2>4
    <3>. QED
      BY <1>1, <2>3, <3>1
  <2>7. (\A i \in 3..n - 1 : t[i] = "1") <=> (\A i \in p + 2..q - 1 : w[i] = "1")
    <3>1. ASSUME \A i \in 3..n - 1 : t[i] = "1", NEW j \in p + 2..q - 1 PROVE w[j] = "1"
      <4>1. PICK i \in Nat : j = p + (i - 1)
        <5>1. (j - p) + 1 \in Nat /\ j = p + (((j - p) + 1) - 1)
          BY <1>1
        <5>. QED
          BY <5>1
      <4>2. i \in 3..n - 1 /\ i \in 1..n
        BY <1>1, <2>1, <4>1
      <4>. QED
        BY <2>3, <3>1, <4>1, <4>2
    <3>2. ASSUME \A j \in p + 2..q - 1 : w[j] = "1", NEW i \in 3..n - 1 PROVE t[i] = "1"
      <4>1. i \in 1..n /\ p + (i - 1) \in p + 2..q - 1
        BY <1>1, <2>1
      <4>. QED
        BY <2>3, <3>2, <4>1
    <3>. QED
      BY <3>1, <3>2
  <2>8. n >= 4 <=> q >= p + 3
    BY <1>1, <2>1
  <2>9. CiteIn(w, p, q) <=> q >= p + 3 /\ \A i \in p + 2..q - 1 : w[i] = "1"
    <3>1. p \in Nat /\ q \in Nat /\ p >= 1 /\ q <= Len(w)
      BY <1>1
    <3>. QED
      BY <1>1, <3>1 DEF CiteIn
  <2>. QED
    BY <1>3, <2>2, <2>5, <2>6, <2>7, <2>8, <2>9
<1>. QED
  BY <1>2, <1>3

LEMMA PairsAre ==
  ASSUME NEW w \in Seq(Signs), NEW X, NEW k \in BOOLEAN, NEW p, NEW q
  PROVE  <<p, q>> \in CitePairs(w, X, k) <=> CiteIn(w, p, q) /\ ((SubSeq(w, p + 2, q - 1) \in X) = k)
<1>1. CiteIn(w, p, q) => p \in Opens(w) /\ q \in Closes(w)
  <2>. SUFFICES ASSUME CiteIn(w, p, q) PROVE p \in Opens(w) /\ q \in Closes(w)
    OBVIOUS
  <2>1. /\ p \in Nat /\ q \in Nat /\ p >= 1 /\ q >= p + 3 /\ q <= Len(w)
        /\ w[p] = "[" /\ w[p + 1] = "c" /\ w[q] = "]" /\ Len(w) \in Nat
    BY DEF CiteIn
  <2>2. p \in 1..Len(w) - 1 /\ q \in 1..Len(w)
    BY <2>1
  <2>. QED
    BY <2>1, <2>2, PlacesIn
<1>2. <<p, q>> \in CitePairs(w, X, k) <=>
        /\ p \in Opens(w) /\ q \in Closes(w) /\ p < q /\ IsCitation(SubSeq(w, p, q))
        /\ (SubSeq(w, p + 2, q - 1) \in X) = k
  BY DEF CitePairs
<1>3. p \in Opens(w) /\ q \in Closes(w) => ((p < q /\ IsCitation(SubSeq(w, p, q))) <=> CiteIn(w, p, q))
  BY PairIs
<1>. QED
  BY <1>1, <1>2, <1>3

LEMMA NestedIs ==
  ASSUME NEW w \in Seq(Signs), ~Nested(w)
  PROVE  Clean(w)
<1>. SUFFICES ASSUME NEW i, NEW j, NestsAt(w, i, j) PROVE FALSE
  BY DEF Clean
<1>1. /\ i \in Nat /\ j \in Nat /\ i >= 1 /\ i < j /\ j <= Len(w) /\ Len(w) \in Nat
      /\ w[i] = "[" /\ w[i + 1] = "c" /\ w[j] = "[" /\ \A k \in i + 1..j - 1 : w[k] # "]"
  BY DEF NestsAt
<1>2. i \in 1..Len(w) - 1 /\ j \in 1..Len(w)
  BY <1>1
<1>3. i \in Opens(w)
  BY <1>1, <1>2, PlacesIn
<1>4. j \in PlacesOf(<<"[">>, w)
  BY <1>1, <1>2, SignsAre, Place1
<1>5. ~\E k \in Closes(w) : i < k /\ k < j
  <2>. SUFFICES ASSUME NEW k \in Closes(w), i < k, k < j PROVE FALSE
    OBVIOUS
  <2>1. k \in 1..Len(w) /\ w[k] = "]"
    BY PlacesIn
  <2>2. k \in i + 1..j - 1
    BY <1>1, <2>1
  <2>. QED
    BY <1>1, <2>1, <2>2
<1>. QED
  BY <1>1, <1>3, <1>4, <1>5 DEF Nested

\* The places are a bijection.
LEMMA SameCount ==
  ASSUME NEW ev \in Seq(Items), Digits(ev), NEW w, w = ShownOf(ev), Cited(ev, w), NEW X, NEW k \in BOOLEAN
  PROVE  Cardinality(CiteEvents(ev, X, k)) = Cardinality(CitePairs(w, X, k))
<1>1. PICK E, Q : E = CiteEvents(ev, X, k) /\ Q = CitePairs(w, X, k)
  OBVIOUS
<1>2. PICK f : f = [n \in E |-> <<ShownLen(Upto(ev, n - 1)) + 1, ShownLen(Upto(ev, n))>>]
  OBVIOUS
<1>3. w \in Seq(Signs) /\ Len(w) = ShownLen(ev) /\ Len(w) \in Nat
  BY ShownLenIs DEF ShownLen
<1>4. \A n : n \in E <=> n \in 1..Len(ev) /\ ev[n] \in Cites /\ ((ev[n].cite \in X) = k)
  BY <1>1 DEF CiteEvents
<1>5. ASSUME NEW n \in E
      PROVE  /\ CiteAt(ev, n, ShownLen(Upto(ev, n - 1)) + 1, ShownLen(Upto(ev, n)))
             /\ f[n] = <<ShownLen(Upto(ev, n - 1)) + 1, ShownLen(Upto(ev, n))>>
             /\ f[n] \in Q
  <2>1. PICK p, q : p = ShownLen(Upto(ev, n - 1)) + 1 /\ q = ShownLen(Upto(ev, n))
    OBVIOUS
  <2>2. CiteAt(ev, n, p, q)
    BY <1>4, <2>1 DEF CiteAt
  <2>3. CiteIn(w, p, q) /\ SubSeq(w, p + 2, q - 1) = ev[n].cite
    BY <2>2, CitePlace
  <2>4. (SubSeq(w, p + 2, q - 1) \in X) = k
    BY <1>4, <2>3
  <2>5. <<p, q>> \in Q
    BY <1>1, <1>3, <2>3, <2>4, PairsAre
  <2>6. f[n] = <<p, q>>
    BY <1>2, <2>1
  <2>. QED
    BY <2>1, <2>2, <2>5, <2>6
<1>6. ASSUME NEW a \in E, NEW b \in E, a < b PROVE f[a] # f[b]
  <2>1. a \in Nat /\ b \in Nat /\ b - 1 \in Nat /\ a <= b - 1 /\ b - 1 <= Len(ev) /\ b <= Len(ev) /\ b - 1 <= b
    BY <1>4, <1>6
  <2>2. /\ ShownLen(Upto(ev, a)) \in Nat /\ ShownLen(Upto(ev, b - 1)) \in Nat
        /\ ShownLen(Upto(ev, a)) <= ShownLen(Upto(ev, b - 1))
    BY <2>1, UptoShown
  <2>3. CiteIn(w, ShownLen(Upto(ev, b - 1)) + 1, ShownLen(Upto(ev, b)))
    BY <1>5, CitePlace
  <2>4. ShownLen(Upto(ev, b)) # ShownLen(Upto(ev, a))
    <3>1. ShownLen(Upto(ev, b)) >= (ShownLen(Upto(ev, b - 1)) + 1) + 3 /\ ShownLen(Upto(ev, b)) \in Nat
      BY <2>3 DEF CiteIn
    <3>. QED
      BY <2>2, <3>1
  <2>5. f[a][2] = ShownLen(Upto(ev, a)) /\ f[b][2] = ShownLen(Upto(ev, b))
    BY <1>2
  <2>. QED
    BY <2>4, <2>5
<1>7. \A a, b \in E : f[a] = f[b] => a = b
  <2>. SUFFICES ASSUME NEW a \in E, NEW b \in E, a # b PROVE f[a] # f[b]
    OBVIOUS
  <2>1. a \in Nat /\ b \in Nat
    BY <1>4
  <2>2. a < b \/ b < a
    BY <2>1
  <2>. QED
    BY <1>6, <2>2
<1>8. ASSUME NEW z \in Q PROVE \E n \in E : f[n] = z
  <2>1. PICK p, q : z = <<p, q>>
    BY <1>1 DEF CitePairs
  <2>2. CiteIn(w, p, q) /\ ((SubSeq(w, p + 2, q - 1) \in X) = k)
    BY <1>1, <1>3, <2>1, PairsAre
  <2>3. p <= ShownLen(ev)
    <3>1. p \in Nat /\ q \in Nat /\ q >= p + 3 /\ q <= Len(w)
      BY <2>2 DEF CiteIn
    <3>. QED
      BY <1>3, <3>1
  <2>4. PICK n : CiteAt(ev, n, p, q)
    BY <2>2, <2>3 DEF Cited
  <2>5. n \in 1..Len(ev) /\ ev[n] \in Cites /\ p = ShownLen(Upto(ev, n - 1)) + 1 /\ q = ShownLen(Upto(ev, n))
    BY <2>4 DEF CiteAt
  <2>6. SubSeq(w, p + 2, q - 1) = ev[n].cite
    BY <2>4, CitePlace
  <2>7. n \in E
    BY <1>4, <2>2, <2>5, <2>6
  <2>8. f[n] = <<p, q>>
    BY <1>2, <2>5, <2>7
  <2>. QED
    BY <2>1, <2>7, <2>8
<1>9. ExistsBijection(E, Q)
  <2>1. f \in [E -> Q]
    <3>1. \A n \in E : f[n] \in Q
      BY <1>5
    <3>2. f = [n \in E |-> f[n]]
      BY <1>2
    <3>. QED
      BY <3>1, <3>2, Zenon
  <2>2. f \in Injection(E, Q)
    <3>1. DOMAIN f = E
      BY <2>1
    <3>2. IsInjective(f)
      BY <1>7, <3>1 DEF IsInjective
    <3>. QED
      BY <2>1, <3>2 DEF Injection
  <2>3. f \in Surjection(E, Q)
    BY <1>8, <2>1 DEF Surjection
  <2>. QED
    BY <2>2, <2>3 DEF Bijection, ExistsBijection
<1>10. IsFiniteSet(E)
  <2>1. 1 \in Int /\ Len(ev) \in Int
    OBVIOUS
  <2>2. IsFiniteSet(1..Len(ev))
    BY <2>1, FS_Interval
  <2>3. E \subseteq 1..Len(ev)
    BY <1>4
  <2>. QED
    BY <2>2, <2>3, FS_Subset
<1>11. Cardinality(Q) = Cardinality(E)
  BY <1>9, <1>10, FS_Bijection
<1>. QED
  BY <1>1, <1>11

\* The events that are told known, and those that are not.
LEMMA EnrichedIs ==
  ASSUME events \in Seq(Items), NEW k \in BOOLEAN
  PROVE  {i \in 1..Len(events) : "cite" \in DOMAIN Enriched[i] /\ Enriched[i].known = k}
           = CiteEvents(events, Excerpts, k)
<1>1. ASSUME NEW i \in 1..Len(events)
      PROVE  ("cite" \in DOMAIN Enriched[i] /\ Enriched[i].known = k)
               <=> (events[i] \in Cites /\ ((events[i].cite \in Excerpts) = k))
  <2>1. events[i] \in Items
    OBVIOUS
  <2>2. PICK e : e = events[i]
    OBVIOUS
  <2>3. Enriched[i] = IF "text" \in DOMAIN e THEN e ELSE Resolve(e.cite)
    BY <2>2 DEF Enriched
  <2>4. CASE e \in Texts
    <3>1. "text" \in DOMAIN e /\ "cite" \notin DOMAIN e
      BY <2>1, <2>2, <2>4, ItemIs
    <3>2. e \notin Cites
      BY <3>1, <2>1, <2>2, ItemIs
    <3>. QED
      BY <2>2, <2>3, <3>1, <3>2
  <2>5. CASE e \in Cites
    <3>1. "text" \notin DOMAIN e
      BY <2>1, <2>2, <2>5, ItemIs
    <3>2. Enriched[i] = Resolve(e.cite)
      BY <2>3, <3>1
    <3>3. "cite" \in DOMAIN Resolve(e.cite) /\ Resolve(e.cite).known = (e.cite \in Excerpts)
      BY DEF Resolve
    <3>. QED
      BY <2>2, <2>5, <3>2, <3>3
  <2>. QED
    BY <2>1, <2>2, <2>4, <2>5 DEF Items
<1>. QED
  BY <1>1 DEF CiteEvents

\* Wherever the answer is cut, on its way or in the parser, the citation events of a
\* finished stream are the citations of the text shown, and told known when it is so.
THEOREM CitationsAreKept == StreamSpec => []CitationsSurviveCuts
<1>1. Typed /\ CutInv => CitationsSurviveCuts
  <2>. SUFFICES ASSUME Typed, CutInv, at = "done", ~Nested(Shown), NEW k \in BOOLEAN
                PROVE  Cardinality({i \in 1..Len(events) : "cite" \in DOMAIN Enriched[i] /\ Enriched[i].known = k})
                         = Cardinality(CitePairs(Shown, Excerpts, k))
    BY Zenon DEF CitationsSurviveCuts, CitePairs
  <2>1. events \in Seq(Items)
    BY DEF Typed
  <2>2. Shown \in Seq(Signs) /\ <<>> \in Seq(Signs)
    BY SeenIs
  <2>3. Seen \o <<>> = Shown
    <3>1. Shown \o <<>> = Shown
      BY <2>2, ConcatEmptySeq
    <3>2. tagBuffer = <<>>
      BY DEF CutInv, HeldInv
    <3>. QED
      BY <3>1, <3>2, Zenon DEF Seen
  <2>4. Clean(Shown)
    BY <2>2, NestedIs
  <2>5. Cited(events, Shown)
    <3>1. Clean(Seen \o <<>>)
      BY <2>3, <2>4, Zenon
    <3>2. Cited(events, Seen \o <<>>)
      BY <2>2, <3>1 DEF CutInv, CiteInv
    <3>. QED
      BY <2>3, <3>2, Zenon
  <2>6. Shown = ShownOf(events)
    BY ShownIs
  <2>7. Digits(events)
    BY DEF CutInv
  <2>8. Cardinality(CiteEvents(events, Excerpts, k)) = Cardinality(CitePairs(Shown, Excerpts, k))
    BY <2>1, <2>5, <2>6, <2>7, SameCount
  <2>9. {i \in 1..Len(events) : "cite" \in DOMAIN Enriched[i] /\ Enriched[i].known = k} = CiteEvents(events, Excerpts, k)
    BY <2>1, EnrichedIs
  <2>. QED
    BY <2>8, <2>9
<1>. QED
  BY <1>1, StreamInitTyped, StreamStepTyped, CutInit, CutStep, PTL DEF StreamSpec

-------------------------------------------------------------------------------
(***************************************************************************)
(* Chat.                                                                   *)
(***************************************************************************)
USE TurnsAssumption, LimitAssumption, FaultAssumption

\* A request creates a session whose row is not there yet, or deletes one whose row is live.
\* A question that is inserted, or stored, keeps the row of its session.
SessionInv ==
  /\ \A s \in Sessions : /\ op[s] \in {"inserted", "granted", "abandoned"} => row[s] = "absent"
                         /\ op[s] \in {"cleared", "deleted"} => row[s] = "live"
  /\ \A t \in Turns : /\ pc[t] \in Asking => row[chat[t]] = "live" /\ op[chat[t]] # "deleted"
                      /\ question[t] = "stored" => row[chat[t]] = "live"
                      /\ question[t] = "erased" => row[chat[t]] = "gone"

\* What is stored of a turn, and what its client was told, by its place.
TurnInv ==
  \A t \in Turns :
    /\ pc[t] \in {"idle"} \cup Handling => question[t] = "none" /\ answer[t] = "none"
    /\ pc[t] \in {"starting", "streaming", "withdrawing", "persisting"} =>
         question[t] \in {"stored", "erased"} /\ answer[t] = "none"
    /\ pc[t] = "withdrawn" => answer[t] = "none" /\ (question[t] = "stored" => t \in kept)
    /\ pc[t] = "persisted" => answer[t] # "none"
    /\ answer[t] # "none" => question[t] = answer[t]
    /\ pc[t] # "over" => told[t] = "nothing"
    /\ told[t] = "done" => answer[t] # "none"
    /\ told[t] = "refused" => question[t] = "none"
    /\ told[t] = "stream-failed" => answer[t] = "none" /\ (question[t] = "stored" => t \in kept)

Inv == TypeOK /\ SessionInv /\ TurnInv

LEMMA InitInv == Init => Inv
BY DEF Init, Inv, TypeOK, SessionInv, TurnInv, Places, Ends, Handling, Body, Asking

LEMMA SessionKeepsInv ==
  ASSUME Inv, NEW s \in Sessions, SessionNext(s)
  PROVE  Inv'
<1>. USE DEF Inv, TypeOK, SessionInv, TurnInv, SessionStep, Fault, turnVars, slotVars
<1>1. CASE InsertSession(s)
  BY <1>1 DEF InsertSession
<1>2. CASE WriteTuples(s)
  BY <1>2 DEF WriteTuples
<1>3. CASE WriteTuplesFails(s)
  BY <1>3 DEF WriteTuplesFails
<1>4. CASE CommitSession(s)
  BY <1>4 DEF CommitSession
<1>5. CASE ClearTuples(s)
  BY <1>5 DEF ClearTuples
<1>6. CASE DeleteSession(s)
  BY <1>6 DEF DeleteSession, Locked
<1>7. CASE CommitDelete(s)
  BY <1>7 DEF CommitDelete
<1>8. CASE LoseSession(s)
  BY <1>8 DEF LoseSession
<1>. QED
  BY <1>1, <1>2, <1>3, <1>4, <1>5, <1>6, <1>7, <1>8 DEF SessionNext

LEMMA HandlerKeepsInv ==
  ASSUME Inv, NEW t \in Turns, Post(t) \/ Refuse(t) \/ Handler(t)
  PROVE  Inv'
<1>. USE DEF Inv, TypeOK, SessionInv, TurnInv, Step, End, DropSlot, Places, Ends, Handling, Body,
             Asking, sessionVars, slotVars
<1>1. CASE Post(t)
  BY <1>1 DEF Post
<1>2. CASE Refuse(t)
  BY <1>2 DEF Refuse
<1>3. CASE OpenSession(t)
  BY <1>3 DEF OpenSession
<1>4. CASE DenySession(t)
  BY <1>4 DEF DenySession
<1>5. CASE InsertQuestion(t)
  BY <1>5 DEF InsertQuestion
<1>6. CASE InsertFails(t)
  BY <1>6 DEF InsertFails
<1>7. CASE Retrieve(t)
  BY <1>7 DEF Retrieve
<1>8. CASE LoadHistory(t)
  BY <1>8 DEF LoadHistory
<1>9. CASE CommitQuestion(t)
  BY <1>9 DEF CommitQuestion
<1>10. CASE CommitError(t)
  BY <1>10 DEF CommitError
<1>. QED
  BY <1>1, <1>2, <1>3, <1>4, <1>5, <1>6, <1>7, <1>8, <1>9, <1>10 DEF Handler

LEMMA BodyKeepsInv ==
  ASSUME Inv, NEW t \in Turns, Upstream(t) \/ Close(t)
  PROVE  Inv'
<1>. USE DEF Inv, TypeOK, SessionInv, TurnInv, Step, End, DropSlot, BodyStep, Places, Ends, Handling,
             Body, Asking, sessionVars, slotVars
<1>1. CASE StreamStarts(t) \/ StartFails(t) \/ UpstreamEnds(t) \/ UpstreamFails(t)
  BY <1>1 DEF StreamStarts, StartFails, UpstreamEnds, UpstreamFails
<1>2. CASE ParserPanics(t)
  BY <1>2 DEF ParserPanics
<1>3. CASE Compensate(t)
  BY <1>3 DEF Compensate, Withdrawn
<1>4. CASE YieldStreamFailed(t)
  BY <1>4 DEF YieldStreamFailed
<1>5. CASE Persist(t)
  BY <1>5 DEF Persist
<1>6. CASE PersistRefused(t)
  BY <1>6 DEF PersistRefused
<1>7. CASE YieldDone(t)
  BY <1>7 DEF YieldDone
<1>8. CASE YieldPersistFailed(t)
  BY <1>8 DEF YieldPersistFailed
<1>. QED
  BY <1>1, <1>2, <1>3, <1>4, <1>5, <1>6, <1>7, <1>8 DEF Upstream, Close

LEMMA DisturbKeepsInv ==
  ASSUME Inv, NEW t \in Turns, Disturb(t) \/ Leave(t) \/ Release(t)
  PROVE  Inv'
<1>. USE DEF Inv, TypeOK, SessionInv, TurnInv, Step, End, DropSlot, Fault, Places, Ends, Handling,
             Body, Asking, sessionVars, slotVars, turnVars
<1>1. CASE RetrieveFails(t)
  BY <1>1 DEF RetrieveFails
<1>2. CASE LoseQuestion(t)
  BY <1>2 DEF LoseQuestion
<1>3. CASE CompensateFails(t)
  BY <1>3 DEF CompensateFails, Withdrawn
<1>4. CASE PersistFails(t)
  BY <1>4 DEF PersistFails
<1>5. CASE Leave(t)
  BY <1>5 DEF Leave
<1>6. CASE Release(t)
  BY <1>6 DEF Release
<1>. QED
  BY <1>1, <1>2, <1>3, <1>4, <1>5, <1>6 DEF Disturb

LEMMA CrashKeepsInv ==
  ASSUME Inv, Crash
  PROVE  Inv'
BY DEF Crash, Inv, TypeOK, SessionInv, TurnInv, Fault, Holding, Places, Ends, Handling, Body, Asking,
       sessionVars

LEMMA StepInv == Inv /\ [Next]_vars => Inv'
<1>. SUFFICES ASSUME Inv, [Next]_vars PROVE Inv'
  OBVIOUS
<1>1. CASE UNCHANGED vars
  BY <1>1 DEF vars, sessionVars, turnVars, slotVars, Inv, TypeOK, SessionInv, TurnInv
<1>. QED
  BY <1>1, SessionKeepsInv, HandlerKeepsInv, BodyKeepsInv, DisturbKeepsInv, CrashKeepsInv DEF Next

LEMMA InvHolds == Spec => []Inv
BY InitInv, StepInv, PTL DEF Spec

\* Every variable keeps its type, for any number of sessions and turns (routes/chat.rs).
THEOREM TypeCorrect == Spec => []TypeOK
BY InvHolds, PTL DEF Inv

\* What a failed turn leaves behind (chat.rs:646-649): its question only if taking it back
\* failed as well, or if the client was told of an error after which it stays.
THEOREM NoOrphans == Spec => []FailedTurnsLeaveNoOrphan
<1>1. Inv => FailedTurnsLeaveNoOrphan
  BY DEF Inv, TypeOK, TurnInv, Ends, FailedTurnsLeaveNoOrphan
<1>. QED
  BY <1>1, InvHolds, PTL

\* No message outlives its session: the cascade of the delete takes every question and every
\* answer, and none is committed afterwards (chat.rs:297-306, the foreign key of chat_messages).
MessagesHaveSessions ==
  \A t \in Turns : question[t] = "stored" \/ answer[t] = "stored" => row[chat[t]] = "live"

THEOREM NoMessageOutlivesItsSession == Spec => []MessagesHaveSessions
<1>1. Inv => MessagesHaveSessions
  BY DEF Inv, SessionInv, TurnInv, MessagesHaveSessions
<1>. QED
  BY <1>1, InvHolds, PTL

-------------------------------------------------------------------------------
(***************************************************************************)
(* The stream slots.  A slot is taken by a post and given back by a        *)
(* release or a crash; every other step leaves the turns that have one,    *)
(* in hand or about to be given back, as they are.                         *)
(***************************************************************************)
Taken == Holding \cup releasing

SlotInv ==
  /\ \A t \in releasing : pc[t] = "over"
  /\ slots = Cardinality(Taken)
  /\ slots <= Limit

KeepsSlots ==
  /\ Taken' = Taken /\ slots' = slots
  /\ \A t \in releasing' : pc'[t] = "over"

LEMMA TakenIsFinite == TypeOK => IsFiniteSet(Taken) /\ Cardinality(Taken) \in Nat
BY FS_Subset, FS_CardinalityType DEF TypeOK, Taken, Holding

LEMMA SlotsKept == KeepsSlots /\ SlotInv => SlotInv'
BY DEF KeepsSlots, SlotInv

LEMMA TurnKeepsSlots ==
  ASSUME Inv, SlotInv, NEW t \in Turns,
         Refuse(t) \/ Handler(t) \/ Upstream(t) \/ Close(t) \/ Disturb(t) \/ Leave(t)
  PROVE  KeepsSlots
<1>. USE DEF Step, End, DropSlot, Handling, Body, Asking, slotVars
<1>1. CASE slots' = slots /\ releasing' = releasing
           /\ \E from, to \in Handling \cup Body : Step(t, from, to)
  BY <1>1 DEF Inv, TypeOK, SlotInv, KeepsSlots, Taken, Holding
<1>2. CASE slots' = slots /\ releasing' = releasing \cup {t}
           /\ \E from \in Handling \cup Body : Step(t, from, "over")
  BY <1>2 DEF Inv, TypeOK, SlotInv, KeepsSlots, Taken, Holding
<1>3. CASE Refuse(t)
  BY <1>3 DEF Refuse, Inv, TypeOK, SlotInv, KeepsSlots, Taken, Holding
<1>4. CASE Handler(t)
  BY <1>1, <1>2, <1>4 DEF Handler, OpenSession, DenySession, InsertQuestion, InsertFails, Retrieve,
       LoadHistory, CommitQuestion, CommitError
<1>5. CASE Upstream(t)
  BY <1>1, <1>2, <1>5 DEF Upstream, StreamStarts, StartFails, UpstreamEnds, UpstreamFails, ParserPanics,
       BodyStep
<1>6. CASE Close(t)
  BY <1>1, <1>2, <1>6 DEF Close, Compensate, YieldStreamFailed, Persist, PersistRefused, YieldDone,
       YieldPersistFailed, BodyStep
<1>7. CASE Disturb(t)
  BY <1>1, <1>2, <1>7 DEF Disturb, RetrieveFails, LoseQuestion, CompensateFails, PersistFails
<1>8. CASE Leave(t)
  BY <1>2, <1>8 DEF Leave
<1>. QED
  BY <1>3, <1>4, <1>5, <1>6, <1>7, <1>8

LEMMA OthersKeepSlots ==
  ASSUME SlotInv, UNCHANGED vars \/ \E s \in Sessions : SessionNext(s)
  PROVE  KeepsSlots
BY DEF SessionNext, InsertSession, WriteTuples, WriteTuplesFails, CommitSession, ClearTuples,
       DeleteSession, CommitDelete, LoseSession, vars, turnVars, slotVars, SlotInv, KeepsSlots, Taken,
       Holding

LEMMA PostTakesSlot ==
  ASSUME Inv, SlotInv, NEW t \in Turns, Post(t)
  PROVE  SlotInv'
<1>1. Taken' = Taken \cup {t} /\ t \notin Taken
  BY DEF Post, Step, Inv, TypeOK, SlotInv, Taken, Holding, Handling, Body, Asking
<1>2. Cardinality(Taken') = Cardinality(Taken) + 1
  BY <1>1, TakenIsFinite, FS_AddElement DEF Inv
<1>. QED
  BY <1>2, TakenIsFinite DEF Post, Step, Inv, TypeOK, SlotInv

LEMMA ReleaseGivesBack ==
  ASSUME Inv, SlotInv, NEW t \in Turns, Release(t)
  PROVE  SlotInv'
<1>1. Taken' = Taken \ {t} /\ t \in Taken
  BY DEF Release, turnVars, Inv, TypeOK, SlotInv, Taken, Holding, Handling, Body, Asking
<1>2. Cardinality(Taken') = Cardinality(Taken) - 1 /\ Cardinality(Taken) # 0
  BY <1>1, TakenIsFinite, FS_RemoveElement, FS_EmptySet DEF Inv
<1>. QED
  BY <1>2, TakenIsFinite DEF Release, turnVars, Inv, TypeOK, SlotInv

LEMMA CrashForgetsSlots ==
  ASSUME Inv, SlotInv, Crash
  PROVE  SlotInv'
<1>1. Taken' = {}
  BY DEF Crash, Inv, TypeOK, Taken, Holding, Handling, Body, Asking
<1>. QED
  BY <1>1, FS_EmptySet DEF Crash, SlotInv

LEMMA StepSlots == Inv /\ SlotInv /\ [Next]_vars => SlotInv'
BY TurnKeepsSlots, OthersKeepSlots, SlotsKept, PostTakesSlot, ReleaseGivesBack, CrashForgetsSlots DEF Next

\* The limiter's count is that of the streams that run and of the slots under way back, and
\* never above the limit, for any limit and number of requests (rate_limit.rs:185-208).
THEOREM SlotsAreCounted == Spec => []SlotsMatchStreams
<1>1. Init => SlotInv
  <2>1. Init => Taken = {}
    BY DEF Init, Taken, Holding, Handling, Body, Asking
  <2>. QED
    BY <2>1, FS_EmptySet DEF Init, SlotInv
<1>2. SlotInv => SlotsMatchStreams
  BY DEF SlotInv, SlotsMatchStreams, Taken, Holding, Handling, Body, Asking
<1>. QED
  BY <1>1, <1>2, StepSlots, InvHolds, PTL DEF Spec

-------------------------------------------------------------------------------
(***************************************************************************)
(* The refinement: each step is a step of Conversation, or none.           *)
(***************************************************************************)
LEMMA TurnOnly ==
  ASSUME NEW t \in Turns, NEW from, NEW to,
         \A u \in Turns \ {t} : Stage(u)' = Stage(u),
         Stage(t) = from, Stage(t)' = to, Done' = Done
  PROVE  Promise!Move(t, from, to)
BY DEF Promise!Move

LEMMA Stutters ==
  ASSUME \A u \in Turns : Stage(u)' = Stage(u), Done' = Done
  PROVE  UNCHANGED Promise!vars
BY DEF Promise!vars

\* What is stored and told stays as it is, or the client is told something else than "done".
LEMMA QuietStutters ==
  ASSUME Inv, question' = question, answer' = answer,
         told' = told \/ \E t \in Turns, how \in Ends \ {"done"} :
                           told[t] = "nothing" /\ told' = [told EXCEPT ![t] = how]
  PROVE  UNCHANGED Promise!vars
BY Stutters DEF Inv, TypeOK, Stage, Done, Ends

\* The question is stored, and its client is at most told of an error.
LEMMA QuestionAsked ==
  ASSUME Inv, NEW t \in Turns, question' = [question EXCEPT ![t] = "stored"], answer' = answer,
         question[t] = "none", answer[t] = "none", told[t] = "nothing",
         told' = told \/ told' = [told EXCEPT ![t] = "error"]
  PROVE  Promise!Ask(t)
<1>1. Done' = Done
  BY DEF Inv, TypeOK, Done, Ends
<1>2. \A u \in Turns \ {t} : Stage(u)' = Stage(u)
  BY DEF Inv, TypeOK, Stage
<1>3. Stage(t) = "unasked" /\ Stage(t)' = "asked"
  BY DEF Inv, TypeOK, Stage
<1>. QED
  BY <1>1, <1>2, <1>3, TurnOnly DEF Promise!Ask

LEMMA QuestionWithdrawn ==
  ASSUME Inv, NEW t \in Turns, question' = [question EXCEPT ![t] = "withdrawn"], answer' = answer,
         question[t] = "stored", answer[t] = "none", told' = told
  PROVE  Promise!Withdraw(t)
<1>1. Done' = Done
  BY DEF Done
<1>2. \A u \in Turns \ {t} : Stage(u)' = Stage(u)
  BY DEF Inv, TypeOK, Stage
<1>3. Stage(t) = "asked" /\ Stage(t)' = "withdrawn"
  BY DEF Inv, TypeOK, Stage
<1>. QED
  BY <1>1, <1>2, <1>3, TurnOnly DEF Promise!Withdraw

LEMMA AnswerMoves ==
  ASSUME Inv, NEW t \in Turns, answer' = [answer EXCEPT ![t] = "stored"], question' = question,
         told' = told, question[t] = "stored", answer[t] = "none"
  PROVE  Promise!Answer(t)
<1>1. Done' = Done
  BY DEF Done
<1>2. \A u \in Turns \ {t} : Stage(u)' = Stage(u)
  BY DEF Inv, TypeOK, Stage
<1>3. Stage(t) = "asked" /\ Stage(t)' = "answered"
  BY DEF Inv, TypeOK, Stage
<1>. QED
  BY <1>1, <1>2, <1>3, TurnOnly DEF Promise!Answer

LEMMA CommitDeleteErases ==
  ASSUME Inv, NEW s \in Sessions, CommitDelete(s)
  PROVE  Promise!Erase({t \in Turns : chat[t] = s})
<1>1. Done' = Done
  BY DEF CommitDelete, Done
<1>2. ASSUME NEW t \in Turns
      PROVE  Stage(t)' = IF chat[t] = s /\ Stage(t) \in {"asked", "answered"}
                         THEN [asked |-> "erased", answered |-> "erasedAnswer"][Stage(t)]
                         ELSE Stage(t)
  BY DEF CommitDelete, Inv, TypeOK, TurnInv, Stage
<1>. QED
  BY <1>1, <1>2 DEF Promise!Erase

LEMMA DoneIsTold ==
  ASSUME Inv, NEW t \in Turns, YieldDone(t)
  PROVE  Promise!TellDone(t)
<1>1. Stage(t) \in {"answered", "erasedAnswer"}
  BY DEF YieldDone, End, Step, Inv, TypeOK, TurnInv, Stage
<1>2. Done' = Done \cup {t} /\ \A u \in Turns : Stage(u)' = Stage(u)
  BY DEF YieldDone, End, Inv, TypeOK, Done, Stage
<1>. QED
  BY <1>1, <1>2 DEF Promise!TellDone

PromisedStep == Promise!Next \/ UNCHANGED Promise!vars

LEMMA Moves ==
  /\ \A t \in Turns : Promise!Ask(t) \/ Promise!Answer(t) \/ Promise!Withdraw(t) \/ Promise!TellDone(t)
                        => PromisedStep
  /\ \A S \in SUBSET Turns : Promise!Erase(S) => PromisedStep
BY DEF PromisedStep, Promise!Next

LEMMA TurnPromised ==
  ASSUME Inv, NEW t \in Turns,
         \/ Post(t) \/ Refuse(t) \/ Handler(t) \/ Upstream(t) \/ Close(t) \/ Disturb(t) \/ Leave(t)
         \/ Release(t)
  PROVE  PromisedStep
<1>. USE DEF Step, End, BodyStep
<1>1. CASE \/ Post(t) \/ Refuse(t) \/ OpenSession(t) \/ DenySession(t) \/ InsertQuestion(t)
           \/ InsertFails(t) \/ Retrieve(t) \/ LoadHistory(t) \/ Upstream(t) \/ Leave(t) \/ Release(t)
  BY <1>1, QuietStutters DEF Post, Refuse, OpenSession, DenySession, InsertQuestion, InsertFails,
       Retrieve, LoadHistory, Upstream, StreamStarts, StartFails, UpstreamEnds, UpstreamFails,
       ParserPanics, Leave, Release, turnVars, Inv, TurnInv, Ends, Handling, Body, Asking, PromisedStep
<1>2. CASE \/ YieldStreamFailed(t) \/ PersistRefused(t) \/ YieldPersistFailed(t) \/ RetrieveFails(t)
           \/ LoseQuestion(t)
  BY <1>2, QuietStutters DEF YieldStreamFailed, PersistRefused, YieldPersistFailed, RetrieveFails,
       LoseQuestion, Inv, TurnInv, Ends, Handling, Asking, PromisedStep
<1>3. CASE CommitQuestion(t) \/ CommitError(t)
  <2>1. question[t] = "none" /\ answer[t] = "none" /\ told[t] = "nothing"
    BY <1>3 DEF CommitQuestion, CommitError, Inv, TurnInv, Handling, Asking
  <2>2. Promise!Ask(t)
    BY <1>3, <2>1, QuestionAsked DEF CommitQuestion, CommitError
  <2>. QED
    BY <2>2, Moves
<1>4. CASE Compensate(t) \/ CompensateFails(t)
  <2>1. answer[t] = "none" /\ answer' = answer /\ told' = told
    BY <1>4 DEF Compensate, CompensateFails, Inv, TurnInv
  <2>2. CASE question' = question
    BY <2>1, <2>2, QuietStutters DEF PromisedStep
  <2>3. CASE question[t] = "stored" /\ question' = [question EXCEPT ![t] = "withdrawn"]
    <3>1. Promise!Withdraw(t)
      BY <2>1, <2>3, QuestionWithdrawn
    <3>. QED
      BY <3>1, Moves
  <2>. QED
    BY <1>4, <2>2, <2>3 DEF Compensate, CompensateFails, Withdrawn
<1>5. CASE Persist(t) \/ PersistFails(t)
  <2>1. answer[t] = "none" /\ question' = question /\ told' = told
    BY <1>5 DEF Persist, PersistFails, Inv, TurnInv
  <2>2. CASE answer' = answer
    BY <2>1, <2>2, QuietStutters DEF PromisedStep
  <2>3. CASE row[chat[t]] = "live" /\ answer' = [answer EXCEPT ![t] = "stored"]
    <3>1. question[t] = "stored"
      BY <1>5, <2>3 DEF Persist, PersistFails, Inv, TurnInv, SessionInv
    <3>2. Promise!Answer(t)
      BY <2>1, <2>3, <3>1, AnswerMoves
    <3>. QED
      BY <3>2, Moves
  <2>. QED
    BY <1>5, <2>2, <2>3 DEF Persist, PersistFails
<1>6. CASE YieldDone(t)
  BY <1>6, DoneIsTold, Moves
<1>. QED
  BY <1>1, <1>2, <1>3, <1>4, <1>5, <1>6 DEF Handler, Close, Disturb

LEMMA SessionPromised ==
  ASSUME Inv, NEW s \in Sessions, SessionNext(s)
  PROVE  PromisedStep
<1>1. CASE CommitDelete(s)
  <2>1. {t \in Turns : chat[t] = s} \in SUBSET Turns
    OBVIOUS
  <2>. QED
    BY <1>1, <2>1, CommitDeleteErases, Moves
<1>2. CASE UNCHANGED turnVars
  BY <1>2, QuietStutters DEF turnVars, PromisedStep
<1>. QED
  BY <1>1, <1>2 DEF SessionNext, InsertSession, WriteTuples, WriteTuplesFails, CommitSession, ClearTuples,
       DeleteSession, LoseSession

LEMMA OthersPromised ==
  ASSUME Inv, UNCHANGED vars \/ Crash
  PROVE  PromisedStep
BY QuietStutters DEF Crash, vars, turnVars, PromisedStep

\* Whatever is interleaved, fails, leaves or crashes, the sessions and turns implement
\* Conversation: an answer is stored beside its question and before the client hears "done",
\* and a question taken back stays unanswered (chat.rs:640-652).
THEOREM ChatImplementsConversation == Spec => ImplementsConversation
<1>1. Init => Promise!Init
  BY DEF Init, Promise!Init, Stage, Done
<1>2. Inv /\ [Next]_vars => [Promise!Next]_(Promise!vars)
  BY TurnPromised, SessionPromised, OthersPromised DEF Next, PromisedStep
<1>. QED
  BY <1>1, <1>2, InvHolds, PTL DEF Spec, ImplementsConversation, Promise!Spec
===============================================================================
