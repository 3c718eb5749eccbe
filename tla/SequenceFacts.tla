----------------------------- MODULE SequenceFacts -----------------------------
(***************************************************************************)
(* What the proofs about several components need of sequences and of       *)
(* finite sets of numbers.  Facts about data only.                         *)
(***************************************************************************)
EXTENDS Integers, SequencesExt, SequenceTheorems, WellFoundedInduction, TLAPS

(* The last element of a sequence that is not empty.                       *)
LEMMA LastElement ==
  ASSUME NEW S, NEW s \in Seq(S), s # << >>
  PROVE  /\ Len(s) \in Nat /\ Len(s) >= 1 /\ Len(s) \in 1..Len(s)
         /\ Last(s) = s[Len(s)] /\ Last(s) \in S
  BY EmptySeq DEF Last

(* The elements of a sequence are those at its positions.                  *)
LEMMA ElementsOf ==
  ASSUME NEW S, NEW s \in Seq(S)
  PROVE  /\ Len(s) \in Nat
         /\ ToSet(s) = {s[i] : i \in 1..Len(s)}
         /\ ToSet(s) \subseteq S
  BY LenProperties, ElementOfSeq DEF ToSet

(* The lower part of a sequence.                                           *)
LEMMA Prefix ==
  ASSUME NEW S, NEW s \in Seq(S), NEW h \in 0..Len(s)
  PROVE  /\ SubSeq(s, 1, h) \in Seq(S) /\ Len(SubSeq(s, 1, h)) = h
         /\ \A i \in 1..h : SubSeq(s, 1, h)[i] = s[i]
  <1>1. Len(s) \in Nat /\ h \in Int /\ h <= Len(s) /\ 1 \in Int
    BY LenProperties
  <1>2. \A i \in 1..h : s[i] \in S
    BY <1>1, ElementOfSeq
  <1>3. /\ SubSeq(s, 1, h) \in Seq(S)
        /\ Len(SubSeq(s, 1, h)) = IF 1 <= h THEN h - 1 + 1 ELSE 0
    BY <1>1, <1>2, SubSeqProperties
  <1>4. \A i \in 1..(h - 1 + 1) : SubSeq(s, 1, h)[i] = s[1 + i - 1]
    BY <1>1, <1>2, SubSeqProperties
  <1>5. \A i \in 1..h : i \in 1..(h - 1 + 1) /\ 1 + i - 1 = i
    BY <1>1
  <1>. QED
    BY <1>1, <1>3, <1>4, <1>5

(* Any part of a sequence has elements of that sequence.                   *)
LEMMA PartOf ==
  ASSUME NEW S, NEW s \in Seq(S), NEW m \in Nat \ {0}, NEW n \in Int, n <= Len(s)
  PROVE  /\ SubSeq(s, m, n) \in Seq(S)
         /\ ToSet(SubSeq(s, m, n)) \subseteq ToSet(s)
  <1>1. Len(s) \in Nat /\ m \in Int
    BY LenProperties
  <1>2. \A i \in m..n : s[i] \in ToSet(s) /\ s[i] \in S
    BY <1>1, ElementsOf
  <1>3. SubSeq(s, m, n) \in Seq(ToSet(s)) /\ SubSeq(s, m, n) \in Seq(S)
    BY <1>1, <1>2, SubSeqProperties
  <1>. QED
    BY <1>3, ElementsOf

(* Two sequences put together.                                             *)
LEMMA PutTogether ==
  ASSUME NEW S, NEW s \in Seq(S), NEW t \in Seq(S)
  PROVE  /\ s \o t \in Seq(S) /\ Len(s \o t) = Len(s) + Len(t)
         /\ \A i \in 1..Len(s) : (s \o t)[i] = s[i]
         /\ ToSet(s \o t) \subseteq ToSet(s) \cup ToSet(t)
  <1>1. Len(s) \in Nat /\ Len(t) \in Nat
    BY LenProperties
  <1>2. \A i \in 1..Len(s) : i \in 1..Len(s) + Len(t) /\ i <= Len(s)
    BY <1>1
  <1>3. s \in Seq(ToSet(s) \cup ToSet(t)) /\ t \in Seq(ToSet(s) \cup ToSet(t))
    <2>1. /\ \A i \in 1..Len(s) : s[i] \in ToSet(s)
          /\ \A i \in 1..Len(t) : t[i] \in ToSet(t)
      BY ElementsOf
    <2>2. s = [i \in 1..Len(s) |-> s[i]] /\ t = [i \in 1..Len(t) |-> t[i]]
      BY LenProperties
    <2>. QED
      BY <1>1, <2>1, <2>2, SeqDef
  <1>4. s \o t \in Seq(ToSet(s) \cup ToSet(t))
    BY <1>3, ConcatProperties
  <1>. QED
    BY <1>2, <1>4, ConcatProperties, ElementsOf

(* A function on 1..n is a sequence of length n.                           *)
LEMMA SequenceOfFunction ==
  ASSUME NEW S, NEW n \in Nat, NEW f \in [1..n -> S]
  PROVE  f \in Seq(S) /\ Len(f) = n /\ DOMAIN f = 1..n
  BY SeqDef, LenProperties

(* The least element of a set of natural numbers.                          *)
LEMMA LeastOf ==
  ASSUME NEW S \in SUBSET Nat, S # {}
  PROVE  Min(S) \in S /\ \A x \in S : Min(S) <= x
  <1>. DEFINE R == OpToRel(<, Nat)
  <1>1. IsWellFoundedOn(R, Nat)
    BY NatLessThanWellFounded
  <1>2. \E x \in S : \A y \in S : <<y, x>> \notin R
    <2>. HIDE DEF R
    <2>. QED
      BY <1>1, WFMin
  <1>3. PICK x \in S : \A y \in S : <<y, x>> \notin R
    BY <1>2
  <1>4. ASSUME NEW y \in S
        PROVE  x <= y
    <2>1. x \in Nat /\ y \in Nat /\ <<y, x>> \in Nat \X Nat
      OBVIOUS
    <2>2. y < x => <<y, x>> \in R
      BY <2>1, Zenon DEF OpToRel
    <2>3. ~(y < x)
      BY <1>3, <2>2
    <2>. QED
      BY <2>1, <2>3
  <1>. QED
    BY <1>4 DEF Min

(* The greatest element of a bounded one.                                  *)
LEMMA GreatestOf ==
  ASSUME NEW n \in Nat, NEW S \in SUBSET (1..n), S # {}
  PROVE  Max(S) \in S /\ \A x \in S : x <= Max(S)
  <1>. DEFINE T == {n - x : x \in S}
  <1>1. T \in SUBSET Nat /\ T # {}
    <2>1. \A x \in S : n - x \in Nat
      <3>1. \A x \in 1..n : n - x \in Nat
        OBVIOUS
      <3>. QED
        BY <3>1
    <2>2. PICK x \in S : TRUE
      OBVIOUS
    <2>3. n - x \in T
      BY <2>2
    <2>. QED
      BY <2>1, <2>3
  <1>2. Min(T) \in T /\ \A t \in T : Min(T) <= t
    <2>. HIDE DEF T
    <2>. QED
      BY <1>1, LeastOf
  <1>3. PICK m \in S : Min(T) = n - m
    BY <1>2
  <1>4. \A x \in S : m >= x
    <2>1. ASSUME NEW x \in S
          PROVE  m >= x
      <3>1. n - m <= n - x
        BY <1>2, <1>3
      <3>. QED
        BY <3>1
    <2>. QED
      BY <2>1
  <1>. QED
    BY <1>4 DEF Max

(* A sequence without the element at position i.                           *)
LEMMA RemovedAt ==
  ASSUME NEW S, NEW s \in Seq(S), NEW i \in 1..Len(s)
  PROVE  /\ RemoveAt(s, i) \in Seq(S) /\ Len(RemoveAt(s, i)) = Len(s) - 1
         /\ \A k \in 1..i - 1 : RemoveAt(s, i)[k] = s[k]
         /\ \A k \in i..Len(s) - 1 : RemoveAt(s, i)[k] = s[k + 1]
  <1>. DEFINE n == Len(s)
              a == SubSeq(s, 1, i - 1)
              b == SubSeq(s, i + 1, n)
  <1>1. n \in Nat /\ i - 1 \in 0..n /\ \A k \in 1..n : s[k] \in S
    BY LenProperties, ElementOfSeq
  <1>2. a \in Seq(S) /\ Len(a) = i - 1 /\ \A k \in 1..i - 1 : a[k] = s[k]
    BY <1>1, Prefix
  <1>3. b \in Seq(S) /\ Len(b) = n - i /\ \A k \in 1..n - i : b[k] = s[i + k]
    <2>1. PICK m \in Int, q \in Int : m = i + 1 /\ q = n
      BY <1>1
    <2>2. \A k \in m..q : s[k] \in S
      <3>1. \A k \in m..q : k \in 1..n
        BY <1>1, <2>1
      <3>. QED
        BY <1>1, <3>1
    <2>3. LET r == SubSeq(s, m, q)
          IN /\ r \in Seq(S)
             /\ Len(r) = IF m <= q THEN q - m + 1 ELSE 0
             /\ \A k \in 1..q - m + 1 : r[k] = s[m + k - 1]
      BY <2>2, SubSeqProperties
    <2>4. /\ b \in Seq(S)
          /\ Len(b) = IF i + 1 <= n THEN n - (i + 1) + 1 ELSE 0
          /\ \A k \in 1..n - (i + 1) + 1 : b[k] = s[i + 1 + k - 1]
      BY <2>1, <2>3
    <2>5. /\ n - (i + 1) + 1 = n - i
          /\ \A k \in 1..n - i : i + 1 + k - 1 = i + k
      BY <1>1
    <2>6. i \in 1..n
      OBVIOUS
    <2>. HIDE DEF b, n
    <2>7. Len(b) = n - i
      BY <1>1, <2>4, <2>6
    <2>8. ASSUME NEW k \in 1..n - i
          PROVE  b[k] = s[i + k]
      <3>1. k \in 1..n - (i + 1) + 1 /\ i + 1 + k - 1 = i + k
        BY <2>5
      <3>2. b[k] = s[i + 1 + k - 1]
        BY <2>4, <3>1
      <3>. QED
        BY <3>1, <3>2
    <2>. QED
      BY <2>4, <2>7, <2>8
  <1>. HIDE DEF a, b
  <1>4. a \o b \in Seq(S) /\ Len(a \o b) = n - 1
    <2>1. a \o b \in Seq(S) /\ Len(a \o b) = Len(a) + Len(b)
      BY <1>2, <1>3, ConcatProperties
    <2>2. (i - 1) + (n - i) = n - 1
      BY <1>1
    <2>. QED
      BY <1>2, <1>3, <2>1, <2>2
  <1>5. \A k \in 1..n - 1 : (a \o b)[k] = IF k <= i - 1 THEN a[k] ELSE b[k - (i - 1)]
    BY <1>1, <1>2, <1>3, ConcatProperties
  <1>6. \A k \in i..n - 1 : k - (i - 1) \in 1..n - i /\ i + (k - (i - 1)) = k + 1
    BY <1>1
  <1>7. \A k \in 1..i - 1 : k \in 1..n - 1 /\ k <= i - 1
    BY <1>1
  <1>8. \A k \in i..n - 1 : k \in 1..n - 1 /\ ~(k <= i - 1)
    BY <1>1
  <1>9. \A k \in 1..i - 1 : (a \o b)[k] = s[k]
    BY <1>2, <1>5, <1>7
  <1>10. \A k \in i..n - 1 : (a \o b)[k] = s[k + 1]
    BY <1>3, <1>5, <1>6, <1>8
  <1>11. RemoveAt(s, i) = a \o b
    BY DEF RemoveAt, a, b
  <1>. QED
    BY <1>4, <1>9, <1>10, <1>11

(* A sequence without the first e in it.                                   *)
LEMMA FirstRemoved ==
  ASSUME NEW S, NEW s \in Seq(S), NEW e
  PROVE  \/ ~Contains(s, e) /\ RemoveFirst(s, e) = s
         \/ \E i \in 1..Len(s) : s[i] = e /\ RemoveFirst(s, e) = RemoveAt(s, i)
  <1>. DEFINE I == {i \in 1..Len(s) : s[i] = e}
  <1>1. CASE I = {}
    BY <1>1 DEF Contains, RemoveFirst
  <1>2. CASE I # {}
    <2>1. I \in SUBSET Nat
      OBVIOUS
    <2>2. Min(I) \in I
      <3>. HIDE DEF I
      <3>. QED
        BY <1>2, <2>1, LeastOf
    <2>3. RemoveFirst(s, e) = RemoveAt(s, Min(I))
      BY <1>2 DEF RemoveFirst, SelectInSeq
    <2>. QED
      BY <2>2, <2>3
  <1>. QED
    BY <1>1, <1>2

(* What is left of a sequence after position i.                            *)
LEMMA RestOf ==
  ASSUME NEW S, NEW s \in Seq(S), NEW i \in Nat
  PROVE  LET r == SubSeq(s, i + 1, Len(s)) IN
         /\ r \in Seq(S) /\ Len(r) \in Nat
         /\ i >= Len(s) => r = << >> /\ Len(r) = 0
         /\ i < Len(s) => Len(r) = Len(s) - i
         /\ \A k \in 1..Len(r) : r[k] = s[i + k] /\ i + k \in 1..Len(s)
  <1>. DEFINE n == Len(s)
              r == SubSeq(s, i + 1, n)
  <1>1. n \in Nat /\ \A k \in 1..n : s[k] \in S
    BY LenProperties, ElementOfSeq
  <1>2. \A k \in i + 1..n : s[k] \in S
    BY <1>1
  <1>3. /\ r \in Seq(S)
        /\ Len(r) = IF i + 1 <= n THEN n - (i + 1) + 1 ELSE 0
        /\ \A k \in 1..n - (i + 1) + 1 : r[k] = s[i + 1 + k - 1]
    BY <1>1, <1>2, SubSeqProperties
  <1>4. n - (i + 1) + 1 = n - i /\ \A k \in 1..n - i : i + 1 + k - 1 = i + k
    BY <1>1
  <1>5. CASE i >= n
    <2>1. Len(r) = 0 /\ 1..Len(r) = {}
      BY <1>1, <1>3, <1>5
    <2>2. r \in Seq(S)
      BY <1>3
    <2>3. r = << >>
      <3>. HIDE DEF r
      <3>. QED
        BY <2>1, <2>2, EmptySeq
    <2>. QED
      BY <1>1, <1>5, <2>1, <2>2, <2>3
  <1>6. CASE i < n
    <2>1. Len(r) = n - i
      <3>1. i + 1 <= n /\ n - (i + 1) + 1 = n - i
        BY <1>1, <1>6
      <3>. QED
        BY <1>3, <3>1
    <2>2. \A k \in 1..n - i : i + k \in 1..n
      BY <1>1
    <2>3. \A k \in 1..n - i : r[k] = s[i + k]
      BY <1>3, <1>4
    <2>4. n - i \in Nat
      BY <1>1, <1>6
    <2>5. \A k \in 1..Len(r) : r[k] = s[i + k] /\ i + k \in 1..n
      BY <2>1, <2>2, <2>3
    <2>. QED
      BY <1>1, <1>3, <1>6, <2>1, <2>4, <2>5
  <1>. QED
    BY <1>1, <1>5, <1>6
=============================================================================
