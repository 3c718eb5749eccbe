----------------------------- MODULE ForeachProofs -----------------------------
(***************************************************************************)
(* Proofs about Foreach, for programs that call remove() only in the loop  *)
(* whose element they mean (~AfterBreak): every loop finds its operands on *)
(* the stack, remove() takes the element that was visited last, and every  *)
(* element is visited once.                                                *)
(***************************************************************************)
EXTENDS Foreach, SequenceFacts, TLAPS

-----------------------------------------------------------------------------
(* Types.                                                                  *)
Item == [kind : {"object", "iterator", "operand"},
         of : Collections \cup {None}, n : Int]

Loop == [over : Collections, at : Nat, seen : Seq(Elements),
         orig : Seq(Elements), clean : BOOLEAN]

Activity == [source : Collections \cup {None},
             index : Nat \cup Elements \cup {None}, offset : Int]

Activation == [active : Activity, array : Arrays \cup {None},
               seen_version : Nat, invalidated : BOOLEAN, base : Nat,
               atNext : BOOLEAN, left : BOOLEAN, loops : Seq(Loop)]

TypeOK ==
  /\ content \in [Collections -> Seq(Elements)]
  /\ nulls \in [Hashes -> SUBSET Elements]
  /\ version \in [Arrays -> Nat]
  /\ frames \in Seq(Activation) /\ frames # << >>
  /\ stack \in Seq(Item)
  /\ changes \in Nat

Distinct ==
  \A c \in Collections : \A i, j \in 1..Len(content[c]) :
    i # j => content[c][i] # content[c][j]

(* The loops of a frame, and the frames, have places of their own on the   *)
(* stack; only the running frame is about to advance, and then there is    *)
(* nothing above the iterator.                                             *)
LoopsPlaced ==
  \A g \in 1..Len(frames) :
    /\ frames[g].base <= Len(stack)
    /\ \A d \in 1..Len(frames[g].loops) :
         /\ frames[g].base + 2 <= frames[g].loops[d].at
         /\ frames[g].loops[d].at <= Len(stack)
         /\ \A e \in 1..Len(frames[g].loops) :
              d < e => frames[g].loops[d].at + 2 <= frames[g].loops[e].at

FramesPlaced ==
  \A g, k \in 1..Len(frames) : g < k =>
    /\ frames[g].base < frames[k].base
    /\ \A d \in 1..Len(frames[g].loops) : frames[g].loops[d].at < frames[k].base

OnlyTopAdvances ==
  \A g \in 1..Len(frames) : frames[g].atNext =>
    /\ g = Len(frames)
    /\ frames[g].loops # << >>
    /\ Innermost(frames[g]).at = Len(stack)

Placed == LoopsPlaced /\ FramesPlaced /\ OnlyTopAdvances

OperandsWhole ==
  \A p \in 1..Len(stack) : stack[p].kind = "operand" => stack[p].n = 0

(* What a loop finds on the stack.                                         *)
LoopWhole(g, d) ==
  LET l == frames[g].loops[d] IN
  /\ stack[l.at - 1] = Object(l.over)
  /\ stack[l.at].kind = "iterator" /\ stack[l.at].n >= 0

(* The frame says of its active loop what remove() relies on: where it is  *)
(* and which element was the last.                                         *)
AtElement(f, l) ==
  IF l.over \in Arrays
  THEN /\ f.active.index \in Nat /\ f.active.index + 1 = stack[l.at].n
       /\ f.array = l.over
       /\ l.clean => /\ f.active.index + 1 <= Len(content[l.over])
                     /\ content[l.over][f.active.index + 1] = Last(l.seen)
  ELSE l.clean =>
         /\ f.active.index = Last(l.seen)
         /\ \E p \in 1..Len(content[l.over]) :
              /\ content[l.over][p] = f.active.index
              /\ p = stack[l.at].n \/ stack[l.at].n > Len(content[l.over])

ActingAt(g) ==
  LET f == frames[g]
      l == Innermost(f)
  IN f.active # Idle /\ ~f.left /\ ~f.atNext =>
       /\ f.loops # << >>
       /\ f.active.source = l.over /\ f.active.offset = l.at
       /\ stack[l.at].n >= 1
       /\ l.clean => l.seen # << >>
       /\ AtElement(f, l)

(* The version a frame compares with is that of the array, for each of its *)
(* loops over that array that nobody disturbed.                            *)
VersionAt(g, d) ==
  LET f == frames[g]
      l == f.loops[d]
  IN l.clean /\ l.over = f.array /\ stack[l.at].n > 0 =>
       f.seen_version = version[l.over] /\ ~f.invalidated

(* EachElementOnce, of one loop.                                           *)
OnceAt(g, d) ==
  LET l == frames[g].loops[d]
      i == stack[l.at].n
      left == SubSeq(content[l.over], i + 1, Len(content[l.over]))
  IN l.clean => SameElements(l.over, l.seen \o left, l.orig)

Sound(g) ==
  /\ ActingAt(g)
  /\ \A d \in 1..Len(frames[g].loops) : LoopWhole(g, d) /\ VersionAt(g, d) /\ OnceAt(g, d)

(* The inductive invariant.                                                *)
Kept ==
  /\ TypeOK /\ Distinct /\ Placed /\ OperandsWhole
  /\ \A g \in 1..Len(frames) : Sound(g)

-----------------------------------------------------------------------------
(* Which elements a sequence has, and in which order.                      *)

(* x is in k after position p; x and later y are.                          *)
Ahead(k, p, x) == \E q \in 1..Len(k) : p < q /\ k[q] = x
BothAhead(k, p, x, y) ==
  \E q, u \in 1..Len(k) : p < q /\ q < u /\ k[q] = x /\ k[u] = y

(* s is a, then the elements of k after position i.                        *)
SplitOf(a, k, i, s) ==
  /\ \A p \in 1..Len(a) : s[p] = a[p] /\ p \in 1..Len(s)
  /\ \A q \in 1..Len(k) : i < q =>
       Len(a) + (q - i) \in 1..Len(s) /\ s[Len(a) + (q - i)] = k[q]
  /\ \A p \in 1..Len(s) :
       \/ p \in 1..Len(a) /\ s[p] = a[p]
       \/ /\ i < p - Len(a) + i /\ p - Len(a) + i \in 1..Len(k)
          /\ s[p] = k[p - Len(a) + i]

(* The elements visited, then those from position i + 1 on.                *)
LEMMA ElementsOfSplit ==
  ASSUME NEW a \in Seq(Elements), NEW k \in Seq(Elements), NEW i \in Nat
  PROVE  LET s == a \o SubSeq(k, i + 1, Len(k))
         IN s \in Seq(Elements) /\ SplitOf(a, k, i, s)
  <1>. DEFINE r == SubSeq(k, i + 1, Len(k))
              s == a \o r
              m == Len(a)
              n == Len(r)
  <1>1. /\ r \in Seq(Elements) /\ n \in Nat
        /\ i >= Len(k) => n = 0
        /\ i < Len(k) => n = Len(k) - i
        /\ \A j \in 1..n : r[j] = k[i + j] /\ i + j \in 1..Len(k)
    BY RestOf
  <1>2. m \in Nat /\ Len(k) \in Nat
    BY LenProperties
  <1>. HIDE DEF r
  <1>3. s \in Seq(Elements) /\ Len(s) = m + n
    BY <1>1, ConcatProperties
  <1>4. \A j \in 1..m + n : s[j] = IF j <= m THEN a[j] ELSE r[j - m]
    BY <1>1, ConcatProperties
  <1>. HIDE DEF s, m, n
  <1>5. \A p \in 1..m : s[p] = a[p] /\ p \in 1..m + n
    BY <1>1, <1>2, <1>4
  <1>6. ASSUME NEW q \in 1..Len(k), i < q
        PROVE  q - i \in 1..n /\ m + (q - i) \in 1..m + n /\ s[m + (q - i)] = k[q]
    <2>1. q - i \in 1..n /\ i + (q - i) = q
      BY <1>1, <1>2, <1>6
    <2>2. /\ m + (q - i) \in 1..m + n /\ ~(m + (q - i) <= m)
          /\ (m + (q - i)) - m = q - i
      BY <1>1, <1>2, <2>1
    <2>3. r[q - i] = k[q]
      BY <1>1, <2>1
    <2>4. s[m + (q - i)] = r[(m + (q - i)) - m]
      BY <1>4, <2>2
    <2>. QED
      BY <2>1, <2>2, <2>3, <2>4
  <1>7. ASSUME NEW p \in 1..m + n
        PROVE  \/ p \in 1..m /\ s[p] = a[p]
               \/ /\ m < p /\ i < p - m + i /\ p - m + i \in 1..Len(k)
                  /\ s[p] = k[p - m + i]
    <2>1. CASE p <= m
      BY <1>2, <1>4, <2>1
    <2>2. CASE ~(p <= m)
      <3>1. m < p /\ p - m \in 1..n /\ i < p - m + i /\ i + (p - m) = p - m + i
        BY <1>1, <1>2, <2>2
      <3>2. s[p] = r[p - m]
        BY <1>4, <2>2
      <3>3. r[p - m] = k[i + (p - m)] /\ i + (p - m) \in 1..Len(k)
        BY <1>1, <3>1
      <3>. QED
        BY <3>1, <3>2, <3>3
    <2>. QED
      BY <2>1, <2>2
  <1>8. Len(s) = m + n /\ s \in Seq(Elements)
    BY <1>1, <1>3
  <1>. HIDE DEF r, s, n
  <1>9. SplitOf(a, k, i, s)
    BY <1>5, <1>6, <1>7, <1>8 DEF SplitOf, m
  <1>. QED
    BY <1>8, <1>9 DEF r, s

(* An element of the two together is visited or to come.                   *)
LEMMA ContainsSplit ==
  ASSUME NEW a \in Seq(Elements), NEW k \in Seq(Elements), NEW i \in Nat, NEW x
  PROVE  Contains(a \o SubSeq(k, i + 1, Len(k)), x)
         <=> Contains(a, x) \/ Ahead(k, i, x)
  <1>. DEFINE r == SubSeq(k, i + 1, Len(k))
              s == a \o r
  <1>0. Len(a) \in Nat /\ Len(k) \in Nat
    BY LenProperties
  <1>1. /\ \A p \in 1..Len(a) : s[p] = a[p] /\ p \in 1..Len(s)
        /\ \A q \in 1..Len(k) : i < q =>
             Len(a) + (q - i) \in 1..Len(s) /\ s[Len(a) + (q - i)] = k[q]
        /\ \A p \in 1..Len(s) :
             \/ p \in 1..Len(a) /\ s[p] = a[p]
             \/ /\ i < p - Len(a) + i /\ p - Len(a) + i \in 1..Len(k)
                /\ s[p] = k[p - Len(a) + i]
    <2>1. SplitOf(a, k, i, s)
      BY ElementsOfSplit
    <2>. HIDE DEF s
    <2>. QED
      BY <2>1 DEF SplitOf
  <1>. HIDE DEF s
  <1>2. ASSUME Contains(s, x)
        PROVE  Contains(a, x) \/ \E q \in 1..Len(k) : i < q /\ k[q] = x
    <2>1. PICK p \in 1..Len(s) : s[p] = x
      BY <1>2 DEF Contains
    <2>2. CASE p \in 1..Len(a) /\ s[p] = a[p]
      BY <2>1, <2>2 DEF Contains
    <2>3. CASE \E q \in 1..Len(k) : i < q /\ s[p] = k[q]
      BY <2>1, <2>3
    <2>. QED
      BY <1>1, <2>2, <2>3
  <1>3. ASSUME Contains(a, x)
        PROVE  Contains(s, x)
    <2>1. PICK p \in 1..Len(a) : a[p] = x
      BY <1>3 DEF Contains
    <2>2. p \in 1..Len(s) /\ s[p] = x
      BY <1>1, <2>1
    <2>. QED
      BY <2>2 DEF Contains
  <1>4. ASSUME NEW q \in 1..Len(k), i < q, k[q] = x
        PROVE  Contains(s, x)
    BY <1>0, <1>1, <1>4 DEF Contains
  <1>. QED
    BY <1>2, <1>3, <1>4 DEF s, Ahead

(* One element of the two together precedes another.                       *)
LEMMA PrecedesSplit ==
  ASSUME NEW a \in Seq(Elements), NEW k \in Seq(Elements), NEW i \in Nat, NEW x, NEW y
  PROVE  Precedes(a \o SubSeq(k, i + 1, Len(k)), x, y)
         <=> \/ Precedes(a, x, y)
             \/ Contains(a, x) /\ Ahead(k, i, y)
             \/ BothAhead(k, i, x, y)
  <1>. DEFINE r == SubSeq(k, i + 1, Len(k))
              s == a \o r
              m == Len(a)
  <1>0. m \in Nat /\ Len(k) \in Nat
    BY LenProperties
  <1>1. /\ \A p \in 1..m : s[p] = a[p] /\ p \in 1..Len(s)
        /\ \A q \in 1..Len(k) : i < q =>
             m + (q - i) \in 1..Len(s) /\ s[m + (q - i)] = k[q]
        /\ \A p \in 1..Len(s) :
             \/ p \in 1..m /\ s[p] = a[p]
             \/ /\ i < p - m + i /\ p - m + i \in 1..Len(k)
                /\ s[p] = k[p - m + i]
    <2>1. SplitOf(a, k, i, s)
      BY ElementsOfSplit
    <2>. HIDE DEF s
    <2>. QED
      BY <2>1 DEF SplitOf
  <1>2. DOMAIN s = 1..Len(s) /\ DOMAIN a = 1..m /\ Len(s) \in Nat
    <2>1. s \in Seq(Elements)
      BY ElementsOfSplit
    <2>. QED
      BY <2>1, LenProperties
  <1>. HIDE DEF s, m
  <1>3. ASSUME Precedes(s, x, y)
        PROVE  \/ Precedes(a, x, y)
               \/ Contains(a, x) /\ \E q \in 1..Len(k) : i < q /\ k[q] = y
               \/ \E q, u \in 1..Len(k) : i < q /\ q < u /\ k[q] = x /\ k[u] = y
    <2>1. PICK p, o \in 1..Len(s) : p < o /\ s[p] = x /\ s[o] = y
      BY <1>2, <1>3 DEF Precedes
    <2>2. CASE p \in 1..m /\ o \in 1..m
      BY <1>0, <1>1, <1>2, <2>1, <2>2 DEF Precedes
    <2>3. CASE p \in 1..m /\ o \notin 1..m
      <3>1. Contains(a, x)
        BY <1>0, <1>1, <2>1, <2>3 DEF Contains, m
      <3>2. o - m + i \in 1..Len(k) /\ i < o - m + i /\ k[o - m + i] = y
        BY <1>0, <1>1, <2>1, <2>3
      <3>. QED
        BY <3>1, <3>2
    <2>4. CASE p \notin 1..m
      <3>1. o \notin 1..m
        BY <1>0, <1>1, <1>2, <2>1, <2>4
      <3>2. /\ o - m + i \in 1..Len(k) /\ k[o - m + i] = y
            /\ p - m + i \in 1..Len(k) /\ i < p - m + i /\ k[p - m + i] = x
        BY <1>0, <1>1, <2>1, <2>4, <3>1
      <3>3. p - m + i < o - m + i
        BY <1>0, <1>1, <2>1
      <3>. QED
        BY <3>2, <3>3
    <2>. QED
      BY <2>2, <2>3, <2>4
  <1>4. ASSUME Precedes(a, x, y)
        PROVE  Precedes(s, x, y)
    BY <1>0, <1>1, <1>2, <1>4 DEF Precedes
  <1>5. ASSUME Contains(a, x), NEW q \in 1..Len(k), i < q, k[q] = y
        PROVE  Precedes(s, x, y)
    <2>1. PICK p \in 1..m : a[p] = x
      BY <1>5 DEF Contains, m
    <2>2. p < m + (q - i)
      BY <1>0, <1>1, <1>5
    <2>. QED
      BY <1>0, <1>1, <1>2, <1>5, <2>1, <2>2 DEF Precedes
  <1>6. ASSUME NEW q \in 1..Len(k), NEW u \in 1..Len(k), i < q, q < u, k[q] = x, k[u] = y
        PROVE  Precedes(s, x, y)
    <2>1. i < u /\ m + (q - i) < m + (u - i)
      BY <1>0, <1>1, <1>6
    <2>2. /\ m + (q - i) \in 1..Len(s) /\ s[m + (q - i)] = x
          /\ m + (u - i) \in 1..Len(s) /\ s[m + (u - i)] = y
      BY <1>0, <1>1, <1>6, <2>1
    <2>. QED
      BY <1>2, <2>1, <2>2 DEF Precedes
  <1>. QED
    BY <1>3, <1>4, <1>5, <1>6 DEF s, Ahead, BothAhead

(* One more element is visited.                                            *)
LEMMA OneMore ==
  ASSUME NEW a \in Seq(Elements), NEW e \in Elements, NEW x, NEW y
  PROVE  /\ Append(a, e) \in Seq(Elements) /\ Append(a, e) # << >>
         /\ Last(Append(a, e)) = e
         /\ Contains(Append(a, e), x) <=> Contains(a, x) \/ x = e
         /\ Precedes(Append(a, e), x, y) <=> Precedes(a, x, y) \/ (Contains(a, x) /\ y = e)
  <1>. DEFINE b == Append(a, e)
              m == Len(a)
  <1>1. /\ b \in Seq(Elements) /\ b # << >> /\ Len(b) = m + 1 /\ m \in Nat
        /\ \A j \in 1..m : b[j] = a[j]
        /\ b[m + 1] = e
    BY AppendProperties, LenProperties
  <1>2. DOMAIN b = 1..m + 1 /\ DOMAIN a = 1..m
    BY <1>1, LenProperties
  <1>. HIDE DEF b, m
  <1>3. \A j \in 1..m + 1 : j \in 1..m \/ j = m + 1
    BY <1>1
  <1>4. \A j \in 1..m : j \in 1..m + 1 /\ j < m + 1
    BY <1>1
  <1>5. m + 1 \in 1..m + 1 /\ \A j \in 1..m + 1 : ~(m + 1 < j)
    BY <1>1
  <1>6. Contains(b, x) <=> Contains(a, x) \/ x = e
    <2>1. Contains(b, x) <=> \E j \in 1..m + 1 : b[j] = x
      BY <1>1 DEF Contains
    <2>2. Contains(a, x) <=> \E j \in 1..m : a[j] = x
      BY DEF Contains, m
    <2>. QED
      BY <1>1, <1>3, <1>4, <1>5, <2>1, <2>2
  <1>7. Precedes(b, x, y) => Precedes(a, x, y) \/ (Contains(a, x) /\ y = e)
    <2>1. SUFFICES ASSUME NEW i \in 1..m + 1, NEW j \in 1..m + 1, i < j, b[i] = x, b[j] = y
                   PROVE  Precedes(a, x, y) \/ (Contains(a, x) /\ y = e)
      BY <1>2 DEF Precedes
    <2>2. i \in 1..m /\ a[i] = x
      BY <1>1, <1>3, <1>5, <2>1
    <2>3. Contains(a, x)
      BY <2>2 DEF Contains, m
    <2>4. CASE j = m + 1
      BY <1>1, <2>1, <2>3, <2>4
    <2>5. CASE j \in 1..m
      BY <1>1, <1>2, <2>1, <2>2, <2>5 DEF Precedes
    <2>. QED
      BY <1>3, <2>4, <2>5
  <1>8. Precedes(a, x, y) => Precedes(b, x, y)
    BY <1>1, <1>2, <1>4 DEF Precedes
  <1>9. Contains(a, x) /\ y = e => Precedes(b, x, y)
    <2>1. SUFFICES ASSUME NEW i \in 1..m, a[i] = x, y = e
                   PROVE  Precedes(b, x, y)
      BY DEF Contains, m
    <2>. QED
      BY <1>1, <1>2, <1>4, <1>5, <2>1 DEF Precedes
  <1>10. Last(b) = b[Len(b)]
    BY DEF Last
  <1>. QED
    BY <1>1, <1>6, <1>7, <1>8, <1>9, <1>10 DEF b

(* The elements visited with e as the last, then those after position o.   *)
LEMMA AfterVisit ==
  ASSUME NEW a \in Seq(Elements), NEW k \in Seq(Elements), NEW e \in Elements,
         NEW o \in Nat, NEW x, NEW y
  PROVE  /\ Contains(Append(a, e) \o SubSeq(k, o + 1, Len(k)), x)
            <=> Contains(a, x) \/ x = e \/ Ahead(k, o, x)
         /\ Precedes(Append(a, e) \o SubSeq(k, o + 1, Len(k)), x, y)
            <=> \/ Precedes(a, x, y)
                \/ Contains(a, x) /\ y = e
                \/ (Contains(a, x) \/ x = e) /\ Ahead(k, o, y)
                \/ BothAhead(k, o, x, y)
  <1>. DEFINE b == Append(a, e)
  <1>1. /\ b \in Seq(Elements)
        /\ Contains(b, x) <=> Contains(a, x) \/ x = e
        /\ Precedes(b, x, y) <=> Precedes(a, x, y) \/ (Contains(a, x) /\ y = e)
    BY OneMore
  <1>. HIDE DEF b
  <1>2. Contains(b \o SubSeq(k, o + 1, Len(k)), x)
        <=> Contains(b, x) \/ Ahead(k, o, x)
    BY <1>1, ContainsSplit
  <1>3. Precedes(b \o SubSeq(k, o + 1, Len(k)), x, y)
        <=> \/ Precedes(b, x, y)
            \/ Contains(b, x) /\ Ahead(k, o, y)
            \/ BothAhead(k, o, x, y)
    BY <1>1, PrecedesSplit
  <1>. QED
    BY <1>1, <1>2, <1>3, Zenon DEF b

(* What is still to come before and after the iterator goes from i to o.   *)
LEMMA StillToCome ==
  ASSUME NEW k \in Seq(Elements), NEW i \in Nat, NEW o \in Nat, NEW e \in Elements, NEW z, i < o,
         \A q \in 1..Len(k) : i < q /\ q < o => k[q] # z,
         \/ o \in 1..Len(k) /\ k[o] = e
         \/ o > Len(k) /\ e # z
  PROVE  Ahead(k, i, z) <=> Ahead(k, o, z) \/ z = e
  <1>0. Len(k) \in Nat
    BY LenProperties
  <1>1. ASSUME NEW q \in 1..Len(k), i < q, k[q] = z
        PROVE  Ahead(k, o, z) \/ z = e
    <2>1. q = o \/ o < q
      BY <1>0, <1>1
    <2>2. CASE q = o
      BY <1>0, <1>1, <2>2
    <2>. QED
      BY <1>1, <2>1, <2>2 DEF Ahead
  <1>2. ASSUME NEW q \in 1..Len(k), o < q
        PROVE  i < q
    BY <1>0, <1>2
  <1>3. ASSUME z = e
        PROVE  Ahead(k, i, z)
    BY <1>0, <1>3 DEF Ahead
  <1>. QED
    BY <1>1, <1>2, <1>3 DEF Ahead

(* A visit of e that takes the iterator from i to o: the elements that     *)
(* count are the same, in the same order, when those passed over do not.   *)
LEMMA VisitKeepsOrder ==
  ASSUME NEW a \in Seq(Elements), NEW k \in Seq(Elements), NEW i \in Nat, NEW o \in Nat,
         NEW e \in Elements, NEW x, NEW y
  PROVE  /\ i < o
         /\ \A q \in 1..Len(k) : i < q /\ q < o => k[q] # x /\ k[q] # y
         /\ \/ o \in 1..Len(k) /\ k[o] = e
            \/ o > Len(k) /\ e # x /\ e # y
         =>
         /\ Contains(Append(a, e) \o SubSeq(k, o + 1, Len(k)), x)
            <=> Contains(a \o SubSeq(k, i + 1, Len(k)), x)
         /\ Precedes(Append(a, e) \o SubSeq(k, o + 1, Len(k)), x, y)
            <=> Precedes(a \o SubSeq(k, i + 1, Len(k)), x, y)
  <1>1. /\ Contains(a \o SubSeq(k, i + 1, Len(k)), x) <=> Contains(a, x) \/ Ahead(k, i, x)
        /\ Precedes(a \o SubSeq(k, i + 1, Len(k)), x, y)
           <=> Precedes(a, x, y) \/ (Contains(a, x) /\ Ahead(k, i, y)) \/ BothAhead(k, i, x, y)
    BY ContainsSplit, PrecedesSplit
  <1>2. Contains(Append(a, e) \o SubSeq(k, o + 1, Len(k)), x)
        <=> Contains(a, x) \/ x = e \/ Ahead(k, o, x)
    BY AfterVisit
  <1>3. Precedes(Append(a, e) \o SubSeq(k, o + 1, Len(k)), x, y)
        <=> \/ Precedes(a, x, y)
            \/ Contains(a, x) /\ y = e
            \/ (Contains(a, x) \/ x = e) /\ Ahead(k, o, y)
            \/ BothAhead(k, o, x, y)
    BY AfterVisit
  <1>4. SUFFICES ASSUME i < o,
                        \A q \in 1..Len(k) : i < q /\ q < o => k[q] # x /\ k[q] # y,
                        \/ o \in 1..Len(k) /\ k[o] = e
                        \/ o > Len(k) /\ e # x /\ e # y
                 PROVE  /\ Contains(Append(a, e) \o SubSeq(k, o + 1, Len(k)), x)
                           <=> Contains(a \o SubSeq(k, i + 1, Len(k)), x)
                        /\ Precedes(Append(a, e) \o SubSeq(k, o + 1, Len(k)), x, y)
                           <=> Precedes(a \o SubSeq(k, i + 1, Len(k)), x, y)
    OBVIOUS
  <1>0. Len(k) \in Nat
    BY LenProperties
  <1>5. /\ Ahead(k, i, x) <=> Ahead(k, o, x) \/ x = e
        /\ Ahead(k, i, y) <=> Ahead(k, o, y) \/ y = e
    <2>1. Ahead(k, i, x) <=> Ahead(k, o, x) \/ x = e
      <3>1. \A q \in 1..Len(k) : i < q /\ q < o => k[q] # x
        BY <1>4
      <3>2. \/ o \in 1..Len(k) /\ k[o] = e
            \/ o > Len(k) /\ e # x
        BY <1>4
      <3>. QED
        BY <1>4, <3>1, <3>2, StillToCome
    <2>2. Ahead(k, i, y) <=> Ahead(k, o, y) \/ y = e
      <3>1. \A q \in 1..Len(k) : i < q /\ q < o => k[q] # y
        BY <1>4
      <3>2. \/ o \in 1..Len(k) /\ k[o] = e
            \/ o > Len(k) /\ e # y
        BY <1>4
      <3>. QED
        BY <1>4, <3>1, <3>2, StillToCome
    <2>. QED
      BY <2>1, <2>2
  <1>6. BothAhead(k, i, x, y) <=> BothAhead(k, o, x, y) \/ (x = e /\ Ahead(k, o, y))
    <2>1. ASSUME NEW q \in 1..Len(k), NEW u \in 1..Len(k), i < q, q < u, k[q] = x, k[u] = y
          PROVE  BothAhead(k, o, x, y) \/ (x = e /\ Ahead(k, o, y))
      <3>1. ~(q < o)
        BY <1>4, <2>1
      <3>2. q = o \/ o < q
        BY <1>0, <3>1
      <3>3. CASE q = o
        BY <1>0, <1>4, <2>1, <3>3 DEF Ahead, BothAhead
      <3>. QED
        BY <2>1, <3>2, <3>3 DEF BothAhead
    <2>2. ASSUME BothAhead(k, o, x, y)
          PROVE  BothAhead(k, i, x, y)
      BY <1>0, <1>4, <2>2 DEF BothAhead
    <2>3. ASSUME x = e, Ahead(k, o, y)
          PROVE  BothAhead(k, i, x, y)
      BY <1>0, <1>4, <2>3 DEF Ahead, BothAhead
    <2>. QED
      BY <2>1, <2>2, <2>3 DEF BothAhead
  <1>. QED
    BY <1>1, <1>2, <1>3, <1>5, <1>6

(* A removal of the element a loop is at, with the iterator moved back, or *)
(* beyond the end anyway, leaves what is still to come.                    *)
LEMMA RestAfterRemoval ==
  ASSUME NEW k \in Seq(Elements), NEW p \in 1..Len(k), NEW n \in Nat,
         p = n \/ n > Len(k)
  PROVE  SubSeq(RemoveAt(k, p), (n - 1) + 1, Len(RemoveAt(k, p))) = SubSeq(k, n + 1, Len(k))
  <1>. DEFINE h == RemoveAt(k, p)
              m == n - 1
              r == SubSeq(k, n + 1, Len(k))
              s == SubSeq(h, m + 1, Len(h))
  <1>1. /\ Len(k) \in Nat /\ h \in Seq(Elements) /\ Len(h) = Len(k) - 1 /\ Len(h) \in Nat
        /\ \A q \in p..Len(k) - 1 : h[q] = k[q + 1]
    BY RemovedAt, LenProperties
  <1>2. m \in Nat /\ m + 1 = n
    BY <1>1
  <1>3. /\ r \in Seq(Elements) /\ Len(r) \in Nat
        /\ n >= Len(k) => r = << >> /\ Len(r) = 0
        /\ n < Len(k) => Len(r) = Len(k) - n
        /\ \A q \in 1..Len(r) : r[q] = k[n + q] /\ n + q \in 1..Len(k)
    BY RestOf
  <1>. HIDE DEF h, m, r
  <1>4. /\ s \in Seq(Elements) /\ Len(s) \in Nat
        /\ m >= Len(h) => s = << >> /\ Len(s) = 0
        /\ m < Len(h) => Len(s) = Len(h) - m
        /\ \A q \in 1..Len(s) : s[q] = h[m + q] /\ m + q \in 1..Len(h)
    BY <1>1, <1>2, RestOf
  <1>. HIDE DEF s
  <1>5. CASE n >= Len(k)
    <2>1. m >= Len(h)
      BY <1>1, <1>2, <1>5
    <2>. QED
      BY <1>2, <1>3, <1>4, <1>5, <2>1 DEF h, m, r, s
  <1>6. CASE n < Len(k)
    <2>1. Len(r) = Len(s) /\ p = n /\ m < Len(h)
      BY <1>1, <1>2, <1>3, <1>4, <1>6
    <2>2. ASSUME NEW q \in 1..Len(r)
          PROVE  r[q] = s[q]
      <3>1. s[q] = h[m + q] /\ m + q \in 1..Len(h)
        BY <1>4, <2>1
      <3>2. m + q \in p..Len(k) - 1 /\ m + q + 1 = n + q
        BY <1>1, <1>2, <1>3, <2>1, <3>1
      <3>3. h[m + q] = k[n + q]
        BY <1>1, <3>2
      <3>. QED
        BY <1>3, <3>1, <3>3
    <2>3. r = s
      BY <1>3, <1>4, <2>1, <2>2, SeqEqual
    <2>. QED
      BY <1>2, <2>3 DEF h, m, r, s
  <1>. QED
    BY <1>1, <1>5, <1>6

(* What counts in the same sequence is the same.                           *)
LEMMA SameIsSame ==
  ASSUME NEW c, NEW s
  PROVE  SameElements(c, s, s)
  BY DEF SameElements

(* What counts does so while the same keys are bound to $null.             *)
LEMMA SameStays ==
  ASSUME NEW c, NEW s, NEW t, SameElements(c, s, t), nulls' = nulls
  PROVE  SameElements(c, s, t)'
  <1>1. {e \in Elements : c \in Hashes => e \notin nulls'[c]}
        = {e \in Elements : c \in Hashes => e \notin nulls[c]}
    OBVIOUS
  <1>. QED
    BY <1>1 DEF SameElements

-----------------------------------------------------------------------------
(* How many frames and items of the stack there are.                       *)
LEMMA Lengths ==
  ASSUME TypeOK
  PROVE  /\ Len(frames) \in Nat /\ top \in 1..Len(frames) /\ top = Len(frames)
         /\ Len(stack) \in Nat
  BY LastElement, LenProperties DEF TypeOK, top

(* The fields of a frame, and its innermost loop.                          *)
LEMMA FieldsOfFrame ==
  ASSUME NEW f \in Activation
  PROVE  /\ f.active \in Activity /\ f.array \in Arrays \cup {None} /\ f.seen_version \in Nat
         /\ f.invalidated \in BOOLEAN /\ f.base \in Nat /\ f.atNext \in BOOLEAN
         /\ f.left \in BOOLEAN /\ f.loops \in Seq(Loop) /\ Len(f.loops) \in Nat
         /\ f.loops # << >> => /\ Len(f.loops) \in 1..Len(f.loops)
                               /\ Innermost(f) = f.loops[Len(f.loops)]
                               /\ Innermost(f) \in Loop
  <1>1. /\ f.active \in Activity /\ f.array \in Arrays \cup {None} /\ f.seen_version \in Nat
        /\ f.invalidated \in BOOLEAN /\ f.base \in Nat /\ f.atNext \in BOOLEAN
        /\ f.left \in BOOLEAN /\ f.loops \in Seq(Loop)
    BY DEF Activation
  <1>. QED
    BY <1>1, LastElement, LenProperties DEF Innermost

(* What is in the frames is a frame.                                       *)
LEMMA FrameAt ==
  ASSUME TypeOK, NEW g \in 1..Len(frames)
  PROVE  frames[g] \in Activation
  BY ElementOfSeq DEF TypeOK

(* The fields of a loop.                                                   *)
LEMMA FieldsOfLoop ==
  ASSUME NEW l \in Loop
  PROVE  /\ l.over \in Collections /\ l.at \in Nat /\ l.seen \in Seq(Elements)
         /\ l.orig \in Seq(Elements) /\ l.clean \in BOOLEAN
  BY DEF Loop

(* What is in the loops of a frame is a loop.                              *)
LEMMA LoopAt ==
  ASSUME TypeOK, NEW g \in 1..Len(frames), NEW d \in 1..Len(frames[g].loops)
  PROVE  frames[g].loops[d] \in Loop
  BY FrameAt, FieldsOfFrame, ElementOfSeq

(* What is on the stack is an item.                                        *)
LEMMA ItemAt ==
  ASSUME TypeOK, NEW p \in 1..Len(stack)
  PROVE  /\ stack[p] \in Item /\ stack[p].n \in Int
         /\ stack[p].of \in Collections \cup {None}
  <1>1. stack[p] \in Item
    BY ElementOfSeq DEF TypeOK
  <1>. QED
    BY <1>1 DEF Item

(* An item with another number: what the iterator slot gets.               *)
LEMMA ItemWith ==
  ASSUME NEW x \in Item, NEW i \in Int
  PROVE  /\ [x EXCEPT !.n = i] \in Item /\ [x EXCEPT !.n = i].n = i
         /\ [x EXCEPT !.n = i].kind = x.kind /\ [x EXCEPT !.n = i].of = x.of
  BY DEF Item

(* What a collection holds.                                                *)
LEMMA ContentOf ==
  ASSUME TypeOK, NEW c \in Collections
  PROVE  content[c] \in Seq(Elements) /\ Len(content[c]) \in Nat
  <1>1. content[c] \in Seq(Elements)
    BY DEF TypeOK
  <1>. QED
    BY <1>1, LenProperties

(* The loops of all frames, and the frames, are below the operands of the  *)
(* running one.                                                            *)
LEMMA FloorIsTop ==
  ASSUME TypeOK, Placed
  PROVE  /\ Floor(frame) \in Nat /\ Floor(frame) <= Len(stack)
         /\ \A g \in 1..Len(frames) :
              /\ frames[g].base <= Floor(frame)
              /\ \A d \in 1..Len(frames[g].loops) : frames[g].loops[d].at <= Floor(frame)
  <1>. DEFINE n == Len(frame.loops)
  <1>1. /\ Len(frames) \in Nat /\ top \in 1..Len(frames) /\ top = Len(frames)
        /\ frame = frames[top] /\ Len(stack) \in Nat
    BY Lengths DEF frame
  <1>2. /\ frame \in Activation /\ frame.base \in Nat /\ n \in Nat
        /\ frame.loops # << >> => n \in 1..n /\ Innermost(frame) = frame.loops[n]
    BY <1>1, FrameAt, FieldsOfFrame
  <1>3. /\ \A g \in 1..Len(frames) : frames[g].base \in Nat
        /\ \A g \in 1..Len(frames) : \A d \in 1..Len(frames[g].loops) :
             frames[g].loops[d].at \in Nat
    BY FrameAt, FieldsOfFrame, LoopAt, FieldsOfLoop
  <1>4. /\ frame.base <= Floor(frame) /\ Floor(frame) <= Len(stack) /\ Floor(frame) \in Nat
        /\ \A d \in 1..n : frame.loops[d].at <= Floor(frame)
    <2>1. CASE frame.loops = << >>
      <3>1. Floor(frame) = frame.base /\ n = 0
        BY <2>1, EmptySeq DEF Floor
      <3>. QED
        BY <1>1, <1>2, <3>1 DEF Placed, LoopsPlaced
    <2>2. CASE frame.loops # << >>
      <3>1. Floor(frame) = frame.loops[n].at /\ n \in 1..n
        BY <1>2, <2>2 DEF Floor
      <3>2. /\ frame.base + 2 <= frame.loops[n].at /\ frame.loops[n].at <= Len(stack)
            /\ \A d \in 1..n : d < n => frame.loops[d].at + 2 <= frame.loops[n].at
        BY <1>1, <3>1 DEF Placed, LoopsPlaced
      <3>3. \A d \in 1..n : frame.loops[d].at \in Nat
        BY <1>1, <1>3
      <3>4. \A d \in 1..n : d < n \/ d = n
        BY <1>2
      <3>. QED
        BY <1>2, <3>1, <3>2, <3>3, <3>4
    <2>. QED
      BY <2>1, <2>2
  <1>5. ASSUME NEW g \in 1..Len(frames)
        PROVE  /\ frames[g].base <= Floor(frame)
               /\ \A d \in 1..Len(frames[g].loops) : frames[g].loops[d].at <= Floor(frame)
    <2>1. CASE g = top
      BY <1>1, <1>4, <2>1
    <2>2. CASE g # top
      <3>1. g < top
        BY <1>1, <2>2
      <3>2. /\ frames[g].base < frame.base
            /\ \A d \in 1..Len(frames[g].loops) : frames[g].loops[d].at < frame.base
        BY <1>1, <3>1 DEF Placed, FramesPlaced
      <3>. QED
        BY <1>2, <1>3, <1>4, <3>2
    <2>. QED
      BY <2>1, <2>2
  <1>. QED
    BY <1>4, <1>5

-----------------------------------------------------------------------------
(* What a step leaves alone.                                               *)

(* The stack is kept up to height h.                                       *)
StackKeptTo(h) ==
  /\ Len(stack') \in Nat /\ h <= Len(stack')
  /\ \A p \in 1..h : stack'[p] = stack[p]

(* Loop d of frame g, but that it may not be clean any more.               *)
LoopKept(g, d) ==
  LET l == frames[g].loops[d]
      m == frames'[g].loops[d]
  IN /\ d \in 1..Len(frames[g].loops)
     /\ m.over = l.over /\ m.at = l.at
     /\ stack'[l.at] = stack[l.at] /\ stack'[l.at - 1] = stack[l.at - 1]
     /\ m.clean => /\ m = l
                   /\ content'[l.over] = content[l.over]
                   /\ l.over \in Hashes => nulls'[l.over] = nulls[l.over]
                   /\ l.over \in Arrays => version'[l.over] = version[l.over]

(* Frame g, but that its loops may not be clean any more.                  *)
FrameKept(g) ==
  LET f == frames[g]
      h == frames'[g]
  IN /\ g \in 1..Len(frames)
     /\ h.active = f.active /\ h.array = f.array /\ h.seen_version = f.seen_version
     /\ h.invalidated = f.invalidated /\ h.atNext = f.atNext /\ h.left = f.left
     /\ Len(h.loops) = Len(f.loops)
     /\ \A d \in 1..Len(f.loops) : LoopKept(g, d)

(* A loop a step leaves alone finds its operands after it.                 *)
LEMMA LoopStaysWhole ==
  ASSUME NEW g, NEW d, LoopKept(g, d), LoopWhole(g, d)
  PROVE  LoopWhole(g, d)'
  BY DEF LoopKept, LoopWhole, Object

(* A loop a step leaves alone, if it is still clean, has visited what it   *)
(* had visited.                                                            *)
LEMMA LoopStaysOnce ==
  ASSUME NEW g, NEW d, LoopKept(g, d), OnceAt(g, d)
  PROVE  OnceAt(g, d)'
  <1>. DEFINE l == frames[g].loops[d]
              m == frames'[g].loops[d]
  <1>1. CASE ~m.clean
    BY <1>1 DEF OnceAt
  <1>2. CASE m.clean
    <2>1. /\ m = l /\ stack'[l.at] = stack[l.at] /\ content'[l.over] = content[l.over]
          /\ l.over \in Hashes => nulls'[l.over] = nulls[l.over]
      BY <1>2 DEF LoopKept
    <2>2. {e \in Elements : l.over \in Hashes => e \notin nulls'[l.over]}
          = {e \in Elements : l.over \in Hashes => e \notin nulls[l.over]}
      BY <2>1
    <2>. QED
      BY <2>1, <2>2 DEF OnceAt, SameElements
  <1>. QED
    BY <1>1, <1>2

(* The version a frame has seen stays right for a loop a step leaves       *)
(* alone.                                                                  *)
LEMMA VersionStays ==
  ASSUME TypeOK, NEW g \in 1..Len(frames), NEW d, LoopKept(g, d), VersionAt(g, d),
         frames'[g].array = frames[g].array,
         frames'[g].seen_version = frames[g].seen_version,
         frames'[g].invalidated = frames[g].invalidated
  PROVE  VersionAt(g, d)'
  <1>. DEFINE l == frames[g].loops[d]
              m == frames'[g].loops[d]
  <1>1. d \in 1..Len(frames[g].loops)
    BY DEF LoopKept
  <1>2. l.over \in Collections /\ frames[g].array \in Arrays \cup {None}
    BY <1>1, LoopAt, FieldsOfLoop, FrameAt, FieldsOfFrame
  <1>3. l.over = frames[g].array => l.over \in Arrays
    BY <1>2, ForeachAssumption
  <1>. QED
    BY <1>3 DEF VersionAt, LoopKept

(* A frame a step leaves alone says of its active loop what it said.       *)
LEMMA ActingStays ==
  ASSUME TypeOK, TypeOK', NEW g \in 1..Len(frames), g \in 1..Len(frames'),
         FrameKept(g), ActingAt(g)
  PROVE  ActingAt(g)'
  <1>. DEFINE f == frames[g]
              h == frames'[g]
              n == Len(f.loops)
              l == f.loops[n]
              m == h.loops[n]
  <1>1. SUFFICES ASSUME h.active # Idle, ~h.left, ~h.atNext
                 PROVE  ActingAt(g)'
    BY DEF ActingAt
  <1>2. /\ h.active = f.active /\ h.array = f.array /\ Len(h.loops) = n
        /\ f.active # Idle /\ ~f.left /\ ~f.atNext
    BY <1>1 DEF FrameKept
  <1>3. /\ f.loops # << >> /\ f.active.source = Innermost(f).over
        /\ f.active.offset = Innermost(f).at
        /\ stack[Innermost(f).at].n >= 1
        /\ Innermost(f).clean => Innermost(f).seen # << >>
        /\ AtElement(f, Innermost(f))
    BY <1>2 DEF ActingAt
  <1>4. Innermost(f) = l /\ n \in 1..n /\ f \in Activation
    BY <1>3, FrameAt, FieldsOfFrame
  <1>5. h \in Activation /\ h.loops \in Seq(Loop)
    <2>1. frames' \in Seq(Activation)
      BY DEF TypeOK
    <2>2. h \in Activation
      BY <2>1, ElementOfSeq
    <2>. QED
      BY <2>2, FieldsOfFrame
  <1>6. h.loops # << >> /\ Innermost(h) = m
    <2>1. h.loops # << >>
      BY <1>2, <1>4, EmptySeq
    <2>. QED
      BY <1>2, <1>5, <2>1, FieldsOfFrame
  <1>7. /\ m.over = l.over /\ m.at = l.at /\ stack'[l.at] = stack[l.at]
        /\ m.clean => /\ l.clean /\ m.seen = l.seen
                      /\ content'[l.over] = content[l.over]
    BY <1>4 DEF FrameKept, LoopKept
  <1>8. AtElement(frames[g], Innermost(frames[g]))'
    <2>1. AtElement(f, l)
      BY <1>3, <1>4
    <2>. QED
      BY <1>2, <1>6, <1>7, <2>1 DEF AtElement
  <1>9. /\ h.active.source = m.over /\ h.active.offset = m.at /\ stack'[m.at].n >= 1
        /\ m.clean => m.seen # << >>
    BY <1>2, <1>3, <1>4, <1>7
  <1>. QED
    BY <1>6, <1>8, <1>9 DEF ActingAt

(* A frame that is left alone stays sound.                                 *)
LEMMA SoundStays ==
  ASSUME TypeOK, TypeOK', NEW g \in 1..Len(frames), g \in 1..Len(frames'),
         FrameKept(g), Sound(g)
  PROVE  Sound(g)'
  <1>1. ActingAt(g)'
    BY ActingStays DEF Sound
  <1>2. ASSUME NEW d \in 1..Len(frames'[g].loops)
        PROVE  LoopWhole(g, d)' /\ VersionAt(g, d)' /\ OnceAt(g, d)'
    <2>1. d \in 1..Len(frames[g].loops) /\ LoopKept(g, d)
      BY <1>2 DEF FrameKept
    <2>2. LoopWhole(g, d) /\ VersionAt(g, d) /\ OnceAt(g, d)
      BY <2>1 DEF Sound
    <2>3. /\ frames'[g].array = frames[g].array
          /\ frames'[g].seen_version = frames[g].seen_version
          /\ frames'[g].invalidated = frames[g].invalidated
      BY DEF FrameKept
    <2>. QED
      BY <2>1, <2>2, <2>3, LoopStaysWhole, LoopStaysOnce, VersionStays
  <1>. QED
    BY <1>1, <1>2 DEF Sound

(* A frame that is the same, over a stack and collections that are.        *)
LEMMA SameFrame ==
  ASSUME TypeOK, Placed, NEW g \in 1..Len(frames), frames'[g] = frames[g],
         NEW h \in Nat, StackKeptTo(h),
         \A d \in 1..Len(frames[g].loops) : frames[g].loops[d].at <= h,
         content' = content, nulls' = nulls, version' = version
  PROVE  FrameKept(g)
  <1>1. ASSUME NEW d \in 1..Len(frames[g].loops)
        PROVE  LoopKept(g, d)
    <2>1. /\ frames[g].loops[d].at \in Nat /\ frames[g].base \in Nat
          /\ frames[g].base + 2 <= frames[g].loops[d].at
          /\ frames[g].loops[d].at <= h
      <3>1. frames[g].base \in Nat
        BY FrameAt, FieldsOfFrame
      <3>2. frames[g].loops[d].at \in Nat
        BY LoopAt, FieldsOfLoop
      <3>. QED
        BY <3>1, <3>2 DEF Placed, LoopsPlaced
    <2>2. \A b, a \in Nat : b + 2 <= a /\ a <= h => a \in 1..h /\ a - 1 \in 1..h
      OBVIOUS
    <2>3. frames[g].loops[d].at \in 1..h /\ frames[g].loops[d].at - 1 \in 1..h
      BY <2>1, <2>2, Zenon
    <2>. QED
      BY <2>3 DEF LoopKept, StackKeptTo
  <1>. QED
    BY <1>1 DEF FrameKept

(* The frames that stay, and their loops, stay where they are.             *)
LEMMA PlacesKept ==
  ASSUME TypeOK, Placed, Len(frames') <= Len(frames), Len(frames') \in Nat,
         \A g \in 1..Len(frames') :
           /\ frames'[g].base = frames[g].base /\ frames'[g].base <= Len(stack')
           /\ Len(frames'[g].loops) <= Len(frames[g].loops)
           /\ Len(frames'[g].loops) \in Nat
           /\ \A d \in 1..Len(frames'[g].loops) :
                /\ frames'[g].loops[d].at = frames[g].loops[d].at
                /\ frames'[g].loops[d].at <= Len(stack')
  PROVE  LoopsPlaced' /\ FramesPlaced'
  <1>1. Len(frames) \in Nat /\ \A g \in 1..Len(frames) : Len(frames[g].loops) \in Nat
    BY Lengths, FrameAt, FieldsOfFrame
  <1>2. \A g \in 1..Len(frames') : /\ g \in 1..Len(frames)
                                   /\ 1..Len(frames'[g].loops) \subseteq 1..Len(frames[g].loops)
    BY <1>1
  <1>3. LoopsPlaced'
    BY <1>2 DEF Placed, LoopsPlaced
  <1>4. FramesPlaced'
    BY <1>2 DEF Placed, FramesPlaced
  <1>. QED
    BY <1>3, <1>4

-----------------------------------------------------------------------------
(* Steps of the running frame.                                             *)

(* The items the instructions push.                                        *)
LEMMA ItemsTyped ==
  /\ Operand \in Item /\ Operand.kind = "operand" /\ Operand.n = 0
  /\ \A c \in Collections : Object(c) \in Item /\ Object(c).kind = "object"
  /\ \A i \in Int : Iterator(i) \in Item /\ Iterator(i).kind = "iterator"
  /\ Idle \in Activity
  BY DEF Item, Operand, Object, Iterator, Activity, Idle

(* Push and Pop.                                                           *)
LEMMA OnlyStack ==
  ASSUME Kept, ~frame.atNext, stack' \in Seq(Item), StackKeptTo(Floor(frame)),
         OperandsWhole', UNCHANGED <<content, nulls, version, frames, changes>>
  PROVE  Kept'
  <1>0. TypeOK /\ Placed
    BY DEF Kept
  <1>1. TypeOK'
    BY DEF Kept, TypeOK
  <1>2. Distinct'
    BY DEF Kept, Distinct
  <1>3. /\ Len(frames) \in Nat /\ top = Len(frames) /\ frame = frames[top]
        /\ Floor(frame) \in Nat /\ Floor(frame) <= Len(stack') /\ Len(stack') \in Nat
        /\ \A g \in 1..Len(frames) :
              /\ frames[g].base <= Floor(frame) /\ frames[g].base \in Nat
              /\ Len(frames[g].loops) \in Nat
              /\ \A d \in 1..Len(frames[g].loops) :
                   frames[g].loops[d].at <= Floor(frame) /\ frames[g].loops[d].at \in Nat
    BY <1>0, Lengths, FloorIsTop, FrameAt, FieldsOfFrame, LoopAt, FieldsOfLoop
       DEF frame, StackKeptTo
  <1>4. LoopsPlaced' /\ FramesPlaced'
    <2>1. \A g \in 1..Len(frames) :
            /\ frames[g].base <= Len(stack')
            /\ \A d \in 1..Len(frames[g].loops) : frames[g].loops[d].at <= Len(stack')
      BY <1>3
    <2>. QED
      BY <1>0, <1>3, <2>1, PlacesKept
  <1>5. OnlyTopAdvances'
    BY <1>0, <1>3 DEF Placed, OnlyTopAdvances
  <1>6. ASSUME NEW g \in 1..Len(frames)
        PROVE  Sound(g)'
    <2>1. FrameKept(g)
      BY <1>0, <1>3, SameFrame
    <2>. QED
      BY <1>0, <1>1, <2>1, SoundStays DEF Kept
  <1>. QED
    BY <1>1, <1>2, <1>4, <1>5, <1>6 DEF Kept, Placed

(* Pushing an operand.                                                     *)
LEMMA PushKeeps ==
  ASSUME Kept, Push
  PROVE  Kept'
  <1>1. TypeOK /\ Placed /\ OperandsWhole
    BY DEF Kept
  <1>2. Len(stack) \in Nat /\ Floor(frame) \in Nat /\ Floor(frame) <= Len(stack)
    BY <1>1, Lengths, FloorIsTop
  <1>3. /\ stack' \in Seq(Item) /\ Len(stack') = Len(stack) + 1
        /\ \A p \in 1..Len(stack) : stack'[p] = stack[p]
        /\ stack'[Len(stack) + 1] = Operand
    BY <1>1, ItemsTyped, AppendProperties DEF Push, TypeOK
  <1>4. StackKeptTo(Floor(frame))
    BY <1>2, <1>3 DEF StackKeptTo
  <1>5. OperandsWhole'
    <2>1. \A p \in 1..Len(stack) + 1 : p \in 1..Len(stack) \/ p = Len(stack) + 1
      BY <1>2
    <2>. QED
      BY <1>1, <1>3, <2>1, ItemsTyped DEF OperandsWhole
  <1>. QED
    BY <1>3, <1>4, <1>5, OnlyStack DEF Push

(* Dropping an operand.                                                    *)
LEMMA PopKeeps ==
  ASSUME Kept, Pop
  PROVE  Kept'
  <1>1. TypeOK /\ Placed /\ OperandsWhole
    BY DEF Kept
  <1>2. /\ Len(stack) \in Nat /\ Floor(frame) \in Nat /\ Floor(frame) < Len(stack)
    BY <1>1, Lengths, FloorIsTop DEF Pop
  <1>3. Len(stack) - 1 \in 0..Len(stack) /\ stack' = SubSeq(stack, 1, Len(stack) - 1)
    BY <1>2 DEF Pop, Front
  <1>4. /\ stack' \in Seq(Item) /\ Len(stack') = Len(stack) - 1
        /\ \A p \in 1..Len(stack) - 1 : stack'[p] = stack[p]
    BY <1>1, <1>3, Prefix DEF TypeOK
  <1>5. StackKeptTo(Floor(frame))
    BY <1>2, <1>4 DEF StackKeptTo
  <1>6. OperandsWhole'
    <2>1. \A p \in 1..Len(stack) - 1 : p \in 1..Len(stack)
      BY <1>2
    <2>. QED
      BY <1>1, <1>4, <2>1 DEF OperandsWhole
  <1>. QED
    BY <1>4, <1>5, <1>6, OnlyStack DEF Pop

(* A step that puts f in the place of the running frame, which keeps what  *)
(* is below its base.                                                      *)
LEMMA TopChanges ==
  ASSUME Kept, NEW f \in Activation, f.base = frame.base,
         frames' = [frames EXCEPT ![top] = f],
         stack' \in Seq(Item), StackKeptTo(frame.base), OperandsWhole',
         UNCHANGED <<content, nulls, version, changes>>,
         \A d \in 1..Len(f.loops) :
           /\ f.base + 2 <= f.loops[d].at /\ f.loops[d].at <= Len(stack')
           /\ \A e \in 1..Len(f.loops) : d < e => f.loops[d].at + 2 <= f.loops[e].at,
         f.atNext => f.loops # << >> /\ Innermost(f).at = Len(stack'),
         \A g \in 1..Len(frames) : g = top => Sound(g)'
  PROVE  Kept'
  <1>0. TypeOK /\ Placed
    BY DEF Kept
  <1>1. /\ Len(frames) \in Nat /\ top \in 1..Len(frames) /\ top = Len(frames)
        /\ frame = frames[top]
    BY <1>0, Lengths DEF frame
  <1>2. /\ frames' \in Seq(Activation) /\ Len(frames') = Len(frames)
        /\ frames'[top] = f
        /\ \A g \in 1..Len(frames) : g # top => frames'[g] = frames[g]
    BY <1>0, <1>1, ExceptSeq DEF TypeOK
  <1>3. TypeOK'
    <2>1. frames' # << >>
      BY <1>1, <1>2, EmptySeq
    <2>. QED
      BY <1>0, <1>2, <2>1 DEF TypeOK
  <1>4. Distinct'
    BY DEF Kept, Distinct
  <1>5. /\ frame.base \in Nat /\ frame.base <= Len(stack') /\ Len(stack') \in Nat
        /\ \A g \in 1..Len(frames) : g # top =>
             /\ g < top /\ frames[g].base < frame.base /\ frames[g].base \in Nat
             /\ \A d \in 1..Len(frames[g].loops) :
                  frames[g].loops[d].at < frame.base /\ frames[g].loops[d].at \in Nat
    <2>1. \A g \in 1..Len(frames) : g # top => g < top
      BY <1>1
    <2>2. frame.base \in Nat /\ \A g \in 1..Len(frames) : frames[g].base \in Nat
      BY <1>0, <1>1, FrameAt, FieldsOfFrame
    <2>3. \A g \in 1..Len(frames) : \A d \in 1..Len(frames[g].loops) :
             frames[g].loops[d].at \in Nat
      BY <1>0, LoopAt, FieldsOfLoop
    <2>. QED
      BY <1>0, <1>1, <2>1, <2>2, <2>3 DEF Placed, FramesPlaced, StackKeptTo
  <1>6. LoopsPlaced'
    <2>1. ASSUME NEW g \in 1..Len(frames), g # top
          PROVE  /\ frames'[g].base <= Len(stack')
                 /\ \A d \in 1..Len(frames'[g].loops) :
                      /\ frames'[g].base + 2 <= frames'[g].loops[d].at
                      /\ frames'[g].loops[d].at <= Len(stack')
                      /\ \A e \in 1..Len(frames'[g].loops) :
                           d < e => frames'[g].loops[d].at + 2 <= frames'[g].loops[e].at
      <3>1. frames'[g] = frames[g]
        BY <1>2, <2>1
      <3>2. /\ frames[g].base <= Len(stack')
            /\ \A d \in 1..Len(frames[g].loops) :
                 /\ frames[g].base + 2 <= frames[g].loops[d].at
                 /\ frames[g].loops[d].at <= Len(stack')
                 /\ \A e \in 1..Len(frames[g].loops) :
                      d < e => frames[g].loops[d].at + 2 <= frames[g].loops[e].at
        <4>1. /\ frames[g].base <= Len(stack')
              /\ \A d \in 1..Len(frames[g].loops) : frames[g].loops[d].at <= Len(stack')
          BY <1>5, <2>1
        <4>. QED
          BY <1>0, <4>1 DEF Placed, LoopsPlaced
      <3>. QED
        BY <3>1, <3>2, Zenon
    <2>2. ASSUME NEW g \in 1..Len(frames), g = top
          PROVE  /\ frames'[g].base <= Len(stack')
                 /\ \A d \in 1..Len(frames'[g].loops) :
                      /\ frames'[g].base + 2 <= frames'[g].loops[d].at
                      /\ frames'[g].loops[d].at <= Len(stack')
                      /\ \A e \in 1..Len(frames'[g].loops) :
                           d < e => frames'[g].loops[d].at + 2 <= frames'[g].loops[e].at
      <3>1. frames'[g] = f
        BY <1>2, <2>2
      <3>2. f.base <= Len(stack')
        BY <1>5
      <3>. QED
        BY <3>1, <3>2, Zenon
    <2>3. 1..Len(frames') = 1..Len(frames)
      BY <1>2
    <2>. QED
      BY <2>1, <2>2, <2>3, Zenon DEF LoopsPlaced
  <1>7. FramesPlaced'
    <2>1. ASSUME NEW g \in 1..Len(frames), NEW k \in 1..Len(frames), g < k
          PROVE  /\ frames'[g].base < frames'[k].base
                 /\ \A d \in 1..Len(frames'[g].loops) : frames'[g].loops[d].at < frames'[k].base
      <3>1. g # top /\ frames'[g] = frames[g] /\ frames'[k].base = frames[k].base
        BY <1>1, <1>2, <2>1
      <3>. QED
        BY <1>0, <2>1, <3>1 DEF Placed, FramesPlaced
    <2>. QED
      BY <1>2, <2>1 DEF FramesPlaced
  <1>8. OnlyTopAdvances'
    <2>1. \A g \in 1..Len(frames) : g # top => ~frames'[g].atNext
      BY <1>0, <1>1, <1>2 DEF Placed, OnlyTopAdvances
    <2>. QED
      BY <1>1, <1>2, <2>1 DEF OnlyTopAdvances
  <1>9. ASSUME NEW g \in 1..Len(frames)
        PROVE  Sound(g)'
    <2>1. CASE g # top
      <3>1. \A d \in 1..Len(frames[g].loops) : frames[g].loops[d].at <= frame.base
        BY <1>5, <2>1
      <3>2. FrameKept(g)
        BY <1>0, <1>2, <1>5, <2>1, <3>1, SameFrame
      <3>. QED
        BY <1>0, <1>2, <1>3, <3>2, SoundStays DEF Kept
    <2>2. CASE g = top
      BY <2>2
    <2>. QED
      BY <2>1, <2>2
  <1>. QED
    BY <1>2, <1>3, <1>4, <1>6, <1>7, <1>8, <1>9 DEF Kept, Placed

(* A loop of the running frame that is left as it is.                      *)
LEMMA SameLoop ==
  ASSUME TypeOK, Placed, NEW g \in 1..Len(frames), NEW d \in 1..Len(frames[g].loops),
         frames'[g].loops[d] = frames[g].loops[d],
         NEW h \in Nat, StackKeptTo(h), frames[g].loops[d].at <= h,
         content' = content, nulls' = nulls, version' = version
  PROVE  LoopKept(g, d)
  <1>1. /\ frames[g].loops[d].at \in Nat /\ frames[g].base \in Nat
        /\ frames[g].base + 2 <= frames[g].loops[d].at
    BY FrameAt, FieldsOfFrame, LoopAt, FieldsOfLoop DEF Placed, LoopsPlaced
  <1>2. frames[g].loops[d].at \in 1..h /\ frames[g].loops[d].at - 1 \in 1..h
    BY <1>1
  <1>. QED
    BY <1>2 DEF LoopKept, StackKeptTo

(* What is known of the running frame at a statement or at its next round. *)
LEMMA RunningFrame ==
  ASSUME Kept
  PROVE  /\ Len(frames) \in Nat /\ top \in 1..Len(frames) /\ top = Len(frames)
         /\ frame = frames[top] /\ frame \in Activation
         /\ Len(stack) \in Nat /\ frame.base \in Nat /\ frame.base <= Len(stack)
         /\ frame.loops \in Seq(Loop) /\ Len(frame.loops) \in Nat
         /\ \A d \in 1..Len(frame.loops) :
              /\ frame.loops[d] \in Loop /\ frame.loops[d].at \in Nat
              /\ frame.base + 2 <= frame.loops[d].at /\ frame.loops[d].at <= Len(stack)
              /\ \A e \in 1..Len(frame.loops) :
                   d < e => frame.loops[d].at + 2 <= frame.loops[e].at
         /\ Sound(top)
  <1>1. TypeOK /\ Placed /\ \A g \in 1..Len(frames) : Sound(g)
    BY DEF Kept
  <1>2. /\ Len(frames) \in Nat /\ top \in 1..Len(frames) /\ top = Len(frames)
        /\ frame = frames[top] /\ Len(stack) \in Nat
    BY <1>1, Lengths DEF frame
  <1>3. /\ frame \in Activation /\ frame.base \in Nat /\ frame.loops \in Seq(Loop)
        /\ Len(frame.loops) \in Nat
    BY <1>1, <1>2, FrameAt, FieldsOfFrame
  <1>4. \A d \in 1..Len(frame.loops) : frame.loops[d] \in Loop /\ frame.loops[d].at \in Nat
    BY <1>1, <1>2, LoopAt, FieldsOfLoop
  <1>5. /\ frame.base <= Len(stack)
        /\ \A d \in 1..Len(frame.loops) :
             /\ frame.base + 2 <= frame.loops[d].at /\ frame.loops[d].at <= Len(stack)
             /\ \A e \in 1..Len(frame.loops) :
                   d < e => frame.loops[d].at + 2 <= frame.loops[e].at
    BY <1>1, <1>2 DEF Placed, LoopsPlaced
  <1>. QED
    BY <1>1, <1>2, <1>3, <1>4, <1>5

(* A loop begins.                                                          *)
LEMMA EnterKeeps ==
  ASSUME Kept, NEW c \in Collections, Enter(c)
  PROVE  Kept'
  <1>. DEFINE n == Len(frame.loops)
              m == Len(stack)
              l == [over |-> c, at |-> m + 2, seen |-> << >>, orig |-> content[c],
                    clean |-> TRUE]
              f == [frame EXCEPT !.atNext = TRUE, !.loops = Append(frame.loops, l)]
  <1>0. TypeOK /\ Placed /\ OperandsWhole
    BY DEF Kept
  <1>1. /\ m = Floor(frame)
        /\ stack' = stack \o <<Object(c), Iterator(0)>>
        /\ frames' = [frames EXCEPT ![top] = f]
        /\ UNCHANGED <<content, nulls, version, changes>>
    BY DEF Enter, AtStatement, frame
  <1>2. /\ Len(frames) \in Nat /\ top \in 1..Len(frames) /\ top = Len(frames)
        /\ frame = frames[top] /\ frame \in Activation
        /\ m \in Nat /\ frame.base \in Nat /\ frame.base <= m
        /\ frame.loops \in Seq(Loop) /\ n \in Nat
        /\ \A d \in 1..n :
              /\ frame.loops[d] \in Loop /\ frame.loops[d].at \in Nat
              /\ frame.base + 2 <= frame.loops[d].at /\ frame.loops[d].at <= m
              /\ \A e \in 1..n : d < e => frame.loops[d].at + 2 <= frame.loops[e].at
        /\ Sound(top)
    BY RunningFrame
  <1>3. l \in Loop /\ l.over = c /\ l.at = m + 2 /\ l.seen = << >> /\ l.orig = content[c]
    BY <1>0, <1>2, ContentOf, EmptySeq DEF Loop
  <1>4. /\ Object(c) \in Item /\ Iterator(0) \in Item
        /\ Object(c).kind = "object" /\ Iterator(0).kind = "iterator" /\ Iterator(0).n = 0
    BY ItemsTyped DEF Iterator
  <1>5. /\ stack' \in Seq(Item) /\ Len(stack') = m + 2
        /\ \A p \in 1..m : stack'[p] = stack[p]
        /\ stack'[m + 1] = Object(c) /\ stack'[m + 2] = Iterator(0)
    <2>1. /\ <<Object(c), Iterator(0)>> \in Seq(Item)
          /\ Len(<<Object(c), Iterator(0)>>) = 2
      BY <1>4
    <2>2. /\ stack' \in Seq(Item) /\ Len(stack') = m + 2
          /\ \A p \in 1..m + 2 : stack'[p] = IF p <= m THEN stack[p]
                                             ELSE <<Object(c), Iterator(0)>>[p - m]
      BY <1>0, <1>1, <2>1, ConcatProperties DEF TypeOK
    <2>3. \A p \in 1..m : p \in 1..m + 2 /\ p <= m
      BY <1>2
    <2>4. /\ m + 1 \in 1..m + 2 /\ ~(m + 1 <= m) /\ (m + 1) - m = 1
          /\ m + 2 \in 1..m + 2 /\ ~(m + 2 <= m) /\ (m + 2) - m = 2
      BY <1>2
    <2>. QED
      BY <2>2, <2>3, <2>4
  <1>6. /\ f.loops \in Seq(Loop) /\ Len(f.loops) = n + 1 /\ f.loops # << >>
        /\ \A d \in 1..n : f.loops[d] = frame.loops[d]
        /\ f.loops[n + 1] = l
    <2>1. f.loops = Append(frame.loops, l)
      BY <1>2 DEF Activation
    <2>. HIDE DEF l, f
    <2>. QED
      BY <1>2, <1>3, <2>1, AppendProperties
  <1>7. f \in Activation /\ f.base = frame.base /\ f.atNext /\ f.array = frame.array
        /\ f.seen_version = frame.seen_version /\ f.invalidated = frame.invalidated
    BY <1>2, <1>6 DEF Activation
  <1>. HIDE DEF l, f
  <1>8. StackKeptTo(m) /\ StackKeptTo(frame.base)
    BY <1>2, <1>5 DEF StackKeptTo
  <1>9. \A d \in 1..n + 1 : d \in 1..n \/ d = n + 1
    BY <1>2
  <1>10. OperandsWhole'
    <2>1. \A p \in 1..m + 2 : p \in 1..m \/ p = m + 1 \/ p = m + 2
      BY <1>2
    <2>2. \A p \in 1..m + 2 : stack'[p].kind = "operand" => stack'[p].n = 0
      BY <1>0, <1>4, <1>5, <2>1 DEF OperandsWhole
    <2>. QED
      BY <1>5, <2>2 DEF OperandsWhole
  <1>11. ASSUME NEW d \in 1..Len(f.loops)
         PROVE  /\ f.base + 2 <= f.loops[d].at /\ f.loops[d].at <= Len(stack')
                /\ \A e \in 1..Len(f.loops) : d < e => f.loops[d].at + 2 <= f.loops[e].at
    <2>1. CASE d \in 1..n
      <3>1. f.loops[d] = frame.loops[d] /\ frame.loops[d].at <= m /\ frame.loops[d].at \in Nat
        BY <1>2, <1>6, <2>1
      <3>2. \A e \in 1..n : d < e => f.loops[d].at + 2 <= f.loops[e].at
        <4>1. \A e \in 1..n : d < e => frame.loops[d].at + 2 <= frame.loops[e].at
          BY <1>2, <2>1
        <4>. QED
          BY <1>6, <2>1, <4>1
      <3>3. f.loops[d].at + 2 <= f.loops[n + 1].at
        BY <1>2, <1>3, <1>6, <3>1
      <3>4. \A e \in 1..n + 1 : d < e => f.loops[d].at + 2 <= f.loops[e].at
        BY <1>9, <3>2, <3>3
      <3>5. f.base + 2 <= f.loops[d].at
        BY <1>2, <1>7, <2>1, <3>1
      <3>6. f.loops[d].at <= Len(stack')
        BY <1>2, <1>5, <3>1
      <3>. QED
        BY <1>6, <3>4, <3>5, <3>6
    <2>2. CASE d = n + 1
      BY <1>2, <1>3, <1>5, <1>6, <1>7, <2>2
    <2>. QED
      BY <1>6, <1>9, <2>1, <2>2
  <1>12. f.atNext => f.loops # << >> /\ Innermost(f).at = Len(stack')
    <2>1. Innermost(f) = f.loops[Len(f.loops)]
      BY <1>6, <1>7, FieldsOfFrame
    <2>. QED
      BY <1>3, <1>5, <1>6, <2>1
  <1>13. ASSUME NEW g \in 1..Len(frames), g = top
         PROVE  Sound(g)'
    <2>1. frames[g] = frame /\ frames'[g] = f
      BY <1>0, <1>1, <1>2, <1>7, <1>13, ExceptSeq DEF TypeOK
    <2>2. ActingAt(g)'
      <3>1. frames'[g].atNext
        BY <1>7, <2>1
      <3>. QED
        BY <3>1, Zenon DEF ActingAt
    <2>3. ASSUME NEW d \in 1..n
          PROVE  LoopWhole(g, d)' /\ VersionAt(g, d)' /\ OnceAt(g, d)'
      <3>1. LoopKept(g, d)
        BY <1>0, <1>1, <1>2, <1>6, <1>8, <2>1, SameLoop
      <3>2. LoopWhole(g, d) /\ VersionAt(g, d) /\ OnceAt(g, d)
        BY <1>2, <1>13, <2>1 DEF Sound
      <3>. QED
        BY <1>0, <1>7, <2>1, <3>1, <3>2, LoopStaysWhole, LoopStaysOnce, VersionStays
    <2>4. /\ f.loops[n + 1] = l /\ stack'[l.at] = Iterator(0) /\ stack'[l.at - 1] = Object(c)
          /\ stack'[l.at].n = 0
      <3>1. l.at = m + 2 /\ l.at - 1 = m + 1
        BY <1>2, <1>3
      <3>. QED
        BY <1>4, <1>5, <1>6, <3>1
    <2>5. ASSUME NEW d \in 1..n + 1, d = n + 1
          PROVE  LoopWhole(g, d)' /\ VersionAt(g, d)' /\ OnceAt(g, d)'
      <3>1. frames'[g].loops[d] = l /\ d = n + 1
        BY <2>1, <2>4, <2>5
      <3>2. LoopWhole(g, d)' /\ VersionAt(g, d)'
        <4>1. frames'[g].loops[d] = l /\ l.over = c
          BY <1>3, <2>1, <2>4, <3>1
        <4>2. /\ stack'[l.at - 1] = Object(l.over) /\ stack'[l.at].kind = "iterator"
              /\ stack'[l.at].n >= 0 /\ ~(stack'[l.at].n > 0)
          BY <1>4, <2>4, <3>1, <4>1
        <4>3. LoopWhole(g, d)'
          BY <4>1, <4>2 DEF LoopWhole, Object
        <4>4. VersionAt(g, d)'
          BY <4>1, <4>2, Zenon DEF VersionAt
        <4>. QED
          BY <4>3, <4>4
      <3>3. OnceAt(g, d)'
        <4>1. content[c] \in Seq(Elements) /\ content' = content
          BY <1>0, <1>1, ContentOf
        <4>2. SubSeq(content[c], 1, Len(content[c])) = content[c]
          BY <4>1, SubSeqFull
        <4>3. << >> \o content[c] = content[c]
          BY <4>1, ConcatEmptySeq
        <4>4. SameElements(c, content[c], content[c])'
          BY Zenon DEF SameElements
        <4>5. stack'[l.at].n + 1 = 1
          BY <2>4, <3>1
        <4>6. l.seen \o SubSeq(content[c], 1, Len(content[c])) = content[c]
          BY <1>3, <4>2, <4>3, Zenon
        <4>7. frames'[g].loops[d] = l /\ l.orig = content'[c] /\ l.over = c
          BY <1>3, <2>1, <2>4, <3>1, <4>1
        <4>8. l.seen \o SubSeq(content'[l.over], stack'[l.at].n + 1, Len(content'[l.over]))
              = content'[c]
          BY <4>1, <4>5, <4>6, <4>7, Zenon
        <4>. QED
          BY <4>4, <4>7, <4>8, Zenon DEF OnceAt
      <3>. QED
        BY <3>2, <3>3
    <2>. QED
      BY <1>6, <1>9, <2>1, <2>2, <2>3, <2>5 DEF Sound
  <1>. QED
    BY <1>1, <1>5, <1>7, <1>8, <1>10, <1>11, <1>12, <1>13, TopChanges

(* The end of the body.                                                    *)
LEMMA EndBodyKeeps ==
  ASSUME Kept, EndBody
  PROVE  Kept'
  <1>. DEFINE f == [frame EXCEPT !.atNext = TRUE]
  <1>0. TypeOK /\ Placed /\ OperandsWhole
    BY DEF Kept
  <1>1. /\ Len(stack) = Floor(frame) /\ frame.loops # << >>
        /\ frames' = [frames EXCEPT ![top] = f]
        /\ UNCHANGED <<content, nulls, version, stack, changes>>
    BY DEF EndBody, AtStatement, frame
  <1>2. /\ top \in 1..Len(frames) /\ frame = frames[top] /\ frame \in Activation
        /\ Len(stack) \in Nat /\ frame.base \in Nat /\ frame.base <= Len(stack)
        /\ \A d \in 1..Len(frame.loops) :
              /\ frame.loops[d] \in Loop /\ frame.loops[d].at \in Nat
              /\ frame.base + 2 <= frame.loops[d].at /\ frame.loops[d].at <= Len(stack)
              /\ \A e \in 1..Len(frame.loops) :
                   d < e => frame.loops[d].at + 2 <= frame.loops[e].at
        /\ Sound(top)
    BY RunningFrame
  <1>3. /\ f \in Activation /\ f.base = frame.base /\ f.atNext /\ f.loops = frame.loops
        /\ f.array = frame.array /\ f.seen_version = frame.seen_version
        /\ f.invalidated = frame.invalidated
    BY <1>2 DEF Activation
  <1>. HIDE DEF f
  <1>4. /\ StackKeptTo(frame.base) /\ StackKeptTo(Len(stack)) /\ stack' \in Seq(Item)
        /\ OperandsWhole'
    BY <1>0, <1>1, <1>2 DEF StackKeptTo, TypeOK, OperandsWhole
  <1>5. f.loops # << >> /\ Innermost(f).at = Len(stack')
    BY <1>1, <1>3 DEF Floor, Innermost
  <1>6. ASSUME NEW g \in 1..Len(frames), g = top
        PROVE  Sound(g)'
    <2>1. frames[g] = frame /\ frames'[g] = f
      BY <1>0, <1>1, <1>2, <1>3, <1>6, ExceptSeq DEF TypeOK
    <2>2. ActingAt(g)'
      <3>1. frames'[g].atNext
        BY <1>3, <2>1
      <3>. QED
        BY <3>1, Zenon DEF ActingAt
    <2>3. ASSUME NEW d \in 1..Len(frames[g].loops)
          PROVE  LoopWhole(g, d)' /\ VersionAt(g, d)' /\ OnceAt(g, d)'
      <3>1. LoopKept(g, d)
        BY <1>0, <1>1, <1>2, <1>3, <1>4, <2>1, SameLoop
      <3>2. LoopWhole(g, d) /\ VersionAt(g, d) /\ OnceAt(g, d)
        BY <1>2, <1>6, <2>1 DEF Sound
      <3>. QED
        BY <1>0, <1>3, <2>1, <3>1, <3>2, LoopStaysWhole, LoopStaysOnce, VersionStays
    <2>. QED
      BY <1>3, <2>1, <2>2, <2>3 DEF Sound
  <1>7. \A d \in 1..Len(f.loops) :
           /\ f.base + 2 <= f.loops[d].at /\ f.loops[d].at <= Len(stack')
           /\ \A e \in 1..Len(f.loops) : d < e => f.loops[d].at + 2 <= f.loops[e].at
    BY <1>1, <1>2, <1>3
  <1>. QED
    BY <1>1, <1>3, <1>4, <1>5, <1>6, <1>7, TopChanges

(* The innermost loop of the running frame is left, at its iterator: f is  *)
(* what remains of the frame.                                              *)
LEMMA LoopIsLeft ==
  ASSUME Kept, frame.loops # << >>, Innermost(frame).at = Len(stack),
         NEW f \in Activation, f.base = frame.base, f.loops = Front(frame.loops), ~f.atNext,
         f.active = Idle \/ f.left,
         \/ f.array = None
         \/ /\ f.array = frame.array /\ f.seen_version = frame.seen_version
            /\ f.invalidated = frame.invalidated,
         frames' = [frames EXCEPT ![top] = f],
         stack' = SubSeq(stack, 1, Len(stack) - 2),
         UNCHANGED <<content, nulls, version, changes>>
  PROVE  Kept'
  <1>. DEFINE n == Len(frame.loops)
              m == Len(stack)
  <1>0. TypeOK /\ Placed /\ OperandsWhole
    BY DEF Kept
  <1>1. /\ Len(frames) \in Nat /\ top \in 1..Len(frames)
        /\ frame = frames[top] /\ frame \in Activation
        /\ m \in Nat /\ frame.base \in Nat /\ frame.base <= m
        /\ frame.loops \in Seq(Loop) /\ n \in Nat
        /\ \A d \in 1..n :
              /\ frame.loops[d] \in Loop /\ frame.loops[d].at \in Nat
              /\ frame.base + 2 <= frame.loops[d].at /\ frame.loops[d].at <= m
              /\ \A e \in 1..n : d < e => frame.loops[d].at + 2 <= frame.loops[e].at
        /\ Sound(top)
    BY RunningFrame
  <1>2. n \in 1..n /\ frame.loops[n].at = m
    BY <1>1, FieldsOfFrame
  <1>3. n - 1 \in 0..n /\ n - 1 \in Nat /\ 1..n - 1 \subseteq 1..n /\ \A d \in 1..n - 1 : d < n
    BY <1>1, <1>2
  <1>4. /\ Len(f.loops) = n - 1
        /\ \A d \in 1..n - 1 : f.loops[d] = frame.loops[d]
    BY <1>1, <1>3, Prefix DEF Front
  <1>5. frame.base <= m - 2 /\ m - 2 \in 0..m /\ m - 2 \in Nat
    <2>1. frame.base + 2 <= frame.loops[n].at
      BY <1>1, <1>2
    <2>2. frame.base + 2 <= m /\ frame.base \in Nat /\ m \in Nat
      BY <1>1, <1>2, <2>1
    <2>. QED
      BY <2>2
  <1>6. /\ stack' \in Seq(Item) /\ Len(stack') = m - 2
        /\ \A p \in 1..m - 2 : stack'[p] = stack[p]
    <2>1. stack \in Seq(Item)
      BY <1>0 DEF TypeOK
    <2>. QED
      BY <1>5, <2>1, Prefix
  <1>7. StackKeptTo(m - 2) /\ StackKeptTo(frame.base)
    BY <1>1, <1>5, <1>6 DEF StackKeptTo
  <1>8. OperandsWhole'
    <2>1. \A p \in 1..m - 2 : p \in 1..m
      BY <1>1
    <2>. QED
      BY <1>0, <1>6, <2>1 DEF OperandsWhole
  <1>9. ASSUME NEW d \in 1..n - 1
        PROVE  frame.loops[d].at <= m - 2
    <2>1. d \in 1..n /\ d < n
      BY <1>3
    <2>2. frame.loops[d].at + 2 <= frame.loops[n].at /\ frame.loops[d].at \in Nat
      BY <1>1, <1>2, <2>1
    <2>. QED
      BY <1>1, <1>2, <2>2
  <1>10. ASSUME NEW d \in 1..Len(f.loops)
         PROVE  /\ f.base + 2 <= f.loops[d].at /\ f.loops[d].at <= Len(stack')
                /\ \A e \in 1..Len(f.loops) : d < e => f.loops[d].at + 2 <= f.loops[e].at
    <2>1. d \in 1..n - 1 /\ d \in 1..n /\ f.loops[d] = frame.loops[d]
      BY <1>3, <1>4
    <2>2. \A e \in 1..n - 1 : d < e => f.loops[d].at + 2 <= f.loops[e].at
      BY <1>1, <1>3, <1>4, <2>1
    <2>. QED
      BY <1>1, <1>4, <1>6, <1>9, <2>1, <2>2
  <1>11. ASSUME NEW g \in 1..Len(frames), g = top
         PROVE  Sound(g)'
    <2>1. frames[g] = frame /\ frames'[g] = f
      BY <1>0, <1>1, <1>11, ExceptSeq DEF TypeOK
    <2>2. ActingAt(g)'
      BY <2>1 DEF ActingAt
    <2>3. ASSUME NEW d \in 1..Len(f.loops)
          PROVE  LoopWhole(g, d)' /\ VersionAt(g, d)' /\ OnceAt(g, d)'
      <3>1. d \in 1..n - 1 /\ d \in 1..n /\ f.loops[d] = frame.loops[d]
        BY <1>3, <1>4
      <3>2. LoopKept(g, d)
        BY <1>0, <1>5, <1>7, <1>9, <2>1, <3>1, SameLoop
      <3>3. LoopWhole(g, d) /\ VersionAt(g, d) /\ OnceAt(g, d)
        BY <1>1, <1>11, <2>1, <3>1 DEF Sound
      <3>4. VersionAt(g, d)'
        <4>1. CASE f.array = None
          <5>1. f.loops[d].over \in Collections
            BY <1>1, <3>1, FieldsOfLoop
          <5>2. f.loops[d].over # f.array
            BY <4>1, <5>1, ForeachAssumption
          <5>. QED
            BY <2>1, <5>2, Zenon DEF VersionAt
        <4>2. CASE f.array # None
          BY <1>0, <2>1, <3>2, <3>3, <4>2, VersionStays
        <4>. QED
          BY <4>1, <4>2
      <3>. QED
        BY <3>2, <3>3, <3>4, LoopStaysWhole, LoopStaysOnce
    <2>. QED
      BY <2>1, <2>2, <2>3 DEF Sound
  <1>. QED
    BY <1>6, <1>7, <1>8, <1>10, <1>11, TopChanges

(* A loop is left by a break.                                              *)
LEMMA BreakKeeps ==
  ASSUME Kept, Break
  PROVE  Kept'
  <1>. DEFINE f == [frame EXCEPT !.loops = Front(frame.loops), !.left = TRUE]
  <1>1. /\ Len(stack) = Floor(frame) /\ ~frame.atNext /\ frame.loops # << >>
        /\ frames' = [frames EXCEPT ![top] = f]
        /\ stack' = SubSeq(stack, 1, Len(stack) - 2)
        /\ UNCHANGED <<content, nulls, version, changes>>
    BY DEF Break, AtStatement, frame
  <1>2. frame \in Activation /\ frame.loops \in Seq(Loop) /\ Len(frame.loops) \in Nat
    BY RunningFrame
  <1>3. Front(frame.loops) \in Seq(Loop)
    <2>1. Len(frame.loops) - 1 \in 0..Len(frame.loops)
      BY <1>1, <1>2, EmptySeq
    <2>. QED
      BY <1>2, <2>1, Prefix DEF Front
  <1>4. /\ f \in Activation /\ f.base = frame.base /\ f.loops = Front(frame.loops)
        /\ f.atNext = frame.atNext /\ f.left /\ f.array = frame.array
        /\ f.seen_version = frame.seen_version /\ f.invalidated = frame.invalidated
    BY <1>2, <1>3 DEF Activation
  <1>5. Innermost(frame).at = Len(stack)
    BY <1>1 DEF Floor
  <1>. HIDE DEF f
  <1>. QED
    BY <1>1, <1>4, <1>5, LoopIsLeft

-----------------------------------------------------------------------------
(* A round of the innermost loop.                                          *)

(* What OP_FOREACH_NEXT finds.                                             *)
LEMMA AtNext ==
  ASSUME Kept, frame.atNext
  PROVE  LET n == Len(frame.loops)
             l == frame.loops[n]
         IN /\ frame.loops # << >> /\ n \in 1..n /\ Innermost(frame) = l
            /\ l \in Loop /\ l.over \in Collections /\ l.at = Len(stack)
            /\ Len(stack) \in 1..Len(stack) /\ frame.base <= Len(stack) - 2
            /\ stack[Len(stack) - 1].of = l.over
            /\ stack[Len(stack)].kind = "iterator" /\ stack[Len(stack)].n \in Nat
            /\ LoopWhole(top, n) /\ OnceAt(top, n)
  <1>. DEFINE n == Len(frame.loops)
              l == frame.loops[n]
  <1>0. TypeOK /\ Placed
    BY DEF Kept
  <1>1. /\ top \in 1..Len(frames) /\ frame = frames[top] /\ frame \in Activation
        /\ top = Len(frames) /\ Len(stack) \in Nat /\ frame.base \in Nat
        /\ \A d \in 1..n : /\ frame.loops[d] \in Loop /\ frame.loops[d].at \in Nat
                           /\ frame.base + 2 <= frame.loops[d].at
        /\ Sound(top)
    BY RunningFrame
  <1>2. frame.loops # << >> /\ Innermost(frame).at = Len(stack)
    BY <1>0, <1>1 DEF Placed, OnlyTopAdvances
  <1>3. n \in 1..n /\ Innermost(frame) = l
    BY <1>1, <1>2, FieldsOfFrame
  <1>4. l \in Loop /\ l.over \in Collections /\ l.at = Len(stack)
    BY <1>1, <1>2, <1>3, FieldsOfLoop
  <1>5. frame.base + 2 <= Len(stack)
    BY <1>1, <1>3, <1>4
  <1>6. Len(stack) \in 1..Len(stack) /\ frame.base <= Len(stack) - 2
    BY <1>1, <1>5
  <1>7. LoopWhole(top, n) /\ OnceAt(top, n)
    BY <1>1, <1>3 DEF Sound
  <1>8. /\ stack[Len(stack) - 1] = Object(l.over)
        /\ stack[Len(stack)].kind = "iterator" /\ stack[Len(stack)].n >= 0
    BY <1>1, <1>4, <1>7 DEF LoopWhole
  <1>9. stack[Len(stack)].n \in Nat
    BY <1>0, <1>6, <1>8, ItemAt
  <1>10. stack[Len(stack) - 1].of = l.over
    BY <1>8 DEF Object
  <1>. QED
    BY <1>2, <1>3, <1>4, <1>6, <1>7, <1>8, <1>9, <1>10

(* The loop ends.                                                          *)
LEMMA FinishKeeps ==
  ASSUME Kept, frame.atNext,
         NEW f \in Activation, f.base = frame.base, f.loops = frame.loops, f.active = Idle,
         Finish(f), UNCHANGED <<content, nulls, version, changes>>
  PROVE  Kept'
  <1>1. frame.loops # << >> /\ Innermost(frame).at = Len(stack)
    BY AtNext, Zenon
  <1>2. frame \in Activation /\ frame.loops \in Seq(Loop) /\ Len(frame.loops) \in Nat
    BY RunningFrame
  <1>3. Front(frame.loops) \in Seq(Loop)
    <2>1. Len(frame.loops) - 1 \in 0..Len(frame.loops)
      BY <1>1, <1>2, EmptySeq
    <2>. QED
      BY <1>2, <2>1, Prefix DEF Front
  <1>4. /\ Ended(f) \in Activation /\ Ended(f).base = frame.base
        /\ Ended(f).loops = Front(frame.loops) /\ ~Ended(f).atNext
        /\ Ended(f).active = Idle /\ Ended(f).array = None
    BY <1>3 DEF Ended, Activation
  <1>. QED
    BY <1>1, <1>4, LoopIsLeft DEF Finish

(* The iterator of the innermost loop moves to i.                          *)
LEMMA IteratorMoves ==
  ASSUME TypeOK, NEW p \in 1..Len(stack), NEW i \in Nat, stack' = [stack EXCEPT ![p].n = i]
  PROVE  /\ stack' \in Seq(Item) /\ Len(stack') = Len(stack)
         /\ \A q \in 1..Len(stack) : q # p => stack'[q] = stack[q]
         /\ stack'[p].n = i /\ stack'[p].kind = stack[p].kind
  <1>1. stack[p] \in Item /\ stack \in Seq(Item) /\ i \in Int
    BY ItemAt DEF TypeOK
  <1>2. PICK r \in Item : r = [stack[p] EXCEPT !.n = i] /\ r.n = i /\ r.kind = stack[p].kind
    BY <1>1, ItemWith
  <1>3. stack' = [stack EXCEPT ![p] = r]
    BY <1>2
  <1>4. /\ stack' \in Seq(Item) /\ Len(stack') = Len(stack)
        /\ \A q \in 1..Len(stack) : stack'[q] = IF q = p THEN r ELSE stack[q]
    BY <1>1, <1>3, ExceptSeq
  <1>. QED
    BY <1>2, <1>4

(* The loop goes on, its iterator at i: h is what becomes of the frame, m  *)
(* of the loop.                                                            *)
Round(h, m, i) ==
  /\ h.base = frame.base /\ ~h.atNext
  /\ h.loops = [frame.loops EXCEPT ![Len(frame.loops)] = m]
  /\ m.over = Innermost(frame).over /\ m.at = Len(stack) /\ m.clean = Innermost(frame).clean
  /\ frames' = [frames EXCEPT ![top] = h]
  /\ stack' = [stack EXCEPT ![Len(stack)].n = i]
  /\ UNCHANGED <<content, nulls, version, changes>>

(* The frame has the version of the array, for its loops over it.          *)
InTime(h, i) ==
  \A d \in 1..Len(frame.loops) :
    /\ frame.loops[d].clean /\ frame.loops[d].over = h.array
    /\ d # Len(frame.loops) => stack[frame.loops[d].at].n > 0
    /\ d = Len(frame.loops) => i > 0
    => h.seen_version = version[frame.loops[d].over] /\ ~h.invalidated

(* A visit, given what the frame says of its loops after it.               *)
LEMMA RoundKeeps ==
  ASSUME Kept, frame.atNext, NEW h \in Activation, NEW m \in Loop, NEW i \in Nat,
         Round(h, m, i), InTime(h, i),
         NEW g \in 1..Len(frames), g = top, ActingAt(g)',
         m.clean => SameElements(m.over,
                      m.seen \o SubSeq(content[m.over], i + 1, Len(content[m.over])), m.orig)
  PROVE  Kept'
  <1>. DEFINE n == Len(frame.loops)
              s == Len(stack)
              l == frame.loops[n]
  <1>0. TypeOK /\ Placed /\ OperandsWhole
    BY DEF Kept
  <1>1. /\ top \in 1..Len(frames) /\ frame = frames[top] /\ frame \in Activation
        /\ s \in Nat /\ frame.base \in Nat /\ frame.base <= s
        /\ frame.loops \in Seq(Loop) /\ n \in Nat
        /\ \A d \in 1..n :
              /\ frame.loops[d] \in Loop /\ frame.loops[d].at \in Nat
              /\ frame.base + 2 <= frame.loops[d].at /\ frame.loops[d].at <= s
              /\ \A e \in 1..n : d < e => frame.loops[d].at + 2 <= frame.loops[e].at
        /\ Sound(top)
    BY RunningFrame
  <1>2. /\ n \in 1..n /\ Innermost(frame) = l /\ l.over \in Collections /\ l.at = s
        /\ s \in 1..s /\ frame.base <= s - 2
        /\ stack[s].kind = "iterator" /\ LoopWhole(top, n)
    BY AtNext, Zenon
  <1>3. /\ stack' \in Seq(Item) /\ Len(stack') = s
        /\ \A p \in 1..s : p # s => stack'[p] = stack[p]
        /\ stack'[s].n = i /\ stack'[s].kind = "iterator"
    BY <1>0, <1>2, IteratorMoves DEF Round
  <1>6. s - 1 \in Nat /\ StackKeptTo(s - 1) /\ StackKeptTo(s - 2) /\ StackKeptTo(frame.base)
    <2>1. /\ s - 1 \in Nat /\ s - 1 <= s /\ \A p \in 1..s - 1 : p \in 1..s /\ p # s
          /\ s - 2 \in Nat /\ s - 2 <= s /\ \A p \in 1..s - 2 : p \in 1..s /\ p # s
          /\ frame.base <= s /\ \A p \in 1..frame.base : p \in 1..s /\ p # s
      BY <1>1, <1>2
    <2>. QED
      BY <1>1, <1>3, <2>1 DEF StackKeptTo
  <1>7. OperandsWhole'
    <2>1. \A p \in 1..s : stack'[p].kind = "operand" => stack'[p].n = 0
      BY <1>0, <1>3 DEF OperandsWhole
    <2>. QED
      BY <1>3, <2>1 DEF OperandsWhole
  <1>8. /\ Len(h.loops) = n /\ h.loops # << >>
        /\ \A d \in 1..n : h.loops[d] = IF d = n THEN m ELSE frame.loops[d]
    <2>1. /\ Len(h.loops) = n /\ h.loops \in Seq(Loop)
          /\ \A d \in 1..n : h.loops[d] = IF d = n THEN m ELSE frame.loops[d]
      BY <1>1, <1>2, ExceptSeq DEF Round
    <2>. QED
      BY <1>2, <2>1, EmptySeq
  <1>9. \A d \in 1..n : h.loops[d].at = frame.loops[d].at /\ h.loops[d].over = frame.loops[d].over
    BY <1>2, <1>8 DEF Round
  <1>10. \A d \in 1..Len(h.loops) :
            /\ h.base + 2 <= h.loops[d].at /\ h.loops[d].at <= Len(stack')
            /\ \A e \in 1..Len(h.loops) : d < e => h.loops[d].at + 2 <= h.loops[e].at
    <2>1. h.base = frame.base
      BY DEF Round
    <2>2. \A d \in 1..n :
            /\ h.base + 2 <= h.loops[d].at /\ h.loops[d].at <= s
            /\ \A e \in 1..n : d < e => h.loops[d].at + 2 <= h.loops[e].at
      BY <1>1, <1>9, <2>1
    <2>. QED
      BY <1>3, <1>8, <2>2
  <1>11. ASSUME NEW d \in 1..n, d # n
         PROVE  frame.loops[d].at <= s - 2
    <2>1. d < n
      BY <1>1, <1>11
    <2>2. frame.loops[d].at + 2 <= s /\ frame.loops[d].at \in Nat
      BY <1>1, <1>2, <2>1
    <2>. QED
      BY <1>1, <2>2
  <1>12. Sound(g)'
    <2>1. frames[g] = frame /\ frames'[g] = h
      BY <1>0, <1>1, ExceptSeq DEF TypeOK, Round
    <2>3. ASSUME NEW d \in 1..n, d # n
          PROVE  LoopWhole(g, d)' /\ VersionAt(g, d)' /\ OnceAt(g, d)'
      <3>1. h.loops[d] = frame.loops[d] /\ frame.loops[d].at <= s - 2 /\ s - 2 \in Nat
        BY <1>1, <1>2, <1>8, <1>11, <2>3
      <3>2. LoopKept(g, d)
        BY <1>0, <1>6, <2>1, <3>1, SameLoop DEF Round
      <3>3. LoopWhole(g, d) /\ OnceAt(g, d)
        BY <1>1, <2>1 DEF Sound
      <3>4. VersionAt(g, d)'
        <4>1. stack'[frame.loops[d].at].n = stack[frame.loops[d].at].n
          BY <2>1, <3>2 DEF LoopKept
        <4>2. /\ frame.loops[d].clean /\ frame.loops[d].over = h.array
              /\ stack[frame.loops[d].at].n > 0
              => h.seen_version = version[frame.loops[d].over] /\ ~h.invalidated
          BY <2>3 DEF InTime
        <4>. QED
          BY <2>1, <3>1, <4>1, <4>2 DEF VersionAt, Round
      <3>. QED
        BY <3>2, <3>3, <3>4, LoopStaysWhole, LoopStaysOnce
    <2>4. ASSUME NEW d \in 1..n, d = n
          PROVE  LoopWhole(g, d)' /\ VersionAt(g, d)' /\ OnceAt(g, d)'
      <3>1. /\ h.loops[d] = m /\ m.at = s /\ m.over = l.over /\ m.clean = l.clean
            /\ frame.loops[d] = l
        BY <1>2, <1>8, <2>4 DEF Round
      <3>3. stack'[s - 1] = stack[s - 1] /\ stack[s - 1] = Object(l.over)
        <4>1. s - 1 \in 1..s - 1
          BY <1>1, <1>2
        <4>2. stack'[s - 1] = stack[s - 1]
          BY <1>6, <4>1 DEF StackKeptTo
        <4>. QED
          BY <1>1, <1>2, <4>2 DEF LoopWhole
      <3>4. LoopWhole(g, d)'
        <4>1. /\ stack'[m.at - 1] = Object(m.over) /\ stack'[m.at].kind = "iterator"
              /\ stack'[m.at].n >= 0
          <5>1. i >= 0 /\ m.at - 1 = s - 1
            BY <3>1
          <5>. QED
            BY <1>3, <3>1, <3>3, <5>1
        <4>. QED
          BY <2>1, <3>1, <4>1 DEF LoopWhole, Object
      <3>5. VersionAt(g, d)'
        <4>1. /\ m.clean /\ m.over = h.array /\ i > 0
              => h.seen_version = version[m.over] /\ ~h.invalidated
          BY <2>4, <3>1 DEF InTime
        <4>. QED
          BY <1>3, <2>1, <3>1, <4>1 DEF VersionAt, Round
      <3>6. OnceAt(g, d)'
        <4>1. frames'[g].loops[d] = m /\ stack'[m.at].n = i
          BY <1>3, <2>1, <3>1
        <4>. QED
          BY <4>1 DEF OnceAt, SameElements, Round
      <3>. QED
        BY <3>4, <3>5, <3>6
    <2>. QED
      BY <1>8, <2>1, <2>3, <2>4 DEF Sound
  <1>. QED
    BY <1>3, <1>6, <1>7, <1>10, <1>12, TopChanges DEF Round

(* A visit of e, with the iterator from i to o: what counts stays in       *)
(* order.                                                                  *)
LEMMA VisitStaysOnce ==
  ASSUME NEW c, NEW a \in Seq(Elements), NEW k \in Seq(Elements), NEW i \in Nat, NEW o \in Nat,
         NEW e \in Elements, NEW t,
         SameElements(c, a \o SubSeq(k, i + 1, Len(k)), t), i < o,
         \A q \in 1..Len(k) : i < q /\ q < o => c \in Hashes /\ k[q] \in nulls[c],
         \/ o \in 1..Len(k) /\ k[o] = e
         \/ o > Len(k) /\ c \in Hashes /\ e \in nulls[c]
  PROVE  SameElements(c, Append(a, e) \o SubSeq(k, o + 1, Len(k)), t)
  <1>. DEFINE s == a \o SubSeq(k, i + 1, Len(k))
              u == Append(a, e) \o SubSeq(k, o + 1, Len(k))
              D == {x \in Elements : c \in Hashes => x \notin nulls[c]}
  <1>1. ASSUME NEW x \in D, NEW y \in D
        PROVE  /\ Contains(u, x) <=> Contains(s, x)
               /\ Precedes(u, x, y) <=> Precedes(s, x, y)
    <2>1. /\ c \in Hashes => x \notin nulls[c]
          /\ c \in Hashes => y \notin nulls[c]
      OBVIOUS
    <2>2. \A q \in 1..Len(k) : i < q /\ q < o => k[q] # x /\ k[q] # y
      BY <2>1
    <2>3. \/ o \in 1..Len(k) /\ k[o] = e
          \/ o > Len(k) /\ e # x /\ e # y
      BY <2>1
    <2>4. x \in Elements /\ y \in Elements
      OBVIOUS
    <2>. QED
      BY <2>2, <2>3, VisitKeepsOrder
  <1>2. \A x, y \in D : /\ Contains(s, x) <=> Contains(t, x)
                        /\ Precedes(s, x, y) <=> Precedes(t, x, y)
    BY DEF SameElements
  <1>. HIDE DEF s, u
  <1>3. \A x, y \in D : /\ Contains(u, x) <=> Contains(t, x)
                        /\ Precedes(u, x, y) <=> Precedes(t, x, y)
    BY <1>1, <1>2
  <1>. QED
    BY <1>3 DEF SameElements, u

(* The frame f is ready for the body to run with element e, the iterator   *)
(* at i.                                                                   *)
Ready(f, e, i) ==
  LET c == Innermost(frame).over
      k == content[c]
  IN /\ f.base = frame.base /\ f.loops = frame.loops /\ ~f.left
     /\ f.active.source = c /\ f.active.offset = Len(stack)
     /\ i >= 1
     /\ IF c \in Arrays
        THEN /\ f.active.index \in Nat /\ f.active.index + 1 = i /\ f.array = c
             /\ i <= Len(k) /\ k[i] = e
        ELSE /\ f.active.index = e
             /\ \E p \in 1..Len(k) : k[p] = e /\ (p = i \/ i > Len(k))

(* A visit of an element, of an array or of a hash.                        *)
LEMMA VisitKeeps ==
  ASSUME Kept, frame.atNext, NEW f \in Activation, NEW e \in Elements, NEW i \in Nat,
         Visit(f, e, i), Ready(f, e, i), InTime(f, i),
         UNCHANGED <<content, nulls, version, changes>>,
         Innermost(frame).clean =>
           SameElements(Innermost(frame).over,
             Append(Innermost(frame).seen, e) \o
               SubSeq(content[Innermost(frame).over], i + 1, Len(content[Innermost(frame).over])),
             Innermost(frame).orig)
  PROVE  Kept'
  <1>. DEFINE n == Len(frame.loops)
              l == Innermost(frame)
              c == l.over
              s == Len(stack)
  <1>0. TypeOK /\ Placed
    BY DEF Kept
  <1>1. /\ top \in 1..Len(frames) /\ frame = frames[top] /\ frame \in Activation
        /\ s \in Nat /\ frame.loops \in Seq(Loop) /\ n \in Nat
    BY RunningFrame
  <1>2. /\ n \in 1..n /\ l = frame.loops[n] /\ l \in Loop /\ c \in Collections /\ l.at = s
        /\ s \in 1..s
    BY AtNext, Zenon
  <1>3. f.base = frame.base /\ f.loops = frame.loops /\ Innermost(f) = l /\ Len(f.loops) = n
    BY DEF Ready, Innermost
  <1>4. PICK m \in Loop : /\ m = [l EXCEPT !.seen = IF l.clean THEN Append(l.seen, e) ELSE l.seen]
                          /\ m.seen = IF l.clean THEN Append(l.seen, e) ELSE l.seen
                          /\ m.over = c /\ m.at = s /\ m.clean = l.clean /\ m.orig = l.orig
    <2>1. l.seen \in Seq(Elements)
      BY <1>2, FieldsOfLoop
    <2>2. Append(l.seen, e) \in Seq(Elements)
      BY <2>1, AppendProperties
    <2>3. PICK a \in Seq(Elements) : a = IF l.clean THEN Append(l.seen, e) ELSE l.seen
      BY <2>1, <2>2
    <2>4. /\ [l EXCEPT !.seen = a] \in Loop /\ [l EXCEPT !.seen = a].seen = a
          /\ [l EXCEPT !.seen = a].over = c /\ [l EXCEPT !.seen = a].at = l.at
          /\ [l EXCEPT !.seen = a].clean = l.clean /\ [l EXCEPT !.seen = a].orig = l.orig
      BY <1>2 DEF Loop
    <2>. QED
      BY <1>2, <2>3, <2>4
  <1>5. /\ [frame.loops EXCEPT ![n] = m] \in Seq(Loop)
        /\ Len([frame.loops EXCEPT ![n] = m]) = n
        /\ [frame.loops EXCEPT ![n] = m][n] = m
    BY <1>1, <1>2, ExceptSeq
  <1>6. PICK h \in Activation :
           /\ h = [f EXCEPT !.atNext = FALSE, !.loops = [frame.loops EXCEPT ![n] = m]]
           /\ h.base = frame.base /\ ~h.atNext /\ h.loops = [frame.loops EXCEPT ![n] = m]
           /\ h.array = f.array /\ h.seen_version = f.seen_version
           /\ h.invalidated = f.invalidated /\ h.active = f.active /\ h.left = f.left
    <2>1. PICK r \in Seq(Loop) : r = [frame.loops EXCEPT ![n] = m]
      BY <1>5
    <2>2. LET h == [f EXCEPT !.atNext = FALSE, !.loops = r]
          IN /\ h \in Activation /\ h.base = f.base /\ ~h.atNext /\ h.loops = r
             /\ h.array = f.array /\ h.seen_version = f.seen_version
             /\ h.invalidated = f.invalidated /\ h.active = f.active /\ h.left = f.left
      BY DEF Activation
    <2>. QED
      BY <1>3, <2>1, <2>2
  <1>7. frames' = [frames EXCEPT ![top] = h]
    <2>1. [f EXCEPT !.atNext = FALSE,
                    !.loops[Len(f.loops)].seen =
                      IF Innermost(f).clean THEN Append(@, e) ELSE @] = h
      <3>1. [f.loops EXCEPT ![n].seen = IF l.clean THEN Append(@, e) ELSE @]
            = [frame.loops EXCEPT ![n] = m]
        BY <1>2, <1>3, <1>4
      <3>. QED
        BY <1>3, <1>6, <3>1
    <2>. QED
      BY <2>1 DEF Visit
  <1>8. Round(h, m, i)
    BY <1>4, <1>6, <1>7 DEF Round, Visit
  <1>9. InTime(h, i)
    BY <1>6 DEF InTime
  <1>10. PICK g \in 1..Len(frames) : g = top
    BY <1>1
  <1>11. ActingAt(g)'
    <2>1. frames'[g] = h
      BY <1>0, <1>7, <1>10, ExceptSeq DEF TypeOK
    <2>2. /\ h.loops # << >> /\ Innermost(h) = m
      <3>1. h.loops \in Seq(Loop) /\ Len(h.loops) = n /\ h.loops[n] = m
        BY <1>5, <1>6
      <3>2. h.loops # << >>
        BY <1>2, <3>1, EmptySeq
      <3>. QED
        BY <1>6, <3>1, <3>2, FieldsOfFrame
    <2>3. Innermost(frames'[g]) = m
      BY <2>1, <2>2
    <2>4. stack'[m.at].n = i /\ content' = content
      BY <1>0, <1>2, <1>4, IteratorMoves DEF Visit
    <2>5. /\ h.active.source = m.over /\ h.active.offset = m.at
          /\ i >= 1
      BY <1>4, <1>6 DEF Ready
    <2>6. m.clean => m.seen # << >> /\ Last(m.seen) = e
      <3>1. l.seen \in Seq(Elements)
        BY <1>2, FieldsOfLoop
      <3>2. Append(l.seen, e) # << >> /\ Last(Append(l.seen, e)) = e
        BY <3>1, OneMore
      <3>. QED
        BY <1>4, <3>2
    <2>7. AtElement(frames[g], Innermost(frames[g]))'
      <3>1. CASE c \in Arrays
        <4>1. /\ f.active.index \in Nat /\ f.active.index + 1 = i /\ f.array = c
              /\ i <= Len(content[c]) /\ content[c][i] = e
          BY <3>1 DEF Ready
        <4>2. /\ frames'[g].active.index \in Nat /\ frames'[g].active.index + 1 = i
              /\ frames'[g].array = c /\ m.over = c
          BY <1>4, <1>6, <2>1, <4>1
        <4>3. m.clean => content[c][i] = Last(m.seen)
          BY <2>6, <4>1
        <4>4. /\ frames'[g].active.index + 1 = stack'[m.at].n
              /\ m.clean => /\ frames'[g].active.index + 1 <= Len(content'[m.over])
                            /\ content'[m.over][frames'[g].active.index + 1] = Last(m.seen)
          BY <2>4, <4>1, <4>2, <4>3
        <4>. QED
          BY <2>3, <3>1, <4>2, <4>4, Zenon DEF AtElement
      <3>2. CASE c \notin Arrays
        <4>1. f.active.index = e
          BY <3>2 DEF Ready
        <4>2. PICK p \in 1..Len(content[c]) : content[c][p] = e /\ (p = i \/ i > Len(content[c]))
          BY <3>2 DEF Ready
        <4>3. /\ frames'[g].active.index = e /\ m.over = c
              /\ m.clean => frames'[g].active.index = Last(m.seen)
          BY <1>4, <1>6, <2>1, <2>6, <4>1
        <4>4. /\ content'[m.over][p] = frames'[g].active.index
              /\ p = stack'[m.at].n \/ stack'[m.at].n > Len(content'[m.over])
              /\ p \in 1..Len(content'[m.over])
          BY <2>4, <4>2, <4>3
        <4>. QED
          BY <2>3, <3>2, <4>3, <4>4, Zenon DEF AtElement
      <3>. QED
        BY <3>1, <3>2
    <2>. QED
      BY <2>1, <2>2, <2>3, <2>4, <2>5, <2>6, <2>7 DEF ActingAt
  <1>12. m.clean => SameElements(m.over,
            m.seen \o SubSeq(content[m.over], i + 1, Len(content[m.over])), m.orig)
    BY <1>4
  <1>. QED
    BY <1>8, <1>9, <1>10, <1>11, <1>12, RoundKeeps

(* What every OP_FOREACH_NEXT starts from.                                 *)
LEMMA ResetFrame ==
  ASSUME NEW f \in Activation
  PROVE  /\ Reset(f) \in Activation /\ Reset(f).active = Idle /\ ~Reset(f).left
         /\ Reset(f).base = f.base /\ Reset(f).loops = f.loops /\ Reset(f).array = f.array
         /\ Reset(f).seen_version = f.seen_version /\ Reset(f).invalidated = f.invalidated
  BY ItemsTyped DEF Reset, Activation

(* The frame has taken the version of the array, or it has the version of  *)
(* the round before.                                                       *)
LEMMA SyncedFrame ==
  ASSUME TypeOK, NEW f \in Activation, NEW c \in Arrays, NEW i \in Nat
  PROVE  LET h == Synced(f, c, i)
         IN /\ h \in Activation /\ h.active = f.active /\ h.left = f.left
            /\ h.base = f.base /\ h.loops = f.loops /\ h.array = c
            /\ i = 0 \/ f.array # c => h.seen_version = version[c] /\ ~h.invalidated
            /\ ~(i = 0 \/ f.array # c) => h = f
  <1>1. version[c] \in Nat
    BY DEF TypeOK
  <1>2. CASE i = 0 \/ f.array # c
    <2>1. LET h == [f EXCEPT !.array = c, !.seen_version = version[c], !.invalidated = FALSE]
          IN /\ h \in Activation /\ h.active = f.active /\ h.left = f.left
             /\ h.base = f.base /\ h.loops = f.loops /\ h.array = c
             /\ h.seen_version = version[c] /\ ~h.invalidated
      BY <1>1 DEF Activation
    <2>. QED
      BY <1>2, <2>1 DEF Synced
  <1>3. CASE ~(i = 0 \/ f.array # c)
    BY <1>3 DEF Synced
  <1>. QED
    BY <1>2, <1>3

(* Both.                                                                   *)
LEMMA FrameAtNext ==
  ASSUME TypeOK, frame \in Activation, NEW c \in Arrays, NEW i \in Nat
  PROVE  \E f \in Activation :
           /\ f = Synced(Reset(frame), c, i)
           /\ f.active = Idle /\ ~f.left /\ f.base = frame.base /\ f.loops = frame.loops
           /\ f.array = c
           /\ i = 0 \/ frame.array # c => f.seen_version = version[c] /\ ~f.invalidated
           /\ ~(i = 0 \/ frame.array # c) => /\ f.seen_version = frame.seen_version
                                            /\ f.invalidated = frame.invalidated
  <1>1. PICK r \in Activation :
           /\ r = Reset(frame) /\ r.active = Idle /\ ~r.left /\ r.base = frame.base
           /\ r.loops = frame.loops /\ r.array = frame.array
           /\ r.seen_version = frame.seen_version /\ r.invalidated = frame.invalidated
    <2>1. LET r == Reset(frame)
          IN /\ r \in Activation /\ r.active = Idle /\ ~r.left /\ r.base = frame.base
             /\ r.loops = frame.loops /\ r.array = frame.array
             /\ r.seen_version = frame.seen_version /\ r.invalidated = frame.invalidated
      BY ResetFrame
    <2>. QED
      BY <2>1, Zenon
  <1>2. LET h == Synced(r, c, i)
        IN /\ h \in Activation /\ h.active = r.active /\ h.left = r.left
           /\ h.base = r.base /\ h.loops = r.loops /\ h.array = c
           /\ i = 0 \/ r.array # c => h.seen_version = version[c] /\ ~h.invalidated
           /\ ~(i = 0 \/ r.array # c) => h = r
    BY SyncedFrame
  <1>3. PICK h \in Activation :
           /\ h = Synced(r, c, i) /\ h.active = r.active /\ h.left = r.left
           /\ h.base = r.base /\ h.loops = r.loops /\ h.array = c
           /\ i = 0 \/ r.array # c => h.seen_version = version[c] /\ ~h.invalidated
           /\ ~(i = 0 \/ r.array # c) => h = r
    BY <1>2, Zenon
  <1>. QED
    BY <1>1, <1>3

(* What remove() will need is in the frame.                                *)
LEMMA ActivatedFrame ==
  ASSUME TypeOK, NEW f \in Activation, NEW c \in Collections, NEW x \in Nat \cup Elements
  PROVE  \E h \in Activation :
            /\ h = Activated(f, c, x)
            /\ h.base = f.base /\ h.loops = f.loops /\ h.left = f.left
            /\ h.array = f.array /\ h.seen_version = f.seen_version
            /\ h.invalidated = f.invalidated
            /\ h.active.source = c /\ h.active.index = x /\ h.active.offset = Len(stack)
  <1>1. PICK a \in Activity : a = [source |-> c, index |-> x, offset |-> Len(stack)]
    <2>1. PICK o \in Int : o = Len(stack)
      BY Lengths
    <2>2. c \in Collections \cup {None} /\ x \in Nat \cup Elements \cup {None}
      OBVIOUS
    <2>3. [source |-> c, index |-> x, offset |-> o] \in Activity
      BY <2>2 DEF Activity
    <2>. QED
      BY <2>1, <2>3
  <1>2. LET h == [f EXCEPT !.active = a]
        IN /\ h \in Activation /\ h.base = f.base /\ h.loops = f.loops /\ h.left = f.left
           /\ h.array = f.array /\ h.seen_version = f.seen_version
           /\ h.invalidated = f.invalidated /\ h.active = a
    BY DEF Activation
  <1>3. Activated(f, c, x) = [f EXCEPT !.active = a]
    BY <1>1 DEF Activated
  <1>4. PICK h \in Activation :
           /\ h = Activated(f, c, x) /\ h.active = a
           /\ h.base = f.base /\ h.loops = f.loops /\ h.left = f.left
           /\ h.array = f.array /\ h.seen_version = f.seen_version
           /\ h.invalidated = f.invalidated
    BY <1>2, <1>3, Zenon
  <1>5. a.source = c /\ a.index = x /\ a.offset = Len(stack)
    BY <1>1
  <1>. QED
    BY <1>4, <1>5, Zenon

(* A round over an array.                                                  *)
LEMMA NextOfArrayKeeps ==
  ASSUME Kept, frame.atNext, NEW c \in Arrays, c = Innermost(frame).over,
         NEW i \in Nat, i = stack[Len(stack)].n, NextOfArray(c, i),
         UNCHANGED <<content, nulls, version, changes>>
  PROVE  Kept'
  <1>. DEFINE n == Len(frame.loops)
              l == Innermost(frame)
              k == content[c]
  <1>0. TypeOK
    BY DEF Kept
  <1>1. /\ top \in 1..Len(frames) /\ frame = frames[top] /\ frame \in Activation
        /\ frame.loops \in Seq(Loop) /\ Sound(top)
    BY RunningFrame
  <1>2. /\ n \in 1..n /\ l = frame.loops[n] /\ l \in Loop /\ l.at = Len(stack)
        /\ OnceAt(top, n)
    BY AtNext, Zenon
  <1>3. PICK f \in Activation :
           /\ f = Synced(Reset(frame), c, i)
           /\ f.active = Idle /\ ~f.left /\ f.base = frame.base /\ f.loops = frame.loops
           /\ f.array = c
           /\ i = 0 \/ frame.array # c => f.seen_version = version[c] /\ ~f.invalidated
           /\ ~(i = 0 \/ frame.array # c) => /\ f.seen_version = frame.seen_version
                                            /\ f.invalidated = frame.invalidated
    BY <1>0, <1>1, FrameAtNext
  <1>4. l.clean /\ i > 0 /\ frame.array = c => frame.seen_version = version[c]
    BY <1>1, <1>2 DEF Sound, VersionAt
  <1>5. CASE Finish(f)
    BY <1>1, <1>3, <1>5, FinishKeeps
  <1>6. CASE /\ i > 0 /\ f.seen_version # version[c]
             /\ frames' = [frames EXCEPT ![top] = [f EXCEPT !.invalidated = TRUE, !.atNext = FALSE]]
             /\ stack' = [stack EXCEPT ![Len(stack)].n = i + 1]
    <2>1. PICK h \in Activation :
             /\ h = [f EXCEPT !.invalidated = TRUE, !.atNext = FALSE]
             /\ h.active = Idle /\ h.base = frame.base /\ ~h.atNext /\ h.loops = frame.loops
             /\ h.array = c
      <3>1. LET h == [f EXCEPT !.invalidated = TRUE, !.atNext = FALSE]
            IN /\ h \in Activation /\ h.active = f.active /\ h.base = f.base /\ ~h.atNext
               /\ h.loops = f.loops /\ h.array = f.array
        BY DEF Activation
      <3>. QED
        BY <1>3, <3>1, Zenon
    <2>2. frame.array = c /\ frame.seen_version # version[c] /\ ~l.clean
      BY <1>3, <1>4, <1>6
    <2>3. Round(h, l, i + 1)
      <3>1. frame.loops = [frame.loops EXCEPT ![n] = l]
        BY <1>1, <1>2
      <3>. QED
        BY <1>2, <1>6, <2>1, <3>1 DEF Round
    <2>4. InTime(h, i + 1)
      <3>1. ASSUME NEW d \in 1..n, frame.loops[d].clean, frame.loops[d].over = c,
                   stack[frame.loops[d].at].n > 0
            PROVE  FALSE
        BY <1>1, <2>2, <3>1 DEF Sound, VersionAt
      <3>2. ASSUME NEW d \in 1..n, frame.loops[d].clean, frame.loops[d].over = c,
                   d # n => stack[frame.loops[d].at].n > 0
            PROVE  FALSE
        BY <1>2, <2>2, <3>1, <3>2
      <3>. QED
        BY <2>1, <3>2 DEF InTime
    <2>5. PICK g \in 1..Len(frames) : g = top
      BY <1>1
    <2>6. ActingAt(g)'
      <3>1. frames'[g] = h
        BY <1>0, <2>3, <2>5, ExceptSeq DEF TypeOK, Round
      <3>. QED
        BY <2>1, <3>1 DEF ActingAt, Idle
    <2>. QED
      BY <1>2, <2>2, <2>3, <2>4, <2>5, <2>6, RoundKeeps
  <1>7. CASE /\ ~f.invalidated /\ ~(i > 0 /\ f.seen_version # version[c])
             /\ i \in 0..Len(k) - 1
             /\ Visit(Activated(f, c, i), k[i + 1], i + 1)
    <2>1. k \in Seq(Elements) /\ Len(k) \in Nat /\ c \in Collections
      BY <1>0, ContentOf DEF Collections
    <2>2. i + 1 \in 1..Len(k) /\ i + 1 \in Nat
      BY <1>7, <2>1
    <2>3. PICK e \in Elements : e = k[i + 1]
      BY <2>1, <2>2, ElementOfSeq
    <2>9. c \in Collections /\ i \in Nat \cup Elements
      BY <2>1
    <2>10. PICK h \in Activation :
             /\ h = Activated(f, c, i)
             /\ h.base = f.base /\ h.loops = f.loops /\ h.left = f.left
             /\ h.array = f.array /\ h.seen_version = f.seen_version
             /\ h.invalidated = f.invalidated
             /\ h.active.source = c /\ h.active.index = i /\ h.active.offset = Len(stack)
      BY <1>0, <2>9, ActivatedFrame
    <2>4. /\ h.base = frame.base /\ h.loops = frame.loops /\ ~h.left /\ h.array = c
      BY <1>3, <2>10
    <2>5. Visit(h, e, i + 1)
      BY <1>7, <2>3, <2>10
    <2>6. Ready(h, e, i + 1)
      BY <2>1, <2>2, <2>3, <2>4, <2>10 DEF Ready
    <2>7. InTime(h, i + 1)
      <3>1. f.seen_version = version[c]
        BY <1>3, <1>7
      <3>. QED
        BY <1>7, <2>4, <2>10, <3>1 DEF InTime
    <2>8. ASSUME l.clean
          PROVE  SameElements(c, Append(l.seen, e) \o SubSeq(k, (i + 1) + 1, Len(k)), l.orig)
      <3>1. SameElements(c, l.seen \o SubSeq(k, i + 1, Len(k)), l.orig)
        BY <1>1, <1>2, <2>8 DEF OnceAt
      <3>2. l.seen \in Seq(Elements)
        BY <1>2, FieldsOfLoop
      <3>3. i < i + 1 /\ \A q \in 1..Len(k) : ~(i < q /\ q < i + 1)
        BY <2>1
      <3>4. i + 1 \in 1..Len(k) /\ k[i + 1] = e
        BY <2>2, <2>3
      <3>. QED
        BY <2>1, <2>2, <3>1, <3>2, <3>3, <3>4, VisitStaysOnce
    <2>. QED
      BY <2>2, <2>5, <2>6, <2>7, <2>8, VisitKeeps
  <1>. QED
    BY <1>3, <1>5, <1>6, <1>7 DEF NextOfArray

(* Which key of a hash with keys k, those in Z bound to $null, the next    *)
(* round visits, and its ordinal.                                          *)
Remaining(k, Z, i) == {j \in i..Len(k) - 1 : k[j + 1] \notin Z}
Ordinal(k, Z, i) == IF Remaining(k, Z, i) = {} THEN Len(k) ELSE Min(Remaining(k, Z, i))
Key(k, Z, i) == IF Remaining(k, Z, i) = {} THEN Last(k) ELSE k[Ordinal(k, Z, i) + 1]

(* It is key e, at position o; the keys passed over are bound to $null, and *)
(* so is the last key when it is visited in their place.                   *)
NextKey(k, Z, i, e, o) ==
  /\ e = Key(k, Z, i) /\ o = Ordinal(k, Z, i) + 1 /\ o >= 1 /\ i < o
  /\ \A q \in 1..Len(k) : i < q /\ q < o => k[q] \in Z
  /\ (o \in 1..Len(k) /\ k[o] = e) \/ (o > Len(k) /\ e \in Z)
  /\ \E p \in 1..Len(k) : k[p] = e /\ (p = o \/ o > Len(k))

(* There is such a key while the ordinal is in range.                      *)
LEMMA KeyToVisit ==
  ASSUME NEW k \in Seq(Elements), NEW Z \in SUBSET Elements, NEW i \in 0..Len(k) - 1
  PROVE  \E e \in Elements, o \in Nat : NextKey(k, Z, i, e, o)
  <1>. DEFINE left == Remaining(k, Z, i)
              ordinal == Ordinal(k, Z, i)
              e == Key(k, Z, i)
  <1>0. Len(k) \in Nat /\ i \in Nat /\ i < Len(k) /\ Len(k) \in 1..Len(k)
    BY LenProperties
  <1>1. \A j \in 1..Len(k) : k[j] \in Elements
    BY ElementOfSeq
  <1>2. ASSUME NEW q \in 1..Len(k), i < q, k[q] \notin Z
        PROVE  q - 1 \in left
    <2>1. q - 1 \in i..Len(k) - 1 /\ (q - 1) + 1 = q
      BY <1>0, <1>2
    <2>. QED
      BY <1>2, <2>1 DEF Remaining
  <1>3. CASE left = {}
    <2>1. k # << >>
      BY <1>0, EmptySeq
    <2>2. Last(k) = k[Len(k)]
      BY <2>1, LastElement
    <2>3. ordinal = Len(k) /\ e = k[Len(k)]
      BY <1>3, <2>2 DEF Ordinal, Key
    <2>4. \A q \in 1..Len(k) : i < q => k[q] \in Z
      BY <1>2, <1>3
    <2>. HIDE DEF left, ordinal, e
    <2>5. e \in Elements /\ e \in Z
      BY <1>0, <1>1, <2>3, <2>4
    <2>6. Len(k) + 1 > Len(k) /\ i < Len(k) + 1
      BY <1>0
    <2>7. /\ e \in Elements /\ ordinal \in Nat /\ i < ordinal + 1
          /\ \A q \in 1..Len(k) : i < q /\ q < ordinal + 1 => k[q] \in Z
          /\ ordinal + 1 > Len(k) /\ e \in Z
      BY <1>0, <2>3, <2>4, <2>5, <2>6
    <2>8. \E p \in 1..Len(k) : k[p] = e /\ (p = ordinal + 1 \/ ordinal + 1 > Len(k))
      BY <1>0, <2>3, <2>7
    <2>9. ordinal + 1 \in Nat /\ ordinal + 1 >= 1
      BY <2>7
    <2>. QED
      BY <2>7, <2>8, <2>9 DEF ordinal, e, NextKey
  <1>4. CASE left # {}
    <2>1. left \in SUBSET Nat
      BY <1>0 DEF Remaining
    <2>2. Min(left) \in left /\ \A x \in left : Min(left) <= x
      <3>. HIDE DEF left
      <3>. QED
        BY <1>4, <2>1, LeastOf
    <2>3. ordinal \in i..Len(k) - 1 /\ e = k[ordinal + 1] /\ \A x \in left : ordinal <= x
      BY <1>4, <2>2 DEF Ordinal, Key, Remaining
    <2>. HIDE DEF left, ordinal, e
    <2>4. ordinal \in Nat /\ i < ordinal + 1 /\ ordinal + 1 \in 1..Len(k)
      BY <1>0, <2>3
    <2>5. ASSUME NEW q \in 1..Len(k), i < q, q < ordinal + 1
          PROVE  k[q] \in Z
      <3>1. ~(ordinal <= q - 1)
        BY <1>0, <2>4, <2>5
      <3>. QED
        BY <1>2, <2>3, <2>5, <3>1
    <2>6. ordinal + 1 \in Nat /\ ordinal + 1 >= 1
      BY <2>4
    <2>7. e \in Elements /\ k[ordinal + 1] = e
      BY <1>1, <2>3, <2>4
    <2>. QED
      BY <2>4, <2>5, <2>6, <2>7 DEF ordinal, e, NextKey
  <1>. QED
    BY <1>3, <1>4

(* A round over a hash.                                                    *)
LEMMA NextOfHashKeeps ==
  ASSUME Kept, frame.atNext, NEW c \in Hashes, c = Innermost(frame).over,
         NEW i \in Nat, i = stack[Len(stack)].n, NextOfHash(c, i),
         UNCHANGED <<content, nulls, version, changes>>
  PROVE  Kept'
  <1>. DEFINE n == Len(frame.loops)
              l == Innermost(frame)
              k == content[c]
              ordinal == Ordinal(k, nulls[c], i)
              key == Key(k, nulls[c], i)
  <1>0. TypeOK
    BY DEF Kept
  <1>1. /\ top \in 1..Len(frames) /\ frame = frames[top] /\ frame \in Activation
        /\ frame.loops \in Seq(Loop) /\ Sound(top)
    BY RunningFrame
  <1>2. /\ n \in 1..n /\ l = frame.loops[n] /\ l \in Loop /\ l.at = Len(stack)
        /\ OnceAt(top, n)
    BY AtNext, Zenon
  <1>3. PICK f \in Activation :
           /\ f = Reset(frame) /\ f.active = Idle /\ ~f.left /\ f.base = frame.base
           /\ f.loops = frame.loops /\ f.array = frame.array
           /\ f.seen_version = frame.seen_version /\ f.invalidated = frame.invalidated
    <2>1. LET r == Reset(frame)
          IN /\ r \in Activation /\ r.active = Idle /\ ~r.left /\ r.base = frame.base
             /\ r.loops = frame.loops /\ r.array = frame.array
             /\ r.seen_version = frame.seen_version /\ r.invalidated = frame.invalidated
      BY <1>1, ResetFrame
    <2>. QED
      BY <2>1, Zenon
  <1>4. /\ k \in Seq(Elements) /\ Len(k) \in Nat /\ c \in Collections /\ c \notin Arrays
        /\ nulls[c] \in SUBSET Elements
        /\ c # frame.array
    <2>1. frame.array \in Arrays \cup {None}
      BY <1>1, FieldsOfFrame
    <2>2. c \in Collections /\ c \notin Arrays /\ c # None
      BY ForeachAssumption DEF Collections
    <2>. QED
      BY <1>0, <2>1, <2>2, ContentOf DEF TypeOK
  <1>5. CASE Finish(f)
    BY <1>1, <1>3, <1>5, FinishKeeps
  <1>6. CASE i \in 0..Len(k) - 1 /\ Visit(Activated(f, c, key), key, ordinal + 1)
    <2>1. PICK z \in SUBSET Elements : z = nulls[c]
      BY <1>4
    <2>2. PICK e \in Elements, o \in Nat :
             /\ e = Key(k, z, i) /\ o = Ordinal(k, z, i) + 1 /\ o >= 1 /\ i < o
             /\ \A q \in 1..Len(k) : i < q /\ q < o => k[q] \in z
             /\ (o \in 1..Len(k) /\ k[o] = e) \/ (o > Len(k) /\ e \in z)
             /\ \E p \in 1..Len(k) : k[p] = e /\ (p = o \/ o > Len(k))
      <3>1. PICK y \in Seq(Elements) : y = k
        BY <1>4
      <3>2. i \in 0..Len(y) - 1
        BY <1>6, <3>1
      <3>3. \E e \in Elements, o \in Nat : NextKey(y, z, i, e, o)
        BY <3>2, KeyToVisit
      <3>. QED
        BY <3>1, <3>3, Zenon DEF NextKey
    <2>3. e \in Nat \cup Elements /\ e = key /\ o = ordinal + 1
      BY <2>1, <2>2
    <2>4. PICK h \in Activation :
             /\ h = Activated(f, c, e)
             /\ h.base = f.base /\ h.loops = f.loops /\ h.left = f.left
             /\ h.array = f.array /\ h.seen_version = f.seen_version
             /\ h.invalidated = f.invalidated
             /\ h.active.source = c /\ h.active.index = e /\ h.active.offset = Len(stack)
      <3>1. PICK q \in Collections, x \in Nat \cup Elements : q = c /\ x = e
        BY <1>4, <2>3
      <3>2. \E h \in Activation :
             /\ h = Activated(f, q, x)
             /\ h.base = f.base /\ h.loops = f.loops /\ h.left = f.left
             /\ h.array = f.array /\ h.seen_version = f.seen_version
             /\ h.invalidated = f.invalidated
             /\ h.active.source = q /\ h.active.index = x /\ h.active.offset = Len(stack)
        BY <1>0, ActivatedFrame
      <3>. QED
        BY <3>1, <3>2, Zenon
    <2>5. Visit(h, e, o)
      BY <1>6, <2>3, <2>4
    <2>6. Ready(h, e, o)
      BY <1>3, <1>4, <2>2, <2>4 DEF Ready
    <2>7. InTime(h, o)
      <3>1. ASSUME NEW d \in 1..n, frame.loops[d].clean, frame.loops[d].over = h.array,
                   d # n => stack[frame.loops[d].at].n > 0
            PROVE  h.seen_version = version[frame.loops[d].over] /\ ~h.invalidated
        <4>1. h.array = frame.array /\ d # n
          BY <1>2, <1>3, <1>4, <2>4, <3>1
        <4>2. VersionAt(top, d)
          BY <1>1 DEF Sound
        <4>. QED
          BY <1>1, <1>3, <2>4, <3>1, <4>1, <4>2 DEF VersionAt
      <3>. QED
        BY <3>1 DEF InTime
    <2>8. ASSUME l.clean
          PROVE  SameElements(c, Append(l.seen, e) \o SubSeq(k, o + 1, Len(k)), l.orig)
      <3>1. SameElements(c, l.seen \o SubSeq(k, i + 1, Len(k)), l.orig)
        BY <1>1, <1>2, <2>8 DEF OnceAt
      <3>2. l.seen \in Seq(Elements)
        BY <1>2, FieldsOfLoop
      <3>3. i < o /\ \A q \in 1..Len(k) : i < q /\ q < o => c \in Hashes /\ k[q] \in nulls[c]
        BY <2>1, <2>2
      <3>4. \/ o \in 1..Len(k) /\ k[o] = e
            \/ o > Len(k) /\ c \in Hashes /\ e \in nulls[c]
        BY <2>1, <2>2
      <3>. HIDE DEF k, l
      <3>. QED
        BY <1>4, <3>1, <3>2, <3>3, <3>4, VisitStaysOnce
    <2>. QED
      BY <2>5, <2>6, <2>7, <2>8, VisitKeeps
  <1>7. CASE i \notin 0..Len(k) - 1 /\ Finish(Reset(frame))
    BY <1>3, <1>5, <1>7
  <1>8. \/ i \in 0..Len(k) - 1 /\ Visit(Activated(f, c, key), key, ordinal + 1)
        \/ i \notin 0..Len(k) - 1 /\ Finish(Reset(frame))
    BY <1>3, Zenon DEF NextOfHash, Key, Ordinal, Remaining
  <1>. QED
    BY <1>6, <1>7, <1>8

(* A round of the loop whose iterator is on top of the stack.              *)
LEMMA AdvanceKeeps ==
  ASSUME Kept, Advance
  PROVE  Kept'
  <1>. DEFINE c == stack[Len(stack) - 1].of
              i == stack[Len(stack)].n
  <1>1. /\ Innermost(frame).over \in Collections /\ c = Innermost(frame).over /\ i \in Nat
        /\ frame.atNext
    BY AtNext, Zenon DEF Advance
  <1>2. c # None
    BY <1>1, ForeachAssumption
  <1>3. /\ \/ c \in Arrays /\ NextOfArray(c, i)
           \/ c \in Hashes /\ NextOfHash(c, i)
        /\ UNCHANGED <<content, nulls, version, changes>>
    BY <1>2 DEF Advance
  <1>. QED
    BY <1>1, <1>3, NextOfArrayKeeps, NextOfHashKeeps

-----------------------------------------------------------------------------
(* Calls and returns.                                                      *)

(* A call.                                                                 *)
LEMMA CallKeeps ==
  ASSUME Kept, Call
  PROVE  Kept'
  <1>. DEFINE s == Len(stack)
              n == Len(frames)
  <1>0. TypeOK /\ Placed /\ OperandsWhole
    BY DEF Kept
  <1>1. /\ n \in Nat /\ s \in Nat /\ top = n /\ top \in 1..n /\ frame = frames[top]
        /\ Floor(frame) \in Nat /\ Floor(frame) <= s
        /\ \A g \in 1..n :
              /\ frames[g].base <= Floor(frame) /\ frames[g].base \in Nat
              /\ \A d \in 1..Len(frames[g].loops) :
                   frames[g].loops[d].at <= Floor(frame) /\ frames[g].loops[d].at \in Nat
    BY <1>0, Lengths, FloorIsTop, FrameAt, FieldsOfFrame, LoopAt, FieldsOfLoop DEF frame
  <1>2. PICK f \in Activation :
           f = NewFrame(s + 1) /\ f.base = s + 1 /\ f.loops = << >> /\ ~f.atNext /\ f.active = Idle
    <2>1. /\ Idle \in Activity /\ << >> \in Seq(Loop) /\ s + 1 \in Nat /\ 0 \in Nat
      BY <1>1, ItemsTyped, EmptySeq
    <2>2. LET f == NewFrame(s + 1)
          IN /\ f \in Activation /\ f.base = s + 1 /\ f.loops = << >> /\ ~f.atNext
             /\ f.active = Idle
      <3>. HIDE DEF s
      <3>. QED
        BY <2>1 DEF NewFrame, Activation
    <2>. QED
      BY <2>2, Zenon
  <1>3. /\ frames' \in Seq(Activation) /\ Len(frames') = n + 1 /\ frames' # << >>
        /\ \A g \in 1..n : frames'[g] = frames[g]
        /\ frames'[n + 1] = f
    <2>1. frames \in Seq(Activation) /\ frames' = Append(frames, f)
      BY <1>0, <1>2 DEF Call, TypeOK
    <2>. QED
      BY <1>1, <2>1, AppendProperties
  <1>4. /\ stack' \in Seq(Item) /\ Len(stack') = s + 1
        /\ \A p \in 1..s : stack'[p] = stack[p]
        /\ stack'[s + 1] = Operand
    <2>1. stack \in Seq(Item) /\ stack' = Append(stack, Operand) /\ Operand \in Item
      BY <1>0, ItemsTyped DEF Call, TypeOK
    <2>. QED
      BY <1>1, <2>1, AppendProperties
  <1>5. UNCHANGED <<content, nulls, version, changes>>
    BY DEF Call
  <1>6. TypeOK'
    BY <1>0, <1>3, <1>4, <1>5 DEF TypeOK
  <1>7. Distinct'
    BY <1>5 DEF Kept, Distinct
  <1>8. OperandsWhole'
    <2>1. \A p \in 1..s + 1 : p \in 1..s \/ p = s + 1
      BY <1>1
    <2>2. \A p \in 1..s + 1 : stack'[p].kind = "operand" => stack'[p].n = 0
      BY <1>0, <1>4, <2>1, ItemsTyped DEF OperandsWhole
    <2>. QED
      BY <1>4, <2>2 DEF OperandsWhole
  <1>9. \A g \in 1..n + 1 : g \in 1..n \/ g = n + 1
    BY <1>1
  <1>10. LoopsPlaced'
    <2>1. ASSUME NEW g \in 1..n
          PROVE  /\ frames[g].base <= s + 1
                 /\ \A d \in 1..Len(frames[g].loops) : frames[g].loops[d].at <= s + 1
      BY <1>1
    <2>2. \A g \in 1..n :
            /\ frames[g].base <= s + 1
            /\ \A d \in 1..Len(frames[g].loops) :
                 /\ frames[g].base + 2 <= frames[g].loops[d].at
                 /\ frames[g].loops[d].at <= s + 1
                 /\ \A e \in 1..Len(frames[g].loops) :
                      d < e => frames[g].loops[d].at + 2 <= frames[g].loops[e].at
      BY <1>0, <2>1 DEF Placed, LoopsPlaced
    <2>3. f.base <= s + 1 /\ ~\E d \in 1..Len(f.loops) : TRUE
      BY <1>1, <1>2
    <2>4. \A g \in 1..n + 1 :
            /\ frames'[g].base <= s + 1
            /\ \A d \in 1..Len(frames'[g].loops) :
                 /\ frames'[g].base + 2 <= frames'[g].loops[d].at
                 /\ frames'[g].loops[d].at <= s + 1
                 /\ \A e \in 1..Len(frames'[g].loops) :
                      d < e => frames'[g].loops[d].at + 2 <= frames'[g].loops[e].at
      BY <1>3, <1>9, <2>2, <2>3
    <2>. QED
      BY <1>3, <1>4, <2>4 DEF LoopsPlaced
  <1>11. FramesPlaced'
    <2>1. ASSUME NEW g \in 1..n
          PROVE  /\ frames[g].base < s + 1
                 /\ \A d \in 1..Len(frames[g].loops) : frames[g].loops[d].at < s + 1
      BY <1>1
    <2>2. ASSUME NEW g \in 1..n + 1, NEW k \in 1..n + 1, g < k
          PROVE  /\ frames'[g].base < frames'[k].base
                 /\ \A d \in 1..Len(frames'[g].loops) : frames'[g].loops[d].at < frames'[k].base
      <3>1. g \in 1..n
        BY <1>1, <2>2
      <3>2. CASE k = n + 1
        BY <1>2, <1>3, <2>1, <3>1, <3>2
      <3>3. CASE k \in 1..n
        BY <1>0, <1>3, <2>2, <3>1, <3>3 DEF Placed, FramesPlaced
      <3>. QED
        BY <1>9, <3>2, <3>3
    <2>. QED
      BY <1>3, <2>2 DEF FramesPlaced
  <1>12. \A g \in 1..n + 1 : ~frames'[g].atNext
    <2>1. \A g \in 1..n : ~frames[g].atNext
      BY <1>0, <1>1 DEF Placed, OnlyTopAdvances, Call
    <2>. QED
      BY <1>2, <1>3, <1>9, <2>1
  <1>13. OnlyTopAdvances'
    BY <1>3, <1>12 DEF OnlyTopAdvances
  <1>14. ASSUME NEW g \in 1..n
         PROVE  Sound(g)'
    <2>1. StackKeptTo(s)
      BY <1>1, <1>4 DEF StackKeptTo
    <2>2. \A d \in 1..Len(frames[g].loops) : frames[g].loops[d].at <= s
      BY <1>1
    <2>3. FrameKept(g)
      BY <1>0, <1>1, <1>3, <1>5, <2>1, <2>2, SameFrame
    <2>4. g \in 1..Len(frames') /\ Sound(g)
      BY <1>1, <1>3 DEF Kept
    <2>. QED
      BY <1>0, <1>6, <2>3, <2>4, SoundStays
  <1>15. ASSUME NEW g \in 1..n + 1, g = n + 1
         PROVE  Sound(g)'
    <2>1. frames'[g].active = Idle /\ Len(frames'[g].loops) = 0
      BY <1>2, <1>3, <1>15
    <2>2. ActingAt(g)'
      BY <2>1 DEF ActingAt, Idle
    <2>. QED
      BY <2>1, <2>2 DEF Sound
  <1>16. \A g \in 1..n + 1 : Sound(g)'
    BY <1>9, <1>14, <1>15
  <1>. QED
    BY <1>3, <1>6, <1>7, <1>8, <1>10, <1>11, <1>13, <1>16 DEF Kept, Placed

(* A return: what is below the callee's slot stays.                        *)
LEMMA ReturnKeeps ==
  ASSUME Kept, Return
  PROVE  Kept'
  <1>. DEFINE s == Len(stack)
              n == Len(frames)
              b == frame.base
  <1>0. TypeOK /\ Placed /\ OperandsWhole
    BY DEF Kept
  <1>1. /\ n \in Nat /\ s \in Nat /\ top = n /\ top \in 1..n /\ frame = frames[n]
        /\ b \in Nat /\ b <= s
    BY RunningFrame
  <1>2. n > 1 /\ 1 \in 1..n /\ n - 1 \in 0..n /\ 1..n - 1 \subseteq 1..n
    BY <1>1 DEF Return
  <1>3. ASSUME NEW g \in 1..n - 1
        PROVE  /\ g \in 1..n /\ g < n /\ frames[g].base <= b - 1 /\ frames[g].base \in Nat
               /\ \A d \in 1..Len(frames[g].loops) :
                    frames[g].loops[d].at <= b - 1 /\ frames[g].loops[d].at \in Nat
    <2>1. g \in 1..n /\ g < n /\ n \in 1..n
      BY <1>1, <1>2
    <2>2. /\ frames[g].base < b
          /\ \A d \in 1..Len(frames[g].loops) : frames[g].loops[d].at < b
      BY <1>0, <1>1, <2>1 DEF Placed, FramesPlaced
    <2>3. /\ frames[g].base \in Nat
          /\ \A d \in 1..Len(frames[g].loops) : frames[g].loops[d].at \in Nat
      BY <1>0, <2>1, FrameAt, FieldsOfFrame, LoopAt, FieldsOfLoop
    <2>. QED
      BY <1>1, <2>1, <2>2, <2>3
  <1>4. b >= 1 /\ b - 1 \in 0..s /\ b - 1 \in Nat
    <2>1. 1 \in 1..n - 1
      BY <1>1, <1>2
    <2>. QED
      BY <1>1, <1>3, <2>1
  <1>5. /\ frames' \in Seq(Activation) /\ Len(frames') = n - 1 /\ frames' # << >>
        /\ \A g \in 1..n - 1 : frames'[g] = frames[g]
    <2>1. frames \in Seq(Activation) /\ frames' = SubSeq(frames, 1, n - 1)
      BY <1>0 DEF Return, Front, TypeOK
    <2>2. /\ frames' \in Seq(Activation) /\ Len(frames') = n - 1
          /\ \A g \in 1..n - 1 : frames'[g] = frames[g]
      BY <1>2, <2>1, Prefix
    <2>. QED
      BY <1>1, <1>2, <2>2, EmptySeq
  <1>6. /\ stack' \in Seq(Item) /\ Len(stack') = b
        /\ \A p \in 1..b - 1 : stack'[p] = stack[p]
        /\ stack'[b] = Operand
    <2>1. PICK t \in Seq(Item) : /\ t = SubSeq(stack, 1, b - 1) /\ Len(t) = b - 1
                                 /\ \A p \in 1..b - 1 : t[p] = stack[p]
      <3>1. stack \in Seq(Item)
        BY <1>0 DEF TypeOK
      <3>. QED
        BY <1>4, <3>1, Prefix
    <2>2. Operand \in Item /\ stack' = Append(t, Operand)
      BY <2>1, ItemsTyped DEF Return
    <2>3. /\ Append(t, Operand) \in Seq(Item) /\ Len(Append(t, Operand)) = Len(t) + 1
          /\ \A p \in 1..Len(t) : Append(t, Operand)[p] = t[p]
          /\ Append(t, Operand)[Len(t) + 1] = Operand
      BY <2>2, AppendProperties
    <2>. QED
      <3>1. Len(t) + 1 = b /\ Len(t) = b - 1
        BY <1>1, <2>1
      <3>2. \A p \in 1..b - 1 : Append(t, Operand)[p] = stack[p]
        BY <2>1, <2>3, <3>1
      <3>. QED
        BY <2>2, <2>3, <3>1, <3>2
  <1>7. UNCHANGED <<content, nulls, version, changes>>
    BY DEF Return
  <1>8. TypeOK'
    BY <1>0, <1>5, <1>6, <1>7 DEF TypeOK
  <1>9. Distinct'
    BY <1>7 DEF Kept, Distinct
  <1>10. OperandsWhole'
    <2>1. \A p \in 1..b : (p \in 1..b - 1 /\ p \in 1..s) \/ p = b
      BY <1>1, <1>4
    <2>2. \A p \in 1..b : stack'[p].kind = "operand" => stack'[p].n = 0
      BY <1>0, <1>6, <2>1, ItemsTyped DEF OperandsWhole
    <2>. QED
      BY <1>6, <2>2 DEF OperandsWhole
  <1>11. LoopsPlaced' /\ FramesPlaced'
    <2>1. ASSUME NEW g \in 1..n - 1
          PROVE  /\ frames'[g].base = frames[g].base /\ frames'[g].base <= b
                 /\ Len(frames'[g].loops) <= Len(frames[g].loops)
                 /\ Len(frames'[g].loops) \in Nat
                 /\ \A d \in 1..Len(frames'[g].loops) :
                      /\ frames'[g].loops[d].at = frames[g].loops[d].at
                      /\ frames'[g].loops[d].at <= b
      <3>1. frames'[g] = frames[g] /\ g \in 1..n
        BY <1>3, <1>5
      <3>2. Len(frames[g].loops) \in Nat
        BY <1>0, <3>1, FrameAt, FieldsOfFrame
      <3>3. frames[g].base <= b /\ \A d \in 1..Len(frames[g].loops) : frames[g].loops[d].at <= b
        BY <1>1, <1>3
      <3>. QED
        BY <3>1, <3>2, <3>3
    <2>. QED
      BY <1>0, <1>1, <1>2, <1>5, <1>6, <2>1, PlacesKept
  <1>12. \A g \in 1..n - 1 : ~frames'[g].atNext
    BY <1>0, <1>1, <1>3, <1>5 DEF Placed, OnlyTopAdvances
  <1>13. OnlyTopAdvances'
    BY <1>5, <1>12 DEF OnlyTopAdvances
  <1>14. ASSUME NEW g \in 1..n - 1
         PROVE  Sound(g)'
    <2>1. StackKeptTo(b - 1)
      BY <1>1, <1>4, <1>6 DEF StackKeptTo
    <2>2. g \in 1..n /\ \A d \in 1..Len(frames[g].loops) : frames[g].loops[d].at <= b - 1
      BY <1>3
    <2>3. FrameKept(g)
      BY <1>0, <1>4, <1>5, <1>7, <2>1, <2>2, SameFrame
    <2>4. g \in 1..Len(frames') /\ Sound(g)
      BY <1>5, <2>2 DEF Kept
    <2>. QED
      BY <1>0, <1>8, <2>2, <2>3, <2>4, SoundStays
  <1>. QED
    BY <1>5, <1>8, <1>9, <1>10, <1>11, <1>13, <1>14 DEF Kept, Placed

-----------------------------------------------------------------------------
(* Changes to a collection.                                                *)

(* Frame h is f, but that its loops over c, other than loop e, are not     *)
(* clean.                                                                  *)
Unsettled(f, h, c, e) ==
  /\ h.active = f.active /\ h.array = f.array /\ h.seen_version = f.seen_version
  /\ h.invalidated = f.invalidated /\ h.base = f.base /\ h.atNext = f.atNext
  /\ h.left = f.left
  /\ Len(h.loops) = Len(f.loops)
  /\ \A d \in 1..Len(f.loops) :
       /\ h.loops[d].over = f.loops[d].over /\ h.loops[d].at = f.loops[d].at
       /\ IF f.loops[d].over = c /\ d # e THEN ~h.loops[d].clean
          ELSE h.loops[d] = f.loops[d]

(* A loop that is not clean any more.                                      *)
LEMMA LoopDisturbed ==
  ASSUME NEW l \in Loop
  PROVE  LET m == [l EXCEPT !.clean = FALSE, !.seen = << >>, !.orig = << >>]
         IN m \in Loop /\ m.over = l.over /\ m.at = l.at /\ ~m.clean
  <1>1. << >> \in Seq(Elements)
    BY EmptySeq
  <1>. QED
    BY <1>1 DEF Loop

(* What a change to c does to the frames.                                  *)
LEMMA DisturbedFrames ==
  ASSUME NEW fs \in Seq(Activation), NEW c, NEW f, NEW d
  PROVE  /\ Disturbed(fs, c, f, d) \in Seq(Activation)
         /\ Len(Disturbed(fs, c, f, d)) = Len(fs)
         /\ \A g \in 1..Len(fs) :
              Unsettled(fs[g], Disturbed(fs, c, f, d)[g], c, IF g = f THEN d ELSE 0)
  <1>. DEFINE Loops(g) ==
                [e \in 1..Len(fs[g].loops) |->
                   IF fs[g].loops[e].over = c /\ <<g, e>> # <<f, d>>
                   THEN [fs[g].loops[e] EXCEPT !.clean = FALSE, !.seen = << >>, !.orig = << >>]
                   ELSE fs[g].loops[e]]
              D == [g \in 1..Len(fs) |-> [fs[g] EXCEPT !.loops = Loops(g)]]
  <1>1. Len(fs) \in Nat /\ DOMAIN fs = 1..Len(fs)
    BY LenProperties
  <1>2. \A g \in 1..Len(fs) : /\ fs[g] \in Activation /\ fs[g].loops \in Seq(Loop)
                              /\ Len(fs[g].loops) \in Nat
                              /\ DOMAIN fs[g].loops = 1..Len(fs[g].loops)
    BY ElementOfSeq, FieldsOfFrame, LenProperties
  <1>3. Disturbed(fs, c, f, d) = D
    BY <1>1, <1>2, Zenon DEF Disturbed
  <1>4. ASSUME NEW g \in 1..Len(fs)
        PROVE  D[g] \in Activation /\ Unsettled(fs[g], D[g], c, IF g = f THEN d ELSE 0)
    <2>1. ASSUME NEW e \in 1..Len(fs[g].loops)
          PROVE  /\ Loops(g)[e] \in Loop
                 /\ Loops(g)[e].over = fs[g].loops[e].over /\ Loops(g)[e].at = fs[g].loops[e].at
                 /\ IF fs[g].loops[e].over = c /\ e # (IF g = f THEN d ELSE 0)
                    THEN ~Loops(g)[e].clean ELSE Loops(g)[e] = fs[g].loops[e]
      <3>1. fs[g].loops[e] \in Loop /\ e # 0
        BY <1>2, ElementOfSeq
      <3>2. CASE fs[g].loops[e].over = c /\ <<g, e>> # <<f, d>>
        <4>1. Loops(g)[e] = [fs[g].loops[e] EXCEPT !.clean = FALSE, !.seen = << >>,
                                                   !.orig = << >>]
          BY <3>2
        <4>2. /\ Loops(g)[e] \in Loop /\ Loops(g)[e].over = fs[g].loops[e].over
              /\ Loops(g)[e].at = fs[g].loops[e].at /\ ~Loops(g)[e].clean
          <5>. HIDE DEF Loops
          <5>. QED
            BY <3>1, <4>1, LoopDisturbed
        <4>3. e # (IF g = f THEN d ELSE 0)
          BY <3>1, <3>2
        <4>. QED
          BY <3>2, <4>2, <4>3
      <3>3. CASE ~(fs[g].loops[e].over = c /\ <<g, e>> # <<f, d>>)
        <4>1. Loops(g)[e] = fs[g].loops[e]
          BY <3>3
        <4>2. ~(fs[g].loops[e].over = c /\ e # (IF g = f THEN d ELSE 0))
          BY <3>3
        <4>. QED
          BY <3>1, <4>1, <4>2
      <3>. QED
        BY <3>2, <3>3
    <2>2. Loops(g) \in [1..Len(fs[g].loops) -> Loop]
      BY <2>1
    <2>. HIDE DEF Loops
    <2>3. PICK r \in Seq(Loop) : r = Loops(g) /\ Len(r) = Len(fs[g].loops)
      BY <1>2, <2>2, SequenceOfFunction
    <2>4. D[g] = [fs[g] EXCEPT !.loops = r]
      BY <2>3
    <2>5. LET h == [fs[g] EXCEPT !.loops = r]
              x == fs[g]
          IN /\ h \in Activation /\ h.active = x.active /\ h.array = x.array
             /\ h.seen_version = x.seen_version /\ h.invalidated = x.invalidated
             /\ h.base = x.base /\ h.atNext = x.atNext /\ h.left = x.left /\ h.loops = r
      BY <1>2 DEF Activation
    <2>. QED
      BY <2>1, <2>3, <2>4, <2>5, Zenon DEF Unsettled
  <1>5. D \in [1..Len(fs) -> Activation]
    <2>1. \A g \in 1..Len(fs) : [fs[g] EXCEPT !.loops = Loops(g)] \in Activation
      BY <1>4
    <2>. HIDE DEF Loops
    <2>. QED
      BY <2>1
  <1>6. \A g \in 1..Len(fs) : Unsettled(fs[g], D[g], c, IF g = f THEN d ELSE 0)
    BY <1>4
  <1>. HIDE DEF D
  <1>7. D \in Seq(Activation) /\ Len(D) = Len(fs)
    BY <1>1, <1>5, SequenceOfFunction
  <1>. QED
    BY <1>3, <1>6, <1>7

(* A collection changes, but not by remove().                              *)
LEMMA ChangeKeeps ==
  ASSUME Kept, NEW c \in Collections, NEW s \in Seq(Elements), Change(c, s),
         \A i, j \in 1..Len(s) : i # j => s[i] # s[j],
         nulls' \in [Hashes -> SUBSET Elements],
         \A h \in Hashes : h # c => nulls'[h] = nulls[h]
  PROVE  Kept'
  <1>. DEFINE n == Len(frames)
  <1>0. TypeOK /\ Placed /\ OperandsWhole
    BY DEF Kept
  <1>1. n \in Nat /\ Len(stack) \in Nat /\ top \in 1..n /\ top = n /\ frame = frames[top]
    BY <1>0, Lengths DEF frame
  <1>2. /\ frames' \in Seq(Activation) /\ Len(frames') = n /\ frames' # << >>
        /\ \A g \in 1..n : Unsettled(frames[g], frames'[g], c, 0)
    <2>1. frames \in Seq(Activation) /\ frames' = Disturbed(frames, c, 0, 0)
      BY <1>0 DEF Change, TypeOK
    <2>2. /\ frames' \in Seq(Activation) /\ Len(frames') = n
          /\ \A g \in 1..n : Unsettled(frames[g], frames'[g], c, IF g = 0 THEN 0 ELSE 0)
      BY <2>1, DisturbedFrames
    <2>. QED
      BY <1>1, <2>2, EmptySeq
  <1>3. /\ content' \in [Collections -> Seq(Elements)]
        /\ content'[c] = s /\ \A k \in Collections : k # c => content'[k] = content[k]
    BY <1>0 DEF Change, TypeOK
  <1>4. /\ version' \in [Arrays -> Nat] /\ \A k \in Arrays : k # c => version'[k] = version[k]
    BY <1>0 DEF Change, TypeOK
  <1>5. changes' \in Nat
    BY <1>0 DEF Change, TypeOK
  <1>6. TypeOK'
    BY <1>0, <1>2, <1>3, <1>4, <1>5 DEF Change, TypeOK
  <1>7. Distinct'
    <2>1. Distinct
      BY DEF Kept
    <2>2. \A k \in Collections : \A i, j \in 1..Len(content'[k]) :
            i # j => content'[k][i] # content'[k][j]
      BY <1>3, <2>1 DEF Distinct
    <2>. QED
      BY <2>2 DEF Distinct
  <1>8. stack' = stack /\ OperandsWhole'
    BY <1>0 DEF Change, OperandsWhole
  <1>9. LoopsPlaced' /\ FramesPlaced'
    <2>1. ASSUME NEW g \in 1..n
          PROVE  /\ frames'[g].base = frames[g].base /\ frames'[g].base <= Len(stack)
                 /\ Len(frames'[g].loops) <= Len(frames[g].loops)
                 /\ Len(frames'[g].loops) \in Nat
                 /\ \A d \in 1..Len(frames'[g].loops) :
                      /\ frames'[g].loops[d].at = frames[g].loops[d].at
                      /\ frames'[g].loops[d].at <= Len(stack)
      <3>1. Len(frames[g].loops) \in Nat
        BY <1>0, FrameAt, FieldsOfFrame
      <3>2. /\ frames[g].base <= Len(stack)
            /\ \A d \in 1..Len(frames[g].loops) : frames[g].loops[d].at <= Len(stack)
        BY <1>0 DEF Placed, LoopsPlaced
      <3>. QED
        BY <1>2, <3>1, <3>2 DEF Unsettled
    <2>2. Len(frames') <= n
      BY <1>1, <1>2
    <2>. QED
      BY <1>0, <1>1, <1>2, <1>8, <2>1, <2>2, PlacesKept
  <1>10. \A g \in 1..n : ~frames'[g].atNext
    <2>1. \A g \in 1..n : ~frames[g].atNext
      BY <1>0, <1>1 DEF Placed, OnlyTopAdvances, Change
    <2>. QED
      BY <1>2, <2>1 DEF Unsettled
  <1>11. OnlyTopAdvances'
    BY <1>2, <1>10 DEF OnlyTopAdvances
  <1>12. ASSUME NEW g \in 1..n
         PROVE  Sound(g)'
    <2>1. ASSUME NEW d \in 1..Len(frames[g].loops)
          PROVE  LoopKept(g, d)
      <3>1. frames[g].loops[d].over \in Collections
        BY <1>0, LoopAt, FieldsOfLoop
      <3>2. CASE frames[g].loops[d].over = c
        <4>1. d # 0
          OBVIOUS
        <4>. QED
          BY <1>2, <1>8, <3>2, <4>1 DEF LoopKept, Unsettled
      <3>3. CASE frames[g].loops[d].over # c
        BY <1>2, <1>3, <1>4, <1>8, <3>1, <3>3 DEF LoopKept, Unsettled
      <3>. QED
        BY <3>2, <3>3
    <2>2. FrameKept(g)
      BY <1>2, <2>1 DEF FrameKept, Unsettled
    <2>. QED
      BY <1>0, <1>2, <1>6, <2>2, SoundStays DEF Kept
  <1>. QED
    BY <1>2, <1>6, <1>7, <1>8, <1>9, <1>11, <1>12 DEF Kept, Placed

(* An element is added, taken out or assigned.                             *)
LEMMA AddKeeps ==
  ASSUME Kept, NEW c \in Collections, NEW e \in Elements, Add(c, e)
  PROVE  Kept'
  <1>. DEFINE k == content[c]
              s == Append(k, e)
  <1>1. TypeOK /\ k \in Seq(Elements) /\ Len(k) \in Nat
    BY ContentOf DEF Kept
  <1>2. /\ s \in Seq(Elements) /\ Len(s) = Len(k) + 1
        /\ \A i \in 1..Len(k) : s[i] = k[i]
        /\ s[Len(k) + 1] = e
    BY <1>1, AppendProperties
  <1>3. \A i \in 1..Len(k) : k[i] # e
    BY DEF Add, Contains
  <1>4. \A i, j \in 1..Len(k) : i # j => k[i] # k[j]
    BY DEF Kept, Distinct
  <1>5. Change(c, s)
    BY DEF Add
  <1>6. /\ nulls' \in [Hashes -> SUBSET Elements]
        /\ \A h \in Hashes : h # c => nulls'[h] = nulls[h]
    BY <1>1 DEF Add, TypeOK
  <1>. HIDE DEF s, k
  <1>7. \A i \in 1..Len(k) + 1 : i \in 1..Len(k) \/ i = Len(k) + 1
    BY <1>1
  <1>8. \A i, j \in 1..Len(s) : i # j => s[i] # s[j]
    BY <1>2, <1>3, <1>4, <1>7
  <1>. QED
    BY <1>2, <1>5, <1>6, <1>8, ChangeKeeps

(* Without one of its elements, a collection has no element twice.         *)
LEMMA StillDistinct ==
  ASSUME NEW k \in Seq(Elements), \A i, j \in 1..Len(k) : i # j => k[i] # k[j],
         NEW p \in 1..Len(k)
  PROVE  \A i, j \in 1..Len(RemoveAt(k, p)) : i # j => RemoveAt(k, p)[i] # RemoveAt(k, p)[j]
  <1>. DEFINE s == RemoveAt(k, p)
              From(i) == IF i < p THEN i ELSE i + 1
  <1>1. /\ Len(k) \in Nat /\ Len(s) = Len(k) - 1
        /\ \A i \in 1..p - 1 : s[i] = k[i]
        /\ \A i \in p..Len(k) - 1 : s[i] = k[i + 1]
    BY RemovedAt, LenProperties
  <1>. HIDE DEF s
  <1>2. ASSUME NEW i \in 1..Len(k) - 1
        PROVE  s[i] = k[From(i)] /\ From(i) \in 1..Len(k)
    <2>1. CASE i < p
      BY <1>1, <2>1
    <2>2. CASE ~(i < p)
      BY <1>1, <2>2
    <2>. QED
      BY <2>1, <2>2
  <1>3. ASSUME NEW i \in 1..Len(k) - 1, NEW j \in 1..Len(k) - 1, i # j
        PROVE  From(i) # From(j)
    BY <1>1, <1>3
  <1>. HIDE DEF From
  <1>4. \A i, j \in 1..Len(s) : i # j => s[i] # s[j]
    BY <1>1, <1>2, <1>3
  <1>. QED
    BY <1>4 DEF s

(* Taking an element out of a collection (a removal from outside the       *)
(* loops).                                                                 *)
LEMMA TakeKeeps ==
  ASSUME Kept, NEW c \in Collections, NEW e \in Elements, Take(c, e)
  PROVE  Kept'
  <1>. DEFINE k == content[c]
              s == RemoveFirst(k, e)
  <1>1. /\ TypeOK /\ k \in Seq(Elements)
        /\ \A i, j \in 1..Len(k) : i # j => k[i] # k[j]
    BY ContentOf DEF Kept, Distinct
  <1>2. Change(c, s) /\ nulls' = nulls
    BY DEF Take
  <1>3. s \in Seq(Elements) /\ \A i, j \in 1..Len(s) : i # j => s[i] # s[j]
    <2>. HIDE DEF k
    <2>1. s = k \/ \E i \in 1..Len(k) : s = RemoveAt(k, i)
      BY <1>1, FirstRemoved
    <2>2. CASE s = k
      BY <1>1, <2>2
    <2>3. ASSUME NEW i \in 1..Len(k), s = RemoveAt(k, i)
          PROVE  s \in Seq(Elements) /\ \A p, q \in 1..Len(s) : p # q => s[p] # s[q]
      <3>1. /\ RemoveAt(k, i) \in Seq(Elements)
            /\ \A p, q \in 1..Len(RemoveAt(k, i)) :
                 p # q => RemoveAt(k, i)[p] # RemoveAt(k, i)[q]
        BY <1>1, RemovedAt, StillDistinct
      <3>. QED
        BY <2>3, <3>1
    <2>. QED
      BY <2>1, <2>2, <2>3
  <1>4. /\ nulls' \in [Hashes -> SUBSET Elements]
        /\ \A h \in Hashes : h # c => nulls'[h] = nulls[h]
    BY <1>1, <1>2 DEF TypeOK
  <1>. HIDE DEF s
  <1>. QED
    BY <1>2, <1>3, <1>4, ChangeKeeps

(* Assigning to an element, $null to a key of a hash included.             *)
LEMMA AssignKeeps ==
  ASSUME Kept, NEW c \in Collections, NEW e \in Elements, Assign(c, e)
  PROVE  Kept'
  <1>1. /\ TypeOK /\ content[c] \in Seq(Elements)
        /\ \A i, j \in 1..Len(content[c]) : i # j => content[c][i] # content[c][j]
    BY ContentOf DEF Kept, Distinct
  <1>2. /\ Change(c, content[c])
        /\ nulls' = IF c \in Hashes THEN [nulls EXCEPT ![c] = @ \cup {e}] ELSE nulls
    BY DEF Assign
  <1>3. /\ nulls' \in [Hashes -> SUBSET Elements]
        /\ \A h \in Hashes : h # c => nulls'[h] = nulls[h]
    BY <1>1, <1>2 DEF TypeOK
  <1>. QED
    BY <1>1, <1>2, <1>3, ChangeKeeps

-----------------------------------------------------------------------------
(* remove().                                                               *)

(* Two loops have their operands apart.                                    *)
LEMMA LoopsApart ==
  ASSUME TypeOK, Placed, NEW g \in 1..Len(frames), NEW d \in 1..Len(frames[g].loops),
         NEW k \in 1..Len(frames), NEW e \in 1..Len(frames[k].loops), g # k \/ d # e
  PROVE  /\ frames[g].loops[d].at # frames[k].loops[e].at
         /\ frames[g].loops[d].at - 1 # frames[k].loops[e].at
  <1>. DEFINE a == frames[g].loops[d].at
              b == frames[k].loops[e].at
  <1>1. /\ a \in Nat /\ b \in Nat /\ Len(frames) \in Nat
        /\ frames[g].base \in Nat /\ frames[k].base \in Nat /\ Len(frames[g].loops) \in Nat
    BY Lengths, FrameAt, FieldsOfFrame, LoopAt, FieldsOfLoop
  <1>2. frames[g].base + 2 <= a /\ frames[k].base + 2 <= b
    BY DEF Placed, LoopsPlaced
  <1>3. CASE g < k
    <2>1. a < frames[k].base
      BY <1>3 DEF Placed, FramesPlaced
    <2>. HIDE DEF a, b
    <2>2. a < b
      BY <1>1, <1>2, <2>1
    <2>3. a # b /\ a - 1 # b
      BY <1>1, <2>2
    <2>. QED
      BY <2>3 DEF a, b
  <1>4. CASE k < g
    <2>1. b < frames[g].base
      BY <1>4 DEF Placed, FramesPlaced
    <2>. HIDE DEF a, b
    <2>2. b + 2 < a
      BY <1>1, <1>2, <2>1
    <2>3. a # b /\ a - 1 # b
      BY <1>1, <2>2
    <2>. QED
      BY <2>3 DEF a, b
  <1>5. CASE g = k
    <2>1. d < e \/ e < d
      BY <1>1, <1>5
    <2>2. /\ d < e => a + 2 <= b
          /\ e < d => b + 2 <= a
      BY <1>5 DEF Placed, LoopsPlaced
    <2>. HIDE DEF a, b
    <2>3. a # b /\ a - 1 # b
      BY <1>1, <2>1, <2>2
    <2>. QED
      BY <2>3 DEF a, b
  <1>. QED
    BY <1>1, <1>3, <1>4, <1>5

(* Frame h is f without its active loop; it has seen version v, and its    *)
(* loops over c, other than loop e, are not clean.                         *)
Relieved(f, h, c, e, v) ==
  /\ h.active = Idle /\ h.seen_version = v
  /\ h.array = f.array /\ h.invalidated = f.invalidated /\ h.base = f.base
  /\ h.atNext = f.atNext /\ h.left = f.left
  /\ Len(h.loops) = Len(f.loops)
  /\ \A d \in 1..Len(f.loops) :
       /\ h.loops[d].over = f.loops[d].over /\ h.loops[d].at = f.loops[d].at
       /\ IF f.loops[d].over = c /\ d # e THEN ~h.loops[d].clean
          ELSE h.loops[d] = f.loops[d]

(* What remove() does for loop n of frame g over c: s is what remains of   *)
(* c, i is the iterator, v the version the frame has then seen.            *)
Removal(g, n, c, s, i, v) ==
  LET f == frames[g]
      l == f.loops[n]
  IN /\ n = Len(f.loops) /\ c = l.over /\ stack[l.at].n = i + 1
     /\ Len(frames') = Len(frames)
     /\ \A k \in 1..Len(frames) : k # g => Unsettled(frames[k], frames'[k], c, 0)
     /\ Relieved(f, frames'[g], c, n, v)
     /\ stack' = [stack EXCEPT ![l.at].n = i]
     /\ content' = [content EXCEPT ![c] = s]
     /\ \A a \in Arrays : a # c => version'[a] = version[a]
     /\ IF c \in Arrays THEN f.array = c /\ v = version'[c] ELSE v = f.seen_version
     /\ nulls' = nulls /\ changes' = changes
     /\ l.clean => SubSeq(s, i + 1, Len(s)) = SubSeq(content[c], (i + 1) + 1, Len(content[c]))

(* The loop stands where it was.                                           *)
LEMMA RemovalPlaced ==
  ASSUME Kept, ~frame.atNext, NEW g \in 1..Len(frames), NEW n \in 1..Len(frames[g].loops),
         NEW c \in Collections, NEW s \in Seq(Elements), NEW i \in Nat, NEW v \in Nat,
         Removal(g, n, c, s, i, v)
  PROVE  LET at == frames[g].loops[n].at
         IN /\ stack' \in Seq(Item) /\ Len(stack') = Len(stack) /\ at - 1 \in 1..Len(stack)
            /\ \A p \in 1..Len(stack) : p # at => stack'[p] = stack[p]
            /\ stack'[at].n = i /\ stack'[at].kind = "iterator"
            /\ OperandsWhole' /\ Placed'
            /\ \A k \in 1..Len(frames) : \A d \in 1..Len(frames[k].loops) :
                 k # g \/ d # n =>
                   /\ stack'[frames[k].loops[d].at] = stack[frames[k].loops[d].at]
                   /\ stack'[frames[k].loops[d].at - 1] = stack[frames[k].loops[d].at - 1]
  <1>. DEFINE at == frames[g].loops[n].at
  <1>0. TypeOK /\ Placed /\ OperandsWhole
    BY DEF Kept
  <1>1. Len(frames) \in Nat /\ Len(stack) \in Nat /\ top = Len(frames) /\ frame = frames[top]
    BY <1>0, Lengths DEF frame
  <1>2. \A k \in 1..Len(frames) : \A d \in 1..Len(frames[k].loops) :
          frames[k].loops[d].at \in 1..Len(stack) /\ frames[k].loops[d].at - 1 \in 1..Len(stack)
    <2>1. SUFFICES ASSUME NEW k \in 1..Len(frames), NEW d \in 1..Len(frames[k].loops)
                   PROVE  /\ frames[k].loops[d].at \in 1..Len(stack)
                          /\ frames[k].loops[d].at - 1 \in 1..Len(stack)
      OBVIOUS
    <2>2. /\ frames[k].loops[d].at \in Nat /\ frames[k].base \in Nat
          /\ frames[k].base + 2 <= frames[k].loops[d].at
          /\ frames[k].loops[d].at <= Len(stack)
      BY <1>0, FrameAt, FieldsOfFrame, LoopAt, FieldsOfLoop DEF Placed, LoopsPlaced
    <2>3. \A b, a, h \in Nat : b + 2 <= a /\ a <= h => a \in 1..h /\ a - 1 \in 1..h
      OBVIOUS
    <2>4. Len(stack) \in Nat
      BY <1>1
    <2>. QED
      BY <2>2, <2>3, <2>4, Zenon
  <1>3. stack[at].kind = "iterator"
    BY DEF Kept, Sound, LoopWhole
  <1>4. /\ stack' \in Seq(Item) /\ Len(stack') = Len(stack)
        /\ \A p \in 1..Len(stack) : p # at => stack'[p] = stack[p]
        /\ stack'[at].n = i /\ stack'[at].kind = "iterator"
    <2>1. PICK p \in 1..Len(stack) : p = at
      BY <1>2
    <2>2. stack' = [stack EXCEPT ![p].n = i]
      BY <2>1 DEF Removal
    <2>3. /\ stack' \in Seq(Item) /\ Len(stack') = Len(stack)
          /\ \A q \in 1..Len(stack) : q # p => stack'[q] = stack[q]
          /\ stack'[p].n = i /\ stack'[p].kind = stack[p].kind
      BY <1>0, <2>2, IteratorMoves
    <2>. QED
      BY <1>3, <2>1, <2>3
  <1>5. OperandsWhole'
    <2>1. \A p \in 1..Len(stack) : stack'[p].kind = "operand" => stack'[p].n = 0
      BY <1>0, <1>4 DEF OperandsWhole
    <2>. QED
      BY <1>4, <2>1 DEF OperandsWhole
  <1>6. ASSUME NEW k \in 1..Len(frames), NEW d \in 1..Len(frames[k].loops), k # g \/ d # n
        PROVE  /\ stack'[frames[k].loops[d].at] = stack[frames[k].loops[d].at]
               /\ stack'[frames[k].loops[d].at - 1] = stack[frames[k].loops[d].at - 1]
    <2>1. frames[k].loops[d].at # at /\ frames[k].loops[d].at - 1 # at
      BY <1>0, <1>6, LoopsApart
    <2>. QED
      BY <1>2, <1>4, <2>1
  <1>7. ASSUME NEW k \in 1..Len(frames)
        PROVE  /\ frames'[k].base = frames[k].base /\ frames'[k].base <= Len(stack)
               /\ Len(frames'[k].loops) <= Len(frames[k].loops)
               /\ Len(frames'[k].loops) \in Nat /\ ~frames'[k].atNext
               /\ \A d \in 1..Len(frames'[k].loops) :
                    /\ frames'[k].loops[d].at = frames[k].loops[d].at
                    /\ frames'[k].loops[d].at <= Len(stack)
    <2>1. /\ Len(frames[k].loops) \in Nat /\ frames[k].base <= Len(stack)
          /\ \A d \in 1..Len(frames[k].loops) : frames[k].loops[d].at <= Len(stack)
      BY <1>0, FrameAt, FieldsOfFrame DEF Placed, LoopsPlaced
    <2>2. ~frames[k].atNext
      BY <1>0, <1>1 DEF Placed, OnlyTopAdvances
    <2>3. CASE k = g
      <3>1. Relieved(frames[k], frames'[k], c, n, v)
        BY <2>3 DEF Removal
      <3>2. /\ frames'[k].base = frames[k].base /\ frames'[k].atNext = frames[k].atNext
            /\ Len(frames'[k].loops) = Len(frames[k].loops)
            /\ \A d \in 1..Len(frames[k].loops) :
                 frames'[k].loops[d].at = frames[k].loops[d].at
        BY <3>1, Zenon DEF Relieved
      <3>. QED
        BY <2>1, <2>2, <3>2
    <2>4. CASE k # g
      <3>1. Unsettled(frames[k], frames'[k], c, 0)
        BY <2>4 DEF Removal
      <3>2. /\ frames'[k].base = frames[k].base /\ frames'[k].atNext = frames[k].atNext
            /\ Len(frames'[k].loops) = Len(frames[k].loops)
            /\ \A d \in 1..Len(frames[k].loops) :
                 frames'[k].loops[d].at = frames[k].loops[d].at
        BY <3>1, Zenon DEF Unsettled
      <3>. QED
        BY <2>1, <2>2, <3>2
    <2>. QED
      BY <2>3, <2>4
  <1>8. Len(frames') = Len(frames)
    BY DEF Removal
  <1>9. LoopsPlaced' /\ FramesPlaced'
    BY <1>0, <1>1, <1>4, <1>7, <1>8, PlacesKept
  <1>10. OnlyTopAdvances'
    BY <1>7, <1>8 DEF OnlyTopAdvances
  <1>. QED
    BY <1>2, <1>4, <1>5, <1>6, <1>9, <1>10 DEF Placed

(* Another loop of the frame that acts, or a loop of another frame.        *)
LEMMA RemovalSpares ==
  ASSUME Kept, ~frame.atNext, NEW g \in 1..Len(frames), NEW n \in 1..Len(frames[g].loops),
         NEW c \in Collections, NEW s \in Seq(Elements), NEW i \in Nat, NEW v \in Nat,
         Removal(g, n, c, s, i, v),
         NEW k \in 1..Len(frames), NEW d \in 1..Len(frames[k].loops), k # g \/ d # n
  PROVE  /\ LoopKept(k, d)
         /\ frames[k].loops[d].over = c => ~frames'[k].loops[d].clean
  <1>. DEFINE l == frames[k].loops[d]
              m == frames'[k].loops[d]
  <1>0. TypeOK
    BY DEF Kept
  <1>1. l \in Loop /\ l.over \in Collections
    BY <1>0, LoopAt, FieldsOfLoop
  <1>2. /\ m.over = l.over /\ m.at = l.at
        /\ IF l.over = c THEN ~m.clean ELSE m = l
    <2>1. CASE k = g
      <3>1. Relieved(frames[k], frames'[k], c, n, v) /\ d # n
        BY <2>1 DEF Removal
      <3>. QED
        BY <3>1 DEF Relieved
    <2>2. CASE k # g
      <3>1. Unsettled(frames[k], frames'[k], c, 0)
        BY <2>2 DEF Removal
      <3>2. d # 0
        OBVIOUS
      <3>. QED
        BY <3>1, <3>2 DEF Unsettled
    <2>. QED
      BY <2>1, <2>2
  <1>3. stack'[l.at] = stack[l.at] /\ stack'[l.at - 1] = stack[l.at - 1]
    <2>1. \A j \in 1..Len(frames) : \A e \in 1..Len(frames[j].loops) :
            j # g \/ e # n =>
              /\ stack'[frames[j].loops[e].at] = stack[frames[j].loops[e].at]
              /\ stack'[frames[j].loops[e].at - 1] = stack[frames[j].loops[e].at - 1]
      BY RemovalPlaced
    <2>. QED
      BY <2>1
  <1>4. l.over # c => /\ content'[l.over] = content[l.over]
                      /\ nulls' = nulls
                      /\ l.over \in Arrays => version'[l.over] = version[l.over]
    BY <1>0, <1>1 DEF Removal, TypeOK
  <1>. QED
    BY <1>2, <1>3, <1>4 DEF LoopKept

(* The loop that acts goes on with what it has yet to visit.               *)
LEMMA RemovalKeepsLoop ==
  ASSUME Kept, ~frame.atNext, NEW g \in 1..Len(frames), NEW n \in 1..Len(frames[g].loops),
         NEW c \in Collections, NEW s \in Seq(Elements), NEW i \in Nat, NEW v \in Nat,
         Removal(g, n, c, s, i, v)
  PROVE  LoopWhole(g, n)' /\ VersionAt(g, n)' /\ OnceAt(g, n)'
  <1>. DEFINE f == frames[g]
              h == frames'[g]
              l == f.loops[n]
  <1>0. TypeOK
    BY DEF Kept
  <1>1. l \in Loop /\ l.over = c /\ l.at \in Nat
    BY <1>0, LoopAt, FieldsOfLoop DEF Removal
  <1>2. /\ h.loops[n] = l /\ h.array = f.array /\ h.seen_version = v
        /\ h.invalidated = f.invalidated
    <2>1. Relieved(f, h, c, n, v)
      BY DEF Removal
    <2>. QED
      BY <2>1 DEF Relieved
  <1>3. /\ stack'[l.at].n = i /\ stack'[l.at].kind = "iterator"
        /\ stack'[l.at - 1] = stack[l.at - 1]
    <2>1. /\ stack'[l.at].n = i /\ stack'[l.at].kind = "iterator"
          /\ l.at - 1 \in 1..Len(stack)
          /\ \A p \in 1..Len(stack) : p # l.at => stack'[p] = stack[p]
      BY RemovalPlaced
    <2>2. l.at - 1 # l.at
      BY <1>1
    <2>. QED
      BY <2>1, <2>2
  <1>4. stack[l.at].n = i + 1 /\ i + 1 > 0
    <2>1. stack[l.at].n = i + 1
      BY Zenon DEF Removal
    <2>2. i + 1 > 0
      OBVIOUS
    <2>. QED
      BY <2>1, <2>2
  <1>5. LoopWhole(g, n) /\ VersionAt(g, n) /\ OnceAt(g, n)
    BY DEF Kept, Sound
  <1>6. LoopWhole(g, n)'
    <2>1. stack'[l.at - 1] = Object(l.over)
      BY <1>3, <1>5 DEF LoopWhole
    <2>. QED
      BY <1>2, <1>3, <2>1 DEF LoopWhole, Object
  <1>7. VersionAt(g, n)'
    <2>1. SUFFICES ASSUME l.clean, c = f.array
                   PROVE  v = version'[c] /\ ~f.invalidated
      BY <1>1, <1>2, Zenon DEF VersionAt
    <2>2. f.array \in Arrays \cup {None}
      BY <1>0, FrameAt, FieldsOfFrame
    <2>3. c \in Arrays
      BY <2>1, <2>2, ForeachAssumption
    <2>4. v = version'[c]
      BY <2>3 DEF Removal
    <2>5. ~f.invalidated
      BY <1>1, <1>4, <1>5, <2>1 DEF VersionAt
    <2>. QED
      BY <2>4, <2>5
  <1>8. OnceAt(g, n)'
    <2>1. SUFFICES ASSUME l.clean
                   PROVE  OnceAt(g, n)'
      BY <1>2, Zenon DEF OnceAt
    <2>2. /\ content'[c] = s /\ nulls' = nulls
          /\ SubSeq(s, i + 1, Len(s)) = SubSeq(content[c], (i + 1) + 1, Len(content[c]))
      BY <1>0, <2>1 DEF Removal, TypeOK
    <2>3. SameElements(c, l.seen \o SubSeq(content[c], (i + 1) + 1, Len(content[c])), l.orig)
      BY <1>1, <1>4, <1>5, <2>1 DEF OnceAt
    <2>4. SameElements(c, l.seen \o SubSeq(s, i + 1, Len(s)), l.orig)
      BY <2>2, <2>3
    <2>5. PICK a, o : /\ a = l.seen \o SubSeq(s, i + 1, Len(s)) /\ o = l.orig
                      /\ SameElements(c, a, o)
      BY <2>4
    <2>6. SameElements(c, a, o)'
      BY <2>2, <2>5, SameStays
    <2>. QED
      BY <1>1, <1>2, <1>3, <2>2, <2>5, <2>6 DEF OnceAt
  <1>. QED
    BY <1>6, <1>7, <1>8

(* Every frame is still sound.                                             *)
LEMMA RemovalKeeps ==
  ASSUME Kept, ~frame.atNext, NEW g \in 1..Len(frames), NEW n \in 1..Len(frames[g].loops),
         NEW c \in Collections, NEW s \in Seq(Elements), NEW i \in Nat, NEW v \in Nat,
         Removal(g, n, c, s, i, v), frames' \in Seq(Activation), version' \in [Arrays -> Nat],
         \A p, q \in 1..Len(s) : p # q => s[p] # s[q]
  PROVE  Kept'
  <1>0. TypeOK /\ Placed /\ Distinct
    BY DEF Kept
  <1>1. Len(frames) \in Nat /\ Len(frames) >= 1 /\ Len(frames') = Len(frames)
    <2>1. Len(frames') = Len(frames)
      BY Zenon DEF Removal
    <2>. QED
      BY <1>0, <2>1, Lengths
  <1>2. stack' \in Seq(Item) /\ OperandsWhole' /\ Placed'
    BY RemovalPlaced
  <1>3. /\ content' \in [Collections -> Seq(Elements)]
        /\ content'[c] = s /\ \A k \in Collections : k # c => content'[k] = content[k]
        /\ nulls' = nulls /\ changes' = changes
    BY <1>0 DEF Removal, TypeOK
  <1>4. TypeOK'
    <2>1. frames' # << >>
      BY <1>1, EmptySeq
    <2>. QED
      BY <1>0, <1>2, <1>3, <2>1 DEF TypeOK
  <1>5. Distinct'
    <2>1. ASSUME NEW k \in Collections
          PROVE  \A p, q \in 1..Len(content'[k]) : p # q => content'[k][p] # content'[k][q]
      <3>1. CASE k = c
        BY <1>3, <3>1
      <3>2. CASE k # c
        BY <1>0, <1>3, <3>2 DEF Distinct
      <3>. QED
        BY <3>1, <3>2
    <2>. QED
      BY <2>1 DEF Distinct
  <1>6. ASSUME NEW k \in 1..Len(frames), k # g
        PROVE  Sound(k)'
    <2>1. \A d \in 1..Len(frames[k].loops) : LoopKept(k, d)
      BY <1>6, RemovalSpares
    <2>2. Unsettled(frames[k], frames'[k], c, 0)
      BY <1>6 DEF Removal
    <2>3. FrameKept(k)
      BY <2>1, <2>2 DEF FrameKept, Unsettled
    <2>4. k \in 1..Len(frames') /\ Sound(k)
      BY <1>1 DEF Kept
    <2>. QED
      BY <1>0, <1>4, <2>3, <2>4, SoundStays
  <1>7. Sound(g)'
    <2>1. /\ frames'[g].active = Idle /\ frames'[g].array = frames[g].array
          /\ frames'[g].seen_version = v /\ frames'[g].invalidated = frames[g].invalidated
          /\ Len(frames'[g].loops) = Len(frames[g].loops)
      <3>1. Relieved(frames[g], frames'[g], c, n, v)
        BY DEF Removal
      <3>. QED
        BY <3>1 DEF Relieved
    <2>2. ActingAt(g)'
      BY <2>1 DEF ActingAt, Idle
    <2>3. ASSUME NEW d \in 1..Len(frames[g].loops), d # n
          PROVE  LoopWhole(g, d)' /\ VersionAt(g, d)' /\ OnceAt(g, d)'
      <3>1. LoopKept(g, d) /\ (frames[g].loops[d].over = c => ~frames'[g].loops[d].clean)
        BY <2>3, RemovalSpares
      <3>2. LoopWhole(g, d) /\ VersionAt(g, d) /\ OnceAt(g, d)
        BY DEF Kept, Sound
      <3>3. VersionAt(g, d)'
        <4>1. CASE frames[g].loops[d].over = c
          <5>1. ~frames'[g].loops[d].clean
            BY <3>1, <4>1
          <5>. QED
            BY <5>1, Zenon DEF VersionAt
        <4>2. CASE frames[g].loops[d].over # c /\ c \in Arrays
          <5>1. frames[g].array = c
            BY <4>2 DEF Removal
          <5>2. frames'[g].loops[d].over # frames'[g].array
            BY <2>1, <3>1, <4>2, <5>1 DEF LoopKept
          <5>. QED
            BY <5>2, Zenon DEF VersionAt
        <4>3. CASE c \notin Arrays
          <5>1. frames'[g].seen_version = frames[g].seen_version
            BY <2>1, <4>3 DEF Removal
          <5>. QED
            BY <1>0, <2>1, <3>1, <3>2, <5>1, VersionStays
        <4>. QED
          BY <4>1, <4>2, <4>3
      <3>. QED
        BY <3>1, <3>2, <3>3, LoopStaysWhole, LoopStaysOnce
    <2>4. ASSUME NEW d \in 1..Len(frames[g].loops), d = n
          PROVE  LoopWhole(g, d)' /\ VersionAt(g, d)' /\ OnceAt(g, d)'
      BY <2>4, RemovalKeepsLoop
    <2>. QED
      BY <2>1, <2>2, <2>3, <2>4 DEF Sound
  <1>8. \A k \in 1..Len(frames) : Sound(k)'
    BY <1>6, <1>7
  <1>. QED
    BY <1>1, <1>2, <1>4, <1>5, <1>8 DEF Kept

(* What remove() finds in the frame it acts for.                           *)
Acting(g, n, c, i) ==
  LET f == frames[g]
      l == f.loops[n]
  IN /\ n = Len(f.loops) /\ c = l.over /\ stack[l.at].n = i + 1
     /\ f.active.source = c /\ f.active.offset = l.at
     /\ l.at \in 1..Len(stack) /\ stack[l.at].kind = "iterator"
     /\ AtElement(f, l)

(* The frame remove() acts for has an active loop: its innermost.          *)
LEMMA RemoverFound ==
  ASSUME Kept, ~frame.atNext, NEW g \in Remover, ~frames[g].left
  PROVE  /\ g \in 1..Len(frames)
         /\ \E n \in 1..Len(frames[g].loops), c \in Collections, i \in Nat : Acting(g, n, c, i)
  <1>. DEFINE A == {k \in DOMAIN frames : frames[k].active # Idle}
              f == frames[g]
              n == Len(f.loops)
              l == f.loops[n]
  <1>0. TypeOK /\ Placed
    BY DEF Kept
  <1>1. /\ Len(frames) \in Nat /\ DOMAIN frames = 1..Len(frames) /\ Len(stack) \in Nat
        /\ top = Len(frames) /\ frame = frames[top]
    BY <1>0, Lengths, LenProperties DEF frame, TypeOK
  <1>2. g \in A
    <2>1. A \in SUBSET (1..Len(frames)) /\ A # {} /\ g = Max(A)
      BY <1>1 DEF Remover
    <2>. HIDE DEF A
    <2>. QED
      BY <1>1, <2>1, GreatestOf
  <1>3. g \in 1..Len(frames) /\ f.active # Idle /\ f \in Activation
    BY <1>0, <1>1, <1>2, FrameAt
  <1>4. ~f.atNext
    BY <1>0, <1>1, <1>3 DEF Placed, OnlyTopAdvances
  <1>5. /\ f.loops # << >>
        /\ f.active.source = Innermost(f).over /\ f.active.offset = Innermost(f).at
        /\ stack[Innermost(f).at].n >= 1
        /\ AtElement(f, Innermost(f))
    BY <1>3, <1>4 DEF Kept, Sound, ActingAt
  <1>6. n \in 1..n /\ Innermost(f) = l
    BY <1>3, <1>5, FieldsOfFrame
  <1>7. l.over \in Collections /\ l.at \in Nat /\ f.base \in Nat
    BY <1>0, <1>3, <1>6, LoopAt, FieldsOfLoop, FieldsOfFrame
  <1>8. l.at \in 1..Len(stack)
    <2>1. f.base + 2 <= l.at /\ l.at <= Len(stack)
      BY <1>0, <1>3, <1>6 DEF Placed, LoopsPlaced
    <2>2. \A b, a, h \in Nat : b + 2 <= a /\ a <= h => a \in 1..h
      OBVIOUS
    <2>3. Len(stack) \in Nat
      BY <1>1
    <2>. QED
      BY <1>7, <2>1, <2>2, <2>3, Zenon
  <1>9. stack[l.at].kind = "iterator"
    BY <1>3, <1>6 DEF Kept, Sound, LoopWhole
  <1>10. PICK i \in Nat : stack[l.at].n = i + 1
    <2>1. stack[l.at].n \in Int /\ stack[l.at].n >= 1
      BY <1>0, <1>5, <1>6, <1>8, ItemAt
    <2>2. stack[l.at].n - 1 \in Nat /\ stack[l.at].n = (stack[l.at].n - 1) + 1
      BY <2>1
    <2>. QED
      BY <2>2
  <1>11. Acting(g, n, l.over, i)
    BY <1>5, <1>6, <1>8, <1>9, <1>10 DEF Acting
  <1>. QED
    BY <1>3, <1>6, <1>7, <1>11, Zenon

(* What becomes of the frames.                                             *)
LEMMA RemoverFrames ==
  ASSUME TypeOK, NEW g \in 1..Len(frames), NEW c, NEW n
  PROVE  LET r == Disturbed(Removed(g), c, g, n)
         IN /\ r \in Seq(Activation) /\ Len(r) = Len(frames)
            /\ \A k \in 1..Len(frames) : k # g => Unsettled(frames[k], r[k], c, 0)
            /\ Relieved(frames[g], r[g], c, n, frames[g].seen_version)
  <1>1. frames[g] \in Activation /\ frames \in Seq(Activation)
    BY FrameAt DEF TypeOK
  <1>2. PICK h \in Activation :
          /\ h = [frames[g] EXCEPT !.active = Idle] /\ h.active = Idle
          /\ h.array = frames[g].array /\ h.seen_version = frames[g].seen_version
          /\ h.invalidated = frames[g].invalidated /\ h.base = frames[g].base
          /\ h.atNext = frames[g].atNext /\ h.left = frames[g].left
          /\ h.loops = frames[g].loops
    <2>1. LET h == [frames[g] EXCEPT !.active = Idle]
          IN /\ h \in Activation /\ h.active = Idle
             /\ h.array = frames[g].array /\ h.seen_version = frames[g].seen_version
             /\ h.invalidated = frames[g].invalidated /\ h.base = frames[g].base
             /\ h.atNext = frames[g].atNext /\ h.left = frames[g].left
             /\ h.loops = frames[g].loops
      BY <1>1, ItemsTyped DEF Activation
    <2>. QED
      BY <2>1, Zenon
  <1>3. PICK q \in Seq(Activation) :
          /\ q = Removed(g) /\ Len(q) = Len(frames) /\ q[g] = h
          /\ \A k \in 1..Len(frames) : k # g => q[k] = frames[k]
    <2>1. Removed(g) = [frames EXCEPT ![g] = h]
      BY <1>2 DEF Removed
    <2>. QED
      BY <1>1, <2>1, ExceptSeq
  <1>4. /\ Disturbed(q, c, g, n) \in Seq(Activation) /\ Len(Disturbed(q, c, g, n)) = Len(frames)
        /\ \A k \in 1..Len(frames) :
             Unsettled(q[k], Disturbed(q, c, g, n)[k], c, IF k = g THEN n ELSE 0)
    BY <1>3, DisturbedFrames
  <1>5. \A k \in 1..Len(frames) : k # g => Unsettled(frames[k], Disturbed(q, c, g, n)[k], c, 0)
    BY <1>3, <1>4
  <1>6. Relieved(frames[g], Disturbed(q, c, g, n)[g], c, n, frames[g].seen_version)
    <2>1. Unsettled(h, Disturbed(q, c, g, n)[g], c, n)
      BY <1>3, <1>4
    <2>. QED
      BY <1>2, <2>1 DEF Unsettled, Relieved
  <1>. QED
    BY <1>3, <1>4, <1>5, <1>6, Zenon

(* The iterator goes back by one.                                          *)
LEMMA StackRemoved ==
  ASSUME TypeOK, NEW g, NEW n, NEW c, NEW i \in Nat, Acting(g, n, c, i)
  PROVE  StackAfterRemove(frames[g]) = [stack EXCEPT ![frames[g].loops[n].at].n = i]
  <1>. DEFINE at == frames[g].loops[n].at
  <1>1. at \in DOMAIN stack /\ frames[g].active.offset = at
    BY LenProperties DEF Acting, TypeOK
  <1>2. Decremented(stack[at]) = [stack[at] EXCEPT !.n = i]
    <2>1. stack[at].kind # "object" /\ stack[at].n = i + 1
      BY DEF Acting
    <2>2. stack[at].n - 1 = i
      BY <2>1
    <2>. QED
      BY <2>1, <2>2 DEF Decremented
  <1>. QED
    BY <1>1, <1>2 DEF StackAfterRemove

(* The frame takes the version of the array.                               *)
LEMMA VersionTaken ==
  ASSUME NEW f, NEW h \in Activation, NEW c, NEW e, Relieved(f, h, c, e, f.seen_version),
         NEW v \in Nat
  PROVE  /\ [h EXCEPT !.seen_version = v] \in Activation
         /\ Relieved(f, [h EXCEPT !.seen_version = v], c, e, v)
  <1>1. LET z == [h EXCEPT !.seen_version = v]
        IN /\ z \in Activation /\ z.active = h.active /\ z.array = h.array
           /\ z.seen_version = v /\ z.invalidated = h.invalidated /\ z.base = h.base
           /\ z.atNext = h.atNext /\ z.left = h.left /\ z.loops = h.loops
    BY DEF Activation
  <1>2. PICK z \in Activation :
          /\ z = [h EXCEPT !.seen_version = v] /\ z.active = h.active /\ z.array = h.array
          /\ z.seen_version = v /\ z.invalidated = h.invalidated /\ z.base = h.base
          /\ z.atNext = h.atNext /\ z.left = h.left /\ z.loops = h.loops
    BY <1>1, Zenon
  <1>3. Relieved(f, z, c, e, v)
    BY <1>2 DEF Relieved
  <1>. QED
    BY <1>2, <1>3

(* What remove() does in a loop over an array.                             *)
OfArray(g, n, c) ==
  LET x == frames[g].active.index
      changed == x < Len(content[c])
  IN /\ content' = [content EXCEPT ![c] = IF changed THEN RemoveAt(@, x + 1) ELSE @]
     /\ version' = [version EXCEPT ![c] = IF changed THEN @ + 1 ELSE @]
     /\ frames' = [Disturbed(Removed(g), c, g, n) EXCEPT ![g].seen_version = version'[c]]

(* remove() in a loop over an array.                                       *)
LEMMA RemoveFromArray ==
  ASSUME Kept, ~frame.atNext, NEW g \in 1..Len(frames), NEW n \in 1..Len(frames[g].loops),
         NEW c \in Arrays, NEW i \in Nat, Acting(g, n, c, i),
         stack' = StackAfterRemove(frames[g]),
         OfArray(g, n, c),
         UNCHANGED <<nulls, changes>>
  PROVE  Kept'
  <1>. DEFINE f == frames[g]
              k == content[c]
              s == IF i < Len(k) THEN RemoveAt(k, i + 1) ELSE k
  <1>0. TypeOK
    BY DEF Kept
  <1>1. c \in Collections /\ k \in Seq(Elements) /\ Len(k) \in Nat
    BY <1>0, ContentOf DEF Collections
  <1>2. /\ f.active.index = i /\ f.array = c
        /\ f.loops[n].clean => i + 1 <= Len(k)
    <2>1. /\ f.active.index \in Nat /\ f.active.index + 1 = i + 1 /\ f.array = c
          /\ f.loops[n].clean => f.active.index + 1 <= Len(k)
      BY DEF Acting, AtElement
    <2>. QED
      BY <2>1
  <1>3. content' = [content EXCEPT ![c] = s]
    BY <1>2 DEF OfArray
  <1>4. PICK v \in Nat : v = version'[c] /\ version' \in [Arrays -> Nat]
    <2>1. version' \in [Arrays -> Nat]
      BY <1>0 DEF OfArray, TypeOK
    <2>. QED
      BY <2>1
  <1>5. \A a \in Arrays : a # c => version'[a] = version[a]
    BY <1>0 DEF OfArray, TypeOK
  <1>6. PICK r \in Seq(Activation) :
          /\ r = Disturbed(Removed(g), c, g, n) /\ Len(r) = Len(frames)
          /\ \A j \in 1..Len(frames) : j # g => Unsettled(frames[j], r[j], c, 0)
          /\ Relieved(f, r[g], c, n, f.seen_version)
    BY <1>0, RemoverFrames, Zenon
  <1>7. r[g] \in Activation
    BY <1>6, ElementOfSeq
  <1>8. PICK h \in Activation :
          h = [r[g] EXCEPT !.seen_version = v] /\ Relieved(f, h, c, n, v)
    BY <1>6, <1>7, VersionTaken
  <1>9. /\ frames' \in Seq(Activation) /\ Len(frames') = Len(frames) /\ frames'[g] = h
        /\ \A j \in 1..Len(frames) : j # g => frames'[j] = r[j]
    <2>1. frames' = [r EXCEPT ![g] = h]
      BY <1>4, <1>6, <1>8 DEF OfArray
    <2>. QED
      BY <1>6, <2>1, ExceptSeq
  <1>10. /\ s \in Seq(Elements) /\ \A p, q \in 1..Len(s) : p # q => s[p] # s[q]
         /\ f.loops[n].clean => SubSeq(s, i + 1, Len(s)) = SubSeq(k, (i + 1) + 1, Len(k))
    <2>1. \A p, q \in 1..Len(k) : p # q => k[p] # k[q]
      BY <1>1 DEF Kept, Distinct
    <2>. HIDE DEF k
    <2>2. CASE i < Len(k)
      <3>1. i + 1 \in 1..Len(k) /\ i + 1 \in Nat /\ s = RemoveAt(k, i + 1)
        BY <1>1, <2>2
      <3>2. s \in Seq(Elements) /\ \A p, q \in 1..Len(s) : p # q => s[p] # s[q]
        BY <1>1, <2>1, <3>1, RemovedAt, StillDistinct
      <3>3. SubSeq(s, ((i + 1) - 1) + 1, Len(s)) = SubSeq(k, (i + 1) + 1, Len(k))
        BY <1>1, <3>1, RestAfterRemoval
      <3>4. ((i + 1) - 1) + 1 = i + 1
        OBVIOUS
      <3>. QED
        BY <3>2, <3>3, <3>4
    <2>3. CASE ~(i < Len(k))
      <3>1. ~f.loops[n].clean
        BY <1>1, <1>2, <2>3
      <3>. QED
        BY <1>1, <2>1, <2>3, <3>1
    <2>. QED
      BY <2>2, <2>3
  <1>11. stack' = [stack EXCEPT ![f.loops[n].at].n = i]
    BY <1>0, StackRemoved
  <1>. HIDE DEF s
  <1>12. Removal(g, n, c, s, i, v)
    BY <1>2, <1>3, <1>4, <1>5, <1>6, <1>8, <1>9, <1>10, <1>11 DEF Removal, Acting
  <1>. QED
    BY <1>1, <1>4, <1>9, <1>10, <1>12, RemovalKeeps

(* remove() in a loop over a hash.                                         *)
LEMMA RemoveFromHash ==
  ASSUME Kept, ~frame.atNext, NEW g \in 1..Len(frames), NEW n \in 1..Len(frames[g].loops),
         NEW c \in Hashes, NEW i \in Nat, Acting(g, n, c, i),
         stack' = StackAfterRemove(frames[g]),
         content' = [content EXCEPT ![c] = RemoveFirst(@, frames[g].active.index)],
         frames' = Disturbed(Removed(g), c, g, n),
         UNCHANGED <<version, nulls, changes>>
  PROVE  Kept'
  <1>. DEFINE f == frames[g]
              k == content[c]
              x == f.active.index
              s == RemoveFirst(k, x)
  <1>0. TypeOK
    BY DEF Kept
  <1>1. c \in Collections /\ c \notin Arrays /\ k \in Seq(Elements) /\ Len(k) \in Nat
    BY <1>0, ContentOf, ForeachAssumption DEF Collections
  <1>2. f.loops[n].clean =>
          \E p \in 1..Len(k) : k[p] = x /\ (p = i + 1 \/ i + 1 > Len(k))
    BY <1>1 DEF Acting, AtElement
  <1>3. PICK v \in Nat : v = f.seen_version
    BY <1>0, FrameAt, FieldsOfFrame
  <1>4. /\ frames' \in Seq(Activation) /\ Len(frames') = Len(frames)
        /\ \A j \in 1..Len(frames) : j # g => Unsettled(frames[j], frames'[j], c, 0)
        /\ Relieved(f, frames'[g], c, n, v)
    <2>1. LET r == Disturbed(Removed(g), c, g, n)
          IN /\ r \in Seq(Activation) /\ Len(r) = Len(frames)
             /\ \A j \in 1..Len(frames) : j # g => Unsettled(frames[j], r[j], c, 0)
             /\ Relieved(f, r[g], c, n, f.seen_version)
      BY <1>0, RemoverFrames
    <2>. QED
      BY <1>3, <2>1
  <1>5. \A p, q \in 1..Len(k) : p # q => k[p] # k[q]
    BY <1>1 DEF Kept, Distinct
  <1>6. /\ s \in Seq(Elements) /\ \A p, q \in 1..Len(s) : p # q => s[p] # s[q]
        /\ f.loops[n].clean => SubSeq(s, i + 1, Len(s)) = SubSeq(k, (i + 1) + 1, Len(k))
    <2>. HIDE DEF k, x
    <2>1. \/ ~Contains(k, x) /\ s = k
          \/ \E q \in 1..Len(k) : k[q] = x /\ s = RemoveAt(k, q)
      BY <1>1, FirstRemoved
    <2>2. CASE ~Contains(k, x) /\ s = k
      <3>1. ~\E p \in 1..Len(k) : k[p] = x
        BY <2>2 DEF Contains
      <3>2. ~f.loops[n].clean
        BY <1>2, <3>1
      <3>. QED
        BY <1>1, <1>5, <2>2, <3>2
    <2>3. ASSUME NEW q \in 1..Len(k), k[q] = x, s = RemoveAt(k, q)
          PROVE  /\ s \in Seq(Elements) /\ \A p, o \in 1..Len(s) : p # o => s[p] # s[o]
                 /\ f.loops[n].clean =>
                      SubSeq(s, i + 1, Len(s)) = SubSeq(k, (i + 1) + 1, Len(k))
      <3>1. s \in Seq(Elements) /\ \A p, o \in 1..Len(s) : p # o => s[p] # s[o]
        <4>1. /\ RemoveAt(k, q) \in Seq(Elements)
              /\ \A p, o \in 1..Len(RemoveAt(k, q)) :
                   p # o => RemoveAt(k, q)[p] # RemoveAt(k, q)[o]
          BY <1>1, <1>5, RemovedAt, StillDistinct
        <4>. QED
          BY <2>3, <4>1
      <3>2. ASSUME f.loops[n].clean
            PROVE  SubSeq(s, i + 1, Len(s)) = SubSeq(k, (i + 1) + 1, Len(k))
        <4>1. q = i + 1 \/ i + 1 > Len(k)
          BY <1>2, <1>5, <2>3, <3>2
        <4>2. /\ i + 1 \in Nat
              /\ SubSeq(RemoveAt(k, q), ((i + 1) - 1) + 1, Len(RemoveAt(k, q)))
                 = SubSeq(k, (i + 1) + 1, Len(k))
          BY <1>1, <4>1, RestAfterRemoval
        <4>3. ((i + 1) - 1) + 1 = i + 1
          OBVIOUS
        <4>. QED
          BY <2>3, <4>2, <4>3
      <3>. QED
        BY <3>1, <3>2
    <2>. QED
      BY <2>1, <2>2, <2>3
  <1>7. stack' = [stack EXCEPT ![f.loops[n].at].n = i]
    BY <1>0, StackRemoved
  <1>8. version' \in [Arrays -> Nat] /\ content' = [content EXCEPT ![c] = s]
    BY <1>0 DEF TypeOK
  <1>. HIDE DEF s
  <1>9. Removal(g, n, c, s, i, v)
    BY <1>1, <1>3, <1>4, <1>6, <1>7, <1>8 DEF Removal, Acting
  <1>. QED
    BY <1>1, <1>4, <1>6, <1>8, <1>9, RemovalKeeps

(* remove(), for a program that calls it in the loop it means.             *)
LEMMA RemoveKeeps ==
  ASSUME ~AfterBreak, Kept, RemoveCurrent
  PROVE  Kept'
  <1>1. ~frame.atNext /\ UNCHANGED <<nulls, changes>>
    BY DEF RemoveCurrent
  <1>2. PICK g \in Remover :
          LET f == frames[g]
              x == f.active.index
              c == f.active.source
              after == Disturbed(Removed(g), c, g, Len(f.loops))
          IN /\ ~f.left /\ stack' = StackAfterRemove(f)
             /\ \/ /\ c \in Arrays
                   /\ content' = [content EXCEPT ![c] =
                        IF x < Len(@) THEN RemoveAt(@, x + 1) ELSE @]
                   /\ version' = [version EXCEPT ![c] =
                        IF x < Len(content[c]) THEN @ + 1 ELSE @]
                   /\ frames' = [after EXCEPT ![g].seen_version = version'[c]]
                \/ /\ c \in Hashes
                   /\ content' = [content EXCEPT ![c] = RemoveFirst(@, x)]
                   /\ frames' = after
                   /\ UNCHANGED version
    BY Zenon DEF RemoveCurrent
  <1>3. /\ g \in 1..Len(frames)
        /\ \E n \in 1..Len(frames[g].loops), c \in Collections, i \in Nat : Acting(g, n, c, i)
    BY <1>1, <1>2, RemoverFound
  <1>4. PICK n \in 1..Len(frames[g].loops), c \in Collections, i \in Nat : Acting(g, n, c, i)
    BY <1>3
  <1>5. n = Len(frames[g].loops) /\ c = frames[g].active.source
    BY <1>4 DEF Acting
  <1>6. CASE c \in Arrays /\ OfArray(g, n, c)
    BY <1>1, <1>2, <1>3, <1>4, <1>6, RemoveFromArray
  <1>7. CASE /\ c \in Hashes
             /\ content' = [content EXCEPT ![c] = RemoveFirst(@, frames[g].active.index)]
             /\ frames' = Disturbed(Removed(g), c, g, n)
             /\ version' = version
    BY <1>1, <1>2, <1>3, <1>4, <1>7, RemoveFromHash
  <1>. QED
    BY <1>2, <1>5, <1>6, <1>7 DEF OfArray

-----------------------------------------------------------------------------
(* The invariant holds at first, and every step keeps it.                  *)
LEMMA InitKept ==
  ASSUME Init
  PROVE  Kept
  <1>. DEFINE f == NewFrame(0)
  <1>1. /\ frames = <<f>> /\ stack = << >> /\ changes = 0
        /\ content \in [Collections -> Starts] /\ nulls = [h \in Hashes |-> {}]
        /\ version = [a \in Arrays |-> 0]
    BY DEF Init
  <1>2. /\ f \in Activation /\ f.base = 0 /\ f.loops = << >> /\ ~f.atNext /\ f.active = Idle
    <2>1. Idle \in Activity /\ << >> \in Seq(Loop)
      BY ItemsTyped, EmptySeq
    <2>. QED
      BY <2>1 DEF NewFrame, Activation
  <1>. HIDE DEF f
  <1>3. /\ frames \in Seq(Activation) /\ Len(frames) = 1 /\ frames[1] = f /\ frames # << >>
        /\ \A g \in 1..Len(frames) : g = 1
    <2>1. <<f>> \in Seq(Activation) /\ Len(<<f>>) = 1 /\ <<f>>[1] = f /\ <<f>> # << >>
      BY <1>2
    <2>2. \A g \in 1..1 : g = 1
      OBVIOUS
    <2>. QED
      BY <1>1, <2>1, <2>2
  <1>4. stack \in Seq(Item) /\ Len(stack) = 0
    BY <1>1, EmptySeq
  <1>5. content \in [Collections -> Seq(Elements)]
    BY <1>1, ForeachAssumption
  <1>6. TypeOK
    <2>1. nulls \in [Hashes -> SUBSET Elements] /\ version \in [Arrays -> Nat] /\ changes \in Nat
      BY <1>1
    <2>. QED
      BY <1>3, <1>4, <1>5, <2>1 DEF TypeOK
  <1>7. Distinct
    <2>1. ASSUME NEW c \in Collections
          PROVE  \A i, j \in 1..Len(content[c]) : i # j => content[c][i] # content[c][j]
      <3>1. content[c] \in Seq(Elements) /\ IsInjective(content[c])
        BY <1>1, ForeachAssumption
      <3>2. DOMAIN content[c] = 1..Len(content[c])
        BY <3>1, LenProperties
      <3>. QED
        BY <3>1, <3>2 DEF IsInjective
    <2>. QED
      BY <2>1 DEF Distinct
  <1>8. Placed /\ OperandsWhole
    <2>1. Len(f.loops) = 0 /\ 0 <= 0
      BY <1>2
    <2>2. LoopsPlaced
      BY <1>2, <1>3, <1>4, <2>1 DEF LoopsPlaced
    <2>3. FramesPlaced
      BY <1>3 DEF FramesPlaced
    <2>4. OnlyTopAdvances
      BY <1>2, <1>3 DEF OnlyTopAdvances
    <2>5. OperandsWhole
      BY <1>4 DEF OperandsWhole
    <2>. QED
      BY <2>2, <2>3, <2>4, <2>5 DEF Placed
  <1>9. ASSUME NEW g \in 1..Len(frames)
        PROVE  Sound(g)
    <2>1. frames[g].active = Idle /\ Len(frames[g].loops) = 0
      BY <1>2, <1>3
    <2>. QED
      BY <2>1 DEF Sound, ActingAt
  <1>. QED
    BY <1>6, <1>7, <1>8, <1>9 DEF Kept

(* Every step keeps the invariant.                                         *)
LEMMA NextKeeps ==
  ASSUME ~AfterBreak, Kept, [Next]_vars
  PROVE  Kept'
  <1>1. ASSUME NEW c \in Collections, Enter(c)
        PROVE  Kept'
    BY <1>1, EnterKeeps
  <1>2. ASSUME NEW c \in Collections, NEW e \in Elements, Add(c, e)
        PROVE  Kept'
    BY <1>2, AddKeeps
  <1>3. ASSUME NEW c \in Collections, NEW e \in Elements, Take(c, e)
        PROVE  Kept'
    BY <1>3, TakeKeeps
  <1>4. ASSUME NEW c \in Collections, NEW e \in Elements, Assign(c, e)
        PROVE  Kept'
    BY <1>4, AssignKeeps
  <1>5. CASE Advance
    BY <1>5, AdvanceKeeps
  <1>6. CASE EndBody
    BY <1>6, EndBodyKeeps
  <1>7. CASE Break
    BY <1>7, BreakKeeps
  <1>8. CASE Push
    BY <1>8, PushKeeps
  <1>9. CASE Pop
    BY <1>9, PopKeeps
  <1>10. CASE Call
    BY <1>10, CallKeeps
  <1>11. CASE Return
    BY <1>11, ReturnKeeps
  <1>12. CASE RemoveCurrent
    BY <1>12, RemoveKeeps
  <1>13. CASE UNCHANGED vars
    <2>1. UNCHANGED <<content, nulls, version, frames, stack, changes>>
      BY <1>13 DEF vars
    <2>2. TypeOK' /\ Distinct' /\ OperandsWhole'
      BY <2>1 DEF Kept, TypeOK, Distinct, OperandsWhole
    <2>3. Placed'
      BY <2>1 DEF Kept, Placed, LoopsPlaced, FramesPlaced, OnlyTopAdvances
    <2>4. ASSUME NEW g \in 1..Len(frames)
          PROVE  Sound(g)'
      <3>1. TypeOK /\ Placed /\ Sound(g) /\ g \in 1..Len(frames')
        BY <2>1 DEF Kept
      <3>2. Len(stack) \in Nat /\ StackKeptTo(Len(stack))
        BY <2>1, <3>1, Lengths DEF StackKeptTo
      <3>3. FrameKept(g)
        BY <2>1, <3>1, <3>2, SameFrame DEF Placed, LoopsPlaced
      <3>. QED
        BY <2>2, <3>1, <3>3, SoundStays
    <2>. QED
      BY <2>1, <2>2, <2>3, <2>4 DEF Kept
  <1>. QED
    BY <1>1, <1>2, <1>3, <1>4, <1>5, <1>6, <1>7, <1>8, <1>9, <1>10, <1>11, <1>12, <1>13,
       Zenon DEF Next

(* A visit leaves no loop.                                                 *)
LEMMA VisitStays ==
  ASSUME Kept, frame.atNext, NEW f \in Activation, f.loops = frame.loops,
         NEW e \in Elements, NEW i \in Nat, Visit(f, e, i)
  PROVE  Len(frames'[top].loops) = Len(frame.loops)
  <1>. DEFINE n == Len(frame.loops)
              l == Innermost(f)
              a == IF l.clean THEN Append(l.seen, e) ELSE l.seen
              h == [f EXCEPT !.atNext = FALSE, !.loops = [f.loops EXCEPT ![n] = [l EXCEPT !.seen = a]]]
  <1>0. TypeOK /\ frames \in Seq(Activation)
    BY DEF Kept, TypeOK
  <1>1. top \in 1..Len(frames) /\ n \in 1..n /\ f.loops \in Seq(Loop) /\ Len(f.loops) = n
    BY RunningFrame, AtNext, Zenon
  <1>2. l = f.loops[n] /\ l \in Loop
    BY <1>1, ElementOfSeq, EmptySeq, FieldsOfFrame
  <1>3. a \in Seq(Elements)
    <2>1. l.seen \in Seq(Elements)
      BY <1>2, FieldsOfLoop
    <2>2. Append(l.seen, e) \in Seq(Elements)
      BY <2>1, AppendProperties
    <2>. QED
      BY <2>1, <2>2
  <1>4. [l EXCEPT !.seen = a] \in Loop
    <2>. HIDE DEF a, l
    <2>. QED
      BY <1>2, <1>3 DEF Loop
  <1>5. PICK r \in Seq(Loop) : r = [f.loops EXCEPT ![n] = [l EXCEPT !.seen = a]] /\ Len(r) = n
    <2>1. PICK v \in Loop : v = [l EXCEPT !.seen = a]
      BY <1>4
    <2>2. PICK s \in Seq(Loop), m \in 1..n : s = f.loops /\ m = n /\ Len(s) = n
      BY <1>1
    <2>3. [s EXCEPT ![m] = v] \in Seq(Loop) /\ Len([s EXCEPT ![m] = v]) = Len(s)
      BY <2>2, ExceptSeq
    <2>4. [f.loops EXCEPT ![n] = [l EXCEPT !.seen = a]] = [s EXCEPT ![m] = v]
      BY <2>1, <2>2
    <2>. QED
      BY <2>2, <2>3, <2>4
  <1>6. h \in Activation /\ h.loops = r
    <2>1. h = [f EXCEPT !.atNext = FALSE, !.loops = r]
      BY <1>5
    <2>. HIDE DEF h
    <2>. QED
      BY <2>1 DEF Activation
  <1>7. frames' = [frames EXCEPT ![top] = h]
    BY <1>1, <1>2 DEF Visit
  <1>. HIDE DEF h
  <1>8. frames'[top] = h
    BY <1>0, <1>1, <1>6, <1>7, ExceptSeq
  <1>. QED
    BY <1>5, <1>6, <1>8

(* A loop over a collection nobody disturbed ends when there is nothing    *)
(* left for its iterator.                                                  *)
LEMMA EndsAtEnd ==
  ASSUME Kept, Advance, Innermost(frame).clean,
         Len(frames'[top].loops) < Len(frame.loops)
  PROVE  LET l == Innermost(frame)
             k == content[l.over]
         IN stack[l.at].n \notin 0..Len(k) - 1
  <1>. DEFINE n == Len(frame.loops)
              l == Innermost(frame)
              c == l.over
              k == content[c]
              i == stack[Len(stack)].n
  <1>0. TypeOK /\ frames \in Seq(Activation)
    BY DEF Kept, TypeOK
  <1>1. /\ top \in 1..Len(frames) /\ frame = frames[top] /\ frame \in Activation
        /\ frame.loops \in Seq(Loop) /\ Sound(top) /\ n \in Nat
    BY RunningFrame
  <1>2. /\ n \in 1..n /\ l = frame.loops[n] /\ l \in Loop /\ l.at = Len(stack)
        /\ c \in Collections /\ stack[Len(stack) - 1].of = c /\ i \in Nat /\ frame.atNext
        /\ Len(stack) \in 1..Len(stack)
    BY AtNext, Zenon DEF Advance
  <1>3. k \in Seq(Elements) /\ Len(k) \in Nat /\ c # None
    BY <1>0, <1>2, ContentOf, ForeachAssumption
  <1>4. SUFFICES ASSUME i \in 0..Len(k) - 1
                 PROVE  FALSE
    BY <1>2
  <1>5. i + 1 \in 1..Len(k) /\ i + 1 \in Nat /\ k[i + 1] \in Elements
    <2>1. i + 1 \in 1..Len(k)
      BY <1>3, <1>4
    <2>. QED
      BY <1>3, <2>1, ElementOfSeq
  <1>6. CASE c \in Arrays /\ NextOfArray(c, i)
    <2>1. PICK f \in Activation :
             /\ f = Synced(Reset(frame), c, i)
             /\ f.active = Idle /\ ~f.left /\ f.base = frame.base /\ f.loops = frame.loops
             /\ f.array = c
             /\ i = 0 \/ frame.array # c => f.seen_version = version[c] /\ ~f.invalidated
             /\ ~(i = 0 \/ frame.array # c) => /\ f.seen_version = frame.seen_version
                                              /\ f.invalidated = frame.invalidated
      BY <1>0, <1>1, <1>2, <1>6, FrameAtNext
    <2>2. ~f.invalidated /\ f.seen_version = version[c]
      <3>1. VersionAt(top, n)
        BY <1>1, <1>2 DEF Sound
      <3>2. i > 0 /\ frame.array = c => frame.seen_version = version[c] /\ ~frame.invalidated
        BY <1>1, <1>2, <3>1 DEF VersionAt
      <3>3. i = 0 \/ i > 0
        BY <1>2
      <3>. QED
        BY <2>1, <3>2, <3>3
    <2>3. Visit(Activated(f, c, i), k[i + 1], i + 1)
      BY <1>4, <1>6, <2>1, <2>2 DEF NextOfArray
    <2>4. PICK h \in Activation : h = Activated(f, c, i) /\ h.loops = f.loops
      <3>1. PICK q \in Collections, x \in Nat \cup Elements : q = c /\ x = i
        BY <1>2
      <3>2. \E h \in Activation : h = Activated(f, q, x) /\ h.loops = f.loops
        BY <1>0, ActivatedFrame
      <3>. QED
        BY <3>1, <3>2, Zenon
    <2>5. PICK e \in Elements, o \in Nat : e = k[i + 1] /\ o = i + 1
      BY <1>5
    <2>6. Visit(h, e, o)
      BY <2>3, <2>4, <2>5, Zenon
    <2>7. h.loops = frame.loops /\ frame.atNext
      BY <1>2, <2>1, <2>4
    <2>8. Len(frames'[top].loops) = Len(frame.loops)
      BY <2>6, <2>7, VisitStays
    <2>. QED
      BY <1>1, <2>8
  <1>7. CASE c \in Hashes /\ NextOfHash(c, i)
    <2>1. PICK f \in Activation : f = Reset(frame) /\ f.loops = frame.loops
      BY <1>1, ResetFrame
    <2>2. PICK z \in SUBSET Elements : z = nulls[c]
      BY <1>0, <1>7 DEF TypeOK
    <2>3. PICK e \in Elements, o \in Nat : NextKey(k, z, i, e, o)
      <3>1. PICK y \in Seq(Elements) : y = k
        BY <1>3
      <3>2. \E e \in Elements, o \in Nat : NextKey(y, z, i, e, o)
        BY <1>4, <3>1, KeyToVisit
      <3>. QED
        BY <3>1, <3>2
    <2>4. Visit(Activated(f, c, e), e, o)
      <3>1. e = Key(k, nulls[c], i) /\ o = Ordinal(k, nulls[c], i) + 1
        BY <2>2, <2>3 DEF NextKey
      <3>2. Visit(Activated(f, c, Key(k, nulls[c], i)), Key(k, nulls[c], i),
                  Ordinal(k, nulls[c], i) + 1)
        BY <1>4, <1>7, <2>1, Zenon DEF NextOfHash, Key, Ordinal, Remaining
      <3>. QED
        BY <3>1, <3>2
    <2>5. PICK h \in Activation : h = Activated(f, c, e) /\ h.loops = f.loops
      <3>1. PICK q \in Collections, x \in Nat \cup Elements : q = c /\ x = e
        BY <1>2
      <3>2. \E h \in Activation : h = Activated(f, q, x) /\ h.loops = f.loops
        BY <1>0, ActivatedFrame
      <3>. QED
        BY <3>1, <3>2, Zenon
    <2>6. Visit(h, e, o)
      BY <2>4, <2>5, Zenon
    <2>7. h.loops = frame.loops /\ frame.atNext
      BY <1>2, <2>1, <2>5
    <2>8. Len(frames'[top].loops) = Len(frame.loops)
      BY <2>6, <2>7, VisitStays
    <2>. QED
      BY <1>1, <2>8
  <1>. QED
    BY <1>2, <1>3, <1>6, <1>7 DEF Advance

(* Then it has visited what it started with.                               *)
LEMMA EndsWithAllSeen ==
  ASSUME Kept, Advance, Innermost(frame).clean,
         Len(frames'[top].loops) < Len(frame.loops)
  PROVE  SameElements(Innermost(frame).over, Innermost(frame).seen, Innermost(frame).orig)
  <1>. DEFINE n == Len(frame.loops)
              l == Innermost(frame)
              k == content[l.over]
              i == stack[l.at].n
  <1>0. TypeOK
    BY DEF Kept
  <1>1. /\ n \in 1..n /\ l = frame.loops[n] /\ l \in Loop /\ l.over \in Collections
        /\ i \in Nat /\ OnceAt(top, n) /\ frame = frames[top]
    BY AtNext, Zenon DEF Advance, frame
  <1>2. k \in Seq(Elements) /\ Len(k) \in Nat /\ l.seen \in Seq(Elements)
    BY <1>0, <1>1, ContentOf, FieldsOfLoop
  <1>3. i >= Len(k)
    <2>1. i \notin 0..Len(k) - 1
      BY EndsAtEnd, Zenon
    <2>. QED
      BY <1>1, <1>2, <2>1
  <1>4. SubSeq(k, i + 1, Len(k)) = << >>
    BY <1>1, <1>2, <1>3, RestOf
  <1>5. SameElements(l.over, l.seen \o SubSeq(k, i + 1, Len(k)), l.orig)
    BY <1>1 DEF OnceAt
  <1>6. l.seen \o << >> = l.seen
    BY <1>2, ConcatEmptySeq
  <1>. QED
    BY <1>4, <1>5, <1>6

-----------------------------------------------------------------------------
(* What the invariant gives.                                               *)

(* The invariant holds in every state a program reaches.                   *)
LEMMA KeptHolds ==
  ASSUME ~AfterBreak
  PROVE  Spec => []Kept
  <1>1. Init => Kept
    BY InitKept
  <1>2. Kept /\ [Next]_vars => Kept'
    BY NextKeeps
  <1>. QED
    BY <1>1, <1>2, PTL DEF Spec

(* The positions of the frames, and of the items on the stack, and of the  *)
(* loops of a frame.                                                       *)
LEMMA Positions ==
  ASSUME TypeOK
  PROVE  /\ DOMAIN frames = 1..Len(frames) /\ DOMAIN stack = 1..Len(stack)
         /\ \A g \in DOMAIN frames : DOMAIN frames[g].loops = 1..Len(frames[g].loops)
  <1>1. DOMAIN frames = 1..Len(frames) /\ DOMAIN stack = 1..Len(stack)
    BY LenProperties DEF TypeOK
  <1>2. \A g \in 1..Len(frames) : frames[g].loops \in Seq(Loop)
    BY FrameAt, FieldsOfFrame
  <1>. QED
    BY <1>1, <1>2, LenProperties

(* The types of the state of a program that iterates.                      *)
THEOREM TypeCorrect ==
  ASSUME ~AfterBreak
  PROVE  Spec => []TypeOK
  <1>1. Kept => TypeOK
    BY DEF Kept
  <1>. QED
    BY <1>1, KeptHolds, PTL

(* Whatever a program nests, calls and removes, every loop finds its       *)
(* collection and its iterator where it put them, and remove() changes no  *)
(* operand (foreach_iterator_offset).                                      *)
THEOREM OperandsIntact ==
  ASSUME ~AfterBreak
  PROVE  Spec => []StackIntact
  <1>1. Kept => StackIntact
    BY Positions DEF Kept, Sound, LoopWhole, OperandsWhole, StackIntact
  <1>. QED
    BY <1>1, KeptHolds, PTL

(* remove() takes the element its loop visited last.                       *)
THEOREM RemovesTheRightOne ==
  ASSUME ~AfterBreak
  PROVE  Spec => []RemovesCurrentElement
  <1>1. ASSUME Kept
        PROVE  RemovesCurrentElement
    <2>1. ASSUME NEW g \in DOMAIN frames
          PROVE  ActingAt(g)
      BY <1>1, <2>1, Positions DEF Kept, Sound
    <2>. QED
      BY <2>1 DEF RemovesCurrentElement, ActingAt, AtElement
  <1>. QED
    BY <1>1, KeptHolds, PTL

(* Nothing is skipped and nothing visited twice, whatever other loops,     *)
(* calls and removals do (OP_FOREACH_NEXT, native_remove).                 *)
THEOREM NothingSkippedOrRepeated ==
  ASSUME ~AfterBreak
  PROVE  Spec => []EachElementOnce
  <1>1. Kept => EachElementOnce
    BY Positions DEF Kept, Sound, OnceAt, EachElementOnce
  <1>. QED
    BY <1>1, KeptHolds, PTL

(* A loop ends when all was visited, never for a change made to the array  *)
(* of an earlier loop (foreach_invalidated).                               *)
THEOREM EndsInTime ==
  ASSUME ~AfterBreak
  PROVE  Spec => EndsWhenAllSeen
  <1>1. Kept => [\A g \in DOMAIN frames :
                   /\ Advance /\ g = top
                   /\ g \in DOMAIN frames'
                   /\ Len(frames'[g].loops) < Len(frames[g].loops)
                   /\ Innermost(frames[g]).clean
                   => SameElements(Innermost(frames[g]).over, Innermost(frames[g]).seen,
                                   Innermost(frames[g]).orig)]_vars
    BY EndsWithAllSeen DEF frame
  <1>. QED
    BY <1>1, KeptHolds, PTL DEF Spec, EndsWhenAllSeen
=============================================================================
