---------------------------- MODULE ArrayProofs -----------------------------
(***************************************************************************)
(* Proofs about ArrayViews, for any number of arrays, views and edits: a   *)
(* view mirrors its source however views of views, stale ones too, are     *)
(* edited, until its source is edited otherwise or it shows elements that  *)
(* were removed; a view that such an edit made invalid stays so, but for   *)
(* the ways back that the property names; and no edit through views that   *)
(* mirror their sources changes the root outside of their window.          *)
(***************************************************************************)
EXTENDS ArrayViews, SequenceFacts

(* Arrays with elements in V; heaps of n of them, sources first.           *)
Arr(V) ==
  {x \in [elements : Seq(V), count : Nat, mutation_version : Nat,
          view_source : Nat, view_offset : Nat, view_source_version : Nat,
          view_invalid : BOOLEAN] :
     x.count <= Len(x.elements)}

Heaps(V, N) == {h \in [1..N -> Arr(V)] : \A x \in 1..N : h[x].view_source < x}

-----------------------------------------------------------------------------
(* What a loop does.                                                       *)

(* Every number up to n is in a set that holds 0 and, with a number, the   *)
(* next one.                                                               *)
LEMMA Climbing ==
  ASSUME NEW n \in Nat, NEW S, 0 \in S, \A k \in 1..n : k - 1 \in S => k \in S
  PROVE  \A k \in 0..n : k \in S
  <1>1. SUFFICES ASSUME NEW c \in 0..n, c \notin S
                 PROVE  FALSE
    OBVIOUS
  <1>. DEFINE bad == {k \in 0..n : k \notin S}
  <1>2. bad \in SUBSET Nat /\ bad # {}
    BY <1>1
  <1>3. PICK b \in bad : \A x \in bad : b <= x
    <2>. HIDE DEF bad
    <2>. QED
      BY <1>2, LeastOf
  <1>4. b \in 1..n /\ b - 1 \in 0..n /\ ~(b <= b - 1) /\ b \notin S
    OBVIOUS
  <1>5. b - 1 \in S
    BY <1>3, <1>4
  <1>. QED
    BY <1>4, <1>5

(* A loop whose k-th round F[k] takes S[k-1] into S[k] has a run f of n    *)
(* rounds.                                                                 *)
Takes(F, n, x, S) ==
  /\ n \in Nat /\ x \in S[0]
  /\ \A k \in 1..n : \A g \in S[k-1] : F[k][g] \in S[k]
IsRun(f, F, n, x, S) ==
  /\ f = [k \in 0..n |-> f[k]]
  /\ f[0] = x /\ \A k \in 1..n : f[k] = F[k][f[k-1]]
  /\ \A k \in 0..n : f[k] \in S[k]
LEMMA Rounds ==
  ASSUME NEW F, NEW n, NEW x, NEW S, Takes(F, n, x, S)
  PROVE  \E f : IsRun(f, F, n, x, S)
  <1>. DEFINE Run(m, f) ==
                /\ f = [k \in 0..m |-> IF k = 0 THEN x ELSE F[k][f[k-1]]]
                /\ \A k \in 0..m : f[k] \in S[k]
              T == {m \in Nat : \E f : Run(m, f)}
  <1>. n \in Nat /\ x \in S[0] /\ \A k \in 1..n : \A g \in S[k-1] : F[k][g] \in S[k]
    BY DEF Takes
  <1>1. 0 \in T
    <2>. DEFINE f == [k \in 0..0 |-> x]
    <2>1. Run(0, f)
      OBVIOUS
    <2>. QED
      BY <2>1
  <1>2. ASSUME NEW m \in 1..n, m - 1 \in T
        PROVE  m \in T
    <2>1. PICK f : Run(m - 1, f)
      BY <1>2
    <2>. DEFINE g == [k \in 0..m |-> IF k = m THEN F[m][f[m-1]] ELSE f[k]]
                next(q, k) == IF k = 0 THEN x ELSE F[k][q[k-1]]
    <2>2. m \in Nat /\ m # 0 /\ m - 1 \in 0..m - 1
      OBVIOUS
    <2>3. ASSUME NEW k \in 0..m
          PROVE  g[k] = next(g, k) /\ g[k] \in S[k]
      <3>1. CASE k = m
        <4>1. m - 1 \in 0..m /\ m - 1 # m
          BY <2>2
        <4>2. g[m - 1] = f[m - 1] /\ g[m] = F[m][f[m - 1]]
          BY <4>1
        <4>3. f[m - 1] \in S[m - 1]
          BY <2>1, <2>2
        <4>4. F[m][f[m - 1]] \in S[m]
          BY <4>3
        <4>. QED
          BY <2>2, <3>1, <4>2, <4>4
      <3>2. CASE k # m
        <4>1. k \in 0..m - 1 /\ (k # 0 => k - 1 \in 0..m /\ k - 1 # m)
          BY <3>2
        <4>2. f[k] = next(f, k) /\ f[k] \in S[k]
          BY <2>1, <4>1
        <4>3. g[k] = f[k] /\ (k # 0 => g[k - 1] = f[k - 1])
          BY <3>2, <4>1
        <4>. QED
          BY <4>2, <4>3
      <3>. QED
        BY <3>1, <3>2
    <2>4. g = [k \in 0..m |-> g[k]]
      OBVIOUS
    <2>5. g = [k \in 0..m |-> next(g, k)]
      <3>. HIDE DEF g, next
      <3>. QED
        BY <2>3, <2>4
    <2>6. Run(m, g)
      BY <2>3, <2>5
    <2>. QED
      BY <2>2, <2>6
  <1>3. n \in T
    <2>. HIDE DEF T
    <2>1. \A k \in 0..n : k \in T
      BY <1>1, <1>2, Climbing
    <2>. QED
      BY <2>1
  <1>4. PICK f : Run(n, f)
    BY <1>3
  <1>5. f = [k \in 0..n |-> f[k]] /\ f[0] = x /\ \A k \in 1..n : f[k] = F[k][f[k-1]]
    BY <1>4
  <1>. QED
    BY <1>4, <1>5 DEF IsRun

(* A run of a loop, followed as long as its heaps are in S.                *)
LEMMA RunEnds ==
  ASSUME NEW F, NEW n, NEW x, NEW S, Takes(F, n, x, S), NEW g, g[0] = x,
         \A k \in 1..n : g[k-1] \in S[k-1] => g[k] = F[k][g[k-1]]
  PROVE  g[n] \in S[n]
  <1>. DEFINE T == {k \in 0..n : g[k] \in S[k]}
  <1>1. n \in Nat /\ x \in S[0] /\ \A k \in 1..n : \A y \in S[k-1] : F[k][y] \in S[k]
    BY DEF Takes
  <1>2. 0 \in T
    BY <1>1
  <1>3. \A k \in 1..n : k - 1 \in T => k \in T
    BY <1>1
  <1>4. \A k \in 0..n : k \in T
    <2>. HIDE DEF T
    <2>. QED
      BY <1>1, <1>2, <1>3, Climbing
  <1>. QED
    BY <1>1, <1>4

-----------------------------------------------------------------------------
(* One array.                                                              *)

LEMMA Fields ==
  ASSUME NEW V, NEW x \in Arr(V)
  PROVE  /\ x.elements \in Seq(V) /\ x.count \in Nat /\ x.count <= Len(x.elements)
         /\ Len(x.elements) \in Nat /\ DOMAIN x.elements = 1..Len(x.elements)
         /\ \A j \in 1..x.count : j \in DOMAIN x.elements /\ x.elements[j] \in V
         /\ \A j \in DOMAIN x.elements : x.elements[j] \in V
         /\ x.mutation_version \in Nat /\ x.view_source \in Nat
         /\ x.view_offset \in Nat /\ x.view_source_version \in Nat
         /\ x.view_invalid \in BOOLEAN
  <1>1. x.elements \in Seq(V) /\ x.count \in Nat /\ x.count <= Len(x.elements)
    BY DEF Arr
  <1>2. Len(x.elements) \in Nat /\ DOMAIN x.elements = 1..Len(x.elements)
    BY <1>1, LenProperties
  <1>3. \A j \in 1..Len(x.elements) : x.elements[j] \in V
    BY <1>1, ElementOfSeq
  <1>. QED
    BY <1>1, <1>2, <1>3 DEF Arr

(* The fields that only sublist, and an edit in step, set.                 *)
SameLink(x, y) ==
  /\ y.view_source = x.view_source /\ y.view_offset = x.view_offset
  /\ y.view_source_version = x.view_source_version

LEMMA InsertedIs ==
  ASSUME NEW V, NEW x \in Arr(V), NEW i \in 0..x.count, NEW v \in V
  PROVE  LET y == Inserted(x, i, v) IN
         /\ y \in Arr(V) /\ y.count = x.count + 1 /\ SameLink(x, y)
         /\ y.mutation_version = x.mutation_version
         /\ \A j \in 1..x.count + 1 :
              y.elements[j] = IF j <= i THEN x.elements[j]
                              ELSE IF j = i + 1 THEN v ELSE x.elements[j-1]
  <1>. DEFINE s == x.elements
              c == x.count
              D == DOMAIN s \cup {c + 1}
              t == [j \in D |-> IF j = i + 1 THEN v
                     ELSE IF j \in i+2..c+1 THEN s[j-1] ELSE s[j]]
  <1>1. s \in Seq(V) /\ c \in Nat /\ c <= Len(s) /\ Len(s) \in Nat
        /\ DOMAIN s = 1..Len(s) /\ \A j \in DOMAIN s : s[j] \in V
    BY Fields
  <1>2. PICK n \in Nat : D = 1..n /\ c + 1 <= n
    <2>1. CASE c = Len(s)
      <3>1. D = 1..Len(s) + 1
        BY <1>1, <2>1
      <3>. QED
        BY <1>1, <2>1, <3>1
    <2>2. CASE c < Len(s)
      <3>1. D = 1..Len(s)
        BY <1>1, <2>2
      <3>. QED
        BY <1>1, <2>2, <3>1
    <2>. QED
      BY <1>1, <2>1, <2>2
  <1>3. t \in [1..n -> V]
    <2>1. ASSUME NEW j \in D
          PROVE  t[j] \in V
      <3>1. CASE j = i + 1
        BY <3>1
      <3>2. CASE j # i + 1 /\ j \in i+2..c+1
        <4>1. j - 1 \in DOMAIN s
          BY <1>1, <3>2
        <4>. QED
          BY <1>1, <3>2, <4>1
      <3>3. CASE j # i + 1 /\ j \notin i+2..c+1
        <4>1. j \in DOMAIN s
          BY <1>1, <3>3
        <4>. QED
          BY <1>1, <3>3, <4>1
      <3>. QED
        BY <3>1, <3>2, <3>3
    <2>. QED
      BY <1>2, <2>1
  <1>4. t \in Seq(V) /\ Len(t) = n
    <2>. HIDE DEF t
    <2>. QED
      BY <1>3, SequenceOfFunction
  <1>5. \A j \in 1..c + 1 : t[j] = IF j <= i THEN s[j] ELSE IF j = i + 1 THEN v ELSE s[j-1]
    BY <1>1, <1>2
  <1>6. Inserted(x, i, v) = [x EXCEPT !.elements = t, !.count = c + 1]
    BY DEF Inserted
  <1>. HIDE DEF t
  <1>7. c + 1 \in Nat /\ c + 1 <= Len(t)
    BY <1>1, <1>2, <1>4
  <1>. QED
    BY <1>4, <1>5, <1>6, <1>7 DEF Arr, SameLink

LEMMA RemovedIs ==
  ASSUME NEW V, NEW x \in Arr(V), NEW i \in 0..x.count - 1
  PROVE  LET y == Removed(x, i) IN
         /\ y \in Arr(V) /\ y.count = x.count - 1 /\ SameLink(x, y)
         /\ y.mutation_version = x.mutation_version
         /\ \A j \in 1..x.count - 1 :
              y.elements[j] = IF j <= i THEN x.elements[j] ELSE x.elements[j+1]
  <1>. DEFINE s == x.elements
              c == x.count
              t == [j \in DOMAIN s |-> IF j \in i+1..c-1 THEN s[j+1] ELSE s[j]]
  <1>1. s \in Seq(V) /\ c \in Nat /\ c <= Len(s) /\ Len(s) \in Nat
        /\ DOMAIN s = 1..Len(s) /\ \A j \in DOMAIN s : s[j] \in V
    BY Fields
  <1>2. t \in [1..Len(s) -> V]
    <2>1. ASSUME NEW j \in DOMAIN s
          PROVE  t[j] \in V
      <3>1. j \in i+1..c-1 => j + 1 \in DOMAIN s
        BY <1>1
      <3>. QED
        BY <1>1, <3>1
    <2>. QED
      BY <1>1, <2>1
  <1>3. t \in Seq(V) /\ Len(t) = Len(s)
    <2>. HIDE DEF t
    <2>. QED
      BY <1>1, <1>2, SequenceOfFunction
  <1>4. \A j \in 1..c - 1 : t[j] = IF j <= i THEN s[j] ELSE s[j+1]
    BY <1>1
  <1>5. Removed(x, i) = [x EXCEPT !.elements = t, !.count = c - 1]
    BY DEF Removed
  <1>. HIDE DEF t
  <1>6. c - 1 \in Nat /\ c - 1 <= Len(t)
    BY <1>1, <1>3
  <1>. QED
    BY <1>3, <1>4, <1>5, <1>6 DEF Arr, SameLink

(* An assignment within the array, and one past its end.                   *)
IsAssigned(V, x, y, i, v) ==
  /\ y \in Arr(V) /\ SameLink(x, y)
  /\ y.mutation_version = x.mutation_version
  /\ y.count = IF i >= x.count THEN i + 1 ELSE x.count
  /\ y.elements[i+1] = v
  /\ \A j \in 1..x.count : j # i + 1 => y.elements[j] = x.elements[j]
  /\ (\A j \in x.count+1..i : j \in DOMAIN x.elements => x.elements[j] = Null)
       => \A j \in x.count+1..i : y.elements[j] = Null
LEMMA AssignedIs ==
  ASSUME NEW V, Null \in V, NEW x \in Arr(V), NEW i \in Nat, NEW v \in V
  PROVE  IsAssigned(V, x, Assigned(x, i, v), i, v)
  <1>. DEFINE s == x.elements
              c == x.count
              D == DOMAIN s \cup 1..i+1
              m == IF i >= c THEN i + 1 ELSE c
              t == [j \in D |-> IF j = i + 1 THEN v
                                ELSE IF j \in DOMAIN s THEN s[j] ELSE Null]
  <1>1. s \in Seq(V) /\ c \in Nat /\ c <= Len(s) /\ Len(s) \in Nat
        /\ DOMAIN s = 1..Len(s) /\ \A j \in DOMAIN s : s[j] \in V
    BY Fields
  <1>2. PICK n \in Nat : D = 1..n /\ i + 1 <= n /\ c <= n
    <2>1. CASE i + 1 <= Len(s)
      <3>1. D = 1..Len(s)
        BY <1>1, <2>1
      <3>. QED
        BY <1>1, <2>1, <3>1
    <2>2. CASE Len(s) < i + 1
      <3>1. D = 1..i + 1
        BY <1>1, <2>2
      <3>. QED
        BY <1>1, <2>2, <3>1
    <2>. QED
      BY <1>1, <2>1, <2>2
  <1>3. t \in [1..n -> V]
    BY <1>1, <1>2
  <1>4. t \in Seq(V) /\ Len(t) = n
    <2>. HIDE DEF t
    <2>. QED
      BY <1>3, SequenceOfFunction
  <1>5. t[i+1] = v
    BY <1>2
  <1>6. \A j \in 1..c : j # i + 1 => t[j] = s[j]
    BY <1>1
  <1>7. (\A j \in c+1..i : j \in DOMAIN s => s[j] = Null) => \A j \in c+1..i : t[j] = Null
    BY <1>1
  <1>8. Assigned(x, i, v) = [x EXCEPT !.elements = t, !.count = m]
    BY DEF Assigned
  <1>. HIDE DEF t
  <1>9. m \in Nat /\ m <= Len(t)
    BY <1>1, <1>2, <1>4
  <1>. HIDE DEF m
  <1>10. /\ Assigned(x, i, v).elements = t /\ Assigned(x, i, v).count = m
         /\ Assigned(x, i, v) \in Arr(V) /\ SameLink(x, Assigned(x, i, v))
         /\ Assigned(x, i, v).mutation_version = x.mutation_version
    BY <1>4, <1>8, <1>9 DEF Arr, SameLink
  <1>11. Assigned(x, i, v).count = IF i >= c THEN i + 1 ELSE c
    BY <1>10 DEF m
  <1>. QED
    BY <1>5, <1>6, <1>7, <1>10, <1>11 DEF IsAssigned

LEMMA TouchedIs ==
  ASSUME NEW V, NEW x \in Arr(V), NEW f \in BOOLEAN
  PROVE  LET y == Touched(x, f) IN
         /\ y \in Arr(V) /\ y.elements = x.elements /\ y.count = x.count
         /\ SameLink(x, y) /\ y.mutation_version = x.mutation_version + 1
  <1>1. PICK m, b : /\ m = x.mutation_version + 1
                    /\ b = (x.view_invalid \/ (f /\ x.view_source # NoArray))
    OBVIOUS
  <1>2. m \in Nat /\ b \in BOOLEAN
    BY <1>1, Fields
  <1>3. PICK y : y = [x EXCEPT !.mutation_version = m, !.view_invalid = b]
    OBVIOUS
  <1>4. y = Touched(x, f)
    BY <1>1, <1>3 DEF Touched
  <1>5. y \in Arr(V)
    BY <1>2, <1>3 DEF Arr
  <1>6. y.elements = x.elements /\ y.count = x.count /\ y.mutation_version = m
    BY <1>3 DEF Arr
  <1>7. SameLink(x, y)
    BY <1>3 DEF Arr, SameLink
  <1>. QED
    BY <1>1, <1>4, <1>5, <1>6, <1>7

-----------------------------------------------------------------------------
(* The way from an array to its sources.                                   *)

(* off[x] is where the window of a begins in x, for the arrays W on the    *)
(* way from a.                                                             *)
WayOf(h, a, W, off) ==
  /\ a \in W /\ W \subseteq 1..a /\ off \in [W -> Nat] /\ off[a] = 0
  /\ \A x \in W : h[x].view_source # NoArray =>
       /\ h[x].view_source \in W
       /\ off[h[x].view_source] = off[x] + h[x].view_offset
  /\ \A x \in W : x # a => \E y \in W : h[y].view_source = x
  /\ \A x, z \in W : z < x => z <= h[x].view_source

(* What Above computes.                                                    *)
Levels(h, a, r) ==
  /\ r \in [0..a -> [at : 1..a, offset : Nat]]
  /\ r[0] = [at |-> a, offset |-> 0]
  /\ \A n \in 1..a :
       r[n] = IF h[r[n-1].at].view_source = NoArray THEN r[n-1]
              ELSE [at |-> h[r[n-1].at].view_source,
                    offset |-> r[n-1].offset + h[r[n-1].at].view_offset]
  /\ \A n \in 0..a : Above(h, a, n) = r[n]

LEMMA AboveIs ==
  ASSUME NEW V, NEW N \in Nat, NEW h \in Heaps(V, N), NEW a \in 1..N
  PROVE  \E r : Levels(h, a, r)
  <1>. DEFINE L == [at : 1..a, offset : Nat]
              zero == [at |-> a, offset |-> 0]
              up(l) == IF ~IsView(h, l.at) THEN l
                       ELSE [at |-> h[l.at].view_source,
                             offset |-> l.offset + h[l.at].view_offset]
              U == [l \in L |-> up(l)]
  <1>1. zero \in L
    OBVIOUS
  <1>2. ASSUME NEW l \in L
        PROVE  up(l) \in L
    <2>1. l.at \in 1..N /\ h[l.at] \in Arr(V) /\ h[l.at].view_source < l.at
      BY DEF Heaps
    <2>2. h[l.at].view_source \in Nat /\ h[l.at].view_offset \in Nat
      BY <2>1, Fields
    <2>3. IsView(h, l.at) => h[l.at].view_source \in 1..a
      BY <2>1, <2>2 DEF IsView, NoArray
    <2>4. l.offset + h[l.at].view_offset \in Nat
      BY <2>2
    <2>. QED
      BY <2>3, <2>4
  <1>3. ASSUME NEW n \in 0..a
        PROVE  \E f : /\ f = [k \in 0..n |-> IF k = 0 THEN zero ELSE up(f[k-1])]
                      /\ \A k \in 0..n : f[k] \in L
    <2>. DEFINE S == [k \in 0..n |-> L]
                F == [k \in 1..n |-> U]
    <2>1. Takes(F, n, zero, S)
      <3>1. \A k \in 0..n : S[k] = L
        OBVIOUS
      <3>2. \A k \in 1..n : F[k] = U /\ S[k-1] = L /\ S[k] = L
        <4>1. \A k \in 1..n : k \in 0..n /\ k - 1 \in 0..n
          OBVIOUS
        <4>. HIDE DEF S, L, U
        <4>. QED
          BY <3>1, <4>1
      <3>3. \A g \in L : U[g] \in L
        BY <1>2
      <3>4. n \in Nat /\ 0 \in 0..n
        OBVIOUS
      <3>. HIDE DEF S, F, L, U, zero
      <3>. QED
        BY <1>1, <3>1, <3>2, <3>3, <3>4 DEF Takes
    <2>2. PICK f : IsRun(f, F, n, zero, S)
      <3>. HIDE DEF S, F, zero
      <3>. QED
        BY <2>1, Rounds
    <2>3. \A k \in 0..n : f[k] \in L
      BY <2>2 DEF IsRun
    <2>4. \A k \in 1..n : F[k][f[k-1]] = up(f[k-1])
      <3>1. \A k \in 1..n : k - 1 \in 0..n /\ F[k] = U
        OBVIOUS
      <3>2. \A l \in L : U[l] = up(l)
        OBVIOUS
      <3>. HIDE DEF F, U, L, up
      <3>. QED
        BY <2>3, <3>1, <3>2
    <2>5. f = [k \in 0..n |-> IF k = 0 THEN zero ELSE up(f[k-1])]
      <3>1. f = [k \in 0..n |-> f[k]] /\ f[0] = zero /\ \A k \in 1..n : f[k] = up(f[k-1])
        <4>. HIDE DEF F, up, zero
        <4>. QED
          BY <2>2, <2>4 DEF IsRun
      <3>2. \A k \in 0..n : k = 0 \/ k \in 1..n
        OBVIOUS
      <3>3. \A k \in 0..n : f[k] = IF k = 0 THEN zero ELSE up(f[k-1])
        <4>. HIDE DEF up, zero
        <4>. QED
          BY <3>1, <3>2
      <3>. HIDE DEF up, zero
      <3>. QED
        BY <3>1, <3>3
    <2>. QED
      BY <2>3, <2>5
  <1>. DEFINE Run(n, f) == f = [k \in 0..n |-> IF k = 0 THEN zero ELSE up(f[k-1])]
  <1>4. PICK r : Run(a, r) /\ \A k \in 0..a : r[k] \in L
    BY <1>3
  <1>5. ASSUME NEW n \in 0..a
        PROVE  Above(h, a, n) = r[n]
    <2>1. PICK f : Run(n, f) /\ f = CHOOSE g : Run(n, g)
      BY <1>3
    <2>2. Above(h, a, n) = f[n]
      <3>1. Above(h, a, n) = (CHOOSE g : Run(n, g))[n]
        BY DEF Above, Repeated
      <3>. QED
        BY <2>1, <3>1
    <2>. DEFINE T == {k \in 0..n : f[k] = r[k]}
    <2>3. 0 \in T
      BY <1>4, <2>1
    <2>4. ASSUME NEW k \in 1..n, k - 1 \in T
          PROVE  k \in T
      <3>1. k \in 0..n /\ k \in 0..a /\ k # 0
        OBVIOUS
      <3>2. f[k] = up(f[k-1]) /\ r[k] = up(r[k-1])
        <4>. HIDE DEF up
        <4>. QED
          BY <1>4, <2>1, <3>1
      <3>3. f[k-1] = r[k-1]
        BY <2>4
      <3>. QED
        BY <3>1, <3>2, <3>3
    <2>5. n \in T
      <3>. HIDE DEF T
      <3>1. \A k \in 0..n : k \in T
        BY <2>3, <2>4, Climbing
      <3>. QED
        BY <3>1
    <2>. QED
      BY <2>2, <2>5
  <1>6. \A n \in 1..a : r[n] = up(r[n-1])
    <2>. HIDE DEF up
    <2>. QED
      BY <1>4
  <1>7. r[0] = zero /\ r = [k \in 0..a |-> r[k]]
    BY <1>4
  <1>. QED
    BY <1>4, <1>5, <1>6, <1>7 DEF IsView, Levels

(* The way from an array is one, and it ends at an array that is no view.  *)
LEMMA WayIs ==
  ASSUME NEW V, NEW N \in Nat, NEW h \in Heaps(V, N), NEW a \in 1..N
  PROVE  \E off :
         /\ WayOf(h, a, Way(h, a), off)
         /\ LET root == Above(h, a, a) IN
            /\ root.at \in Way(h, a) /\ h[root.at].view_source = NoArray
            /\ root.offset = off[root.at]
  <1>1. PICK r : Levels(h, a, r)
    BY AboveIs
  <1>. DEFINE at(n) == r[n].at
              src(x) == h[x].view_source
              W == {at(n) : n \in 0..a}
  <1>2. ASSUME NEW x \in 1..a
        PROVE  src(x) \in Nat /\ src(x) < x /\ h[x].view_offset \in Nat
    <2>1. x \in 1..N /\ h[x] \in Arr(V) /\ h[x].view_source < x
      BY DEF Heaps
    <2>. QED
      BY <2>1, Fields
  <1>3. ASSUME NEW n \in 0..a
        PROVE  at(n) \in 1..a /\ r[n].offset \in Nat
    <2>1. r[n] \in [at : 1..a, offset : Nat]
      BY <1>1 DEF Levels
    <2>. QED
      BY <2>1
  <1>4. ASSUME NEW n \in 1..a
        PROVE  \/ src(at(n-1)) = 0 /\ r[n] = r[n-1]
               \/ /\ src(at(n-1)) # 0 /\ at(n) = src(at(n-1))
                  /\ r[n].offset = r[n-1].offset + h[at(n-1)].view_offset
    <2>1. r[n] = IF h[r[n-1].at].view_source = NoArray THEN r[n-1]
                 ELSE [at |-> h[r[n-1].at].view_source,
                       offset |-> r[n-1].offset + h[r[n-1].at].view_offset]
      BY <1>1 DEF Levels
    <2>. QED
      BY <2>1 DEF NoArray
  <1>5. at(0) = a /\ r[0].offset = 0
    BY <1>1 DEF Levels
  <1>6. \A n \in 0..a : Above(h, a, n) = r[n]
    BY <1>1 DEF Levels
  <1>7. Way(h, a) = W
    <2>1. Way(h, a) = {Above(h, a, n).at : n \in 0..a}
      BY DEF Way
    <2>2. \A n \in 0..a : Above(h, a, n).at = at(n)
      BY <1>6
    <2>. QED
      BY <2>1, <2>2
  <1>8. \A n \in 1..a : n \in 0..a /\ n - 1 \in 0..a
    OBVIOUS
  <1>. DEFINE Later(m, n) == \/ r[n] = r[m]
                             \/ src(at(m)) # 0 /\ at(n) <= src(at(m))
              T == {n \in 0..a : \A m \in 0..n : Later(m, n)}
  <1>. HIDE DEF at, src
  <1>9. \A n \in 0..a : n \in T
    <2>1. 0 \in T
      OBVIOUS
    <2>2. ASSUME NEW n \in 1..a, n - 1 \in T
          PROVE  n \in T
      <3>1. ASSUME NEW m \in 0..n
            PROVE  Later(m, n)
        <4>1. CASE m = n
          BY <4>1
        <4>2. CASE m # n
          <5>1. m \in 0..n - 1 /\ m \in 0..a
            BY <4>2
          <5>2. Later(m, n - 1)
            BY <2>2, <5>1
          <5>3. CASE r[n] = r[n-1]
            <6>1. at(n) = at(n - 1)
              BY <5>3 DEF at
            <6>. QED
              BY <5>2, <5>3, <6>1
          <5>4. CASE src(at(n-1)) # 0 /\ at(n) = src(at(n-1))
            <6>1. at(n) < at(n - 1) /\ at(n) \in Nat /\ at(n - 1) \in Nat /\ src(at(m)) \in Nat
              BY <1>2, <1>3, <1>8, <5>1, <5>4
            <6>2. r[n-1] = r[m] => at(n - 1) = at(m)
              BY DEF at
            <6>. QED
              BY <5>2, <5>4, <6>1, <6>2
          <5>. QED
            BY <1>4, <5>3, <5>4
        <4>. QED
          BY <4>1, <4>2
      <3>. QED
        BY <1>8, <3>1
    <2>. HIDE DEF T
    <2>. QED
      BY <2>1, <2>2, Climbing
  <1>10. ASSUME NEW m \in 0..a, NEW n \in 0..a, m <= n
         PROVE  Later(m, n)
    <2>1. n \in T /\ m \in 0..n
      BY <1>9, <1>10
    <2>. QED
      BY <2>1
  <1>. HIDE DEF T
  <1>11. src(at(a)) = 0
    <2>. DEFINE U == {n \in 0..a : src(at(n)) = 0 \/ at(n) <= a - n}
    <2>1. 0 \in U
      BY <1>5
    <2>2. ASSUME NEW n \in 1..a, n - 1 \in U
          PROVE  n \in U
      <3>1. CASE r[n] = r[n-1] /\ src(at(n-1)) = 0
        <4>1. at(n) = at(n - 1)
          BY <3>1 DEF at
        <4>. QED
          BY <1>8, <3>1, <4>1
      <3>2. CASE src(at(n-1)) # 0 /\ at(n) = src(at(n-1))
        <4>1. at(n) < at(n - 1) /\ at(n) \in Nat /\ at(n - 1) \in Nat
          BY <1>2, <1>3, <1>8, <3>2
        <4>2. at(n - 1) <= a - (n - 1)
          BY <2>2, <3>2
        <4>. QED
          BY <1>8, <4>1, <4>2
      <3>. QED
        BY <1>4, <3>1, <3>2
    <2>3. a \in U
      <3>. HIDE DEF U
      <3>1. \A n \in 0..a : n \in U
        BY <2>1, <2>2, Climbing
      <3>. QED
        BY <3>1
    <2>4. a \in 0..a
      OBVIOUS
    <2>5. at(a) \in 1..a
      BY <1>3, <2>4
    <2>. QED
      BY <2>3, <2>5
  <1>. DEFINE first(x) == CHOOSE n \in 0..a : at(n) = x
              off == [x \in W |-> r[first(x)].offset]
  <1>12. ASSUME NEW n \in 0..a
         PROVE  at(n) \in W /\ off[at(n)] = r[n].offset
    <2>1. PICK m : m = first(at(n)) /\ m \in 0..a /\ at(m) = at(n)
      OBVIOUS
    <2>2. src(at(n)) < at(n) /\ src(at(n)) \in Nat /\ at(n) \in Nat
      BY <1>2, <1>3
    <2>3. r[m] = r[n]
      <3>1. CASE m <= n
        BY <1>10, <2>1, <2>2, <3>1
      <3>2. CASE n <= m
        BY <1>10, <2>1, <2>2, <3>2
      <3>. QED
        BY <2>1, <3>1, <3>2
    <2>4. at(n) \in W
      BY <2>1
    <2>5. off[at(n)] = r[m].offset
      <3>. HIDE DEF W, first
      <3>. QED
        BY <2>1, <2>4
    <2>. QED
      BY <2>3, <2>4, <2>5
  <1>13. a \in W /\ off[a] = 0
    BY <1>5, <1>12
  <1>14. W \subseteq 1..a
    BY <1>3
  <1>15. off \in [W -> Nat]
    <2>1. \A x \in W : off[x] \in Nat
      BY <1>3, <1>12
    <2>. HIDE DEF W, first
    <2>. QED
      BY <2>1
  <1>16. ASSUME NEW x \in W, src(x) # 0
         PROVE  src(x) \in W /\ off[src(x)] = off[x] + h[x].view_offset
    <2>1. PICK n \in 0..a : x = at(n)
      OBVIOUS
    <2>2. n # a
      BY <1>11, <1>16, <2>1
    <2>3. n + 1 \in 1..a /\ n + 1 \in 0..a /\ n + 1 - 1 = n
      BY <2>2
    <2>4. /\ at(n + 1) = src(at(n))
          /\ r[n + 1].offset = r[n].offset + h[at(n)].view_offset
      BY <1>4, <1>16, <2>1, <2>3
    <2>5. off[at(n + 1)] = r[n + 1].offset /\ off[at(n)] = r[n].offset /\ at(n + 1) \in W
      BY <1>12, <2>3
    <2>. HIDE DEF off, W
    <2>. QED
      BY <2>1, <2>4, <2>5
  <1>17. ASSUME NEW x \in W, x # a
         PROVE  \E y \in W : src(y) = x
    <2>. DEFINE U == {n \in 0..a : at(n) = a \/ \E y \in W : src(y) = at(n)}
    <2>1. 0 \in U
      BY <1>5
    <2>2. ASSUME NEW n \in 1..a, n - 1 \in U
          PROVE  n \in U
      <3>1. CASE r[n] = r[n-1]
        <4>1. at(n) = at(n - 1)
          BY <3>1 DEF at
        <4>. QED
          BY <1>8, <2>2, <4>1
      <3>2. CASE at(n) = src(at(n-1))
        <4>1. at(n - 1) \in W
          BY <1>8
        <4>. QED
          BY <1>8, <3>2, <4>1
      <3>. QED
        BY <1>4, <3>1, <3>2
    <2>3. \A n \in 0..a : n \in U
      <3>. HIDE DEF U
      <3>. QED
        BY <2>1, <2>2, Climbing
    <2>4. PICK n \in 0..a : x = at(n)
      OBVIOUS
    <2>. QED
      BY <1>17, <2>3, <2>4
  <1>18. ASSUME NEW x \in W, NEW z \in W, z < x
         PROVE  z <= src(x)
    <2>1. PICK m \in 0..a, n \in 0..a : x = at(m) /\ z = at(n)
      OBVIOUS
    <2>2. x \in Nat /\ z \in Nat /\ src(x) \in Nat /\ src(z) \in Nat /\ src(z) < z
      BY <1>2, <1>3, <2>1
    <2>3. CASE m <= n
      <3>1. r[n] = r[m] => at(n) = at(m)
        BY DEF at
      <3>. QED
        BY <1>10, <1>18, <2>1, <2>2, <2>3, <3>1
    <2>4. CASE n <= m
      <3>1. r[n] = r[m] => at(n) = at(m)
        BY DEF at
      <3>. QED
        BY <1>10, <1>18, <2>1, <2>2, <2>4, <3>1
    <2>. QED
      BY <2>3, <2>4
  <1>. HIDE DEF W, off
  <1>19. WayOf(h, a, W, off)
    BY <1>13, <1>14, <1>15, <1>16, <1>17, <1>18 DEF WayOf, src, NoArray
  <1>20. a \in 0..a /\ Above(h, a, a) = r[a]
    BY <1>6
  <1>21. /\ r[a].at \in W /\ h[r[a].at].view_source = NoArray
         /\ r[a].offset = off[r[a].at]
    BY <1>11, <1>12, <1>20 DEF at, src, NoArray
  <1>. QED
    BY <1>7, <1>19, <1>20, <1>21

(* Facts about the arrays of a heap and of a way.                          *)
LEMMA OnWay ==
  ASSUME NEW V, NEW N \in Nat, NEW h \in Heaps(V, N), NEW a \in 1..N,
         NEW W, NEW off, WayOf(h, a, W, off)
  PROVE  /\ a \in W /\ W \subseteq 1..N /\ W \subseteq 1..a /\ off[a] = 0
         /\ \A x \in W : /\ x \in 1..N /\ x \in 1..a /\ x \in Nat /\ x # 0
                         /\ h[x] \in Arr(V) /\ off[x] \in Nat
                         /\ h[x].view_source \in Nat /\ h[x].view_source < x
                         /\ h[x].view_offset \in Nat
         /\ \A x \in W : h[x].view_source # 0 =>
              /\ h[x].view_source \in W
              /\ off[h[x].view_source] = off[x] + h[x].view_offset
         /\ \A x \in W : x # a => \E y \in W : h[y].view_source = x
         /\ \A x, z \in W : z < x => z <= h[x].view_source
  <1>1. W \subseteq 1..a /\ 1..a \subseteq 1..N /\ off \in [W -> Nat]
    <2>1. W \subseteq 1..a /\ off \in [W -> Nat]
      BY DEF WayOf
    <2>. QED
      BY <2>1
  <1>2. ASSUME NEW x \in W
        PROVE  /\ x \in 1..N /\ x \in 1..a /\ x \in Nat /\ x # 0
               /\ h[x] \in Arr(V) /\ off[x] \in Nat
               /\ h[x].view_source \in Nat /\ h[x].view_source < x
               /\ h[x].view_offset \in Nat
    <2>1. x \in 1..N /\ x \in 1..a /\ off[x] \in Nat
      BY <1>1
    <2>2. h[x] \in Arr(V) /\ h[x].view_source < x
      BY <2>1 DEF Heaps
    <2>3. h[x].view_source \in Nat /\ h[x].view_offset \in Nat
      BY <2>2, Fields
    <2>. QED
      BY <2>1, <2>2, <2>3
  <1>. QED
    BY <1>1, <1>2 DEF WayOf, NoArray

(* The way from an array is the same as long as sources and offsets are.   *)
LEMMA WayKept ==
  ASSUME NEW h, NEW g, NEW a, NEW W, NEW off, WayOf(h, a, W, off),
         \A x \in W : /\ g[x].view_source = h[x].view_source
                      /\ g[x].view_offset = h[x].view_offset
  PROVE  WayOf(g, a, W, off)
  <1>1. \A x \in W : g[x].view_source # NoArray =>
          /\ g[x].view_source \in W
          /\ off[g[x].view_source] = off[x] + g[x].view_offset
    BY DEF WayOf
  <1>2. \A x \in W : x # a => \E y \in W : g[y].view_source = x
    BY DEF WayOf
  <1>3. \A x, z \in W : z < x => z <= g[x].view_source
    BY DEF WayOf
  <1>. QED
    BY <1>1, <1>2, <1>3 DEF WayOf

(* What holds of a, and of the source of every array on its way of which   *)
(* it holds, holds of all of them.                                         *)
LEMMA UpTheWay ==
  ASSUME NEW V, NEW N \in Nat, NEW h \in Heaps(V, N), NEW a \in 1..N,
         NEW W, NEW off, WayOf(h, a, W, off), NEW S, a \in S,
         \A y \in W : y \in S /\ h[y].view_source # 0 => h[y].view_source \in S
  PROVE  W \subseteq S
  <1>. DEFINE bad == {x \in W : x \notin S}
  <1>1. SUFFICES ASSUME bad # {} PROVE FALSE
    OBVIOUS
  <1>2. bad \in SUBSET (1..a) /\ a \in Nat
    BY OnWay
  <1>3. Max(bad) \in bad /\ \A x \in bad : x <= Max(bad)
    <2>. HIDE DEF bad
    <2>. QED
      BY <1>1, <1>2, GreatestOf
  <1>4. PICK x \in W : x = Max(bad) /\ x \notin S /\ x # a
    BY <1>3
  <1>5. PICK y \in W : h[y].view_source = x
    <2>1. \A z \in W : z # a => \E y \in W : h[y].view_source = z
      BY OnWay
    <2>. QED
      BY <1>4, <2>1
  <1>6. x < y /\ x # 0 /\ x \in Nat /\ y \in Nat
    BY <1>4, <1>5, OnWay
  <1>7. y \in S
    <2>1. ~(y <= Max(bad))
      BY <1>4, <1>6
    <2>2. y \notin bad
      <3>. HIDE DEF bad
      <3>. QED
        BY <1>3, <2>1
    <2>. QED
      BY <2>2
  <1>. QED
    BY <1>4, <1>5, <1>6, <1>7

-----------------------------------------------------------------------------
(* An edit on its way up.                                                  *)

(* own[x] is what the edit makes of array x on its way.                    *)
Owns(V, h, W, own) ==
  /\ own \in [W -> Arr(V)]
  /\ \A x \in W : /\ SameLink(h[x], own[x])
                  /\ own[x].mutation_version = h[x].mutation_version + 1

Edited(h, N, W, own) == [x \in 1..N |-> IF x \in W THEN own[x] ELSE h[x]]

(* Where the edit can be after n rounds.                                   *)
Seen(V, h, N, s, W, off, i, own, n) ==
  {l \in [heap : {Edited(h, N, {x \in W : b < x}, own) : b \in 0..s},
          at : 0..s, index : Nat] :
     /\ l.heap = Edited(h, N, {x \in W : l.at < x}, own)
     /\ l.at # 0 => l.at \in W /\ l.index = off[l.at] + i
     /\ l.at <= s - n
     /\ n = 0 => l.at = s}

LEMMA SeenFirst ==
  ASSUME NEW V, NEW N \in Nat, NEW h \in Heaps(V, N), NEW s \in 1..N,
         NEW W, NEW off, WayOf(h, s, W, off), NEW own, NEW i \in Nat
  PROVE  [heap |-> h, at |-> s, index |-> i] \in Seen(V, h, N, s, W, off, i, own, 0)
  <1>1. s \in W /\ W \subseteq 1..s /\ off[s] = 0 /\ s # 0
    BY OnWay
  <1>2. {x \in W : s < x} = {}
    <2>1. \A x \in W : ~(s < x)
      BY <1>1
    <2>. QED
      BY <2>1
  <1>3. h = [x \in 1..N |-> h[x]]
    BY DEF Heaps
  <1>4. Edited(h, N, {x \in W : s < x}, own) = h
    BY <1>2, <1>3 DEF Edited
  <1>5. s \in 0..s /\ s <= s - 0 /\ off[s] + i = i
    BY <1>1
  <1>. QED
    BY <1>1, <1>4, <1>5 DEF Seen

LEMMA SeenNext ==
  ASSUME NEW V, NEW N \in Nat, NEW h \in Heaps(V, N), NEW s \in 1..N,
         NEW W, NEW off, WayOf(h, s, W, off), NEW own, Owns(V, h, W, own),
         NEW i \in Nat, NEW n \in 1..s,
         NEW l \in Seen(V, h, N, s, W, off, i, own, n - 1)
  PROVE  /\ l.at = NoArray => l \in Seen(V, h, N, s, W, off, i, own, n)
         /\ l.at # NoArray =>
              /\ l.at \in W /\ l.heap[l.at] = h[l.at]
              /\ l.index = off[l.at] + i /\ (n > 1 <=> l.at # s)
              /\ Onward(l, own[l.at], l.index) \in Seen(V, h, N, s, W, off, i, own, n)
  <1>. DEFINE heaps == {Edited(h, N, {x \in W : b < x}, own) : b \in 0..s}
              y == l.at
  <1>1. /\ l \in [heap : heaps, at : 0..s, index : Nat]
        /\ l.heap = Edited(h, N, {x \in W : y < x}, own)
        /\ y # 0 => y \in W /\ l.index = off[y] + i
        /\ y <= s - (n - 1) /\ (n - 1 = 0 => y = s)
    BY DEF Seen
  <1>2. y \in 0..s /\ l.index \in Nat /\ l.heap \in heaps
    BY <1>1
  <1>3. ASSUME y = 0
        PROVE  l \in Seen(V, h, N, s, W, off, i, own, n)
    <2>1. y <= s - n /\ (n = 0 => y = s)
      BY <1>3
    <2>. QED
      BY <1>1, <1>3, <2>1 DEF Seen
  <1>4. ASSUME y # 0
        PROVE  /\ y \in W /\ l.heap[y] = h[y]
               /\ l.index = off[y] + i /\ (n > 1 <=> y # s)
               /\ Onward(l, own[y], l.index) \in Seen(V, h, N, s, W, off, i, own, n)
    <2>1. y \in W /\ l.index = off[y] + i
      BY <1>1, <1>4
    <2>2. /\ y \in 1..N /\ y \in Nat /\ off[y] \in Nat
          /\ h[y].view_source \in Nat /\ h[y].view_source < y
          /\ h[y].view_offset \in Nat
          /\ h[y].view_source # 0 =>
               /\ h[y].view_source \in W
               /\ off[h[y].view_source] = off[y] + h[y].view_offset
          /\ \A z \in W : z < y => z <= h[y].view_source
          /\ W \subseteq 1..N /\ \A z \in W : z \in Nat
      BY <2>1, OnWay
    <2>3. l.heap[y] = h[y]
      BY <1>1, <2>2 DEF Edited
    <2>4. n > 1 <=> y # s
      BY <1>1, <1>2
    <2>. DEFINE w == h[y].view_source
                m == Onward(l, own[y], l.index)
                g == [l.heap EXCEPT ![y] = own[y]]
    <2>5. own[y].view_source = w /\ own[y].view_offset = h[y].view_offset
      BY <2>1 DEF Owns, SameLink
    <2>6. m.heap = g /\ m.at = w /\ m.index = h[y].view_offset + l.index
          /\ m = [heap |-> g, at |-> w, index |-> h[y].view_offset + l.index]
      BY <2>5 DEF Onward
    <2>7. g = Edited(h, N, {x \in W : w < x}, own)
      <3>. DEFINE e == Edited(h, N, {x \in W : w < x}, own)
      <3>1. l.heap = [x \in 1..N |-> IF x \in {z \in W : y < z} THEN own[x] ELSE h[x]]
        BY <1>1 DEF Edited
      <3>2. g = [x \in 1..N |-> IF x = y THEN own[y]
                                ELSE IF x \in {z \in W : y < z} THEN own[x] ELSE h[x]]
        BY <3>1
      <3>3. \A x \in 1..N : x \in {z \in W : w < z} <=> x = y \/ x \in {z \in W : y < z}
        BY <2>1, <2>2
      <3>. QED
        BY <3>2, <3>3 DEF Edited
    <2>8. w \in 0..s /\ w <= s - n
      BY <1>1, <1>2, <2>2
    <2>9. w # 0 => w \in W /\ h[y].view_offset + l.index = off[w] + i
      BY <2>1, <2>2
    <2>10. h[y].view_offset + l.index \in Nat
      BY <1>2, <2>2
    <2>11. n # 0 /\ g \in heaps
      <3>1. \A b \in 0..s : Edited(h, N, {x \in W : b < x}, own) \in heaps
        OBVIOUS
      <3>2. n # 0
        OBVIOUS
      <3>. HIDE DEF heaps, w, g
      <3>. QED
        BY <2>7, <2>8, <3>1, <3>2
    <2>. HIDE DEF w, g, m
    <2>12. m \in Seen(V, h, N, s, W, off, i, own, n)
      BY <2>6, <2>7, <2>8, <2>9, <2>10, <2>11 DEF Seen
    <2>. QED
      BY <2>1, <2>3, <2>4, <2>12 DEF m
  <1>. QED
    BY <1>3, <1>4 DEF NoArray

LEMMA SeenLast ==
  ASSUME NEW V, NEW N \in Nat, NEW h \in Heaps(V, N), NEW s \in 1..N,
         NEW W, NEW off, WayOf(h, s, W, off), NEW own, NEW i \in Nat,
         NEW l \in Seen(V, h, N, s, W, off, i, own, s)
  PROVE  l.heap = Edited(h, N, W, own)
  <1>1. /\ l.at \in 0..s /\ l.at <= s - s
        /\ l.heap = Edited(h, N, {x \in W : l.at < x}, own)
    BY DEF Seen
  <1>2. \A x \in W : 0 < x
    BY OnWay
  <1>3. {x \in W : l.at < x} = W
    BY <1>1, <1>2
  <1>. QED
    BY <1>1, <1>3

(* g differs from h by edits of the arrays W, each made.                   *)
Alters(V, N, h, g, W) ==
  /\ g \in Heaps(V, N)
  /\ \A x \in 1..N : x \notin W => g[x] = h[x]
  /\ \A x \in W :
       /\ g[x].view_source = h[x].view_source
       /\ g[x].view_offset = h[x].view_offset
       /\ g[x].mutation_version > h[x].mutation_version
       /\ \/ g[x].view_source_version = h[x].view_source_version
          \/ /\ h[x].view_source # 0
             /\ g[x].view_source_version =
                  g[h[x].view_source].mutation_version

SameShape(x, y) == y.elements = x.elements /\ y.count = x.count

(* The last of an edit, that the array agrees with its source.             *)
LEMMA InStepIs ==
  ASSUME NEW V, NEW N \in Nat, NEW h \in Heaps(V, N), NEW s \in 1..N,
         NEW W, NEW off, WayOf(h, s, W, off), NEW own, Owns(V, h, W, own),
         NEW fc \in BOOLEAN
  PROVE  LET g == InStep(Edited(h, N, W, own), s, fc) IN
         /\ Alters(V, N, h, g, W)
         /\ \A x \in W : SameShape(own[x], g[x])
  <1>. DEFINE e == Edited(h, N, W, own)
              w == h[s].view_source
  <1>1. /\ s \in W /\ W \subseteq 1..N
        /\ \A x \in W : /\ x \in 1..N /\ h[x].view_source \in Nat /\ h[x] \in Arr(V)
                        /\ h[x].view_source < x
        /\ w # 0 => w \in W
        /\ w < s /\ w \in Nat
    BY OnWay
  <1>2. /\ \A x \in W : e[x] = own[x]
        /\ \A x \in 1..N : x \notin W => e[x] = h[x]
        /\ e = [x \in 1..N |-> e[x]]
    BY <1>1 DEF Edited
  <1>3. ASSUME NEW x \in W
        PROVE  /\ own[x] \in Arr(V) /\ own[x].view_source = h[x].view_source
               /\ own[x].view_offset = h[x].view_offset
               /\ own[x].view_source_version = h[x].view_source_version
               /\ own[x].mutation_version = h[x].mutation_version + 1
               /\ own[x].mutation_version > h[x].mutation_version
               /\ own[x].mutation_version \in Nat
    <2>1. own[x] \in Arr(V) /\ SameLink(h[x], own[x])
          /\ own[x].mutation_version = h[x].mutation_version + 1
      BY DEF Owns
    <2>2. h[x].mutation_version \in Nat /\ own[x].mutation_version \in Nat
      BY <1>1, <2>1, Fields
    <2>. QED
      BY <2>1, <2>2 DEF SameLink
  <1>. HIDE DEF e, w
  <1>4. e \in Heaps(V, N)
    <2>1. ASSUME NEW x \in 1..N
          PROVE  e[x] \in Arr(V) /\ e[x].view_source < x
      <3>1. CASE x \in W
        BY <1>1, <1>2, <1>3, <3>1
      <3>2. CASE x \notin W
        BY <1>2, <3>2 DEF Heaps
      <3>. QED
        BY <3>1, <3>2
    <2>. QED
      BY <1>2, <2>1 DEF Heaps
  <1>5. CASE fc \/ ~IsView(e, s)
    <2>1. InStep(e, s, fc) = e
      BY <1>5 DEF InStep
    <2>2. Alters(V, N, h, e, W)
      BY <1>2, <1>3, <1>4 DEF Alters
    <2>3. \A x \in W : SameShape(own[x], e[x])
      BY <1>2 DEF SameShape
    <2>. QED
      BY <2>1, <2>2, <2>3 DEF e
  <1>6. CASE ~(fc \/ ~IsView(e, s))
    <2>1. e[s] = own[s] /\ e[s].view_source = w /\ w # 0
      BY <1>1, <1>2, <1>3, <1>6 DEF IsView, NoArray, w
    <2>2. w \in W /\ w # s /\ e[w] = own[w] /\ e[w].mutation_version \in Nat
      BY <1>1, <1>2, <1>3, <2>1
    <2>. DEFINE m == e[w].mutation_version
                y == [own[s] EXCEPT !.view_source_version = m]
                g == [e EXCEPT ![s] = y]
    <2>3. InStep(e, s, fc) = g
      BY <1>6, <2>1 DEF InStep
    <2>4. /\ y \in Arr(V) /\ SameShape(own[s], y)
          /\ y.view_source = h[s].view_source /\ y.view_offset = h[s].view_offset
          /\ y.mutation_version = own[s].mutation_version
          /\ y.view_source_version = m
      <3>1. own[s] \in Arr(V) /\ m \in Nat
        BY <1>1, <1>3, <2>2
      <3>2. /\ y \in Arr(V) /\ y.elements = own[s].elements /\ y.count = own[s].count
            /\ y.view_source = own[s].view_source /\ y.view_offset = own[s].view_offset
            /\ y.mutation_version = own[s].mutation_version
            /\ y.view_source_version = m
        <4>. HIDE DEF m
        <4>. QED
          BY <3>1 DEF Arr
      <3>. QED
        BY <1>1, <1>3, <3>2 DEF SameShape
    <2>. HIDE DEF y, m
    <2>5. /\ g[s] = y /\ \A x \in 1..N : x # s => g[x] = e[x]
          /\ g = [x \in 1..N |-> g[x]]
      BY <1>1, <1>2
    <2>. HIDE DEF g
    <2>6. g \in Heaps(V, N)
      <3>1. ASSUME NEW x \in 1..N
            PROVE  g[x] \in Arr(V) /\ g[x].view_source < x
        <4>1. CASE x = s
          BY <1>1, <2>4, <2>5, <4>1 DEF w
        <4>2. CASE x # s
          BY <1>4, <2>5, <4>2 DEF Heaps
        <4>. QED
          BY <4>1, <4>2
      <3>. QED
        BY <2>5, <3>1 DEF Heaps
    <2>7. ASSUME NEW x \in W
          PROVE  /\ SameShape(own[x], g[x])
                 /\ g[x].view_source = h[x].view_source
                 /\ g[x].view_offset = h[x].view_offset
                 /\ g[x].mutation_version > h[x].mutation_version
                 /\ \/ g[x].view_source_version = h[x].view_source_version
                    \/ /\ h[x].view_source # 0
                       /\ g[x].view_source_version =
                            g[h[x].view_source].mutation_version
      <3>1. CASE x = s
        <4>1. g[w] = e[w] /\ g[w].mutation_version = m
          BY <1>1, <2>2, <2>5 DEF m
        <4>. QED
          BY <1>3, <2>1, <2>4, <2>5, <3>1, <4>1 DEF w
      <3>2. CASE x # s
        <4>1. g[x] = own[x]
          BY <1>1, <1>2, <2>5, <3>2
        <4>. QED
          BY <1>3, <4>1 DEF SameShape
      <3>. QED
        BY <3>1, <3>2
    <2>8. \A x \in 1..N : x \notin W => g[x] = h[x]
      BY <1>1, <1>2, <2>5
    <2>9. Alters(V, N, h, g, W)
      BY <2>6, <2>7, <2>8 DEF Alters
    <2>. QED
      BY <2>3, <2>7, <2>9 DEF e
  <1>. QED
    BY <1>5, <1>6

(* Two runs of one loop end alike.                                         *)
LEMMA SameRun ==
  ASSUME NEW n \in Nat, NEW f, NEW g, g[0] = f[0],
         \A k \in 1..n : g[k-1] = f[k-1] => g[k] = f[k]
  PROVE  g[n] = f[n]
  <1>. DEFINE T == {k \in 0..n : g[k] = f[k]}
  <1>1. 0 \in T
    OBVIOUS
  <1>2. \A k \in 1..n : k - 1 \in T => k \in T
    OBVIOUS
  <1>3. \A k \in 0..n : k \in T
    <2>. HIDE DEF T
    <2>. QED
      BY <1>1, <1>2, Climbing
  <1>. QED
    BY <1>3

(* A loop whose rounds are those of an edit on its way up ends with all    *)
(* the arrays on the way edited.                                           *)
Climbs(V, h, N, s, W, off, i, own, F) ==
  \A n \in 1..s : \A l \in Seen(V, h, N, s, W, off, i, own, n - 1) :
    F[n][l] = IF l.at = NoArray THEN l ELSE Onward(l, own[l.at], l.index)

LEMMA ClimbRun ==
  ASSUME NEW V, NEW N \in Nat, NEW h \in Heaps(V, N), NEW s \in 1..N,
         NEW W, NEW off, WayOf(h, s, W, off), NEW own, Owns(V, h, W, own),
         NEW i \in Nat, NEW F, Climbs(V, h, N, s, W, off, i, own, F)
  PROVE  \E f :
           /\ f = [k \in 0..s |-> f[k]] /\ f[0] = [heap |-> h, at |-> s, index |-> i]
           /\ \A k \in 1..s : f[k] = F[k][f[k-1]]
           /\ \A k \in 0..s : f[k] \in Seen(V, h, N, s, W, off, i, own, k)
           /\ f[s].heap = Edited(h, N, W, own)
  <1>. DEFINE S == [k \in 0..s |-> Seen(V, h, N, s, W, off, i, own, k)]
              x == [heap |-> h, at |-> s, index |-> i]
  <1>1. Takes(F, s, x, S)
    <2>1. s \in Nat /\ 0 \in 0..s
      OBVIOUS
    <2>2. x \in S[0]
      <3>1. x \in Seen(V, h, N, s, W, off, i, own, 0)
        BY SeenFirst
      <3>. QED
        BY <2>1, <3>1
    <2>3. ASSUME NEW n \in 1..s, NEW l \in S[n-1]
          PROVE  F[n][l] \in S[n]
      <3>1. n \in 0..s /\ n - 1 \in 0..s
        OBVIOUS
      <3>2. l \in Seen(V, h, N, s, W, off, i, own, n - 1)
        BY <3>1
      <3>3. /\ l.at = NoArray => l \in Seen(V, h, N, s, W, off, i, own, n)
            /\ l.at # NoArray =>
                 Onward(l, own[l.at], l.index) \in Seen(V, h, N, s, W, off, i, own, n)
        BY <3>2, SeenNext
      <3>4. F[n][l] \in Seen(V, h, N, s, W, off, i, own, n)
        BY <3>2, <3>3 DEF Climbs
      <3>. QED
        BY <3>1, <3>4
    <2>. HIDE DEF x, S
    <2>. QED
      BY <2>1, <2>2, <2>3 DEF Takes
  <1>2. PICK f : IsRun(f, F, s, x, S)
    <2>. HIDE DEF x, S
    <2>. QED
      BY <1>1, Rounds
  <1>3. \A k \in 0..s : f[k] \in Seen(V, h, N, s, W, off, i, own, k)
    BY <1>2 DEF IsRun
  <1>4. f[s].heap = Edited(h, N, W, own)
    <2>1. f[s] \in Seen(V, h, N, s, W, off, i, own, s)
      BY <1>3
    <2>. QED
      BY <2>1, SeenLast
  <1>. QED
    BY <1>2, <1>3, <1>4 DEF IsRun

-----------------------------------------------------------------------------
(* The three edits.                                                        *)

InsertedAt(x, y, p, v) ==
  /\ y.count = x.count + 1
  /\ \A j \in 1..x.count + 1 :
       y.elements[j] = IF j <= p THEN x.elements[j]
                       ELSE IF j = p + 1 THEN v ELSE x.elements[j-1]

LEMMA InsertIs ==
  ASSUME NEW V, NEW N \in Nat, NEW h \in Heaps(V, N), NEW s \in 1..N,
         NEW W, NEW off, WayOf(h, s, W, off),
         NEW i \in Nat, NEW v \in V, NEW fc \in BOOLEAN,
         \A x \in W : off[x] + i <= h[x].count
  PROVE  LET g == InsertInternal(h, s, i, v, fc) IN
         /\ Alters(V, N, h, g, W)
         /\ \A x \in W : InsertedAt(h[x], g[x], off[x] + i, v)
  <1>. DEFINE own == [x \in W |-> Touched(Inserted(h[x], off[x] + i, v), fc \/ x # s)]
              Up(l, n) ==
                LET x == l.heap[l.at]
                    at == IF l.index > x.count THEN x.count ELSE l.index
                IN IF l.at = NoArray THEN l
                   ELSE Onward(l, Touched(Inserted(x, at, v), fc \/ n > 1), at)
              start == [heap |-> h, at |-> s, index |-> i]
              Sn(n) == Seen(V, h, N, s, W, off, i, own, n)
              F == [n \in 1..s |-> [l \in Sn(n-1) |-> Up(l, n)]]
  <1>1. ASSUME NEW x \in W
        PROVE  /\ own[x] \in Arr(V) /\ SameLink(h[x], own[x])
               /\ own[x].mutation_version = h[x].mutation_version + 1
               /\ InsertedAt(h[x], own[x], off[x] + i, v)
    <2>. DEFINE y == Inserted(h[x], off[x] + i, v)
    <2>1. h[x] \in Arr(V) /\ off[x] + i \in 0..h[x].count
      <3>1. h[x] \in Arr(V) /\ off[x] \in Nat
        BY OnWay
      <3>2. h[x].count \in Nat
        BY <3>1, Fields
      <3>. QED
        BY <3>1, <3>2
    <2>2. /\ y \in Arr(V) /\ y.count = h[x].count + 1 /\ SameLink(h[x], y)
          /\ y.mutation_version = h[x].mutation_version
          /\ \A j \in 1..h[x].count + 1 :
               y.elements[j] = IF j <= off[x] + i THEN h[x].elements[j]
                               ELSE IF j = off[x] + i + 1 THEN v ELSE h[x].elements[j-1]
      BY <2>1, InsertedIs
    <2>. HIDE DEF y
    <2>3. own[x] = Touched(y, fc \/ x # s) /\ (fc \/ x # s) \in BOOLEAN
      BY DEF y
    <2>4. /\ own[x] \in Arr(V) /\ own[x].elements = y.elements /\ own[x].count = y.count
          /\ SameLink(y, own[x]) /\ own[x].mutation_version = y.mutation_version + 1
      <3>1. ASSUME NEW b \in BOOLEAN
            PROVE  LET z == Touched(y, b) IN
                   /\ z \in Arr(V) /\ z.elements = y.elements /\ z.count = y.count
                   /\ SameLink(y, z) /\ z.mutation_version = y.mutation_version + 1
        BY <2>2, TouchedIs
      <3>. HIDE DEF own
      <3>. QED
        BY <2>3, <3>1, Zenon
    <2>. HIDE DEF own
    <2>. QED
      BY <2>2, <2>4 DEF SameLink, InsertedAt
  <1>2. Owns(V, h, W, own)
    BY <1>1 DEF Owns
  <1>3. ASSUME NEW n \in 1..s, NEW l \in Sn(n - 1)
        PROVE  Up(l, n) = IF l.at = NoArray THEN l ELSE Onward(l, own[l.at], l.index)
    <2>1. l.at # NoArray =>
              /\ l.at \in W /\ l.heap[l.at] = h[l.at]
              /\ l.index = off[l.at] + i /\ (n > 1 <=> l.at # s)
      <3>. HIDE DEF own
      <3>. QED
        BY <1>2, SeenNext
    <2>2. CASE l.at # NoArray
      <3>1. off[l.at] + i <= h[l.at].count /\ off[l.at] \in Nat /\ h[l.at] \in Arr(V)
        BY <2>1, <2>2, OnWay
      <3>2. h[l.at].count \in Nat
        BY <3>1, Fields
      <3>3. ~(l.index > l.heap[l.at].count)
        BY <2>1, <2>2, <3>1, <3>2
      <3>4. Up(l, n) = Onward(l, Touched(Inserted(h[l.at], l.index, v), fc \/ n > 1), l.index)
        BY <2>1, <2>2, <3>3
      <3>5. own[l.at] = Touched(Inserted(h[l.at], l.index, v), fc \/ n > 1)
        BY <2>1, <2>2
      <3>. QED
        BY <2>2, <3>4, <3>5
    <2>3. CASE l.at = NoArray
      BY <2>3
    <2>. QED
      BY <2>2, <2>3
  <1>. HIDE DEF own, Up
  <1>4. Climbs(V, h, N, s, W, off, i, own, F)
    BY <1>3 DEF Climbs
  <1>5. PICK f :
           /\ f = [k \in 0..s |-> f[k]] /\ f[0] = start
           /\ \A k \in 1..s : f[k] = F[k][f[k-1]]
           /\ \A k \in 0..s : f[k] \in Sn(k)
           /\ f[s].heap = Edited(h, N, W, own)
    <2>. HIDE DEF F
    <2>. QED
      BY <1>2, <1>4, ClimbRun
  <1>. HIDE DEF start
  <1>. DEFINE Run(g) == g = [k \in 0..s |-> IF k = 0 THEN start ELSE Up(g[k-1], k)]
  <1>6. \A k \in 1..s : f[k] = Up(f[k-1], k)
    <2>1. ASSUME NEW k \in 1..s
          PROVE  f[k] = Up(f[k-1], k)
      <3>1. f[k-1] \in Sn(k - 1) /\ f[k] = F[k][f[k-1]]
        <4>1. k - 1 \in 0..s
          OBVIOUS
        <4>. HIDE DEF F
        <4>. QED
          BY <1>5, <4>1
      <3>. QED
        BY <3>1
    <2>. QED
      BY <2>1
  <1>7. Run(f)
    <2>1. \A k \in 0..s : k = 0 \/ k \in 1..s
      OBVIOUS
    <2>2. \A k \in 0..s : f[k] = IF k = 0 THEN start ELSE Up(f[k-1], k)
      BY <1>5, <1>6, <2>1
    <2>. QED
      BY <1>5, <2>2
  <1>8. PICK g : Run(g) /\ Repeated(s, start, Up) = g[s]
    <2>1. Repeated(s, start, Up) = (CHOOSE g : Run(g))[s]
      BY DEF Repeated
    <2>2. Run(CHOOSE g : Run(g))
      <3>. HIDE DEF Run
      <3>. QED
        BY <1>7
    <2>. QED
      BY <2>1, <2>2
  <1>9. g[s] = f[s]
    <2>1. g[0] = f[0] /\ \A k \in 1..s : k # 0 /\ g[k] = Up(g[k-1], k)
      <3>1. 0 \in 0..s /\ \A k \in 1..s : k \in 0..s /\ k # 0
        OBVIOUS
      <3>2. \A k \in 0..s : g[k] = IF k = 0 THEN start ELSE Up(g[k-1], k)
        BY <1>8
      <3>. HIDE DEF F, Run
      <3>. QED
        BY <1>5, <3>1, <3>2
    <2>2. \A k \in 1..s : g[k-1] = f[k-1] => g[k] = f[k]
      BY <1>6, <2>1
    <2>3. s \in Nat
      OBVIOUS
    <2>. QED
      BY <2>1, <2>2, <2>3, SameRun
  <1>10. InsertInternal(h, s, i, v, fc) = InStep(Edited(h, N, W, own), s, fc)
    <2>1. InsertInternal(h, s, i, v, fc) = InStep(Repeated(s, start, Up).heap, s, fc)
      BY DEF InsertInternal, start, Up
    <2>. QED
      BY <1>5, <1>8, <1>9, <2>1
  <1>11. PICK e : e = InStep(Edited(h, N, W, own), s, fc)
    OBVIOUS
  <1>12. Alters(V, N, h, e, W) /\ \A x \in W : SameShape(own[x], e[x])
    BY <1>2, <1>11, InStepIs
  <1>13. \A x \in W : InsertedAt(h[x], e[x], off[x] + i, v)
    BY <1>1, <1>12 DEF InsertedAt, SameShape
  <1>. QED
    BY <1>10, <1>11, <1>12, <1>13

CutAt(x, y, p) ==
  /\ y.count = x.count - 1
  /\ \A j \in 1..x.count - 1 :
       y.elements[j] = IF j <= p THEN x.elements[j] ELSE x.elements[j+1]

LEMMA RemoveIs ==
  ASSUME NEW V, NEW N \in Nat, NEW h \in Heaps(V, N), NEW s \in 1..N,
         NEW W, NEW off, WayOf(h, s, W, off),
         NEW i \in Nat, NEW fc \in BOOLEAN,
         \A x \in W : off[x] + i < h[x].count
  PROVE  LET g == RemoveInternal(h, s, i, fc) IN
         /\ Alters(V, N, h, g, W)
         /\ \A x \in W : CutAt(h[x], g[x], off[x] + i)
  <1>. DEFINE own == [x \in W |-> Touched(Removed(h[x], off[x] + i), fc \/ x # s)]
              Up(l, n) ==
                LET x == l.heap[l.at] IN
                IF l.at = NoArray \/ l.index \notin 0..x.count-1 THEN l
                ELSE Onward(l, Touched(Removed(x, l.index), fc \/ n > 1), l.index)
              start == [heap |-> h, at |-> s, index |-> i]
              Sn(n) == Seen(V, h, N, s, W, off, i, own, n)
              F == [n \in 1..s |-> [l \in Sn(n-1) |-> Up(l, n)]]
  <1>1. ASSUME NEW x \in W
        PROVE  /\ own[x] \in Arr(V) /\ SameLink(h[x], own[x])
               /\ own[x].mutation_version = h[x].mutation_version + 1
               /\ CutAt(h[x], own[x], off[x] + i)
    <2>. DEFINE y == Removed(h[x], off[x] + i)
    <2>1. h[x] \in Arr(V) /\ off[x] + i \in 0..h[x].count - 1
      <3>1. h[x] \in Arr(V) /\ off[x] \in Nat
        BY OnWay
      <3>2. h[x].count \in Nat
        BY <3>1, Fields
      <3>. QED
        BY <3>1, <3>2
    <2>2. /\ y \in Arr(V) /\ y.count = h[x].count - 1 /\ SameLink(h[x], y)
          /\ y.mutation_version = h[x].mutation_version
          /\ \A j \in 1..h[x].count - 1 :
               y.elements[j] = IF j <= off[x] + i THEN h[x].elements[j]
                               ELSE h[x].elements[j+1]
      BY <2>1, RemovedIs
    <2>. HIDE DEF y
    <2>3. own[x] = Touched(y, fc \/ x # s) /\ (fc \/ x # s) \in BOOLEAN
      BY DEF y
    <2>4. /\ own[x] \in Arr(V) /\ own[x].elements = y.elements /\ own[x].count = y.count
          /\ SameLink(y, own[x]) /\ own[x].mutation_version = y.mutation_version + 1
      <3>1. ASSUME NEW b \in BOOLEAN
            PROVE  LET z == Touched(y, b) IN
                   /\ z \in Arr(V) /\ z.elements = y.elements /\ z.count = y.count
                   /\ SameLink(y, z) /\ z.mutation_version = y.mutation_version + 1
        BY <2>2, TouchedIs
      <3>. HIDE DEF own
      <3>. QED
        BY <2>3, <3>1, Zenon
    <2>. HIDE DEF own
    <2>. QED
      BY <2>2, <2>4 DEF SameLink, CutAt
  <1>2. Owns(V, h, W, own)
    BY <1>1 DEF Owns
  <1>3. ASSUME NEW n \in 1..s, NEW l \in Sn(n - 1)
        PROVE  Up(l, n) = IF l.at = NoArray THEN l ELSE Onward(l, own[l.at], l.index)
    <2>1. l.at # NoArray =>
              /\ l.at \in W /\ l.heap[l.at] = h[l.at]
              /\ l.index = off[l.at] + i /\ (n > 1 <=> l.at # s)
      <3>. HIDE DEF own
      <3>. QED
        BY <1>2, SeenNext
    <2>2. CASE l.at # NoArray
      <3>1. off[l.at] + i < h[l.at].count /\ off[l.at] \in Nat /\ h[l.at] \in Arr(V)
        BY <2>1, <2>2, OnWay
      <3>2. h[l.at].count \in Nat
        BY <3>1, Fields
      <3>3. l.index \in 0..l.heap[l.at].count - 1
        BY <2>1, <2>2, <3>1, <3>2
      <3>4. Up(l, n) = Onward(l, Touched(Removed(h[l.at], l.index), fc \/ n > 1), l.index)
        BY <2>1, <2>2, <3>3
      <3>5. own[l.at] = Touched(Removed(h[l.at], l.index), fc \/ n > 1)
        BY <2>1, <2>2
      <3>. QED
        BY <2>2, <3>4, <3>5
    <2>3. CASE l.at = NoArray
      BY <2>3
    <2>. QED
      BY <2>2, <2>3
  <1>. HIDE DEF own, Up
  <1>4. Climbs(V, h, N, s, W, off, i, own, F)
    BY <1>3 DEF Climbs
  <1>5. PICK f :
           /\ f = [k \in 0..s |-> f[k]] /\ f[0] = start
           /\ \A k \in 1..s : f[k] = F[k][f[k-1]]
           /\ \A k \in 0..s : f[k] \in Sn(k)
           /\ f[s].heap = Edited(h, N, W, own)
    <2>. HIDE DEF F
    <2>. QED
      BY <1>2, <1>4, ClimbRun
  <1>. HIDE DEF start
  <1>. DEFINE Run(g) == g = [k \in 0..s |-> IF k = 0 THEN start ELSE Up(g[k-1], k)]
  <1>6. \A k \in 1..s : f[k] = Up(f[k-1], k)
    <2>1. ASSUME NEW k \in 1..s
          PROVE  f[k] = Up(f[k-1], k)
      <3>1. f[k-1] \in Sn(k - 1) /\ f[k] = F[k][f[k-1]]
        <4>1. k - 1 \in 0..s
          OBVIOUS
        <4>. HIDE DEF F
        <4>. QED
          BY <1>5, <4>1
      <3>. QED
        BY <3>1
    <2>. QED
      BY <2>1
  <1>7. Run(f)
    <2>1. \A k \in 0..s : k = 0 \/ k \in 1..s
      OBVIOUS
    <2>2. \A k \in 0..s : f[k] = IF k = 0 THEN start ELSE Up(f[k-1], k)
      BY <1>5, <1>6, <2>1
    <2>. QED
      BY <1>5, <2>2
  <1>8. PICK g : Run(g) /\ Repeated(s, start, Up) = g[s]
    <2>1. Repeated(s, start, Up) = (CHOOSE g : Run(g))[s]
      BY DEF Repeated
    <2>2. Run(CHOOSE g : Run(g))
      <3>. HIDE DEF Run
      <3>. QED
        BY <1>7
    <2>. QED
      BY <2>1, <2>2
  <1>9. g[s] = f[s]
    <2>1. g[0] = f[0] /\ \A k \in 1..s : k # 0 /\ g[k] = Up(g[k-1], k)
      <3>1. 0 \in 0..s /\ \A k \in 1..s : k \in 0..s /\ k # 0
        OBVIOUS
      <3>2. \A k \in 0..s : g[k] = IF k = 0 THEN start ELSE Up(g[k-1], k)
        BY <1>8
      <3>. HIDE DEF F, Run
      <3>. QED
        BY <1>5, <3>1, <3>2
    <2>2. \A k \in 1..s : g[k-1] = f[k-1] => g[k] = f[k]
      BY <1>6, <2>1
    <2>3. s \in Nat
      OBVIOUS
    <2>. QED
      BY <2>1, <2>2, <2>3, SameRun
  <1>10. RemoveInternal(h, s, i, fc) = InStep(Edited(h, N, W, own), s, fc)
    <2>1. s \in W /\ off[s] = 0 /\ h[s] \in Arr(V)
      BY OnWay
    <2>2. i < h[s].count /\ h[s].count \in Nat
      <3>1. off[s] + i < h[s].count /\ off[s] + i = i
        BY <2>1
      <3>. QED
        BY <2>1, <3>1, Fields
    <2>3. i \in 0..h[s].count-1
      BY <2>2
    <2>4. RemoveInternal(h, s, i, fc) = InStep(Repeated(s, start, Up).heap, s, fc)
      BY <2>3 DEF RemoveInternal, start, Up
    <2>. QED
      BY <1>5, <1>8, <1>9, <2>4
  <1>11. PICK e : e = InStep(Edited(h, N, W, own), s, fc)
    OBVIOUS
  <1>12. Alters(V, N, h, e, W) /\ \A x \in W : SameShape(own[x], e[x])
    BY <1>2, <1>11, InStepIs
  <1>13. \A x \in W : CutAt(h[x], e[x], off[x] + i)
    BY <1>1, <1>12 DEF CutAt, SameShape
  <1>. QED
    BY <1>10, <1>11, <1>12, <1>13

AssignedAt(x, y, p, v) ==
  /\ y.count = x.count
  /\ \A j \in 1..x.count :
       y.elements[j] = IF j = p + 1 THEN v ELSE x.elements[j]

LEMMA SetIs ==
  ASSUME NEW V, Null \in V, NEW N \in Nat, NEW h \in Heaps(V, N), NEW s \in 1..N,
         NEW W, NEW off, WayOf(h, s, W, off),
         NEW i \in Nat, NEW v \in V, NEW fc \in BOOLEAN,
         \A x \in W : off[x] + i < h[x].count
  PROVE  LET g == SetInternal(h, s, i, v, fc) IN
         /\ Alters(V, N, h, g, W)
         /\ \A x \in W : AssignedAt(h[x], g[x], off[x] + i, v)
  <1>. DEFINE own == [x \in W |-> Touched(Assigned(h[x], off[x] + i, v), fc \/ x # s)]
              Up(l, n) ==
                LET x == l.heap[l.at]
                    new == Onward(l, Touched(Assigned(x, l.index, v),
                                             fc \/ n > 1), l.index)
                IN IF l.at = NoArray THEN l
                   ELSE IF l.index < x.count THEN new
                   ELSE [new EXCEPT !.heap = Extend(@, x, l.index, v), !.at = NoArray]
              start == [heap |-> h, at |-> s, index |-> i]
              Sn(n) == Seen(V, h, N, s, W, off, i, own, n)
              F == [n \in 1..s |-> [l \in Sn(n-1) |-> Up(l, n)]]
  <1>1. ASSUME NEW x \in W
        PROVE  /\ own[x] \in Arr(V) /\ SameLink(h[x], own[x])
               /\ own[x].mutation_version = h[x].mutation_version + 1
               /\ AssignedAt(h[x], own[x], off[x] + i, v)
    <2>. DEFINE y == Assigned(h[x], off[x] + i, v)
    <2>1. h[x] \in Arr(V) /\ off[x] + i \in Nat /\ off[x] + i < h[x].count
          /\ h[x].count \in Nat
      <3>1. h[x] \in Arr(V) /\ off[x] \in Nat
        BY OnWay
      <3>2. h[x].count \in Nat
        BY <3>1, Fields
      <3>. QED
        BY <3>1, <3>2
    <2>2. /\ y \in Arr(V) /\ y.count = h[x].count /\ SameLink(h[x], y)
          /\ y.mutation_version = h[x].mutation_version
          /\ \A j \in 1..h[x].count :
               y.elements[j] = IF j = off[x] + i + 1 THEN v ELSE h[x].elements[j]
      <3>1. ~(off[x] + i >= h[x].count)
        BY <2>1
      <3>2. PICK p \in Nat : p = off[x] + i
        BY <2>1
      <3>3. /\ y \in Arr(V) /\ SameLink(h[x], y)
            /\ y.mutation_version = h[x].mutation_version
            /\ y.count = IF p >= h[x].count THEN p + 1 ELSE h[x].count
            /\ y.elements[p+1] = v
            /\ \A j \in 1..h[x].count : j # p + 1 => y.elements[j] = h[x].elements[j]
        <4>1. y = Assigned(h[x], p, v)
          BY <3>2
        <4>2. IsAssigned(V, h[x], Assigned(h[x], p, v), p, v)
          <5>1. h[x] \in Arr(V)
            BY <2>1
          <5>. QED
            BY <5>1, AssignedIs
        <4>. HIDE DEF y
        <4>. QED
          BY <4>1, <4>2 DEF IsAssigned
      <3>. HIDE DEF y
      <3>. QED
        BY <3>1, <3>2, <3>3
    <2>. HIDE DEF y
    <2>3. own[x] = Touched(y, fc \/ x # s) /\ (fc \/ x # s) \in BOOLEAN
      BY DEF y
    <2>4. /\ own[x] \in Arr(V) /\ own[x].elements = y.elements /\ own[x].count = y.count
          /\ SameLink(y, own[x]) /\ own[x].mutation_version = y.mutation_version + 1
      <3>1. ASSUME NEW b \in BOOLEAN
            PROVE  LET z == Touched(y, b) IN
                   /\ z \in Arr(V) /\ z.elements = y.elements /\ z.count = y.count
                   /\ SameLink(y, z) /\ z.mutation_version = y.mutation_version + 1
        BY <2>2, TouchedIs
      <3>. HIDE DEF own
      <3>. QED
        BY <2>3, <3>1, Zenon
    <2>. HIDE DEF own
    <2>. QED
      BY <2>2, <2>4 DEF SameLink, AssignedAt
  <1>2. Owns(V, h, W, own)
    BY <1>1 DEF Owns
  <1>3. ASSUME NEW n \in 1..s, NEW l \in Sn(n - 1)
        PROVE  Up(l, n) = IF l.at = NoArray THEN l ELSE Onward(l, own[l.at], l.index)
    <2>1. l.at # NoArray =>
              /\ l.at \in W /\ l.heap[l.at] = h[l.at]
              /\ l.index = off[l.at] + i /\ (n > 1 <=> l.at # s)
      <3>. HIDE DEF own
      <3>. QED
        BY <1>2, SeenNext
    <2>2. CASE l.at # NoArray
      <3>1. off[l.at] + i < h[l.at].count /\ off[l.at] \in Nat /\ h[l.at] \in Arr(V)
        BY <2>1, <2>2, OnWay
      <3>2. h[l.at].count \in Nat
        BY <3>1, Fields
      <3>3. l.index < l.heap[l.at].count
        BY <2>1, <2>2, <3>1, <3>2
      <3>4. Up(l, n) = Onward(l, Touched(Assigned(h[l.at], l.index, v), fc \/ n > 1), l.index)
        BY <2>1, <2>2, <3>3
      <3>5. own[l.at] = Touched(Assigned(h[l.at], l.index, v), fc \/ n > 1)
        BY <2>1, <2>2
      <3>. QED
        BY <2>2, <3>4, <3>5
    <2>3. CASE l.at = NoArray
      BY <2>3
    <2>. QED
      BY <2>2, <2>3
  <1>. HIDE DEF own, Up
  <1>4. Climbs(V, h, N, s, W, off, i, own, F)
    BY <1>3 DEF Climbs
  <1>5. PICK f :
           /\ f = [k \in 0..s |-> f[k]] /\ f[0] = start
           /\ \A k \in 1..s : f[k] = F[k][f[k-1]]
           /\ \A k \in 0..s : f[k] \in Sn(k)
           /\ f[s].heap = Edited(h, N, W, own)
    <2>. HIDE DEF F
    <2>. QED
      BY <1>2, <1>4, ClimbRun
  <1>. HIDE DEF start
  <1>. DEFINE Run(g) == g = [k \in 0..s |-> IF k = 0 THEN start ELSE Up(g[k-1], k)]
  <1>6. \A k \in 1..s : f[k] = Up(f[k-1], k)
    <2>1. ASSUME NEW k \in 1..s
          PROVE  f[k] = Up(f[k-1], k)
      <3>1. f[k-1] \in Sn(k - 1) /\ f[k] = F[k][f[k-1]]
        <4>1. k - 1 \in 0..s
          OBVIOUS
        <4>. HIDE DEF F
        <4>. QED
          BY <1>5, <4>1
      <3>. QED
        BY <3>1
    <2>. QED
      BY <2>1
  <1>7. Run(f)
    <2>1. \A k \in 0..s : k = 0 \/ k \in 1..s
      OBVIOUS
    <2>2. \A k \in 0..s : f[k] = IF k = 0 THEN start ELSE Up(f[k-1], k)
      BY <1>5, <1>6, <2>1
    <2>. QED
      BY <1>5, <2>2
  <1>8. PICK g : Run(g) /\ Repeated(s, start, Up) = g[s]
    <2>1. Repeated(s, start, Up) = (CHOOSE g : Run(g))[s]
      BY DEF Repeated
    <2>2. Run(CHOOSE g : Run(g))
      <3>. HIDE DEF Run
      <3>. QED
        BY <1>7
    <2>. QED
      BY <2>1, <2>2
  <1>9. g[s] = f[s]
    <2>1. g[0] = f[0] /\ \A k \in 1..s : k # 0 /\ g[k] = Up(g[k-1], k)
      <3>1. 0 \in 0..s /\ \A k \in 1..s : k \in 0..s /\ k # 0
        OBVIOUS
      <3>2. \A k \in 0..s : g[k] = IF k = 0 THEN start ELSE Up(g[k-1], k)
        BY <1>8
      <3>. HIDE DEF F, Run
      <3>. QED
        BY <1>5, <3>1, <3>2
    <2>2. \A k \in 1..s : g[k-1] = f[k-1] => g[k] = f[k]
      BY <1>6, <2>1
    <2>3. s \in Nat
      OBVIOUS
    <2>. QED
      BY <2>1, <2>2, <2>3, SameRun
  <1>10. SetInternal(h, s, i, v, fc) = InStep(Edited(h, N, W, own), s, fc)
    <2>1. SetInternal(h, s, i, v, fc) = InStep(Repeated(s, start, Up).heap, s, fc)
      BY DEF SetInternal, start, Up
    <2>. QED
      BY <1>5, <1>8, <1>9, <2>1
  <1>11. PICK e : e = InStep(Edited(h, N, W, own), s, fc)
    OBVIOUS
  <1>12. Alters(V, N, h, e, W) /\ \A x \in W : SameShape(own[x], e[x])
    BY <1>2, <1>11, InStepIs
  <1>13. \A x \in W : AssignedAt(h[x], e[x], off[x] + i, v)
    BY <1>1, <1>12 DEF AssignedAt, SameShape
  <1>. QED
    BY <1>10, <1>11, <1>12, <1>13

-----------------------------------------------------------------------------
(* What is kept of views: none has seen a later version of its source than *)
(* there is, and the window of x is a slice of its source.                 *)
Agrees(N, h) ==
  \A x \in 1..N : h[x].view_source # NoArray =>
    h[x].view_source_version <= h[h[x].view_source].mutation_version

Slice(h, x) ==
  h[x].view_source # 0 =>
    /\ h[x].view_offset + h[x].count <= h[h[x].view_source].count
    /\ \A j \in 1..h[x].count :
         h[x].elements[j] = h[h[x].view_source].elements[h[x].view_offset + j]
SliceOf(x, w) ==
  /\ x.view_offset + x.count <= w.count
  /\ \A j \in 1..x.count : x.elements[j] = w.elements[x.view_offset + j]

-----------------------------------------------------------------------------
(* Any edit on its way up, also one through stale views.                   *)

(* What an edit does to an array: it puts v in at i (k = 0), takes an      *)
(* element out (1) or puts v over one (2).                                 *)
Fits(k, x, i) == IF k = 0 THEN i <= x.count ELSE i < x.count
Does(k, x, y, i, v) == /\ k = 0 => InsertedAt(x, y, i, v)
                       /\ k = 1 => CutAt(x, y, i)
                       /\ k = 2 => AssignedAt(x, y, i, v)

(* A view that did it and waits for its source to do it.                   *)
Awaits(k, y, w, i, v) ==
  Fits(k, w, i) /\ \A z : Does(k, w, z, i, v) => SliceOf(y, z)

LEMMA LinkOn ==
  ASSUME NEW V, NEW x \in Arr(V), NEW w \in Arr(V), NEW y \in Arr(V), SliceOf(x, w),
         NEW k \in 0..2, NEW i \in Nat, NEW v, Fits(k, x, i), Does(k, x, y, i, v),
         y.view_offset = x.view_offset
  PROVE  Awaits(k, y, w, x.view_offset + i, v)
  <1>. DEFINE d == x.view_offset
              n == x.count
              m == w.count
              D == x.elements
              E == w.elements
              D2 == y.elements
  <1>1. d \in Nat /\ n \in Nat /\ m \in Nat
    BY Fields
  <1>2. d + n <= m /\ (\A j \in 1..n : D[j] = E[d + j]) /\ y.view_offset = d
    BY DEF SliceOf
  <1>3. Fits(k, w, d + i)
    <2>. HIDE DEF d
    <2>. QED
      BY <1>1, <1>2 DEF Fits, n, m
  <1>4. ASSUME NEW z, Does(k, w, z, d + i, v)
        PROVE  SliceOf(y, z)
    <2>. DEFINE E2 == z.elements
    <2>1. CASE k = 0
      <3>1. /\ y.count = n + 1 /\ z.count = m + 1 /\ i <= n
            /\ \A j \in 1..n + 1 : D2[j] = IF j <= i THEN D[j] ELSE IF j = i + 1 THEN v ELSE D[j-1]
            /\ \A j \in 1..m + 1 : E2[j] = IF j <= d + i THEN E[j]
                                           ELSE IF j = d + i + 1 THEN v ELSE E[j-1]
        BY <1>4, <2>1 DEF Does, InsertedAt, Fits
      <3>. HIDE DEF d, n, m, D, E, D2, E2
      <3>2. ASSUME NEW j \in 1..n + 1
            PROVE  D2[j] = E2[d + j]
        <4>1. d + j \in 1..m + 1 /\ d + j - 1 = d + (j - 1)
          BY <1>1, <1>2
        <4>2. CASE j <= i
          <5>1. d + j <= d + i /\ j \in 1..n
            BY <1>1, <3>1, <4>2
          <5>. QED
            BY <1>2, <3>1, <4>1, <4>2, <5>1
        <4>3. CASE j = i + 1
          <5>1. ~(d + j <= d + i) /\ d + j = d + i + 1 /\ ~(j <= i)
            BY <1>1, <4>3
          <5>. QED
            BY <3>1, <4>1, <4>3, <5>1
        <4>4. CASE ~(j <= i) /\ j # i + 1
          <5>1. PICK e, b : e = d + j /\ b = j - 1
            OBVIOUS
          <5>2. /\ e \in 1..m + 1 /\ ~(e <= d + i) /\ e # d + i + 1
                /\ b \in 1..n /\ e - 1 = d + b
            BY <1>1, <4>1, <4>4, <5>1
          <5>3. D2[j] = D[b]
            BY <3>1, <4>4, <5>1
          <5>4. E2[e] = E[e - 1]
            BY <3>1, <5>2
          <5>5. D[b] = E[d + b]
            BY <1>2, <5>2
          <5>6. E2[e] = D2[j]
            BY <5>2, <5>3, <5>4, <5>5
          <5>. QED
            BY <5>1, <5>6
        <4>. QED
          BY <4>2, <4>3, <4>4
      <3>3. d + (n + 1) <= m + 1
        BY <1>1, <1>2
      <3>. QED
        BY <1>2, <3>1, <3>2, <3>3 DEF SliceOf, D2, E2
    <2>2. CASE k = 1
      <3>1. /\ y.count = n - 1 /\ z.count = m - 1 /\ i < n
            /\ \A j \in 1..n - 1 : D2[j] = IF j <= i THEN D[j] ELSE D[j+1]
            /\ \A j \in 1..m - 1 : E2[j] = IF j <= d + i THEN E[j] ELSE E[j+1]
        BY <1>4, <2>2 DEF Does, CutAt, Fits
      <3>. HIDE DEF d, n, m, D, E, D2, E2
      <3>2. ASSUME NEW j \in 1..n - 1
            PROVE  D2[j] = E2[d + j]
        <4>1. d + j \in 1..m - 1 /\ d + j + 1 = d + (j + 1) /\ j \in 1..n /\ j + 1 \in 1..n
          BY <1>1, <1>2
        <4>2. CASE j <= i
          <5>1. d + j <= d + i
            BY <1>1, <4>2
          <5>. QED
            BY <1>2, <3>1, <4>1, <4>2, <5>1
        <4>3. CASE ~(j <= i)
          <5>1. ~(d + j <= d + i)
            BY <1>1, <4>3
          <5>2. D2[j] = D[j+1] /\ E2[d + j] = E[d + j + 1]
            BY <3>1, <4>1, <4>3, <5>1
          <5>3. D[j+1] = E[d + (j + 1)]
            BY <1>2, <4>1
          <5>. QED
            BY <4>1, <5>2, <5>3
        <4>. QED
          BY <4>2, <4>3
      <3>3. d + (n - 1) <= m - 1
        BY <1>1, <1>2
      <3>. QED
        BY <1>2, <3>1, <3>2, <3>3 DEF SliceOf, D2, E2
    <2>3. CASE k = 2
      <3>1. /\ y.count = n /\ z.count = m /\ i < n
            /\ \A j \in 1..n : D2[j] = IF j = i + 1 THEN v ELSE D[j]
            /\ \A j \in 1..m : E2[j] = IF j = d + i + 1 THEN v ELSE E[j]
        BY <1>4, <2>3 DEF Does, AssignedAt, Fits
      <3>. HIDE DEF d, n, m, D, E, D2, E2
      <3>2. ASSUME NEW j \in 1..n
            PROVE  D2[j] = E2[d + j]
        <4>1. d + j \in 1..m
          BY <1>1, <1>2
        <4>2. j = i + 1 <=> d + j = d + i + 1
          BY <1>1
        <4>. QED
          BY <1>2, <3>1, <4>1, <4>2
      <3>. QED
        BY <1>2, <3>1, <3>2 DEF SliceOf, D2, E2
    <2>. QED
      BY <2>1, <2>2, <2>3
  <1>. QED
    BY <1>3, <1>4 DEF Awaits

(* An array touched, from a view of it if b.                               *)
Own(x, y, b) ==
  /\ SameLink(x, y) /\ y.mutation_version = x.mutation_version + 1
  /\ x.view_invalid = TRUE \/ (b = TRUE /\ x.view_source # 0) => y.view_invalid = TRUE

LEMMA OwnTouched ==
  ASSUME NEW V, NEW x \in Arr(V), NEW y \in Arr(V), NEW b \in BOOLEAN,
         SameLink(x, y), y.mutation_version = x.mutation_version,
         y.view_invalid = x.view_invalid
  PROVE  /\ Own(x, Touched(y, b), b) /\ Touched(y, b) \in Arr(V)
         /\ SameShape(y, Touched(y, b))
  <1>1. /\ Touched(y, b) \in Arr(V) /\ Touched(y, b).elements = y.elements
        /\ Touched(y, b).count = y.count /\ SameLink(y, Touched(y, b))
        /\ Touched(y, b).mutation_version = y.mutation_version + 1
    BY TouchedIs
  <1>2. Touched(y, b).view_invalid = (y.view_invalid \/ (b /\ y.view_source # NoArray))
    BY DEF Touched, Arr
  <1>3. y.view_source = x.view_source
    BY DEF SameLink
  <1>4. x.view_invalid = TRUE \/ (b = TRUE /\ x.view_source # 0)
          => Touched(y, b).view_invalid = TRUE
    <2>1. y.view_invalid \in BOOLEAN
      BY Fields
    <2>. QED
      BY <1>2, <1>3, <2>1, Zenon DEF NoArray
  <1>. QED
    BY <1>1, <1>4 DEF Own, SameLink, SameShape

(* An edit, made at s, on its way up: it has done the arrays W above       *)
(* l.at, and views there that mirrored their sources do so, or wait for    *)
(* the array l.at.                                                         *)
Climb(V, N, h, s, W, fc, k, v) ==
  {l \in [heap : Heaps(V, N), at : 0..s, index : Nat] :
     /\ l.at # 0 => l.at \in W
     /\ \A x \in 1..N : x \notin W \/ x <= l.at => l.heap[x] = h[x]
     /\ \A x \in W : x > l.at => Own(h[x], l.heap[x], fc \/ x # s)
     /\ \A x \in W : x > l.at /\ h[x].view_source > l.at /\ Slice(h, x)
                       => Slice(l.heap, x)
     /\ \A x \in W : x > l.at /\ l.at # 0 /\ h[x].view_source = l.at /\ Slice(h, x)
                       => Awaits(k, l.heap[x], h[l.at], l.index, v)}

LEMMA ClimbFirst ==
  ASSUME NEW V, NEW N \in Nat, NEW h \in Heaps(V, N), NEW s \in 1..N,
         NEW W, NEW off, WayOf(h, s, W, off), NEW fc, NEW k, NEW v, NEW i \in Nat
  PROVE  [heap |-> h, at |-> s, index |-> i] \in Climb(V, N, h, s, W, fc, k, v)
  <1>1. s \in W /\ s \in Nat /\ s \in 0..s /\ \A x \in W : x \in 1..s
    BY OnWay
  <1>2. \A x \in W : ~(x > s)
    BY <1>1
  <1>. QED
    BY <1>1, <1>2 DEF Climb

LEMMA ClimbOn ==
  ASSUME NEW V, NEW N \in Nat, NEW h \in Heaps(V, N), NEW s \in 1..N,
         NEW W, NEW off, WayOf(h, s, W, off), NEW fc, NEW k \in 0..2, NEW v,
         NEW l \in Climb(V, N, h, s, W, fc, k, v), l.at # 0,
         NEW new \in Arr(V), Own(h[l.at], new, fc \/ l.at # s), NEW c \in Nat,
         Fits(k, h[l.at], c), Does(k, h[l.at], new, c, v),
         Fits(k, h[l.at], l.index) => c = l.index
  PROVE  /\ Onward(l, new, c) \in Climb(V, N, h, s, W, fc, k, v)
         /\ Onward(l, new, c).at < l.at
  <1>1. PICK t, g, i : t = l.at /\ g = l.heap /\ i = l.index
    OBVIOUS
  <1>2. /\ g \in Heaps(V, N) /\ t \in 1..s /\ t \in W /\ i \in Nat /\ t # 0
        /\ \A x \in 1..N : x \notin W \/ x <= t => g[x] = h[x]
        /\ \A x \in W : x > t => Own(h[x], g[x], fc \/ x # s)
        /\ \A x \in W : x > t /\ h[x].view_source > t /\ Slice(h, x) => Slice(g, x)
        /\ \A x \in W : x > t /\ h[x].view_source = t /\ Slice(h, x)
                          => Awaits(k, g[x], h[t], i, v)
    BY <1>1 DEF Climb
  <1>3. /\ Own(h[t], new, fc \/ t # s) /\ Fits(k, h[t], c) /\ Does(k, h[t], new, c, v)
        /\ Fits(k, h[t], i) => c = i
    BY <1>1
  <1>4. /\ s \in W /\ W \subseteq 1..N
        /\ \A x \in W : /\ x \in Nat /\ x # 0 /\ h[x] \in Arr(V)
                        /\ h[x].view_source \in Nat /\ h[x].view_source < x
                        /\ h[x].view_offset \in Nat
        /\ \A x \in W : h[x].view_source # 0 => h[x].view_source \in W
        /\ \A x, z \in W : z < x => z <= h[x].view_source
    BY OnWay
  <1>. DEFINE e == [g EXCEPT ![t] = new]
              w == h[t].view_source
              d == h[t].view_offset
  <1>5. new.view_source = w /\ new.view_offset = d
    BY <1>3 DEF Own, SameLink
  <1>6. Onward(l, new, c) = [heap |-> e, at |-> w, index |-> d + c]
    BY <1>1, <1>5 DEF Onward
  <1>7. /\ w \in Nat /\ w < t /\ (w # 0 => w \in W) /\ d \in Nat /\ t \in 1..N
        /\ w \in 0..s
    BY <1>2, <1>4
  <1>8. e \in Heaps(V, N) /\ e[t] = new /\ \A x \in 1..N : x # t => e[x] = g[x]
    <2>1. \A x \in 1..N : e[x] = IF x = t THEN new ELSE g[x]
      BY <1>2, <1>7 DEF Heaps
    <2>2. \A x \in 1..N : e[x] \in Arr(V) /\ e[x].view_source < x
      BY <1>2, <1>5, <1>7, <2>1 DEF Heaps
    <2>. QED
      BY <1>2, <1>7, <2>1, <2>2 DEF Heaps
  <1>. HIDE DEF e, w, d
  <1>9. ASSUME NEW x \in 1..N, x \notin W \/ x <= w
        PROVE  e[x] = h[x]
    <2>1. x # t /\ (x \notin W \/ x <= t)
      BY <1>2, <1>7, <1>9
    <2>. QED
      BY <1>2, <1>8, <2>1
  <1>10. ASSUME NEW x \in W, x > w
         PROVE  x = t \/ (x > t /\ x # t /\ x \in 1..N /\ t <= h[x].view_source)
    <2>1. x \in Nat /\ x \in 1..N
      BY <1>4
    <2>2. ~(x < t)
      BY <1>2, <1>4, <1>7, <1>10, <2>1 DEF w
    <2>3. x > t => t <= h[x].view_source
      BY <1>2, <1>4, <2>1
    <2>. QED
      BY <1>2, <2>1, <2>2, <2>3
  <1>11. ASSUME NEW x \in W, x > w
         PROVE  Own(h[x], e[x], fc \/ x # s)
    <2>1. CASE x = t
      BY <1>3, <1>8, <2>1
    <2>2. CASE x # t
      <3>1. x > t /\ e[x] = g[x]
        BY <1>8, <1>10, <1>11, <2>2
      <3>. QED
        BY <1>2, <3>1
    <2>. QED
      BY <2>1, <2>2
  <1>12. ASSUME NEW x \in W, x > w, h[x].view_source > w, Slice(h, x)
         PROVE  Slice(e, x)
    <2>1. x # t
      BY <1>7, <1>12 DEF w
    <2>2. x > t /\ x \in 1..N /\ t <= h[x].view_source
      BY <1>10, <1>12, <2>1
    <2>. DEFINE y == h[x].view_source
    <2>3. y \in W /\ y \in 1..N /\ y # 0
      BY <1>2, <1>4, <2>2
    <2>4. g[x].view_source = y /\ e[x] = g[x]
      <3>1. Own(h[x], g[x], fc \/ x # s)
        BY <1>2, <2>2
      <3>. QED
        BY <1>8, <2>1, <2>2, <3>1 DEF Own, SameLink
    <2>. HIDE DEF y
    <2>5. SliceOf(e[x], e[y])
      <3>1. CASE y = t
        <4>1. Awaits(k, g[x], h[t], i, v)
          BY <1>2, <1>12, <2>2, <3>1 DEF y
        <4>2. SliceOf(g[x], new)
          BY <1>3, <4>1 DEF Awaits
        <4>. QED
          BY <1>8, <2>4, <3>1, <4>2
      <3>2. CASE y # t
        <4>1. Slice(g, x)
          <5>1. y > t
            BY <2>2, <2>3, <3>2, <1>7 DEF y
          <5>. QED
            BY <1>2, <1>12, <2>2, <5>1 DEF y
        <4>2. SliceOf(g[x], g[y])
          BY <2>3, <2>4, <4>1 DEF Slice, SliceOf
        <4>. QED
          BY <1>8, <2>3, <2>4, <3>2, <4>2
      <3>. QED
        BY <3>1, <3>2
    <2>. QED
      BY <2>4, <2>5 DEF Slice, SliceOf
  <1>13. ASSUME NEW x \in W, x > w, w # 0, h[x].view_source = w, Slice(h, x)
         PROVE  Awaits(k, e[x], h[w], d + c, v)
    <2>1. x = t
      BY <1>7, <1>10, <1>13
    <2>2. SliceOf(h[t], h[w])
      BY <1>13, <2>1 DEF Slice, SliceOf
    <2>3. h[t] \in Arr(V) /\ h[w] \in Arr(V)
      BY <1>2, <1>4, <1>7, <1>13
    <2>4. Awaits(k, new, h[w], h[t].view_offset + c, v)
      BY <1>3, <1>5, <2>2, <2>3, LinkOn DEF d
    <2>. QED
      BY <1>8, <2>1, <2>4 DEF d
  <1>14. d + c \in Nat
    BY <1>7
  <1>15. [heap |-> e, at |-> w, index |-> d + c] \in Climb(V, N, h, s, W, fc, k, v)
    BY <1>7, <1>8, <1>9, <1>11, <1>12, <1>13, <1>14 DEF Climb
  <1>. QED
    BY <1>1, <1>6, <1>7, <1>15

-----------------------------------------------------------------------------
(* What edits of an array never do, whatever state the views are in.       *)

SameView(x, y) ==
  /\ y.view_source = x.view_source /\ y.view_offset = x.view_offset
  /\ y.mutation_version >= x.mutation_version
  /\ x.view_invalid = TRUE => y.view_invalid = TRUE

(* What is left of h after edits of the arrays W: links, versions that do  *)
(* not go back, those of A too where something changed, the views but B    *)
(* invalid where they changed, and the views but E that mirrored.          *)
Kept(V, N, h, W, A, B, E) ==
  {g \in Heaps(V, N) :
     /\ Agrees(N, g)
     /\ \A x \in 1..N : x \notin W => g[x] = h[x]
     /\ \A x \in W : SameView(h[x], g[x])
     /\ \A x \in W : x \notin A => g[x] = h[x] \/ g[x].mutation_version > h[x].mutation_version
     /\ \A x \in W : x \notin B /\ h[x].view_source # 0 =>
          /\ g[x].view_source_version = h[x].view_source_version
          /\ g[x] = h[x] \/ g[x].view_invalid = TRUE
     /\ \A x \in W : x \notin E /\ Slice(h, x) => Slice(g, x)}

LEMMA ClimbEnds ==
  ASSUME NEW V, NEW N \in Nat, NEW h \in Heaps(V, N), Agrees(N, h), NEW s \in 1..N,
         NEW W, NEW off, WayOf(h, s, W, off), NEW fc \in BOOLEAN, NEW k \in 0..2, NEW v,
         NEW l \in Climb(V, N, h, s, W, fc, k, v),
         l.at = 0 \/ ~Fits(k, h[l.at], l.index), l.at < s
  PROVE  /\ l.heap \in Kept(V, N, h, W, {}, IF fc THEN {} ELSE {s}, {})
         /\ l.heap[s].mutation_version > h[s].mutation_version
  <1>1. PICK t, g, i : t = l.at /\ g = l.heap /\ i = l.index
    OBVIOUS
  <1>2. /\ g \in Heaps(V, N) /\ t \in 0..s /\ (t # 0 => t \in W)
        /\ \A x \in 1..N : x \notin W \/ x <= t => g[x] = h[x]
        /\ \A x \in W : x > t => Own(h[x], g[x], fc \/ x # s)
        /\ \A x \in W : x > t /\ h[x].view_source > t /\ Slice(h, x) => Slice(g, x)
        /\ \A x \in W : x > t /\ t # 0 /\ h[x].view_source = t /\ Slice(h, x)
                          => Awaits(k, g[x], h[t], i, v)
        /\ t = 0 \/ ~Fits(k, h[t], i)
    BY <1>1 DEF Climb
  <1>3. /\ s \in W /\ W \subseteq 1..N
        /\ \A x \in W : /\ x \in Nat /\ x # 0 /\ x \in 1..N /\ h[x] \in Arr(V)
                        /\ h[x].view_source \in Nat /\ h[x].view_source < x
        /\ \A x \in W : h[x].view_source # 0 => h[x].view_source \in W
        /\ \A x, z \in W : z < x => z <= h[x].view_source
    BY OnWay
  <1>4. \A x \in 1..N : /\ h[x] \in Arr(V) /\ g[x] \in Arr(V)
                        /\ h[x].mutation_version \in Nat /\ g[x].mutation_version \in Nat
                        /\ h[x].view_source_version \in Nat
                        /\ h[x].view_source \in Nat /\ h[x].view_source < x
    BY <1>2, Fields DEF Heaps
  <1>5. ASSUME NEW x \in W
        PROVE  \/ x <= t /\ g[x] = h[x]
               \/ x > t /\ Own(h[x], g[x], fc \/ x # s)
    <2>1. x <= t \/ x > t
      BY <1>2, <1>3
    <2>. QED
      BY <1>2, <1>3, <2>1
  <1>6. ASSUME NEW x \in W
        PROVE  /\ SameView(h[x], g[x])
               /\ g[x] = h[x] \/ g[x].mutation_version > h[x].mutation_version
               /\ g[x].view_source_version = h[x].view_source_version
    <2>1. h[x].mutation_version \in Nat
      BY <1>3, <1>4
    <2>2. g[x] = h[x] => SameView(h[x], g[x])
      BY <2>1 DEF SameView
    <2>3. Own(h[x], g[x], fc \/ x # s) =>
            /\ SameView(h[x], g[x]) /\ g[x].mutation_version > h[x].mutation_version
            /\ g[x].view_source_version = h[x].view_source_version
      BY <2>1 DEF SameView, Own, SameLink
    <2>. QED
      BY <1>5, <2>2, <2>3
  <1>7. ASSUME NEW x \in W, x \notin (IF fc THEN {} ELSE {s}), h[x].view_source # 0
        PROVE  g[x] = h[x] \/ g[x].view_invalid = TRUE
    <2>1. (fc \/ x # s) = TRUE
      BY <1>7
    <2>. QED
      BY <1>5, <1>7, <2>1 DEF Own
  <1>8. ASSUME NEW x \in W, Slice(h, x)
        PROVE  Slice(g, x)
    <2>. DEFINE y == h[x].view_source
    <2>1. g[x].view_source = y
      BY <1>6 DEF SameView
    <2>2. CASE y = 0
      BY <2>1, <2>2 DEF Slice
    <2>3. CASE y # 0
      <3>1. y \in W /\ y < x /\ y \in Nat /\ x \in Nat /\ y \in 1..N
        BY <1>3, <2>3
      <3>. HIDE DEF y
      <3>2. CASE x <= t
        <4>1. g[x] = h[x] /\ g[y] = h[y]
          BY <1>2, <1>3, <3>1, <3>2
        <4>. QED
          BY <1>8, <4>1 DEF Slice, y
      <3>3. CASE x > t /\ y > t
        BY <1>2, <1>8, <3>3 DEF y
      <3>4. CASE x > t /\ y = t
        <4>1. Fits(k, h[t], i)
          BY <1>2, <1>8, <2>3, <3>4 DEF Awaits, y
        <4>. QED
          BY <1>2, <2>3, <3>4, <4>1
      <3>5. CASE x > t /\ y < t
        <4>1. t # 0
          BY <1>2, <3>1, <3>5
        <4>2. t <= y
          BY <1>2, <1>3, <3>5, <4>1 DEF y
        <4>. QED
          BY <1>2, <3>1, <3>5, <4>2
      <3>. QED
        BY <1>2, <3>1, <3>2, <3>3, <3>4, <3>5
    <2>. QED
      BY <2>2, <2>3
  <1>9. ASSUME NEW x \in 1..N
        PROVE  /\ g[x].view_source = h[x].view_source
               /\ g[x].mutation_version >= h[x].mutation_version
               /\ g[x].view_source_version = h[x].view_source_version
    <2>1. CASE x \in W
      BY <1>6, <2>1 DEF SameView
    <2>2. CASE x \notin W
      <3>1. g[x] = h[x]
        BY <1>2, <2>2
      <3>2. h[x].mutation_version >= h[x].mutation_version
        BY <1>4
      <3>. QED
        BY <3>1, <3>2
    <2>. QED
      BY <2>1, <2>2
  <1>10. Agrees(N, g)
    <2>1. ASSUME NEW x \in 1..N, g[x].view_source # NoArray
          PROVE  g[x].view_source_version <= g[g[x].view_source].mutation_version
      <3>1. PICK y : y = h[x].view_source
        OBVIOUS
      <3>2. y \in 1..N /\ g[x].view_source = y /\ h[x].view_source # NoArray
        BY <1>4, <1>9, <2>1, <3>1 DEF NoArray
      <3>3. h[x].view_source_version <= h[y].mutation_version
        BY <3>1, <3>2 DEF Agrees
      <3>. QED
        BY <1>4, <1>9, <3>2, <3>3
    <2>. QED
      BY <2>1 DEF Agrees
  <1>11. g \in Kept(V, N, h, W, {}, IF fc THEN {} ELSE {s}, {})
    BY <1>2, <1>6, <1>7, <1>8, <1>10 DEF Kept
  <1>12. g[s].mutation_version > h[s].mutation_version
    <2>1. Own(h[s], g[s], fc \/ s # s)
      BY <1>1, <1>2, <1>3
    <2>. QED
      BY <1>3, <1>4, <2>1 DEF Own
  <1>. QED
    BY <1>1, <1>11, <1>12

LEMMA KeptSelf ==
  ASSUME NEW V, NEW N \in Nat, NEW h \in Heaps(V, N), Agrees(N, h),
         NEW W, W \subseteq 1..N
  PROVE  h \in Kept(V, N, h, W, {}, {}, {})
  <1>1. ASSUME NEW x \in W
        PROVE  SameView(h[x], h[x])
    <2>1. h[x] \in Arr(V)
      BY DEF Heaps
    <2>. QED
      BY <2>1, Fields DEF SameView
  <1>. QED
    BY <1>1 DEF Kept

LEMMA KeptMore ==
  ASSUME NEW V, NEW N, NEW h, NEW W, NEW A, NEW B, NEW E, NEW A2, NEW B2, NEW E2,
         NEW g \in Kept(V, N, h, W, A, B, E), A \subseteq A2, B \subseteq B2, E \subseteq E2
  PROVE  g \in Kept(V, N, h, W, A2, B2, E2)
  BY DEF Kept

LEMMA KeptTwice ==
  ASSUME NEW V, NEW N \in Nat, NEW h \in Heaps(V, N), NEW W, W \subseteq 1..N,
         NEW A, NEW B, NEW E,
         NEW g \in Kept(V, N, h, W, A, B, E), NEW f \in Kept(V, N, g, W, A, B, E)
  PROVE  f \in Kept(V, N, h, W, A, B, E)
  <1>1. /\ g \in Heaps(V, N)
        /\ \A x \in 1..N : x \notin W => g[x] = h[x]
        /\ \A x \in W : SameView(h[x], g[x])
        /\ \A x \in W : x \notin A => g[x] = h[x] \/ g[x].mutation_version > h[x].mutation_version
        /\ \A x \in W : x \notin B /\ h[x].view_source # 0 =>
             /\ g[x].view_source_version = h[x].view_source_version
             /\ g[x] = h[x] \/ g[x].view_invalid = TRUE
        /\ \A x \in W : x \notin E /\ Slice(h, x) => Slice(g, x)
    BY DEF Kept
  <1>2. /\ f \in Heaps(V, N) /\ Agrees(N, f)
        /\ \A x \in 1..N : x \notin W => f[x] = g[x]
        /\ \A x \in W : SameView(g[x], f[x])
        /\ \A x \in W : x \notin A => f[x] = g[x] \/ f[x].mutation_version > g[x].mutation_version
        /\ \A x \in W : x \notin B /\ g[x].view_source # 0 =>
             /\ f[x].view_source_version = g[x].view_source_version
             /\ f[x] = g[x] \/ f[x].view_invalid = TRUE
        /\ \A x \in W : x \notin E /\ Slice(g, x) => Slice(f, x)
    BY DEF Kept
  <1>3. \A x \in W : /\ h[x].mutation_version \in Nat /\ g[x].mutation_version \in Nat
                     /\ f[x].mutation_version \in Nat
    <2>1. ASSUME NEW x \in W
          PROVE  h[x] \in Arr(V) /\ g[x] \in Arr(V) /\ f[x] \in Arr(V)
      BY <1>1, <1>2 DEF Heaps
    <2>. QED
      BY <2>1, Fields
  <1>4. ASSUME NEW x \in W
        PROVE  SameView(h[x], f[x])
    BY <1>1, <1>2, <1>3 DEF SameView
  <1>5. ASSUME NEW x \in W, x \notin A
        PROVE  f[x] = h[x] \/ f[x].mutation_version > h[x].mutation_version
    <2>1. PICK j, k, n : /\ j = h[x].mutation_version /\ k = g[x].mutation_version
                         /\ n = f[x].mutation_version
      OBVIOUS
    <2>2. j \in Nat /\ k \in Nat /\ n \in Nat
      BY <1>3, <2>1
    <2>3. (g[x] = h[x] \/ k > j) /\ (f[x] = g[x] \/ n > k)
      BY <1>1, <1>2, <1>5, <2>1
    <2>4. f[x] = h[x] \/ n > j
      BY <2>1, <2>2, <2>3
    <2>. QED
      BY <2>1, <2>4
  <1>6. ASSUME NEW x \in W, x \notin B, h[x].view_source # 0
        PROVE  /\ f[x].view_source_version = h[x].view_source_version
               /\ f[x] = h[x] \/ f[x].view_invalid = TRUE
    <2>1. g[x].view_source = h[x].view_source
      BY <1>1 DEF SameView
    <2>2. /\ g[x].view_source_version = h[x].view_source_version
          /\ g[x] = h[x] \/ g[x].view_invalid = TRUE
      BY <1>1, <1>6
    <2>3. /\ f[x].view_source_version = g[x].view_source_version
          /\ f[x] = g[x] \/ f[x].view_invalid = TRUE
      BY <1>2, <1>6, <2>1
    <2>. QED
      BY <2>2, <2>3
  <1>7. ASSUME NEW x \in W, x \notin E, Slice(h, x)
        PROVE  Slice(f, x)
    BY <1>1, <1>2, <1>7
  <1>8. ASSUME NEW x \in 1..N, x \notin W
        PROVE  f[x] = h[x]
    BY <1>1, <1>2, <1>8
  <1>. QED
    BY <1>2, <1>4, <1>5, <1>6, <1>7, <1>8 DEF Kept

LEMMA InStepKeeps ==
  ASSUME NEW V, NEW N \in Nat, NEW h \in Heaps(V, N), NEW W, W \subseteq 1..N,
         NEW A, NEW B, NEW E, NEW g \in Kept(V, N, h, W, A, B, E),
         NEW s \in W, NEW fc \in BOOLEAN, fc = FALSE => s \in B,
         g[s].mutation_version > h[s].mutation_version
  PROVE  /\ InStep(g, s, fc) \in Kept(V, N, h, W, A, B, E)
         /\ SameShape(g[s], InStep(g, s, fc)[s])
         /\ InStep(g, s, fc)[s].mutation_version > h[s].mutation_version
  <1>1. /\ g \in Heaps(V, N) /\ Agrees(N, g)
        /\ \A x \in 1..N : x \notin W => g[x] = h[x]
        /\ \A x \in W : SameView(h[x], g[x])
        /\ \A x \in W : x \notin A => g[x] = h[x] \/ g[x].mutation_version > h[x].mutation_version
        /\ \A x \in W : x \notin B /\ h[x].view_source # 0 =>
             /\ g[x].view_source_version = h[x].view_source_version
             /\ g[x] = h[x] \/ g[x].view_invalid = TRUE
        /\ \A x \in W : x \notin E /\ Slice(h, x) => Slice(g, x)
    BY DEF Kept
  <1>2. CASE fc \/ ~IsView(g, s)
    <2>1. InStep(g, s, fc) = g
      BY <1>2 DEF InStep
    <2>. QED
      BY <2>1 DEF SameShape
  <1>3. CASE ~(fc \/ ~IsView(g, s))
    <2>. DEFINE w == g[s].view_source
                u == g[w].mutation_version
                f == [g EXCEPT ![s].view_source_version = u]
    <2>1. InStep(g, s, fc) = f
      BY <1>3 DEF InStep
    <2>2. s \in B /\ w # 0
      <3>1. fc = FALSE
        BY <1>3
      <3>. QED
        BY <1>3, <3>1 DEF IsView, NoArray
    <2>3. s \in 1..N /\ g[s] \in Arr(V) /\ w \in Nat /\ w < s
      <3>1. s \in 1..N /\ g[s] \in Arr(V) /\ w < s
        BY <1>1 DEF Heaps
      <3>. QED
        BY <3>1, Fields
    <2>4. w \in 1..N /\ g[w] \in Arr(V)
      <3>1. w \in 1..N
        BY <2>2, <2>3
      <3>. QED
        BY <1>1, <3>1 DEF Heaps
    <2>5. u \in Nat
      BY <2>4, Fields
    <2>. DEFINE y == [g[s] EXCEPT !.view_source_version = u]
    <2>6. f \in [1..N -> Arr(V)] /\ f[s] = y /\ \A x \in 1..N : x # s => f[x] = g[x]
      <3>1. y \in Arr(V)
        BY <2>3, <2>5 DEF Arr
      <3>. QED
        BY <1>1, <2>3, <3>1 DEF Heaps
    <2>7. /\ y.view_source = w /\ y.view_offset = g[s].view_offset
          /\ y.mutation_version = g[s].mutation_version /\ y.view_source_version = u
          /\ y.view_invalid = g[s].view_invalid
          /\ y.elements = g[s].elements /\ y.count = g[s].count
      BY <2>3 DEF Arr
    <2>. HIDE DEF y, f, w, u
    <2>8. ASSUME NEW x \in 1..N
          PROVE  /\ f[x].view_source = g[x].view_source
                 /\ f[x].view_offset = g[x].view_offset
                 /\ f[x].mutation_version = g[x].mutation_version
                 /\ f[x].view_invalid = g[x].view_invalid
                 /\ f[x].elements = g[x].elements /\ f[x].count = g[x].count
                 /\ g[x].mutation_version \in Nat
                 /\ g[x].view_source \in Nat /\ g[x].view_source < x
      <3>1. g[x].mutation_version \in Nat /\ g[x].view_source \in Nat /\ g[x].view_source < x
        BY <1>1, Fields DEF Heaps
      <3>. QED
        BY <2>6, <2>7, <3>1 DEF w
    <2>9. f \in Heaps(V, N)
      <3>1. \A x \in 1..N : f[x].view_source < x
        BY <2>8
      <3>. QED
        BY <2>6, <3>1 DEF Heaps
    <2>10. Agrees(N, f)
      <3>1. ASSUME NEW x \in 1..N, f[x].view_source # NoArray
            PROVE  f[x].view_source_version <= f[f[x].view_source].mutation_version
        <4>1. PICK z : z = g[x].view_source
          OBVIOUS
        <4>2. z \in 1..N /\ f[x].view_source = z /\ g[x].view_source # NoArray
          BY <2>8, <3>1, <4>1 DEF NoArray
        <4>3. f[z].mutation_version = g[z].mutation_version /\ g[z].mutation_version \in Nat
          BY <2>8, <4>2
        <4>4. CASE x = s
          <5>1. f[x].view_source_version = g[z].mutation_version
            BY <2>6, <2>7, <4>1, <4>4 DEF u, w
          <5>. QED
            BY <4>2, <4>3, <5>1
        <4>5. CASE x # s
          <5>1. f[x].view_source_version <= g[z].mutation_version
            BY <1>1, <2>6, <4>1, <4>2, <4>5 DEF Agrees
          <5>. QED
            BY <4>2, <4>3, <5>1
        <4>. QED
          BY <4>4, <4>5
      <3>. QED
        BY <3>1 DEF Agrees
    <2>11. ASSUME NEW x \in W
           PROVE  SameView(h[x], f[x])
      BY <1>1, <2>8 DEF SameView
    <2>12. ASSUME NEW x \in W, x \notin A
           PROVE  f[x] = h[x] \/ f[x].mutation_version > h[x].mutation_version
      <3>1. x # s => f[x] = g[x]
        BY <2>6
      <3>2. x \in 1..N
        OBVIOUS
      <3>. QED
        BY <1>1, <2>8, <2>12, <3>1, <3>2
    <2>13. ASSUME NEW x \in W, x \notin B, h[x].view_source # 0
           PROVE  /\ f[x].view_source_version = h[x].view_source_version
                  /\ f[x] = h[x] \/ f[x].view_invalid = TRUE
      <3>1. f[x] = g[x]
        BY <2>2, <2>6, <2>13
      <3>. QED
        BY <1>1, <2>13, <3>1
    <2>14. ASSUME NEW x \in W, x \notin E, Slice(h, x)
           PROVE  Slice(f, x)
      <3>1. Slice(g, x)
        BY <1>1, <2>14
      <3>2. PICK z : z = g[x].view_source
        OBVIOUS
      <3>3. x \in 1..N /\ (z # 0 => z \in 1..N)
        BY <2>8, <3>2
      <3>4. /\ f[x].view_source = z /\ f[x].view_offset = g[x].view_offset
            /\ f[x].count = g[x].count /\ f[x].elements = g[x].elements
            /\ z # 0 => f[z].count = g[z].count /\ f[z].elements = g[z].elements
        BY <2>8, <3>2, <3>3
      <3>. QED
        BY <3>1, <3>2, <3>4 DEF Slice
    <2>15. ASSUME NEW x \in 1..N, x \notin W
           PROVE  f[x] = h[x]
      BY <1>1, <2>6, <2>15
    <2>16. f \in Kept(V, N, h, W, A, B, E)
      BY <2>9, <2>10, <2>11, <2>12, <2>13, <2>14, <2>15 DEF Kept
    <2>17. SameShape(g[s], f[s]) /\ f[s].mutation_version > h[s].mutation_version
      BY <2>3, <2>8 DEF SameShape
    <2>. QED
      BY <2>1, <2>16, <2>17
  <1>. QED
    BY <1>2, <1>3

(* Where an edit made at s, in which it is at c, can be after n rounds; a  *)
(* removal stops where it is out of range.                                 *)
Rising(V, N, h, s, W, fc, k, v, c, n) ==
  {l \in Climb(V, N, h, s, W, fc, k, v) :
     /\ l.at <= s - n \/ (k = 1 /\ n > 0 /\ l.at # 0 /\ ~Fits(k, h[l.at], l.index))
     /\ IF n = 0 THEN l.at = s
        ELSE l.at < s /\ Does(k, h[s], l.heap[s], c, v)}

LEMMA RiseFirst ==
  ASSUME NEW V, NEW N \in Nat, NEW h \in Heaps(V, N), NEW s \in 1..N,
         NEW W, NEW off, WayOf(h, s, W, off), NEW fc, NEW k, NEW v, NEW c,
         NEW i \in Nat
  PROVE  [heap |-> h, at |-> s, index |-> i] \in Rising(V, N, h, s, W, fc, k, v, c, 0)
  <1>1. [heap |-> h, at |-> s, index |-> i] \in Climb(V, N, h, s, W, fc, k, v)
    BY ClimbFirst
  <1>2. s <= s - 0
    OBVIOUS
  <1>. QED
    BY <1>1, <1>2 DEF Rising

RisingFrom(V, N, h, s, W, fc, k, v, c, n, l) ==
  /\ l.at \in Nat /\ l.index \in Nat
  /\ l.at # 0 => /\ l.at \in W /\ l.heap[l.at] = h[l.at]
                 /\ h[l.at] \in Arr(V) /\ h[l.at].count \in Nat
                 /\ n > 1 <=> l.at # s
                 /\ h[l.at].view_source \in Nat
  /\ l.at = 0 \/ (k = 1 /\ l.at # 0 /\ ~Fits(k, h[l.at], l.index) /\ n > 1)
       => l \in Rising(V, N, h, s, W, fc, k, v, c, n)

LEMMA RiseFacts ==
  ASSUME NEW V, NEW N \in Nat, NEW h \in Heaps(V, N), NEW s \in 1..N,
         NEW W, NEW off, WayOf(h, s, W, off), NEW fc, NEW k \in 0..2, NEW v, NEW c,
         NEW n \in 1..s, NEW l \in Rising(V, N, h, s, W, fc, k, v, c, n - 1)
  PROVE  RisingFrom(V, N, h, s, W, fc, k, v, c, n, l)
  <1>1. /\ l \in Climb(V, N, h, s, W, fc, k, v)
        /\ IF n = 1 THEN l.at = s ELSE l.at < s /\ Does(k, h[s], l.heap[s], c, v)
    <2>1. n - 1 = 0 <=> n = 1
      OBVIOUS
    <2>. QED
      BY <2>1 DEF Rising
  <1>2. /\ l.at \in 0..s /\ l.index \in Nat /\ (l.at # 0 => l.at \in W)
        /\ \A x \in 1..N : x \notin W \/ x <= l.at => l.heap[x] = h[x]
    BY <1>1 DEF Climb
  <1>3. \A x \in W : x \in 1..N /\ x \in Nat /\ h[x] \in Arr(V) /\ h[x].view_source \in Nat
    BY OnWay
  <1>4. ASSUME l.at # 0
        PROVE  /\ l.at \in W /\ l.heap[l.at] = h[l.at]
               /\ h[l.at] \in Arr(V) /\ h[l.at].count \in Nat /\ (n > 1 <=> l.at # s)
               /\ h[l.at].view_source \in Nat
    <2>1. l.at \in 1..N /\ l.at <= l.at /\ l.at \in W
      BY <1>2, <1>3, <1>4
    <2>2. n > 1 <=> l.at # s
      BY <1>1, <1>2
    <2>. QED
      BY <1>2, <1>3, <2>1, <2>2, Fields
  <1>5. ASSUME l.at = 0
        PROVE  l \in Rising(V, N, h, s, W, fc, k, v, c, n)
    <2>1. n # 1 /\ l.at < s /\ Does(k, h[s], l.heap[s], c, v) /\ l.at <= s - n /\ n # 0
      BY <1>1, <1>5
    <2>. QED
      BY <1>1, <2>1 DEF Rising
  <1>6. ASSUME k = 1, l.at # 0, ~Fits(k, h[l.at], l.index), n > 1
        PROVE  l \in Rising(V, N, h, s, W, fc, k, v, c, n)
    <2>1. l.at < s /\ Does(k, h[s], l.heap[s], c, v) /\ n # 0 /\ n > 0
      BY <1>1, <1>6
    <2>. QED
      BY <1>1, <1>6, <2>1 DEF Rising
  <1>. QED
    BY <1>2, <1>4, <1>5, <1>6 DEF RisingFrom

LEMMA RiseOn ==
  ASSUME NEW V, NEW N \in Nat, NEW h \in Heaps(V, N), NEW s \in 1..N,
         NEW W, NEW off, WayOf(h, s, W, off), NEW fc, NEW k \in 0..2, NEW v, NEW c,
         NEW n \in 1..s, NEW l \in Rising(V, N, h, s, W, fc, k, v, c, n - 1),
         l.at # 0, NEW new \in Arr(V), Own(h[l.at], new, fc \/ l.at # s),
         NEW d \in Nat, Fits(k, h[l.at], d), Does(k, h[l.at], new, d, v),
         Fits(k, h[l.at], l.index) => d = l.index,
         k = 1 => Fits(k, h[l.at], l.index), l.at = s => d = c
  PROVE  Onward(l, new, d) \in Rising(V, N, h, s, W, fc, k, v, c, n)
  <1>. DEFINE m == Onward(l, new, d)
  <1>1. /\ l \in Climb(V, N, h, s, W, fc, k, v)
        /\ l.at <= s - (n - 1)
        /\ IF n = 1 THEN l.at = s ELSE l.at < s /\ Does(k, h[s], l.heap[s], c, v)
    <2>1. n - 1 = 0 <=> n = 1
      OBVIOUS
    <2>. QED
      BY <2>1 DEF Rising
  <1>2. m \in Climb(V, N, h, s, W, fc, k, v) /\ m.at < l.at
    BY <1>1, ClimbOn
  <1>3. m.heap = [l.heap EXCEPT ![l.at] = new]
    BY DEF Onward
  <1>4. l.at \in 0..s /\ m.at \in 0..s /\ l.heap \in [1..N -> Arr(V)]
    BY <1>1, <1>2 DEF Climb, Heaps
  <1>. HIDE DEF m
  <1>5. m.at <= s - n /\ m.at < s /\ n # 0
    BY <1>1, <1>2, <1>4
  <1>6. Does(k, h[s], m.heap[s], c, v)
    <2>1. CASE l.at = s
      <3>1. m.heap[s] = new
        BY <1>3, <1>4, <2>1
      <3>. QED
        BY <2>1, <3>1
    <2>2. CASE l.at # s
      <3>1. m.heap[s] = l.heap[s]
        BY <1>3, <1>4, <2>2
      <3>. QED
        BY <1>1, <2>2, <3>1
    <2>. QED
      BY <2>1, <2>2
  <1>7. m \in Rising(V, N, h, s, W, fc, k, v, c, n)
    BY <1>2, <1>5, <1>6 DEF Rising
  <1>. QED
    BY <1>7 DEF m

LEMMA DoesShape ==
  ASSUME NEW k, NEW x, NEW y, NEW z, NEW c, NEW v, Does(k, x, y, c, v), SameShape(y, z)
  PROVE  Does(k, x, z, c, v)
  BY DEF Does, SameShape, InsertedAt, CutAt, AssignedAt

(* How an edit at s ends.                                                  *)
Ended(V, N, h, s, W, fc, E, g) ==
  /\ g \in Kept(V, N, h, W, {}, IF fc THEN {} ELSE {s}, E)
  /\ g[s].mutation_version > h[s].mutation_version

LEMMA RiseEnds ==
  ASSUME NEW V, NEW N \in Nat, NEW h \in Heaps(V, N), Agrees(N, h), NEW s \in 1..N,
         NEW W, NEW off, WayOf(h, s, W, off), NEW fc \in BOOLEAN, NEW k \in 0..2, NEW v,
         NEW c, NEW l \in Rising(V, N, h, s, W, fc, k, v, c, s)
  PROVE  /\ Ended(V, N, h, s, W, fc, {}, InStep(l.heap, s, fc))
         /\ Does(k, h[s], InStep(l.heap, s, fc)[s], c, v)
  <1>1. /\ l \in Climb(V, N, h, s, W, fc, k, v)
        /\ l.at <= s - s \/ ~Fits(k, h[l.at], l.index)
        /\ l.at < s /\ Does(k, h[s], l.heap[s], c, v)
    <2>1. s # 0
      OBVIOUS
    <2>. QED
      BY <2>1 DEF Rising
  <1>2. l.at = 0 \/ ~Fits(k, h[l.at], l.index)
    <2>1. l.at \in 0..s
      BY <1>1 DEF Climb
    <2>. QED
      BY <1>1, <2>1
  <1>. DEFINE B == IF fc THEN {} ELSE {s}
  <1>3. /\ l.heap \in Kept(V, N, h, W, {}, B, {})
        /\ l.heap[s].mutation_version > h[s].mutation_version
    BY <1>1, <1>2, ClimbEnds
  <1>4. W \subseteq 1..N /\ s \in W /\ (fc = FALSE => s \in B)
    BY OnWay
  <1>. HIDE DEF B
  <1>5. /\ InStep(l.heap, s, fc) \in Kept(V, N, h, W, {}, B, {})
        /\ SameShape(l.heap[s], InStep(l.heap, s, fc)[s])
        /\ InStep(l.heap, s, fc)[s].mutation_version > h[s].mutation_version
    BY <1>3, <1>4, InStepKeeps
  <1>6. Does(k, h[s], InStep(l.heap, s, fc)[s], c, v)
    BY <1>1, <1>5, DoesShape
  <1>. QED
    BY <1>5, <1>6 DEF Ended, B

LEMMA InsertKeeps ==
  ASSUME NEW V, NEW N \in Nat, NEW h \in Heaps(V, N), Agrees(N, h), NEW s \in 1..N,
         NEW W, NEW off, WayOf(h, s, W, off),
         NEW i \in Nat, NEW v \in V, NEW fc \in BOOLEAN
  PROVE  LET g == InsertInternal(h, s, i, v, fc) IN
         /\ Ended(V, N, h, s, W, fc, {}, g)
         /\ InsertedAt(h[s], g[s], IF i > h[s].count THEN h[s].count ELSE i, v)
  <1>. DEFINE c == IF i > h[s].count THEN h[s].count ELSE i
              Up(l, n) ==
                LET x == l.heap[l.at]
                    at == IF l.index > x.count THEN x.count ELSE l.index
                IN IF l.at = NoArray THEN l
                   ELSE Onward(l, Touched(Inserted(x, at, v), fc \/ n > 1), at)
              start == [heap |-> h, at |-> s, index |-> i]
              Sn(n) == {l \in Rising(V, N, h, s, W, fc, 0, v, c, n) : n = 0 => l = start}
              F == [n \in 1..s |-> [l \in Sn(n-1) |-> Up(l, n)]]
              S == [n \in 0..s |-> Sn(n)]
  <1>1. ASSUME NEW n \in 1..s, NEW l \in Sn(n - 1)
        PROVE  Up(l, n) \in Sn(n)
    <2>1. l \in Rising(V, N, h, s, W, fc, 0, v, c, n - 1) /\ n # 0
      OBVIOUS
    <2>2. /\ l.at \in Nat /\ l.index \in Nat
          /\ l.at # 0 => /\ l.at \in W /\ l.heap[l.at] = h[l.at]
                         /\ h[l.at] \in Arr(V) /\ h[l.at].count \in Nat
                         /\ n > 1 <=> l.at # s
          /\ l.at = 0 => l \in Rising(V, N, h, s, W, fc, 0, v, c, n)
      <3>1. RisingFrom(V, N, h, s, W, fc, 0, v, c, n, l)
        <4>. HIDE DEF c
        <4>. QED
          BY <2>1, RiseFacts
      <3>. QED
        BY <3>1 DEF RisingFrom
    <2>3. CASE l.at = NoArray
      BY <2>1, <2>2, <2>3 DEF NoArray
    <2>4. CASE l.at # NoArray
      <3>. DEFINE x == h[l.at]
                  d == IF l.index > x.count THEN x.count ELSE l.index
                  y == Inserted(x, d, v)
                  new == Touched(y, fc \/ n > 1)
      <3>1. x \in Arr(V) /\ x.count \in Nat /\ l.at # 0 /\ l.heap[l.at] = x
            /\ (n > 1 <=> l.at # s)
        BY <2>2, <2>4 DEF NoArray
      <3>2. d \in 0..x.count /\ (l.index <= x.count => d = l.index)
        BY <2>2, <3>1
      <3>3. Up(l, n) = Onward(l, new, d)
        BY <2>4, <3>1
      <3>4. l.at = s => d = c
        <4>1. CASE n = 1
          <5>1. n - 1 = 0
            BY <4>1
          <5>2. l = start
            BY <5>1
          <5>. QED
            BY <5>2
        <4>2. CASE n # 1
          BY <3>1, <4>2
        <4>. QED
          BY <4>1, <4>2
      <3>. HIDE DEF d, Up, Sn, c, start
      <3>5. /\ y \in Arr(V) /\ SameLink(x, y) /\ y.mutation_version = x.mutation_version
            /\ InsertedAt(x, y, d, v)
        <4>. HIDE DEF x
        <4>. QED
          BY <3>1, <3>2, InsertedIs DEF InsertedAt
      <3>6. y.view_invalid = x.view_invalid
        BY DEF Inserted, Arr
      <3>. HIDE DEF y, x
      <3>7. (fc \/ n > 1) \in BOOLEAN /\ (fc \/ n > 1) = (fc \/ l.at # s)
        BY <3>1
      <3>8. Own(x, new, fc \/ n > 1) /\ new \in Arr(V) /\ SameShape(y, new)
        <4>1. ASSUME NEW b \in BOOLEAN
              PROVE  /\ Own(x, Touched(y, b), b) /\ Touched(y, b) \in Arr(V)
                     /\ SameShape(y, Touched(y, b))
          BY <3>1, <3>5, <3>6, OwnTouched
        <4>. QED
          BY <3>7, <4>1, Zenon
      <3>. HIDE DEF new
      <3>9. Own(x, new, fc \/ l.at # s)
        BY <3>7, <3>8, Zenon
      <3>10. InsertedAt(x, new, d, v)
        BY <3>5, <3>8 DEF InsertedAt, SameShape
      <3>11. /\ d \in Nat /\ Fits(0, x, d) /\ Does(0, x, new, d, v)
             /\ Fits(0, x, l.index) => d = l.index
        BY <3>1, <3>2, <3>10 DEF Fits, Does
      <3>12. Onward(l, new, d) \in Rising(V, N, h, s, W, fc, 0, v, c, n)
        <4>1. 0 \in 0..2 /\ 0 # 1
          OBVIOUS
        <4>2. Own(h[l.at], new, fc \/ l.at # s)
          BY <3>9 DEF x
        <4>3. Fits(0, h[l.at], d) /\ Does(0, h[l.at], new, d, v)
              /\ (Fits(0, h[l.at], l.index) => d = l.index)
          BY <3>11 DEF x
        <4>. QED
          BY <2>1, <3>1, <3>4, <3>8, <3>11, <4>1, <4>2, <4>3, RiseOn
      <3>. QED
        BY <2>1, <3>3, <3>12 DEF Sn
    <2>. QED
      BY <2>3, <2>4
  <1>2. start \in Sn(0)
    <2>. HIDE DEF c
    <2>. QED
      BY RiseFirst
  <1>. HIDE DEF Up, Sn, start, c
  <1>3. /\ s \in Nat /\ \A k \in 0..s : S[k] = Sn(k)
        /\ \A k \in 1..s : k \in 0..s /\ k - 1 \in 0..s /\ k # 0 /\ S[k-1] = Sn(k-1)
        /\ \A k \in 1..s : \A g \in Sn(k-1) : F[k][g] = Up(g, k)
    <2>1. \A k \in 1..s : k \in 0..s /\ k - 1 \in 0..s /\ k # 0
      OBVIOUS
    <2>. QED
      BY <2>1
  <1>. HIDE DEF S, F
  <1>4. Takes(F, s, start, S)
    <2>1. 0 \in 0..s
      OBVIOUS
    <2>. QED
      BY <1>1, <1>2, <1>3, <2>1 DEF Takes
  <1>5. PICK f : IsRun(f, F, s, start, S)
    BY <1>4, Rounds
  <1>. DEFINE Run(g) == g = [k \in 0..s |-> IF k = 0 THEN start ELSE Up(g[k-1], k)]
  <1>6. Run(f)
    <2>1. \A k \in 1..s : f[k] = Up(f[k-1], k)
      BY <1>3, <1>5 DEF IsRun
    <2>2. \A k \in 0..s : k = 0 \/ k \in 1..s
      OBVIOUS
    <2>. QED
      BY <1>5, <2>1, <2>2 DEF IsRun
  <1>7. ASSUME NEW g, Run(g)
        PROVE  g[s] \in Sn(s)
    <2>1. g[0] = start /\ \A k \in 1..s : g[k] = Up(g[k-1], k)
      <3>1. 0 \in 0..s
        OBVIOUS
      <3>. QED
        BY <1>3, <1>7, <3>1
    <2>2. \A k \in 1..s : g[k-1] \in S[k-1] => g[k] = F[k][g[k-1]]
      BY <1>3, <2>1
    <2>3. g[s] \in S[s]
      <3>. HIDE DEF Run
      <3>. QED
        BY <1>4, <2>1, <2>2, RunEnds
    <2>4. s \in 0..s
      OBVIOUS
    <2>. QED
      BY <1>3, <2>3, <2>4
  <1>8. Repeated(s, start, Up) = (CHOOSE g : Run(g))[s]
    BY DEF Repeated
  <1>. HIDE DEF Run
  <1>9. PICK e \in Sn(s) : Repeated(s, start, Up) = e
    BY <1>6, <1>7, <1>8
  <1>10. InsertInternal(h, s, i, v, fc) = InStep(e.heap, s, fc)
    BY <1>9 DEF InsertInternal, start, Up
  <1>11. /\ Ended(V, N, h, s, W, fc, {}, InStep(e.heap, s, fc))
         /\ Does(0, h[s], InStep(e.heap, s, fc)[s], c, v)
    <2>1. e \in Rising(V, N, h, s, W, fc, 0, v, c, s)
      BY DEF Sn
    <2>. QED
      BY <2>1, RiseEnds
  <1>12. InsertedAt(h[s], InStep(e.heap, s, fc)[s], c, v)
    BY <1>11 DEF Does
  <1>. QED
    BY <1>10, <1>11, <1>12 DEF c

LEMMA RemoveKeeps ==
  ASSUME NEW V, NEW N \in Nat, NEW h \in Heaps(V, N), Agrees(N, h), NEW s \in 1..N,
         NEW W, NEW off, WayOf(h, s, W, off),
         NEW i \in 0..h[s].count-1, NEW fc \in BOOLEAN
  PROVE  LET g == RemoveInternal(h, s, i, fc) IN
         /\ Ended(V, N, h, s, W, fc, {}, g)
         /\ CutAt(h[s], g[s], i)
  <1>. DEFINE Up(l, n) ==
                LET x == l.heap[l.at] IN
                IF l.at = NoArray \/ l.index \notin 0..x.count-1 THEN l
                ELSE Onward(l, Touched(Removed(x, l.index), fc \/ n > 1), l.index)
              start == [heap |-> h, at |-> s, index |-> i]
              Sn(n) == {l \in Rising(V, N, h, s, W, fc, 1, Null, i, n) : n = 0 => l = start}
              F == [n \in 1..s |-> [l \in Sn(n-1) |-> Up(l, n)]]
              S == [n \in 0..s |-> Sn(n)]
  <1>0. /\ h[s] \in Arr(V) /\ h[s].count \in Nat /\ i \in Nat
        /\ i < h[s].count
    <2>1. h[s] \in Arr(V)
      BY DEF Heaps
    <2>. QED
      BY <2>1, Fields
  <1>1. ASSUME NEW n \in 1..s, NEW l \in Sn(n - 1)
        PROVE  Up(l, n) \in Sn(n)
    <2>1. l \in Rising(V, N, h, s, W, fc, 1, Null, i, n - 1) /\ n # 0
      OBVIOUS
    <2>2. /\ l.at \in Nat /\ l.index \in Nat
          /\ l.at # 0 => /\ l.at \in W /\ l.heap[l.at] = h[l.at]
                         /\ h[l.at] \in Arr(V) /\ h[l.at].count \in Nat
                         /\ n > 1 <=> l.at # s
          /\ l.at = 0 \/ (l.at # 0 /\ ~Fits(1, h[l.at], l.index) /\ n > 1)
                => l \in Rising(V, N, h, s, W, fc, 1, Null, i, n)
      <3>1. 1 \in 0..2
        OBVIOUS
      <3>2. RisingFrom(V, N, h, s, W, fc, 1, Null, i, n, l)
        <4>. HIDE DEF Sn, Up, start
        <4>. QED
          BY <2>1, <3>1, RiseFacts
      <3>. QED
        BY <3>2 DEF RisingFrom
    <2>3. CASE l.at = NoArray
      BY <2>1, <2>2, <2>3 DEF NoArray
    <2>4. CASE l.at # NoArray
      <3>. DEFINE x == h[l.at]
                  d == l.index
                  y == Removed(x, d)
                  new == Touched(y, fc \/ n > 1)
      <3>1. x \in Arr(V) /\ x.count \in Nat /\ l.at # 0 /\ l.heap[l.at] = x
            /\ (n > 1 <=> l.at # s) /\ d \in Nat
        BY <2>2, <2>4 DEF NoArray
      <3>2. Fits(1, x, d) <=> d \in 0..x.count-1
        BY <3>1 DEF Fits
      <3>3. l.at = s => d = i /\ Fits(1, x, d)
        <4>1. CASE n = 1
          <5>1. n - 1 = 0
            BY <4>1
          <5>2. l = start
            BY <5>1
          <5>. QED
            BY <1>0, <5>2 DEF Fits
        <4>2. CASE n # 1
          BY <3>1, <4>2
        <4>. QED
          BY <4>1, <4>2
      <3>4. CASE ~Fits(1, x, d)
        <4>1. Up(l, n) = l
          BY <2>4, <3>1, <3>2, <3>4
        <4>2. n > 1
          BY <3>1, <3>3, <3>4
        <4>. HIDE DEF Up
        <4>. QED
          BY <2>1, <2>2, <3>1, <3>4, <4>1, <4>2
      <3>5. CASE Fits(1, x, d)
        <4>1. Up(l, n) = Onward(l, new, d)
          BY <2>4, <3>1, <3>2, <3>5
        <4>. HIDE DEF d, Up, Sn, start
        <4>2. /\ y \in Arr(V) /\ SameLink(x, y) /\ y.mutation_version = x.mutation_version
              /\ CutAt(x, y, d)
          <5>. HIDE DEF x
          <5>. QED
            BY <3>1, <3>2, <3>5, RemovedIs DEF CutAt
        <4>3. y.view_invalid = x.view_invalid
          BY DEF Removed, Arr
        <4>. HIDE DEF y, x
        <4>4. (fc \/ n > 1) \in BOOLEAN /\ (fc \/ n > 1) = (fc \/ l.at # s)
          BY <3>1
        <4>5. Own(x, new, fc \/ n > 1) /\ new \in Arr(V) /\ SameShape(y, new)
          <5>1. ASSUME NEW b \in BOOLEAN
                PROVE  /\ Own(x, Touched(y, b), b) /\ Touched(y, b) \in Arr(V)
                       /\ SameShape(y, Touched(y, b))
            BY <3>1, <4>2, <4>3, OwnTouched
          <5>. QED
            BY <4>4, <5>1, Zenon
        <4>. HIDE DEF new
        <4>6. Own(x, new, fc \/ l.at # s)
          BY <4>4, <4>5, Zenon
        <4>7. CutAt(x, new, d)
          BY <4>2, <4>5 DEF CutAt, SameShape
        <4>8. Does(1, x, new, d, Null)
          BY <4>7 DEF Does
        <4>9. Onward(l, new, d) \in Rising(V, N, h, s, W, fc, 1, Null, i, n)
          <5>1. 1 \in 0..2
            OBVIOUS
          <5>2. /\ Own(h[l.at], new, fc \/ l.at # s) /\ Fits(1, h[l.at], d)
                /\ Does(1, h[l.at], new, d, Null) /\ Fits(1, h[l.at], l.index)
            BY <3>5, <4>6, <4>8 DEF x, d
          <5>3. d = l.index
            BY DEF d
          <5>. QED
            BY <2>1, <3>1, <3>3, <4>5, <5>1, <5>2, <5>3, RiseOn
        <4>. QED
          BY <2>1, <4>1, <4>9 DEF Sn
      <3>. QED
        BY <3>4, <3>5
    <2>. QED
      BY <2>3, <2>4
  <1>2. start \in Sn(0)
    BY <1>0, RiseFirst
  <1>. HIDE DEF Up, Sn, start
  <1>3. /\ s \in Nat /\ \A k \in 0..s : S[k] = Sn(k)
        /\ \A k \in 1..s : k \in 0..s /\ k - 1 \in 0..s /\ k # 0 /\ S[k-1] = Sn(k-1)
        /\ \A k \in 1..s : \A g \in Sn(k-1) : F[k][g] = Up(g, k)
    <2>1. \A k \in 1..s : k \in 0..s /\ k - 1 \in 0..s /\ k # 0
      OBVIOUS
    <2>. QED
      BY <2>1
  <1>. HIDE DEF S, F
  <1>4. Takes(F, s, start, S)
    <2>1. 0 \in 0..s
      OBVIOUS
    <2>. QED
      BY <1>1, <1>2, <1>3, <2>1 DEF Takes
  <1>5. PICK f : IsRun(f, F, s, start, S)
    BY <1>4, Rounds
  <1>. DEFINE Run(g) == g = [k \in 0..s |-> IF k = 0 THEN start ELSE Up(g[k-1], k)]
  <1>6. Run(f)
    <2>1. \A k \in 1..s : f[k] = Up(f[k-1], k)
      BY <1>3, <1>5 DEF IsRun
    <2>2. \A k \in 0..s : k = 0 \/ k \in 1..s
      OBVIOUS
    <2>. QED
      BY <1>5, <2>1, <2>2 DEF IsRun
  <1>7. ASSUME NEW g, Run(g)
        PROVE  g[s] \in Sn(s)
    <2>1. g[0] = start /\ \A k \in 1..s : g[k] = Up(g[k-1], k)
      <3>1. 0 \in 0..s
        OBVIOUS
      <3>. QED
        BY <1>3, <1>7, <3>1
    <2>2. \A k \in 1..s : g[k-1] \in S[k-1] => g[k] = F[k][g[k-1]]
      BY <1>3, <2>1
    <2>3. g[s] \in S[s]
      <3>. HIDE DEF Run
      <3>. QED
        BY <1>4, <2>1, <2>2, RunEnds
    <2>4. s \in 0..s
      OBVIOUS
    <2>. QED
      BY <1>3, <2>3, <2>4
  <1>8. Repeated(s, start, Up) = (CHOOSE g : Run(g))[s]
    BY DEF Repeated
  <1>. HIDE DEF Run
  <1>9. PICK e \in Sn(s) : Repeated(s, start, Up) = e
    BY <1>6, <1>7, <1>8
  <1>10. RemoveInternal(h, s, i, fc) = InStep(e.heap, s, fc)
    BY <1>0, <1>9 DEF RemoveInternal, start, Up
  <1>11. /\ Ended(V, N, h, s, W, fc, {}, InStep(e.heap, s, fc))
         /\ Does(1, h[s], InStep(e.heap, s, fc)[s], i, Null)
    <2>1. e \in Rising(V, N, h, s, W, fc, 1, Null, i, s)
      BY DEF Sn
    <2>. QED
      BY <1>0, <2>1, RiseEnds
  <1>12. CutAt(h[s], InStep(e.heap, s, fc)[s], i)
    BY <1>11 DEF Does
  <1>. QED
    BY <1>10, <1>11, <1>12

LEMMA KeptLess ==
  ASSUME NEW V, NEW N, NEW h, NEW W, NEW A, NEW B, NEW E, NEW E2,
         NEW g \in Kept(V, N, h, W, A, B, E),
         \A x \in W : x \in E \ E2 /\ Slice(h, x) => Slice(g, x)
  PROVE  g \in Kept(V, N, h, W, A, B, E2)
  <1>1. /\ g \in Heaps(V, N) /\ Agrees(N, g)
        /\ \A x \in 1..N : x \notin W => g[x] = h[x]
        /\ \A x \in W : SameView(h[x], g[x])
        /\ \A x \in W : x \notin A => g[x] = h[x] \/ g[x].mutation_version > h[x].mutation_version
        /\ \A x \in W : x \notin B /\ h[x].view_source # 0 =>
             /\ g[x].view_source_version = h[x].view_source_version
             /\ g[x] = h[x] \/ g[x].view_invalid = TRUE
        /\ \A x \in W : x \notin E /\ Slice(h, x) => Slice(g, x)
    BY DEF Kept
  <1>2. \A x \in W : x \notin E2 /\ Slice(h, x) => Slice(g, x)
    BY <1>1
  <1>. QED
    BY <1>1, <1>2 DEF Kept

LEMMA KeptWider ==
  ASSUME NEW V, NEW N \in Nat, NEW h \in Heaps(V, N), NEW X, NEW W, X \subseteq W,
         W \subseteq 1..N, NEW A, NEW B, NEW E, NEW E2, E \subseteq E2,
         NEW g \in Kept(V, N, h, X, A, B, E),
         \A x \in W \ X : h[x].view_source \in X => x \in E2
  PROVE  g \in Kept(V, N, h, W, A, B, E2)
  <1>1. /\ g \in Heaps(V, N) /\ Agrees(N, g)
        /\ \A x \in 1..N : x \notin X => g[x] = h[x]
        /\ \A x \in X : SameView(h[x], g[x])
        /\ \A x \in X : x \notin A => g[x] = h[x] \/ g[x].mutation_version > h[x].mutation_version
        /\ \A x \in X : x \notin B /\ h[x].view_source # 0 =>
             /\ g[x].view_source_version = h[x].view_source_version
             /\ g[x] = h[x] \/ g[x].view_invalid = TRUE
        /\ \A x \in X : x \notin E /\ Slice(h, x) => Slice(g, x)
    BY DEF Kept
  <1>2. \A x \in W : /\ x \in 1..N /\ h[x].view_source \in Nat /\ h[x].view_source < x
                     /\ h[x].mutation_version \in Nat
    BY Fields DEF Heaps
  <1>3. \A x \in W \ X : g[x] = h[x] /\ SameView(h[x], g[x])
    BY <1>1, <1>2 DEF SameView
  <1>4. ASSUME NEW x \in W, x \notin E2, Slice(h, x)
        PROVE  Slice(g, x)
    <2>1. CASE x \in X
      BY <1>1, <1>4, <2>1
    <2>2. CASE x \notin X
      <3>. DEFINE w == h[x].view_source
      <3>1. g[x] = h[x] /\ w \notin X
        BY <1>3, <1>4, <2>2
      <3>2. w # 0 => g[w] = h[w]
        <4>1. w # 0 => w \in 1..N
          BY <1>2
        <4>. QED
          BY <1>1, <3>1, <4>1
      <3>. QED
        BY <1>4, <3>1, <3>2 DEF Slice
    <2>. QED
      BY <2>1, <2>2
  <1>5. \A x \in 1..N : x \notin W => g[x] = h[x]
    BY <1>1
  <1>6. \A x \in W : SameView(h[x], g[x])
    BY <1>1, <1>3
  <1>7. \A x \in W : x \notin A => g[x] = h[x] \/ g[x].mutation_version > h[x].mutation_version
    BY <1>1, <1>3
  <1>8. \A x \in W : x \notin B /\ h[x].view_source # 0 =>
          /\ g[x].view_source_version = h[x].view_source_version
          /\ g[x] = h[x] \/ g[x].view_invalid = TRUE
    BY <1>1, <1>3
  <1>. QED
    BY <1>1, <1>4, <1>5, <1>6, <1>7, <1>8 DEF Kept

(* The part of a way from the source of one of its arrays on.              *)
Below(h, W, t, X, o) ==
  /\ WayOf(h, h[t].view_source, X, o) /\ X \subseteq W
  /\ X \subseteq 1..h[t].view_source
  /\ \A x \in W : x < t => x \in X
LEMMA BelowIs ==
  ASSUME NEW V, NEW N \in Nat, NEW h \in Heaps(V, N), NEW s \in 1..N,
         NEW W, NEW off, WayOf(h, s, W, off), NEW t \in W, h[t].view_source # 0
  PROVE  \E X, o : Below(h, W, t, X, o)
  <1>. DEFINE w == h[t].view_source
              X == Way(h, w)
  <1>1. /\ s \in W /\ W \subseteq 1..N /\ w \in W /\ w \in 1..N /\ w < t
        /\ \A x \in W : x \in Nat /\ h[x].view_source \in Nat
        /\ \A x \in W : h[x].view_source # 0 => h[x].view_source \in W
        /\ \A x, z \in W : z < x => z <= h[x].view_source
    BY OnWay
  <1>2. PICK o : WayOf(h, w, X, o)
    BY <1>1, WayIs
  <1>. HIDE DEF X
  <1>3. w \in X /\ X \subseteq 1..w
        /\ \A x \in X : h[x].view_source # 0 => h[x].view_source \in X
    <2>1. w \in 1..N
      BY <1>1
    <2>. QED
      BY <1>2, <2>1, OnWay
  <1>4. X \subseteq W
    BY <1>1, <1>2, UpTheWay
  <1>5. W \subseteq {x \in W : x >= t} \cup X
    <2>. DEFINE S == {x \in W : x >= t} \cup X
    <2>1. s \in S
      <3>1. \A x \in W : x <= s
        BY OnWay
      <3>. QED
        BY <1>1, <3>1
    <2>2. ASSUME NEW y \in W, y \in S, h[y].view_source # 0
          PROVE  h[y].view_source \in S
      <3>1. CASE y \in X
        BY <1>3, <2>2, <3>1
      <3>2. CASE y = t
        BY <1>3, <3>2
      <3>3. CASE y \notin X /\ y # t
        <4>1. y > t
          BY <1>1, <2>2, <3>3
        <4>2. t <= h[y].view_source /\ h[y].view_source \in W
          BY <1>1, <2>2, <4>1
        <4>. QED
          BY <1>1, <4>2
      <3>. QED
        BY <3>1, <3>2, <3>3
    <2>3. W \subseteq S
      <3>. HIDE DEF S
      <3>1. \A y \in W : y \in S /\ h[y].view_source # 0 => h[y].view_source \in S
        BY <2>2
      <3>. QED
        BY <2>1, <3>1, UpTheWay
    <2>. QED
      BY <2>3
  <1>6. \A x \in W : x < t => x \in X
    BY <1>1, <1>5
  <1>. QED
    BY <1>2, <1>3, <1>4, <1>6 DEF Below

Disturbed(h, W, t) == {t} \cup {x \in W : h[x].view_source = t}

(* One array of the way touched.                                           *)
OwnStep(V, N, h, W, t, new, b, e) ==
  /\ N \in Nat /\ h \in Heaps(V, N) /\ Agrees(N, h) /\ W \subseteq 1..N /\ t \in W
  /\ new \in Arr(V) /\ b \in BOOLEAN /\ Own(h[t], new, b) /\ e = [h EXCEPT ![t] = new]

LEMMA OwnKeeps ==
  ASSUME NEW V, NEW N, NEW h, NEW W, NEW t, NEW new, NEW b, NEW e,
         OwnStep(V, N, h, W, t, new, b, e)
  PROVE  /\ e \in Kept(V, N, h, W, {}, IF b THEN {} ELSE {t}, Disturbed(h, W, t))
         /\ new.mutation_version > h[t].mutation_version
  <1>. N \in Nat /\ h \in Heaps(V, N) /\ Agrees(N, h) /\ W \subseteq 1..N /\ t \in W
       /\ new \in Arr(V) /\ b \in BOOLEAN /\ Own(h[t], new, b) /\ e = [h EXCEPT ![t] = new]
    BY DEF OwnStep
  <1>1. t \in 1..N /\ h[t] \in Arr(V)
    BY DEF Heaps
  <1>2. e \in [1..N -> Arr(V)] /\ e[t] = new /\ \A x \in 1..N : x # t => e[x] = h[x]
    BY <1>1 DEF Heaps
  <1>3. /\ new.view_source = h[t].view_source /\ new.view_offset = h[t].view_offset
        /\ new.view_source_version = h[t].view_source_version
        /\ new.mutation_version = h[t].mutation_version + 1
        /\ h[t].view_invalid = TRUE \/ (b = TRUE /\ h[t].view_source # 0)
             => new.view_invalid = TRUE
    BY DEF Own, SameLink
  <1>4. ASSUME NEW x \in 1..N
        PROVE  /\ h[x].mutation_version \in Nat /\ h[x].view_source \in Nat
               /\ h[x].view_source < x /\ h[x].view_source_version \in Nat
               /\ e[x].view_source = h[x].view_source
               /\ e[x].view_source_version = h[x].view_source_version
               /\ e[x].mutation_version >= h[x].mutation_version
               /\ e[x].mutation_version \in Nat
    <2>1. h[x] \in Arr(V) /\ h[x].view_source < x
      BY DEF Heaps
    <2>2. h[x].mutation_version \in Nat /\ h[x].view_source \in Nat
          /\ h[x].view_source_version \in Nat
      BY <2>1, Fields
    <2>. QED
      BY <1>2, <1>3, <2>1, <2>2
  <1>5. e \in Heaps(V, N)
    <2>1. \A x \in 1..N : e[x].view_source < x
      BY <1>4
    <2>. QED
      BY <1>2, <2>1 DEF Heaps
  <1>6. Agrees(N, e)
    <2>1. ASSUME NEW x \in 1..N, e[x].view_source # NoArray
          PROVE  e[x].view_source_version <= e[e[x].view_source].mutation_version
      <3>1. PICK y : y = h[x].view_source
        OBVIOUS
      <3>2. y \in 1..N /\ e[x].view_source = y /\ h[x].view_source # NoArray
        BY <1>4, <2>1, <3>1 DEF NoArray
      <3>3. h[x].view_source_version <= h[y].mutation_version
        BY <3>1, <3>2 DEF Agrees
      <3>. QED
        BY <1>4, <3>2, <3>3
    <2>. QED
      BY <2>1 DEF Agrees
  <1>7. ASSUME NEW x \in W
        PROVE  SameView(h[x], e[x]) /\ (e[x] = h[x] \/ e[x].mutation_version > h[x].mutation_version)
    <2>1. CASE x = t
      BY <1>2, <1>3, <1>4, <1>1, <2>1 DEF SameView
    <2>2. CASE x # t
      <3>1. e[x] = h[x] /\ x \in 1..N
        BY <1>2, <2>2
      <3>. QED
        BY <1>4, <3>1 DEF SameView
    <2>. QED
      BY <2>1, <2>2
  <1>8. ASSUME NEW x \in W, x \notin (IF b THEN {} ELSE {t}), h[x].view_source # 0
        PROVE  /\ e[x].view_source_version = h[x].view_source_version
               /\ e[x] = h[x] \/ e[x].view_invalid = TRUE
    <2>1. x # t \/ b = TRUE
      BY <1>8
    <2>. QED
      BY <1>2, <1>3, <1>4, <1>8, <2>1
  <1>9. ASSUME NEW x \in W, x # t, h[x].view_source # t, Slice(h, x)
        PROVE  Slice(e, x)
    <2>. DEFINE y == h[x].view_source
    <2>1. e[x] = h[x] /\ (y # 0 => e[y] = h[y])
      <3>1. y # 0 => y \in 1..N
        BY <1>4
      <3>. QED
        BY <1>2, <1>9, <3>1
    <2>. QED
      BY <1>9, <2>1 DEF Slice
  <1>10. \A x \in 1..N : x \notin W => e[x] = h[x]
    BY <1>2
  <1>11. e \in Kept(V, N, h, W, {}, IF b THEN {} ELSE {t}, Disturbed(h, W, t))
    <2>1. \A x \in W : x \notin Disturbed(h, W, t) /\ Slice(h, x) => Slice(e, x)
      BY <1>9 DEF Disturbed
    <2>. QED
      BY <1>5, <1>6, <1>7, <1>8, <1>10, <2>1 DEF Kept
  <1>12. new.mutation_version > h[t].mutation_version
    BY <1>1, <1>3, <1>4
  <1>. QED
    BY <1>11, <1>12

(* g[w] has at least the first m elements of the window y that begins in   *)
(* it.                                                                     *)
Begins(y, z, m) ==
  /\ y.view_offset + m <= z.count
  /\ \A j \in 1..m : y.elements[j] = z.elements[y.view_offset + j]

LEMMA BeginsOn ==
  ASSUME NEW V, NEW y \in Arr(V), NEW z \in Arr(V), NEW z2 \in Arr(V), NEW m \in Nat,
         Begins(y, z, m), NEW v, InsertedAt(z, z2, y.view_offset + m, v),
         y.elements[m+1] = v
  PROVE  Begins(y, z2, m + 1)
  <1>1. PICK d, p : d = y.view_offset /\ p = d + m
    OBVIOUS
  <1>2. d \in Nat /\ z.count \in Nat /\ p \in Nat
    BY <1>1, Fields
  <1>3. /\ p <= z.count /\ \A j \in 1..m : y.elements[j] = z.elements[d + j]
        /\ z2.count = z.count + 1
        /\ \A j \in 1..z.count + 1 :
             z2.elements[j] = IF j <= p THEN z.elements[j]
                              ELSE IF j = p + 1 THEN v ELSE z.elements[j-1]
    BY <1>1 DEF Begins, InsertedAt
  <1>4. ASSUME NEW j \in 1..m + 1
        PROVE  y.elements[j] = z2.elements[d + j]
    <2>1. d + j \in 1..z.count + 1
      BY <1>1, <1>2, <1>3
    <2>2. CASE j <= m
      <3>1. d + j <= p /\ j \in 1..m
        BY <1>1, <1>2, <2>2
      <3>. QED
        BY <1>3, <2>1, <3>1
    <2>3. CASE j = m + 1
      <3>1. ~(d + j <= p) /\ d + j = p + 1
        BY <1>1, <1>2, <2>3
      <3>. QED
        BY <1>3, <2>1, <2>3, <3>1
    <2>. QED
      BY <2>2, <2>3
  <1>5. d + (m + 1) <= z2.count
    BY <1>1, <1>2, <1>3
  <1>. QED
    BY <1>1, <1>4, <1>5 DEF Begins

(* An array past the end of which was assigned, before its source is       *)
(* edited.                                                                 *)
Past(V, N, h, e, t, i, v) ==
  /\ e \in Heaps(V, N) /\ Agrees(N, e) /\ \A x \in 1..N : x < t => e[x] = h[x]
  /\ i \in Nat /\ v \in V /\ h[t].count <= i
  /\ e[t].view_offset = h[t].view_offset /\ e[t].count = i + 1
  /\ \A j \in 1..h[t].count : e[t].elements[j] = h[t].elements[j]
  /\ e[t].elements[i+1] = v

Filled(h, e, t, i) ==
  Slice(h, t) /\ \A j \in h[t].count+1..i : e[t].elements[j] = Null

Extended(V, N, h, W, e, t, i, f) ==
  \E X : /\ X \subseteq W /\ X \subseteq 1..h[t].view_source
         /\ \A x \in W : x < t => x \in X
         /\ f \in Kept(V, N, e, X, {}, {}, {})
         /\ Filled(h, e, t, i) => SliceOf(e[t], f[h[t].view_source])

LEMMA ExtendKeeps ==
  ASSUME NEW V, Null \in V, NEW N \in Nat, NEW h \in Heaps(V, N), NEW s \in 1..N,
         NEW W, NEW off, WayOf(h, s, W, off), NEW t \in W, h[t].view_source # 0,
         NEW e, NEW i, NEW v, Past(V, N, h, e, t, i, v)
  PROVE  Extended(V, N, h, W, e, t, i, Extend(e, h[t], i, v))
  <1>. DEFINE w == h[t].view_source
              d == h[t].view_offset
              c == h[t].count
              y == e[t]
              P == Filled(h, e, t, i)
              n == i + 1 - c
              val(j) == IF c + j = i + 1 THEN v ELSE Null
              Round(g, j) == InsertInternal(g, w, d + c + j - 1, val(j), TRUE)
  <1>1. PICK X, o : Below(h, W, t, X, o)
    BY BelowIs
  <1>2. /\ e \in Heaps(V, N) /\ Agrees(N, e) /\ \A x \in 1..N : x < t => e[x] = h[x]
        /\ i \in Nat /\ v \in V /\ c <= i /\ y.view_offset = d /\ y.count = i + 1
        /\ \A j \in 1..c : y.elements[j] = h[t].elements[j]
        /\ y.elements[i+1] = v
    BY DEF Past
  <1>3. /\ t \in 1..N /\ h[t] \in Arr(V) /\ w \in Nat /\ w < t /\ d \in Nat /\ c \in Nat
        /\ W \subseteq 1..N
    <2>1. t \in 1..N /\ h[t] \in Arr(V) /\ h[t].view_source < t /\ W \subseteq 1..N
      BY OnWay
    <2>. QED
      BY <2>1, Fields
  <1>4. /\ WayOf(h, w, X, o) /\ X \subseteq W /\ X \subseteq 1..w
        /\ \A x \in W : x < t => x \in X
    BY <1>1 DEF Below
  <1>5. w \in 1..N /\ w # 0 /\ y \in Arr(V) /\ e[w] = h[w] /\ X \subseteq 1..N
        /\ \A x \in X : x < t
    BY <1>2, <1>3, <1>4 DEF Heaps
  <1>6. n \in Nat /\ \A j \in 1..n : d + c + j - 1 \in Nat /\ val(j) \in V
                                     /\ d + (c + (j - 1)) = d + c + j - 1
                                     /\ c + (j - 1) + 1 = c + j
    BY <1>2, <1>3
  <1>7. ASSUME P
        PROVE  \A j \in 1..n : y.elements[c + j] = val(j)
    <2>1. \A j \in c+1..i : y.elements[j] = Null
      BY <1>7 DEF Filled
    <2>2. ASSUME NEW j \in 1..n
          PROVE  y.elements[c + j] = val(j)
      <3>1. CASE c + j = i + 1
        BY <1>2, <3>1
      <3>2. CASE c + j # i + 1
        <4>1. c + j \in c+1..i
          BY <1>2, <1>3, <3>2
        <4>. QED
          BY <2>1, <3>2, <4>1
      <3>. QED
        BY <3>1, <3>2
    <2>. QED
      BY <2>2
  <1>. DEFINE K == Kept(V, N, e, X, {}, {}, {})
              Sn(j) == {g \in K : P => Begins(y, g[w], c + j)}
              F == [j \in 1..n |-> [g \in Sn(j-1) |-> Round(g, j)]]
              S == [j \in 0..n |-> Sn(j)]
  <1>8. e \in Sn(0)
    <2>1. e \in K
      BY <1>2, <1>5, KeptSelf
    <2>2. P => Begins(y, e[w], c + 0)
      <3>1. SUFFICES ASSUME P PROVE Begins(y, e[w], c)
        BY <1>3
      <3>2. Slice(h, t)
        BY <3>1 DEF Filled
      <3>3. d + c <= h[w].count /\ \A j \in 1..c : h[t].elements[j] = h[w].elements[d + j]
        BY <1>5, <3>2 DEF Slice
      <3>. QED
        BY <1>2, <1>5, <3>3 DEF Begins
    <2>. QED
      BY <2>1, <2>2
  <1>9. ASSUME NEW j \in 1..n, NEW g \in Sn(j - 1)
        PROVE  Round(g, j) \in Sn(j)
    <2>1. g \in K /\ g \in Heaps(V, N) /\ Agrees(N, g)
      BY DEF Kept
    <2>2. \A x \in X : g[x].view_source = h[x].view_source /\ g[x].view_offset = h[x].view_offset
      <3>1. \A x \in X : SameView(e[x], g[x])
        BY <2>1 DEF Kept
      <3>2. \A x \in X : e[x] = h[x]
        BY <1>2, <1>5
      <3>. QED
        BY <3>1, <3>2 DEF SameView
    <2>3. WayOf(g, w, X, o)
      BY <1>4, <2>2, WayKept
    <2>. DEFINE p == d + c + j - 1
                f == InsertInternal(g, w, p, val(j), TRUE)
    <2>4. p \in Nat /\ val(j) \in V
      BY <1>6
    <2>. HIDE DEF w, val, p, n, P, y, d, c
    <2>5. /\ Ended(V, N, g, w, X, TRUE, {}, f)
          /\ InsertedAt(g[w], f[w], IF p > g[w].count THEN g[w].count ELSE p, val(j))
      BY <1>5, <2>1, <2>3, <2>4, InsertKeeps
    <2>6. f \in Kept(V, N, g, X, {}, {}, {})
      BY <2>5 DEF Ended
    <2>7. f \in K
      <3>. HIDE DEF f
      <3>. QED
        BY <1>2, <1>5, <2>1, <2>6, KeptTwice
    <2>8. P => Begins(y, f[w], c + j)
      <3>1. SUFFICES ASSUME P PROVE Begins(y, f[w], c + j)
        OBVIOUS
      <3>2. Begins(y, g[w], c + (j - 1))
        BY <3>1
      <3>3. /\ c + (j - 1) \in Nat /\ p = y.view_offset + (c + (j - 1))
            /\ c + (j - 1) + 1 = c + j
        BY <1>2, <1>3, <1>6 DEF p
      <3>4. g[w] \in Arr(V) /\ f[w] \in Arr(V)
        BY <1>5, <2>1, <2>7 DEF Kept, Heaps
      <3>5. ~(p > g[w].count)
        <4>1. g[w].count \in Nat
          BY <3>4, Fields
        <4>. QED
          BY <2>4, <3>2, <3>3, <4>1 DEF Begins
      <3>6. InsertedAt(g[w], f[w], y.view_offset + (c + (j - 1)), val(j))
        BY <2>5, <3>3, <3>5
      <3>7. y.elements[c + (j - 1) + 1] = val(j)
        BY <1>7, <3>1, <3>3
      <3>. HIDE DEF f, p
      <3>8. Begins(y, f[w], c + (j - 1) + 1)
        BY <1>5, <3>2, <3>3, <3>4, <3>6, <3>7, BeginsOn
      <3>. QED
        BY <3>3, <3>8
    <2>9. Round(g, j) = f
      BY DEF p
    <2>. QED
      BY <2>7, <2>8, <2>9
  <1>. HIDE DEF Round, Sn, n
  <1>10. /\ \A k \in 0..n : S[k] = Sn(k)
         /\ \A k \in 1..n : k \in 0..n /\ k - 1 \in 0..n /\ k # 0 /\ S[k-1] = Sn(k-1)
         /\ \A k \in 1..n : \A g \in Sn(k-1) : F[k][g] = Round(g, k)
    <2>1. \A k \in 1..n : k \in 0..n /\ k - 1 \in 0..n /\ k # 0
      BY <1>6
    <2>. QED
      BY <2>1
  <1>. HIDE DEF S, F
  <1>11. Takes(F, n, e, S)
    <2>1. 0 \in 0..n
      BY <1>6
    <2>. QED
      BY <1>6, <1>8, <1>9, <1>10, <2>1 DEF Takes
  <1>12. PICK f : IsRun(f, F, n, e, S)
    BY <1>11, Rounds
  <1>. DEFINE Run(g) == g = [k \in 0..n |-> IF k = 0 THEN e ELSE Round(g[k-1], k)]
  <1>13. Run(f)
    <2>1. \A k \in 1..n : f[k] = Round(f[k-1], k)
      BY <1>10, <1>12 DEF IsRun
    <2>2. \A k \in 0..n : k = 0 \/ k \in 1..n
      BY <1>6
    <2>. QED
      BY <1>12, <2>1, <2>2 DEF IsRun
  <1>14. ASSUME NEW g, Run(g)
         PROVE  g[n] \in Sn(n)
    <2>1. g[0] = e /\ \A k \in 1..n : g[k] = Round(g[k-1], k)
      <3>1. 0 \in 0..n
        BY <1>6
      <3>. QED
        BY <1>10, <1>14, <3>1
    <2>2. \A k \in 1..n : g[k-1] \in S[k-1] => g[k] = F[k][g[k-1]]
      BY <1>10, <2>1
    <2>3. g[n] \in S[n]
      <3>. HIDE DEF Run
      <3>. QED
        BY <1>11, <2>1, <2>2, RunEnds
    <2>4. n \in 0..n
      BY <1>6
    <2>. QED
      BY <1>10, <2>3, <2>4
  <1>15. Repeated(n, e, Round) = (CHOOSE g : Run(g))[n]
    BY DEF Repeated
  <1>. HIDE DEF Run
  <1>16. PICK z \in Sn(n) : Repeated(n, e, Round) = z
    BY <1>13, <1>14, <1>15
  <1>17. Extend(e, h[t], i, v) = z
    BY <1>5, <1>16 DEF Extend, Round, n, NoArray
  <1>18. z \in K /\ (P => SliceOf(y, z[w]))
    <2>1. c + n = i + 1
      BY <1>2, <1>3 DEF n
    <2>2. z \in K /\ (P => Begins(y, z[w], i + 1))
      BY <2>1 DEF Sn
    <2>. QED
      BY <1>2, <2>2 DEF Begins, SliceOf
  <1>. QED
    BY <1>4, <1>17, <1>18 DEF Extended

(* An assignment at i in t shows elements that were removed.               *)
Dirty(h, t, i) ==
  /\ h[t].view_source # 0
  /\ \E j \in h[t].count+1..i : j \in DOMAIN h[t].elements /\ h[t].elements[j] # Null

LandsAs(V, N, h, s, W, fc, l, e, f) ==
  /\ f \in Kept(V, N, h, W, {}, IF fc THEN {} ELSE {s},
                IF Dirty(h, l.at, l.index) THEN {l.at} ELSE {})
  /\ f[s].mutation_version > h[s].mutation_version
  /\ f[s] = e[s]

LEMMA LandKeeps ==
  ASSUME NEW V, Null \in V, NEW N \in Nat, NEW h \in Heaps(V, N), Agrees(N, h),
         NEW s \in 1..N, NEW W, NEW off, WayOf(h, s, W, off), NEW fc \in BOOLEAN,
         NEW v \in V, NEW l \in Climb(V, N, h, s, W, fc, 2, v), l.at # 0,
         h[l.at].count <= l.index, NEW e,
         e = [l.heap EXCEPT ![l.at] =
                Touched(Assigned(h[l.at], l.index, v), fc \/ l.at # s)]
  PROVE  LandsAs(V, N, h, s, W, fc, l, e, Extend(e, h[l.at], l.index, v))
  <1>. DEFINE B == IF fc THEN {} ELSE {s}
  <1>1. PICK t, g, i, b : t = l.at /\ g = l.heap /\ i = l.index /\ b = (fc \/ t # s)
    OBVIOUS
  <1>. DEFINE y == Assigned(h[t], i, v)
              new == Touched(y, b)
              Z == IF Dirty(h, t, i) THEN {t} ELSE {}
              f == Extend(e, h[t], i, v)
  <1>2. /\ g \in Heaps(V, N) /\ t \in 1..s /\ t \in W /\ i \in Nat /\ b \in BOOLEAN
        /\ \A x \in 1..N : x \notin W \/ x <= t => g[x] = h[x]
        /\ \A x \in W : x > t /\ h[x].view_source = t /\ Slice(h, x)
                          => Awaits(2, g[x], h[t], i, v)
        /\ h[t].count <= i /\ e = [g EXCEPT ![t] = new] /\ t # 0
    BY <1>1 DEF Climb
  <1>3. /\ s \in W /\ W \subseteq 1..N
        /\ \A x \in W : x \in Nat /\ h[x] \in Arr(V) /\ h[x].view_source < x
    BY OnWay
  <1>4. t \in 1..N /\ h[t] \in Arr(V) /\ h[t].count \in Nat /\ g[t] = h[t]
    <2>1. t \in 1..N /\ h[t] \in Arr(V) /\ t <= t
      BY <1>2, <1>3
    <2>. QED
      BY <1>2, <2>1, Fields
  <1>5. IsAssigned(V, h[t], y, i, v)
    BY <1>2, <1>4, AssignedIs
  <1>6. y.view_invalid = h[t].view_invalid
    BY DEF Assigned, Arr
  <1>. HIDE DEF y
  <1>7. Own(h[t], new, b) /\ new \in Arr(V) /\ SameShape(y, new)
    BY <1>2, <1>4, <1>5, <1>6, OwnTouched DEF IsAssigned
  <1>. HIDE DEF new, B
  <1>8. /\ g \in Kept(V, N, h, W, {}, B, {})
        /\ t # s => g[s].mutation_version > h[s].mutation_version
    <2>1. CASE t # s
      <3>1. l.at < s /\ ~Fits(2, h[l.at], l.index)
        BY <1>1, <1>2, <1>4, <2>1 DEF Fits
      <3>2. 2 \in 0..2
        OBVIOUS
      <3>. QED
        BY <1>1, <3>1, <3>2, ClimbEnds DEF B
    <2>2. CASE t = s
      <3>1. g = h
        <4>1. \A x \in 1..N : x \notin W \/ x <= t
          BY <2>2, OnWay
        <4>. QED
          BY <1>2, <4>1 DEF Heaps
      <3>2. h \in Kept(V, N, h, W, {}, {}, {})
        BY <1>3, KeptSelf
      <3>3. h \in Kept(V, N, h, W, {}, B, {})
        <4>1. {} \subseteq B /\ {} \subseteq {}
          OBVIOUS
        <4>. QED
          BY <3>2, <4>1, KeptMore
      <3>. QED
        BY <2>2, <3>1, <3>3
    <2>. QED
      BY <2>1, <2>2
  <1>. DEFINE E == Disturbed(g, W, t)
              B2 == IF b THEN {} ELSE {t}
  <1>9. e \in Kept(V, N, g, W, {}, B2, E)
        /\ new.mutation_version > h[t].mutation_version
    <2>1. OwnStep(V, N, g, W, t, new, b, e)
      <3>1. Agrees(N, g) /\ Own(g[t], new, b)
        BY <1>4, <1>7, <1>8 DEF Kept
      <3>. QED
        BY <1>2, <1>3, <1>7, <3>1 DEF OwnStep
    <2>2. e \in Kept(V, N, g, W, {}, B2, E)
          /\ new.mutation_version > g[t].mutation_version
      BY <2>1, OwnKeeps
    <2>. HIDE DEF B2, E
    <2>. QED
      BY <1>2, <1>4, <2>2
  <1>10. e \in Kept(V, N, h, W, {}, B, E)
    <2>1. B2 \subseteq B
      BY <1>1 DEF B
    <2>2. {} \subseteq E /\ E \subseteq E /\ {} \subseteq {} /\ B \subseteq B
      OBVIOUS
    <2>3. e \in Kept(V, N, g, W, {}, B2, E)
      BY <1>9
    <2>. HIDE DEF B2, E
    <2>4. e \in Kept(V, N, g, W, {}, B, E) /\ g \in Kept(V, N, h, W, {}, B, E)
      BY <1>8, <2>1, <2>2, <2>3, KeptMore
    <2>5. e \in Kept(V, N, h, W, {}, B, E)
      BY <1>3, <2>4, KeptTwice
    <2>. QED
      BY <2>5
  <1>11. e \in Kept(V, N, h, W, {}, B, {t})
    <2>1. ASSUME NEW x \in W, x \in E \ {t}, Slice(h, x)
          PROVE  Slice(e, x)
      <3>1. h[x].view_source = t
        <4>1. SameView(h[x], g[x])
          BY <1>8 DEF Kept
        <4>. QED
          BY <2>1, <4>1 DEF SameView, Disturbed
      <3>2. x > t
        BY <1>2, <1>3, <3>1
      <3>3. Fits(2, h[t], i)
        BY <1>2, <2>1, <3>1, <3>2 DEF Awaits
      <3>. QED
        BY <1>2, <1>4, <3>3 DEF Fits
    <2>. HIDE DEF E
    <2>. QED
      BY <1>10, <2>1, KeptLess
  <1>12. /\ e \in Heaps(V, N) /\ Agrees(N, e) /\ e[t] = new
         /\ \A x \in 1..N : x # t => e[x] = g[x]
    BY <1>2, <1>4, <1>10 DEF Kept, Heaps
  <1>13. /\ new.view_offset = h[t].view_offset /\ new.view_source = h[t].view_source
         /\ new.count = i + 1 /\ new.elements[i+1] = v
         /\ \A j \in 1..h[t].count : new.elements[j] = h[t].elements[j]
         /\ (\A j \in h[t].count+1..i : j \in DOMAIN h[t].elements => h[t].elements[j] = Null)
              => \A j \in h[t].count+1..i : new.elements[j] = Null
    <2>1. \A j \in 1..h[t].count : j # i + 1
      BY <1>2, <1>4
    <2>. QED
      BY <1>2, <1>4, <1>5, <1>7, <2>1 DEF IsAssigned, Own, SameLink, SameShape
  <1>14. e[s].mutation_version > h[s].mutation_version
    <2>1. CASE t = s
      BY <1>9, <1>12, <2>1
    <2>2. CASE t # s
      BY <1>3, <1>8, <1>12, <2>2
    <2>. QED
      BY <2>1, <2>2
  <1>15. CASE h[t].view_source = 0
    <2>1. f = e
      <3>. PICK r : r = h[t]
        OBVIOUS
      <3>1. r.view_source = NoArray
        BY <1>15 DEF NoArray
      <3>2. Extend(e, r, i, v) = e
        BY <3>1, Zenon DEF Extend
      <3>. QED
        BY <3>2
    <2>2. Slice(e, t)
      BY <1>12, <1>13, <1>15 DEF Slice
    <2>3. \A x \in W : x \in {t} \ Z /\ Slice(h, x) => Slice(e, x)
      BY <2>2
    <2>4. e \in Kept(V, N, h, W, {}, B, Z)
      <3>. HIDE DEF Z
      <3>. QED
        BY <1>11, <2>3, KeptLess
    <2>5. f \in Kept(V, N, h, W, {}, B, Z) /\ f[s].mutation_version > h[s].mutation_version
          /\ f[s] = e[s]
      BY <1>14, <2>1, <2>4
    <2>. QED
      BY <1>1, <2>5 DEF B, LandsAs
  <1>16. CASE h[t].view_source # 0
    <2>. DEFINE w == h[t].view_source
    <2>1. Past(V, N, h, e, t, i, v)
      <3>1. \A x \in 1..N : x < t => e[x] = h[x]
        <4>1. \A x \in 1..N : x < t => x <= t /\ x # t
          BY <1>4
        <4>. QED
          BY <1>2, <1>12, <4>1
      <3>. QED
        BY <1>2, <1>12, <1>13, <3>1 DEF Past
    <2>2. Extended(V, N, h, W, e, t, i, f)
      BY <1>2, <1>16, <2>1, ExtendKeeps
    <2>3. PICK X : /\ X \subseteq W /\ X \subseteq 1..w /\ \A x \in W : x < t => x \in X
                   /\ f \in Kept(V, N, e, X, {}, {}, {})
                   /\ Filled(h, e, t, i) => SliceOf(e[t], f[w])
      BY <2>2 DEF Extended
    <2>4. /\ w \in Nat /\ w < t /\ t \notin X /\ s \notin X /\ X \subseteq 1..N
      <3>1. w \in Nat /\ w < t
        BY <1>2, <1>3, <1>4, Fields
      <3>. QED
        BY <1>2, <1>3, <1>4, <2>3, <3>1
    <2>5. ASSUME NEW x \in W \ X, e[x].view_source \in X
          PROVE  x \in {t}
      <3>1. SUFFICES ASSUME x # t PROVE FALSE
        OBVIOUS
      <3>2. x > t
        <4>1. ~(x < t)
          <5>. HIDE DEF f, w
          <5>. QED
            BY <2>3, <2>5
        <4>2. PICK z : z = x
          OBVIOUS
        <4>3. z \in Nat /\ t \in Nat /\ ~(z < t) /\ z # t
          BY <1>3, <1>4, <3>1, <4>1, <4>2
        <4>4. z > t
          BY <4>3
        <4>. QED
          BY <4>2, <4>4
      <3>3. SameView(h[x], e[x])
        BY <1>10 DEF Kept
      <3>4. e[x].view_source = h[x].view_source /\ t <= h[x].view_source
        <4>1. t <= h[x].view_source
          BY <1>2, <3>2, OnWay
        <4>. QED
          BY <3>3, <4>1 DEF SameView
      <3>5. e[x].view_source \in 1..w
        BY <2>3, <2>5
      <3>6. e[x].view_source < t
        BY <1>4, <2>4, <3>5
      <3>7. PICK u : u = e[x].view_source
        OBVIOUS
      <3>8. u \in Nat /\ u < t /\ t <= u /\ t \in Nat
        BY <1>4, <2>4, <3>4, <3>5, <3>6, <3>7
      <3>. QED
        BY <3>8
    <2>6. f \in Kept(V, N, e, W, {}, {}, {t})
      <3>1. \A x \in W \ X : e[x].view_source \in X => x \in {t}
        BY <2>5
      <3>2. {} \subseteq {t}
        OBVIOUS
      <3>. HIDE DEF f
      <3>. QED
        BY <1>3, <1>12, <2>3, <3>1, <3>2, KeptWider
    <2>7. f \in Kept(V, N, h, W, {}, B, {t})
      <3>1. {} \subseteq B /\ {} \subseteq {} /\ {t} \subseteq {t}
        OBVIOUS
      <3>. HIDE DEF f
      <3>2. f \in Kept(V, N, e, W, {}, B, {t})
        BY <2>6, <3>1, KeptMore
      <3>. QED
        BY <1>3, <1>11, <3>2, KeptTwice
    <2>8. /\ \A x \in 1..N : x \notin X => f[x] = e[x]
      BY <2>3 DEF Kept
    <2>9. ASSUME ~Dirty(h, t, i), Slice(h, t)
          PROVE  Slice(f, t)
      <3>1. Filled(h, e, t, i)
        BY <1>12, <1>13, <1>16, <2>9 DEF Filled, Dirty
      <3>2. f[t] = new
        BY <1>4, <1>12, <2>4, <2>8
      <3>3. SliceOf(f[t], f[w]) /\ f[t].view_source = w
        BY <1>12, <1>13, <2>3, <3>1, <3>2
      <3>. HIDE DEF f, w
      <3>. QED
        BY <3>3 DEF Slice, SliceOf
    <2>. HIDE DEF f
    <2>10. f \in Kept(V, N, h, W, {}, B, Z)
      <3>1. \A x \in W : x \in {t} \ Z /\ Slice(h, x) => Slice(f, x)
        BY <2>9
      <3>. HIDE DEF Z
      <3>. QED
        BY <2>7, <3>1, KeptLess
    <2>11. f[s].mutation_version > h[s].mutation_version /\ f[s] = e[s]
      BY <1>3, <1>14, <2>4, <2>8
    <2>. QED
      BY <1>1, <2>10, <2>11 DEF B, f, LandsAs
  <1>. QED
    BY <1>15, <1>16

LEMMA ShowingIs ==
  ASSUME NEW V, NEW N \in Nat, NEW h \in Heaps(V, N), NEW s \in 1..N,
         NEW r, Levels(h, s, r), NEW n \in 0..s, NEW i \in Nat,
         h[r[n].at].count <= r[n].offset + i,
         \A m \in 0..n-1 : r[m].offset + i < h[r[m].at].count,
         Dirty(h, r[n].at, r[n].offset + i)
  PROVE  r[n].at \in Showing(h, s, i)
  <1>1. \A m \in 0..s : Above(h, s, m) = r[m]
    BY DEF Levels
  <1>2. Lands(h, s, i, n)
    <2>1. \A m \in 0..n-1 : m \in 0..s
      OBVIOUS
    <2>. QED
      BY <1>1, <2>1 DEF Lands
  <1>3. r[n].at \in Way(h, s)
    BY <1>1 DEF Way
  <1>4. IsView(h, r[n].at)
    BY DEF Dirty, IsView, NoArray
  <1>5. \E j \in h[r[n].at].count+1 .. Above(h, s, n).offset + i :
          j \in DOMAIN h[r[n].at].elements /\ h[r[n].at].elements[j] # Null
    BY <1>1 DEF Dirty
  <1>. QED
    BY <1>1, <1>2, <1>3, <1>4, <1>5 DEF Showing

(* An assignment at i of s, n rounds on, that was inside of all arrays so  *)
(* far.                                                                    *)
Inside(V, N, h, s, W, fc, v, i, r, n) ==
  {l \in Rising(V, N, h, s, W, fc, 2, v, i, n) :
     l.at # 0 => /\ l.at = r[n].at /\ l.index = r[n].offset + i
                 /\ \A m \in 0..n-1 : r[m].offset + i < h[r[m].at].count}

LEMMA InsideOn ==
  ASSUME NEW V, Null \in V, NEW N \in Nat, NEW h \in Heaps(V, N), NEW s \in 1..N,
         NEW W, NEW off, WayOf(h, s, W, off), NEW r, Levels(h, s, r),
         NEW fc \in BOOLEAN, NEW v \in V, NEW i \in Nat, NEW n \in 1..s,
         NEW l \in Inside(V, N, h, s, W, fc, v, i, r, n - 1),
         l.at # 0, l.index < h[l.at].count
  PROVE  /\ Onward(l, Touched(Assigned(h[l.at], l.index, v), fc \/ n > 1), l.index)
              \in Inside(V, N, h, s, W, fc, v, i, r, n)
         /\ l.heap[l.at] = h[l.at]
  <1>1. PICK t, d : t = l.at /\ d = l.index
    OBVIOUS
  <1>. DEFINE x == h[t]
              y == Assigned(x, d, v)
              new == Touched(y, fc \/ n > 1)
              m == Onward(l, new, d)
  <1>2. l \in Rising(V, N, h, s, W, fc, 2, v, i, n - 1)
    BY DEF Inside
  <1>3. /\ t = r[n-1].at /\ d = r[n-1].offset + i
        /\ \A k \in 0..n-2 : r[k].offset + i < h[r[k].at].count
    <2>1. n - 1 - 1 = n - 2
      OBVIOUS
    <2>. QED
      BY <1>1, <2>1 DEF Inside
  <1>4. /\ t \in W /\ l.heap[t] = x /\ x \in Arr(V) /\ x.count \in Nat
        /\ (n > 1 <=> t # s) /\ t # 0 /\ d \in Nat /\ x.view_source \in Nat
    <2>1. 2 \in 0..2
      OBVIOUS
    <2>2. RisingFrom(V, N, h, s, W, fc, 2, v, i, n, l)
      BY <1>2, <2>1, RiseFacts
    <2>. QED
      BY <1>1, <2>2 DEF RisingFrom
  <1>5. /\ r[0] = [at |-> s, offset |-> 0]
        /\ r[n] = IF h[r[n-1].at].view_source = NoArray THEN r[n-1]
                  ELSE [at |-> h[r[n-1].at].view_source,
                        offset |-> r[n-1].offset + h[r[n-1].at].view_offset]
        /\ r[n-1].offset \in Nat
    <2>1. n - 1 \in 0..s
      OBVIOUS
    <2>2. r \in [0..s -> [at : 1..s, offset : Nat]] /\ r[0] = [at |-> s, offset |-> 0]
      BY DEF Levels
    <2>3. r[n-1].offset \in Nat
      BY <2>1, <2>2
    <2>4. r[n] = IF h[r[n-1].at].view_source = NoArray THEN r[n-1]
                 ELSE [at |-> h[r[n-1].at].view_source,
                       offset |-> r[n-1].offset + h[r[n-1].at].view_offset]
      BY DEF Levels
    <2>. QED
      BY <2>2, <2>3, <2>4
  <1>6. IsAssigned(V, x, y, d, v)
    BY <1>4, AssignedIs
  <1>7. y.view_invalid = x.view_invalid
    BY DEF Assigned, Arr
  <1>8. d < x.count
    BY <1>1
  <1>9. t = s => d = i
    <2>1. CASE t = s
      <3>1. n = 1
        BY <1>4, <2>1
      <3>2. r[n-1] = r[0]
        BY <3>1
      <3>3. r[n-1].offset = 0
        BY <1>5, <3>2
      <3>. QED
        BY <1>3, <3>3
    <2>. QED
      BY <2>1
  <1>. HIDE DEF y, x
  <1>10. (fc \/ n > 1) \in BOOLEAN /\ (fc \/ n > 1) = (fc \/ t # s)
    BY <1>4
  <1>11. Own(x, new, fc \/ n > 1) /\ new \in Arr(V) /\ SameShape(y, new)
    <2>1. ASSUME NEW b \in BOOLEAN
          PROVE  /\ Own(x, Touched(y, b), b) /\ Touched(y, b) \in Arr(V)
                 /\ SameShape(y, Touched(y, b))
      <3>1. /\ y \in Arr(V) /\ SameLink(x, y) /\ y.mutation_version = x.mutation_version
        BY <1>6 DEF IsAssigned
      <3>. QED
        BY <1>4, <1>7, <3>1, OwnTouched
    <2>. QED
      BY <1>10, <2>1, Zenon
  <1>. HIDE DEF new
  <1>12. Own(x, new, fc \/ t # s)
    BY <1>10, <1>11, Zenon
  <1>13. AssignedAt(x, new, d, v)
    <2>1. ~(d >= x.count)
      BY <1>4, <1>8
    <2>2. /\ y.count = x.count /\ y.elements[d+1] = v
          /\ \A j \in 1..x.count : j # d + 1 => y.elements[j] = x.elements[j]
      BY <1>6, <2>1 DEF IsAssigned
    <2>. QED
      BY <1>11, <2>2 DEF AssignedAt, SameShape
  <1>14. Does(2, x, new, d, v) /\ Fits(2, x, d)
    BY <1>8, <1>13 DEF Does, Fits
  <1>15. m \in Rising(V, N, h, s, W, fc, 2, v, i, n)
    <2>1. 2 \in 0..2 /\ 2 # 1
      OBVIOUS
    <2>2. /\ Own(h[l.at], new, fc \/ l.at # s) /\ Fits(2, h[l.at], d)
          /\ Does(2, h[l.at], new, d, v) /\ d = l.index /\ l.at # 0
          /\ l.at = s => d = i
      BY <1>1, <1>4, <1>9, <1>12, <1>14 DEF x
    <2>. QED
      BY <1>2, <1>4, <1>11, <2>1, <2>2, RiseOn
  <1>16. m.at = x.view_source /\ m.index = x.view_offset + d
    BY <1>11, <1>12 DEF Onward, Own, SameLink
  <1>. HIDE DEF m
  <1>17. ASSUME m.at # 0
         PROVE  /\ m.at = r[n].at /\ m.index = r[n].offset + i
                /\ \A k \in 0..n-1 : r[k].offset + i < h[r[k].at].count
    <2>0. h[r[n-1].at] = x /\ x.view_source # NoArray
      BY <1>3, <1>16, <1>17 DEF x, NoArray
    <2>1. r[n] = [at |-> x.view_source, offset |-> r[n-1].offset + x.view_offset]
      BY <1>5, <2>0
    <2>2. x.view_offset \in Nat
      BY <1>4, Fields
    <2>3. m.index = r[n].offset + i
      <3>1. PICK o, p : o = r[n-1].offset /\ p = x.view_offset
        OBVIOUS
      <3>2. m.index = p + (o + i) /\ r[n].offset = o + p /\ o \in Nat /\ p \in Nat
        BY <1>3, <1>5, <1>16, <2>1, <2>2, <3>1
      <3>. QED
        BY <3>2
    <2>4. \A k \in 0..n-1 : k = n - 1 \/ k \in 0..n-2
      OBVIOUS
    <2>. QED
      BY <1>3, <1>8, <1>16, <2>1, <2>3, <2>4 DEF x
  <1>18. m \in Inside(V, N, h, s, W, fc, v, i, r, n)
    BY <1>15, <1>17 DEF Inside
  <1>. QED
    BY <1>1, <1>4, <1>18 DEF x, y, new, m

(* An assignment that went past the end of an array and is complete.       *)
Landed(V, N, h, s, W, fc, v, i) ==
  {l \in [heap : Kept(V, N, h, W, {}, IF fc THEN {} ELSE {s}, Showing(h, s, i)),
          at : {0}, index : Nat] :
     /\ l.heap[s].mutation_version > h[s].mutation_version
     /\ i < h[s].count => AssignedAt(h[s], l.heap[s], i, v)}

Stopped(o, g) == [o EXCEPT !.heap = g, !.at = NoArray]
LEMMA StoppedIs ==
  ASSUME NEW o, NEW x, NEW y, NEW z, o = [heap |-> x, at |-> y, index |-> z], NEW g
  PROVE  Stopped(o, g) = [heap |-> g, at |-> 0, index |-> z]
  <1>. DEFINE p == [heap |-> x, at |-> y, index |-> z]
              q == [heap |-> g, at |-> 0, index |-> z]
  <1>1. [p EXCEPT !.heap = g] = [heap |-> g, at |-> y, index |-> z]
    OBVIOUS
  <1>2. [[heap |-> g, at |-> y, index |-> z] EXCEPT !.at = 0] = q
    OBVIOUS
  <1>3. [p EXCEPT !.heap = g, !.at = 0] = q
    BY <1>1, <1>2
  <1>. QED
    BY <1>3 DEF Stopped, NoArray

LEMMA InsideEnds ==
  ASSUME NEW V, Null \in V, NEW N \in Nat, NEW h \in Heaps(V, N), Agrees(N, h),
         NEW s \in 1..N, NEW W, NEW off, WayOf(h, s, W, off), NEW r, Levels(h, s, r),
         NEW fc \in BOOLEAN, NEW v \in V, NEW i \in Nat, NEW n \in 1..s,
         NEW l \in Inside(V, N, h, s, W, fc, v, i, r, n - 1),
         l.at # 0, h[l.at].count <= l.index,
         NEW own, own = Onward(l, Touched(Assigned(h[l.at], l.index, v), fc \/ n > 1),
                               l.index)
  PROVE  [own EXCEPT !.heap = Extend(@, h[l.at], l.index, v), !.at = NoArray]
           \in Landed(V, N, h, s, W, fc, v, i)
  <1>. DEFINE B == IF fc THEN {} ELSE {s}
              e == own.heap
              f == Extend(e, h[l.at], l.index, v)
              E == IF Dirty(h, l.at, l.index) THEN {l.at} ELSE {}
              new == Touched(Assigned(h[l.at], l.index, v), fc \/ n > 1)
  <1>1. l \in Rising(V, N, h, s, W, fc, 2, v, i, n - 1)
    BY DEF Inside
  <1>2. /\ l.at = r[n-1].at /\ l.index = r[n-1].offset + i
        /\ \A k \in 0..n-2 : r[k].offset + i < h[r[k].at].count
    <2>1. n - 1 - 1 = n - 2
      OBVIOUS
    <2>. QED
      BY <2>1 DEF Inside
  <1>3. /\ l.at \in W /\ l.heap[l.at] = h[l.at] /\ h[l.at] \in Arr(V)
        /\ h[l.at].count \in Nat
        /\ (n > 1 <=> l.at # s) /\ l.index \in Nat
    <2>1. 2 \in 0..2
      OBVIOUS
    <2>2. RisingFrom(V, N, h, s, W, fc, 2, v, i, n, l)
      BY <1>1, <2>1, RiseFacts
    <2>. QED
      BY <2>2 DEF RisingFrom
  <1>4. l \in Climb(V, N, h, s, W, fc, 2, v)
        /\ (n # 1 => l.at < s /\ Does(2, h[s], l.heap[s], i, v))
    BY <1>1 DEF Rising
  <1>5. (fc \/ n > 1) = (fc \/ l.at # s)
    BY <1>3
  <1>6. /\ own.heap = [l.heap EXCEPT ![l.at] = new] /\ own.at = new.view_source
        /\ own.index = new.view_offset + l.index
        /\ own = [heap |-> own.heap, at |-> own.at, index |-> own.index]
    BY DEF Onward
  <1>7. /\ f \in Kept(V, N, h, W, {}, B, E) /\ f[s].mutation_version > h[s].mutation_version
        /\ f[s] = e[s]
    <2>1. e = [l.heap EXCEPT ![l.at] = Touched(Assigned(h[l.at], l.index, v), fc \/ l.at # s)]
      BY <1>5, <1>6, Zenon
    <2>2. LandsAs(V, N, h, s, W, fc, l, e, f)
      <3>. HIDE DEF e
      <3>. QED
        BY <1>4, <2>1, LandKeeps
    <2>. HIDE DEF e, f
    <2>. QED
      BY <2>2 DEF LandsAs
  <1>8. E \subseteq Showing(h, s, i)
    <2>1. SUFFICES ASSUME Dirty(h, l.at, l.index) PROVE l.at \in Showing(h, s, i)
      OBVIOUS
    <2>2. PICK k \in 0..s : k = n - 1
      OBVIOUS
    <2>3. k - 1 = n - 2
      BY <2>2
    <2>. QED
      BY <1>2, <2>1, <2>2, <2>3, ShowingIs
  <1>9. f \in Kept(V, N, h, W, {}, B, Showing(h, s, i))
    <2>1. {} \subseteq {} /\ B \subseteq B
      OBVIOUS
    <2>. HIDE DEF f, E, B
    <2>. QED
      BY <1>7, <1>8, <2>1, KeptMore
  <1>10. i < h[s].count => AssignedAt(h[s], f[s], i, v)
    <2>1. SUFFICES ASSUME i < h[s].count PROVE AssignedAt(h[s], f[s], i, v)
      OBVIOUS
    <2>2. l.at # s
      <3>1. SUFFICES ASSUME n = 1 PROVE FALSE
        BY <1>3
      <3>2. n - 1 = 0
        BY <3>1
      <3>3. r[0] = [at |-> s, offset |-> 0]
        BY DEF Levels
      <3>4. l.at = s /\ l.index = i
        BY <1>2, <3>2, <3>3
      <3>. QED
        BY <1>3, <2>1, <3>4
    <2>3. n # 1
      BY <1>3, <2>2
    <2>4. e[s] = l.heap[s]
      <3>1. s \in 1..N /\ l.heap \in [1..N -> Arr(V)]
        BY <1>4 DEF Climb, Heaps
      <3>. QED
        BY <1>6, <2>2, <3>1
    <2>5. AssignedAt(h[s], l.heap[s], i, v)
      BY <1>4, <2>3 DEF Does
    <2>. HIDE DEF f, e
    <2>. QED
      BY <1>7, <2>4, <2>5
  <1>11. own.index \in Nat
    <2>1. IsAssigned(V, h[l.at], Assigned(h[l.at], l.index, v), l.index, v)
      BY <1>3, AssignedIs
    <2>2. ASSUME NEW b \in BOOLEAN, NEW y \in Arr(V)
          PROVE  Touched(y, b).view_offset \in Nat
      <3>1. Touched(y, b) \in Arr(V)
        BY TouchedIs
      <3>. QED
        BY <3>1, Fields
    <2>3. new.view_offset \in Nat
      <3>1. Assigned(h[l.at], l.index, v) \in Arr(V) /\ (fc \/ n > 1) \in BOOLEAN
        BY <2>1 DEF IsAssigned
      <3>. QED
        BY <2>2, <3>1, Zenon
    <2>. HIDE DEF new
    <2>. QED
      BY <1>3, <1>6, <2>3
  <1>12. [own EXCEPT !.heap = Extend(@, h[l.at], l.index, v), !.at = NoArray]
           = [heap |-> f, at |-> 0, index |-> own.index]
    <2>. HIDE DEF new
    <2>1. PICK x, y, z : own = [heap |-> x, at |-> y, index |-> z] /\ z = own.index
      BY <1>6
    <2>. HIDE DEF f
    <2>2. Stopped(own, f) = [heap |-> f, at |-> 0, index |-> z]
      BY <2>1, StoppedIs
    <2>. QED
      BY <2>1, <2>2 DEF Stopped, f
  <1>. HIDE DEF f
  <1>13. [heap |-> f, at |-> 0, index |-> own.index] \in Landed(V, N, h, s, W, fc, v, i)
    BY <1>7, <1>9, <1>10, <1>11 DEF Landed
  <1>. QED
    BY <1>12, <1>13

LEMMA SetKeeps ==
  ASSUME NEW V, Null \in V, NEW N \in Nat, NEW h \in Heaps(V, N), Agrees(N, h),
         NEW s \in 1..N, NEW W, NEW off, WayOf(h, s, W, off),
         NEW i \in Nat, NEW v \in V, NEW fc \in BOOLEAN
  PROVE  LET g == SetInternal(h, s, i, v, fc) IN
         /\ Ended(V, N, h, s, W, fc, Showing(h, s, i), g)
         /\ i < h[s].count => AssignedAt(h[s], g[s], i, v)
  <1>1. PICK r : Levels(h, s, r)
    BY AboveIs
  <1>. DEFINE Up(l, n) ==
                LET x == l.heap[l.at]
                    new == Onward(l, Touched(Assigned(x, l.index, v),
                                             fc \/ n > 1), l.index)
                IN IF l.at = NoArray THEN l
                   ELSE IF l.index < x.count THEN new
                   ELSE [new EXCEPT !.heap = Extend(@, x, l.index, v), !.at = NoArray]
              start == [heap |-> h, at |-> s, index |-> i]
              In(n) == Inside(V, N, h, s, W, fc, v, i, r, n)
              Out == Landed(V, N, h, s, W, fc, v, i)
              Sn(n) == In(n) \cup Out
              F == [n \in 1..s |-> [l \in Sn(n-1) |-> Up(l, n)]]
              S == [n \in 0..s |-> Sn(n)]
  <1>2. ASSUME NEW n \in 1..s, NEW l \in Sn(n - 1)
        PROVE  Up(l, n) \in Sn(n)
    <2>1. CASE l \in Out
      <3>1. l.at = NoArray
        BY <2>1 DEF Landed, NoArray
      <3>. QED
        BY <2>1, <3>1
    <2>2. CASE l \in In(n - 1) /\ l.at = NoArray
      <3>1. l \in Rising(V, N, h, s, W, fc, 2, v, i, n - 1)
        BY <2>2 DEF Inside
      <3>2. RisingFrom(V, N, h, s, W, fc, 2, v, i, n, l)
        <4>1. 2 \in 0..2
          OBVIOUS
        <4>. QED
          BY <3>1, <4>1, RiseFacts
      <3>3. l \in In(n)
        BY <2>2, <3>2 DEF RisingFrom, Inside, NoArray
      <3>4. Up(l, n) = l
        BY <2>2
      <3>. HIDE DEF Up, In
      <3>. QED
        BY <3>3, <3>4
    <2>3. CASE l \in In(n - 1) /\ l.at # NoArray
      <3>0. l \in Inside(V, N, h, s, W, fc, v, i, r, n - 1) /\ l.at # 0
        BY <2>3 DEF NoArray
      <3>1. l.heap[l.at] = h[l.at] /\ h[l.at].count \in Nat /\ l.index \in Nat
        <4>1. 2 \in 0..2
          OBVIOUS
        <4>2. l \in Rising(V, N, h, s, W, fc, 2, v, i, n - 1)
          BY <3>0 DEF Inside
        <4>. HIDE DEF Up, Sn, In, Out, start
        <4>3. RisingFrom(V, N, h, s, W, fc, 2, v, i, n, l)
          BY <4>1, <4>2, RiseFacts
        <4>. QED
          BY <3>0, <4>3 DEF RisingFrom
      <3>. DEFINE own == Onward(l, Touched(Assigned(h[l.at], l.index, v), fc \/ n > 1),
                                l.index)
      <3>2. CASE l.index < h[l.at].count
        <4>1. Up(l, n) = own
          BY <2>3, <3>1, <3>2
        <4>. HIDE DEF Up
        <4>2. own \in Inside(V, N, h, s, W, fc, v, i, r, n)
          BY <1>1, <3>0, <3>2, InsideOn
        <4>. HIDE DEF own
        <4>. QED
          BY <4>1, <4>2
      <3>3. CASE ~(l.index < h[l.at].count)
        <4>1. Up(l, n) = [own EXCEPT !.heap = Extend(@, h[l.at], l.index, v), !.at = NoArray]
          BY <2>3, <3>1, <3>3
        <4>2. h[l.at].count <= l.index
          BY <3>1, <3>3
        <4>3. [own EXCEPT !.heap = Extend(@, h[l.at], l.index, v), !.at = NoArray]
                \in Landed(V, N, h, s, W, fc, v, i)
          <5>1. PICK o : o = own
            OBVIOUS
          <5>2. [o EXCEPT !.heap = Extend(@, h[l.at], l.index, v), !.at = NoArray]
                  \in Landed(V, N, h, s, W, fc, v, i)
            <6>. HIDE DEF Up, Sn, In, Out, start
            <6>. QED
              BY <1>1, <3>0, <4>2, <5>1, InsideEnds
          <5>. HIDE DEF own
          <5>. QED
            BY <5>1, <5>2, Zenon
        <4>. HIDE DEF Up, own
        <4>. QED
          BY <4>1, <4>3
      <3>. QED
        BY <3>2, <3>3
    <2>. QED
      BY <2>1, <2>2, <2>3
  <1>3. start \in Sn(0)
    <2>1. start \in Rising(V, N, h, s, W, fc, 2, v, i, 0)
      BY RiseFirst
    <2>2. r[0] = [at |-> s, offset |-> 0]
      BY <1>1 DEF Levels
    <2>3. start.at = r[0].at /\ start.index = r[0].offset + i
          /\ \A m \in 0..0-1 : r[m].offset + i < h[r[m].at].count
      BY <2>2
    <2>. HIDE DEF start
    <2>. QED
      BY <2>1, <2>3 DEF Inside
  <1>. HIDE DEF Up, Sn, start
  <1>4. /\ s \in Nat /\ \A k \in 0..s : S[k] = Sn(k)
        /\ \A k \in 1..s : k \in 0..s /\ k - 1 \in 0..s /\ k # 0 /\ S[k-1] = Sn(k-1)
        /\ \A k \in 1..s : \A g \in Sn(k-1) : F[k][g] = Up(g, k)
    <2>1. \A k \in 1..s : k \in 0..s /\ k - 1 \in 0..s /\ k # 0
      OBVIOUS
    <2>. QED
      BY <2>1
  <1>. HIDE DEF S, F
  <1>5. Takes(F, s, start, S)
    <2>1. 0 \in 0..s
      OBVIOUS
    <2>. QED
      BY <1>2, <1>3, <1>4, <2>1 DEF Takes
  <1>6. PICK f : IsRun(f, F, s, start, S)
    BY <1>5, Rounds
  <1>. DEFINE Run(g) == g = [k \in 0..s |-> IF k = 0 THEN start ELSE Up(g[k-1], k)]
  <1>7. Run(f)
    <2>1. \A k \in 1..s : f[k] = Up(f[k-1], k)
      BY <1>4, <1>6 DEF IsRun
    <2>2. \A k \in 0..s : k = 0 \/ k \in 1..s
      OBVIOUS
    <2>. QED
      BY <1>6, <2>1, <2>2 DEF IsRun
  <1>8. ASSUME NEW g, Run(g)
        PROVE  g[s] \in Sn(s)
    <2>1. g[0] = start /\ \A k \in 1..s : g[k] = Up(g[k-1], k)
      <3>1. 0 \in 0..s
        OBVIOUS
      <3>. QED
        BY <1>4, <1>8, <3>1
    <2>2. \A k \in 1..s : g[k-1] \in S[k-1] => g[k] = F[k][g[k-1]]
      BY <1>4, <2>1
    <2>3. g[s] \in S[s]
      <3>. HIDE DEF Run
      <3>. QED
        BY <1>5, <2>1, <2>2, RunEnds
    <2>4. s \in 0..s
      OBVIOUS
    <2>. QED
      BY <1>4, <2>3, <2>4
  <1>9. Repeated(s, start, Up) = (CHOOSE g : Run(g))[s]
    BY DEF Repeated
  <1>. HIDE DEF Run
  <1>10. PICK e \in Sn(s) : Repeated(s, start, Up) = e
    BY <1>7, <1>8, <1>9
  <1>11. SetInternal(h, s, i, v, fc) = InStep(e.heap, s, fc)
    BY <1>10 DEF SetInternal, start, Up
  <1>. DEFINE z == InStep(e.heap, s, fc)
              B == IF fc THEN {} ELSE {s}
              E == Showing(h, s, i)
  <1>12. CASE e \in Out
    <2>1. /\ e.heap \in Kept(V, N, h, W, {}, B, E)
          /\ e.heap[s].mutation_version > h[s].mutation_version
          /\ i < h[s].count => AssignedAt(h[s], e.heap[s], i, v)
      BY <1>12 DEF Landed
    <2>2. W \subseteq 1..N /\ s \in W /\ (fc = FALSE => s \in B)
      BY OnWay
    <2>. HIDE DEF B, E
    <2>3. /\ z \in Kept(V, N, h, W, {}, B, E) /\ SameShape(e.heap[s], z[s])
          /\ z[s].mutation_version > h[s].mutation_version
      BY <2>1, <2>2, InStepKeeps
    <2>4. i < h[s].count => AssignedAt(h[s], z[s], i, v)
      BY <2>1, <2>3 DEF AssignedAt, SameShape
    <2>. QED
      BY <1>11, <2>3, <2>4 DEF Ended, B, E
  <1>13. CASE e \in In(s)
    <2>1. 2 \in 0..2
      OBVIOUS
    <2>2. e \in Rising(V, N, h, s, W, fc, 2, v, i, s)
      BY <1>13 DEF Inside
    <2>3. Ended(V, N, h, s, W, fc, {}, z) /\ Does(2, h[s], z[s], i, v)
      BY <2>1, <2>2, RiseEnds
    <2>4. Ended(V, N, h, s, W, fc, E, z)
      <3>1. {} \subseteq {} /\ B \subseteq B /\ {} \subseteq E
        OBVIOUS
      <3>2. z \in Kept(V, N, h, W, {}, B, {})
        BY <2>3 DEF Ended
      <3>3. z \in Kept(V, N, h, W, {}, B, E)
        <4>. HIDE DEF z, B, E
        <4>. QED
          BY <3>1, <3>2, KeptMore
      <3>. QED
        BY <2>3, <3>3 DEF Ended
    <2>5. AssignedAt(h[s], z[s], i, v)
      BY <2>3 DEF Does
    <2>. QED
      BY <1>11, <2>4, <2>5
  <1>. QED
    BY <1>12, <1>13 DEF Sn

(* The way from the source of a view is the rest of the way from the view. *)
Rest(h, a, W, off, o) ==
  /\ h[a].view_source \in W \ {a} /\ WayOf(h, h[a].view_source, W \ {a}, o)
  /\ \A x \in W \ {a} : o[x] = off[x] - h[a].view_offset
LEMMA WayOn ==
  ASSUME NEW V, NEW N \in Nat, NEW h \in Heaps(V, N), NEW a \in 1..N,
         NEW W, NEW off, WayOf(h, a, W, off), h[a].view_source # 0
  PROVE  \E o : Rest(h, a, W, off, o)
  <1>. DEFINE s == h[a].view_source
              X == W \ {a}
              d == h[a].view_offset
              o == [x \in X |-> off[x] - d]
  <1>1. /\ a \in W /\ W \subseteq 1..a /\ off[a] = 0
        /\ s \in W /\ s \in Nat /\ s < a /\ a \in Nat /\ d \in Nat /\ off[s] = off[a] + d
        /\ \A x \in W : x \in 1..a /\ x \in Nat /\ off[x] \in Nat
        /\ \A x, z \in W : z < x => z <= h[x].view_source
    BY OnWay
  <1>2. s \in X
    BY <1>1
  <1>3. \A x \in X : off[x] >= d
    <2>. DEFINE S == {a} \cup {x \in X : off[x] >= d}
    <2>1. a \in S
      OBVIOUS
    <2>2. ASSUME NEW y \in W, y \in S, h[y].view_source # 0
          PROVE  h[y].view_source \in S
      <3>. DEFINE w == h[y].view_source
      <3>1. w \in W /\ off[w] = off[y] + h[y].view_offset /\ w < y /\ h[y].view_offset \in Nat
        BY <2>2, OnWay
      <3>2. w # a /\ off[y] \in Nat /\ w \in Nat
        <4>1. y \in 1..a /\ w \in Nat
          BY <1>1, <3>1
        <4>. QED
          BY <1>1, <3>1, <4>1
      <3>3. off[w] >= d
        <4>1. CASE y = a
          BY <1>1, <4>1
        <4>2. CASE y # a
          BY <1>1, <2>2, <3>1, <3>2, <4>2
        <4>. QED
          BY <4>1, <4>2
      <3>. QED
        BY <3>1, <3>2, <3>3
    <2>3. W \subseteq S
      <3>. HIDE DEF S
      <3>. QED
        BY <2>1, <2>2, UpTheWay
    <2>. QED
      BY <2>3
  <1>4. X \subseteq 1..s
    <2>1. ASSUME NEW x \in X
          PROVE  x \in 1..s
      <3>1. x < a /\ x \in 1..a
        BY <1>1
      <3>2. x <= s
        BY <1>1, <3>1
      <3>. QED
        BY <1>1, <3>1, <3>2
    <2>. QED
      BY <2>1
  <1>5. o \in [X -> Nat] /\ o[s] = 0
    <2>1. \A x \in X : off[x] - d \in Nat
      BY <1>1, <1>3
    <2>. QED
      BY <1>1, <1>2, <2>1
  <1>6. ASSUME NEW x \in X, h[x].view_source # NoArray
        PROVE  h[x].view_source \in X /\ o[h[x].view_source] = o[x] + h[x].view_offset
    <2>. DEFINE w == h[x].view_source
    <2>1. w \in W /\ off[w] = off[x] + h[x].view_offset /\ w < x /\ h[x].view_offset \in Nat
          /\ w \in Nat
      BY <1>6, OnWay DEF NoArray
    <2>2. w \in X
      BY <1>1, <2>1
    <2>3. o[w] = off[w] - d /\ o[x] = off[x] - d /\ off[x] \in Nat
      BY <1>1, <2>2
    <2>. QED
      BY <1>1, <2>1, <2>2, <2>3
  <1>7. ASSUME NEW x \in X, x # s
        PROVE  \E y \in X : h[y].view_source = x
    <2>1. PICK y \in W : h[y].view_source = x
      BY OnWay
    <2>. QED
      BY <1>7, <2>1
  <1>8. \A x, z \in X : z < x => z <= h[x].view_source
    BY <1>1
  <1>9. \A x \in X : o[x] = off[x] - d
    OBVIOUS
  <1>. HIDE DEF o
  <1>10. WayOf(h, s, X, o)
    BY <1>2, <1>4, <1>5, <1>6, <1>7, <1>8 DEF WayOf
  <1>. QED
    BY <1>2, <1>9, <1>10 DEF Rest

-----------------------------------------------------------------------------
(* Reversing and sorting.                                                  *)

(* What Permuted makes of array a.                                          *)
IsPermuted(V, x, y, h, a, s) ==
  /\ y \in Arr(V) /\ SameLink(x, y) /\ y.count = x.count
  /\ y.mutation_version = x.mutation_version /\ y.view_invalid = x.view_invalid
  /\ Permuted(h, a, s) = [h EXCEPT ![a] = y]

LEMMA PermutedIs ==
  ASSUME NEW V, NEW N \in Nat, NEW h \in Heaps(V, N), NEW a \in 1..N,
         NEW s, \A j \in 1..h[a].count : s[j] \in V
  PROVE  \E y : IsPermuted(V, h[a], y, h, a, s)
  <1>. DEFINE x == h[a]
              t == [j \in DOMAIN x.elements |->
                      IF j <= x.count THEN s[j] ELSE x.elements[j]]
              y == [x EXCEPT !.elements = t]
  <1>1. x \in Arr(V) /\ h = [z \in 1..N |-> h[z]]
    BY DEF Heaps
  <1>2. /\ x.elements \in Seq(V) /\ x.count \in Nat /\ x.count <= Len(x.elements)
        /\ Len(x.elements) \in Nat /\ DOMAIN x.elements = 1..Len(x.elements)
        /\ \A j \in DOMAIN x.elements : x.elements[j] \in V
        /\ x.mutation_version \in Nat
    BY <1>1, Fields
  <1>3. t \in [1..Len(x.elements) -> V]
    <2>1. ASSUME NEW j \in DOMAIN x.elements
          PROVE  t[j] \in V
      <3>1. j <= x.count => j \in 1..x.count
        BY <1>2
      <3>. QED
        BY <1>2, <3>1
    <2>. QED
      BY <1>2, <2>1
  <1>4. t \in Seq(V) /\ Len(t) = Len(x.elements)
    <2>. HIDE DEF t
    <2>. QED
      BY <1>2, <1>3, SequenceOfFunction
  <1>5. Permuted(h, a, s) = [h EXCEPT ![a] = y]
    BY DEF Permuted
  <1>. HIDE DEF t, x
  <1>6. /\ y \in Arr(V) /\ SameLink(x, y) /\ y.count = x.count
        /\ y.mutation_version = x.mutation_version /\ y.view_invalid = x.view_invalid
    BY <1>1, <1>2, <1>4 DEF Arr, SameLink
  <1>. HIDE DEF y
  <1>7. IsPermuted(V, x, y, h, a, s)
    BY <1>5, <1>6 DEF IsPermuted
  <1>. QED
    BY <1>7 DEF x

(* The array of a way that the others start from, permuted.                *)
Reordered(V, N, h, W, a, e) ==
  /\ e \in Kept(V, N, h, W, {a}, {a}, {a})
  /\ SameLink(h[a], e[a]) /\ e[a].count = h[a].count
  /\ \A x \in 1..N : x # a => e[x] = h[x]
LEMMA PermutedKeeps ==
  ASSUME NEW V, NEW N \in Nat, NEW h \in Heaps(V, N), Agrees(N, h), NEW a \in 1..N,
         NEW W, NEW off, WayOf(h, a, W, off), NEW s, \A j \in 1..h[a].count : s[j] \in V
  PROVE  Reordered(V, N, h, W, a, Permuted(h, a, s))
  <1>1. PICK y : IsPermuted(V, h[a], y, h, a, s)
    BY PermutedIs
  <1>2. /\ y \in Arr(V) /\ SameLink(h[a], y) /\ y.count = h[a].count
        /\ y.mutation_version = h[a].mutation_version
        /\ y.view_invalid = h[a].view_invalid
    BY <1>1 DEF IsPermuted
  <1>3. PICK e : e = [h EXCEPT ![a] = y]
    OBVIOUS
  <1>4. /\ \A x \in 1..N : x # a => e[x] = h[x]
        /\ e[a] = y /\ e \in [1..N -> Arr(V)]
    BY <1>2, <1>3 DEF Heaps
  <1>5. /\ y.view_source = h[a].view_source /\ y.view_offset = h[a].view_offset
        /\ y.view_source_version = h[a].view_source_version
    BY <1>2 DEF SameLink
  <1>6. \A x \in 1..N : /\ e[x].view_source = h[x].view_source
                        /\ e[x].view_offset = h[x].view_offset
                        /\ e[x].view_source_version = h[x].view_source_version
                        /\ e[x].mutation_version = h[x].mutation_version
                        /\ e[x].view_invalid = h[x].view_invalid
                        /\ e[x].count = h[x].count
    BY <1>2, <1>4, <1>5
  <1>7. \A x \in 1..N : /\ h[x].view_source < x /\ h[x].view_source \in Nat
                        /\ h[x].mutation_version \in Nat
    BY Fields DEF Heaps
  <1>8. e \in Heaps(V, N)
    BY <1>4, <1>6, <1>7 DEF Heaps
  <1>9. Agrees(N, e)
    <2>1. ASSUME NEW x \in 1..N, e[x].view_source # NoArray
          PROVE  e[x].view_source_version <= e[e[x].view_source].mutation_version
      <3>1. h[x].view_source \in 1..N /\ h[x].view_source # NoArray
        BY <1>6, <1>7, <2>1 DEF NoArray
      <3>2. h[x].view_source_version <= h[h[x].view_source].mutation_version
        BY <3>1 DEF Agrees
      <3>. QED
        BY <1>6, <3>1, <3>2
    <2>. QED
      BY <2>1 DEF Agrees
  <1>10. a \in W /\ W \subseteq 1..N /\ \A x \in W : h[x].view_source # a
    <2>1. /\ a \in W /\ W \subseteq 1..N
          /\ \A x \in W : x \in 1..a /\ h[x].view_source < x /\ h[x].view_source \in Nat
      BY OnWay
    <2>. QED
      BY <2>1
  <1>11. ASSUME NEW x \in W
         PROVE  SameView(h[x], e[x])
    BY <1>6, <1>7, <1>10 DEF SameView
  <1>12. ASSUME NEW x \in W, x \notin {a}
         PROVE  e[x] = h[x] /\ (Slice(h, x) => Slice(e, x))
    <2>1. e[x] = h[x] /\ h[x].view_source # a
      BY <1>4, <1>10, <1>12
    <2>2. h[x].view_source # 0 => e[h[x].view_source] = h[h[x].view_source]
      <3>1. h[x].view_source # 0 => h[x].view_source \in 1..N
        BY <1>7, <1>10
      <3>. QED
        BY <1>4, <2>1, <3>1
    <2>. QED
      BY <2>1, <2>2 DEF Slice
  <1>13. \A x \in 1..N : x \notin W => e[x] = h[x]
    BY <1>4, <1>10
  <1>14. e \in Kept(V, N, h, W, {a}, {a}, {a})
    BY <1>8, <1>9, <1>11, <1>12, <1>13 DEF Kept
  <1>15. Permuted(h, a, s) = e
    BY <1>1, <1>3 DEF IsPermuted
  <1>. QED
    BY <1>2, <1>4, <1>14, <1>15 DEF Reordered

(* Every round of the synchronising is an assignment.                      *)
Syncs(V, N, e, a, X) ==
  \A k \in 0..e[a].count :
    /\ Synced(e, a, k) \in Kept(V, N, e, X, {}, {e[a].view_source}, 1..N)
    /\ k = 0 => Synced(e, a, k) = e
    /\ k # 0 => Synced(e, a, k) =
                  SetInternal(Synced(e, a, k - 1), e[a].view_source,
                              e[a].view_offset + k - 1, e[a].elements[k], FALSE)

LEMMA AssignKeeps ==
  ASSUME NEW V, Null \in V, NEW N \in Nat, NEW e \in Heaps(V, N), NEW w \in 1..N,
         NEW X, NEW o, WayOf(e, w, X, o), NEW E,
         NEW g \in Kept(V, N, e, X, {}, {w}, E), NEW i \in Nat, NEW v \in V,
         Showing(g, w, i) \subseteq E
  PROVE  /\ SetInternal(g, w, i, v, FALSE) \in Kept(V, N, e, X, {}, {w}, E)
         /\ i < g[w].count => AssignedAt(g[w], SetInternal(g, w, i, v, FALSE)[w], i, v)
  <1>1. g \in Heaps(V, N) /\ Agrees(N, g) /\ \A x \in X : SameView(e[x], g[x])
    BY DEF Kept
  <1>2. WayOf(g, w, X, o)
    BY <1>1, WayKept DEF SameView
  <1>3. PICK f : f = SetInternal(g, w, i, v, FALSE)
    OBVIOUS
  <1>4. /\ Ended(V, N, g, w, X, FALSE, Showing(g, w, i), f)
        /\ i < g[w].count => AssignedAt(g[w], f[w], i, v)
    BY <1>1, <1>2, <1>3, SetKeeps
  <1>5. f \in Kept(V, N, g, X, {}, {w}, Showing(g, w, i))
    BY <1>4 DEF Ended
  <1>6. f \in Kept(V, N, g, X, {}, {w}, E)
    <2>1. {} \subseteq {} /\ {w} \subseteq {w}
      OBVIOUS
    <2>. QED
      BY <1>5, <2>1, KeptMore
  <1>7. X \subseteq 1..N
    BY OnWay
  <1>8. f \in Kept(V, N, e, X, {}, {w}, E)
    BY <1>6, <1>7, KeptTwice
  <1>. QED
    BY <1>3, <1>4, <1>8

LEMMA SyncedIs ==
  ASSUME NEW V, Null \in V, NEW N \in Nat, NEW e \in Heaps(V, N), Agrees(N, e),
         NEW a \in 1..N, e[a].view_source # 0, NEW X, NEW o,
         WayOf(e, e[a].view_source, X, o)
  PROVE  Syncs(V, N, e, a, X)
  <1>. DEFINE w == e[a].view_source
              n == e[a].count
              Round(g, k) ==
                SetInternal(g, e[a].view_source, e[a].view_offset + k - 1,
                            e[a].elements[k], FALSE)
              C == Kept(V, N, e, X, {}, {w}, 1..N)
              S == [k \in 0..n |-> C]
              F == [k \in 1..n |-> [g \in C |-> Round(g, k)]]
              Run(f, m) == f = [k \in 0..m |-> IF k = 0 THEN e ELSE Round(f[k-1], k)]
  <1>1. /\ e[a] \in Arr(V) /\ w \in 1..N /\ n \in Nat /\ e[a].view_offset \in Nat
        /\ \A k \in 1..n : e[a].elements[k] \in V
    <2>1. e[a] \in Arr(V) /\ w < a
      BY DEF Heaps
    <2>2. w \in Nat /\ n \in Nat /\ e[a].view_offset \in Nat
          /\ \A k \in 1..n : e[a].elements[k] \in V
      BY <2>1, Fields
    <2>. QED
      BY <2>1, <2>2
  <1>2. X \subseteq 1..N
    BY <1>1, OnWay
  <1>3. ASSUME NEW k \in 1..n, NEW g \in C
        PROVE  Round(g, k) \in C
    <2>1. e[a].view_offset + k - 1 \in Nat /\ e[a].elements[k] \in V
      BY <1>1
    <2>2. Showing(g, w, e[a].view_offset + k - 1) \subseteq 1..N
      <3>1. g \in Heaps(V, N)
        BY DEF Kept
      <3>2. Way(g, w) \subseteq 1..N
        <4>1. PICK p : WayOf(g, w, Way(g, w), p)
          BY <1>1, <3>1, WayIs
        <4>. QED
          BY <1>1, <3>1, <4>1, OnWay
      <3>. QED
        BY <3>2 DEF Showing
    <2>. HIDE DEF w, n
    <2>3. SetInternal(g, w, e[a].view_offset + k - 1, e[a].elements[k], FALSE) \in C
      <3>1. WayOf(e, w, X, o)
        BY DEF w
      <3>2. PICK i \in Nat : i = e[a].view_offset + k - 1
        BY <2>1
      <3>3. PICK v \in V : v = e[a].elements[k]
        BY <2>1
      <3>. QED
        BY <1>1, <2>2, <3>1, <3>2, <3>3, AssignKeeps
    <2>. QED
      BY <2>3 DEF w
  <1>4. e \in C
    <2>1. e \in Kept(V, N, e, X, {}, {}, {})
      BY <1>2, KeptSelf
    <2>2. {} \subseteq {} /\ {} \subseteq {w} /\ {} \subseteq 1..N
      OBVIOUS
    <2>. HIDE DEF w
    <2>. QED
      BY <2>1, <2>2, KeptMore
  <1>. HIDE DEF C, Round
  <1>5. /\ \A k \in 0..n : S[k] = C
        /\ \A k \in 1..n : /\ k \in 0..n /\ k - 1 \in 0..n /\ k # 0 /\ S[k-1] = C
                           /\ \A g \in C : F[k][g] = Round(g, k)
    <2>1. \A k \in 1..n : k \in 0..n /\ k - 1 \in 0..n /\ k # 0
      BY <1>1
    <2>. QED
      BY <2>1
  <1>. HIDE DEF n, S, F
  <1>6. Takes(F, n, e, S)
    <2>1. 0 \in 0..n /\ n \in Nat
      BY <1>1
    <2>. QED
      BY <1>3, <1>4, <1>5, <2>1 DEF Takes
  <1>7. PICK f : IsRun(f, F, n, e, S)
    BY <1>6, Rounds
  <1>8. /\ f[0] = e /\ \A k \in 1..n : f[k] = Round(f[k-1], k)
        /\ \A k \in 0..n : f[k] \in C
    BY <1>5, <1>7 DEF IsRun
  <1>9. ASSUME NEW m \in 0..n
        PROVE  Synced(e, a, m) = f[m]
    <2>. DEFINE g0 == [k \in 0..m |-> f[k]]
    <2>1. m \in Nat /\ \A k \in 0..m : k \in 0..n /\ (k = 0 \/ (k \in 1..m /\ k \in 1..n))
      BY <1>1
    <2>2. \A k \in 1..m : k \in 0..m /\ k - 1 \in 0..m /\ k \in 1..n
      BY <1>1
    <2>3. Run(g0, m)
      <3>1. \A k \in 0..m : f[k] = IF k = 0 THEN e ELSE Round(g0[k-1], k)
        <4>1. ASSUME NEW k \in 0..m
              PROVE  f[k] = IF k = 0 THEN e ELSE Round(g0[k-1], k)
          <5>1. k # 0 => k \in 1..n /\ k - 1 \in 0..m
            BY <2>1, <2>2
          <5>. QED
            BY <1>8, <5>1
        <4>. QED
          BY <4>1
      <3>. QED
        BY <3>1
    <2>4. ASSUME NEW g, Run(g, m)
          PROVE  g[m] = f[m]
      <3>1. g[0] = e /\ \A k \in 1..m : g[k] = Round(g[k-1], k)
        <4>1. 0 \in 0..m
          BY <2>1
        <4>2. \A k \in 0..m : g[k] = IF k = 0 THEN e ELSE Round(g[k-1], k)
          BY <2>4
        <4>3. \A k \in 1..m : k # 0
          OBVIOUS
        <4>. QED
          BY <2>2, <4>1, <4>2, <4>3
      <3>2. \A k \in 1..m : g[k-1] = f[k-1] => g[k] = f[k]
        BY <1>8, <2>2, <3>1
      <3>. HIDE DEF Run
      <3>. QED
        BY <1>8, <2>1, <3>1, <3>2, SameRun
    <2>5. IsView(e, a)
      BY DEF IsView, NoArray
    <2>6. Synced(e, a, m) = (CHOOSE g : Run(g, m))[m]
      BY <2>5 DEF Synced, Repeated, Round
    <2>. HIDE DEF Run, g0
    <2>. QED
      BY <2>3, <2>4, <2>6
  <1>10. ASSUME NEW k \in 0..n
         PROVE  /\ Synced(e, a, k) \in C
                /\ k = 0 => Synced(e, a, k) = e
                /\ k # 0 => Synced(e, a, k) = Round(Synced(e, a, k - 1), k)
    <2>1. k # 0 => k \in 1..n
      BY <1>1
    <2>. QED
      BY <1>5, <1>8, <1>9, <2>1
  <1>. QED
    BY <1>10 DEF Syncs, n, C, Round

(* What synchronising shows of elements that were removed.                 *)
Shows(e, x, a) ==
  UNION {Showing(Synced(e, a, k - 1), x.view_source, x.view_offset + k - 1) :
           k \in 1..x.count}

(* After k rounds.                                                         *)
SyncedTo(V, N, e, a, X, E, k) ==
  LET g == Synced(e, a, k)
      w == e[a].view_source
      d == e[a].view_offset
  IN /\ g \in Kept(V, N, e, X, {}, {w}, E)
     /\ d + e[a].count <= e[w].count =>
          /\ g[w].count = e[w].count
          /\ \A j \in 1..k : g[w].elements[d + j] = e[a].elements[j]

LEMMA SyncOn ==
  ASSUME NEW V, Null \in V, NEW N \in Nat, NEW e \in Heaps(V, N),
         NEW a \in 1..N, e[a].view_source # 0, NEW X, NEW o,
         WayOf(e, e[a].view_source, X, o), Syncs(V, N, e, a, X),
         NEW k \in 1..e[a].count, NEW E, Shows(e, e[a], a) \subseteq E,
         SyncedTo(V, N, e, a, X, E, k - 1)
  PROVE  SyncedTo(V, N, e, a, X, E, k)
  <1>1. PICK g, f, w, d, n : /\ g = Synced(e, a, k - 1) /\ f = Synced(e, a, k)
                             /\ w = e[a].view_source /\ d = e[a].view_offset
                             /\ n = e[a].count
    OBVIOUS
  <1>2. /\ e[a] \in Arr(V) /\ w \in 1..N /\ n \in Nat /\ d \in Nat
        /\ \A j \in 1..n : e[a].elements[j] \in V
    <2>1. e[a] \in Arr(V) /\ w < a
      BY <1>1 DEF Heaps
    <2>2. w \in Nat /\ n \in Nat /\ d \in Nat /\ \A j \in 1..n : e[a].elements[j] \in V
      BY <1>1, <2>1, Fields
    <2>. QED
      BY <1>1, <2>1, <2>2
  <1>3. k \in 1..n /\ k \in 0..n /\ k # 0 /\ d + k - 1 \in Nat
    BY <1>1, <1>2
  <1>4. f = SetInternal(g, w, d + k - 1, e[a].elements[k], FALSE)
    BY <1>1, <1>3 DEF Syncs
  <1>5. /\ g \in Kept(V, N, e, X, {}, {w}, E)
        /\ d + n <= e[w].count =>
             /\ g[w].count = e[w].count
             /\ \A j \in 1..k - 1 : g[w].elements[d + j] = e[a].elements[j]
    BY <1>1 DEF SyncedTo
  <1>6. Showing(g, w, d + k - 1) \subseteq E
    BY <1>1, <1>3 DEF Shows
  <1>7. e[a].elements[k] \in V /\ WayOf(e, w, X, o)
    BY <1>1, <1>2, <1>3
  <1>8. /\ f \in Kept(V, N, e, X, {}, {w}, E)
        /\ d + k - 1 < g[w].count => AssignedAt(g[w], f[w], d + k - 1, e[a].elements[k])
    <2>1. PICK i \in Nat : i = d + k - 1
      BY <1>3
    <2>2. PICK v \in V : v = e[a].elements[k]
      BY <1>7
    <2>. QED
      BY <1>2, <1>4, <1>5, <1>6, <1>7, <2>1, <2>2, AssignKeeps
  <1>9. ASSUME d + n <= e[w].count
        PROVE  /\ f[w].count = e[w].count
               /\ \A j \in 1..k : f[w].elements[d + j] = e[a].elements[j]
    <2>1. g[w].count = e[w].count /\ e[w].count \in Nat
      <3>1. e[w] \in Arr(V)
        BY <1>2 DEF Heaps
      <3>. QED
        BY <1>5, <1>9, <3>1, Fields
    <2>2. d + k - 1 < g[w].count
      <3>1. PICK c : c = g[w].count
        OBVIOUS
      <3>. QED
        BY <1>2, <1>3, <1>9, <2>1, <3>1
    <2>3. /\ f[w].count = g[w].count
          /\ \A j \in 1..g[w].count :
               f[w].elements[j] = IF j = d + k - 1 + 1 THEN e[a].elements[k]
                                  ELSE g[w].elements[j]
      BY <1>8, <2>2 DEF AssignedAt
    <2>4. ASSUME NEW j \in 1..k
          PROVE  f[w].elements[d + j] = e[a].elements[j]
      <3>1. PICK c : c = g[w].count
        OBVIOUS
      <3>2. d + j \in 1..c /\ (d + j = d + k - 1 + 1 <=> j = k) /\ (j # k => j \in 1..k - 1)
        BY <1>2, <1>3, <1>9, <2>1, <3>1
      <3>3. f[w].elements[d + j] = IF j = k THEN e[a].elements[k] ELSE g[w].elements[d + j]
        BY <2>3, <3>1, <3>2
      <3>4. j # k => g[w].elements[d + j] = e[a].elements[j]
        BY <1>5, <1>9, <3>2
      <3>. QED
        BY <3>3, <3>4
    <2>. QED
      BY <2>1, <2>3, <2>4
  <1>. QED
    BY <1>1, <1>8, <1>9 DEF SyncedTo

LEMMA SyncEnds ==
  ASSUME NEW V, Null \in V, NEW N \in Nat, NEW e \in Heaps(V, N), Agrees(N, e),
         NEW a \in 1..N, e[a].view_source # 0, NEW X, NEW o,
         WayOf(e, e[a].view_source, X, o), NEW E, Shows(e, e[a], a) \subseteq E
  PROVE  SyncedTo(V, N, e, a, X, E, e[a].count)
  <1>1. Syncs(V, N, e, a, X)
    BY SyncedIs
  <1>. DEFINE n == e[a].count
              S == {k \in 0..n : SyncedTo(V, N, e, a, X, E, k)}
  <1>2. n \in Nat /\ e[a] \in Arr(V)
    BY Fields DEF Heaps
  <1>3. 0 \in S
    <2>1. 0 \in 0..n
      BY <1>2
    <2>2. Synced(e, a, 0) = e
      BY <1>1, <2>1 DEF Syncs
    <2>3. e \in Kept(V, N, e, X, {}, {}, {})
      <3>1. e[a].view_source \in 1..N
        <4>1. e[a].view_source < a /\ e[a].view_source \in Nat
          BY <1>2, Fields DEF Heaps
        <4>. QED
          BY <4>1
      <3>2. X \subseteq 1..N
        BY <3>1, OnWay
      <3>. QED
        BY <3>2, KeptSelf
    <2>4. e \in Kept(V, N, e, X, {}, {e[a].view_source}, E)
      <3>1. {} \subseteq {} /\ {} \subseteq {e[a].view_source} /\ {} \subseteq E
        OBVIOUS
      <3>. QED
        BY <2>3, <3>1, KeptMore
    <2>5. \A j \in 1..0 : FALSE
      OBVIOUS
    <2>6. SyncedTo(V, N, e, a, X, E, 0)
      BY <2>2, <2>4, <2>5 DEF SyncedTo
    <2>. QED
      BY <2>1, <2>6
  <1>4. ASSUME NEW k \in 1..n, k - 1 \in S
        PROVE  k \in S
    <2>1. SyncedTo(V, N, e, a, X, E, k - 1) /\ k \in 0..n
      BY <1>2, <1>4
    <2>2. SyncedTo(V, N, e, a, X, E, k)
      BY <1>1, <2>1, SyncOn
    <2>. QED
      BY <2>1, <2>2
  <1>5. \A k \in 0..n : k \in S
    <2>. HIDE DEF S, n
    <2>. QED
      BY <1>2, <1>3, <1>4, Climbing
  <1>6. n \in 0..n
    BY <1>2
  <1>. QED
    BY <1>5, <1>6

(* Reversing and sorting, whatever state the views are in.                 *)
LEMMA SyncKeeps ==
  ASSUME NEW V, Null \in V, NEW N \in Nat, NEW h \in Heaps(V, N), Agrees(N, h),
         NEW a \in 1..N, NEW W, NEW off, WayOf(h, a, W, off),
         NEW s, \A j \in 1..h[a].count : s[j] \in V,
         NEW E, IsView(h, a) => Shows(Permuted(h, a, s), h[a], a) \subseteq E
  PROVE  SyncView(Permuted(h, a, s), a)
           \in Kept(V, N, h, W, {a}, {a, h[a].view_source}, E)
  <1>1. PICK e : e = Permuted(h, a, s)
    OBVIOUS
  <1>2. /\ e \in Kept(V, N, h, W, {a}, {a}, {a})
        /\ SameLink(h[a], e[a]) /\ e[a].count = h[a].count
        /\ \A x \in 1..N : x # a => e[x] = h[x]
    <2>1. Reordered(V, N, h, W, a, e)
      BY <1>1, PermutedKeeps
    <2>. QED
      BY <2>1 DEF Reordered
  <1>3. e \in Heaps(V, N) /\ Agrees(N, e) /\ \A x \in W : SameView(h[x], e[x])
    BY <1>2 DEF Kept
  <1>4. /\ e[a].view_source = h[a].view_source /\ e[a].view_offset = h[a].view_offset
        /\ a \in W /\ W \subseteq 1..N
    BY <1>2, OnWay DEF SameLink
  <1>. DEFINE w == h[a].view_source
              B == {a, w}
  <1>5. CASE ~IsView(h, a)
    <2>1. SyncView(e, a) = e
      BY <1>4, <1>5 DEF SyncView, Synced, IsView
    <2>2. \A x \in W : x \in {a} \ E /\ Slice(h, x) => Slice(e, x)
      BY <1>4, <1>5 DEF Slice, IsView, NoArray
    <2>3. e \in Kept(V, N, h, W, {a}, {a}, E)
      BY <1>2, <2>2, KeptLess
    <2>4. {a} \subseteq {a} /\ {a} \subseteq B /\ E \subseteq E
      OBVIOUS
    <2>. HIDE DEF B
    <2>5. e \in Kept(V, N, h, W, {a}, B, E)
      BY <2>3, <2>4, KeptMore
    <2>. QED
      BY <1>1, <2>1, <2>5 DEF B
  <1>6. CASE IsView(h, a)
    <2>. DEFINE X == W \ {a}
                E2 == E \cup {a}
    <2>1. w # 0 /\ w \in 1..N /\ w # a
      <3>1. w \in Nat /\ w < a
        BY Fields DEF Heaps
      <3>2. w # 0
        BY <1>6 DEF IsView, NoArray
      <3>. QED
        BY <3>1, <3>2
    <2>2. PICK o : w \in X /\ WayOf(h, w, X, o)
      <3>1. PICK o : Rest(h, a, W, off, o)
        BY <2>1, WayOn
      <3>. QED
        BY <3>1 DEF Rest
    <2>3. WayOf(e, w, X, o)
      BY <1>3, <2>2, WayKept DEF SameView
    <2>4. Shows(e, e[a], a) \subseteq E
      BY <1>1, <1>2, <1>4, <1>6 DEF Shows
    <2>5. SyncedTo(V, N, e, a, X, E, e[a].count)
      <3>1. e[a].view_source # 0 /\ WayOf(e, e[a].view_source, X, o)
        BY <1>4, <2>1, <2>3
      <3>. HIDE DEF X, w
      <3>. QED
        BY <1>3, <2>4, <3>1, SyncEnds
    <2>6. PICK g : g = SyncView(e, a)
      OBVIOUS
    <2>7. /\ g \in Kept(V, N, e, X, {}, {w}, E)
          /\ h[a].view_offset + h[a].count <= h[w].count =>
               /\ g[w].count = h[w].count
               /\ \A j \in 1..h[a].count :
                    g[w].elements[h[a].view_offset + j] = e[a].elements[j]
      <3>1. e[w] = h[w]
        BY <1>2, <2>1
      <3>. QED
        BY <1>2, <1>4, <2>5, <2>6, <3>1 DEF SyncedTo, SyncView
    <2>8. g \in Kept(V, N, e, W, {}, {w}, E2)
      <3>1. X \subseteq W /\ E \subseteq E2 /\ \A x \in W \ X : x \in E2
        OBVIOUS
      <3>. HIDE DEF X, E2, w
      <3>. QED
        BY <1>3, <1>4, <2>7, <3>1, KeptWider
    <2>9. g \in Kept(V, N, e, W, {a}, B, E2) /\ e \in Kept(V, N, h, W, {a}, B, E2)
      <3>1. {} \subseteq {a} /\ {w} \subseteq B /\ E2 \subseteq E2 /\ {a} \subseteq {a}
            /\ {a} \subseteq B /\ {a} \subseteq E2
        OBVIOUS
      <3>. HIDE DEF B, E2, w
      <3>. QED
        BY <1>2, <2>8, <3>1, KeptMore
    <2>10. g \in Kept(V, N, h, W, {a}, B, E2)
      <3>. HIDE DEF B, E2
      <3>. QED
        BY <1>4, <2>9, KeptTwice
    <2>11. g[a] = e[a]
      BY <1>4, <2>7 DEF Kept
    <2>12. Slice(h, a) => Slice(g, a)
      <3>1. ASSUME Slice(h, a)
            PROVE  Slice(g, a)
        <4>1. h[a].view_offset + h[a].count <= h[w].count
          BY <2>1, <3>1 DEF Slice
        <4>2. /\ g[a].view_source = w /\ g[a].view_offset = h[a].view_offset
              /\ g[a].count = h[a].count /\ g[a].elements = e[a].elements
          BY <1>2, <1>4, <2>11
        <4>. HIDE DEF w
        <4>. QED
          BY <2>7, <4>1, <4>2 DEF Slice
      <3>. QED
        BY <3>1
    <2>13. \A x \in W : x \in E2 \ E /\ Slice(h, x) => Slice(g, x)
      BY <2>12
    <2>14. g \in Kept(V, N, h, W, {a}, B, E)
      <3>. HIDE DEF B, E2
      <3>. QED
        BY <2>10, <2>13, KeptLess
    <2>. QED
      BY <1>1, <2>6, <2>14
  <1>. QED
    BY <1>5, <1>6

-----------------------------------------------------------------------------
(* A window and what is around it.  Before, an array has n elements D;     *)
(* then E, which has m elements q where D had c after the first o.         *)

Window(D, E, n, o, c, m, q) ==
  \A j \in 1..n - c + m :
    E[j] = IF j <= o THEN D[j] ELSE IF j <= o + m THEN q[j-o] ELSE D[j-m+c]

(* One step in a sequence: v put in after the first p, an element taken    *)
(* out, v put over one.                                                    *)
Put(q, r, m, p, v) ==
  \A j \in 1..m + 1 :
    r[j] = IF j <= p THEN q[j] ELSE IF j = p + 1 THEN v ELSE q[j-1]
Cut(q, r, m, p) == \A j \in 1..m - 1 : r[j] = IF j <= p THEN q[j] ELSE q[j+1]
Over(q, r, m, p, v) == \A j \in 1..m : r[j] = IF j = p + 1 THEN v ELSE q[j]

LEMMA WindowInsert ==
  ASSUME NEW D, NEW E, NEW E2, NEW q, NEW q2, NEW v,
         NEW n \in Nat, NEW o \in Nat, NEW c \in Nat, NEW m \in Nat, o + c <= n,
         NEW p \in 0..m, Window(D, E, n, o, c, m, q),
         Put(E, E2, n - c + m, o + p, v), Put(q, q2, m, p, v)
  PROVE  Window(D, E2, n, o, c, m + 1, q2)
  <1>0. /\ \A j \in 1..n - c + m + 1 :
             E2[j] = IF j <= o + p THEN E[j] ELSE IF j = o + p + 1 THEN v ELSE E[j-1]
        /\ \A j \in 1..m + 1 :
             q2[j] = IF j <= p THEN q[j] ELSE IF j = p + 1 THEN v ELSE q[j-1]
    BY DEF Put
  <1>1. \A j \in 1..n - c + m :
          E[j] = IF j <= o THEN D[j] ELSE IF j <= o + m THEN q[j-o] ELSE D[j-m+c]
    BY DEF Window
  <1>2. n - c + (m + 1) = n - c + m + 1
    OBVIOUS
  <1>3. ASSUME NEW j \in 1..n - c + m + 1
        PROVE  E2[j] = IF j <= o THEN D[j]
                       ELSE IF j <= o + (m + 1) THEN q2[j-o] ELSE D[j-(m+1)+c]
    <2>1. CASE j <= o
      <3>1. j <= o + p /\ j \in 1..n - c + m
        BY <2>1
      <3>. QED
        BY <1>0, <1>1, <2>1, <3>1
    <2>2. CASE o < j /\ j <= o + p
      <3>1. /\ j \in 1..n - c + m /\ ~(j <= o) /\ j <= o + m /\ j <= o + (m + 1)
            /\ j - o \in 1..m + 1 /\ j - o <= p
        BY <2>2
      <3>2. E2[j] = E[j] /\ E[j] = q[j-o] /\ q2[j-o] = q[j-o]
        BY <1>0, <1>1, <2>2, <3>1
      <3>. QED
        BY <3>1, <3>2
    <2>3. CASE j = o + p + 1
      <3>1. /\ ~(j <= o + p) /\ ~(j <= o) /\ j <= o + (m + 1)
            /\ j - o \in 1..m + 1 /\ ~(j - o <= p) /\ j - o = p + 1
        BY <2>3
      <3>2. E2[j] = v /\ q2[j-o] = v
        BY <1>0, <2>3, <3>1
      <3>. QED
        BY <3>1, <3>2
    <2>4. CASE o + p + 1 < j /\ j <= o + (m + 1)
      <3>1. /\ ~(j <= o + p) /\ j # o + p + 1 /\ ~(j <= o)
            /\ j - 1 \in 1..n - c + m /\ ~(j - 1 <= o) /\ j - 1 <= o + m
            /\ j - o \in 1..m + 1 /\ ~(j - o <= p) /\ j - o # p + 1
            /\ j - 1 - o = j - o - 1
        BY <2>4
      <3>2. E2[j] = E[j-1] /\ E[j-1] = q[j-1-o] /\ q2[j-o] = q[j-o-1]
        BY <1>0, <1>1, <3>1
      <3>. QED
        BY <2>4, <3>1, <3>2
    <2>5. CASE o + (m + 1) < j
      <3>1. /\ ~(j <= o + p) /\ j # o + p + 1 /\ ~(j <= o) /\ ~(j <= o + (m + 1))
            /\ j - 1 \in 1..n - c + m /\ ~(j - 1 <= o) /\ ~(j - 1 <= o + m)
            /\ j - 1 - m + c = j - (m + 1) + c
        BY <2>5
      <3>2. E2[j] = E[j-1] /\ E[j-1] = D[j-1-m+c]
        BY <1>0, <1>1, <3>1
      <3>. QED
        BY <3>1, <3>2
    <2>. QED
      BY <2>1, <2>2, <2>3, <2>4, <2>5
  <1>. QED
    BY <1>2, <1>3 DEF Window

LEMMA WindowRemove ==
  ASSUME NEW D, NEW E, NEW E2, NEW q, NEW q2,
         NEW n \in Nat, NEW o \in Nat, NEW c \in Nat, NEW m \in Nat, o + c <= n,
         NEW p \in 0..m - 1, Window(D, E, n, o, c, m, q),
         Cut(E, E2, n - c + m, o + p), Cut(q, q2, m, p)
  PROVE  Window(D, E2, n, o, c, m - 1, q2)
  <1>0. /\ \A j \in 1..n - c + m - 1 :
             E2[j] = IF j <= o + p THEN E[j] ELSE E[j+1]
        /\ \A j \in 1..m - 1 : q2[j] = IF j <= p THEN q[j] ELSE q[j+1]
    BY DEF Cut
  <1>1. \A j \in 1..n - c + m :
          E[j] = IF j <= o THEN D[j] ELSE IF j <= o + m THEN q[j-o] ELSE D[j-m+c]
    BY DEF Window
  <1>2. n - c + (m - 1) = n - c + m - 1
    OBVIOUS
  <1>3. ASSUME NEW j \in 1..n - c + m - 1
        PROVE  E2[j] = IF j <= o THEN D[j]
                       ELSE IF j <= o + (m - 1) THEN q2[j-o] ELSE D[j-(m-1)+c]
    <2>1. CASE j <= o
      <3>1. j <= o + p /\ j \in 1..n - c + m
        BY <2>1
      <3>. QED
        BY <1>0, <1>1, <2>1, <3>1
    <2>2. CASE o < j /\ j <= o + p
      <3>1. /\ j \in 1..n - c + m /\ ~(j <= o) /\ j <= o + m /\ j <= o + (m - 1)
            /\ j - o \in 1..m - 1 /\ j - o <= p
        BY <2>2
      <3>2. E2[j] = E[j] /\ E[j] = q[j-o] /\ q2[j-o] = q[j-o]
        BY <1>0, <1>1, <2>2, <3>1
      <3>. QED
        BY <3>1, <3>2
    <2>3. CASE o + p < j /\ j <= o + (m - 1)
      <3>1. /\ ~(j <= o + p) /\ ~(j <= o)
            /\ j + 1 \in 1..n - c + m /\ ~(j + 1 <= o) /\ j + 1 <= o + m
            /\ j - o \in 1..m - 1 /\ ~(j - o <= p) /\ j + 1 - o = j - o + 1
        BY <2>3
      <3>2. E2[j] = E[j+1] /\ E[j+1] = q[j+1-o] /\ q2[j-o] = q[j-o+1]
        BY <1>0, <1>1, <3>1
      <3>. QED
        BY <2>3, <3>1, <3>2
    <2>4. CASE o + (m - 1) < j
      <3>1. /\ ~(j <= o + p) /\ ~(j <= o) /\ ~(j <= o + (m - 1))
            /\ j + 1 \in 1..n - c + m /\ ~(j + 1 <= o) /\ ~(j + 1 <= o + m)
            /\ j + 1 - m + c = j - (m - 1) + c
        BY <2>4
      <3>2. E2[j] = E[j+1] /\ E[j+1] = D[j+1-m+c]
        BY <1>0, <1>1, <3>1
      <3>. QED
        BY <3>1, <3>2
    <2>. QED
      BY <2>1, <2>2, <2>3, <2>4
  <1>. QED
    BY <1>2, <1>3 DEF Window

LEMMA WindowSet ==
  ASSUME NEW D, NEW E, NEW E2, NEW q, NEW q2, NEW v,
         NEW n \in Nat, NEW o \in Nat, NEW c \in Nat, NEW m \in Nat, o + c <= n,
         NEW p \in 0..m - 1, Window(D, E, n, o, c, m, q),
         Over(E, E2, n - c + m, o + p, v), Over(q, q2, m, p, v)
  PROVE  Window(D, E2, n, o, c, m, q2)
  <1>0. /\ \A j \in 1..n - c + m : E2[j] = IF j = o + p + 1 THEN v ELSE E[j]
        /\ \A j \in 1..m : q2[j] = IF j = p + 1 THEN v ELSE q[j]
    BY DEF Over
  <1>1. \A j \in 1..n - c + m :
          E[j] = IF j <= o THEN D[j] ELSE IF j <= o + m THEN q[j-o] ELSE D[j-m+c]
    BY DEF Window
  <1>2. ASSUME NEW j \in 1..n - c + m
        PROVE  E2[j] = IF j <= o THEN D[j]
                       ELSE IF j <= o + m THEN q2[j-o] ELSE D[j-m+c]
    <2>1. CASE j <= o
      <3>1. j # o + p + 1
        BY <2>1
      <3>. QED
        BY <1>0, <1>1, <2>1, <3>1
    <2>2. CASE o < j /\ j <= o + m
      <3>1. ~(j <= o) /\ j - o \in 1..m /\ (j - o = p + 1 <=> j = o + p + 1)
        BY <2>2
      <3>. QED
        BY <1>0, <1>1, <2>2, <3>1
    <2>3. CASE o + m < j
      <3>1. ~(j <= o) /\ ~(j <= o + m) /\ j # o + p + 1
        BY <2>3
      <3>. QED
        BY <1>0, <1>1, <3>1
    <2>. QED
      BY <2>1, <2>2, <2>3
  <1>. QED
    BY <1>2 DEF Window

-----------------------------------------------------------------------------
(* Several edits of one array.                                             *)

LEMMA AltersAgrees ==
  ASSUME NEW V, NEW N \in Nat, NEW h \in Heaps(V, N), NEW g, NEW W,
         Alters(V, N, h, g, W), Agrees(N, h)
  PROVE  Agrees(N, g)
  <1>1. ASSUME NEW x \in 1..N, g[x].view_source # NoArray
        PROVE  g[x].view_source_version <= g[g[x].view_source].mutation_version
    <2>. DEFINE w == h[x].view_source
    <2>1. g[x].view_source = w
      BY DEF Alters
    <2>2. h[x] \in Arr(V) /\ w < x /\ w # 0 /\ g \in Heaps(V, N)
      BY <1>1, <2>1 DEF Heaps, Alters, NoArray
    <2>3. w \in 1..N
      <3>1. w \in Nat
        BY <2>2, Fields
      <3>. QED
        BY <2>2, <3>1
    <2>4. h[w] \in Arr(V) /\ g[w] \in Arr(V)
      BY <2>2, <2>3 DEF Heaps
    <2>5. /\ h[w].mutation_version \in Nat /\ g[w].mutation_version \in Nat
          /\ h[x].view_source_version \in Nat
      BY <2>2, <2>4, Fields
    <2>6. h[w].mutation_version <= g[w].mutation_version
      BY <2>3, <2>5 DEF Alters
    <2>7. h[x].view_source_version <= h[w].mutation_version
      BY <1>1, <2>1 DEF Agrees
    <2>8. \/ g[x].view_source_version = h[x].view_source_version
          \/ g[x].view_source_version = g[w].mutation_version
      BY DEF Alters
    <2>. QED
      BY <2>1, <2>5, <2>6, <2>7, <2>8
  <1>. QED
    BY <1>1 DEF Agrees

(* What edits made of an array x of their way: y shows m elements q where  *)
(* x showed c after the first o.                                           *)
Moved(x, y, o, c, m, q) ==
  /\ y.view_source = x.view_source /\ y.view_offset = x.view_offset
  /\ y.mutation_version >= x.mutation_version
  /\ y.count = x.count - c + m
  /\ Window(x.elements, y.elements, x.count, o, c, m, q)

LEMMA MovedOn ==
  ASSUME NEW V, NEW x \in Arr(V), NEW y \in Arr(V), NEW z \in Arr(V),
         NEW o \in Nat, NEW c \in Nat, NEW m \in Nat, o + c <= x.count,
         NEW q, Moved(x, y, o, c, m, q),
         z.view_source = y.view_source, z.view_offset = y.view_offset,
         z.mutation_version > y.mutation_version,
         NEW p \in Nat, NEW r, NEW v
  PROVE  /\ p <= m /\ InsertedAt(y, z, o + p, v) /\ Put(q, r, m, p, v)
              => Moved(x, z, o, c, m + 1, r)
         /\ p < m /\ CutAt(y, z, o + p) /\ Cut(q, r, m, p)
              => Moved(x, z, o, c, m - 1, r)
         /\ p < m /\ AssignedAt(y, z, o + p, v) /\ Over(q, r, m, p, v)
              => Moved(x, z, o, c, m, r)
  <1>. DEFINE D == x.elements
              n == x.count
              E == y.elements
              E2 == z.elements
  <1>1. /\ n \in Nat /\ y.count = n - c + m /\ Window(D, E, n, o, c, m, q)
        /\ o + c <= n
    BY Fields DEF Moved
  <1>2. /\ z.view_source = x.view_source /\ z.view_offset = x.view_offset
        /\ z.mutation_version >= x.mutation_version
    <2>1. /\ x.mutation_version \in Nat /\ y.mutation_version \in Nat
          /\ z.mutation_version \in Nat
      BY Fields
    <2>. QED
      BY <2>1 DEF Moved
  <1>3. ASSUME p <= m, InsertedAt(y, z, o + p, v), Put(q, r, m, p, v)
        PROVE  Moved(x, z, o, c, m + 1, r)
    <2>1. z.count = n - c + m + 1 /\ n - c + m + 1 = n - c + (m + 1)
      BY <1>1, <1>3 DEF InsertedAt
    <2>2. Put(E, E2, n - c + m, o + p, v)
      BY <1>1, <1>3 DEF InsertedAt, Put
    <2>3. p \in 0..m
      BY <1>3
    <2>. HIDE DEF D, E, E2, n
    <2>4. Window(D, E2, n, o, c, m + 1, r)
      BY <1>1, <1>3, <2>2, <2>3, WindowInsert
    <2>. QED
      BY <1>2, <2>1, <2>4 DEF Moved, D, E2, n
  <1>4. ASSUME p < m, CutAt(y, z, o + p), Cut(q, r, m, p)
        PROVE  Moved(x, z, o, c, m - 1, r)
    <2>1. z.count = n - c + m - 1 /\ n - c + m - 1 = n - c + (m - 1)
      BY <1>1, <1>4 DEF CutAt
    <2>2. Cut(E, E2, n - c + m, o + p)
      BY <1>1, <1>4 DEF CutAt, Cut
    <2>3. p \in 0..m - 1
      BY <1>4
    <2>. HIDE DEF D, E, E2, n
    <2>4. Window(D, E2, n, o, c, m - 1, r)
      BY <1>1, <1>4, <2>2, <2>3, WindowRemove
    <2>. QED
      BY <1>2, <2>1, <2>4 DEF Moved, D, E2, n
  <1>5. ASSUME p < m, AssignedAt(y, z, o + p, v), Over(q, r, m, p, v)
        PROVE  Moved(x, z, o, c, m, r)
    <2>1. z.count = n - c + m
      BY <1>1, <1>5 DEF AssignedAt
    <2>2. Over(E, E2, n - c + m, o + p, v)
      BY <1>1, <1>5 DEF AssignedAt, Over
    <2>3. p \in 0..m - 1
      BY <1>5
    <2>. HIDE DEF D, E, E2, n
    <2>4. Window(D, E2, n, o, c, m, r)
      BY <1>1, <1>5, <2>2, <2>3, WindowSet
    <2>. QED
      BY <1>2, <2>1, <2>4 DEF Moved, D, E2, n
  <1>. QED
    BY <1>3, <1>4, <1>5

(* g is h after edits of the arrays X.                                     *)
Spread(V, N, h, g, X, off, c, m, q) ==
  /\ g \in Heaps(V, N) /\ Agrees(N, g)
  /\ \A x \in X : Moved(h[x], g[x], off[x], c, m, q)

(* Edits are made at s, in which the window begins at d; in the arrays X   *)
(* on its way it begins at off.                                            *)
Placed(h, X, o, off, d, c) ==
  \A x \in X : off[x] \in Nat /\ off[x] = o[x] + d /\ off[x] + c <= h[x].count

(* A step of an edit at s: in all the arrays on its way, by the three      *)
(* edits.                                                                  *)
Steps(g, g2, X, off, m, p, v, q, r, k) ==
  \/ /\ k = m + 1 /\ p <= m /\ Put(q, r, m, p, v)
     /\ \A x \in X : InsertedAt(g[x], g2[x], off[x] + p, v)
  \/ /\ k = m - 1 /\ p < m /\ Cut(q, r, m, p)
     /\ \A x \in X : CutAt(g[x], g2[x], off[x] + p)
  \/ /\ k = m /\ p < m /\ Over(q, r, m, p, v)
     /\ \A x \in X : AssignedAt(g[x], g2[x], off[x] + p, v)

LEMMA SpreadOn ==
  ASSUME NEW V, NEW N \in Nat, NEW h \in Heaps(V, N), NEW g, NEW g2,
         NEW s \in 1..N, NEW X, NEW o, WayOf(g, s, X, o), NEW off,
         NEW d \in Nat, NEW c \in Nat, NEW m \in Nat, NEW q,
         Placed(h, X, o, off, d, c), Spread(V, N, h, g, X, off, c, m, q),
         Alters(V, N, g, g2, X), NEW p \in Nat, NEW v, NEW r, NEW k,
         Steps(g, g2, X, off, m, p, v, q, r, k)
  PROVE  Spread(V, N, h, g2, X, off, c, k, r)
  <1>1. g2 \in Heaps(V, N) /\ Agrees(N, g2)
    <2>1. g \in Heaps(V, N) /\ Agrees(N, g)
      BY DEF Spread
    <2>2. Agrees(N, g2)
      BY <2>1, AltersAgrees
    <2>. QED
      BY <2>2 DEF Alters
  <1>2. ASSUME NEW x \in X
        PROVE  Moved(h[x], g2[x], off[x], c, k, r)
    <2>1. /\ h[x] \in Arr(V) /\ g[x] \in Arr(V) /\ x \in 1..N
          /\ off[x] \in Nat /\ off[x] + c <= h[x].count
          /\ Moved(h[x], g[x], off[x], c, m, q)
      <3>1. X \subseteq 1..N /\ g \in Heaps(V, N)
        BY OnWay DEF Spread
      <3>2. x \in 1..N
        BY <3>1
      <3>. QED
        BY <3>1, <3>2 DEF Heaps, Placed, Spread
    <2>2. g2[x] \in Arr(V)
      BY <1>1, <2>1 DEF Heaps
    <2>3. /\ g2[x].view_source = g[x].view_source
          /\ g2[x].view_offset = g[x].view_offset
          /\ g2[x].mutation_version > g[x].mutation_version
      BY DEF Alters
    <2>4. /\ p <= m /\ InsertedAt(g[x], g2[x], off[x] + p, v) /\ Put(q, r, m, p, v)
               => Moved(h[x], g2[x], off[x], c, m + 1, r)
          /\ p < m /\ CutAt(g[x], g2[x], off[x] + p) /\ Cut(q, r, m, p)
               => Moved(h[x], g2[x], off[x], c, m - 1, r)
          /\ p < m /\ AssignedAt(g[x], g2[x], off[x] + p, v) /\ Over(q, r, m, p, v)
               => Moved(h[x], g2[x], off[x], c, m, r)
      BY <2>1, <2>2, <2>3, MovedOn
    <2>. QED
      BY <2>4 DEF Steps
  <1>. QED
    BY <1>1, <1>2 DEF Spread

-----------------------------------------------------------------------------
(* What one call of an array function can make of the heap h by edits of a *)
(* and, through it, of the arrays W on its way.                            *)
Reach(V, N, h, a, W, off) ==
  {g \in Heaps(V, N) :
     /\ Spread(V, N, h, g, W, off, h[a].count, g[a].count, g[a].elements)
     /\ \A x \in 1..N : x \notin W => g[x] = h[x]
     /\ \/ g = h
        \/ \A x \in W : g[x].mutation_version > h[x].mutation_version}

(* The window of a is one in every array on its way.                       *)
LEMMA WindowFits ==
  ASSUME NEW V, NEW N \in Nat, NEW h \in Heaps(V, N), NEW a \in 1..N,
         NEW W, NEW off, WayOf(h, a, W, off), \A x \in W : Slice(h, x)
  PROVE  \A x \in W :
           /\ off[x] \in Nat /\ off[x] + h[a].count <= h[x].count
           /\ \A j \in 1..h[a].count : h[x].elements[off[x] + j] = h[a].elements[j]
  <1>. DEFINE c == h[a].count
              q == h[a].elements
              S == {x \in W :
                      /\ off[x] + c <= h[x].count
                      /\ \A j \in 1..c : h[x].elements[off[x] + j] = q[j]}
  <1>1. /\ a \in W /\ off[a] = 0
        /\ \A x \in W : off[x] \in Nat /\ h[x] \in Arr(V)
    BY OnWay
  <1>2. \A x \in W : h[x].count \in Nat
    BY <1>1, Fields
  <1>3. a \in S
    BY <1>1, <1>2
  <1>4. ASSUME NEW y \in W, y \in S, h[y].view_source # 0
        PROVE  h[y].view_source \in S
    <2>. DEFINE w == h[y].view_source
                f == h[y].view_offset
    <2>1. w \in W /\ off[w] = off[y] + f /\ f \in Nat
      BY <1>4, OnWay
    <2>2. /\ f + h[y].count <= h[w].count
          /\ \A j \in 1..h[y].count : h[y].elements[j] = h[w].elements[f + j]
      BY <1>4 DEF Slice
    <2>. HIDE DEF w, f
    <2>3. off[y] + c <= h[y].count /\ \A j \in 1..c : h[y].elements[off[y] + j] = q[j]
      BY <1>4
    <2>. DEFINE b == off[y]
                k == h[y].count
    <2>4. b \in Nat /\ k \in Nat /\ c \in Nat /\ off[w] = b + f /\ f \in Nat
          /\ h[w].count \in Nat /\ b + c <= k /\ f + k <= h[w].count
      BY <1>1, <1>2, <2>1, <2>2, <2>3
    <2>. HIDE DEF b, k, c
    <2>5. off[w] + c <= h[w].count
      BY <2>4
    <2>6. ASSUME NEW j \in 1..c
          PROVE  h[w].elements[off[w] + j] = q[j]
      <3>1. off[y] + j \in 1..h[y].count /\ f + (off[y] + j) = off[w] + j
        BY <2>4 DEF b, k
      <3>. QED
        BY <2>2, <2>3, <3>1
    <2>. QED
      BY <2>1, <2>5, <2>6 DEF w, c
  <1>5. W \subseteq S
    <2>. HIDE DEF S
    <2>. QED
      BY <1>3, <1>4, UpTheWay
  <1>. QED
    BY <1>1, <1>5

LEMMA ReachSelf ==
  ASSUME NEW V, NEW N \in Nat, NEW h \in Heaps(V, N), NEW a \in 1..N,
         NEW W, NEW off, WayOf(h, a, W, off), \A x \in W : Slice(h, x),
         Agrees(N, h)
  PROVE  /\ h \in Reach(V, N, h, a, W, off)
         /\ Placed(h, W, off, off, 0, h[a].count)
  <1>. DEFINE c == h[a].count
              q == h[a].elements
  <1>1. \A x \in W : h[x] \in Arr(V) /\ off[x] \in Nat
    BY OnWay
  <1>2. \A x \in W : h[x].count \in Nat /\ h[x].mutation_version \in Nat
    BY <1>1, Fields
  <1>3. c \in Nat
    BY <1>2, OnWay
  <1>4. \A x \in W : /\ off[x] + c <= h[x].count
                     /\ \A j \in 1..c : h[x].elements[off[x] + j] = q[j]
    BY WindowFits
  <1>5. ASSUME NEW x \in W
        PROVE  Moved(h[x], h[x], off[x], c, c, q)
    <2>. DEFINE D == h[x].elements
                n == h[x].count
                f == off[x]
    <2>1. n \in Nat /\ f \in Nat /\ f + c <= n /\ \A j \in 1..c : D[f + j] = q[j]
      BY <1>1, <1>2, <1>4
    <2>. HIDE DEF D, n, f
    <2>2. ASSUME NEW j \in 1..n - c + c
          PROVE  D[j] = IF j <= f THEN D[j] ELSE IF j <= f + c THEN q[j-f] ELSE D[j-c+c]
      <3>1. CASE f < j /\ j <= f + c
        <4>1. j - f \in 1..c /\ f + (j - f) = j
          BY <1>3, <2>1, <3>1
        <4>2. D[f + (j - f)] = q[j - f]
          BY <2>1, <4>1
        <4>. QED
          BY <2>1, <3>1, <4>1, <4>2
      <3>2. CASE ~(f < j /\ j <= f + c)
        <4>1. j - c + c = j
          BY <1>3
        <4>. QED
          BY <1>3, <2>1, <3>2, <4>1
      <3>. QED
        BY <3>1, <3>2
    <2>3. Window(D, D, n, f, c, c, q)
      BY <2>2 DEF Window
    <2>4. n = n - c + c
      BY <1>3, <2>1
    <2>. QED
      BY <1>2, <2>3, <2>4 DEF Moved, D, n, f
  <1>6. Placed(h, W, off, off, 0, c)
    BY <1>1, <1>4 DEF Placed
  <1>. QED
    BY <1>5, <1>6 DEF Reach, Spread

LEMMA ReachFacts ==
  ASSUME NEW V, NEW N \in Nat, NEW h \in Heaps(V, N), NEW a \in 1..N,
         NEW W, NEW off, WayOf(h, a, W, off),
         Placed(h, W, off, off, 0, h[a].count), NEW g \in Reach(V, N, h, a, W, off)
  PROVE  /\ g \in Heaps(V, N) /\ WayOf(g, a, W, off) /\ W \subseteq 1..N /\ a \in W
         /\ off[a] = 0 /\ h[a].count \in Nat /\ g[a].count \in Nat /\ g[a] \in Arr(V)
         /\ g[a].elements \in Seq(V)
         /\ \A x \in W : off[x] \in Nat /\ off[x] + g[a].count <= g[x].count
                         /\ g[x].count \in Nat
         /\ Spread(V, N, h, g, W, off, h[a].count, g[a].count, g[a].elements)
  <1>1. /\ g \in Heaps(V, N)
        /\ Spread(V, N, h, g, W, off, h[a].count, g[a].count, g[a].elements)
    BY DEF Reach
  <1>2. \A x \in W : /\ g[x].view_source = h[x].view_source
                     /\ g[x].view_offset = h[x].view_offset
    BY <1>1 DEF Spread, Moved
  <1>3. WayOf(g, a, W, off)
    BY <1>2, WayKept
  <1>4. W \subseteq 1..N /\ a \in W /\ off[a] = 0
    BY OnWay
  <1>5. h[a] \in Arr(V) /\ g[a] \in Arr(V)
    BY <1>1 DEF Heaps
  <1>6. h[a].count \in Nat /\ g[a].count \in Nat /\ g[a].elements \in Seq(V)
    BY <1>5, Fields
  <1>7. \A x \in W : off[x] \in Nat /\ off[x] + g[a].count <= g[x].count
                     /\ g[x].count \in Nat
    <2>1. ASSUME NEW x \in W
          PROVE  off[x] \in Nat /\ off[x] + g[a].count <= g[x].count /\ g[x].count \in Nat
      <3>1. off[x] \in Nat /\ off[x] + h[a].count <= h[x].count
        BY DEF Placed
      <3>2. g[x].count = h[x].count - h[a].count + g[a].count
        BY <1>1 DEF Spread, Moved
      <3>3. h[x] \in Arr(V) /\ g[x] \in Arr(V)
        BY <1>1, <1>4 DEF Heaps
      <3>4. h[x].count \in Nat /\ g[x].count \in Nat
        BY <3>3, Fields
      <3>. QED
        BY <1>6, <3>1, <3>2, <3>4
    <2>. QED
      BY <2>1
  <1>. QED
    BY <1>1, <1>3, <1>4, <1>5, <1>6, <1>7

LEMMA ReachOn ==
  ASSUME NEW V, NEW N \in Nat, NEW h \in Heaps(V, N), NEW a \in 1..N,
         NEW W, NEW off, WayOf(h, a, W, off),
         Placed(h, W, off, off, 0, h[a].count), NEW g \in Reach(V, N, h, a, W, off),
         NEW g2, Alters(V, N, g, g2, W), NEW p \in Nat, NEW v,
         Steps(g, g2, W, off, g[a].count, p, v, g[a].elements, g2[a].elements,
               g2[a].count)
  PROVE  g2 \in Reach(V, N, h, a, W, off)
  <1>1. /\ g \in Heaps(V, N) /\ WayOf(g, a, W, off) /\ W \subseteq 1..N
        /\ h[a].count \in Nat /\ g[a].count \in Nat
        /\ Spread(V, N, h, g, W, off, h[a].count, g[a].count, g[a].elements)
    BY ReachFacts
  <1>2. Spread(V, N, h, g2, W, off, h[a].count, g2[a].count, g2[a].elements)
    <2>1. 0 \in Nat
      OBVIOUS
    <2>. QED
      BY <1>1, <2>1, SpreadOn
  <1>3. g2 \in Heaps(V, N) /\ \A x \in 1..N : x \notin W => g2[x] = h[x]
    BY DEF Alters, Reach
  <1>4. ASSUME NEW x \in W
        PROVE  g2[x].mutation_version > h[x].mutation_version
    <2>1. g2[x].mutation_version > g[x].mutation_version
      BY DEF Alters
    <2>2. g[x].mutation_version >= h[x].mutation_version
      BY <1>1 DEF Spread, Moved
    <2>3. h[x] \in Arr(V) /\ g[x] \in Arr(V) /\ g2[x] \in Arr(V)
      BY <1>1, <1>3 DEF Heaps
    <2>4. /\ h[x].mutation_version \in Nat /\ g[x].mutation_version \in Nat
          /\ g2[x].mutation_version \in Nat
      BY <2>3, Fields
    <2>. QED
      BY <2>1, <2>2, <2>4
  <1>. QED
    BY <1>2, <1>3, <1>4 DEF Reach

(* All that an edit of a needs.                                            *)
Ready(V, N, h, a, W, off) ==
  /\ N \in Nat /\ h \in Heaps(V, N) /\ a \in 1..N
  /\ WayOf(h, a, W, off) /\ Placed(h, W, off, off, 0, h[a].count)
  /\ h \in Reach(V, N, h, a, W, off)

Longer(g, g2, a) == g2[a].count = g[a].count + 1
Shorter(g, g2, a, i) ==
  g2[a].count = IF i \in 0..g[a].count-1 THEN g[a].count - 1 ELSE g[a].count

LEMMA ReachInsert ==
  ASSUME NEW V, NEW N, NEW h, NEW a, NEW W, NEW off, Ready(V, N, h, a, W, off),
         NEW g \in Reach(V, N, h, a, W, off),
         NEW i \in 0..g[a].count, NEW v \in V
  PROVE  LET g2 == InsertInternal(g, a, i, v, FALSE) IN
         /\ g2 \in Reach(V, N, h, a, W, off)
         /\ Longer(g, g2, a)
  <1>. DEFINE g2 == InsertInternal(g, a, i, v, FALSE)
  <1>. /\ N \in Nat /\ h \in Heaps(V, N) /\ a \in 1..N
       /\ WayOf(h, a, W, off) /\ Placed(h, W, off, off, 0, h[a].count)
    BY DEF Ready
  <1>1. /\ g \in Heaps(V, N) /\ WayOf(g, a, W, off) /\ a \in W /\ off[a] = 0
        /\ g[a].count \in Nat
        /\ \A x \in W : off[x] \in Nat /\ off[x] + g[a].count <= g[x].count
                        /\ g[x].count \in Nat
    BY ReachFacts
  <1>2. i \in Nat /\ i <= g[a].count /\ \A x \in W : off[x] + i <= g[x].count
    <2>1. i \in Nat /\ i <= g[a].count
      BY <1>1
    <2>2. ASSUME NEW x \in W
          PROVE  off[x] + i <= g[x].count
      <3>1. PICK p, m, c : p = off[x] /\ m = g[x].count /\ c = g[a].count
        OBVIOUS
      <3>2. /\ p \in Nat /\ m \in Nat /\ c \in Nat /\ i \in Nat
            /\ p + c <= m /\ i <= c
        BY <1>1, <2>1, <3>1
      <3>3. p + i <= m
        BY <3>2
      <3>. QED
        BY <3>1, <3>3
    <2>. QED
      BY <2>1, <2>2
  <1>3. Alters(V, N, g, g2, W) /\ \A x \in W : InsertedAt(g[x], g2[x], off[x] + i, v)
    BY <1>1, <1>2, InsertIs
  <1>. HIDE DEF g2
  <1>4. InsertedAt(g[a], g2[a], i, v)
    <2>1. off[a] + i = i
      BY <1>1, <1>2
    <2>. QED
      BY <1>1, <1>3, <2>1
  <1>5. g2[a].count = g[a].count + 1 /\ Put(g[a].elements, g2[a].elements, g[a].count, i, v)
    BY <1>4 DEF InsertedAt, Put
  <1>6. Steps(g, g2, W, off, g[a].count, i, v, g[a].elements, g2[a].elements, g2[a].count)
    BY <1>2, <1>3, <1>5 DEF Steps
  <1>7. g2 \in Reach(V, N, h, a, W, off)
    BY <1>2, <1>3, <1>6, ReachOn
  <1>. QED
    BY <1>5, <1>7 DEF g2, Longer

LEMMA ReachRemove ==
  ASSUME NEW V, NEW N, NEW h, NEW a, NEW W, NEW off, Ready(V, N, h, a, W, off),
         NEW g \in Reach(V, N, h, a, W, off),
         NEW i
  PROVE  LET g2 == RemoveInternal(g, a, i, FALSE) IN
         /\ g2 \in Reach(V, N, h, a, W, off)
         /\ Shorter(g, g2, a, i)
  <1>. DEFINE g2 == RemoveInternal(g, a, i, FALSE)
  <1>. /\ N \in Nat /\ h \in Heaps(V, N) /\ a \in 1..N
       /\ WayOf(h, a, W, off) /\ Placed(h, W, off, off, 0, h[a].count)
    BY DEF Ready
  <1>1. /\ g \in Heaps(V, N) /\ WayOf(g, a, W, off) /\ a \in W /\ off[a] = 0
        /\ g[a].count \in Nat
        /\ \A x \in W : off[x] \in Nat /\ off[x] + g[a].count <= g[x].count
                        /\ g[x].count \in Nat
    BY ReachFacts
  <1>2. CASE i \notin 0..g[a].count-1
    <2>1. g2 = g
      BY <1>2 DEF RemoveInternal
    <2>. QED
      BY <1>2, <2>1 DEF Shorter
  <1>3. CASE i \in 0..g[a].count-1
    <2>1. i \in Nat /\ i < g[a].count /\ \A x \in W : off[x] + i < g[x].count
      BY <1>1, <1>3
    <2>2. Alters(V, N, g, g2, W) /\ \A x \in W : CutAt(g[x], g2[x], off[x] + i)
      BY <1>1, <2>1, RemoveIs
    <2>. HIDE DEF g2
    <2>3. CutAt(g[a], g2[a], i)
      <3>1. off[a] + i = i
        BY <1>1, <2>1
      <3>. QED
        BY <1>1, <2>2, <3>1
    <2>4. g2[a].count = g[a].count - 1 /\ Cut(g[a].elements, g2[a].elements, g[a].count, i)
      BY <2>3 DEF CutAt, Cut
    <2>5. Steps(g, g2, W, off, g[a].count, i, 0, g[a].elements, g2[a].elements, g2[a].count)
      BY <2>1, <2>2, <2>4 DEF Steps
    <2>6. g2 \in Reach(V, N, h, a, W, off)
      BY <2>1, <2>2, <2>5, ReachOn
    <2>. QED
      BY <1>3, <2>4, <2>6 DEF g2, Shorter
  <1>. QED
    BY <1>2, <1>3

(* What holds of the heap h and stays so in every insertion into a and     *)
(* removal from it holds after every call of an array function.            *)
Closed(V, N, h, a, R) ==
  /\ N \in Nat /\ h \in R /\ a \in 1..N /\ R \subseteq Heaps(V, N)
  /\ \A g \in R : \A i \in 0..g[a].count, v \in V :
       /\ InsertInternal(g, a, i, v, FALSE) \in R
       /\ Longer(g, InsertInternal(g, a, i, v, FALSE), a)
  /\ \A g \in R : \A i :
       /\ RemoveInternal(g, a, i, FALSE) \in R
       /\ Shorter(g, RemoveInternal(g, a, i, FALSE), a, i)

LEMMA ClosedFacts ==
  ASSUME NEW V, NEW N, NEW h, NEW a, NEW R, Closed(V, N, h, a, R), NEW g \in R
  PROVE  /\ g \in Heaps(V, N) /\ h \in Heaps(V, N) /\ h \in R /\ N \in Nat /\ a \in 1..N
         /\ g[a] \in Arr(V) /\ g[a].count \in Nat /\ h[a].count \in Nat
  <1>1. g \in Heaps(V, N) /\ h \in Heaps(V, N) /\ h \in R /\ N \in Nat /\ a \in 1..N
    BY DEF Closed
  <1>2. g[a] \in Arr(V) /\ h[a] \in Arr(V)
    BY <1>1 DEF Heaps
  <1>3. g[a].count \in Nat /\ h[a].count \in Nat
    BY <1>2, Fields
  <1>. QED
    BY <1>1, <1>2, <1>3

LEMMA ClosedInsert ==
  ASSUME NEW V, NEW N, NEW h, NEW a, NEW R, Closed(V, N, h, a, R),
         NEW g \in R, NEW i \in 0..g[a].count, NEW v \in V
  PROVE  LET g2 == InsertInternal(g, a, i, v, FALSE) IN
         /\ g2 \in R
         /\ Longer(g, g2, a)
  BY Zenon DEF Closed

LEMMA ClosedRemove ==
  ASSUME NEW V, NEW N, NEW h, NEW a, NEW R, Closed(V, N, h, a, R),
         NEW g \in R, NEW i
  PROVE  LET g2 == RemoveInternal(g, a, i, FALSE) IN
         /\ g2 \in R
         /\ Shorter(g, g2, a, i)
  BY Zenon DEF Closed

LEMMA ReachClosed ==
  ASSUME NEW V, NEW N, NEW h, NEW a, NEW W, NEW off, Ready(V, N, h, a, W, off)
  PROVE  Closed(V, N, h, a, Reach(V, N, h, a, W, off))
  <1>. DEFINE R == Reach(V, N, h, a, W, off)
  <1>1. N \in Nat /\ h \in R /\ a \in 1..N
    BY DEF Ready
  <1>2. R \subseteq Heaps(V, N)
    BY DEF Reach
  <1>3. ASSUME NEW g \in R, NEW i \in 0..g[a].count, NEW v \in V
        PROVE  /\ InsertInternal(g, a, i, v, FALSE) \in R
               /\ Longer(g, InsertInternal(g, a, i, v, FALSE), a)
    BY ReachInsert
  <1>4. ASSUME NEW g \in R, NEW i
        PROVE  /\ RemoveInternal(g, a, i, FALSE) \in R
               /\ Shorter(g, RemoveInternal(g, a, i, FALSE), a, i)
    BY ReachRemove
  <1>. HIDE DEF R
  <1>5. Closed(V, N, h, a, R)
    BY <1>1, <1>2, <1>3, <1>4 DEF Closed
  <1>. QED
    BY <1>5 DEF R

LEMMA KeptClosed ==
  ASSUME NEW V, NEW N \in Nat, NEW h \in Heaps(V, N), Agrees(N, h), NEW a \in 1..N,
         NEW W, NEW off, WayOf(h, a, W, off)
  PROVE  Closed(V, N, h, a, Kept(V, N, h, W, {}, {a}, {}))
  <1>. DEFINE R == Kept(V, N, h, W, {}, {a}, {})
  <1>1. W \subseteq 1..N
    BY OnWay
  <1>2. h \in R
    <2>1. h \in Kept(V, N, h, W, {}, {}, {})
      BY <1>1, KeptSelf
    <2>2. {} \subseteq {} /\ {} \subseteq {a}
      OBVIOUS
    <2>. QED
      BY <2>1, <2>2, KeptMore
  <1>3. R \subseteq Heaps(V, N)
    BY DEF Kept
  <1>4. ASSUME NEW g \in R
        PROVE  /\ g \in Heaps(V, N) /\ Agrees(N, g) /\ WayOf(g, a, W, off)
               /\ g[a].count \in Nat
    <2>1. g \in Heaps(V, N) /\ Agrees(N, g) /\ \A x \in W : SameView(h[x], g[x])
      BY DEF Kept
    <2>2. WayOf(g, a, W, off)
      BY <2>1, WayKept DEF SameView
    <2>3. g[a] \in Arr(V)
      BY <2>1 DEF Heaps
    <2>. QED
      BY <2>1, <2>2, <2>3, Fields
  <1>5. ASSUME NEW g \in R, NEW f, Ended(V, N, g, a, W, FALSE, {}, f)
        PROVE  f \in R
    <2>1. f \in Kept(V, N, g, W, {}, {a}, {})
      BY <1>5 DEF Ended
    <2>. QED
      BY <1>1, <2>1, KeptTwice
  <1>6. ASSUME NEW g \in R, NEW i \in 0..g[a].count, NEW v \in V
        PROVE  /\ InsertInternal(g, a, i, v, FALSE) \in R
               /\ Longer(g, InsertInternal(g, a, i, v, FALSE), a)
    <2>1. PICK f : f = InsertInternal(g, a, i, v, FALSE)
      OBVIOUS
    <2>2. i \in Nat
      BY <1>4
    <2>3. /\ Ended(V, N, g, a, W, FALSE, {}, f)
          /\ InsertedAt(g[a], f[a], IF i > g[a].count THEN g[a].count ELSE i, v)
      <3>. HIDE DEF R
      <3>. QED
        BY <1>4, <2>1, <2>2, InsertKeeps
    <2>4. f \in R
      <3>. HIDE DEF R
      <3>. QED
        BY <1>5, <2>3
    <2>5. Longer(g, f, a)
      BY <2>3 DEF InsertedAt, Longer
    <2>. QED
      BY <2>1, <2>4, <2>5
  <1>7. ASSUME NEW g \in R, NEW i
        PROVE  /\ RemoveInternal(g, a, i, FALSE) \in R
               /\ Shorter(g, RemoveInternal(g, a, i, FALSE), a, i)
    <2>1. CASE i \notin 0..g[a].count-1
      <3>1. RemoveInternal(g, a, i, FALSE) = g
        BY <2>1 DEF RemoveInternal
      <3>. QED
        BY <2>1, <3>1 DEF Shorter
    <2>2. CASE i \in 0..g[a].count-1
      <3>1. PICK f : f = RemoveInternal(g, a, i, FALSE)
        OBVIOUS
      <3>2. /\ Ended(V, N, g, a, W, FALSE, {}, f)
            /\ CutAt(g[a], f[a], i)
        <4>. HIDE DEF R
        <4>. QED
          BY <1>4, <2>2, <3>1, RemoveKeeps
      <3>3. f \in R
        <4>. HIDE DEF R
        <4>. QED
          BY <1>5, <3>2
      <3>4. Shorter(g, f, a, i)
        BY <2>2, <3>2 DEF CutAt, Shorter
      <3>. QED
        BY <3>1, <3>3, <3>4
    <2>. QED
      BY <2>1, <2>2
  <1>. HIDE DEF R
  <1>8. Closed(V, N, h, a, R)
    BY <1>2, <1>3, <1>6, <1>7 DEF Closed
  <1>. QED
    BY <1>8 DEF R

-----------------------------------------------------------------------------
(* The loops of the functions that scripts call.                           *)

LEMMA PushEachStays ==
  ASSUME NEW V, NEW N, NEW h, NEW a, NEW R, Closed(V, N, h, a, R),
         NEW s \in Seq(V)
  PROVE  PushEach(h, a, s) \in R
  <1>. DEFINE n == Len(s)
              Round(g, k) == InsertInternal(g, a, g[a].count, s[k], FALSE)
              S == [k \in 0..n |-> R]
              F == [k \in 1..n |-> [g \in R |-> Round(g, k)]]
              Run(f) == f = [k \in 0..n |-> IF k = 0 THEN h ELSE Round(f[k-1], k)]
  <1>1. n \in Nat /\ \A k \in 1..n : s[k] \in V
    BY LenProperties, ElementOfSeq
  <1>2. ASSUME NEW k \in 1..n, NEW g \in R
        PROVE  Round(g, k) \in R
    <2>1. s[k] \in V
      BY <1>1
    <2>2. g[a].count \in 0..g[a].count
      <3>1. g[a].count \in Nat
        BY ClosedFacts
      <3>. QED
        BY <3>1
    <2>. QED
      BY <2>1, <2>2, ClosedInsert
  <1>. HIDE DEF n, Round
  <1>3. /\ \A k \in 0..n : S[k] = R
        /\ \A k \in 1..n : k \in 0..n /\ k - 1 \in 0..n /\ k # 0
        /\ \A k \in 1..n : S[k-1] = R
        /\ \A k \in 1..n : \A g \in R : F[k][g] = Round(g, k)
    BY <1>1
  <1>. HIDE DEF S, F
  <1>4. Takes(F, n, h, S)
    BY <1>1, <1>2, <1>3 DEF Takes, Closed
  <1>5. PICK f : IsRun(f, F, n, h, S)
    BY <1>4, Rounds
  <1>6. Run(f)
    <2>1. \A k \in 1..n : f[k] = Round(f[k-1], k)
      BY <1>3, <1>5 DEF IsRun
    <2>2. \A k \in 0..n : k = 0 \/ k \in 1..n
      BY <1>1
    <2>. QED
      BY <1>5, <2>1, <2>2 DEF IsRun
  <1>7. ASSUME NEW g, Run(g)
        PROVE  g[n] \in R
    <2>1. g[0] = h /\ \A k \in 1..n : g[k] = Round(g[k-1], k)
      BY <1>1, <1>3, <1>7
    <2>2. \A k \in 1..n : g[k-1] \in S[k-1] => g[k] = F[k][g[k-1]]
      BY <1>3, <2>1
    <2>3. g[n] \in S[n]
      BY <1>4, <2>1, <2>2, RunEnds
    <2>. QED
      BY <1>1, <1>3, <2>3
  <1>8. PushEach(h, a, s) = (CHOOSE g : Run(g))[n]
    BY DEF PushEach, Repeated, Round, n
  <1>. HIDE DEF Run
  <1>. QED
    BY <1>6, <1>7, <1>8

LEMMA RemoveTimesStays ==
  ASSUME NEW V, NEW N, NEW h, NEW a, NEW R, Closed(V, N, h, a, R),
         NEW i \in 0..h[a].count, NEW n \in Nat
  PROVE  /\ RemoveTimes(h, a, i, n) \in R
         /\ i <= RemoveTimes(h, a, i, n)[a].count
  <1>. DEFINE C == {g \in R : i <= g[a].count}
              Round(g, k) == RemoveInternal(g, a, i, FALSE)
              S == [k \in 0..n |-> C]
              F == [k \in 1..n |-> [g \in C |-> Round(g, k)]]
              Run(f) == f = [k \in 0..n |-> IF k = 0 THEN h ELSE Round(f[k-1], k)]
  <1>1. n \in Nat /\ h \in C
    BY ClosedFacts DEF Closed
  <1>2. ASSUME NEW k \in 1..n, NEW g \in C
        PROVE  Round(g, k) \in C
    <2>1. /\ Round(g, k) \in R
          /\ Round(g, k)[a].count = IF i \in 0..g[a].count-1 THEN g[a].count - 1
                                    ELSE g[a].count
      <3>1. PICK j, f : j = i /\ f = g /\ f \in R
        OBVIOUS
      <3>2. RemoveInternal(f, a, j, FALSE) \in R
        BY <3>1, ClosedRemove
      <3>3. Shorter(f, RemoveInternal(f, a, j, FALSE), a, j)
        BY <3>1, ClosedRemove
      <3>. QED
        BY <3>1, <3>2, <3>3 DEF Shorter
    <2>2. g[a].count \in Nat /\ h[a].count \in Nat
      BY ClosedFacts
    <2>3. i <= Round(g, k)[a].count
      <3>1. CASE i \in 0..g[a].count-1
        <4>. HIDE DEF Round
        <4>. QED
          BY <2>1, <2>2, <3>1
      <3>2. CASE i \notin 0..g[a].count-1
        <4>. HIDE DEF Round
        <4>. QED
          BY <2>1, <3>2
      <3>. QED
        BY <3>1, <3>2
    <2>. HIDE DEF Round
    <2>. QED
      BY <2>1, <2>3
  <1>. HIDE DEF C, Round
  <1>3. /\ \A k \in 0..n : S[k] = C
        /\ \A k \in 1..n : k \in 0..n /\ k - 1 \in 0..n /\ k # 0
        /\ \A k \in 1..n : S[k-1] = C
        /\ \A k \in 1..n : \A g \in C : F[k][g] = Round(g, k)
    BY <1>1
  <1>. HIDE DEF S, F
  <1>4. Takes(F, n, h, S)
    BY <1>1, <1>2, <1>3 DEF Takes
  <1>5. PICK f : IsRun(f, F, n, h, S)
    BY <1>4, Rounds
  <1>6. Run(f)
    <2>1. \A k \in 1..n : f[k] = Round(f[k-1], k)
      BY <1>3, <1>5 DEF IsRun
    <2>2. \A k \in 0..n : k = 0 \/ k \in 1..n
      BY <1>1
    <2>. QED
      BY <1>5, <2>1, <2>2 DEF IsRun
  <1>7. ASSUME NEW g, Run(g)
        PROVE  g[n] \in C
    <2>1. g[0] = h /\ \A k \in 1..n : g[k] = Round(g[k-1], k)
      BY <1>1, <1>3, <1>7
    <2>2. \A k \in 1..n : g[k-1] \in S[k-1] => g[k] = F[k][g[k-1]]
      BY <1>3, <2>1
    <2>3. g[n] \in S[n]
      BY <1>4, <2>1, <2>2, RunEnds
    <2>. QED
      BY <1>1, <1>3, <2>3
  <1>8. RemoveTimes(h, a, i, n) = (CHOOSE g : Run(g))[n]
    BY DEF RemoveTimes, Repeated, Round
  <1>. HIDE DEF Run
  <1>. QED
    BY <1>6, <1>7, <1>8 DEF C

Cleared(h, a) ==
  Repeated(h[a].count, h, LAMBDA g, k : RemoveInternal(g, a, g[a].count - 1, FALSE))
LEMMA ClearStays ==
  ASSUME NEW V, NEW N, NEW h, NEW a, NEW R, Closed(V, N, h, a, R)
  PROVE  Cleared(h, a) \in R
  <1>. DEFINE n == h[a].count
              Round(g, k) == RemoveInternal(g, a, g[a].count - 1, FALSE)
              S == [k \in 0..n |-> R]
              F == [k \in 1..n |-> [g \in R |-> Round(g, k)]]
              Run(f) == f = [k \in 0..n |-> IF k = 0 THEN h ELSE Round(f[k-1], k)]
  <1>1. n \in Nat
    <2>1. h \in R
      BY DEF Closed
    <2>. QED
      BY <2>1, ClosedFacts
  <1>2. ASSUME NEW k \in 1..n, NEW g \in R
        PROVE  Round(g, k) \in R
    BY ClosedRemove
  <1>. HIDE DEF n, Round
  <1>3. /\ \A k \in 0..n : S[k] = R
        /\ \A k \in 1..n : k \in 0..n /\ k - 1 \in 0..n /\ k # 0
        /\ \A k \in 1..n : S[k-1] = R
        /\ \A k \in 1..n : \A g \in R : F[k][g] = Round(g, k)
    BY <1>1
  <1>. HIDE DEF S, F
  <1>4. Takes(F, n, h, S)
    BY <1>1, <1>2, <1>3 DEF Takes, Closed
  <1>5. PICK f : IsRun(f, F, n, h, S)
    BY <1>4, Rounds
  <1>6. Run(f)
    <2>1. \A k \in 1..n : f[k] = Round(f[k-1], k)
      BY <1>3, <1>5 DEF IsRun
    <2>2. \A k \in 0..n : k = 0 \/ k \in 1..n
      BY <1>1
    <2>. QED
      BY <1>5, <2>1, <2>2 DEF IsRun
  <1>7. ASSUME NEW g, Run(g)
        PROVE  g[n] \in R
    <2>1. g[0] = h /\ \A k \in 1..n : g[k] = Round(g[k-1], k)
      BY <1>1, <1>3, <1>7
    <2>2. \A k \in 1..n : g[k-1] \in S[k-1] => g[k] = F[k][g[k-1]]
      BY <1>3, <2>1
    <2>3. g[n] \in S[n]
      BY <1>4, <2>1, <2>2, RunEnds
    <2>. QED
      BY <1>1, <1>3, <2>3
  <1>8. Cleared(h, a) = (CHOOSE g : Run(g))[n]
    BY DEF Cleared, Repeated, Round, n
  <1>. HIDE DEF Run
  <1>. QED
    BY <1>6, <1>7, <1>8

InsertEach(h, a, i, s) ==
  Repeated(Len(s), h, LAMBDA g, k : InsertInternal(g, a, i + k - 1, s[k], FALSE))
LEMMA InsertEachStays ==
  ASSUME NEW V, NEW N, NEW h, NEW a, NEW R, Closed(V, N, h, a, R),
         NEW e \in R, NEW i \in 0..e[a].count, NEW s \in Seq(V)
  PROVE  InsertEach(e, a, i, s) \in R
  <1>. DEFINE C(k) == {g \in R : i + k <= g[a].count}
              n == Len(s)
              Round(g, k) == InsertInternal(g, a, i + k - 1, s[k], FALSE)
              S == [k \in 0..n |-> C(k)]
              F == [k \in 1..n |-> [g \in C(k-1) |-> Round(g, k)]]
              Run(f) == f = [k \in 0..n |-> IF k = 0 THEN e ELSE Round(f[k-1], k)]
  <1>1. n \in Nat /\ (\A k \in 1..n : s[k] \in V) /\ e[a].count \in Nat /\ i \in Nat
        /\ e \in C(0)
    <2>1. n \in Nat /\ \A k \in 1..n : s[k] \in V
      BY LenProperties, ElementOfSeq
    <2>2. e[a].count \in Nat
      BY ClosedFacts
    <2>. QED
      BY <2>1, <2>2
  <1>2. ASSUME NEW k \in 1..n, NEW g \in C(k-1)
        PROVE  Round(g, k) \in C(k)
    <2>1. s[k] \in V
      BY <1>1
    <2>2. i + k - 1 \in 0..g[a].count /\ g[a].count \in Nat
      <3>1. g[a].count \in Nat /\ i + (k - 1) <= g[a].count
        BY ClosedFacts
      <3>. QED
        BY <1>1, <3>1
    <2>3. Round(g, k) \in R /\ Round(g, k)[a].count = g[a].count + 1
      <3>1. PICK j, w, f : /\ j = i + k - 1 /\ w = s[k] /\ f = g
                           /\ w \in V /\ f \in R /\ j \in 0..f[a].count
        BY <2>1, <2>2
      <3>2. InsertInternal(f, a, j, w, FALSE) \in R
        BY <3>1, ClosedInsert
      <3>3. Longer(f, InsertInternal(f, a, j, w, FALSE), a)
        BY <3>1, ClosedInsert
      <3>. QED
        BY <3>1, <3>2, <3>3 DEF Longer
    <2>4. i + (k - 1) <= g[a].count
      OBVIOUS
    <2>. HIDE DEF Round
    <2>5. i + k <= Round(g, k)[a].count
      BY <1>1, <2>2, <2>3, <2>4
    <2>. QED
      BY <2>3, <2>5
  <1>. HIDE DEF C, n, Round
  <1>3. /\ \A k \in 0..n : S[k] = C(k)
        /\ \A k \in 1..n : k \in 0..n /\ k - 1 \in 0..n /\ k # 0
        /\ \A k \in 1..n : S[k-1] = C(k-1)
        /\ \A k \in 1..n : \A g \in C(k-1) : F[k][g] = Round(g, k)
    BY <1>1
  <1>. HIDE DEF S, F
  <1>4. Takes(F, n, e, S)
    <2>1. 0 \in 0..n /\ S[0] = C(0)
      BY <1>1, <1>3
    <2>2. n \in Nat /\ e \in S[0]
      BY <1>1, <2>1
    <2>3. ASSUME NEW k \in 1..n, NEW g \in S[k-1]
          PROVE  F[k][g] \in S[k]
      <3>1. g \in C(k-1) /\ k \in 0..n /\ S[k] = C(k)
        BY <1>3
      <3>2. F[k][g] = Round(g, k) /\ Round(g, k) \in C(k)
        BY <1>2, <1>3, <3>1
      <3>. QED
        BY <3>1, <3>2
    <2>. QED
      BY <2>2, <2>3 DEF Takes
  <1>5. PICK f : IsRun(f, F, n, e, S)
    BY <1>4, Rounds
  <1>6. Run(f)
    <2>1. \A k \in 1..n : f[k] = Round(f[k-1], k)
      BY <1>3, <1>5 DEF IsRun
    <2>2. \A k \in 0..n : k = 0 \/ k \in 1..n
      BY <1>1
    <2>. QED
      BY <1>5, <2>1, <2>2 DEF IsRun
  <1>7. ASSUME NEW g, Run(g)
        PROVE  g[n] \in C(n)
    <2>1. g[0] = e /\ \A k \in 1..n : g[k] = Round(g[k-1], k)
      BY <1>1, <1>3, <1>7
    <2>2. \A k \in 1..n : g[k-1] \in S[k-1] => g[k] = F[k][g[k-1]]
      BY <1>3, <2>1
    <2>3. g[n] \in S[n]
      BY <1>4, <2>1, <2>2, RunEnds
    <2>. QED
      BY <1>1, <1>3, <2>3
  <1>8. InsertEach(e, a, i, s) = (CHOOSE g : Run(g))[n]
    BY DEF InsertEach, Repeated, Round, n
  <1>. HIDE DEF Run
  <1>. QED
    BY <1>6, <1>7, <1>8 DEF C

LEMMA AddMissingStays ==
  ASSUME NEW V, NEW N, NEW h, NEW a, NEW R, Closed(V, N, h, a, R),
         NEW b \in 1..N
  PROVE  AddMissing(h, a, b) \in R
  <1>. DEFINE n == 2 * h[b].count
              Round(g, k) ==
                IF k > g[b].count \/ g[b].elements[k] \in Range(Content(g, a)) THEN g
                ELSE InsertInternal(g, a, g[a].count, g[b].elements[k], FALSE)
              S == [k \in 0..n |-> R]
              F == [k \in 1..n |-> [g \in R |-> Round(g, k)]]
              Run(f) == f = [k \in 0..n |-> IF k = 0 THEN h ELSE Round(f[k-1], k)]
  <1>1. n \in Nat
    <2>1. h[b] \in Arr(V)
      <3>1. h \in R
        BY DEF Closed
      <3>. QED
        BY <3>1, ClosedFacts DEF Heaps
    <2>2. h[b].count \in Nat
      BY <2>1, Fields
    <2>. QED
      BY <2>2
  <1>2. ASSUME NEW k \in 1..n, NEW g \in R
        PROVE  Round(g, k) \in R
    <2>1. g[b] \in Arr(V)
      BY ClosedFacts DEF Heaps
    <2>2. k <= g[b].count => g[b].elements[k] \in V
      <3>1. g[b].count \in Nat /\ \A j \in 1..g[b].count : g[b].elements[j] \in V
        BY <2>1, Fields
      <3>. QED
        BY <1>1, <3>1
    <2>3. g[a].count \in 0..g[a].count
      <3>1. g[a].count \in Nat
        BY ClosedFacts
      <3>. QED
        BY <3>1
    <2>4. g[b].count \in Nat /\ k \in Nat
      BY <1>1, <2>1, Fields
    <2>5. k <= g[b].count => InsertInternal(g, a, g[a].count, g[b].elements[k], FALSE) \in R
      BY <2>2, <2>3, ClosedInsert
    <2>6. CASE ~(k > g[b].count \/ g[b].elements[k] \in Range(Content(g, a)))
      <3>1. k <= g[b].count
        BY <2>4, <2>6
      <3>2. Round(g, k) = InsertInternal(g, a, g[a].count, g[b].elements[k], FALSE)
        BY <2>6, Zenon
      <3>. QED
        BY <2>5, <3>1, <3>2
    <2>7. CASE k > g[b].count \/ g[b].elements[k] \in Range(Content(g, a))
      <3>1. Round(g, k) = g
        BY <2>7, Zenon
      <3>. QED
        BY <3>1
    <2>. QED
      BY <2>6, <2>7
  <1>. HIDE DEF n, Round
  <1>3. /\ \A k \in 0..n : S[k] = R
        /\ \A k \in 1..n : k \in 0..n /\ k - 1 \in 0..n /\ k # 0
        /\ \A k \in 1..n : S[k-1] = R
        /\ \A k \in 1..n : \A g \in R : F[k][g] = Round(g, k)
    BY <1>1
  <1>. HIDE DEF S, F
  <1>4. Takes(F, n, h, S)
    BY <1>1, <1>2, <1>3 DEF Takes, Closed
  <1>5. PICK f : IsRun(f, F, n, h, S)
    BY <1>4, Rounds
  <1>6. Run(f)
    <2>1. \A k \in 1..n : f[k] = Round(f[k-1], k)
      BY <1>3, <1>5 DEF IsRun
    <2>2. \A k \in 0..n : k = 0 \/ k \in 1..n
      BY <1>1
    <2>. QED
      BY <1>5, <2>1, <2>2 DEF IsRun
  <1>7. ASSUME NEW g, Run(g)
        PROVE  g[n] \in R
    <2>1. g[0] = h /\ \A k \in 1..n : g[k] = Round(g[k-1], k)
      BY <1>1, <1>3, <1>7
    <2>2. \A k \in 1..n : g[k-1] \in S[k-1] => g[k] = F[k][g[k-1]]
      BY <1>3, <2>1
    <2>3. g[n] \in S[n]
      BY <1>4, <2>1, <2>2, RunEnds
    <2>. QED
      BY <1>1, <1>3, <2>3
  <1>8. AddMissing(h, a, b) = (CHOOSE g : Run(g))[n]
    BY DEF AddMissing, Repeated, Round, n
  <1>. HIDE DEF Run
  <1>. QED
    BY <1>6, <1>7, <1>8

LEMMA SiftStays ==
  ASSUME NEW V, NEW N, NEW h, NEW a, NEW R, Closed(V, N, h, a, R),
         NEW b, NEW retain
  PROVE  Sift(h, a, b, retain) \in R
  <1>. DEFINE C == [heap : R, i : Nat]
              n == h[a].count
              x == [heap |-> h, i |-> 0]
              Round(l, k) ==
                IF (l.heap[a].elements[l.i+1] \in Range(Content(l.heap, b))) = retain
                THEN [l EXCEPT !.i = @ + 1]
                ELSE [l EXCEPT !.heap = RemoveInternal(@, a, l.i, FALSE)]
              S == [k \in 0..n |-> C]
              F == [k \in 1..n |-> [g \in C |-> Round(g, k)]]
              Run(f) == f = [k \in 0..n |-> IF k = 0 THEN x ELSE Round(f[k-1], k)]
  <1>1. n \in Nat /\ x \in C
    <2>1. h \in R
      BY DEF Closed
    <2>. QED
      BY <2>1, ClosedFacts
  <1>2. ASSUME NEW k \in 1..n, NEW g \in C
        PROVE  Round(g, k) \in C
    <2>1. g.heap \in R /\ g.i \in Nat
      OBVIOUS
    <2>2. PICK e, i : e \in R /\ e = g.heap /\ i = g.i
      BY <2>1
    <2>3. RemoveInternal(e, a, i, FALSE) \in R
      BY <2>2, ClosedRemove
    <2>4. RemoveInternal(g.heap, a, g.i, FALSE) \in R
      BY <2>2, <2>3
    <2>5. [g EXCEPT !.i = @ + 1] \in C
      BY <2>1
    <2>6. \A f \in R : [g EXCEPT !.heap = f] \in C
      OBVIOUS
    <2>7. [g EXCEPT !.heap = RemoveInternal(@, a, g.i, FALSE)] \in C
      <3>1. [g EXCEPT !.heap = RemoveInternal(@, a, g.i, FALSE)]
              = [g EXCEPT !.heap = RemoveInternal(g.heap, a, g.i, FALSE)]
        OBVIOUS
      <3>. HIDE DEF C
      <3>. QED
        BY <2>4, <2>6, <3>1
    <2>. HIDE DEF C
    <2>. QED
      BY <2>5, <2>7, Zenon
  <1>. HIDE DEF C, n, x, Round
  <1>3. /\ \A k \in 0..n : S[k] = C
        /\ \A k \in 1..n : k \in 0..n /\ k - 1 \in 0..n /\ k # 0
        /\ \A k \in 1..n : S[k-1] = C
        /\ \A k \in 1..n : \A g \in C : F[k][g] = Round(g, k)
    BY <1>1
  <1>. HIDE DEF S, F
  <1>4. Takes(F, n, x, S)
    BY <1>1, <1>2, <1>3 DEF Takes
  <1>5. PICK f : IsRun(f, F, n, x, S)
    BY <1>4, Rounds
  <1>6. Run(f)
    <2>1. \A k \in 1..n : f[k] = Round(f[k-1], k)
      BY <1>3, <1>5 DEF IsRun
    <2>2. \A k \in 0..n : k = 0 \/ k \in 1..n
      BY <1>1
    <2>. QED
      BY <1>5, <2>1, <2>2 DEF IsRun
  <1>7. ASSUME NEW g, Run(g)
        PROVE  g[n] \in C
    <2>1. g[0] = x /\ \A k \in 1..n : g[k] = Round(g[k-1], k)
      BY <1>1, <1>3, <1>7
    <2>2. \A k \in 1..n : g[k-1] \in S[k-1] => g[k] = F[k][g[k-1]]
      BY <1>3, <2>1
    <2>3. g[n] \in S[n]
      BY <1>4, <2>1, <2>2, RunEnds
    <2>. QED
      BY <1>1, <1>3, <2>3
  <1>8. Sift(h, a, b, retain) = (CHOOSE g : Run(g))[n].heap
    BY DEF Sift, Repeated, Round, n, x
  <1>. HIDE DEF Run
  <1>. QED
    BY <1>6, <1>7, <1>8 DEF C

LEMMA ContentIs ==
  ASSUME NEW V, NEW h, NEW a, h[a] \in Arr(V)
  PROVE  /\ Content(h, a) \in Seq(V) /\ Len(Content(h, a)) = h[a].count
         /\ \A j \in 1..h[a].count : Content(h, a)[j] = h[a].elements[j]
  <1>. DEFINE s == h[a].elements
              n == h[a].count
  <1>1. s \in Seq(V) /\ n \in 0..Len(s)
    <2>1. s \in Seq(V) /\ n \in Nat /\ n <= Len(s) /\ Len(s) \in Nat
      BY Fields
    <2>. QED
      BY <2>1
  <1>. HIDE DEF s, n
  <1>2. /\ SubSeq(s, 1, n) \in Seq(V) /\ Len(SubSeq(s, 1, n)) = n
        /\ \A j \in 1..n : SubSeq(s, 1, n)[j] = s[j]
    BY <1>1, Prefix
  <1>. QED
    BY <1>2 DEF Content, s, n

Spliced(h, a, b, i, n) ==
  LET count == h[a].count
      from == IF i < 0 THEN Max({count + i, 0}) ELSE Min({i, count})
      new == Content(h, b)
      cut == RemoveTimes(h, a, from, Min({n, count - from}))
  IN InsertEach(cut, a, from, new)
LEMMA SpliceStays ==
  ASSUME NEW V, NEW N, NEW h, NEW a, NEW R, Closed(V, N, h, a, R),
         NEW b \in 1..N, NEW i \in Int, NEW n \in Nat
  PROVE  Spliced(h, a, b, i, n) \in R
  <1>. DEFINE count == h[a].count
              from == IF i < 0 THEN Max({count + i, 0}) ELSE Min({i, count})
              new == Content(h, b)
              times == Min({n, count - from})
              cut == RemoveTimes(h, a, from, times)
  <1>1. N \in Nat /\ h \in Heaps(V, N) /\ a \in 1..N
    <2>1. h \in R
      BY DEF Closed
    <2>. QED
      BY <2>1, ClosedFacts
  <1>2. h[a] \in Arr(V) /\ h[b] \in Arr(V)
    BY <1>1 DEF Heaps
  <1>3. count \in Nat /\ new \in Seq(V)
    BY <1>2, Fields, ContentIs
  <1>. HIDE DEF count, new
  <1>4. \A x, y \in Nat : Min({x, y}) \in {x, y} /\ Min({x, y}) <= x /\ Min({x, y}) <= y
    <2>1. ASSUME NEW x \in Nat, NEW y \in Nat
          PROVE  Min({x, y}) \in {x, y} /\ Min({x, y}) <= x /\ Min({x, y}) <= y
      <3>1. {x, y} \in SUBSET Nat /\ {x, y} # {}
        OBVIOUS
      <3>2. Min({x, y}) \in {x, y} /\ \A z \in {x, y} : Min({x, y}) <= z
        BY <3>1, LeastOf
      <3>. QED
        BY <3>2
    <2>. QED
      BY <2>1
  <1>5. from \in 0..count
    <2>1. CASE i < 0
      <3>1. \E z \in {count + i, 0} : \A y \in {count + i, 0} : z >= y
        BY <1>3
      <3>2. Max({count + i, 0}) \in {count + i, 0}
            /\ \A y \in {count + i, 0} : Max({count + i, 0}) >= y
        BY <3>1, Zenon DEF Max
      <3>3. Max({count + i, 0}) \in 0..count
        BY <1>3, <2>1, <3>2
      <3>. QED
        BY <2>1, <3>3
    <2>2. CASE ~(i < 0)
      <3>1. i \in Nat
        BY <2>2
      <3>2. Min({i, count}) \in {i, count} /\ Min({i, count}) <= count
        BY <1>3, <1>4, <3>1
      <3>3. Min({i, count}) \in 0..count
        BY <1>3, <3>1, <3>2
      <3>. QED
        BY <2>2, <3>3
    <2>. QED
      BY <2>1, <2>2
  <1>. HIDE DEF from
  <1>6. times \in Nat
    <2>1. count - from \in Nat
      BY <1>3, <1>5
    <2>. QED
      BY <1>4, <2>1
  <1>. HIDE DEF times
  <1>7. cut \in R /\ from <= cut[a].count
    BY <1>5, <1>6, RemoveTimesStays DEF count
  <1>8. from \in 0..cut[a].count
    <2>1. cut[a].count \in Nat
      <3>1. cut \in Heaps(V, N)
        BY <1>7 DEF Closed
      <3>2. cut[a] \in Arr(V)
        BY <1>1, <3>1 DEF Heaps
      <3>. HIDE DEF cut
      <3>. QED
        BY <3>2, Fields
    <2>. HIDE DEF cut
    <2>. QED
      BY <1>3, <1>5, <1>7, <2>1
  <1>. HIDE DEF cut
  <1>9. InsertEach(cut, a, from, new) \in R
    BY <1>3, <1>7, <1>8, InsertEachStays
  <1>. QED
    BY <1>9 DEF cut, times, from, new, count, Spliced

-----------------------------------------------------------------------------
(* The inductive invariant: but for p, the windows of views are slices of  *)
(* their sources.  The values may be any that hold those there are.        *)
Holds(V, N, h, p) ==
  /\ Null \in V /\ Range(Order) \subseteq V
  /\ N \in Nat /\ h \in Heaps(V, N) /\ Agrees(N, h)
  /\ \A x \in 1..N : x \notin p => Slice(h, x)

ViewsInv == /\ apart \subseteq DOMAIN heap
            /\ \E V, N : Holds(V, N, heap, apart \cup shown)

(* Values that sorting put there may be any: the invariant has a place for *)
(* them.                                                                   *)
LEMMA HoldsOfMore ==
  ASSUME NEW V, NEW N, NEW h, NEW p, Holds(V, N, h, p), NEW U, V \subseteq U
  PROVE  Holds(U, N, h, p)
  <1>1. /\ N \in Nat /\ h \in Heaps(V, N) /\ Null \in V /\ Range(Order) \subseteq V
    BY DEF Holds
  <1>2. ASSUME NEW x \in Arr(V)
        PROVE  x \in Arr(U)
    <2>1. x.elements \in Seq(V)
      BY Fields
    <2>2. Len(x.elements) \in Nat /\ x.elements \in [1..Len(x.elements) -> V]
      <3>1. /\ Len(x.elements) \in Nat /\ DOMAIN x.elements = 1..Len(x.elements)
            /\ \A j \in DOMAIN x.elements : x.elements[j] \in V
        BY Fields
      <3>2. x.elements = [j \in DOMAIN x.elements |-> x.elements[j]]
        BY <2>1, SeqDef
      <3>. QED
        BY <3>1, <3>2
    <2>3. x.elements \in [1..Len(x.elements) -> U]
      BY <2>2
    <2>4. x.elements \in Seq(U)
      <3>. PICK s, n : s = x.elements /\ n = Len(x.elements)
        OBVIOUS
      <3>1. n \in Nat /\ s \in [1..n -> U]
        BY <2>2, <2>3
      <3>2. s \in Seq(U)
        BY <3>1, SequenceOfFunction
      <3>. QED
        BY <3>2
    <2>. QED
      BY <2>4 DEF Arr
  <1>3. h \in Heaps(U, N)
    BY <1>1, <1>2 DEF Heaps
  <1>. QED
    BY <1>1, <1>3 DEF Holds

-----------------------------------------------------------------------------
(* The edits of array a: those made of insertions and removals,            *)
Moves(V, N, a) ==
  /\ Edit(a, heap')
  /\ \A R : Closed(V, N, heap, a, R) => heap' \in R

(* assignments,                                                            *)
Assigns(V, a) ==
  \E i \in Nat, v \in V :
    /\ heap' = SetInternal(heap, a, i, v, FALSE)
    /\ EditShowing(a, heap', Showing(heap, a, i))

(* and rearrangements.                                                     *)
ShownBy(h, a, s) ==
  IF IsView(h, a) THEN Shows(Permuted(h, a, s), h[a], a) ELSE {}
Arranges(a) ==
  /\ ReverseElements(a) \/ SortElements(a)
  /\ \E s : /\ heap' = SyncView(Permuted(heap, a, s), a)
            /\ EditShowing(a, heap', ShownBy(heap, a, s))

LEMMA EditIs ==
  ASSUME NEW V, NEW N, NEW p, Holds(V, N, heap, p), NEW a \in 1..N, EditOf(a)
  PROVE  Moves(V, N, a) \/ Assigns(V, a) \/ Arranges(a)
  <1>. USE ViewsAssumption
  <1>. DEFINE Goal == Moves(V, N, a) \/ Assigns(V, a) \/ Arranges(a)
  <1>1. /\ N \in Nat /\ heap \in Heaps(V, N) /\ Null \in V /\ Values \subseteq V
        /\ DOMAIN heap = 1..N
    BY DEF Holds, Heaps
  <1>2. ASSUME NEW g, Edit(a, g), \A R : Closed(V, N, heap, a, R) => g \in R
        PROVE  Goal
    <2>1. heap' = g
      BY <1>2 DEF Edit, EditShowing
    <2>2. Moves(V, N, a)
      BY <1>2, <2>1 DEF Moves
    <2>. QED
      BY <2>2
  <1>3. \A R : Closed(V, N, heap, a, R) => heap \in R
    BY DEF Closed
  <1>4. ASSUME NEW i, NEW v \in V, SetElement(a, i, v)
        PROVE  Goal
    <2>1. i \in Nat
      BY <1>4 DEF SetElement
    <2>2. EditShowing(a, SetInternal(heap, a, i, v, FALSE), Showing(heap, a, i))
      BY <1>4 DEF SetElement
    <2>3. heap' = SetInternal(heap, a, i, v, FALSE)
      BY <2>2 DEF EditShowing
    <2>4. Assigns(V, a)
      BY <2>1, <2>2, <2>3 DEF Assigns
    <2>. QED
      BY <2>4
  <1>5. ASSUME NEW s, Rearrange(a, s), ReverseElements(a) \/ SortElements(a)
        PROVE  Goal
    <2>. DEFINE g == SyncView(Permuted(heap, a, s), a)
    <2>1. EditShowing(a, g, ShownBy(heap, a, s))
      BY <1>5 DEF Rearrange, ShownBy, Shows
    <2>. HIDE DEF g
    <2>2. heap' = g
      BY <2>1 DEF EditShowing
    <2>3. Arranges(a)
      BY <1>5, <2>1, <2>2 DEF Arranges, g
    <2>. QED
      BY <2>3
  <1>. HIDE DEF Goal
  <1>6. ASSUME NEW i, NEW v \in V, Insert(a, i, v)
        PROVE  Goal
    <2>. DEFINE g == InsertInternal(heap, a, i, v, FALSE)
    <2>1. i \in 0..heap[a].count /\ Edit(a, g)
      BY <1>6 DEF Insert
    <2>2. ASSUME NEW R, Closed(V, N, heap, a, R)
          PROVE  g \in R
      <3>1. heap \in R
        BY <1>3, <2>2
      <3>. QED
        BY <2>1, <2>2, <3>1, ClosedInsert
    <2>. HIDE DEF g
    <2>. QED
      BY <1>2, <2>1, <2>2
  <1>7. ASSUME NEW i, RemoveElement(a, i)
        PROVE  Goal
    <2>. DEFINE g == RemoveInternal(heap, a, i, FALSE)
    <2>1. Edit(a, g)
      BY <1>7 DEF RemoveElement
    <2>2. ASSUME NEW R, Closed(V, N, heap, a, R)
          PROVE  g \in R
      <3>1. heap \in R
        BY <1>3, <2>2
      <3>. QED
        BY <2>2, <3>1, ClosedRemove
    <2>. HIDE DEF g
    <2>. QED
      BY <1>2, <2>1, <2>2
  <1>8. ASSUME Clear(a)
        PROVE  Goal
    <2>. DEFINE g == Cleared(heap, a)
    <2>1. Edit(a, g)
      BY <1>8 DEF Clear, Cleared
    <2>2. ASSUME NEW R, Closed(V, N, heap, a, R)
          PROVE  g \in R
      BY <2>2, ClearStays
    <2>. HIDE DEF g
    <2>. QED
      BY <1>2, <2>1, <2>2
  <1>9. ASSUME NEW b \in 1..N
        PROVE  /\ \A i \in Int, n \in Nat : Splice(a, b, i, n) => Goal
               /\ PutAll(a, b) => Goal
               /\ AddAll(a, b) => Goal
               /\ RemoveAll(a, b) => Goal
               /\ RetainAll(a, b) => Goal
    <2>1. ASSUME NEW i \in Int, NEW n \in Nat, Splice(a, b, i, n)
          PROVE  Goal
      <3>. DEFINE g == Spliced(heap, a, b, i, n)
      <3>1. Edit(a, g)
        BY <2>1 DEF Splice, Spliced, InsertEach
      <3>2. ASSUME NEW R, Closed(V, N, heap, a, R)
            PROVE  g \in R
        BY <3>2, SpliceStays
      <3>. HIDE DEF g
      <3>. QED
        BY <1>2, <3>1, <3>2
    <2>2. ASSUME PutAll(a, b)
          PROVE  Goal
      <3>. DEFINE s == Content(heap, b)
                  g == PushEach(heap, a, s)
      <3>1. Edit(a, g)
        BY <2>2 DEF PutAll
      <3>2. s \in Seq(V)
        <4>1. heap[b] \in Arr(V)
          BY <1>1 DEF Heaps
        <4>. QED
          BY <4>1, ContentIs
      <3>. HIDE DEF s
      <3>3. ASSUME NEW R, Closed(V, N, heap, a, R)
            PROVE  g \in R
        BY <3>2, <3>3, PushEachStays
      <3>. HIDE DEF g
      <3>. QED
        BY <1>2, <3>1, <3>3
    <2>3. ASSUME AddAll(a, b)
          PROVE  Goal
      <3>. DEFINE g == AddMissing(heap, a, b)
      <3>1. Edit(a, g)
        BY <2>3 DEF AddAll
      <3>2. ASSUME NEW R, Closed(V, N, heap, a, R)
            PROVE  g \in R
        BY <3>2, AddMissingStays
      <3>. HIDE DEF g
      <3>. QED
        BY <1>2, <3>1, <3>2
    <2>4. ASSUME NEW retain, Edit(a, Sift(heap, a, b, retain))
          PROVE  Goal
      <3>. DEFINE g == Sift(heap, a, b, retain)
      <3>1. ASSUME NEW R, Closed(V, N, heap, a, R)
            PROVE  g \in R
        BY <3>1, SiftStays
      <3>2. Edit(a, g)
        BY <2>4
      <3>. HIDE DEF g
      <3>. QED
        BY <1>2, <3>1, <3>2
    <2>. QED
      BY <2>1, <2>2, <2>3, <2>4 DEF RemoveAll, RetainAll
  <1>10. -1..MaxLength \subseteq Int /\ 0..1 \subseteq Nat
    OBVIOUS
  <1>11. (ReverseElements(a) \/ SortElements(a)) => Goal
    <2>1. ASSUME ReverseElements(a)
          PROVE  Goal
      BY <1>5, <2>1 DEF ReverseElements
    <2>2. ASSUME SortElements(a)
          PROVE  Goal
      BY <1>5, <2>2 DEF SortElements
    <2>. QED
      BY <2>1, <2>2
  <1>. QED
    <2>1. Goal
      BY <1>1, <1>4, <1>6, <1>7, <1>8, <1>9, <1>10, <1>11
         DEF EditOf, Add, RemoveIndex, Push, Pop, Shift
    <2>. QED
      BY <2>1 DEF Goal

(* What an edit of a makes of the heap.                                    *)
Edits(V, N, a, A, B, E) ==
  /\ Holds(V, N, heap, apart \cup shown)
  /\ heap' \in Kept(V, N, heap, Way(heap, a), A, B, E)
  /\ EditShowing(a, heap', E)
  /\ \/ A = {} /\ B = {a}
     \/ /\ A = {a} /\ B = {a, heap[a].view_source}
        /\ ReverseElements(a) \/ SortElements(a)

LEMMA EditKeeps ==
  ASSUME NEW V, NEW N, Holds(V, N, heap, apart \cup shown), NEW a \in 1..N, EditOf(a)
  PROVE  \E U, A, B, E : Edits(U, N, a, A, B, E)
  <1>. DEFINE p == apart \cup shown
              W == Way(heap, a)
  <1>1. Moves(V, N, a) \/ Assigns(V, a) \/ Arranges(a)
    <2>1. Holds(V, N, heap, p)
      OBVIOUS
    <2>. HIDE DEF p
    <2>. QED
      BY <2>1, EditIs
  <1>2. N \in Nat /\ heap \in Heaps(V, N) /\ Null \in V /\ Agrees(N, heap)
    BY DEF Holds
  <1>3. PICK off : WayOf(heap, a, W, off)
    BY <1>2, WayIs
  <1>. HIDE DEF W
  <1>4. CASE Moves(V, N, a)
    <2>1. Closed(V, N, heap, a, Kept(V, N, heap, W, {}, {a}, {}))
      BY <1>2, <1>3, KeptClosed
    <2>2. heap' \in Kept(V, N, heap, W, {}, {a}, {})
      BY <1>4, <2>1 DEF Moves
    <2>3. EditShowing(a, heap', {})
      BY <1>4 DEF Moves, Edit
    <2>4. Edits(V, N, a, {}, {a}, {})
      BY <2>2, <2>3 DEF Edits, W
    <2>. QED
      BY <2>4
  <1>5. CASE Assigns(V, a)
    <2>1. PICK i \in Nat, v \in V :
            /\ heap' = SetInternal(heap, a, i, v, FALSE)
            /\ EditShowing(a, heap', Showing(heap, a, i))
      BY <1>5 DEF Assigns
    <2>2. PICK g : g = SetInternal(heap, a, i, v, FALSE)
      OBVIOUS
    <2>3. Ended(V, N, heap, a, W, FALSE, Showing(heap, a, i), g)
      BY <1>2, <1>3, <2>2, SetKeeps
    <2>4. heap' \in Kept(V, N, heap, W, {}, {a}, Showing(heap, a, i))
      BY <2>1, <2>2, <2>3 DEF Ended
    <2>5. Edits(V, N, a, {}, {a}, Showing(heap, a, i))
      BY <2>1, <2>4 DEF Edits, W
    <2>. QED
      BY <2>5
  <1>6. CASE Arranges(a)
    <2>1. PICK s : /\ heap' = SyncView(Permuted(heap, a, s), a)
                   /\ EditShowing(a, heap', ShownBy(heap, a, s))
      BY <1>6 DEF Arranges
    <2>. DEFINE U == V \cup {s[j] : j \in 1..heap[a].count}
    <2>2. Holds(U, N, heap, p)
      <3>1. V \subseteq U
        OBVIOUS
      <3>. HIDE DEF U
      <3>. QED
        BY <3>1, HoldsOfMore
    <2>3. \A j \in 1..heap[a].count : s[j] \in U
      OBVIOUS
    <2>. HIDE DEF U
    <2>4. N \in Nat /\ heap \in Heaps(U, N) /\ Null \in U /\ Agrees(N, heap)
      BY <2>2 DEF Holds
    <2>5. PICK E : E = ShownBy(heap, a, s)
      OBVIOUS
    <2>6. IsView(heap, a) => Shows(Permuted(heap, a, s), heap[a], a) \subseteq E
      BY <2>5 DEF ShownBy
    <2>7. SyncView(Permuted(heap, a, s), a)
            \in Kept(U, N, heap, W, {a}, {a, heap[a].view_source}, E)
      BY <1>3, <2>3, <2>4, <2>6, SyncKeeps
    <2>8. Edits(U, N, a, {a}, {a, heap[a].view_source}, E)
      BY <1>6, <2>1, <2>2, <2>5, <2>7 DEF Edits, W, Arranges
    <2>. QED
      BY <2>8
  <1>. QED
    BY <1>1, <1>4, <1>5, <1>6

LEMMA EditHolds ==
  ASSUME NEW V, NEW N, NEW a \in 1..N, NEW A, NEW B, NEW E, Edits(V, N, a, A, B, E)
  PROVE  /\ Holds(V, N, heap', apart' \cup shown')
         /\ DOMAIN heap' = 1..N /\ DOMAIN heap = 1..N
         /\ apart' \subseteq apart \cup DOMAIN heap
  <1>. DEFINE W == Way(heap, a)
  <1>1. PICK g : g = heap'
    OBVIOUS
  <1>2. /\ Null \in V /\ Range(Order) \subseteq V /\ N \in Nat
        /\ heap \in Heaps(V, N) /\ Agrees(N, heap)
        /\ \A x \in 1..N : x \notin apart \cup shown => Slice(heap, x)
    BY DEF Edits, Holds
  <1>3. /\ g \in Heaps(V, N) /\ Agrees(N, g)
        /\ \A x \in 1..N : x \notin W => g[x] = heap[x]
        /\ \A x \in W : x \notin E /\ Slice(heap, x) => Slice(g, x)
    BY <1>1 DEF Edits, Kept
  <1>4. DOMAIN heap = 1..N /\ DOMAIN g = 1..N
    BY <1>2, <1>3 DEF Heaps
  <1>5. /\ apart' = apart \cup
             {x \in DOMAIN heap \ W : LET w == heap[x].view_source IN
                                      w \in W /\ g[w] # heap[w]}
        /\ shown' = shown \cup E
    BY <1>1 DEF Edits, EditShowing
  <1>6. ASSUME NEW x \in 1..N, x \notin apart' \cup shown'
        PROVE  Slice(g, x)
    <2>1. Slice(heap, x) /\ x \notin E
      BY <1>2, <1>5, <1>6
    <2>2. CASE x \in W
      BY <1>3, <2>1, <2>2
    <2>3. CASE x \notin W
      <3>1. g[x] = heap[x]
        BY <1>3, <2>3
      <3>2. PICK w : w = heap[x].view_source
        OBVIOUS
      <3>3. w \in W => g[w] = heap[w]
        BY <1>4, <1>5, <1>6, <2>3, <3>2
      <3>4. w # 0 => w \in 1..N
        <4>1. heap[x] \in Arr(V) /\ w < x
          BY <1>2, <3>2 DEF Heaps
        <4>2. w \in Nat
          BY <3>2, <4>1, Fields
        <4>. QED
          BY <1>2, <4>1, <4>2
      <3>5. w # 0 => g[w] = heap[w]
        BY <1>3, <3>3, <3>4
      <3>. QED
        BY <2>1, <3>1, <3>2, <3>5 DEF Slice
    <2>. QED
      BY <2>2, <2>3
  <1>7. Holds(V, N, g, apart' \cup shown')
    BY <1>2, <1>3, <1>6 DEF Holds
  <1>. QED
    BY <1>1, <1>4, <1>5, <1>7

-----------------------------------------------------------------------------
(* The steps, and the invariant.                                           *)

(* A new array at the end of the heap.                                     *)
LEMMA NewHolds ==
  ASSUME NEW V, NEW N, NEW h, NEW p, Holds(V, N, h, p), NEW x \in Arr(V),
         x.view_source \in 0..N,
         x.view_source # 0 =>
           /\ x.view_source_version <= h[x.view_source].mutation_version
           /\ SliceOf(x, h[x.view_source])
  PROVE  Holds(V, N + 1, Append(h, x), p)
  <1>. DEFINE g == Append(h, x)
              w == x.view_source
  <1>1. /\ Null \in V /\ Range(Order) \subseteq V
        /\ N \in Nat /\ h \in Heaps(V, N) /\ Agrees(N, h)
        /\ \A y \in 1..N : y \notin p => Slice(h, y)
    BY DEF Holds
  <1>2. /\ h \in [1..N -> Arr(V)] /\ \A y \in 1..N : h[y] \in Arr(V) /\ h[y].view_source < y
    BY <1>1 DEF Heaps
  <1>3. h \in Seq(Arr(V)) /\ Len(h) = N
    BY <1>1, <1>2, SequenceOfFunction
  <1>4. g \in Seq(Arr(V)) /\ Len(g) = N + 1 /\ g[N+1] = x /\ \A y \in 1..N : g[y] = h[y]
    BY <1>3, AppendProperties
  <1>. HIDE DEF g
  <1>5. /\ N + 1 \in Nat /\ \A y \in 1..N : y \in 1..N + 1 /\ y # N + 1
        /\ \A y \in 1..N + 1 : y \in 1..N \/ y = N + 1
        /\ w < N + 1 /\ (w # 0 => w \in 1..N)
    BY <1>1
  <1>6. ASSUME NEW y \in 1..N, h[y].view_source # 0
        PROVE  h[y].view_source \in 1..N
    <2>1. PICK z : z = h[y].view_source
      OBVIOUS
    <2>2. z \in Nat /\ z < y /\ z # 0
      BY <1>2, <1>6, <2>1, Fields
    <2>3. z \in 1..N
      BY <1>1, <2>2
    <2>. QED
      BY <2>1, <2>3
  <1>7. g \in Heaps(V, N + 1)
    <2>1. g \in [1..N + 1 -> Arr(V)]
      <3>1. DOMAIN g = 1..N + 1 /\ g = [y \in DOMAIN g |-> g[y]]
        BY <1>4, LenProperties, SeqDef
      <3>2. \A y \in 1..N + 1 : g[y] \in Arr(V)
        BY <1>2, <1>4, <1>5
      <3>. QED
        BY <3>1, <3>2
    <2>2. \A y \in 1..N + 1 : g[y].view_source < y
      BY <1>2, <1>4, <1>5
    <2>. QED
      BY <2>1, <2>2 DEF Heaps
  <1>8. \A y \in 1..N : h[y].view_source # 0 => g[h[y].view_source] = h[h[y].view_source]
    BY <1>4, <1>6
  <1>9. w # 0 => g[w] = h[w]
    BY <1>4, <1>5
  <1>10. Agrees(N + 1, g)
    <2>1. ASSUME NEW y \in 1..N + 1, g[y].view_source # NoArray
          PROVE  g[y].view_source_version <= g[g[y].view_source].mutation_version
      <3>1. CASE y \in 1..N
        BY <1>1, <1>4, <1>8, <2>1, <3>1 DEF Agrees, NoArray
      <3>2. CASE y = N + 1
        BY <1>4, <1>9, <2>1, <3>2 DEF NoArray
      <3>. QED
        BY <1>5, <3>1, <3>2
    <2>. QED
      BY <2>1 DEF Agrees
  <1>11. ASSUME NEW y \in 1..N + 1, y \notin p
         PROVE  Slice(g, y)
    <2>1. CASE y \in 1..N
      <3>1. Slice(h, y) /\ g[y] = h[y]
        BY <1>1, <1>4, <1>11, <2>1
      <3>. QED
        BY <1>8, <2>1, <3>1 DEF Slice
    <2>2. CASE y = N + 1
      <3>1. g[y] = x
        BY <1>4, <2>2
      <3>. QED
        BY <1>9, <3>1 DEF Slice, SliceOf
    <2>. QED
      BY <1>5, <2>1, <2>2
  <1>. QED
    BY <1>1, <1>5, <1>7, <1>10, <1>11 DEF Holds, g

NewView(r, m, w, o, z) ==
  [NewArray(r) EXCEPT !.mutation_version = m, !.view_source = w,
                      !.view_offset = o, !.view_source_version = z]
NewRecord(r, m, w, o, z) ==
  [elements |-> r, count |-> Len(r), mutation_version |-> m, view_source |-> w,
   view_offset |-> o, view_source_version |-> z, view_invalid |-> FALSE]
LEMMA NewIs ==
  ASSUME NEW r, NEW m, NEW w, NEW o, NEW z
  PROVE  /\ [NewArray(r) EXCEPT !.mutation_version = m] = NewRecord(r, m, 0, 0, 0)
         /\ NewView(r, m, w, o, z) = NewRecord(r, m, w, o, z)
  <1>. PICK b : b = FALSE
    OBVIOUS
  <1>. DEFINE R(v, x, i, y) ==
                [elements |-> r, count |-> Len(r), mutation_version |-> v,
                 view_source |-> x, view_offset |-> i, view_source_version |-> y,
                 view_invalid |-> b]
  <1>1. NewArray(r) = R(0, 0, 0, 0)
    BY DEF NewArray, NoArray
  <1>2. [R(0, 0, 0, 0) EXCEPT !.mutation_version = m] = R(m, 0, 0, 0)
    OBVIOUS
  <1>3. [R(m, 0, 0, 0) EXCEPT !.view_source = w] = R(m, w, 0, 0)
    OBVIOUS
  <1>4. [R(m, w, 0, 0) EXCEPT !.view_offset = o] = R(m, w, o, 0)
    OBVIOUS
  <1>5. [R(m, w, o, 0) EXCEPT !.view_source_version = z] = R(m, w, o, z)
    OBVIOUS
  <1>6. \A v, x, i, y : R(v, x, i, y) = NewRecord(r, v, x, i, y)
    BY DEF NewRecord
  <1>. HIDE DEF R
  <1>7. [NewArray(r) EXCEPT !.mutation_version = m] = R(m, 0, 0, 0)
    BY <1>1, <1>2
  <1>8. NewView(r, m, w, o, z) = R(m, w, o, z)
    <2>. PICK n : n = NewArray(r)
      OBVIOUS
    <2>1. [n EXCEPT !.mutation_version = m] = R(m, 0, 0, 0)
      BY <1>7
    <2>2. [n EXCEPT !.mutation_version = m, !.view_source = w, !.view_offset = o,
                    !.view_source_version = z]
            = [[[[n EXCEPT !.mutation_version = m] EXCEPT !.view_source = w]
                  EXCEPT !.view_offset = o] EXCEPT !.view_source_version = z]
      OBVIOUS
    <2>. QED
      BY <1>3, <1>4, <1>5, <2>1, <2>2 DEF NewView
  <1>. QED
    BY <1>6, <1>7, <1>8

LEMMA SublistHolds ==
  ASSUME NEW V, NEW N, Holds(V, N, heap, apart \cup shown), NEW a \in 1..N,
         NEW s \in Nat, NEW e \in Nat, Sublist(a, s, e)
  PROVE  Holds(V, N + 1, heap', apart' \cup shown')
  <1>. DEFINE t == heap[a].elements
              r == SubSeq(t, s + 1, e)
              x == [NewArray(r) EXCEPT
                      !.mutation_version = e - s,
                      !.view_source = a, !.view_offset = s,
                      !.view_source_version = heap[a].mutation_version]
  <1>1. N \in Nat /\ heap \in Heaps(V, N)
    BY DEF Holds
  <1>2. s <= e /\ e <= heap[a].count /\ heap' = Append(heap, x) /\ apart' = apart /\ shown' = shown
    BY DEF Sublist
  <1>3. heap[a] \in Arr(V)
    BY <1>1 DEF Heaps
  <1>4. /\ t \in Seq(V) /\ heap[a].count \in Nat /\ heap[a].count <= Len(t)
        /\ Len(t) \in Nat /\ \A j \in 1..Len(t) : t[j] \in V
        /\ heap[a].mutation_version \in Nat
    BY <1>3, Fields
  <1>. HIDE DEF t
  <1>5. r \in Seq(V) /\ Len(r) = e - s /\ \A j \in 1..e - s : r[j] = t[s + j]
    <2>1. s + 1 \in Int /\ e \in Int /\ \A j \in s + 1..e : j \in 1..Len(t)
      BY <1>2, <1>4
    <2>2. /\ r \in Seq(V) /\ Len(r) = IF s + 1 <= e THEN e - (s + 1) + 1 ELSE 0
          /\ \A j \in 1..e - (s + 1) + 1 : r[j] = t[s + 1 + j - 1]
      BY <1>4, <2>1, SubSeqProperties
    <2>3. /\ (IF s + 1 <= e THEN e - (s + 1) + 1 ELSE 0) = e - s
          /\ e - (s + 1) + 1 = e - s /\ \A j \in 1..e - s : s + 1 + j - 1 = s + j
      BY <1>2
    <2>. HIDE DEF r
    <2>. QED
      BY <2>2, <2>3
  <1>. HIDE DEF r
  <1>6. e - s \in Nat /\ s + (e - s) <= heap[a].count
    BY <1>2, <1>4
  <1>7. /\ x.elements = r /\ x.count = e - s /\ x.view_source = a /\ x.view_offset = s
        /\ x.view_source_version = heap[a].mutation_version
        /\ x \in Arr(V)
    <2>1. a \in Nat /\ Len(r) = e - s
      BY <1>5
    <2>2. x = [elements |-> r, count |-> Len(r), mutation_version |-> e - s,
               view_source |-> a, view_offset |-> s,
               view_source_version |-> heap[a].mutation_version, view_invalid |-> FALSE]
      <3>1. PICK m, z : m = e - s /\ z = heap[a].mutation_version
        OBVIOUS
      <3>3. x = NewView(r, m, a, s, z)
        BY <3>1, Zenon DEF NewView
      <3>4. NewView(r, m, a, s, z) = NewRecord(r, m, a, s, z)
        BY NewIs
      <3>2. x = NewRecord(r, m, a, s, z)
        BY <3>3, <3>4, Zenon
      <3>. QED
        BY <3>1, <3>2 DEF NewRecord
    <2>. HIDE DEF x
    <2>3. /\ x.elements = r /\ x.count = e - s /\ x.view_source = a /\ x.view_offset = s
          /\ x.view_source_version = heap[a].mutation_version
      BY <2>1, <2>2
    <2>4. x \in Arr(V)
      <3>1. PICK n \in Nat : n = e - s /\ Len(r) = n
        BY <1>6, <2>1
      <3>2. x = [elements |-> r, count |-> n, mutation_version |-> n,
                 view_source |-> a, view_offset |-> s,
                 view_source_version |-> heap[a].mutation_version, view_invalid |-> FALSE]
        BY <2>2, <3>1
      <3>3. n <= Len(r)
        BY <3>1
      <3>. QED
        BY <1>4, <1>5, <2>1, <3>2, <3>3 DEF Arr
    <2>. QED
      BY <2>3, <2>4
  <1>. HIDE DEF x
  <1>8. /\ x.view_source \in 0..N
        /\ x.view_source_version <= heap[x.view_source].mutation_version
        /\ SliceOf(x, heap[x.view_source])
    <2>1. a \in 0..N
      BY <1>1
    <2>2. SliceOf(x, heap[a])
      BY <1>5, <1>6, <1>7 DEF SliceOf, t
    <2>. QED
      BY <1>4, <1>7, <2>1, <2>2
  <1>9. Holds(V, N + 1, Append(heap, x), apart \cup shown)
    BY <1>7, <1>8, NewHolds
  <1>. QED
    BY <1>2, <1>9 DEF x, r, t

LEMMA ConcatHolds ==
  ASSUME NEW V, NEW N, Holds(V, N, heap, apart \cup shown), NEW a \in 1..N, NEW b \in 1..N,
         Concat(a, b)
  PROVE  Holds(V, N + 1, heap', apart' \cup shown')
  <1>. DEFINE s == Content(heap, a) \o Content(heap, b)
              x == [NewArray(s) EXCEPT !.mutation_version = Len(s)]
  <1>1. N \in Nat /\ heap \in Heaps(V, N)
    BY DEF Holds
  <1>2. heap' = Append(heap, x) /\ apart' = apart /\ shown' = shown
    BY DEF Concat
  <1>3. heap[a] \in Arr(V) /\ heap[b] \in Arr(V)
    BY <1>1 DEF Heaps
  <1>4. Content(heap, a) \in Seq(V) /\ Content(heap, b) \in Seq(V)
    BY <1>3, ContentIs
  <1>5. s \in Seq(V)
    BY <1>4, PutTogether
  <1>. HIDE DEF s
  <1>6. Len(s) \in Nat
    BY <1>5, LenProperties
  <1>7. x \in Arr(V) /\ x.view_source = 0
    <2>1. PICK n \in Nat : n = Len(s)
      BY <1>6
    <2>2. x = [elements |-> s, count |-> n, mutation_version |-> n,
               view_source |-> 0, view_offset |-> 0,
               view_source_version |-> 0, view_invalid |-> FALSE]
      BY <2>1, NewIs DEF NewRecord
    <2>. HIDE DEF x
    <2>3. n <= Len(s)
      BY <2>1
    <2>. QED
      BY <1>5, <2>2, <2>3 DEF Arr
  <1>. HIDE DEF x
  <1>8. x.view_source \in 0..N
    BY <1>1, <1>7
  <1>9. Holds(V, N + 1, Append(heap, x), apart \cup shown)
    BY <1>7, <1>8, NewHolds
  <1>. QED
    BY <1>2, <1>9 DEF x, s

LEMMA FirstHolds ==
  ASSUME Init
  PROVE  ViewsInv
  <1>. DEFINE V == Range(Order)
              x == NewArray(Start)
              e == << >>
  <1>1. Start \in Seq(V) /\ Null \in V
    BY ViewsAssumption
  <1>2. heap = <<x>> /\ apart = {} /\ shown = {}
    BY DEF Init
  <1>. HIDE DEF V
  <1>3. Len(Start) \in Nat
    BY <1>1, LenProperties
  <1>4. x \in Arr(V) /\ x.view_source = 0
    BY <1>1, <1>3 DEF NewArray, Arr, NoArray
  <1>. HIDE DEF x
  <1>5. heap \in Heaps(V, 1)
    <2>1. heap = [y \in 1..1 |-> x]
      BY <1>2
    <2>2. \A y \in 1..1 : heap[y] = x /\ x.view_source < y
      BY <1>4, <2>1
    <2>. QED
      BY <1>4, <2>1, <2>2 DEF Heaps
  <1>6. \A y \in 1..1 : heap[y].view_source = 0
    BY <1>2, <1>4
  <1>7. Agrees(1, heap) /\ \A y \in 1..1 : Slice(heap, y)
    BY <1>6 DEF Agrees, Slice, NoArray
  <1>8. Holds(V, 1, heap, apart \cup shown)
    BY <1>1, <1>2, <1>5, <1>7 DEF Holds, V
  <1>. QED
    BY <1>2, <1>8 DEF ViewsInv

LEMMA StepHolds ==
  ASSUME ViewsInv, [Next]_vars
  PROVE  ViewsInv'
  <1>1. PICK V, N : Holds(V, N, heap, apart \cup shown)
    BY DEF ViewsInv
  <1>2. DOMAIN heap = 1..N /\ N \in Nat /\ apart \subseteq DOMAIN heap
    BY <1>1 DEF Holds, Heaps, ViewsInv
  <1>. DEFINE Good == /\ apart' \subseteq DOMAIN heap'
                      /\ \E U, M : Holds(U, M, heap', apart' \cup shown')
  <1>3. ASSUME Good
        PROVE  ViewsInv'
    BY <1>3 DEF ViewsInv, Holds, Agrees, Slice, Heaps
  <1>. HIDE DEF Good
  <1>4. ASSUME Holds(V, N + 1, heap', apart' \cup shown'), apart' = apart
        PROVE  Good
    <2>1. PICK g : g = heap'
      OBVIOUS
    <2>2. DOMAIN g = 1..N + 1
      BY <1>4, <2>1 DEF Holds, Heaps
    <2>3. 1..N \subseteq 1..N + 1
      BY <1>2
    <2>. QED
      BY <1>2, <1>4, <2>1, <2>2, <2>3 DEF Good
  <1>5. ASSUME NEW a \in 1..N, NEW s \in 0..MaxLength, NEW e \in 0..MaxLength,
               Sublist(a, s, e)
        PROVE  Good
    <2>1. s \in Nat /\ e \in Nat /\ apart' = apart
      BY <1>5 DEF Sublist
    <2>. QED
      BY <1>1, <1>4, <1>5, <2>1, SublistHolds
  <1>6. ASSUME NEW a \in 1..N, NEW b \in 1..N, Concat(a, b)
        PROVE  Good
    <2>1. apart' = apart
      BY <1>6 DEF Concat
    <2>. QED
      BY <1>1, <1>4, <1>6, <2>1, ConcatHolds
  <1>7. ASSUME NEW a \in 1..N, EditOf(a)
        PROVE  Good
    <2>1. PICK U, A, B, E : Edits(U, N, a, A, B, E)
      BY <1>1, <1>7, EditKeeps
    <2>2. /\ Holds(U, N, heap', apart' \cup shown')
          /\ DOMAIN heap' = 1..N /\ apart' \subseteq apart \cup DOMAIN heap
      BY <2>1, EditHolds
    <2>. QED
      BY <1>2, <2>2 DEF Good
  <1>8. ASSUME UNCHANGED vars
        PROVE  Good
    BY <1>1, <1>2, <1>8 DEF vars, Good
  <1>. QED
    BY <1>2, <1>3, <1>5, <1>6, <1>7, <1>8 DEF Next

(* Whatever array_insert_internal, array_remove_internal and               *)
(* array_set_internal do, by themselves or in the loops of the library,    *)
(* through stale views too, the heap is one of arrays with older sources,  *)
(* where no view has seen a later version of its source than there is, and *)
(* the window of a view is a slice of its source but for those that the    *)
(* histories name.                                                         *)
THEOREM AlwaysHolds ==
  Spec => []ViewsInv
  <1>1. Init => ViewsInv
    BY FirstHolds
  <1>2. ViewsInv /\ [Next]_vars => ViewsInv'
    BY StepHolds
  <1>. QED
    BY <1>1, <1>2, PTL DEF Spec

-----------------------------------------------------------------------------
(* Views that are not excepted mirror their sources.                       *)

(* Parts of two sequences that are the same.                               *)
SamePart(s, t, o, u, n) == SubSeq(s, o + 1, o + n) = SubSeq(t, u + 1, u + n)
LEMMA SameParts ==
  ASSUME NEW S, NEW s \in Seq(S), NEW t \in Seq(S),
         NEW o \in Nat, NEW u \in Nat, NEW n \in Nat,
         o + n <= Len(s), u + n <= Len(t), \A j \in 1..n : s[o + j] = t[u + j]
  PROVE  SamePart(s, t, o, u, n)
  <1>1. ASSUME NEW r \in Seq(S), NEW i \in Nat, i + n <= Len(r)
        PROVE  /\ SubSeq(r, i + 1, i + n) \in Seq(S)
               /\ Len(SubSeq(r, i + 1, i + n)) = n
               /\ \A j \in 1..n : SubSeq(r, i + 1, i + n)[j] = r[i + j]
    <2>1. Len(r) \in Nat /\ \A j \in 1..Len(r) : r[j] \in S
      BY LenProperties, ElementOfSeq
    <2>2. i + 1 \in Int /\ i + n \in Int /\ \A j \in i + 1..i + n : j \in 1..Len(r)
      BY <1>1, <2>1
    <2>3. /\ SubSeq(r, i + 1, i + n) \in Seq(S)
          /\ Len(SubSeq(r, i + 1, i + n)) = IF i + 1 <= i + n THEN i + n - (i + 1) + 1 ELSE 0
          /\ \A j \in 1..i + n - (i + 1) + 1 : SubSeq(r, i + 1, i + n)[j] = r[i + 1 + j - 1]
      BY <2>1, <2>2, SubSeqProperties
    <2>4. /\ (IF i + 1 <= i + n THEN i + n - (i + 1) + 1 ELSE 0) = n
          /\ i + n - (i + 1) + 1 = n /\ \A j \in 1..n : i + 1 + j - 1 = i + j
      OBVIOUS
    <2>. QED
      BY <2>3, <2>4
  <1>. DEFINE p == SubSeq(s, o + 1, o + n)
              q == SubSeq(t, u + 1, u + n)
  <1>2. /\ p \in Seq(S) /\ q \in Seq(S) /\ Len(p) = n /\ Len(q) = n
        /\ \A j \in 1..n : p[j] = s[o + j] /\ q[j] = t[u + j]
    BY <1>1
  <1>. HIDE DEF p, q
  <1>3. \A j \in 1..Len(p) : p[j] = q[j]
    BY <1>2
  <1>4. p = q
    BY <1>2, <1>3, SeqEqual
  <1>. QED
    BY <1>4 DEF p, q, SamePart

LEMMA MirrorIs ==
  ASSUME NEW V, NEW N, NEW h, NEW p, Holds(V, N, h, p), NEW a \in 1..N,
         h[a].view_source # 0, a \notin p
  PROVE  Content(h, a) = SubSeq(h[h[a].view_source].elements, h[a].view_offset + 1,
                                h[a].view_offset + h[a].count)
  <1>. DEFINE w == h[a].view_source
              s == h[a].elements
              t == h[w].elements
              u == h[a].view_offset
              n == h[a].count
  <1>1. h \in Heaps(V, N) /\ Slice(h, a) /\ N \in Nat
    BY DEF Holds
  <1>2. h[a] \in Arr(V) /\ w < a
    BY <1>1 DEF Heaps
  <1>3. u \in Nat /\ n \in Nat /\ s \in Seq(V) /\ n <= Len(s) /\ w \in Nat
    BY <1>2, Fields
  <1>4. w \in 1..N
    <2>1. w # 0
      OBVIOUS
    <2>. HIDE DEF w
    <2>. QED
      BY <1>1, <1>2, <1>3, <2>1
  <1>5. h[w] \in Arr(V)
    BY <1>1, <1>4 DEF Heaps
  <1>6. t \in Seq(V) /\ h[w].count <= Len(t) /\ h[w].count \in Nat /\ Len(t) \in Nat
    BY <1>5, Fields
  <1>7. u + n <= h[w].count /\ \A j \in 1..n : s[j] = t[u + j]
    BY <1>1 DEF Slice
  <1>. HIDE DEF s, t, u, n, w
  <1>8. /\ 0 \in Nat /\ 0 + n <= Len(s) /\ u + n <= Len(t)
        /\ \A j \in 1..n : s[0 + j] = t[u + j]
    BY <1>3, <1>6, <1>7
  <1>9. SubSeq(s, 0 + 1, 0 + n) = SubSeq(t, u + 1, u + n)
    BY <1>3, <1>6, <1>8, SameParts DEF SamePart
  <1>10. 0 + 1 = 1 /\ 0 + n = n
    BY <1>3
  <1>11. SubSeq(s, 1, n) = SubSeq(t, u + 1, u + n)
    BY <1>9, <1>10
  <1>. QED
    BY <1>11 DEF Content, s, t, u, n, w

(* The window of a view is a slice of its source whatever edits of views,  *)
(* stale ones too, and of views of views, array_insert_internal,           *)
(* array_remove_internal, array_set_internal and slp_obj_array_sync_view   *)
(* pass on, until its source is edited otherwise or it shows elements that *)
(* were removed.                                                           *)
THEOREM WindowsMirror ==
  Spec => []ViewsMirror
  <1>1. ViewsInv => ViewsMirror
    <2>1. SUFFICES ASSUME ViewsInv, NEW a \in DOMAIN heap, IsView(heap, a),
                          a \notin apart \cup shown
                   PROVE  Content(heap, a) =
                            SubSeq(heap[heap[a].view_source].elements,
                                   heap[a].view_offset + 1,
                                   heap[a].view_offset + heap[a].count)
      BY DEF ViewsMirror, Mirrors
    <2>2. PICK p : p = apart \cup shown
      OBVIOUS
    <2>3. PICK V, N : Holds(V, N, heap, p)
      BY <2>1, <2>2 DEF ViewsInv
    <2>4. a \in 1..N /\ heap[a].view_source # 0
      BY <2>1, <2>3 DEF Holds, Heaps, IsView, NoArray
    <2>. QED
      BY <2>1, <2>2, <2>3, <2>4, MirrorIs
  <1>. QED
    BY <1>1, AlwaysHolds, PTL

-----------------------------------------------------------------------------
(* An edit of a leaves no other view valid whose source it changed: it     *)
(* gives the source a version of its own, or the view is one that was      *)
(* valid before, and it makes no view valid that was not.                  *)
WaysBack(x, a) ==
  \/ x = a
  \/ /\ a = heap[x].view_source \/ heap[a].view_source = x
     /\ ReverseElements(a) \/ SortElements(a)

LEMMA StaleAfterEdit ==
  ASSUME NEW V, NEW N, NEW a \in 1..N, NEW A, NEW B, NEW E, Edits(V, N, a, A, B, E),
         apart \subseteq 1..N, NEW x \in apart', Valid(heap', x), ~WaysBack(x, a)
  PROVE  x \in apart /\ Valid(heap, x)
  <1>. DEFINE W == Way(heap, a)
  <1>1. PICK g : g = heap'
    OBVIOUS
  <1>2. N \in Nat /\ heap \in Heaps(V, N) /\ Agrees(N, heap)
    BY DEF Edits, Holds
  <1>3. /\ g \in Heaps(V, N)
        /\ \A y \in 1..N : y \notin W => g[y] = heap[y]
        /\ \A y \in W : SameView(heap[y], g[y])
        /\ \A y \in W : y \notin A => g[y] = heap[y]
                                      \/ g[y].mutation_version > heap[y].mutation_version
        /\ \A y \in W : y \notin B /\ heap[y].view_source # 0 =>
             g[y] = heap[y] \/ g[y].view_invalid = TRUE
    BY <1>1 DEF Edits, Kept
  <1>4. PICK w : w = heap[x].view_source
    OBVIOUS
  <1>5. x # a /\ x \notin B /\ w \notin A
    BY <1>4 DEF Edits, WaysBack
  <1>6. DOMAIN heap = 1..N
    BY <1>2 DEF Heaps
  <1>7. x \in apart \/ (x \in 1..N /\ x \notin W /\ w \in W /\ g[w] # heap[w])
    BY <1>1, <1>4, <1>6 DEF Edits, EditShowing
  <1>8. x \in 1..N
    BY <1>7
  <1>9. /\ w \in Nat /\ w < x /\ (w # 0 => w \in 1..N)
        /\ heap[x].view_source_version \in Nat
    <2>1. heap[x] \in Arr(V) /\ w < x
      BY <1>2, <1>4, <1>8 DEF Heaps
    <2>2. w \in Nat /\ heap[x].view_source_version \in Nat
      BY <1>4, <2>1, Fields
    <2>. QED
      BY <1>2, <1>8, <2>1, <2>2
  <1>10. CASE w = 0
    <2>1. x \in apart
      <3>1. PICK off : WayOf(heap, a, W, off)
        BY <1>2, WayIs
      <3>2. 0 \notin W
        BY <1>2, <3>1, OnWay
      <3>. QED
        BY <1>7, <1>10, <3>2
    <2>. QED
      BY <1>4, <1>10, <2>1 DEF Valid, IsView, NoArray
  <1>11. CASE w # 0
    <2>1. g[x] = heap[x]
      <3>1. CASE x \in W
        <4>1. g[x].view_source = w
          BY <1>3, <1>4, <3>1 DEF SameView
        <4>2. g[x].view_invalid # TRUE
          BY <1>1, <1>11, <4>1 DEF Valid, IsView, NoArray
        <4>. QED
          BY <1>3, <1>4, <1>5, <1>11, <3>1, <4>2
      <3>2. CASE x \notin W
        BY <1>3, <1>8, <3>2
      <3>. QED
        BY <3>1, <3>2
    <2>2. /\ ~heap[x].view_invalid
          /\ heap[x].view_source_version = g[w].mutation_version
      BY <1>1, <1>4, <1>11, <2>1 DEF Valid, IsView, NoArray
    <2>3. heap[x].view_source_version <= heap[w].mutation_version
      BY <1>2, <1>4, <1>8, <1>11 DEF Agrees, NoArray
    <2>4. g[w].mutation_version \in Nat /\ heap[w].mutation_version \in Nat
      <3>1. g[w] \in Arr(V) /\ heap[w] \in Arr(V)
        BY <1>2, <1>3, <1>9, <1>11 DEF Heaps
      <3>. QED
        BY <3>1, Fields
    <2>5. g[w].mutation_version >= heap[w].mutation_version
      <3>1. CASE w \in W
        BY <1>3, <3>1 DEF SameView
      <3>2. CASE w \notin W
        <4>1. g[w] = heap[w]
          BY <1>3, <1>9, <1>11, <3>2
        <4>. QED
          BY <2>4, <4>1
      <3>. QED
        BY <3>1, <3>2
    <2>6. g[w].mutation_version = heap[w].mutation_version
      BY <2>2, <2>3, <2>4, <2>5
    <2>7. w \in W => g[w] = heap[w]
      <3>1. ~(g[w].mutation_version > heap[w].mutation_version)
        BY <2>4, <2>6
      <3>. QED
        BY <1>3, <1>5, <3>1
    <2>8. x \in apart
      BY <1>7, <2>7
    <2>9. Valid(heap, x)
      BY <1>4, <2>2, <2>6 DEF Valid
    <2>. QED
      BY <2>8, <2>9
  <1>. QED
    BY <1>10, <1>11

(* slp_obj_array_view_is_valid takes no view for valid whose source        *)
(* array_insert_internal, array_remove_internal or array_set_internal      *)
(* changed otherwise than through it, and none that it did not take for    *)
(* valid, until the view itself is edited (or a view of it is sorted or    *)
(* reversed), or its source is, which makes no version.                    *)
THEOREM StaleUntilEdited ==
  Spec => StalenessLasts
  <1>. DEFINE Lasts(x) ==
                \/ ~Valid(heap', x)
                \/ x \in apart /\ Valid(heap, x)
                \/ EditOf(x)
                \/ \E a \in DOMAIN heap :
                     /\ a = heap[x].view_source \/ heap[a].view_source = x
                     /\ ReverseElements(a) \/ SortElements(a)
  <1>1. ASSUME ViewsInv, Next, NEW x \in apart'
        PROVE  Lasts(x)
    <2>1. PICK V, N : Holds(V, N, heap, apart \cup shown)
      BY <1>1 DEF ViewsInv
    <2>2. /\ N \in Nat /\ heap \in Heaps(V, N) /\ DOMAIN heap = 1..N
          /\ apart \subseteq 1..N
      BY <1>1, <2>1 DEF Holds, Heaps, ViewsInv
    <2>3. ASSUME NEW a \in 1..N, EditOf(a)
          PROVE  Lasts(x)
      <3>1. PICK U, A, B, E : Edits(U, N, a, A, B, E)
        BY <2>1, <2>3, EditKeeps
      <3>2. CASE WaysBack(x, a)
        BY <2>2, <2>3, <3>2 DEF WaysBack
      <3>3. CASE ~WaysBack(x, a)
        BY <1>1, <2>2, <3>1, <3>3, StaleAfterEdit
      <3>. QED
        BY <3>2, <3>3
    <2>4. ASSUME NEW y, heap' = Append(heap, y), apart' = apart
          PROVE  Lasts(x)
      <3>1. PICK g : g = heap'
        OBVIOUS
      <3>2. \A z \in 1..N : g[z] = heap[z]
        <4>. DEFINE S == Arr(V) \cup {y}
        <4>1. heap \in [1..N -> S] /\ y \in S
          BY <2>2 DEF Heaps
        <4>. HIDE DEF S
        <4>2. heap \in Seq(S) /\ Len(heap) = N
          BY <2>2, <4>1, SequenceOfFunction
        <4>. QED
          BY <2>4, <3>1, <4>1, <4>2, AppendProperties
      <3>3. x \in 1..N /\ x \in apart
        BY <1>1, <2>2, <2>4
      <3>4. heap[x].view_source # NoArray => heap[x].view_source \in 1..N
        <4>1. heap[x] \in Arr(V) /\ heap[x].view_source < x
          BY <2>2, <3>3 DEF Heaps
        <4>2. PICK w : w = heap[x].view_source
          OBVIOUS
        <4>3. w \in Nat /\ w < x
          BY <4>1, <4>2, Fields
        <4>4. w # 0 => w \in 1..N
          BY <2>2, <3>3, <4>3
        <4>. QED
          BY <4>2, <4>4 DEF NoArray
      <3>5. Valid(g, x) => Valid(heap, x)
        BY <3>2, <3>3, <3>4 DEF Valid, IsView
      <3>. QED
        BY <3>1, <3>3, <3>5
    <2>5. ASSUME NEW a \in 1..N, NEW s, NEW e, Sublist(a, s, e)
          PROVE  Lasts(x)
      <3>1. \E y : heap' = Append(heap, y) /\ apart' = apart
        BY <2>5 DEF Sublist
      <3>. HIDE DEF Lasts
      <3>. QED
        BY <2>4, <3>1
    <2>6. ASSUME NEW a \in 1..N, NEW b \in 1..N, Concat(a, b)
          PROVE  Lasts(x)
      <3>1. \E y : heap' = Append(heap, y) /\ apart' = apart
        BY <2>6 DEF Concat
      <3>. HIDE DEF Lasts
      <3>. QED
        BY <2>4, <3>1
    <2>. HIDE DEF Lasts
    <2>. QED
      BY <1>1, <2>2, <2>3, <2>5, <2>6 DEF Next
  <1>2. ViewsInv /\ [Next]_vars => [\A x \in apart' : Lasts(x)]_vars
    <2>. HIDE DEF Lasts
    <2>. QED
      BY <1>1
  <1>. QED
    BY <1>2, AlwaysHolds, PTL DEF Spec, StalenessLasts

-----------------------------------------------------------------------------
(* Edits that an array makes of itself and then of its source: assignments *)
(* past its end, and the synchronisation of a view that was rearranged.    *)

(* The sources of a are on their way; a itself is y by now.                *)
Stage(V, N, h, a, y, W, off, m, q) ==
  {g \in Heaps(V, N) :
     g[a] = y /\ Spread(V, N, h, g, W \ {a}, off, h[a].count, m, q)}

(* a before its sources are edited.                                        *)
IsOwn(V, x, y, q) ==
  /\ y \in Arr(V) /\ SameLink(x, y) /\ y.mutation_version >= x.mutation_version
  /\ \A j \in 1..x.count : q[j] = x.elements[j]

LEMMA StageFirst ==
  ASSUME NEW V, NEW N, NEW h, NEW a, NEW W, NEW off, Ready(V, N, h, a, W, off),
         NEW y, NEW q, IsOwn(V, h[a], y, q)
  PROVE  [h EXCEPT ![a] = y] \in Stage(V, N, h, a, y, W, off, h[a].count, q)
  <1>. DEFINE g == [h EXCEPT ![a] = y]
              c == h[a].count
  <1>1. /\ N \in Nat /\ h \in Heaps(V, N) /\ a \in 1..N /\ a \in W /\ W \subseteq 1..N
        /\ h = [x \in 1..N |-> h[x]]
        /\ \A x \in 1..N : h[x] \in Arr(V) /\ h[x].view_source < x
        /\ \A x \in 1..N : h[x].view_source \in Nat
    <2>1. N \in Nat /\ h \in Heaps(V, N) /\ a \in 1..N /\ WayOf(h, a, W, off)
      BY DEF Ready
    <2>2. a \in W /\ W \subseteq 1..N
      BY <2>1, OnWay
    <2>3. \A x \in 1..N : h[x] \in Arr(V) /\ h[x].view_source < x
      BY <2>1 DEF Heaps
    <2>4. \A x \in 1..N : h[x].view_source \in Nat
      BY <2>3, Fields
    <2>5. h = [x \in 1..N |-> h[x]]
      BY <2>1 DEF Heaps
    <2>. QED
      BY <2>1, <2>2, <2>3, <2>4, <2>5
  <1>2. /\ y \in Arr(V) /\ SameLink(h[a], y) /\ y.mutation_version >= h[a].mutation_version
        /\ \A j \in 1..c : q[j] = h[a].elements[j]
    BY DEF IsOwn
  <1>3. g[a] = y /\ (\A x \in 1..N : x # a => g[x] = h[x]) /\ g = [x \in 1..N |-> g[x]]
    BY <1>1
  <1>. HIDE DEF g
  <1>4. g \in Heaps(V, N)
    <2>1. ASSUME NEW x \in 1..N
          PROVE  g[x] \in Arr(V) /\ g[x].view_source < x
      <3>1. CASE x = a
        BY <1>1, <1>2, <1>3, <3>1 DEF SameLink
      <3>2. CASE x # a
        BY <1>1, <1>3, <3>2
      <3>. QED
        BY <3>1, <3>2
    <2>. QED
      BY <1>3, <2>1 DEF Heaps
  <1>5. /\ Spread(V, N, h, h, W, off, c, c, h[a].elements)
        /\ Agrees(N, h)
    BY DEF Ready, Reach, Spread
  <1>6. Agrees(N, g)
    <2>1. ASSUME NEW x \in 1..N, g[x].view_source # NoArray
          PROVE  g[x].view_source_version <= g[g[x].view_source].mutation_version
      <3>. DEFINE w == h[x].view_source
      <3>1. g[x].view_source = w /\ g[x].view_source_version = h[x].view_source_version
        <4>1. CASE x = a
          BY <1>2, <1>3, <4>1 DEF SameLink
        <4>2. CASE x # a
          BY <1>3, <4>2
        <4>. QED
          BY <4>1, <4>2
      <3>2. w # 0 /\ h[x].view_source_version <= h[w].mutation_version
        BY <1>5, <2>1, <3>1 DEF Agrees, NoArray
      <3>3. w \in 1..N
        BY <1>1, <3>2
      <3>4. g[w].mutation_version >= h[w].mutation_version
        <4>1. h[w].mutation_version \in Nat
          BY <1>1, <3>3, Fields
        <4>2. CASE w = a
          BY <1>2, <1>3, <4>2
        <4>3. CASE w # a
          BY <1>3, <3>3, <4>1, <4>3
        <4>. QED
          BY <4>2, <4>3
      <3>5. /\ g[w] \in Arr(V) /\ h[w] \in Arr(V) /\ h[x] \in Arr(V)
        BY <1>1, <1>4, <3>3 DEF Heaps
      <3>6. /\ g[w].mutation_version \in Nat /\ h[w].mutation_version \in Nat
            /\ h[x].view_source_version \in Nat
        BY <3>5, Fields
      <3>. QED
        BY <3>1, <3>2, <3>4, <3>6
    <2>. QED
      BY <2>1 DEF Agrees
  <1>7. ASSUME NEW x \in W \ {a}
        PROVE  Moved(h[x], g[x], off[x], c, c, q)
    <2>1. g[x] = h[x]
      BY <1>1, <1>3
    <2>2. Moved(h[x], h[x], off[x], c, c, h[a].elements)
      BY <1>5 DEF Spread
    <2>3. Window(h[x].elements, h[x].elements, h[x].count, off[x], c, c, q)
      <3>1. c \in Nat /\ h[x].count \in Nat /\ off[x] \in Nat
        <4>1. h[x] \in Arr(V) /\ h[a] \in Arr(V)
          BY <1>1
        <4>2. c \in Nat /\ h[x].count \in Nat
          BY <4>1, Fields
        <4>. QED
          BY <4>2 DEF Ready, Placed
      <3>2. Window(h[x].elements, h[x].elements, h[x].count, off[x], c, c, h[a].elements)
        BY <2>2 DEF Moved
      <3>3. \A j \in 1..h[x].count - c + c :
              ~(j <= off[x]) /\ j <= off[x] + c => j - off[x] \in 1..c
        BY <3>1
      <3>4. \A j \in 1..h[x].count - c + c :
              ~(j <= off[x]) /\ j <= off[x] + c =>
                q[j - off[x]] = h[a].elements[j - off[x]]
        BY <1>2, <3>3
      <3>. QED
        BY <3>2, <3>4 DEF Window
    <2>. QED
      BY <2>1, <2>2, <2>3 DEF Moved
  <1>. QED
    BY <1>3, <1>4, <1>6, <1>7 DEF Stage, Spread, g

Sources(N, h, a, X, off, g, m, o) ==
  /\ h[a].view_source \in 1..N /\ h[a].view_source \in X
  /\ h[a].view_offset \in Nat /\ h[a].count \in Nat
  /\ WayOf(g, h[a].view_source, X, o)
  /\ Placed(h, X, o, off, h[a].view_offset, h[a].count)
  /\ \A x \in X : /\ off[x] \in Nat /\ off[x] = o[x] + h[a].view_offset
                  /\ o[x] \in Nat /\ h[x].count \in Nat
                  /\ off[x] + h[a].count <= h[x].count
                  /\ g[x].count = h[x].count - h[a].count + m
LEMMA StageWay ==
  ASSUME NEW V, NEW N, NEW h, NEW a, NEW W, NEW off, Ready(V, N, h, a, W, off),
         h[a].view_source # 0, NEW y, NEW m, NEW q,
         NEW g \in Stage(V, N, h, a, y, W, off, m, q)
  PROVE  \E o : Sources(N, h, a, W \ {a}, off, g, m, o)
  <1>. DEFINE s == h[a].view_source
              d == h[a].view_offset
              X == W \ {a}
  <1>1. /\ N \in Nat /\ h \in Heaps(V, N) /\ a \in 1..N /\ WayOf(h, a, W, off)
        /\ \A x \in W : off[x] \in Nat /\ off[x] + h[a].count <= h[x].count
    BY DEF Ready, Placed
  <1>2. PICK o : Rest(h, a, W, off, o)
    BY <1>1, WayOn
  <1>3. s \in X /\ WayOf(h, s, X, o) /\ \A x \in X : o[x] = off[x] - d
    BY <1>2 DEF Rest
  <1>4. W \subseteq 1..N /\ a \in W /\ \A x \in W : h[x] \in Arr(V) /\ x \in 1..N
    BY <1>1, OnWay
  <1>5. d \in Nat /\ s \in 1..N
    BY <1>1, <1>3, <1>4, OnWay
  <1>6. \A x \in W : h[x].count \in Nat
    BY <1>4, Fields
  <1>7. \A x \in X : Moved(h[x], g[x], off[x], h[a].count, m, q)
    BY DEF Stage, Spread
  <1>8. \A x \in X : /\ g[x].view_source = h[x].view_source
                     /\ g[x].view_offset = h[x].view_offset
                     /\ g[x].count = h[x].count - h[a].count + m
    BY <1>7 DEF Moved
  <1>9. WayOf(g, s, X, o)
    <2>. HIDE DEF X, s
    <2>. QED
      BY <1>3, <1>8, WayKept
  <1>10. ASSUME NEW x \in X
        PROVE  /\ off[x] \in Nat /\ off[x] = o[x] + d /\ o[x] \in Nat
               /\ h[x].count \in Nat /\ off[x] + h[a].count <= h[x].count
    <2>1. off[x] \in Nat /\ off[x] + h[a].count <= h[x].count /\ h[x].count \in Nat
      BY <1>1, <1>6
    <2>2. o[x] = off[x] - d
      BY <1>3
    <2>3. o[x] \in Nat
      BY <1>9 DEF WayOf
    <2>4. off[x] = o[x] + d
      BY <1>5, <2>1, <2>2
    <2>. QED
      BY <2>1, <2>3, <2>4
  <1>11. Placed(h, X, o, off, d, h[a].count)
    BY <1>10 DEF Placed
  <1>. QED
    <2>1. h[a].count \in Nat
      BY <1>4, <1>6
    <2>. QED
      BY <1>3, <1>5, <1>8, <1>9, <1>10, <1>11, <2>1 DEF Sources

LEMMA StageOn ==
  ASSUME NEW V, NEW N, NEW h, NEW a, NEW W, NEW off, Ready(V, N, h, a, W, off),
         h[a].view_source # 0, NEW y, NEW m \in Nat, NEW q,
         NEW g \in Stage(V, N, h, a, y, W, off, m, q),
         NEW g2, Alters(V, N, g, g2, W \ {a}), NEW p \in Nat, NEW v, NEW r, NEW k,
         Steps(g, g2, W \ {a}, off, m, p, v, q, r, k)
  PROVE  g2 \in Stage(V, N, h, a, y, W, off, k, r)
  <1>. DEFINE s == h[a].view_source
              d == h[a].view_offset
              X == W \ {a}
              c == h[a].count
  <1>1. N \in Nat /\ h \in Heaps(V, N) /\ a \in 1..N
    BY DEF Ready
  <1>2. PICK o : Sources(N, h, a, X, off, g, m, o)
    BY StageWay
  <1>3. /\ s \in 1..N /\ d \in Nat /\ c \in Nat
        /\ WayOf(g, s, X, o) /\ Placed(h, X, o, off, d, c)
    BY <1>2 DEF Sources
  <1>4. /\ g \in Heaps(V, N) /\ g[a] = y
        /\ Spread(V, N, h, g, X, off, c, m, q)
    BY DEF Stage
  <1>. HIDE DEF s, d, X, c
  <1>5. Spread(V, N, h, g2, X, off, c, k, r)
    BY <1>1, <1>3, <1>4, SpreadOn DEF X
  <1>6. g2 \in Heaps(V, N) /\ \A x \in 1..N : x \notin X => g2[x] = g[x]
    BY DEF Alters, X
  <1>7. g2[a] = y
    BY <1>1, <1>4, <1>6 DEF X
  <1>. QED
    BY <1>5, <1>6, <1>7 DEF Stage, X, c

(* The outcome of an edit: all the arrays of the way show in the window    *)
(* what a shows, and what they showed around it.                           *)
Outcome(V, N, h, g, a, W, off) ==
  Spread(V, N, h, g, W, off, h[a].count, g[a].count, g[a].elements)

(* When the sources show what a shows, the edit is complete.               *)
LEMMA StageLast ==
  ASSUME NEW V, NEW N, NEW h, NEW a, NEW W, NEW off, Ready(V, N, h, a, W, off),
         NEW y, y.view_source = h[a].view_source, y.view_offset = h[a].view_offset,
         y.mutation_version >= h[a].mutation_version,
         NEW g \in Stage(V, N, h, a, y, W, off, y.count, y.elements)
  PROVE  Outcome(V, N, h, g, a, W, off)
  <1>1. /\ g \in Heaps(V, N) /\ g[a] = y
        /\ Spread(V, N, h, g, W \ {a}, off, h[a].count, y.count, y.elements)
    BY DEF Stage
  <1>2. /\ N \in Nat /\ h \in Heaps(V, N) /\ a \in 1..N /\ off[a] = 0
    BY OnWay DEF Ready
  <1>3. h[a] \in Arr(V) /\ y \in Arr(V)
    BY <1>1, <1>2 DEF Heaps
  <1>4. h[a].count \in Nat /\ y.count \in Nat
    BY <1>3, Fields
  <1>5. Window(h[a].elements, y.elements, h[a].count, 0, h[a].count, y.count, y.elements)
    <2>1. \A j \in 1..h[a].count - h[a].count + y.count :
            ~(j <= 0) /\ j <= 0 + y.count /\ j - 0 = j
      BY <1>4
    <2>. QED
      BY <2>1 DEF Window
  <1>6. y.count = h[a].count - h[a].count + y.count
    BY <1>4
  <1>7. Moved(h[a], y, off[a], h[a].count, y.count, y.elements)
    BY <1>2, <1>5, <1>6 DEF Moved
  <1>8. \A x \in W : Moved(h[x], g[x], off[x], h[a].count, y.count, y.elements)
    BY <1>1, <1>7 DEF Spread
  <1>. QED
    BY <1>1, <1>8 DEF Spread, Outcome

(* The last of an edit of a, that it agrees with its source.               *)
Agreed(V, N, h, a, y, W, off, m, q, g) ==
  /\ g \in Stage(V, N, h, a, g[a], W, off, m, q)
  /\ SameShape(y, g[a]) /\ g[a].mutation_version = y.mutation_version
  /\ g[a].view_source = h[a].view_source
  /\ g[a].view_offset = h[a].view_offset
LEMMA StageInStep ==
  ASSUME NEW V, NEW N, NEW h, NEW a, NEW W, NEW off, Ready(V, N, h, a, W, off),
         h[a].view_source # 0,
         NEW y, SameLink(h[a], y), NEW m, NEW q,
         NEW g \in Stage(V, N, h, a, y, W, off, m, q)
  PROVE  Agreed(V, N, h, a, y, W, off, m, q, InStep(g, a, FALSE))
  <1>. DEFINE s == h[a].view_source
              e == g[s].mutation_version
              z == [y EXCEPT !.view_source_version = e]
              g2 == InStep(g, a, FALSE)
  <1>1. /\ N \in Nat /\ h \in Heaps(V, N) /\ a \in 1..N /\ s < a /\ s \in 1..N
        /\ WayOf(h, a, W, off) /\ a \in W
    <2>1. /\ N \in Nat /\ h \in Heaps(V, N) /\ a \in 1..N /\ WayOf(h, a, W, off)
      BY DEF Ready
    <2>2. s < a
      BY <2>1 DEF Heaps
    <2>3. s \in 1..N
      BY StageWay DEF Sources
    <2>4. a \in W
      BY <2>1 DEF WayOf
    <2>. QED
      BY <2>1, <2>2, <2>3, <2>4
  <1>2. /\ g \in Heaps(V, N) /\ g[a] = y /\ Agrees(N, g)
        /\ \A x \in W \ {a} : Moved(h[x], g[x], off[x], h[a].count, m, q)
    BY DEF Stage, Spread
  <1>3. /\ \A x \in 1..N : g[x] \in Arr(V) /\ g[x].view_source < x
        /\ g = [x \in 1..N |-> g[x]]
    BY <1>2 DEF Heaps
  <1>4. e \in Nat /\ y \in Arr(V)
    <2>1. g[s] \in Arr(V) /\ y \in Arr(V)
      BY <1>1, <1>2, <1>3
    <2>. QED
      BY <2>1, Fields
  <1>5. g2 = [g EXCEPT ![a] = z]
    <2>1. g[a].view_source = s /\ IsView(g, a)
      BY <1>2 DEF SameLink, IsView, NoArray
    <2>. QED
      BY <1>2, <2>1 DEF InStep
  <1>6. /\ z \in Arr(V) /\ SameShape(y, z) /\ z.mutation_version = y.mutation_version
        /\ z.view_source = y.view_source /\ z.view_offset = y.view_offset
        /\ z.view_source_version = e
    <2>. HIDE DEF e
    <2>. QED
      BY <1>4 DEF Arr, SameShape
  <1>. HIDE DEF z, g2
  <1>7. g2[a] = z /\ (\A x \in 1..N : x # a => g2[x] = g[x]) /\ g2 = [x \in 1..N |-> g2[x]]
    BY <1>1, <1>3, <1>5
  <1>8. g2 \in Heaps(V, N)
    <2>1. \A x \in 1..N : g2[x] \in Arr(V) /\ g2[x].view_source < x
      BY <1>2, <1>3, <1>6, <1>7
    <2>. QED
      BY <1>7, <2>1 DEF Heaps
  <1>9. Agrees(N, g2)
    <2>1. \A x \in 1..N : /\ g2[x].view_source = g[x].view_source
                          /\ g2[x].mutation_version = g[x].mutation_version
                          /\ g[x].view_source \in Nat /\ g[x].view_source < x
      <3>1. \A x \in 1..N : g[x].view_source \in Nat
        BY <1>3, Fields
      <3>. QED
        BY <1>2, <1>3, <1>6, <1>7, <3>1
    <2>2. ASSUME NEW x \in 1..N, g2[x].view_source # NoArray
          PROVE  g2[x].view_source_version <= g2[g2[x].view_source].mutation_version
      <3>. DEFINE w == g[x].view_source
      <3>1. g2[x].view_source = w /\ w # 0 /\ w \in 1..N
        <4>1. g2[x].view_source = w /\ w # 0 /\ w \in Nat /\ w < x
          BY <2>1, <2>2 DEF NoArray
        <4>2. N \in Nat /\ x \in 1..N
          BY <1>1
        <4>. HIDE DEF w
        <4>. QED
          BY <4>1, <4>2
      <3>2. g2[w].mutation_version = g[w].mutation_version
        BY <2>1, <3>1
      <3>3. CASE x = a
        <4>1. w = s /\ g2[x].view_source_version = e
          BY <1>2, <1>6, <1>7, <3>3 DEF SameLink
        <4>. QED
          BY <1>4, <3>1, <3>2, <4>1
      <3>4. CASE x # a
        <4>1. g2[x].view_source_version = g[x].view_source_version
          BY <1>7, <3>4
        <4>2. g[x].view_source_version <= g[w].mutation_version
          BY <1>2, <3>1 DEF Agrees, NoArray
        <4>. QED
          BY <3>1, <3>2, <4>1, <4>2
      <3>. QED
        BY <3>3, <3>4
    <2>. QED
      BY <2>2 DEF Agrees
  <1>10. \A x \in W \ {a} : x \in 1..N /\ g2[x] = g[x]
    BY <1>1, <1>7, OnWay
  <1>12. Spread(V, N, h, g2, W \ {a}, off, h[a].count, m, q)
    BY <1>2, <1>8, <1>9, <1>10 DEF Spread
  <1>13. g2 \in Stage(V, N, h, a, g2[a], W, off, m, q)
    BY <1>8, <1>12 DEF Stage
  <1>14. /\ SameShape(y, g2[a]) /\ g2[a].mutation_version = y.mutation_version
         /\ g2[a].view_source = h[a].view_source
         /\ g2[a].view_offset = h[a].view_offset
    BY <1>6, <1>7 DEF SameLink
  <1>15. Agreed(V, N, h, a, y, W, off, m, q, g2)
    BY <1>13, <1>14 DEF Agreed
  <1>. QED
    BY <1>15 DEF g2

(* One element more, and one set, in the sources of a.                     *)
LEMMA StageInsert ==
  ASSUME NEW V, NEW N, NEW h, NEW a, NEW W, NEW off, Ready(V, N, h, a, W, off),
         h[a].view_source # 0, NEW y, NEW m \in Nat, NEW q,
         NEW g \in Stage(V, N, h, a, y, W, off, m, q), NEW v \in V, q[m+1] = v
  PROVE  InsertInternal(g, h[a].view_source, h[a].view_offset + m, v, TRUE)
           \in Stage(V, N, h, a, y, W, off, m + 1, q)
  <1>. DEFINE s == h[a].view_source
              d == h[a].view_offset
              X == W \ {a}
              g2 == InsertInternal(g, s, d + m, v, TRUE)
  <1>1. PICK o : Sources(N, h, a, X, off, g, m, o)
    BY StageWay
  <1>2. /\ s \in 1..N /\ d \in Nat /\ h[a].count \in Nat /\ WayOf(g, s, X, o)
        /\ \A x \in X : /\ off[x] \in Nat /\ off[x] = o[x] + d
                        /\ o[x] \in Nat /\ h[x].count \in Nat
                        /\ off[x] + h[a].count <= h[x].count
                        /\ g[x].count = h[x].count - h[a].count + m
    BY <1>1 DEF Sources
  <1>3. N \in Nat /\ g \in Heaps(V, N) /\ d + m \in Nat
    BY <1>2 DEF Ready, Stage
  <1>. HIDE DEF s, d, X
  <1>4. \A x \in X : o[x] + (d + m) = off[x] + m /\ o[x] + (d + m) <= g[x].count
    BY <1>2
  <1>5. Alters(V, N, g, g2, X) /\ \A x \in X : InsertedAt(g[x], g2[x], o[x] + (d + m), v)
    <2>1. TRUE \in BOOLEAN
      OBVIOUS
    <2>. QED
      BY <1>2, <1>3, <1>4, <2>1, InsertIs
  <1>. HIDE DEF g2
  <1>6. \A x \in X : InsertedAt(g[x], g2[x], off[x] + m, v)
    BY <1>4, <1>5
  <1>7. Put(q, q, m, m, v)
    BY DEF Put
  <1>8. Steps(g, g2, X, off, m, m, v, q, q, m + 1)
    BY <1>6, <1>7 DEF Steps
  <1>9. g2 \in Stage(V, N, h, a, y, W, off, m + 1, q)
    BY <1>5, <1>8, StageOn DEF X
  <1>. QED
    BY <1>9 DEF g2, s, d

LEMMA StageSet ==
  ASSUME NEW V, NEW N, NEW h, NEW a, NEW W, NEW off, Ready(V, N, h, a, W, off),
         h[a].view_source # 0, NEW y, NEW m \in Nat, NEW q,
         NEW g \in Stage(V, N, h, a, y, W, off, m, q), NEW v \in V, Null \in V,
         NEW k \in 1..m, NEW r, Over(q, r, m, k - 1, v)
  PROVE  SetInternal(g, h[a].view_source, h[a].view_offset + k - 1, v, FALSE)
           \in Stage(V, N, h, a, y, W, off, m, r)
  <1>. DEFINE s == h[a].view_source
              d == h[a].view_offset
              X == W \ {a}
              g2 == SetInternal(g, s, d + k - 1, v, FALSE)
  <1>1. PICK o : Sources(N, h, a, X, off, g, m, o)
    BY StageWay
  <1>2. /\ s \in 1..N /\ d \in Nat /\ h[a].count \in Nat /\ WayOf(g, s, X, o)
        /\ \A x \in X : /\ off[x] \in Nat /\ off[x] = o[x] + d
                        /\ o[x] \in Nat /\ h[x].count \in Nat
                        /\ off[x] + h[a].count <= h[x].count
                        /\ g[x].count = h[x].count - h[a].count + m
    BY <1>1 DEF Sources
  <1>3. N \in Nat /\ g \in Heaps(V, N) /\ d + k - 1 \in Nat
    BY <1>2 DEF Ready, Stage
  <1>. HIDE DEF s, d, X
  <1>4. \A x \in X : /\ o[x] + (d + k - 1) = off[x] + (k - 1)
                     /\ o[x] + (d + k - 1) < g[x].count
    BY <1>2
  <1>5. /\ Alters(V, N, g, g2, X)
        /\ \A x \in X : AssignedAt(g[x], g2[x], o[x] + (d + k - 1), v)
    <2>1. FALSE \in BOOLEAN
      OBVIOUS
    <2>. QED
      BY <1>2, <1>3, <1>4, <2>1, SetIs
  <1>. HIDE DEF g2
  <1>6. \A x \in X : AssignedAt(g[x], g2[x], off[x] + (k - 1), v)
    BY <1>4, <1>5
  <1>7. k - 1 \in Nat /\ k - 1 < m
    OBVIOUS
  <1>8. Steps(g, g2, X, off, m, k - 1, v, q, r, m)
    BY <1>6, <1>7 DEF Steps
  <1>9. g2 \in Stage(V, N, h, a, y, W, off, m, r)
    BY <1>5, <1>7, <1>8, StageOn DEF X
  <1>. QED
    BY <1>9 DEF g2, s, d

LEMMA StageSame ==
  ASSUME NEW V, NEW N, NEW h, NEW a, NEW W, NEW off, Ready(V, N, h, a, W, off),
         NEW y, NEW m \in Nat, NEW q, NEW r, \A j \in 1..m : r[j] = q[j],
         NEW g \in Stage(V, N, h, a, y, W, off, m, q)
  PROVE  g \in Stage(V, N, h, a, y, W, off, m, r)
  <1>. DEFINE c == h[a].count
  <1>1. ASSUME NEW x \in W \ {a}
        PROVE  Moved(h[x], g[x], off[x], c, m, r)
    <2>1. Moved(h[x], g[x], off[x], c, m, q)
      BY DEF Stage, Spread
    <2>2. off[x] \in Nat /\ c \in Nat /\ h[x].count \in Nat
      <3>1. /\ N \in Nat /\ h \in Heaps(V, N) /\ a \in 1..N /\ WayOf(h, a, W, off)
            /\ off[x] \in Nat
        BY DEF Ready, Placed
      <3>2. x \in 1..N
        BY <3>1, OnWay
      <3>3. h[a] \in Arr(V) /\ h[x] \in Arr(V)
        BY <3>1, <3>2 DEF Heaps
      <3>. QED
        BY <3>1, <3>3, Fields
    <2>3. \A j \in 1..h[x].count - c + m :
            ~(j <= off[x]) /\ j <= off[x] + m => j - off[x] \in 1..m
      BY <2>2
    <2>4. \A j \in 1..h[x].count - c + m :
            ~(j <= off[x]) /\ j <= off[x] + m => r[j - off[x]] = q[j - off[x]]
      BY <2>3
    <2>5. Window(h[x].elements, g[x].elements, h[x].count, off[x], c, m, q)
      BY <2>1 DEF Moved
    <2>6. Window(h[x].elements, g[x].elements, h[x].count, off[x], c, m, r)
      BY <2>4, <2>5 DEF Window
    <2>. QED
      BY <2>1, <2>6 DEF Moved
  <1>. QED
    BY <1>1 DEF Stage, Spread

LEMMA ExtendReaches ==
  ASSUME NEW V, NEW N, NEW h, NEW a, NEW W, NEW off, Ready(V, N, h, a, W, off),
         h[a].view_source # 0, Null \in V, NEW v \in V, NEW i \in Nat, h[a].count <= i,
         NEW y, IsOwn(V, h[a], y, y.elements), y.elements[i+1] = v,
         \A j \in h[a].count+1..i : y.elements[j] = Null
  PROVE  Extend([h EXCEPT ![a] = y], h[a], i, v)
           \in Stage(V, N, h, a, y, W, off, i + 1, y.elements)
  <1>. DEFINE q == y.elements
              c == h[a].count
              e == [h EXCEPT ![a] = y]
              C(k) == Stage(V, N, h, a, y, W, off, c + k, q)
              n == i + 1 - c
              Round(g, k) ==
                InsertInternal(g, h[a].view_source, h[a].view_offset + c + k - 1,
                               IF c + k = i + 1 THEN v ELSE Null, TRUE)
              S == [k \in 0..n |-> C(k)]
              F == [k \in 1..n |-> [g \in C(k-1) |-> Round(g, k)]]
              Run(f) == f = [k \in 0..n |-> IF k = 0 THEN e ELSE Round(f[k-1], k)]
  <1>1. /\ n \in Nat /\ n # 0 /\ c + n = i + 1 /\ c \in Nat /\ h[a].view_offset \in Nat
        /\ e \in C(0)
    <2>1. h[a] \in Arr(V)
      BY DEF Ready, Heaps
    <2>2. c \in Nat /\ h[a].view_offset \in Nat /\ c <= i
      BY <2>1, Fields
    <2>3. e \in Stage(V, N, h, a, y, W, off, c, q)
      BY StageFirst
    <2>4. c + 0 = c
      BY <2>2
    <2>5. C(0) = Stage(V, N, h, a, y, W, off, c, q)
      <3>. HIDE DEF c, q
      <3>. QED
        BY <2>4, Zenon
    <2>6. n \in Nat /\ n # 0 /\ c + n = i + 1
      <3>. HIDE DEF c
      <3>. QED
        BY <2>2
    <2>. QED
      BY <2>2, <2>3, <2>5, <2>6
  <1>2. ASSUME NEW k \in 1..n, NEW g \in C(k-1)
        PROVE  Round(g, k) \in C(k)
    <2>. DEFINE m == c + (k - 1)
                w == IF c + k = i + 1 THEN v ELSE Null
                d == h[a].view_offset
    <2>1. m \in Nat /\ m + 1 = c + k /\ d + c + k - 1 = d + m /\ c + k <= i + 1
          /\ c + k \in Nat /\ i \in Nat
      <3>. HIDE DEF c, d
      <3>. QED
        BY <1>1 DEF d
    <2>2. w \in V
      OBVIOUS
    <2>3. q[m+1] = w
      <3>1. CASE c + k = i + 1
        BY <2>1, <3>1
      <3>2. CASE c + k # i + 1
        <4>1. c + k \in c+1..i
          <5>. HIDE DEF c
          <5>. QED
            BY <1>1, <2>1, <3>2
        <4>. QED
          BY <2>1, <3>2, <4>1
      <3>. QED
        BY <3>1, <3>2
    <2>4. g \in Stage(V, N, h, a, y, W, off, m, q)
      OBVIOUS
    <2>. HIDE DEF m, w, d, q
    <2>5. InsertInternal(g, h[a].view_source, h[a].view_offset + m, w, TRUE)
            \in Stage(V, N, h, a, y, W, off, m + 1, q)
      BY <2>1, <2>2, <2>3, <2>4, StageInsert
    <2>6. Round(g, k) = InsertInternal(g, h[a].view_source, h[a].view_offset + m, w, TRUE)
      BY <2>1 DEF d, w
    <2>7. C(k) = Stage(V, N, h, a, y, W, off, m + 1, q)
      <3>. HIDE DEF c
      <3>. QED
        BY <2>1, Zenon
    <2>. HIDE DEF C, Round
    <2>. QED
      BY <2>5, <2>6, <2>7
  <1>. HIDE DEF C, n, Round, e, c, q
  <1>3. /\ \A k \in 0..n : S[k] = C(k)
        /\ \A k \in 1..n : k \in 0..n /\ k - 1 \in 0..n /\ k # 0
        /\ \A k \in 1..n : S[k-1] = C(k-1)
        /\ \A k \in 1..n : \A g \in C(k-1) : F[k][g] = Round(g, k)
    BY <1>1
  <1>. HIDE DEF S, F
  <1>4. Takes(F, n, e, S)
    <2>1. 0 \in 0..n /\ S[0] = C(0)
      BY <1>1, <1>3
    <2>2. n \in Nat /\ e \in S[0]
      BY <1>1, <2>1
    <2>3. ASSUME NEW k \in 1..n, NEW g \in S[k-1]
          PROVE  F[k][g] \in S[k]
      <3>1. g \in C(k-1) /\ k \in 0..n /\ S[k] = C(k)
        BY <1>3
      <3>2. F[k][g] = Round(g, k) /\ Round(g, k) \in C(k)
        BY <1>2, <1>3, <3>1
      <3>. QED
        BY <3>1, <3>2
    <2>. QED
      BY <2>2, <2>3 DEF Takes
  <1>5. PICK f : IsRun(f, F, n, e, S)
    BY <1>4, Rounds
  <1>6. Run(f)
    <2>1. \A k \in 1..n : f[k] = Round(f[k-1], k)
      BY <1>3, <1>5 DEF IsRun
    <2>2. \A k \in 0..n : k = 0 \/ k \in 1..n
      BY <1>1
    <2>. QED
      BY <1>5, <2>1, <2>2 DEF IsRun
  <1>7. ASSUME NEW g, Run(g)
        PROVE  g[n] \in C(n)
    <2>1. g[0] = e /\ \A k \in 1..n : g[k] = Round(g[k-1], k)
      BY <1>1, <1>3, <1>7
    <2>2. \A k \in 1..n : g[k-1] \in S[k-1] => g[k] = F[k][g[k-1]]
      BY <1>3, <2>1
    <2>3. g[n] \in S[n]
      BY <1>4, <2>1, <2>2, RunEnds
    <2>. QED
      BY <1>1, <1>3, <2>3
  <1>8. Extend(e, h[a], i, v) = (CHOOSE g : Run(g))[n]
    BY DEF Extend, Repeated, Round, n, c, e, NoArray
  <1>9. C(n) = Stage(V, N, h, a, y, W, off, i + 1, q)
    BY <1>1, Zenon DEF C
  <1>. HIDE DEF Run
  <1>. QED
    BY <1>6, <1>7, <1>8, <1>9 DEF e, q

LEMMA SyncReaches ==
  ASSUME NEW V, NEW N, NEW h, NEW a, NEW W, NEW off, Ready(V, N, h, a, W, off),
         h[a].view_source # 0, Null \in V, NEW y, IsOwn(V, h[a], y, h[a].elements),
         y.count = h[a].count
  PROVE  SyncView([h EXCEPT ![a] = y], a)
           \in Stage(V, N, h, a, y, W, off, y.count, y.elements)
  <1>. DEFINE n == h[a].count
              e == [h EXCEPT ![a] = y]
              q(k) == [j \in 1..n |-> IF j <= k THEN y.elements[j] ELSE h[a].elements[j]]
              C(k) == Stage(V, N, h, a, y, W, off, n, q(k))
              Round(g, k) ==
                SetInternal(g, y.view_source, y.view_offset + k - 1,
                            y.elements[k], FALSE)
              S == [k \in 0..n |-> C(k)]
              F == [k \in 1..n |-> [g \in C(k-1) |-> Round(g, k)]]
              Run(f) == f = [k \in 0..n |-> IF k = 0 THEN e ELSE Round(f[k-1], k)]
  <1>1. /\ n \in Nat /\ e \in C(0) /\ \A j \in 1..n : y.elements[j] \in V
    <2>1. h[a] \in Arr(V) /\ y \in Arr(V)
      BY DEF Ready, Heaps, IsOwn
    <2>2. n \in Nat
      BY <2>1, Fields
    <2>3. \A j \in 1..n : y.elements[j] \in V
      BY <2>1, Fields
    <2>4. IsOwn(V, h[a], y, q(0))
      <3>1. \A j \in 1..n : q(0)[j] = h[a].elements[j]
        BY <2>2
      <3>. HIDE DEF q
      <3>. QED
        BY <3>1 DEF IsOwn
    <2>. HIDE DEF q
    <2>5. e \in Stage(V, N, h, a, y, W, off, n, q(0))
      BY <2>4, StageFirst
    <2>. QED
      BY <2>2, <2>3, <2>5
  <1>2. ASSUME NEW k \in 1..n, NEW g \in C(k-1)
        PROVE  Round(g, k) \in C(k)
    <2>1. y.elements[k] \in V /\ n \in Nat
      BY <1>1
    <2>2. Over(q(k-1), q(k), n, k - 1, y.elements[k])
      <3>1. \A j \in 1..n : j <= k <=> (j <= k - 1 \/ j = k - 1 + 1)
        BY <2>1
      <3>2. \A j \in 1..n : j = k - 1 + 1 => j = k
        BY <2>1
      <3>3. \A j \in 1..n : q(k)[j] = IF j = k - 1 + 1 THEN y.elements[k] ELSE q(k-1)[j]
        <4>1. \A j \in 1..n : /\ q(k)[j] = IF j <= k THEN y.elements[j] ELSE h[a].elements[j]
                              /\ q(k-1)[j] = IF j <= k - 1 THEN y.elements[j]
                                             ELSE h[a].elements[j]
          OBVIOUS
        <4>. HIDE DEF q, n
        <4>. QED
          BY <3>1, <3>2, <4>1
      <3>. HIDE DEF q, n
      <3>. QED
        BY <3>3 DEF Over
    <2>. HIDE DEF q
    <2>3. g \in Stage(V, N, h, a, y, W, off, n, q(k-1))
      OBVIOUS
    <2>4. SetInternal(g, h[a].view_source, h[a].view_offset + k - 1, y.elements[k], FALSE)
            \in Stage(V, N, h, a, y, W, off, n, q(k))
      <3>1. PICK w \in V : w = y.elements[k]
        BY <2>1
      <3>2. PICK r : r = q(k)
        OBVIOUS
      <3>3. PICK p : p = q(k-1)
        OBVIOUS
      <3>. HIDE DEF n
      <3>. QED
        BY <2>1, <2>2, <2>3, <3>1, <3>2, <3>3, StageSet
    <2>5. y.view_source = h[a].view_source /\ y.view_offset = h[a].view_offset
      BY DEF IsOwn, SameLink
    <2>. QED
      BY <2>4, <2>5
  <1>. HIDE DEF C, n, Round, e, q
  <1>3. /\ \A k \in 0..n : S[k] = C(k)
        /\ \A k \in 1..n : k \in 0..n /\ k - 1 \in 0..n /\ k # 0
        /\ \A k \in 1..n : S[k-1] = C(k-1)
        /\ \A k \in 1..n : \A g \in C(k-1) : F[k][g] = Round(g, k)
    BY <1>1
  <1>. HIDE DEF S, F
  <1>4. Takes(F, n, e, S)
    <2>1. 0 \in 0..n /\ S[0] = C(0)
      BY <1>1, <1>3
    <2>2. n \in Nat /\ e \in S[0]
      BY <1>1, <2>1
    <2>3. ASSUME NEW k \in 1..n, NEW g \in S[k-1]
          PROVE  F[k][g] \in S[k]
      <3>1. g \in C(k-1) /\ k \in 0..n /\ S[k] = C(k)
        BY <1>3
      <3>2. F[k][g] = Round(g, k) /\ Round(g, k) \in C(k)
        BY <1>2, <1>3, <3>1
      <3>. QED
        BY <3>1, <3>2
    <2>. QED
      BY <2>2, <2>3 DEF Takes
  <1>5. PICK f : IsRun(f, F, n, e, S)
    BY <1>4, Rounds
  <1>6. Run(f)
    <2>1. \A k \in 1..n : f[k] = Round(f[k-1], k)
      BY <1>3, <1>5 DEF IsRun
    <2>2. \A k \in 0..n : k = 0 \/ k \in 1..n
      BY <1>1
    <2>. QED
      BY <1>5, <2>1, <2>2 DEF IsRun
  <1>7. ASSUME NEW g, Run(g)
        PROVE  g[n] \in C(n)
    <2>1. g[0] = e /\ \A k \in 1..n : g[k] = Round(g[k-1], k)
      BY <1>1, <1>3, <1>7
    <2>2. \A k \in 1..n : g[k-1] \in S[k-1] => g[k] = F[k][g[k-1]]
      BY <1>3, <2>1
    <2>3. g[n] \in S[n]
      BY <1>4, <2>1, <2>2, RunEnds
    <2>. QED
      BY <1>1, <1>3, <2>3
  <1>8. e[a] = y /\ IsView(e, a) /\ y.count = n
    <2>1. e[a] = y
      BY DEF e, Ready, Heaps
    <2>2. y.view_source # NoArray
      BY DEF IsOwn, SameLink, NoArray
    <2>. QED
      BY <2>1, <2>2 DEF IsView, n
  <1>9. SyncView(e, a) = (CHOOSE g : Run(g))[n]
    BY <1>8 DEF SyncView, Synced, Repeated, Round, n
  <1>10. C(n) \subseteq Stage(V, N, h, a, y, W, off, y.count, y.elements)
    <2>2. C(n) = Stage(V, N, h, a, y, W, off, n, q(n))
      BY DEF C
    <2>3. \A j \in 1..n : y.elements[j] = q(n)[j]
      BY <1>1 DEF q
    <2>4. PICK p : p = q(n)
      OBVIOUS
    <2>5. ASSUME NEW g \in Stage(V, N, h, a, y, W, off, n, p)
          PROVE  g \in Stage(V, N, h, a, y, W, off, n, y.elements)
      <3>1. \A j \in 1..n : y.elements[j] = p[j]
        BY <2>3, <2>4
      <3>. QED
        BY <1>1, <3>1, StageSame
    <2>. QED
      BY <1>8, <2>2, <2>4, <2>5
  <1>. HIDE DEF Run
  <1>. QED
    BY <1>6, <1>7, <1>9, <1>10 DEF e

(* An array that is no view is alone on its way.                           *)
LEMMA Alone ==
  ASSUME NEW V, NEW N, NEW h, NEW a, NEW W, NEW off, Ready(V, N, h, a, W, off),
         h[a].view_source = 0
  PROVE  W = {a}
  <1>1. /\ a \in W /\ a \in Nat
        /\ \A x \in W : x \in 1..a /\ x \in Nat
        /\ \A x, z \in W : z < x => z <= h[x].view_source
    <2>1. N \in Nat /\ h \in Heaps(V, N) /\ a \in 1..N /\ WayOf(h, a, W, off)
      BY DEF Ready
    <2>2. a \in W /\ a \in Nat /\ \A x \in W : x \in 1..a /\ x \in Nat
      BY <2>1, OnWay
    <2>. QED
      BY <2>1, <2>2 DEF WayOf
  <1>2. ASSUME NEW x \in W
        PROVE  x = a
    <2>1. x \in 1..a /\ (x < a => x <= 0)
      BY <1>1
    <2>. QED
      BY <1>1, <2>1
  <1>. QED
    BY <1>1, <1>2

(* An assignment past the end of a.                                        *)
LEMMA SetPastEnd ==
  ASSUME NEW V, NEW N, NEW h, NEW a, NEW W, NEW off, Ready(V, N, h, a, W, off),
         Null \in V, NEW v \in V, NEW i \in Nat, h[a].count <= i,
         ~Dirty(h, a, i)
  PROVE  Outcome(V, N, h, SetInternal(h, a, i, v, FALSE), a, W, off)
  <1>. DEFINE y == Touched(Assigned(h[a], i, v), FALSE)
              e == [h EXCEPT ![a] = y]
              Up(l, n) ==
                LET x == l.heap[l.at]
                    new == Onward(l, Touched(Assigned(x, l.index, v),
                                             FALSE \/ n > 1), l.index)
                IN IF l.at = NoArray THEN l
                   ELSE IF l.index < x.count THEN new
                   ELSE [new EXCEPT !.heap = Extend(@, x, l.index, v), !.at = NoArray]
              start == [heap |-> h, at |-> a, index |-> i]
              end == [heap |-> Extend(e, h[a], i, v), at |-> 0,
                      index |-> y.view_offset + i]
              Run(f) == f = [k \in 0..a |-> IF k = 0 THEN start ELSE Up(f[k-1], k)]
              f == [k \in 0..a |-> IF k = 0 THEN start ELSE end]
  <1>1. /\ N \in Nat /\ h \in Heaps(V, N) /\ a \in 1..N /\ a \in Nat /\ a # 0
        /\ h[a] \in Arr(V) /\ a \in W /\ off[a] = 0
    <2>1. N \in Nat /\ h \in Heaps(V, N) /\ a \in 1..N /\ WayOf(h, a, W, off)
      BY DEF Ready
    <2>. QED
      BY <2>1 DEF Heaps, WayOf
  <1>2. h[a].count \in Nat
    BY <1>1, Fields
  <1>3. /\ y \in Arr(V) /\ SameLink(h[a], y) /\ y.count = i + 1
        /\ y.mutation_version > h[a].mutation_version /\ y.elements[i+1] = v
        /\ \A j \in 1..h[a].count : y.elements[j] = h[a].elements[j]
        /\ h[a].view_source # 0 => \A j \in h[a].count+1..i : y.elements[j] = Null
    <2>. DEFINE x == Assigned(h[a], i, v)
    <2>1. IsAssigned(V, h[a], x, i, v)
      BY <1>1, AssignedIs
    <2>2. /\ x \in Arr(V) /\ SameLink(h[a], x) /\ x.count = i + 1
          /\ x.mutation_version = h[a].mutation_version /\ x.elements[i+1] = v
          /\ \A j \in 1..h[a].count : x.elements[j] = h[a].elements[j]
          /\ h[a].view_source # 0 => \A j \in h[a].count+1..i : x.elements[j] = Null
      <3>1. i >= h[a].count /\ \A j \in 1..h[a].count : j # i + 1
        BY <1>2
      <3>. HIDE DEF x
      <3>. QED
        BY <2>1, <3>1 DEF IsAssigned, Dirty
    <2>. HIDE DEF x
    <2>3. /\ y \in Arr(V) /\ y.elements = x.elements /\ y.count = x.count
          /\ SameLink(x, y) /\ y.mutation_version = x.mutation_version + 1
      BY <2>2, TouchedIs DEF x
    <2>4. x.mutation_version \in Nat
      BY <2>2, Fields
    <2>. HIDE DEF y
    <2>. QED
      BY <2>2, <2>3, <2>4 DEF SameLink
  <1>4. IsOwn(V, h[a], y, y.elements)
    <2>1. h[a].mutation_version \in Nat /\ y.mutation_version \in Nat
      BY <1>1, <1>3, Fields
    <2>. HIDE DEF y
    <2>. QED
      BY <1>3, <2>1 DEF IsOwn
  <1>5. Up(start, 1) = end
    <2>1. ~(i < h[a].count) /\ a # NoArray
      BY <1>1, <1>2 DEF NoArray
    <2>2. (FALSE \/ 1 > 1) = FALSE
      OBVIOUS
    <2>3. Onward(start, y, i) = [heap |-> e, at |-> y.view_source, index |-> y.view_offset + i]
      BY DEF Onward
    <2>4. Up(start, 1) = [Onward(start, y, i) EXCEPT !.heap = Extend(@, h[a], i, v), !.at = NoArray]
      BY <2>1, <2>2
    <2>. DEFINE m == Onward(start, y, i)
                b == Extend(e, h[a], i, v)
                w == y.view_source
                j == y.view_offset + i
    <2>5. m = [heap |-> e, at |-> w, index |-> j]
      BY <2>3
    <2>6. m.heap = e
      <3>. HIDE DEF m, e, w, j
      <3>. QED
        BY <2>5
    <2>7. [m EXCEPT !.heap = Extend(@, h[a], i, v), !.at = NoArray]
            = [m EXCEPT !.heap = Extend(m.heap, h[a], i, v), !.at = NoArray]
      <3>. HIDE DEF e, w, j
      <3>. QED
        BY <2>5
    <2>8. [m EXCEPT !.heap = b, !.at = 0] = [heap |-> b, at |-> 0, index |-> j]
      <3>. HIDE DEF m, b, e, w, j
      <3>1. [m EXCEPT !.heap = b] = [heap |-> b, at |-> w, index |-> j]
        BY <2>5
      <3>2. [[heap |-> b, at |-> w, index |-> j] EXCEPT !.at = 0]
              = [heap |-> b, at |-> 0, index |-> j]
        OBVIOUS
      <3>. QED
        BY <3>1, <3>2
    <2>9. Extend(m.heap, h[a], i, v) = b
      <3>. HIDE DEF m, e
      <3>. QED
        BY <2>6
    <2>10. Up(start, 1) = [m EXCEPT !.heap = Extend(@, h[a], i, v), !.at = NoArray]
      BY <2>4
    <2>. HIDE DEF y, e, Up, b, m, j
    <2>. QED
      BY <2>7, <2>8, <2>9, <2>10 DEF NoArray, b, j
  <1>6. ASSUME NEW k \in 1..a, k # 1
        PROVE  Up(end, k) = end
    BY DEF NoArray
  <1>. HIDE DEF y, e, start, end, Up
  <1>7. Run(f)
    <2>1. ASSUME NEW k \in 0..a
          PROVE  f[k] = IF k = 0 THEN start ELSE Up(f[k-1], k)
      <3>1. CASE k = 0
        BY <3>1
      <3>2. CASE k = 1
        <4>1. k - 1 = 0 /\ 0 \in 0..a
          BY <1>1, <3>2
        <4>. QED
          BY <1>5, <3>2, <4>1
      <3>3. CASE k # 0 /\ k # 1
        <4>1. k - 1 \in 0..a /\ k - 1 # 0 /\ k \in 1..a
          BY <1>1, <3>3
        <4>. QED
          BY <1>6, <3>3, <4>1
      <3>. QED
        BY <3>1, <3>2, <3>3
    <2>2. f = [k \in 0..a |-> f[k]]
      OBVIOUS
    <2>. HIDE DEF f
    <2>. QED
      BY <2>1, <2>2
  <1>8. PICK g : Run(g) /\ Repeated(a, start, Up) = g[a]
    <2>1. Repeated(a, start, Up) = (CHOOSE g : Run(g))[a]
      BY DEF Repeated
    <2>2. Run(CHOOSE g : Run(g))
      <3>. HIDE DEF Run, f
      <3>. QED
        BY <1>7
    <2>. QED
      BY <2>1, <2>2
  <1>9. g[a] = end
    <2>1. g[0] = f[0] /\ \A k \in 1..a : g[k] = Up(g[k-1], k) /\ f[k] = Up(f[k-1], k)
      <3>1. 0 \in 0..a /\ \A k \in 1..a : k \in 0..a /\ k # 0
        BY <1>1
      <3>2. \A k \in 0..a : /\ g[k] = IF k = 0 THEN start ELSE Up(g[k-1], k)
                            /\ f[k] = IF k = 0 THEN start ELSE Up(f[k-1], k)
        <4>. HIDE DEF f
        <4>. QED
          BY <1>7, <1>8
      <3>. HIDE DEF f, Run
      <3>. QED
        BY <3>1, <3>2
    <2>2. \A k \in 1..a : g[k-1] = f[k-1] => g[k] = f[k]
      BY <2>1
    <2>3. f[a] = end
      BY <1>1
    <2>. HIDE DEF f
    <2>. QED
      BY <1>1, <2>1, <2>2, <2>3, SameRun
  <1>10. SetInternal(h, a, i, v, FALSE) = InStep(Extend(e, h[a], i, v), a, FALSE)
    <2>1. SetInternal(h, a, i, v, FALSE) = InStep(Repeated(a, start, Up).heap, a, FALSE)
      BY DEF SetInternal, start, Up
    <2>2. end.heap = Extend(e, h[a], i, v)
      BY DEF end
    <2>. QED
      BY <1>8, <1>9, <2>1, <2>2
  <1>11. CASE h[a].view_source = 0
    <2>1. W = {a}
      BY <1>11, Alone
    <2>2. Extend(e, h[a], i, v) = e
      BY <1>11 DEF Extend, NoArray
    <2>3. e \in Stage(V, N, h, a, y, W, off, h[a].count, y.elements)
      BY <1>4, StageFirst DEF e
    <2>4. e \in Stage(V, N, h, a, y, W, off, y.count, y.elements)
      <3>1. W \ {a} = {}
        BY <2>1
      <3>. QED
        BY <2>3, <3>1 DEF Stage, Spread
    <2>5. Outcome(V, N, h, e, a, W, off)
      BY <1>3, <1>4, <2>4, StageLast DEF SameLink, IsOwn
    <2>6. InStep(e, a, FALSE) = e
      <3>1. e[a].view_source = 0
        BY <1>3, <1>11, <2>3 DEF Stage, SameLink
      <3>. QED
        BY <3>1 DEF InStep, IsView, NoArray
    <2>. QED
      BY <1>10, <2>2, <2>5, <2>6
  <1>12. CASE h[a].view_source # 0
    <2>1. PICK x : x = Extend(e, h[a], i, v)
      OBVIOUS
    <2>2. x \in Stage(V, N, h, a, y, W, off, y.count, y.elements)
      <3>1. Extend([h EXCEPT ![a] = y], h[a], i, v)
              \in Stage(V, N, h, a, y, W, off, i + 1, y.elements)
        BY <1>3, <1>4, <1>12, ExtendReaches
      <3>. QED
        BY <1>3, <2>1, <3>1 DEF e
    <2>3. PICK u : u = InStep(x, a, FALSE)
      OBVIOUS
    <2>4. /\ u \in Stage(V, N, h, a, u[a], W, off, y.count, y.elements)
          /\ SameShape(y, u[a]) /\ u[a].mutation_version = y.mutation_version
          /\ u[a].view_source = h[a].view_source
          /\ u[a].view_offset = h[a].view_offset
      <3>1. SameLink(h[a], y)
        BY <1>3
      <3>2. Agreed(V, N, h, a, y, W, off, y.count, y.elements, u)
        <4>. HIDE DEF y
        <4>. QED
          BY <1>12, <2>2, <2>3, <3>1, StageInStep
      <3>. QED
        BY <3>2 DEF Agreed
    <2>5. u \in Stage(V, N, h, a, u[a], W, off, u[a].count, u[a].elements)
      BY <2>4 DEF SameShape
    <2>6. u[a].mutation_version >= h[a].mutation_version
      BY <1>4, <2>4 DEF IsOwn
    <2>7. Outcome(V, N, h, u, a, W, off)
      BY <2>4, <2>5, <2>6, StageLast
    <2>. QED
      BY <1>10, <2>1, <2>3, <2>7
  <1>. QED
    BY <1>11, <1>12

LEMMA SetOutcome ==
  ASSUME NEW V, NEW N, NEW h, NEW a, NEW W, NEW off, Ready(V, N, h, a, W, off),
         Null \in V, NEW v \in V, NEW i \in Nat,
         h[a].count <= i => ~Dirty(h, a, i)
  PROVE  Outcome(V, N, h, SetInternal(h, a, i, v, FALSE), a, W, off)
  <1>1. /\ N \in Nat /\ h \in Heaps(V, N) /\ a \in 1..N /\ WayOf(h, a, W, off)
        /\ Placed(h, W, off, off, 0, h[a].count) /\ h \in Reach(V, N, h, a, W, off)
    BY DEF Ready
  <1>2. /\ h[a].count \in Nat /\ a \in W /\ off[a] = 0
        /\ \A x \in W : off[x] \in Nat /\ off[x] + h[a].count <= h[x].count
                        /\ h[x].count \in Nat
    BY <1>1, ReachFacts
  <1>3. CASE h[a].count <= i
    BY <1>3, SetPastEnd
  <1>4. CASE i < h[a].count
    <2>. DEFINE g == SetInternal(h, a, i, v, FALSE)
    <2>1. \A x \in W : off[x] + i < h[x].count
      BY <1>2, <1>4
    <2>2. Alters(V, N, h, g, W) /\ \A x \in W : AssignedAt(h[x], g[x], off[x] + i, v)
      <3>1. FALSE \in BOOLEAN
        OBVIOUS
      <3>. QED
        BY <1>1, <2>1, <3>1, SetIs
    <2>. HIDE DEF g
    <2>3. AssignedAt(h[a], g[a], i, v)
      <3>1. off[a] + i = i
        BY <1>2
      <3>. QED
        BY <1>2, <2>2, <3>1
    <2>4. g[a].count = h[a].count /\ Over(h[a].elements, g[a].elements, h[a].count, i, v)
      BY <2>3 DEF AssignedAt, Over
    <2>5. Steps(h, g, W, off, h[a].count, i, v, h[a].elements, g[a].elements, g[a].count)
      BY <1>4, <2>2, <2>4 DEF Steps
    <2>6. g \in Reach(V, N, h, a, W, off)
      BY <1>1, <2>2, <2>5, ReachOn
    <2>. QED
      BY <2>6 DEF g, Reach, Outcome
  <1>5. h[a].count <= i \/ i < h[a].count
    BY <1>2
  <1>. QED
    BY <1>3, <1>4, <1>5

LEMMA RearrangeOutcome ==
  ASSUME NEW V, NEW N, NEW h, NEW a, NEW W, NEW off, Ready(V, N, h, a, W, off),
         Null \in V, NEW s, \A j \in 1..h[a].count : s[j] \in V
  PROVE  Outcome(V, N, h, SyncView(Permuted(h, a, s), a), a, W, off)
  <1>1. N \in Nat /\ h \in Heaps(V, N) /\ a \in 1..N /\ h[a] \in Arr(V)
    BY DEF Ready, Heaps
  <1>2. PICK y : IsPermuted(V, h[a], y, h, a, s)
    BY <1>1, PermutedIs
  <1>3. /\ IsOwn(V, h[a], y, h[a].elements) /\ y.count = h[a].count
        /\ y.view_source = h[a].view_source /\ y.view_offset = h[a].view_offset
        /\ y.mutation_version >= h[a].mutation_version
        /\ Permuted(h, a, s) = [h EXCEPT ![a] = y]
    <2>1. h[a].mutation_version \in Nat
      BY <1>1, Fields
    <2>. QED
      BY <1>2, <2>1 DEF IsPermuted, IsOwn, SameLink
  <1>. DEFINE e == [h EXCEPT ![a] = y]
  <1>4. PICK g : g = SyncView(e, a)
    OBVIOUS
  <1>5. g \in Stage(V, N, h, a, y, W, off, y.count, y.elements)
    <2>1. CASE h[a].view_source = 0
      <3>1. W = {a}
        BY <2>1, Alone
      <3>2. e \in Stage(V, N, h, a, y, W, off, h[a].count, h[a].elements)
        BY <1>3, StageFirst
      <3>3. e \in Stage(V, N, h, a, y, W, off, y.count, y.elements)
        <4>1. W \ {a} = {}
          BY <3>1
        <4>. QED
          BY <3>2, <4>1 DEF Stage, Spread
      <3>4. g = e
        <4>1. e[a].view_source = 0
          BY <1>3, <2>1, <3>2 DEF Stage
        <4>. HIDE DEF e
        <4>. QED
          BY <1>4, <4>1 DEF SyncView, Synced, IsView, NoArray
      <3>. QED
        BY <3>3, <3>4
    <2>2. CASE h[a].view_source # 0
      <3>1. SyncView([h EXCEPT ![a] = y], a)
              \in Stage(V, N, h, a, y, W, off, y.count, y.elements)
        BY <1>3, <2>2, SyncReaches
      <3>. QED
        BY <1>4, <3>1
    <2>. QED
      BY <2>1, <2>2
  <1>. HIDE DEF e
  <1>6. Outcome(V, N, h, g, a, W, off)
    BY <1>3, <1>5, StageLast
  <1>. QED
    BY <1>3, <1>4, <1>6 DEF e

-----------------------------------------------------------------------------
(* Before and after the window nothing moves.                              *)
EndsKept(old, new, o, after) ==
  /\ SubSeq(new, 1, o) = SubSeq(old, 1, o)
  /\ SubSeq(new, Len(new) - after + 1, Len(new)) =
       SubSeq(old, Len(old) - after + 1, Len(old))

LEMMA EndsAreKept ==
  ASSUME NEW V, NEW h, NEW g, NEW x, h[x] \in Arr(V), g[x] \in Arr(V),
         NEW o \in Nat, NEW c \in Nat, NEW m \in Nat, o + c <= h[x].count,
         NEW q, Moved(h[x], g[x], o, c, m, q)
  PROVE  EndsKept(Content(h, x), Content(g, x), o, Len(Content(h, x)) - o - c)
  <1>. DEFINE D == h[x].elements
              E == g[x].elements
              n == h[x].count
              k == g[x].count
              old == Content(h, x)
              new == Content(g, x)
              b == n - o - c
  <1>1. /\ n \in Nat /\ k \in Nat /\ o + c <= n
    BY Fields
  <1>2. k = n - c + m /\ Window(D, E, n, o, c, m, q)
    BY DEF Moved
  <1>3. /\ old \in Seq(V) /\ Len(old) = n /\ \A j \in 1..n : old[j] = D[j]
        /\ new \in Seq(V) /\ Len(new) = k /\ \A j \in 1..k : new[j] = E[j]
    <2>1. old \in Seq(V) /\ Len(old) = n /\ \A j \in 1..n : old[j] = D[j]
      BY ContentIs
    <2>2. new \in Seq(V) /\ Len(new) = k /\ \A j \in 1..k : new[j] = E[j]
      BY ContentIs
    <2>. HIDE DEF D, E, n, k, old, new
    <2>. QED
      BY <2>1, <2>2
  <1>. HIDE DEF D, E, n, k, old, new
  <1>4. \A j \in 1..k : E[j] = IF j <= o THEN D[j]
                               ELSE IF j <= o + m THEN q[j-o] ELSE D[j-m+c]
    BY <1>2 DEF Window
  <1>5. SubSeq(new, 1, o) = SubSeq(old, 1, o)
    <2>1. o <= n /\ o <= k
      BY <1>1, <1>2
    <2>2. ASSUME NEW j \in 1..o
          PROVE  new[0 + j] = old[0 + j]
      <3>1. 0 + j = j /\ j \in 1..k /\ j \in 1..n /\ j <= o
        BY <1>1, <1>2, <2>1
      <3>2. new[j] = E[j] /\ E[j] = D[j] /\ old[j] = D[j]
        BY <1>3, <1>4, <3>1
      <3>. QED
        BY <3>1, <3>2
    <2>3. 0 \in Nat /\ 0 + o <= Len(new) /\ 0 + o <= Len(old)
      BY <1>3, <2>1
    <2>4. SubSeq(new, 0 + 1, 0 + o) = SubSeq(old, 0 + 1, 0 + o)
      BY <1>3, <2>2, <2>3, SameParts DEF SamePart
    <2>5. 0 + 1 = 1 /\ 0 + o = o
      OBVIOUS
    <2>. QED
      BY <2>4, <2>5
  <1>6. /\ b \in Nat /\ k - b \in Nat /\ n - b \in Nat
        /\ k - b = o + m /\ n - b = o + c
        /\ k - b + b = k /\ n - b + b = n
    BY <1>1, <1>2
  <1>. HIDE DEF b
  <1>7. SubSeq(new, k - b + 1, k) = SubSeq(old, n - b + 1, n)
    <2>1. ASSUME NEW j \in 1..b
          PROVE  new[k - b + j] = old[n - b + j]
      <3>. DEFINE i == o + m + j
                  l == o + c + j
      <3>1. /\ i \in 1..k /\ l \in 1..n /\ ~(i <= o) /\ ~(i <= o + m)
            /\ i - m + c = l /\ k - b + j = i /\ n - b + j = l
        BY <1>1, <1>6
      <3>. HIDE DEF i, l
      <3>2. new[i] = E[i] /\ E[i] = D[i-m+c] /\ old[l] = D[l]
        BY <1>3, <1>4, <3>1
      <3>. QED
        BY <3>1, <3>2
    <2>2. k - b + b <= Len(new) /\ n - b + b <= Len(old)
      BY <1>1, <1>3, <1>6
    <2>3. SubSeq(new, k - b + 1, k - b + b) = SubSeq(old, n - b + 1, n - b + b)
      <3>1. PICK i, l : i = k - b /\ l = n - b /\ i \in Nat /\ l \in Nat
        BY <1>6
      <3>2. /\ i + b <= Len(new) /\ l + b <= Len(old)
            /\ \A j \in 1..b : new[i + j] = old[l + j]
        BY <2>1, <2>2, <3>1
      <3>3. new \in Seq(V) /\ old \in Seq(V) /\ i \in Nat /\ l \in Nat /\ b \in Nat
        BY <1>3, <1>6, <3>1
      <3>4. SamePart(new, old, i, l, b)
        BY <3>2, <3>3, SameParts
      <3>. QED
        BY <3>1, <3>4 DEF SamePart
    <2>. QED
      BY <1>6, <2>3
  <1>8. EndsKept(old, new, o, b)
    BY <1>3, <1>5, <1>7 DEF EndsKept
  <1>9. b = Len(old) - o - c
    BY <1>3 DEF b
  <1>. QED
    BY <1>8, <1>9 DEF old, new

(* Where the way from a ends.                                              *)
RootIs(h, a, off) ==
  Above(h, a, a).at \in Way(h, a) /\ Above(h, a, a).offset = off[Above(h, a, a).at]

LEMMA EditBegins ==
  ASSUME NEW V, NEW N, NEW h, NEW p, Holds(V, N, h, p), NEW a \in 1..N,
         Way(h, a) \cap p = {}
  PROVE  \E off : Ready(V, N, h, a, Way(h, a), off) /\ RootIs(h, a, off)
  <1>1. N \in Nat /\ h \in Heaps(V, N) /\ Agrees(N, h)
        /\ \A x \in 1..N : x \notin p => Slice(h, x)
    BY DEF Holds
  <1>2. PICK off : WayOf(h, a, Way(h, a), off) /\ RootIs(h, a, off)
    BY <1>1, WayIs DEF RootIs
  <1>. DEFINE W == Way(h, a)
  <1>. HIDE DEF W
  <1>3. W \subseteq 1..N
    BY <1>1, <1>2, OnWay DEF W
  <1>4. \A x \in W : Slice(h, x)
    BY <1>1, <1>3 DEF W
  <1>5. h \in Reach(V, N, h, a, W, off) /\ Placed(h, W, off, off, 0, h[a].count)
    BY <1>1, <1>2, <1>4, ReachSelf DEF W
  <1>6. Ready(V, N, h, a, W, off)
    BY <1>1, <1>2, <1>5 DEF Ready, W
  <1>. QED
    BY <1>2, <1>6 DEF W

(* What an outcome leaves of the root.                                     *)
RootKept(h, g, a) ==
  EndsKept(Content(h, Above(h, a, a).at), Content(g, Above(h, a, a).at),
           Above(h, a, a).offset,
           Len(Content(h, Above(h, a, a).at)) - Above(h, a, a).offset - h[a].count)

LEMMA OutcomeInside ==
  ASSUME NEW V, NEW N, NEW h, NEW a, NEW off, Ready(V, N, h, a, Way(h, a), off),
         RootIs(h, a, off), NEW g, Outcome(V, N, h, g, a, Way(h, a), off)
  PROVE  RootKept(h, g, a)
  <1>. DEFINE W == Way(h, a)
  <1>1. /\ N \in Nat /\ h \in Heaps(V, N) /\ a \in 1..N /\ WayOf(h, a, W, off)
        /\ Placed(h, W, off, off, 0, h[a].count)
    BY DEF Ready
  <1>2. Spread(V, N, h, g, W, off, h[a].count, g[a].count, g[a].elements)
    BY DEF Outcome
  <1>3. PICK x, o : /\ x = Above(h, a, a).at /\ o = Above(h, a, a).offset
                    /\ x \in W /\ o = off[x]
    BY DEF RootIs
  <1>. HIDE DEF W
  <1>4. /\ h[x] \in Arr(V) /\ g[x] \in Arr(V) /\ h[a] \in Arr(V) /\ g[a] \in Arr(V)
    <2>1. x \in 1..N /\ g \in Heaps(V, N)
      <3>1. W \subseteq 1..N
        BY <1>1, OnWay
      <3>. QED
        BY <1>2, <1>3, <3>1 DEF Spread
    <2>. QED
      BY <1>1, <2>1 DEF Heaps
  <1>5. h[a].count \in Nat /\ g[a].count \in Nat
    BY <1>4, Fields
  <1>6. /\ o \in Nat /\ o + h[a].count <= h[x].count
        /\ Moved(h[x], g[x], o, h[a].count, g[a].count, g[a].elements)
    BY <1>1, <1>2, <1>3 DEF Placed, Spread
  <1>7. EndsKept(Content(h, x), Content(g, x), o, Len(Content(h, x)) - o - h[a].count)
    BY <1>4, <1>5, <1>6, EndsAreKept
  <1>. QED
    BY <1>3, <1>7 DEF RootKept

(* An assignment past the end of a that shows removed elements is one of   *)
(* those that the history notes.                                           *)
LEMMA DirtyShows ==
  ASSUME NEW V, NEW N \in Nat, NEW h \in Heaps(V, N), NEW a \in 1..N,
         NEW i \in Nat, h[a].count <= i, Dirty(h, a, i)
  PROVE  a \in Showing(h, a, i)
  <1>1. PICK r : Levels(h, a, r)
    BY AboveIs
  <1>2. r[0].at = a /\ r[0].offset + i = i
    BY <1>1 DEF Levels
  <1>3. 0 \in 0..a /\ \A m \in 0..0-1 : r[m].offset + i < h[r[m].at].count
    OBVIOUS
  <1>4. r[0].at \in Showing(h, a, i)
    BY <1>1, <1>2, <1>3, ShowingIs
  <1>. QED
    BY <1>2, <1>4

(* An edit through views that mirror their sources.                        *)
LEMMA EditInside ==
  ASSUME NEW V, NEW N, Holds(V, N, heap, apart \cup shown), NEW a \in 1..N, EditOf(a),
         Way(heap, a) \cap (apart' \cup shown') = {}
  PROVE  RootKept(heap, heap', a)
  <1>. DEFINE p == apart \cup shown
              W == Way(heap, a)
  <1>1. PICK g : g = heap'
    OBVIOUS
  <1>2. PICK q : q = shown'
    OBVIOUS
  <1>3. Moves(V, N, a) \/ Assigns(V, a) \/ Arranges(a)
    <2>1. Holds(V, N, heap, p)
      OBVIOUS
    <2>. HIDE DEF p
    <2>. QED
      BY <2>1, EditIs
  <1>4. /\ N \in Nat /\ heap \in Heaps(V, N) /\ Null \in V
        /\ W \cap p = {} /\ W \cap q = {} /\ a \in W
    <2>1. N \in Nat /\ heap \in Heaps(V, N) /\ Null \in V
      BY DEF Holds
    <2>2. a \in W
      BY <2>1, WayIs DEF WayOf
    <2>3. apart \subseteq apart' /\ shown \subseteq shown'
      BY <1>3 DEF Moves, Assigns, Arranges, Edit, EditShowing
    <2>. QED
      BY <1>2, <2>1, <2>2, <2>3
  <1>. HIDE DEF W
  <1>5. ASSUME NEW U, Holds(U, N, heap, p)
        PROVE  \E off : Ready(U, N, heap, a, W, off) /\ RootIs(heap, a, off)
    <2>. HIDE DEF p
    <2>. QED
      BY <1>4, <1>5, EditBegins DEF W
  <1>6. ASSUME NEW U, NEW off, Ready(U, N, heap, a, W, off), RootIs(heap, a, off),
               Outcome(U, N, heap, g, a, W, off)
        PROVE  RootKept(heap, heap', a)
    BY <1>1, <1>6, OutcomeInside DEF W
  <1>7. CASE Moves(V, N, a)
    <2>1. PICK off : Ready(V, N, heap, a, W, off) /\ RootIs(heap, a, off)
      BY <1>5
    <2>2. Closed(V, N, heap, a, Reach(V, N, heap, a, W, off))
      BY <2>1, ReachClosed
    <2>3. g \in Reach(V, N, heap, a, W, off)
      BY <1>1, <1>7, <2>2 DEF Moves
    <2>4. Outcome(V, N, heap, g, a, W, off)
      BY <2>3 DEF Reach, Outcome
    <2>. QED
      BY <1>6, <2>1, <2>4
  <1>8. CASE Assigns(V, a)
    <2>1. PICK i \in Nat, v \in V :
            /\ heap' = SetInternal(heap, a, i, v, FALSE)
            /\ EditShowing(a, heap', Showing(heap, a, i))
      BY <1>8 DEF Assigns
    <2>2. Showing(heap, a, i) \subseteq q
      BY <1>2, <2>1 DEF EditShowing
    <2>3. heap[a].count <= i => ~Dirty(heap, a, i)
      BY <1>4, <2>2, DirtyShows
    <2>4. PICK off : Ready(V, N, heap, a, W, off) /\ RootIs(heap, a, off)
      BY <1>5
    <2>5. Outcome(V, N, heap, SetInternal(heap, a, i, v, FALSE), a, W, off)
      BY <1>4, <2>3, <2>4, SetOutcome
    <2>6. Outcome(V, N, heap, g, a, W, off)
      BY <1>1, <2>1, <2>5
    <2>. QED
      BY <1>6, <2>4, <2>6
  <1>9. CASE Arranges(a)
    <2>1. PICK s : heap' = SyncView(Permuted(heap, a, s), a)
      BY <1>9 DEF Arranges
    <2>. DEFINE U == V \cup {s[j] : j \in 1..heap[a].count}
    <2>2. Holds(U, N, heap, p)
      <3>1. V \subseteq U
        OBVIOUS
      <3>. HIDE DEF U
      <3>. QED
        BY <3>1, HoldsOfMore
    <2>3. Null \in U /\ \A j \in 1..heap[a].count : s[j] \in U
      BY <1>4
    <2>. HIDE DEF U
    <2>4. PICK off : Ready(U, N, heap, a, W, off) /\ RootIs(heap, a, off)
      BY <1>5, <2>2
    <2>5. Outcome(U, N, heap, SyncView(Permuted(heap, a, s), a), a, W, off)
      BY <2>3, <2>4, RearrangeOutcome
    <2>6. Outcome(U, N, heap, g, a, W, off)
      BY <1>1, <2>1, <2>5
    <2>. QED
      BY <1>6, <2>4, <2>6
  <1>. QED
    BY <1>3, <1>7, <1>8, <1>9

(* array_insert_internal, array_remove_internal, array_set_internal and    *)
(* slp_obj_array_sync_view, by themselves or in the loops of the library,  *)
(* through any number of views that mirror their sources, change in the    *)
(* root what the window of the view shows, and nothing before or after it. *)
THEOREM NoEditOutside ==
  Spec => EditsStayInside
  <1>. DEFINE Stays(a) == \/ Way(heap, a) \cap (apart \cup shown)' # {}
                           \/ OutsideKept(a)
                           \/ ~EditOf(a)
  <1>1. ASSUME ViewsInv, NEW a \in DOMAIN heap
        PROVE  Stays(a)
    <2>1. PICK V, N : Holds(V, N, heap, apart \cup shown)
      BY <1>1 DEF ViewsInv
    <2>2. a \in 1..N
      BY <2>1 DEF Holds, Heaps
    <2>3. ASSUME EditOf(a), Way(heap, a) \cap (apart' \cup shown') = {}
          PROVE  OutsideKept(a)
      <3>1. RootKept(heap, heap', a)
        BY <2>1, <2>2, <2>3, EditInside
      <3>. QED
        BY <3>1 DEF RootKept, EndsKept, OutsideKept
    <2>. QED
      BY <2>3
  <1>2. ViewsInv /\ [Next]_vars =>
          [\A a \in DOMAIN heap :
             \/ Way(heap, a) \cap (apart \cup shown)' # {}
             \/ OutsideKept(a)
             \/ ~EditOf(a)]_vars
    BY <1>1
  <1>. HIDE DEF Stays
  <1>. QED
    BY <1>2, AlwaysHolds, PTL DEF Spec, EditsStayInside
=============================================================================
