---------------------------- MODULE ScopesProofs ----------------------------
(***************************************************************************)
(* Proofs about Scopes, in two parts.  Which tables, arrays and scopes the *)
(* activations have (Shaped) does not depend on what the tables hold.      *)
(* That cells, tables and watches are what the script means by its         *)
(* variables (Sound) is a property of a memory alone, which each operator  *)
(* on memories keeps; the actions only have to ask for places and cells    *)
(* that are there.                                                         *)
(***************************************************************************)
EXTENDS Scopes, SequenceFacts, FiniteSetTheorems, TLAPS

-----------------------------------------------------------------------------
(* The types of the state.                                                 *)
Arrays == 1..MaxFrames + 1
Keys == Names \cup {Arg}
Binding == [cell : Cells \cup {None}, value : Values]
Cell == [value : Values, watched : BOOLEAN, reported : Values]
Places == Tables \X Keys
Scope == UNION {[K -> Binding] : K \in SUBSET Keys}
Memory == [tables : [Tables -> Scope],
           cells : [Cells -> Cell],
           vars : SUBSET [places : SUBSET Places, value : Values]]
Activations == [closure : Closures, locals : Arrays, scope : Tables, slots : Tables]

TypeOK ==
  /\ mem \in Memory
  /\ arrays \in [Arrays -> Seq(Tables)]
  /\ frames \in Seq(Activations)
  /\ scopes \in [Closures -> Tables \cup {None}]
  /\ suspended \in [Closures -> Seq(Activations)]

-----------------------------------------------------------------------------
(* Part one.  The arrays ar of local scopes, with the activations in L and *)
(* the scopes sc of the closures.                                          *)

(* Table t serves for something else than a local scope.                   *)
Elsewhere(t, L, sc) ==
  \/ t = Globals
  \/ \E c \in Closures : sc[c] = t
  \/ \E f \in L : f.scope = t \/ f.slots = t

InArrays(t, ar) == \E a \in Arrays : \E i \in DOMAIN ar[a] : ar[a][i] = t

Served(ar, L) == \A f \in L : ar[f.locals] # << >>

OwnArrays(L) ==
  \A f, g \in {h \in L : h.closure \notin Inlines} : f.locals = g.locals => f = g

Once(ar) ==
  \A a, b \in Arrays : \A i \in DOMAIN ar[a], j \in DOMAIN ar[b] :
     ar[a][i] = ar[b][j] => a = b /\ i = j

LocalOnly(ar, L, sc) == \A t \in Tables : InArrays(t, ar) => ~Elsewhere(t, L, sc)

LaidOut(ar, L, sc) ==
  /\ ar \in [Arrays -> Seq(Tables)]
  /\ L \subseteq Activations
  /\ sc \in [Closures -> Tables \cup {None}]
  /\ Served(ar, L) /\ OwnArrays(L) /\ Once(ar) /\ LocalOnly(ar, L, sc)

Live == AllFrames(frames, suspended)

(* What is not used by an activation is empty, and there are no more       *)
(* activations than the bound, so that an array is free for another one.   *)
Kept == \A a \in Arrays : arrays[a] # << >> => \E f \in Live : f.locals = a
Bounded == IsFiniteSet(Live) /\ Cardinality(Live) <= MaxFrames

Shaped ==
  /\ frames \in Seq(Activations) /\ suspended \in [Closures -> Seq(Activations)]
  /\ LaidOut(arrays, Live, scopes)
  /\ Kept /\ Bounded

-----------------------------------------------------------------------------
(* Part two.  What memory m says about variables.                          *)
At(m, p) == m.tables[p[1]][p[2]]
InCell(m, p) == At(m, p).cell # None

(* The places p and q share a variable.                                    *)
Together(m, p, q) == p = q \/ (InCell(m, p) /\ At(m, q).cell = At(m, p).cell)

Agrees(m) ==
  /\ \A x \in m.vars : x.places # {} /\ x.places \subseteq Bound(m)
  /\ \A x \in m.vars : \A p \in x.places :
        /\ x.value = ValueOf(m, At(m, p))
        /\ \A q \in Bound(m) : q \in x.places <=> Together(m, p, q)
  /\ \A p \in Bound(m) : \E x \in m.vars : p \in x.places

Reports(m) == \A c \in Cells : m.cells[c].watched => m.cells[c].reported = m.cells[c].value

Sound(m) == m \in Memory /\ Agrees(m) /\ Reports(m)

(* Activations have their argument.                                        *)
HaveSlots(m, L) == \A f \in L : Arg \in DOMAIN m.tables[f.slots]

Inv == Shaped /\ Sound(mem) /\ HaveSlots(mem, Live)

(***************************************************************************)
(* Lemmas of part one.                                                     *)
(***************************************************************************)

(* The bounds of the model, as the proofs use them.                        *)
LEMMA Bounds ==
  /\ MaxFrames \in Nat /\ MaxTables \in Nat /\ MaxCells \in Nat /\ MaxScopes \in Nat
  /\ MaxFrames >= 1 /\ MaxCells >= 1 /\ MaxTables >= 4 /\ MaxScopes >= 1
  /\ Null \in Values /\ Inlines \subseteq Closures /\ Script \in Closures
  /\ Script \notin Inlines
  /\ Globals \in Tables /\ None \notin Tables /\ None \notin Cells
  /\ Arg \notin Names /\ ByValue \notin Names /\ Bare \notin Names
  <1>1. /\ MaxFrames \in Nat \ {0} /\ MaxTables \in Nat \ {0} /\ MaxCells \in Nat \ {0}
        /\ MaxScopes \in Nat \ {0} /\ MaxTables >= 4
    BY ScopesAssumption
  <1>2. Globals \in Tables /\ None \notin Tables /\ None \notin Cells
    BY <1>1 DEF Globals, None, Tables, Cells
  <1>. QED
    BY <1>1, <1>2, ScopesAssumption

(* The least number of a set.                                              *)
LEMMA LowestIs ==
  ASSUME NEW S \in SUBSET Nat, S # {}
  PROVE  Lowest(S) \in S /\ \A x \in S : Lowest(S) <= x
  BY LeastOf DEF Lowest, Min

(* The activations of running frames and of suspended ones.                *)
LEMMA LiveAre ==
  ASSUME NEW fr \in Seq(Activations), NEW su \in [Closures -> Seq(Activations)]
  PROVE  /\ AllFrames(fr, su) \subseteq Activations
         /\ \A i \in 1..Len(fr) : fr[i] \in AllFrames(fr, su)
         /\ \A c \in Closures : \A i \in 1..Len(su[c]) : su[c][i] \in AllFrames(fr, su)
         /\ \A x \in AllFrames(fr, su) :
               \/ \E i \in 1..Len(fr) : fr[i] = x
               \/ \E c \in Closures : \E i \in 1..Len(su[c]) : su[c][i] = x
  <1>1. /\ DOMAIN fr = 1..Len(fr)
        /\ \A i \in 1..Len(fr) : fr[i] \in Activations
    BY LenProperties, ElementOfSeq
  <1>2. \A c \in Closures : /\ su[c] \in Seq(Activations)
                            /\ DOMAIN su[c] = 1..Len(su[c])
                            /\ \A i \in 1..Len(su[c]) : su[c][i] \in Activations
    BY LenProperties, ElementOfSeq
  <1>. QED
    BY <1>1, <1>2 DEF AllFrames, Range

(* The first numbers of a finite set, up to the third.                     *)
LEMMA Counted ==
  ASSUME NEW F \in SUBSET Nat, IsFiniteSet(F), NEW k \in 1..3, Cardinality(F) >= k,
         NEW j \in 1..k
  PROVE  \E t \in F : Cardinality({u \in F : u <= t}) = j
  <1>1. Cardinality(F) \in Nat
    BY FS_CardinalityType
  <1>2. \A x : IsFiniteSet({x}) /\ Cardinality({x}) = 1
    BY FS_Singleton
  <1>3. \A S, x : IsFiniteSet(S) /\ x \notin S =>
           IsFiniteSet(S \cup {x}) /\ Cardinality(S \cup {x}) = Cardinality(S) + 1
    BY FS_AddElement
  <1>4. \A S, x : IsFiniteSet(S) /\ x \in S =>
           IsFiniteSet(S \ {x}) /\ Cardinality(S \ {x}) = Cardinality(S) - 1
    BY FS_RemoveElement
  <1>5. Cardinality({}) = 0
    BY FS_EmptySet
  <1>6. \A S : S \subseteq F /\ S # {} => \E t \in S : \A u \in S : t <= u
    BY LowestIs
  <1>7. F # {}
    BY <1>1, <1>5
  <1>8. PICK t1 \in F : \A u \in F : t1 <= u
    BY <1>6, <1>7
  <1>9. {u \in F : u <= t1} = {t1}
    <2>1. \A u \in F : u <= t1 <=> u = t1
      <3>1. t1 \in Nat /\ \A u \in F : u \in Nat
        OBVIOUS
      <3>. QED
        BY <3>1, <1>8
    <2>. QED
      BY <2>1
  <1>10. CASE j = 1
    BY <1>2, <1>9, <1>10
  <1>. DEFINE F2 == F \ {t1}
  <1>11. IsFiniteSet(F2) /\ Cardinality(F2) = Cardinality(F) - 1 /\ F2 \subseteq F
    BY <1>4
  <1>12. CASE j >= 2
    <2>1. F2 # {}
      BY <1>1, <1>5, <1>11, <1>12
    <2>2. PICK t2 \in F2 : \A u \in F2 : t2 <= u
      BY <1>6, <1>11, <2>1
    <2>3. t2 \in F /\ t2 # t1
      OBVIOUS
    <2>4. {u \in F : u <= t2} = {t1} \cup {t2}
      <3>1. t1 \in Nat /\ t2 \in Nat /\ \A u \in F : u \in Nat
        BY <2>3
      <3>2. \A u \in F : u <= t2 <=> u = t1 \/ u = t2
        <4>1. t1 <= t2
          BY <2>3, <1>8
        <4>2. \A u \in F : u = t1 \/ u = t2 \/ t2 <= u
          BY <2>2
        <4>. QED
          BY <4>1, <4>2, <3>1
      <3>. QED
        BY <3>2, <2>3
    <2>5. IsFiniteSet({t1} \cup {t2}) /\ Cardinality({t1} \cup {t2}) = 2
      <3>1. t2 \notin {t1}
        BY <2>3
      <3>2. IsFiniteSet({t1}) /\ Cardinality({t1}) = 1
        BY <1>2
      <3>3. /\ IsFiniteSet({t1} \cup {t2})
            /\ Cardinality({t1} \cup {t2}) = Cardinality({t1}) + 1
        BY <3>1, <3>2, <1>3
      <3>. QED
        BY <3>2, <3>3
    <2>6. CASE j = 2
      BY <2>3, <2>4, <2>5, <2>6
    <2>. DEFINE F3 == F2 \ {t2}
    <2>7. IsFiniteSet(F3) /\ Cardinality(F3) = Cardinality(F2) - 1 /\ F3 \subseteq F
      BY <1>4, <1>11
    <2>8. CASE j = 3
      <3>1. F3 # {}
        BY <1>1, <1>5, <1>11, <2>7, <2>8
      <3>2. PICK t3 \in F3 : \A u \in F3 : t3 <= u
        BY <1>6, <2>7, <3>1
      <3>3. t3 \in F /\ t3 # t1 /\ t3 # t2
        OBVIOUS
      <3>4. {u \in F : u <= t3} = ({t1} \cup {t2}) \cup {t3}
        <4>1. t1 \in Nat /\ t2 \in Nat /\ t3 \in Nat /\ \A u \in F : u \in Nat
          BY <2>3, <3>3
        <4>2. \A u \in F : u <= t3 <=> (u = t1 \/ u = t2 \/ u = t3)
          <5>1. t1 <= t3
            BY <3>3, <1>8
          <5>2. t2 <= t3
            BY <2>2
          <5>3. \A u \in F : u = t1 \/ u = t2 \/ t3 <= u
            BY <3>2
          <5>. QED
            BY <5>1, <5>2, <5>3, <4>1
        <4>. QED
          BY <4>2, <2>3, <3>3
      <3>5. Cardinality(({t1} \cup {t2}) \cup {t3}) = 3
        <4>1. t3 \notin {t1} \cup {t2}
          BY <3>3
        <4>. QED
          BY <4>1, <1>3, <2>5
      <3>. QED
        BY <3>3, <3>4, <3>5, <2>8
    <2>9. j = 2 \/ j = 3
      BY <1>12
    <2>. QED
      BY <2>6, <2>8, <2>9
  <1>13. j = 1 \/ j >= 2
    OBVIOUS
  <1>. QED
    BY <1>10, <1>12, <1>13

(* The first three of the free tables are there, and are three, when there *)
(* is room for them.                                                       *)
LEMMA FreshTables ==
  ASSUME NEW k \in 1..3, Room(k)
  PROVE  /\ \A j \in 1..k : FreeTable(j) \in FreeTables
         /\ \A i, j \in 1..k : i # j => FreeTable(i) # FreeTable(j)
  <1>1. FreeTables \in SUBSET (1..MaxTables)
    BY DEF FreeTables, Tables
  <1>2. IsFiniteSet(1..MaxTables) /\ 1..MaxTables \subseteq Nat
    BY Bounds, FS_Interval
  <1>3. FreeTables \in SUBSET Nat /\ IsFiniteSet(FreeTables) /\ Cardinality(FreeTables) >= k
    BY <1>1, <1>2, FS_Subset DEF Room
  <1>. DEFINE upto(t) == {u \in FreeTables : u <= t}
  <1>4. \A j \in 1..k : \E t \in FreeTables : Cardinality(upto(t)) = j
    BY <1>3, Counted
  <1>5. \A j : FreeTable(j) = CHOOSE t \in FreeTables : Cardinality(upto(t)) = j
    BY DEF FreeTable
  <1>. HIDE DEF upto
  <1>6. \A j \in 1..k : FreeTable(j) \in FreeTables /\ Cardinality(upto(FreeTable(j))) = j
    BY <1>4, <1>5
  <1>. QED
    BY <1>6

(* A free table serves for nothing.                                        *)
LEMMA FreeMeans ==
  ASSUME Shaped, NEW t \in FreeTables
  PROVE  t \in Tables /\ ~InArrays(t, arrays) /\ ~Elsewhere(t, Live, scopes)
  <1>1. t \in Tables /\ t \notin TablesInUse(arrays, frames, scopes, suspended)
    BY DEF FreeTables
  <1>2. arrays \in [Arrays -> Seq(Tables)] /\ scopes \in [Closures -> Tables \cup {None}]
        /\ Kept
    BY DEF Shaped, LaidOut
  <1>3. t # None
    BY <1>1, Bounds
  <1>4. ~InArrays(t, arrays)
    <2>. SUFFICES ASSUME NEW a \in Arrays, NEW i \in DOMAIN arrays[a], arrays[a][i] = t
                  PROVE  FALSE
      BY DEF InArrays
    <2>1. arrays[a] # << >>
      OBVIOUS
    <2>2. PICK f \in Live : f.locals = a
      BY <2>1, <1>2 DEF Kept
    <2>3. t \in Range(arrays[f.locals])
      BY <2>2 DEF Range
    <2>. QED
      BY <2>2, <2>3, <1>1 DEF TablesInUse, Live
  <1>5. ~Elsewhere(t, Live, scopes)
    <2>1. t # Globals
      BY <1>1 DEF TablesInUse
    <2>2. \A c \in Closures : scopes[c] # t
      BY <1>1, <1>2, <1>3 DEF TablesInUse, Range
    <2>3. \A f \in Live : f.scope # t /\ f.slots # t
      BY <1>1 DEF TablesInUse, Live
    <2>. QED
      BY <2>1, <2>2, <2>3 DEF Elsewhere
  <1>. QED
    BY <1>1, <1>4, <1>5

(* An array is free.                                                       *)
LEMMA FreeArrayIs ==
  ASSUME Shaped
  PROVE  FreeArray \in Arrays /\ arrays[FreeArray] = << >>
  <1>. DEFINE E == {a \in DOMAIN arrays : arrays[a] = << >>}
  <1>1. DOMAIN arrays = Arrays /\ Arrays \subseteq Nat
    BY Bounds DEF Shaped, LaidOut, Arrays
  <1>2. E # {}
    <2>. SUFFICES ASSUME \A a \in Arrays : arrays[a] # << >>
                  PROVE  FALSE
      BY <1>1
    <2>. DEFINE w == [a \in Arrays |-> CHOOSE f \in Live : f.locals = a]
    <2>1. \A a \in Arrays : w[a] \in Live /\ w[a].locals = a
      BY DEF Shaped, Kept
    <2>2. w \in [Arrays -> Live]
      BY <2>1
    <2>. HIDE DEF w
    <2>3. IsFiniteSet(Arrays) /\ Cardinality(Arrays) = MaxFrames + 1
      BY Bounds, FS_Interval DEF Arrays
    <2>4. IsFiniteSet(Live) /\ Cardinality(Live) < Cardinality(Arrays)
      <3>1. IsFiniteSet(Live) /\ Cardinality(Live) <= MaxFrames
        BY DEF Shaped, Bounded
      <3>. QED
        BY <3>1, <2>3, Bounds, FS_CardinalityType
    <2>5. \E x, y \in Arrays : x # y /\ w[x] = w[y]
      BY <2>2, <2>3, <2>4, FS_PigeonHole
    <2>. QED
      BY <2>5, <2>1
  <1>3. FreeArray \in E
    <2>1. E \in SUBSET Nat
      BY <1>1
    <2>. HIDE DEF E
    <2>2. Lowest(E) \in E
      BY <2>1, <1>2, LowestIs
    <2>. QED
      BY <2>2 DEF FreeArray, E
  <1>. QED
    BY <1>1, <1>3

-----------------------------------------------------------------------------
(* What an action may do to the layout.                                    *)

(* Activations end.                                                        *)
LEMMA Fewer ==
  ASSUME NEW ar, NEW L, NEW sc, LaidOut(ar, L, sc), NEW L2 \in SUBSET L
  PROVE  LaidOut(ar, L2, sc)
  BY DEF LaidOut, Served, OwnArrays, LocalOnly, Elsewhere

(* An array loses scopes at its end, but not all of them.                  *)
LEMMA Shorter ==
  ASSUME NEW ar, NEW L, NEW sc, LaidOut(ar, L, sc),
         NEW a \in Arrays, NEW h \in 1..Len(ar[a])
  PROVE  /\ LaidOut([ar EXCEPT ![a] = SubSeq(@, 1, h)], L, sc)
         /\ [ar EXCEPT ![a] = SubSeq(@, 1, h)][a] # << >>
  <1>. DEFINE s == SubSeq(ar[a], 1, h)
              ar2 == [ar EXCEPT ![a] = SubSeq(@, 1, h)]
  <1>1. ar \in [Arrays -> Seq(Tables)] /\ ar[a] \in Seq(Tables) /\ Len(ar[a]) \in Nat
    BY LenProperties DEF LaidOut
  <1>2. /\ s \in Seq(Tables) /\ Len(s) = h /\ \A i \in 1..h : s[i] = ar[a][i]
    BY <1>1, Prefix
  <1>3. DOMAIN s = 1..h /\ DOMAIN ar[a] = 1..Len(ar[a]) /\ s # << >>
    BY <1>1, <1>2, LenProperties
  <1>4. /\ ar2 \in [Arrays -> Seq(Tables)] /\ ar2[a] = s
        /\ \A b \in Arrays : b # a => ar2[b] = ar[b]
    BY <1>1, <1>2
  <1>. HIDE DEF ar2, s
  <1>5. \A b \in Arrays : /\ DOMAIN ar2[b] \subseteq DOMAIN ar[b]
                          /\ \A i \in DOMAIN ar2[b] : ar2[b][i] = ar[b][i]
                          /\ ar[b] # << >> => ar2[b] # << >>
    BY <1>1, <1>2, <1>3, <1>4
  <1>6. \A t \in Tables : InArrays(t, ar2) => InArrays(t, ar)
    BY <1>5 DEF InArrays
  <1>7. Served(ar2, L)
    BY <1>5 DEF LaidOut, Served, Activations
  <1>8. Once(ar2)
    BY <1>5 DEF LaidOut, Once
  <1>9. LocalOnly(ar2, L, sc)
    BY <1>6 DEF LaidOut, LocalOnly
  <1>10. LaidOut(ar2, L, sc)
    BY <1>4, <1>7, <1>8, <1>9 DEF LaidOut
  <1>. QED
    BY <1>3, <1>4, <1>10 DEF ar2

(* A new table is pushed on the array of an activation.                    *)
LEMMA Pushed ==
  ASSUME NEW ar, NEW L, NEW sc, LaidOut(ar, L, sc), NEW a \in Arrays,
         NEW t \in Tables, ~InArrays(t, ar), ~Elsewhere(t, L, sc),
         NEW ar2 \in [Arrays -> Seq(Tables)],
         \A b \in Arrays : b # a => ar2[b] = ar[b],
         Len(ar2[a]) = Len(ar[a]) + 1, ar2[a][Len(ar[a]) + 1] = t,
         \A i \in 1..Len(ar[a]) : ar2[a][i] = ar[a][i]
  PROVE  /\ LaidOut(ar2, L, sc)
         /\ \A u \in Tables : InArrays(u, ar2) => InArrays(u, ar) \/ u = t
  <1>. DEFINE s == ar2[a]
  <1>1. ar \in [Arrays -> Seq(Tables)] /\ ar[a] \in Seq(Tables) /\ Len(ar[a]) \in Nat
    BY LenProperties DEF LaidOut
  <1>2. /\ s \in Seq(Tables) /\ Len(s) = Len(ar[a]) + 1 /\ s[Len(ar[a]) + 1] = t
        /\ \A i \in 1..Len(ar[a]) : s[i] = ar[a][i]
    OBVIOUS
  <1>3. /\ DOMAIN s = 1..Len(ar[a]) + 1 /\ DOMAIN ar[a] = 1..Len(ar[a]) /\ s # << >>
    BY <1>1, <1>2, LenProperties, EmptySeq
  <1>4. /\ ar2 \in [Arrays -> Seq(Tables)] /\ ar2[a] = s
        /\ \A b \in Arrays : b # a => ar2[b] = ar[b]
    OBVIOUS
  <1>. HIDE DEF s
  <1>5. \A b \in Arrays : \A i \in DOMAIN ar2[b] :
           \/ i \in DOMAIN ar[b] /\ ar2[b][i] = ar[b][i]
           \/ b = a /\ i = Len(ar[a]) + 1 /\ ar2[b][i] = t
    <2>1. \A i \in DOMAIN s :
             \/ i \in DOMAIN ar[a] /\ s[i] = ar[a][i]
             \/ i = Len(ar[a]) + 1 /\ s[i] = t
      BY ONLY <1>1, <1>2, <1>3
    <2>. QED
      BY ONLY <2>1, <1>4
  <1>6. \A u \in Tables : InArrays(u, ar2) => InArrays(u, ar) \/ u = t
    BY <1>5 DEF InArrays
  <1>7. \A b \in Arrays : ar[b] # << >> => ar2[b] # << >>
    BY <1>3, <1>4
  <1>8. Served(ar2, L)
    BY <1>7 DEF LaidOut, Served, Activations
  <1>9. Once(ar2)
    <2>1. \A b \in Arrays : \A i \in DOMAIN ar[b] : ar[b][i] # t
      BY DEF InArrays
    <2>2. Once(ar)
      BY DEF LaidOut
    <2>. QED
      BY <1>5, <2>1, <2>2 DEF Once
  <1>10. LocalOnly(ar2, L, sc)
    BY <1>6 DEF LaidOut, LocalOnly
  <1>11. LaidOut(ar2, L, sc)
    BY <1>4, <1>8, <1>9, <1>10 DEF LaidOut
  <1>. QED
    BY <1>6, <1>11

(* A new activation, with an array that has a scope, and tables of its own *)
(* that are no local scopes.                                               *)
LEMMA Entered ==
  ASSUME NEW ar, NEW L, NEW sc, LaidOut(ar, L, sc), NEW f \in Activations,
         ar[f.locals] # << >>, ~InArrays(f.scope, ar), ~InArrays(f.slots, ar),
         \/ f.closure \in Inlines
         \/ \A g \in L : g.closure \notin Inlines => g.locals # f.locals
  PROVE  LaidOut(ar, L \cup {f}, sc)
  <1>1. Served(ar, L \cup {f})
    BY DEF LaidOut, Served
  <1>2. OwnArrays(L \cup {f})
    BY DEF LaidOut, OwnArrays
  <1>3. LocalOnly(ar, L \cup {f}, sc)
    <2>1. \A t : Elsewhere(t, L \cup {f}, sc) <=>
                   Elsewhere(t, L, sc) \/ f.scope = t \/ f.slots = t
      BY DEF Elsewhere
    <2>. QED
      BY <2>1 DEF LaidOut, LocalOnly
  <1>. QED
    BY <1>1, <1>2, <1>3 DEF LaidOut

(* Closures get other scopes.                                              *)
LEMMA Rescoped ==
  ASSUME NEW ar, NEW L, NEW sc, LaidOut(ar, L, sc),
         NEW sc2 \in [Closures -> Tables \cup {None}],
         \A c \in Closures : ~InArrays(sc2[c], ar)
  PROVE  LaidOut(ar, L, sc2)
  BY DEF LaidOut, LocalOnly, Elsewhere

(* The scopes that closures have are no local scopes.                      *)
LEMMA ScopesApart ==
  ASSUME NEW ar, NEW L, NEW sc, LaidOut(ar, L, sc)
  PROVE  /\ \A c \in Closures : ~InArrays(sc[c], ar)
         /\ \A f \in L : ~InArrays(f.scope, ar) /\ ~InArrays(f.slots, ar)
         /\ ~InArrays(Globals, ar) /\ ~InArrays(None, ar)
  <1>1. \A t : InArrays(t, ar) => t \in Tables
    <2>1. \A a \in Arrays : \A i \in DOMAIN ar[a] : ar[a][i] \in Tables
      <3>1. \A a \in Arrays : ar[a] \in Seq(Tables)
        BY DEF LaidOut
      <3>. QED
        BY <3>1, LenProperties, ElementOfSeq
    <2>. QED
      BY <2>1 DEF InArrays
  <1>2. \A t : InArrays(t, ar) => ~Elsewhere(t, L, sc)
    BY <1>1 DEF LaidOut, LocalOnly
  <1>. QED
    BY <1>1, <1>2, Bounds DEF Elsewhere

(***************************************************************************)
(* Lemmas of part two: what the operators on memories do.                  *)
(***************************************************************************)

(* The tables of m2 have the names that those of m have.                   *)
Wider(m, m2) == \A t \in Tables : DOMAIN m.tables[t] \subseteq DOMAIN m2.tables[t]

Vars == [places : SUBSET Places, value : Values]

(* What is bound in a memory, and to what.                                 *)
LEMMA MemoryIs ==
  ASSUME NEW m \in Memory
  PROVE  /\ m.tables \in [Tables -> Scope] /\ m.cells \in [Cells -> Cell]
         /\ m.vars \in SUBSET Vars
         /\ \A t \in Tables : DOMAIN m.tables[t] \subseteq Keys
         /\ \A t \in Tables : \A n \in DOMAIN m.tables[t] : m.tables[t][n] \in Binding
         /\ Bound(m) \subseteq Places
         /\ \A p \in Places : p \in Bound(m) <=> p[2] \in DOMAIN m.tables[p[1]]
         /\ \A t \in Tables, n \in Keys : <<t, n>> \in Bound(m) <=> n \in DOMAIN m.tables[t]
         /\ \A p \in Bound(m) : /\ p[1] \in Tables /\ p[2] \in Keys /\ p = <<p[1], p[2]>>
                                /\ At(m, p) \in Binding
                                /\ InCell(m, p) => At(m, p).cell \in Cells
                                /\ ValueOf(m, At(m, p)) \in Values
  <1>1. /\ m.tables \in [Tables -> Scope] /\ m.cells \in [Cells -> Cell]
        /\ m.vars \in SUBSET Vars
    BY DEF Memory, Vars
  <1>2. \A s \in Scope : DOMAIN s \subseteq Keys /\ \A n \in DOMAIN s : s[n] \in Binding
    BY DEF Scope
  <1>3. /\ \A t \in Tables : DOMAIN m.tables[t] \subseteq Keys
        /\ \A t \in Tables : \A n \in DOMAIN m.tables[t] : m.tables[t][n] \in Binding
    BY <1>1, <1>2
  <1>4. \A p : p \in Bound(m) <=> \E t \in Tables : \E n \in DOMAIN m.tables[t] : p = <<t, n>>
    BY DEF Bound
  <1>5. /\ Bound(m) \subseteq Places
        /\ \A p \in Places : p \in Bound(m) <=> p[2] \in DOMAIN m.tables[p[1]]
        /\ \A t \in Tables, n \in Keys : <<t, n>> \in Bound(m) <=> n \in DOMAIN m.tables[t]
        /\ \A p \in Bound(m) : /\ p[1] \in Tables /\ p[2] \in DOMAIN m.tables[p[1]]
                               /\ p = <<p[1], p[2]>>
    BY <1>3, <1>4 DEF Places
  <1>6. \A p \in Bound(m) : At(m, p) \in Binding
    BY <1>3, <1>5 DEF At
  <1>7. \A p \in Bound(m) : InCell(m, p) => At(m, p).cell \in Cells
    BY <1>6 DEF InCell, Binding
  <1>8. \A p \in Bound(m) : ValueOf(m, At(m, p)) \in Values
    <2>1. \A p \in Bound(m) : InCell(m, p) => m.cells[At(m, p).cell].value \in Values
      BY <1>1, <1>7 DEF Cell
    <2>. QED
      BY <2>1, <1>6 DEF ValueOf, InCell, Binding
  <1>. QED
    BY <1>1, <1>3, <1>5, <1>6, <1>7, <1>8

(* A binding is put in a table.                                            *)
LEMMA HashSetIs ==
  ASSUME NEW m \in Memory, NEW t \in Tables, NEW n \in Keys, NEW b \in Binding
  PROVE  LET m2 == HashSet(m, t, n, b) IN
         /\ m2 \in Memory /\ m2.cells = m.cells /\ m2.vars = m.vars
         /\ \A u \in Tables :
               DOMAIN m2.tables[u] = IF u = t THEN DOMAIN m.tables[u] \cup {n}
                                     ELSE DOMAIN m.tables[u]
         /\ Bound(m2) = Bound(m) \cup {<<t, n>>}
         /\ At(m2, <<t, n>>) = b
         /\ \A p \in Bound(m) : p # <<t, n>> => At(m2, p) = At(m, p)
         /\ Wider(m, m2)
  <1>. DEFINE m2 == HashSet(m, t, n, b)
              s == [k \in DOMAIN m.tables[t] \cup {n} |->
                       IF k = n THEN b ELSE m.tables[t][k]]
  <1>1. /\ m.tables \in [Tables -> Scope] /\ m.cells \in [Cells -> Cell]
        /\ m.vars \in SUBSET Vars
        /\ \A u \in Tables : DOMAIN m.tables[u] \subseteq Keys
        /\ \A u \in Tables : \A k \in DOMAIN m.tables[u] : m.tables[u][k] \in Binding
    BY MemoryIs
  <1>2. /\ m2.tables = [m.tables EXCEPT ![t] = s]
        /\ m2.cells = m.cells /\ m2.vars = m.vars
        /\ m2 = [tables |-> m2.tables, cells |-> m2.cells, vars |-> m2.vars]
    BY DEF HashSet, Memory
  <1>3. s \in Scope
    <2>1. DOMAIN m.tables[t] \cup {n} \in SUBSET Keys
      BY <1>1
    <2>2. s \in [DOMAIN m.tables[t] \cup {n} -> Binding]
      BY <1>1
    <2>. HIDE DEF s
    <2>. QED
      BY <2>1, <2>2 DEF Scope
  <1>4. /\ DOMAIN s = DOMAIN m.tables[t] \cup {n} /\ s[n] = b
        /\ \A k \in DOMAIN m.tables[t] : k # n => s[k] = m.tables[t][k]
    OBVIOUS
  <1>. HIDE DEF s, m2
  <1>5. /\ m2.tables \in [Tables -> Scope] /\ m2.tables[t] = s
        /\ \A u \in Tables : u # t => m2.tables[u] = m.tables[u]
    BY <1>1, <1>2, <1>3
  <1>6. m2 \in Memory
    BY <1>1, <1>2, <1>5 DEF Memory, Vars
  <1>7. \A u \in Tables :
           DOMAIN m2.tables[u] = IF u = t THEN DOMAIN m.tables[u] \cup {n}
                                 ELSE DOMAIN m.tables[u]
    BY <1>4, <1>5
  <1>8. /\ Bound(m) \subseteq Places /\ Bound(m2) \subseteq Places
        /\ \A p \in Places : /\ p \in Bound(m) <=> p[2] \in DOMAIN m.tables[p[1]]
                             /\ p \in Bound(m2) <=> p[2] \in DOMAIN m2.tables[p[1]]
        /\ <<t, n>> \in Places
    BY <1>6, MemoryIs DEF Places
  <1>9. \A p \in Places : /\ p[1] \in Tables /\ p[2] \in Keys
                          /\ p = <<t, n>> <=> (p[1] = t /\ p[2] = n)
    BY DEF Places
  <1>10. Bound(m2) = Bound(m) \cup {<<t, n>>}
    <2>1. ASSUME NEW p \in Places
          PROVE  p \in Bound(m2) <=> p \in Bound(m) \/ p = <<t, n>>
      <3>1. p[1] \in Tables /\ (p = <<t, n>> <=> (p[1] = t /\ p[2] = n))
        BY <1>9
      <3>2. /\ p \in Bound(m) <=> p[2] \in DOMAIN m.tables[p[1]]
            /\ p \in Bound(m2) <=> p[2] \in DOMAIN m2.tables[p[1]]
        BY <1>8
      <3>3. DOMAIN m2.tables[p[1]] = IF p[1] = t THEN DOMAIN m.tables[p[1]] \cup {n}
                                     ELSE DOMAIN m.tables[p[1]]
        BY <3>1, <1>7
      <3>. QED
        BY <3>1, <3>2, <3>3
    <2>. QED
      BY <2>1, <1>8
  <1>11. At(m2, <<t, n>>) = b
    BY <1>4, <1>5 DEF At
  <1>12. \A p \in Bound(m) : p # <<t, n>> => At(m2, p) = At(m, p)
    BY <1>4, <1>5, <1>8, <1>9 DEF At
  <1>13. Wider(m, m2)
    BY <1>7 DEF Wider
  <1>. QED
    BY <1>2, <1>6, <1>7, <1>10, <1>11, <1>12, <1>13 DEF m2

(* Variables without some of their places.                                 *)
LEMMA WithoutIs ==
  ASSUME NEW vs \in SUBSET Vars, NEW ps
  PROVE  /\ Without(vs, ps) \in SUBSET Vars
         /\ \A x \in Without(vs, ps) : x.places # {} /\
               \E y \in vs : x.places = y.places \ ps /\ x.value = y.value
         /\ \A y \in vs : y.places \ ps # {} =>
               \E x \in Without(vs, ps) : x.places = y.places \ ps /\ x.value = y.value
  <1>. DEFINE without(y) == [y EXCEPT !.places = @ \ ps]
  <1>1. \A y \in vs : /\ without(y) \in Vars /\ without(y).places = y.places \ ps
                      /\ without(y).value = y.value
    BY DEF Vars
  <1>. DEFINE all == {without(y) : y \in vs}
  <1>2. Without(vs, ps) = {x \in all : x.places # {}}
    BY DEF Without
  <1>. HIDE DEF without
  <1>3. Without(vs, ps) \in SUBSET Vars
    BY <1>1, <1>2
  <1>4. \A x \in Without(vs, ps) : x.places # {} /\
           \E y \in vs : x.places = y.places \ ps /\ x.value = y.value
    BY <1>1, <1>2
  <1>5. \A y \in vs : y.places \ ps # {} =>
           without(y) \in Without(vs, ps)
    BY <1>1, <1>2
  <1>. QED
    BY <1>1, <1>3, <1>4, <1>5

(* What agreement says of a place of a variable.                           *)
LEMMA AgreesAt ==
  ASSUME NEW m \in Memory, Agrees(m), NEW x \in m.vars, NEW p \in x.places
  PROVE  /\ p \in Bound(m) /\ x.value = ValueOf(m, At(m, p))
         /\ \A q : q \in x.places <=> q \in Bound(m) /\ Together(m, p, q)
  BY DEF Agrees

(* A place is bound to a plain value: a new variable.                      *)
LEMMA BindFresh ==
  ASSUME NEW m, Sound(m), NEW t \in Tables, NEW n \in Keys, NEW v \in Values
  PROVE  LET m2 == [HashSet(m, t, n, Plain(v)) EXCEPT !.vars = Fresh(@, <<t, n>>, v)] IN
         Sound(m2) /\ Wider(m, m2)
  <1>. DEFINE p == <<t, n>>
              m1 == HashSet(m, t, n, Plain(v))
              m2 == [m1 EXCEPT !.vars = Fresh(@, p, v)]
              rest == Without(m.vars, {p})
              new == Variable({p}, v)
  <1>1. m \in Memory /\ Agrees(m) /\ Reports(m)
    BY DEF Sound
  <1>2. Plain(v) \in Binding /\ Plain(v).cell = None /\ Plain(v).value = v
    BY DEF Plain, Binding
  <1>3. /\ m1 \in Memory /\ m1.cells = m.cells /\ m1.vars = m.vars
        /\ Bound(m1) = Bound(m) \cup {p} /\ At(m1, p) = Plain(v)
        /\ \A q \in Bound(m) : q # p => At(m1, q) = At(m, q)
        /\ Wider(m, m1)
    BY <1>1, <1>2, HashSetIs
  <1>4. m.vars \in SUBSET Vars
    BY <1>1, MemoryIs
  <1>5. /\ rest \in SUBSET Vars
        /\ \A x \in rest : x.places # {} /\
              \E y \in m.vars : x.places = y.places \ {p} /\ x.value = y.value
        /\ \A y \in m.vars : y.places \ {p} # {} =>
              \E x \in rest : x.places = y.places \ {p} /\ x.value = y.value
    BY <1>4, WithoutIs
  <1>6. p \in Places /\ new \in Vars /\ new.places = {p} /\ new.value = v
    BY DEF Variable, Vars, Places
  <1>. HIDE DEF m1, rest, new, p
  <1>7. /\ m2.tables = m1.tables /\ m2.cells = m.cells /\ m2.vars = rest \cup {new}
        /\ m2 = [tables |-> m2.tables, cells |-> m2.cells, vars |-> m2.vars]
    <2>1. Fresh(m1.vars, p, v) = rest \cup {new}
      BY <1>3 DEF Fresh, rest, new
    <2>2. m1 = [tables |-> m1.tables, cells |-> m1.cells, vars |-> m1.vars]
      BY <1>3 DEF Memory
    <2>. QED
      BY <1>3, <2>1, <2>2
  <1>8. m2 \in Memory
    BY <1>3, <1>5, <1>6, <1>7 DEF Memory, Vars
  <1>. HIDE DEF m2
  <1>9. /\ Bound(m2) = Bound(m) \cup {p} /\ At(m2, p) = Plain(v)
        /\ \A q \in Bound(m) : q # p => At(m2, q) = At(m, q)
        /\ Wider(m, m2)
    BY <1>3, <1>7 DEF Bound, At, Wider
  <1>10. \A b : ValueOf(m2, b) = ValueOf(m, b)
    BY <1>7 DEF ValueOf
  <1>11. ASSUME NEW x \in rest
         PROVE  /\ x.places # {} /\ x.places \subseteq Bound(m2)
                /\ \A q \in x.places :
                     /\ x.value = ValueOf(m2, At(m2, q))
                     /\ \A r \in Bound(m2) : r \in x.places <=> Together(m2, q, r)
    <2>1. PICK y \in m.vars : x.places = y.places \ {p} /\ x.value = y.value
      BY <1>5
    <2>2. x.places # {}
      BY <1>5
    <2>3. ASSUME NEW q \in x.places
          PROVE  /\ q \in Bound(m2) /\ x.value = ValueOf(m2, At(m2, q))
                 /\ \A r \in Bound(m2) : r \in x.places <=> Together(m2, q, r)
      <3>1. q \in y.places /\ q # p
        BY <2>1
      <3>2. /\ q \in Bound(m) /\ y.value = ValueOf(m, At(m, q))
            /\ \A r : r \in y.places <=> r \in Bound(m) /\ Together(m, q, r)
        BY <3>1, <1>1, AgreesAt
      <3>3. At(m2, q) = At(m, q)
        BY <3>1, <3>2, <1>9
      <3>4. \A r \in Bound(m) : r # p => (Together(m2, q, r) <=> Together(m, q, r))
        BY <3>3, <1>9 DEF Together, InCell
      <3>5. ~Together(m2, q, p)
        BY <3>1, <1>2, <1>9 DEF Together, InCell
      <3>. QED
        BY <2>1, <3>2, <3>3, <3>4, <3>5, <1>9, <1>10
    <2>. QED
      BY <2>2, <2>3
  <1>12. /\ new.places # {} /\ new.places \subseteq Bound(m2)
         /\ \A q \in new.places :
              /\ new.value = ValueOf(m2, At(m2, q))
              /\ \A r \in Bound(m2) : r \in new.places <=> Together(m2, q, r)
    BY <1>2, <1>6, <1>9 DEF Together, InCell, ValueOf
  <1>13. \A q \in Bound(m2) : \E x \in m2.vars : q \in x.places
    <2>. SUFFICES ASSUME NEW q \in Bound(m2)
                  PROVE  \E x \in m2.vars : q \in x.places
      OBVIOUS
    <2>1. CASE q = p
      BY <2>1, <1>6, <1>7
    <2>2. CASE q # p
      <3>1. PICK y \in m.vars : q \in y.places
        BY <2>2, <1>1, <1>9 DEF Agrees
      <3>2. PICK x \in rest : x.places = y.places \ {p}
        BY <3>1, <2>2, <1>5
      <3>. QED
        BY <3>1, <3>2, <2>2, <1>7
    <2>. QED
      BY <2>1, <2>2
  <1>14. Agrees(m2)
    BY <1>7, <1>11, <1>12, <1>13 DEF Agrees
  <1>15. Reports(m2)
    BY <1>1, <1>7 DEF Reports
  <1>. QED
    BY <1>8, <1>9, <1>14, <1>15 DEF Sound, m2, m1, p

(* A place is bound to the cell of a variable: one more place of it.       *)
LEMMA BindJoined ==
  ASSUME NEW m, Sound(m), NEW t \in Tables, NEW n \in Keys, NEW o \in Bound(m), InCell(m, o)
  PROVE  LET m2 == [HashSet(m, t, n, At(m, o)) EXCEPT !.vars = Joined(@, <<t, n>>, o)] IN
         Sound(m2) /\ Wider(m, m2)
  <1>. DEFINE p == <<t, n>>
              b == At(m, o)
              m1 == HashSet(m, t, n, b)
              m2 == [m1 EXCEPT !.vars = Joined(@, p, o)]
              rest == Without(m.vars, {p})
              joined(x) == IF o \in x.places THEN [x EXCEPT !.places = @ \cup {p}] ELSE x
              all == {joined(x) : x \in rest}
  <1>1. m \in Memory /\ Agrees(m) /\ Reports(m)
    BY DEF Sound
  <1>2. b \in Binding /\ b.cell # None /\ p \in Places
    BY <1>1, MemoryIs DEF InCell, Places
  <1>3. /\ m1 \in Memory /\ m1.cells = m.cells /\ m1.vars = m.vars
        /\ Bound(m1) = Bound(m) \cup {p} /\ At(m1, p) = b
        /\ \A q \in Bound(m) : q # p => At(m1, q) = At(m, q)
        /\ Wider(m, m1)
    BY <1>1, <1>2, HashSetIs
  <1>4. m.vars \in SUBSET Vars
    BY <1>1, MemoryIs
  <1>5. /\ rest \in SUBSET Vars
        /\ \A x \in rest : x.places # {} /\
              \E y \in m.vars : x.places = y.places \ {p} /\ x.value = y.value
        /\ \A y \in m.vars : y.places \ {p} # {} =>
              \E x \in rest : x.places = y.places \ {p} /\ x.value = y.value
    BY <1>4, WithoutIs
  <1>6. \A x \in rest : /\ joined(x) \in Vars /\ joined(x).value = x.value
                        /\ joined(x).places = IF o \in x.places THEN x.places \cup {p}
                                              ELSE x.places
    BY <1>2, <1>5 DEF Vars
  <1>. DEFINE vars2 == IF p = o THEN m.vars ELSE all
  <1>7. Joined(m1.vars, p, o) = vars2
    BY <1>3 DEF Joined
  <1>8. m1 = [tables |-> m1.tables, cells |-> m1.cells, vars |-> m1.vars]
    BY <1>3 DEF Memory
  <1>. HIDE DEF m1, rest, p, joined, b, vars2
  <1>9. /\ m2.tables = m1.tables /\ m2.cells = m.cells /\ m2.vars = vars2
        /\ m2 = [tables |-> m2.tables, cells |-> m2.cells, vars |-> m2.vars]
    BY <1>3, <1>7, <1>8
  <1>10. vars2 \in SUBSET Vars
    <2>1. \A x \in rest : joined(x) \in Vars
      BY <1>6
    <2>2. all \in SUBSET Vars
      BY <2>1
    <2>. QED
      BY <1>4, <2>2 DEF vars2
  <1>11. m2 \in Memory
    BY <1>3, <1>9, <1>10 DEF Memory, Vars
  <1>. HIDE DEF m2, all
  <1>12. /\ Bound(m2) = Bound(m) \cup {p} /\ At(m2, p) = b
         /\ \A q \in Bound(m) : q # p => At(m2, q) = At(m, q)
         /\ Wider(m, m2)
    BY <1>3, <1>9 DEF Bound, At, Wider
  <1>13. \A c : ValueOf(m2, c) = ValueOf(m, c)
    BY <1>9 DEF ValueOf
  <1>14. ASSUME p = o
         PROVE  Agrees(m2)
    <2>1. Bound(m2) = Bound(m) /\ \A q \in Bound(m) : At(m2, q) = At(m, q)
      BY <1>12, <1>14 DEF b
    <2>2. m2.vars = m.vars
      BY <1>9, <1>14 DEF vars2
    <2>. QED
      BY <1>1, <1>13, <2>1, <2>2 DEF Agrees, Together, InCell
  <1>15. ASSUME p # o
         PROVE  Agrees(m2)
    <2>1. m2.vars = all
      BY <1>9, <1>15 DEF vars2
    <2>2. ASSUME NEW z \in all
          PROVE  /\ z.places # {} /\ z.places \subseteq Bound(m2)
                 /\ \A q \in z.places :
                      /\ z.value = ValueOf(m2, At(m2, q))
                      /\ \A r \in Bound(m2) : r \in z.places <=> Together(m2, q, r)
      <3>1. PICK x \in rest : z = joined(x)
        BY DEF all
      <3>2. PICK y \in m.vars : x.places = y.places \ {p} /\ x.value = y.value
        BY <1>5
      <3>3. /\ x.places # {} /\ z.value = y.value /\ x.places \subseteq z.places
            /\ \A q : q \in z.places <=>
                  (q \in y.places /\ q # p) \/ (q = p /\ o \in y.places)
        <4>1. x.places # {}
          BY <1>5
        <4>2. /\ z.value = y.value
              /\ z.places = IF o \in x.places THEN x.places \cup {p} ELSE x.places
          BY <1>6, <3>1, <3>2
        <4>. QED
          BY <1>15, <3>2, <4>1, <4>2
      <3>4. \A q \in y.places :
               /\ q \in Bound(m) /\ y.value = ValueOf(m, At(m, q))
               /\ \A r : r \in y.places <=> r \in Bound(m) /\ Together(m, q, r)
        BY <1>1, AgreesAt
      <3>5. /\ At(m2, o) = At(m, o) /\ At(m2, p) = At(m, o)
            /\ At(m, o).cell # None
        BY <1>12, <1>15, <1>2 DEF b
      <3>6. ASSUME NEW q \in z.places
            PROVE  /\ q \in Bound(m2) /\ z.value = ValueOf(m2, At(m2, q))
                   /\ \A r \in Bound(m2) : r \in z.places <=> Together(m2, q, r)
        <4>1. CASE q # p
          <5>1. q \in y.places /\ q \in Bound(m) /\ At(m2, q) = At(m, q)
            BY <3>3, <3>4, <4>1, <1>12
          <5>2. \A r \in Bound(m) : r # p => (Together(m2, q, r) <=> Together(m, q, r))
            BY <5>1, <1>12 DEF Together, InCell
          <5>3. Together(m2, q, p) <=> Together(m, q, o)
            BY <5>1, <3>5, <4>1 DEF Together, InCell
          <5>4. o \in y.places <=> Together(m, q, o)
            BY <5>1, <3>4
          <5>5. \A r \in Bound(m) : r \in y.places <=> Together(m, q, r)
            BY <5>1, <3>4
          <5>. QED
            BY <5>1, <5>2, <5>3, <5>4, <5>5, <3>3, <3>4, <1>12, <1>13
        <4>2. CASE q = p
          <5>1. o \in y.places
            BY <3>3, <4>2
          <5>2. \A r \in Bound(m) : r # p => (Together(m2, p, r) <=> Together(m, o, r))
            BY <3>5, <1>12, <1>15 DEF Together, InCell
          <5>3. \A r \in Bound(m) : r \in y.places <=> Together(m, o, r)
            BY <5>1, <3>4
          <5>4. Together(m2, p, p) /\ p \in z.places
            BY <4>2 DEF Together
          <5>5. z.value = ValueOf(m2, At(m2, p))
            BY <5>1, <3>3, <3>4, <3>5, <1>13
          <5>. QED
            BY <5>2, <5>3, <5>4, <5>5, <4>2, <3>3, <1>12
        <4>. QED
          BY <4>1, <4>2
      <3>. QED
        BY <3>3, <3>6
    <2>3. \A q \in Bound(m2) : \E z \in all : q \in z.places
      <3>. SUFFICES ASSUME NEW q \in Bound(m2)
                    PROVE  \E z \in all : q \in z.places
        OBVIOUS
      <3>1. \A q1 \in Bound(m) : q1 # p => \E x \in rest : q1 \in x.places
        BY <1>1, <1>5 DEF Agrees
      <3>2. \A x \in rest : joined(x) \in all
        BY DEF all
      <3>3. CASE q = p
        <4>1. PICK x \in rest : o \in x.places
          BY <3>1, <1>15
        <4>. QED
          BY <4>1, <3>2, <3>3, <1>6
      <3>4. CASE q # p
        <4>1. PICK x \in rest : q \in x.places
          BY <3>1, <3>4, <1>12
        <4>. QED
          BY <4>1, <3>2, <1>6
      <3>. QED
        BY <3>3, <3>4
    <2>. QED
      BY <2>1, <2>2, <2>3 DEF Agrees
  <1>16. Reports(m2)
    BY <1>1, <1>9 DEF Reports
  <1>. QED
    BY <1>11, <1>12, <1>14, <1>15, <1>16 DEF Sound, m2, m1, p, b

(* The variable at p, and no other, gets the value v.                      *)
Revalue(vs, p, v) == {IF p \in x.places THEN [x EXCEPT !.value = v] ELSE x : x \in vs}

LEMMA RevalueIs ==
  ASSUME NEW vs \in SUBSET Vars, NEW p, NEW v \in Values
  PROVE  /\ Revalue(vs, p, v) \in SUBSET Vars
         /\ \A z \in Revalue(vs, p, v) : \E x \in vs :
               z.places = x.places /\ z.value = IF p \in x.places THEN v ELSE x.value
         /\ \A x \in vs : \E z \in Revalue(vs, p, v) : z.places = x.places
  <1>. DEFINE re(x) == IF p \in x.places THEN [x EXCEPT !.value = v] ELSE x
  <1>1. \A x \in vs : /\ re(x) \in Vars /\ re(x).places = x.places
                      /\ re(x).value = IF p \in x.places THEN v ELSE x.value
    BY DEF Vars
  <1>2. Revalue(vs, p, v) = {re(x) : x \in vs}
    BY DEF Revalue
  <1>. HIDE DEF re
  <1>. QED
    BY <1>1, <1>2

(* Agreement when exactly the places of one variable show another value.   *)
LEMMA Revalued ==
  ASSUME NEW m \in Memory, NEW m2, Agrees(m), NEW p \in Bound(m), NEW v \in Values,
         Bound(m2) = Bound(m),
         \A q \in Bound(m) : At(m2, q).cell = At(m, q).cell,
         \A q \in Bound(m) : ValueOf(m2, At(m2, q)) =
               IF Together(m, p, q) THEN v ELSE ValueOf(m, At(m, q)),
         m2.vars = Revalue(m.vars, p, v)
  PROVE  Agrees(m2)
  <1>1. m.vars \in SUBSET Vars
    BY MemoryIs
  <1>2. /\ \A z \in m2.vars : \E x \in m.vars :
              z.places = x.places /\ z.value = IF p \in x.places THEN v ELSE x.value
        /\ \A x \in m.vars : \E z \in m2.vars : z.places = x.places
    BY <1>1, RevalueIs
  <1>3. \A q, r \in Bound(m) : Together(m2, q, r) <=> Together(m, q, r)
    BY DEF Together, InCell
  <1>4. ASSUME NEW z \in m2.vars
        PROVE  /\ z.places # {} /\ z.places \subseteq Bound(m2)
               /\ \A q \in z.places :
                    /\ z.value = ValueOf(m2, At(m2, q))
                    /\ \A r \in Bound(m2) : r \in z.places <=> Together(m2, q, r)
    <2>1. PICK x \in m.vars :
             z.places = x.places /\ z.value = IF p \in x.places THEN v ELSE x.value
      BY <1>2
    <2>2. x.places # {}
      BY DEF Agrees
    <2>3. ASSUME NEW q \in x.places
          PROVE  /\ q \in Bound(m) /\ z.value = ValueOf(m2, At(m2, q))
                 /\ \A r \in Bound(m) : r \in x.places <=> Together(m2, q, r)
      <3>1. /\ q \in Bound(m) /\ x.value = ValueOf(m, At(m, q))
            /\ \A r : r \in x.places <=> r \in Bound(m) /\ Together(m, q, r)
        BY AgreesAt
      <3>2. p \in x.places <=> Together(m, p, q)
        BY <3>1 DEF Together, InCell
      <3>3. ValueOf(m2, At(m2, q)) = IF Together(m, p, q) THEN v ELSE ValueOf(m, At(m, q))
        BY <3>1
      <3>. QED
        BY <3>1, <3>2, <3>3, <2>1, <1>3
    <2>. QED
      BY <2>1, <2>2, <2>3
  <1>5. \A q \in Bound(m2) : \E z \in m2.vars : q \in z.places
    <2>1. \A q \in Bound(m) : \E x \in m.vars : q \in x.places
      BY DEF Agrees
    <2>. QED
      BY <2>1, <1>2
  <1>. QED
    BY <1>4, <1>5 DEF Agrees

(* A cell is assigned.                                                     *)
LEMMA CellAssignIs ==
  ASSUME NEW m \in Memory, NEW c \in Cells, NEW v \in Values
  PROVE  LET m2 == WatchedCellAssign(m, c, v) IN
         /\ m2 \in Memory /\ m2.tables = m.tables /\ m2.vars = m.vars
         /\ m2.cells[c].value = v
         /\ \A d \in Cells : d # c => m2.cells[d] = m.cells[d]
         /\ Reports(m) => Reports(m2)
  <1>. DEFINE m2 == WatchedCellAssign(m, c, v)
              new == [m.cells[c] EXCEPT !.value = v,
                         !.reported = IF m.cells[c].watched THEN v ELSE @]
  <1>1. m.cells \in [Cells -> Cell] /\ m.cells[c] \in Cell
    BY MemoryIs
  <1>2. /\ new \in Cell /\ new.value = v /\ new.watched = m.cells[c].watched
        /\ new.watched => new.reported = v
    BY <1>1 DEF Cell
  <1>3. /\ m2.tables = m.tables /\ m2.vars = m.vars
        /\ m2.cells = [m.cells EXCEPT ![c] = new]
        /\ m2 = [tables |-> m2.tables, cells |-> m2.cells, vars |-> m2.vars]
    <2>1. m = [tables |-> m.tables, cells |-> m.cells, vars |-> m.vars]
      BY DEF Memory
    <2>2. m2 = [m EXCEPT !.cells = [m.cells EXCEPT ![c] = new]]
      BY <1>1, <2>1 DEF WatchedCellAssign
    <2>. HIDE DEF new, m2
    <2>. QED
      BY <2>1, <2>2
  <1>. HIDE DEF new, m2
  <1>4. /\ m2.cells \in [Cells -> Cell] /\ m2.cells[c] = new
        /\ \A d \in Cells : d # c => m2.cells[d] = m.cells[d]
    BY <1>1, <1>2, <1>3
  <1>5. m2 \in Memory
    BY <1>3, <1>4 DEF Memory
  <1>6. Reports(m) => Reports(m2)
    BY <1>2, <1>4 DEF Reports
  <1>. QED
    BY <1>2, <1>3, <1>4, <1>5, <1>6 DEF m2

(* The cells in use, by the places bound to them.                          *)
LEMMA FreeCellsAre ==
  ASSUME NEW m
  PROVE  \A c : c \in FreeCells(m) <=> c \in Cells /\ \A q \in Bound(m) : At(m, q).cell # c
  BY DEF FreeCells, UsedCells, At

(* An assignment to a place: its variable is a new one, or gets the value. *)
LEMMA AssignIs ==
  ASSUME NEW m, Sound(m), NEW t \in Tables, NEW n \in Keys, NEW v \in Values
  PROVE  LET m2 == Assign(m, t, n, v) IN
         /\ Sound(m2) /\ Wider(m, m2) /\ <<t, n>> \in Bound(m2)
         /\ n \notin DOMAIN m.tables[t] => FreeCells(m2) = FreeCells(m)
  <1>. DEFINE p == <<t, n>>
              b == At(m, p)
              m1 == AssignBinding(m, t, n, v)
              m2 == Assign(m, t, n, v)
  <1>1. m \in Memory /\ Agrees(m) /\ Reports(m)
    BY DEF Sound
  <1>2. /\ m2 = [m1 EXCEPT !.vars = Assigned(@, p, v)]
        /\ b = m.tables[t][n]
        /\ p \in Bound(m) <=> n \in DOMAIN m.tables[t]
        /\ p \in Places
    BY <1>1, MemoryIs DEF Assign, At, Places
  <1>3. Plain(v) \in Binding /\ Plain(v).cell = None /\ Plain(v).value = v
    BY DEF Plain, Binding
  <1>. DEFINE h == HashSet(m, t, n, Plain(v))
  <1>4. /\ h \in Memory /\ h.cells = m.cells /\ h.vars = m.vars
        /\ Bound(h) = Bound(m) \cup {p} /\ At(h, p) = Plain(v)
        /\ \A q \in Bound(m) : q # p => At(h, q) = At(m, q)
        /\ Wider(m, h)
    BY <1>1, <1>3, HashSetIs
  <1>5. (\E x \in m.vars : p \in x.places) <=> p \in Bound(m)
    BY <1>1 DEF Agrees
  <1>6. ASSUME p \notin Bound(m)
        PROVE  /\ Sound(m2) /\ Wider(m, m2) /\ p \in Bound(m2)
               /\ FreeCells(m2) = FreeCells(m)
    <2>1. m1 = h
      BY <1>2, <1>6 DEF AssignBinding
    <2>2. m2 = [h EXCEPT !.vars = Fresh(@, p, v)]
      BY <2>1, <1>2, <1>4, <1>5, <1>6 DEF Assigned
    <2>3. Sound(m2) /\ Wider(m, m2)
      BY <2>2, BindFresh
    <2>4. m2.tables = h.tables
      BY <2>2, <1>4 DEF Memory
    <2>. HIDE DEF m2, h, p
    <2>5. Bound(m2) = Bound(h) /\ \A q : At(m2, q) = At(h, q)
      BY <2>4 DEF Bound, At
    <2>6. \A c \in Cells : (\A q \in Bound(m2) : At(m2, q).cell # c)
                             <=> (\A q \in Bound(m) : At(m, q).cell # c)
      BY <2>5, <1>3, <1>4, <1>6, Bounds
    <2>7. \A c : c \in FreeCells(m2) <=> c \in FreeCells(m)
      BY <2>6, FreeCellsAre
    <2>. QED
      BY <2>3, <2>5, <2>7, <1>4 DEF FreeCells
  <1>7. ASSUME p \in Bound(m)
        PROVE  /\ Sound(m2) /\ Wider(m, m2) /\ p \in Bound(m2)
    <2>1. m.vars \in SUBSET Vars /\ b \in Binding /\ (b.cell # None => b.cell \in Cells)
      BY <1>1, <1>7, MemoryIs DEF InCell
    <2>2. Assigned(m.vars, p, v) = Revalue(m.vars, p, v)
      BY <1>5, <1>7 DEF Assigned, Revalue
    <2>3. Revalue(m.vars, p, v) \in SUBSET Vars
      BY <2>1, RevalueIs
    <2>4. ASSUME m1 \in Memory, m1.vars = m.vars, Reports(m1), Bound(m1) = Bound(m),
                 Wider(m, m1),
                 \A q \in Bound(m) : At(m1, q).cell = At(m, q).cell,
                 \A q \in Bound(m) : ValueOf(m1, At(m1, q)) =
                    IF Together(m, p, q) THEN v ELSE ValueOf(m, At(m, q))
          PROVE  Sound(m2) /\ Wider(m, m2) /\ p \in Bound(m2)
      <3>. HIDE DEF m1, m2, b, p, h
      <3>1. /\ m2.tables = m1.tables /\ m2.cells = m1.cells
            /\ m2.vars = Revalue(m.vars, p, v)
            /\ m2 = [tables |-> m2.tables, cells |-> m2.cells, vars |-> m2.vars]
        <4>1. m1 = [tables |-> m1.tables, cells |-> m1.cells, vars |-> m1.vars]
          BY <2>4 DEF Memory
        <4>. QED
          BY <4>1, <2>2, <2>4, <1>2
      <3>2. m2 \in Memory
        BY <3>1, <2>3, <2>4 DEF Memory, Vars
      <3>3. /\ Bound(m2) = Bound(m) /\ Wider(m, m2)
            /\ \A q : At(m2, q) = At(m1, q)
            /\ \A c : ValueOf(m2, c) = ValueOf(m1, c)
        BY <3>1, <2>4 DEF Bound, Wider, At, ValueOf
      <3>4. \A q \in Bound(m) : At(m2, q).cell = At(m, q).cell
        BY <3>3, <2>4
      <3>5. \A q \in Bound(m) : ValueOf(m2, At(m2, q)) =
               IF Together(m, p, q) THEN v ELSE ValueOf(m, At(m, q))
        BY <3>3, <2>4
      <3>6. Agrees(m2)
        BY <3>1, <3>3, <3>4, <3>5, <1>1, <1>7, Revalued
      <3>7. Reports(m2)
        BY <3>1, <2>4 DEF Reports
      <3>. QED
        BY <3>2, <3>3, <3>6, <3>7, <1>7 DEF Sound
    <2>5. CASE b.cell = None
      <3>1. m1 = h
        BY <1>2, <2>5 DEF AssignBinding
      <3>2. Reports(h)
        BY <1>1, <1>4 DEF Reports
      <3>3. Bound(h) = Bound(m)
        BY <1>4, <1>7
      <3>. HIDE DEF h, p
      <3>4. \A q \in Bound(m) : At(h, q).cell = At(m, q).cell
        BY <1>3, <1>4, <2>5
      <3>5. \A q \in Bound(m) : ValueOf(h, At(h, q)) =
               IF Together(m, p, q) THEN v ELSE ValueOf(m, At(m, q))
        <4>1. \A q \in Bound(m) : Together(m, p, q) <=> p = q
          BY <2>5 DEF Together, InCell
        <4>2. \A c : ValueOf(h, c) = ValueOf(m, c)
          BY <1>4 DEF ValueOf
        <4>3. ValueOf(h, At(h, p)) = v
          BY <1>3, <1>4 DEF ValueOf
        <4>. QED
          BY <4>1, <4>2, <4>3, <1>4
      <3>. QED
        BY <3>1, <3>2, <3>3, <3>4, <3>5, <2>4, <1>4
    <2>6. CASE b.cell # None
      <3>1. m1 = WatchedCellAssign(m, b.cell, v)
        BY <1>2, <1>7, <2>6 DEF AssignBinding
      <3>2. /\ m1 \in Memory /\ m1.tables = m.tables /\ m1.vars = m.vars
            /\ m1.cells[b.cell].value = v
            /\ \A d \in Cells : d # b.cell => m1.cells[d] = m.cells[d]
            /\ Reports(m1)
        BY <3>1, <2>1, <2>6, <1>1, CellAssignIs
      <3>. HIDE DEF m1, p, h
      <3>3. Bound(m1) = Bound(m) /\ Wider(m, m1) /\ \A q : At(m1, q) = At(m, q)
        BY <3>2 DEF Bound, Wider, At
      <3>4. \A q \in Bound(m) : ValueOf(m1, At(m1, q)) =
               IF Together(m, p, q) THEN v ELSE ValueOf(m, At(m, q))
        <4>. SUFFICES ASSUME NEW q \in Bound(m)
                      PROVE  ValueOf(m1, At(m, q)) =
                             IF Together(m, p, q) THEN v ELSE ValueOf(m, At(m, q))
          BY <3>3
        <4>1. At(m, q).cell # None => At(m, q).cell \in Cells
          BY <1>1, MemoryIs DEF InCell
        <4>2. Together(m, p, q) <=> At(m, q).cell = b.cell
          BY <2>6 DEF Together, InCell
        <4>. QED
          BY <4>1, <4>2, <3>2, <2>6 DEF ValueOf
      <3>. QED
        BY <3>2, <3>3, <3>4, <2>4
    <2>. QED
      BY <2>5, <2>6
  <1>. QED
    BY <1>2, <1>6, <1>7

(* A place of a variable becomes a cell, and nothing shows it.             *)
LEMMA ReferenceIs ==
  ASSUME NEW m, Sound(m), NEW t \in Tables, NEW n \in DOMAIN m.tables[t],
         InCell(m, <<t, n>>) \/ FreeCells(m) # {}
  PROVE  LET m2 == Reference(m, t, n) IN
         /\ Sound(m2) /\ Bound(m2) = Bound(m) /\ InCell(m2, <<t, n>>)
         /\ \A u \in Tables : DOMAIN m2.tables[u] = DOMAIN m.tables[u]
         /\ \A q \in Bound(m) : InCell(m, q) => InCell(m2, q)
  <1>. DEFINE p == <<t, n>>
              b == At(m, p)
              c == Lowest(FreeCells(m))
              cell == [NoCell EXCEPT !.value = b.value]
              mc == [m EXCEPT !.cells[c] = cell]
              h == HashSet(mc, t, n, Boxed(c))
              m2 == Reference(m, t, n)
  <1>1. m \in Memory /\ Agrees(m) /\ Reports(m) /\ m.cells \in [Cells -> Cell]
    BY MemoryIs DEF Sound
  <1>2. n \in Keys /\ p \in Bound(m) /\ b = m.tables[t][n] /\ b \in Binding
    BY <1>1, MemoryIs DEF At
  <1>3. CASE b.cell # None
    <2>1. m2 = m /\ InCell(m, p)
      BY <1>2, <1>3 DEF Reference, InCell
    <2>. QED
      BY <2>1
  <1>4. CASE b.cell = None
    <2>1. /\ c \in Cells /\ \A q \in Bound(m) : At(m, q).cell # c
          /\ c # None
      <3>1. FreeCells(m) # {} /\ FreeCells(m) \in SUBSET Nat
        BY <1>4, Bounds DEF InCell, FreeCells, Cells
      <3>2. c \in FreeCells(m)
        BY <3>1, LowestIs
      <3>. QED
        BY <3>2, FreeCellsAre, Bounds
    <2>2. m2 = h
      BY <1>2, <1>4 DEF Reference
    <2>3. cell \in Cell /\ cell.value = b.value /\ cell.watched = FALSE
      BY <1>2, Bounds DEF NoCell, Cell, Binding
    <2>4. /\ mc.tables = m.tables /\ mc.vars = m.vars
          /\ mc.cells = [m.cells EXCEPT ![c] = cell]
          /\ mc = [tables |-> mc.tables, cells |-> mc.cells, vars |-> mc.vars]
      BY <1>1 DEF Memory
    <2>. HIDE DEF cell, mc, c
    <2>5. /\ mc.cells \in [Cells -> Cell] /\ mc.cells[c] = cell
          /\ \A d \in Cells : d # c => mc.cells[d] = m.cells[d]
      BY <1>1, <2>1, <2>3, <2>4
    <2>6. mc \in Memory
      BY <1>1, <2>4, <2>5 DEF Memory
    <2>7. /\ Boxed(c) \in Binding /\ Boxed(c).cell = c
      BY <2>1, Bounds DEF Boxed, Binding
    <2>8. /\ h \in Memory /\ h.cells = mc.cells /\ h.vars = mc.vars
          /\ \A u \in Tables :
                DOMAIN h.tables[u] = IF u = t THEN DOMAIN mc.tables[u] \cup {n}
                                     ELSE DOMAIN mc.tables[u]
          /\ Bound(h) = Bound(mc) \cup {p} /\ At(h, p) = Boxed(c)
          /\ \A q \in Bound(mc) : q # p => At(h, q) = At(mc, q)
      <3>1. n \in Keys
        BY <1>2
      <3>2. PICK bc \in Binding : bc = Boxed(c)
        BY <2>7
      <3>3. PICK m1 \in Memory : m1 = mc
        BY <2>6
      <3>4. LET m3 == HashSet(m1, t, n, bc) IN
            /\ m3 \in Memory /\ m3.cells = m1.cells /\ m3.vars = m1.vars
            /\ \A u \in Tables :
                  DOMAIN m3.tables[u] = IF u = t THEN DOMAIN m1.tables[u] \cup {n}
                                        ELSE DOMAIN m1.tables[u]
            /\ Bound(m3) = Bound(m1) \cup {<<t, n>>}
            /\ At(m3, <<t, n>>) = bc
            /\ \A q \in Bound(m1) : q # <<t, n>> => At(m3, q) = At(m1, q)
            /\ Wider(m1, m3)
        BY <3>1, HashSetIs
      <3>. QED
        BY <3>2, <3>3, <3>4
    <2>. HIDE DEF h, p
    <2>9. /\ Bound(mc) = Bound(m) /\ \A q : At(mc, q) = At(m, q)
      BY <2>4 DEF Bound, At
    <2>10. /\ Bound(h) = Bound(m) /\ At(h, p) = Boxed(c)
           /\ \A q \in Bound(m) : q # p => At(h, q) = At(m, q)
           /\ \A u \in Tables : DOMAIN h.tables[u] = DOMAIN m.tables[u]
      BY <1>2, <2>4, <2>8, <2>9
    <2>11. \A q, r \in Bound(m) : Together(h, q, r) <=> Together(m, q, r)
      <3>. SUFFICES ASSUME NEW q \in Bound(m), NEW r \in Bound(m)
                    PROVE  Together(h, q, r) <=> Together(m, q, r)
        OBVIOUS
      <3>1. At(m, q).cell # c /\ At(m, r).cell # c
        BY <2>1
      <3>2. CASE q = p
        BY <3>1, <3>2, <1>4, <2>7, <2>10 DEF Together, InCell
      <3>3. CASE q # p
        BY <3>1, <3>3, <1>4, <2>7, <2>10 DEF Together, InCell
      <3>. QED
        BY <3>2, <3>3
    <2>12. \A q \in Bound(m) : ValueOf(h, At(h, q)) = ValueOf(m, At(m, q))
      <3>. SUFFICES ASSUME NEW q \in Bound(m)
                    PROVE  ValueOf(h, At(h, q)) = ValueOf(m, At(m, q))
        OBVIOUS
      <3>1. CASE q = p
        BY <3>1, <1>4, <2>1, <2>3, <2>5, <2>7, <2>8, <2>10 DEF ValueOf
      <3>2. CASE q # p
        <4>1. At(m, q).cell # c /\ At(h, q) = At(m, q)
              /\ (At(m, q).cell # None => At(m, q).cell \in Cells)
          BY <3>2, <2>1, <2>10, <1>1, MemoryIs DEF InCell
        <4>. QED
          BY <4>1, <2>5, <2>8 DEF ValueOf
      <3>. QED
        BY <3>1, <3>2
    <2>13. Agrees(h)
      <3>1. h.vars = m.vars
        BY <2>4, <2>8
      <3>. QED
        BY <3>1, <2>10, <2>11, <2>12, <1>1 DEF Agrees
    <2>14. Reports(h)
      BY <1>1, <2>3, <2>5, <2>8 DEF Reports
    <2>15. InCell(h, p) /\ \A q \in Bound(m) : InCell(m, q) => InCell(h, q)
      BY <2>1, <2>7, <2>10 DEF InCell
    <2>. QED
      BY <2>2, <2>8, <2>10, <2>13, <2>14, <2>15 DEF Sound, p
  <1>. QED
    BY <1>3, <1>4

(* A cell is watched, its value is reported.                               *)
LEMMA WatchIs ==
  ASSUME NEW m, Sound(m), NEW c \in Cells
  PROVE  LET m2 == [m EXCEPT !.cells[c].watched = TRUE,
                             !.cells[c].reported = m.cells[c].value] IN
         Sound(m2) /\ m2.tables = m.tables
  <1>. DEFINE m2 == [m EXCEPT !.cells[c].watched = TRUE,
                              !.cells[c].reported = m.cells[c].value]
              new == [m.cells[c] EXCEPT !.watched = TRUE, !.reported = m.cells[c].value]
  <1>1. /\ m \in Memory /\ Agrees(m) /\ Reports(m) /\ m.cells \in [Cells -> Cell]
        /\ m.cells[c] \in Cell
    BY MemoryIs DEF Sound
  <1>2. new \in Cell /\ new.value = m.cells[c].value /\ new.watched /\ new.reported = new.value
    BY <1>1 DEF Cell
  <1>3. /\ m2.tables = m.tables /\ m2.vars = m.vars
        /\ m2.cells = [m.cells EXCEPT ![c] = new]
        /\ m2 = [tables |-> m2.tables, cells |-> m2.cells, vars |-> m2.vars]
    <2>1. m = [tables |-> m.tables, cells |-> m.cells, vars |-> m.vars]
      BY <1>1 DEF Memory
    <2>2. m2 = [m EXCEPT !.cells = [m.cells EXCEPT ![c] = new]]
      BY <1>1, <2>1 DEF Cell
    <2>. HIDE DEF m2, new
    <2>. QED
      BY <2>1, <2>2
  <1>. HIDE DEF m2, new
  <1>4. /\ m2.cells \in [Cells -> Cell] /\ m2.cells[c] = new
        /\ \A d \in Cells : d # c => m2.cells[d] = m.cells[d]
        /\ \A d \in Cells : m2.cells[d].value = m.cells[d].value
    BY <1>1, <1>2, <1>3
  <1>5. m2 \in Memory
    BY <1>1, <1>3, <1>4 DEF Memory
  <1>6. /\ Bound(m2) = Bound(m) /\ \A q : At(m2, q) = At(m, q)
    BY <1>3 DEF Bound, At
  <1>7. \A q \in Bound(m) : ValueOf(m2, At(m2, q)) = ValueOf(m, At(m, q))
    <2>1. \A q \in Bound(m) : At(m, q).cell # None => At(m, q).cell \in Cells
      BY <1>1, MemoryIs DEF InCell
    <2>. QED
      BY <2>1, <1>4, <1>6 DEF ValueOf
  <1>8. Agrees(m2)
    BY <1>1, <1>3, <1>6, <1>7 DEF Agrees, Together, InCell
  <1>9. Reports(m2)
    BY <1>1, <1>2, <1>4 DEF Reports
  <1>. QED
    BY <1>3, <1>5, <1>8, <1>9 DEF Sound, m2

(* The tables and cells that are not in use are freed, and what is in use  *)
(* means what it did.                                                      *)
LEMMA CollectedIs ==
  ASSUME NEW m, Sound(m), NEW live
  PROVE  /\ Sound(Collected(m, live))
         /\ \A t \in Tables : t \in live => Collected(m, live).tables[t] = m.tables[t]
  <1>. DEFINE m2 == Collected(m, live)
              gone == {p \in UNION {x.places : x \in m.vars} : p[1] \notin live}
              tabs == [t \in Tables |-> IF t \in live THEN m.tables[t] ELSE << >>]
              rest == Without(m.vars, gone)
              bare == [tables |-> tabs, cells |-> m.cells, vars |-> rest]
              cells == [c \in Cells |-> IF c \in UsedCells(bare) THEN m.cells[c] ELSE NoCell]
  <1>1. /\ m \in Memory /\ Agrees(m) /\ Reports(m)
        /\ m.tables \in [Tables -> Scope] /\ m.cells \in [Cells -> Cell]
        /\ m.vars \in SUBSET Vars
    BY MemoryIs DEF Sound
  <1>2. m = [tables |-> m.tables, cells |-> m.cells, vars |-> m.vars]
    BY <1>1 DEF Memory
  <1>3. m2 = [tables |-> tabs, cells |-> cells, vars |-> rest]
    <2>. DEFINE b0 == [m EXCEPT !.tables = tabs, !.vars = rest]
    <2>1. b0 = bare
      <3>. HIDE DEF tabs, rest
      <3>. DEFINE r1 == [m EXCEPT !.tables = tabs]
      <3>1. r1 = [tables |-> tabs, cells |-> m.cells, vars |-> m.vars]
        BY <1>2
      <3>2. b0 = [r1 EXCEPT !.vars = rest]
        OBVIOUS
      <3>. HIDE DEF r1, b0
      <3>. QED
        BY <3>1, <3>2
    <2>2. m2 = [b0 EXCEPT !.cells = [c \in Cells |-> IF c \in UsedCells(b0) THEN m.cells[c] ELSE NoCell]]
      BY <1>2, <2>1 DEF Collected
    <2>. HIDE DEF rest, tabs, b0, m2
    <2>. QED
      BY <2>1, <2>2
  <1>4. tabs \in [Tables -> Scope]
    <2>1. << >> \in Scope
      <3>1. << >> \in [{} -> Binding] /\ {} \in SUBSET Keys
        OBVIOUS
      <3>. QED
        BY <3>1 DEF Scope
    <2>. QED
      BY <2>1, <1>1
  <1>5. \A t \in Tables : tabs[t] = IF t \in live THEN m.tables[t] ELSE << >>
    OBVIOUS
  <1>6. /\ rest \in SUBSET Vars
        /\ \A x \in rest : x.places # {} /\
              \E y \in m.vars : x.places = y.places \ gone /\ x.value = y.value
        /\ \A y \in m.vars : y.places \ gone # {} =>
              \E x \in rest : x.places = y.places \ gone /\ x.value = y.value
    BY <1>1, WithoutIs
  <1>7. \A y \in m.vars : \A p \in y.places : p \in gone <=> p[1] \notin live
    OBVIOUS
  <1>8. NoCell \in Cell /\ NoCell.watched = FALSE
    BY Bounds DEF NoCell, Cell
  <1>9. cells \in [Cells -> Cell] /\ \A c \in Cells : cells[c] = NoCell \/ cells[c] = m.cells[c]
    BY <1>1, <1>8
  <1>10. \A c \in UsedCells(bare) \cap Cells : cells[c] = m.cells[c]
    OBVIOUS
  <1>11. UsedCells(bare) = UsedCells(m2)
    BY <1>3 DEF UsedCells, Bound
  <1>. HIDE DEF m2, tabs, rest, gone, cells, bare
  <1>12. m2.tables = tabs /\ m2.cells = cells /\ m2.vars = rest
    BY <1>3
  <1>13. m2 \in Memory
    BY <1>3, <1>4, <1>6, <1>9 DEF Memory, Vars
  <1>14. \A p : p \in Bound(m2) <=> p \in Bound(m) /\ p[1] \in live
    <2>1. \A p \in Places : p[1] \in Tables
      BY DEF Places
    <2>2. \A p \in Places : /\ p \in Bound(m2) <=> p[2] \in DOMAIN m2.tables[p[1]]
                            /\ p \in Bound(m) <=> p[2] \in DOMAIN m.tables[p[1]]
      BY <1>1, <1>13, MemoryIs
    <2>3. Bound(m) \subseteq Places /\ Bound(m2) \subseteq Places
      BY <1>1, <1>13, MemoryIs
    <2>4. \A t \in Tables : t \notin live => DOMAIN m2.tables[t] = {}
      BY <1>5, <1>12
    <2>5. \A t \in Tables : t \in live => DOMAIN m2.tables[t] = DOMAIN m.tables[t]
      BY <1>5, <1>12
    <2>. QED
      BY <2>1, <2>2, <2>3, <2>4, <2>5
  <1>15. \A p \in Bound(m2) : At(m2, p) = At(m, p)
    BY <1>1, <1>5, <1>12, <1>14, MemoryIs DEF At
  <1>16. \A p \in Bound(m2) : ValueOf(m2, At(m2, p)) = ValueOf(m, At(m, p))
    <2>. SUFFICES ASSUME NEW p \in Bound(m2), At(m2, p).cell # None
                  PROVE  m2.cells[At(m2, p).cell] = m.cells[At(m2, p).cell]
      BY <1>15 DEF ValueOf
    <2>1. At(m2, p).cell \in Cells
      BY <1>13, MemoryIs DEF InCell
    <2>2. At(m2, p).cell \in UsedCells(m2)
      BY DEF UsedCells, At
    <2>. QED
      BY <2>1, <2>2, <1>10, <1>11, <1>12
  <1>17. ASSUME NEW x \in rest
         PROVE  /\ x.places # {} /\ x.places \subseteq Bound(m2)
                /\ \A q \in x.places :
                     /\ x.value = ValueOf(m2, At(m2, q))
                     /\ \A r \in Bound(m2) : r \in x.places <=> Together(m2, q, r)
    <2>1. PICK y \in m.vars : x.places = y.places \ gone /\ x.value = y.value
      BY <1>6
    <2>2. x.places # {}
      BY <1>6
    <2>3. ASSUME NEW q \in x.places
          PROVE  /\ q \in Bound(m2) /\ x.value = ValueOf(m2, At(m2, q))
                 /\ \A r \in Bound(m2) : r \in x.places <=> Together(m2, q, r)
      <3>1. q \in y.places /\ q[1] \in live
        BY <2>1, <1>7
      <3>2. /\ q \in Bound(m) /\ y.value = ValueOf(m, At(m, q))
            /\ \A r : r \in y.places <=> r \in Bound(m) /\ Together(m, q, r)
        BY <3>1, <1>1, AgreesAt
      <3>3. q \in Bound(m2)
        BY <3>1, <3>2, <1>14
      <3>4. \A r \in Bound(m2) : Together(m2, q, r) <=> Together(m, q, r)
        BY <3>3, <1>15 DEF Together, InCell
      <3>5. \A r \in Bound(m2) : r \in x.places <=> r \in y.places
        BY <2>1, <1>7, <1>14
      <3>. QED
        BY <2>1, <3>2, <3>3, <3>4, <3>5, <1>14, <1>16
    <2>. QED
      BY <2>2, <2>3
  <1>18. \A q \in Bound(m2) : \E x \in rest : q \in x.places
    <2>. SUFFICES ASSUME NEW q \in Bound(m2)
                  PROVE  \E x \in rest : q \in x.places
      OBVIOUS
    <2>1. PICK y \in m.vars : q \in y.places
      BY <1>1, <1>14 DEF Agrees
    <2>2. q \in y.places \ gone
      BY <2>1, <1>7, <1>14
    <2>. QED
      BY <2>2, <1>6
  <1>19. Agrees(m2)
    BY <1>12, <1>17, <1>18 DEF Agrees
  <1>20. Reports(m2)
    BY <1>1, <1>8, <1>9, <1>12 DEF Reports
  <1>21. \A t \in Tables : t \in live => m2.tables[t] = m.tables[t]
    BY <1>5, <1>12
  <1>. QED
    BY <1>13, <1>19, <1>20, <1>21 DEF Sound, m2

(* Agreement is what SharedAsAsked says.                                   *)
LEMMA SharedWhenAgrees ==
  ASSUME Sound(mem)
  PROVE  SharedAsAsked
  <1>. DEFINE class(p) == {p} \cup {q \in Bound(mem) : /\ BindingAt(p).cell # None
                                                     /\ BindingAt(q).cell = BindingAt(p).cell}
              at(p) == Variable(class(p), ValueOf(mem, BindingAt(p)))
  <1>1. mem \in Memory /\ Agrees(mem) /\ mem.vars \in SUBSET Vars
    BY MemoryIs DEF Sound
  <1>2. \A p : BindingAt(p) = At(mem, p)
    BY DEF BindingAt, At
  <1>3. ASSUME NEW x \in mem.vars, NEW p \in x.places
        PROVE  p \in Bound(mem) /\ x = at(p)
    <2>1. /\ p \in Bound(mem) /\ x.value = ValueOf(mem, At(mem, p))
          /\ \A q : q \in x.places <=> q \in Bound(mem) /\ Together(mem, p, q)
      BY <1>1, AgreesAt
    <2>2. x.places = class(p)
      BY <1>2, <2>1 DEF Together, InCell
    <2>3. x = [places |-> x.places, value |-> x.value]
      BY <1>1 DEF Vars
    <2>. QED
      BY <1>2, <2>1, <2>2, <2>3 DEF Variable
  <1>. HIDE DEF at
  <1>4. \A x \in mem.vars : \E p \in Bound(mem) : x = at(p)
    <2>1. \A x \in mem.vars : \E p : p \in x.places
      BY <1>1 DEF Agrees
    <2>. QED
      BY <2>1, <1>3
  <1>5. \A p \in Bound(mem) : at(p) \in mem.vars
    <2>1. \A p \in Bound(mem) : \E x \in mem.vars : p \in x.places
      BY <1>1 DEF Agrees
    <2>. QED
      BY <2>1, <1>3
  <1>6. mem.vars = {at(p) : p \in Bound(mem)}
    BY <1>4, <1>5
  <1>. QED
    BY <1>6 DEF SharedAsAsked, at

(***************************************************************************)
(* From an action to the next state.                                       *)
(***************************************************************************)

(* What an action has to have built when it ends.                          *)
Fit(m, ar, fr, sc, su) ==
  /\ fr \in Seq(Activations) /\ su \in [Closures -> Seq(Activations)]
  /\ LaidOut(ar, AllFrames(fr, su), sc)
  /\ IsFiniteSet(AllFrames(fr, su))
  /\ Sound(m) /\ HaveSlots(m, AllFrames(fr, su))

Becomes == \E m, ar, fr, sc, su : Fit(m, ar, fr, sc, su) /\ Become(m, ar, fr, sc, su)

LEMMA BecomesInv ==
  ASSUME Becomes, Cardinality(AllFrames(frames, suspended)') <= MaxFrames
  PROVE  Inv'
  <1>1. PICK m, ar, fr, sc, su : Fit(m, ar, fr, sc, su) /\ Become(m, ar, fr, sc, su)
    BY DEF Becomes
  <1>. DEFINE L == AllFrames(fr, su)
              live == TablesInUse(ar, fr, sc, su)
              pruned == [a \in DOMAIN ar |-> IF \E f \in L : f.locals = a THEN ar[a] ELSE << >>]
  <1>2. /\ mem' = Collected(m, live) /\ arrays' = pruned
        /\ frames' = fr /\ scopes' = sc /\ suspended' = su
    BY <1>1 DEF Become
  <1>3. /\ fr \in Seq(Activations) /\ su \in [Closures -> Seq(Activations)]
        /\ LaidOut(ar, L, sc) /\ IsFiniteSet(L) /\ Sound(m) /\ HaveSlots(m, L)
    BY <1>1 DEF Fit
  <1>4. Live' = L /\ Cardinality(L) <= MaxFrames
    BY <1>2 DEF Live
  <1>5. ar \in [Arrays -> Seq(Tables)] /\ L \subseteq Activations
    BY <1>3 DEF LaidOut
  <1>6. /\ pruned \in [Arrays -> Seq(Tables)]
        /\ \A a \in Arrays : pruned[a] = IF \E f \in L : f.locals = a THEN ar[a] ELSE << >>
    BY <1>5, EmptySeq
  <1>. HIDE DEF L, pruned, live
  <1>7. \A a \in Arrays : pruned[a] # << >> => \E f \in L : f.locals = a
    BY <1>6
  <1>8. LaidOut(pruned, L, sc)
    <2>1. Served(pruned, L)
      BY <1>3, <1>5, <1>6 DEF LaidOut, Served, Activations
    <2>2. \A a \in Arrays : \A i \in DOMAIN pruned[a] :
             i \in DOMAIN ar[a] /\ pruned[a][i] = ar[a][i]
      BY <1>6
    <2>3. Once(pruned)
      BY <1>3, <2>2 DEF LaidOut, Once
    <2>4. LocalOnly(pruned, L, sc)
      BY <1>3, <2>2 DEF LaidOut, LocalOnly, InArrays
    <2>. QED
      BY <1>3, <1>6, <2>1, <2>3, <2>4 DEF LaidOut
  <1>9. Shaped'
    BY <1>2, <1>3, <1>4, <1>7, <1>8 DEF Shaped, Kept, Bounded
  <1>10. Sound(Collected(m, live))
         /\ \A t \in Tables : t \in live => Collected(m, live).tables[t] = m.tables[t]
    BY <1>3, CollectedIs
  <1>11. HaveSlots(Collected(m, live), L)
    <2>1. \A f \in L : f.slots \in live /\ f.slots \in Tables
      BY <1>5 DEF live, L, TablesInUse, Activations
    <2>. QED
      BY <1>3, <1>10, <2>1 DEF HaveSlots
  <1>12. Sound(mem)' /\ HaveSlots(mem, Live)'
    BY <1>2, <1>4, <1>10, <1>11
  <1>. QED
    BY <1>9, <1>12 DEF Inv

(* The activation that runs, and the scopes it sees.                       *)
LEMMA FrameIs ==
  ASSUME Inv, Running
  PROVE  /\ frames \in Seq(Activations) /\ Len(frames) \in Nat /\ Len(frames) >= 1
         /\ Frame \in Live /\ Frame \in Activations
         /\ Frame.locals \in Arrays /\ Frame.scope \in Tables /\ Frame.slots \in Tables
  <1>1. frames \in Seq(Activations) /\ suspended \in [Closures -> Seq(Activations)]
    BY DEF Inv, Shaped
  <1>2. Len(frames) \in Nat /\ Len(frames) >= 1 /\ Len(frames) \in 1..Len(frames)
    BY <1>1, EmptySeq, LenProperties DEF Running
  <1>3. Frame \in Live /\ Live \subseteq Activations
    BY <1>1, <1>2, LiveAre DEF Frame, Live
  <1>. QED
    BY <1>1, <1>2, <1>3 DEF Activations

LEMMA LocalScopeIs ==
  ASSUME NEW ar, NEW L, NEW sc, LaidOut(ar, L, sc), NEW f \in L
  PROVE  LocalScope(ar, f) \in Tables
  <1>1. ar[f.locals] \in Seq(Tables) /\ ar[f.locals] # << >>
    BY DEF LaidOut, Served, Activations
  <1>2. Len(ar[f.locals]) \in 1..Len(ar[f.locals])
    BY <1>1, EmptySeq, LenProperties
  <1>. QED
    BY <1>1, <1>2, ElementOfSeq DEF LocalScope

LEMMA LevelsAre ==
  ASSUME Inv
  PROVE  /\ DOMAIN Levels \in SUBSET Nat
         /\ \A i \in DOMAIN Levels : Levels[i] \in Tables
         /\ \E i \in DOMAIN Levels : Levels[i] = Globals
         /\ Running => Levels[1] \in Tables /\ Levels[2] \in Tables
  <1>1. CASE frames = << >>
    BY <1>1, Bounds DEF Levels, Running
  <1>2. CASE frames # << >>
    <2>1. LocalScope(arrays, Frame) \in Tables /\ Frame.scope \in Tables
      BY <1>2, FrameIs, LocalScopeIs DEF Running, Inv, Shaped
    <2>2. Levels = <<LocalScope(arrays, Frame), Frame.scope, Globals>>
      BY <1>2 DEF Levels
    <2>. QED
      BY <2>1, <2>2, Bounds
  <1>. QED
    BY <1>1, <1>2

LEMMA LevelIs ==
  ASSUME Inv, NEW m, NEW n
  PROVE  /\ Level(m, n) \in Tables
         /\ n \in DOMAIN m.tables[Globals] => n \in DOMAIN m.tables[Level(m, n)]
         /\ n \notin DOMAIN m.tables[Level(m, n)] => Level(m, n) = Globals
  <1>. DEFINE I == {i \in DOMAIN Levels : n \in DOMAIN m.tables[Levels[i]]}
  <1>1. CASE I = {}
    <2>1. Level(m, n) = Globals
      BY <1>1 DEF Level
    <2>2. n \notin DOMAIN m.tables[Globals]
      BY <1>1, LevelsAre
    <2>. QED
      BY <2>1, <2>2, Bounds
  <1>2. CASE I # {}
    <2>1. Level(m, n) = Levels[Lowest(I)]
      BY <1>2 DEF Level
    <2>2. I \in SUBSET Nat
      BY LevelsAre
    <2>. HIDE DEF I
    <2>3. Lowest(I) \in I
      BY <1>2, <2>2, LowestIs
    <2>4. Lowest(I) \in DOMAIN Levels /\ n \in DOMAIN m.tables[Levels[Lowest(I)]]
      BY <2>3 DEF I
    <2>. QED
      BY <2>1, <2>4, LevelsAre
  <1>. QED
    BY <1>1, <1>2

(* Where a name is found depends on which names there are.                 *)
LEMMA LevelSame ==
  ASSUME Inv, NEW m, NEW m2, NEW n,
         \A t \in Tables : DOMAIN m2.tables[t] = DOMAIN m.tables[t]
  PROVE  Level(m2, n) = Level(m, n)
  <1>1. \A i \in DOMAIN Levels : DOMAIN m2.tables[Levels[i]] = DOMAIN m.tables[Levels[i]]
    BY LevelsAre
  <1>2. {i \in DOMAIN Levels : n \in DOMAIN m2.tables[Levels[i]]}
          = {i \in DOMAIN Levels : n \in DOMAIN m.tables[Levels[i]]}
    BY <1>1
  <1>3. (\E i \in DOMAIN Levels : n \in DOMAIN m2.tables[Levels[i]])
          <=> (\E i \in DOMAIN Levels : n \in DOMAIN m.tables[Levels[i]])
    BY <1>1
  <1>. QED
    BY <1>2, <1>3 DEF Level

(* A variable that is used before it is known.                             *)
LEMMA ImplicitIs ==
  ASSUME Inv, NEW n \in Names
  PROVE  LET m2 == Implicit(mem, n) IN
         /\ Sound(m2) /\ Wider(mem, m2) /\ n \in DOMAIN m2.tables[Level(m2, n)]
         /\ <<Level(mem, n), n>> \in Bound(mem) => m2 = mem
         /\ <<Level(mem, n), n>> \notin Bound(mem) => FreeCells(m2) = FreeCells(mem)
  <1>1. Sound(mem) /\ mem \in Memory /\ n \in Keys /\ Level(mem, n) \in Tables
    BY LevelIs DEF Inv, Sound, Keys
  <1>2. <<Level(mem, n), n>> \in Bound(mem) <=> n \in DOMAIN mem.tables[Level(mem, n)]
    BY <1>1, MemoryIs
  <1>3. CASE n \in DOMAIN mem.tables[Level(mem, n)]
    <2>1. Implicit(mem, n) = mem
      BY <1>3 DEF Implicit
    <2>. QED
      BY <1>1, <1>2, <1>3, <2>1 DEF Wider
  <1>4. CASE n \notin DOMAIN mem.tables[Level(mem, n)]
    <2>. DEFINE m2 == Assign(mem, Globals, n, Null)
    <2>1. Implicit(mem, n) = m2
      BY <1>4 DEF Implicit
    <2>2. Level(mem, n) = Globals
      BY <1>4, LevelIs
    <2>3. /\ Sound(m2) /\ Wider(mem, m2) /\ <<Globals, n>> \in Bound(m2)
          /\ FreeCells(m2) = FreeCells(mem)
      BY <1>1, <1>4, <2>2, Bounds, AssignIs
    <2>. HIDE DEF m2
    <2>4. n \in DOMAIN m2.tables[Globals]
      BY <2>3, <1>1, Bounds, MemoryIs DEF Sound
    <2>5. n \in DOMAIN m2.tables[Level(m2, n)]
      BY <2>4, LevelIs
    <2>. QED
      BY <2>1, <2>3, <2>5, <1>2, <1>4
  <1>. QED
    BY <1>3, <1>4

(* Memories only get wider.                                                *)
LEMMA WiderTwice ==
  ASSUME NEW m1, NEW m2, NEW m3, Wider(m1, m2), Wider(m2, m3)
  PROVE  Wider(m1, m3)
  BY DEF Wider

(* There is a cell for name n, or it needs none.                           *)
HasCell(n) ==
  \/ PlaceOf(mem, n) \in Bound(mem) /\ InCell(mem, PlaceOf(mem, n))
  \/ FreeCells(mem) # {}

LEMMA CellsForOne ==
  ASSUME NEW ns, CellsFor(ns), NEW n, ns \ {ByValue} = {n}
  PROVE  HasCell(n)
  <1>. DEFINE needs(x) == LET p == PlaceOf(mem, x) IN
                  ~(p \in Bound(mem) /\ mem.tables[p[1]][p[2]].cell # None)
              S == {x \in ns \ {ByValue} : needs(x)}
  <1>. SUFFICES ASSUME needs(n)
                PROVE  FreeCells(mem) # {}
    BY DEF HasCell, InCell, At
  <1>1. S = {n}
    <2>. HIDE DEF needs
    <2>. QED
      OBVIOUS
  <1>2. Cardinality(FreeCells(mem)) >= Cardinality(S)
    BY DEF CellsFor
  <1>. HIDE DEF S
  <1>3. Cardinality({n}) = 1 /\ Cardinality({}) = 0
    BY FS_Singleton, FS_EmptySet
  <1>. QED
    BY <1>1, <1>2, <1>3

(* A reference to a variable or to an argument.                            *)
LEMMA ScopedReferenceIs ==
  ASSUME Inv, Running, NEW n \in Keys, HasCell(n)
  PROVE  LET m2 == ScopedReference(mem, n)
             p == PlaceOf(m2, n)
         IN  /\ Sound(m2) /\ Wider(mem, m2)
             /\ p \in Bound(m2) /\ InCell(m2, p) /\ p[2] = n
  <1>1. Sound(mem) /\ mem \in Memory /\ Frame \in Live /\ Frame.slots \in Tables
        /\ Arg \in Keys /\ Arg \notin Names
    BY FrameIs, Bounds DEF Inv, Sound, Keys
  <1>2. CASE n = Arg
    <2>. DEFINE t == Frame.slots
                m2 == Reference(mem, t, Arg)
    <2>1. ScopedReference(mem, n) = m2
      BY <1>2 DEF ScopedReference, SlotReference
    <2>2. \A m : PlaceOf(m, n) = <<t, Arg>>
      BY <1>2 DEF PlaceOf
    <2>3. Arg \in DOMAIN mem.tables[t]
      BY <1>1 DEF Inv, HaveSlots
    <2>4. <<t, Arg>> \in Bound(mem)
      BY <2>3, <1>1, MemoryIs
    <2>5. InCell(mem, <<t, Arg>>) \/ FreeCells(mem) # {}
      BY <2>2 DEF HasCell
    <2>6. /\ Sound(m2) /\ Bound(m2) = Bound(mem) /\ InCell(m2, <<t, Arg>>)
          /\ \A u \in Tables : DOMAIN m2.tables[u] = DOMAIN mem.tables[u]
      BY <1>1, <2>3, <2>5, ReferenceIs
    <2>. QED
      BY <2>1, <2>2, <2>4, <2>6, <1>2 DEF Wider
  <1>3. CASE n # Arg
    <2>. DEFINE i == Implicit(mem, n)
                t == Level(i, n)
                m2 == Reference(i, t, n)
    <2>1. n \in Names
      BY <1>3 DEF Keys
    <2>2. /\ Sound(i) /\ Wider(mem, i) /\ n \in DOMAIN i.tables[t]
          /\ <<Level(mem, n), n>> \in Bound(mem) => i = mem
          /\ <<Level(mem, n), n>> \notin Bound(mem) => FreeCells(i) = FreeCells(mem)
      BY <2>1, ImplicitIs
    <2>3. ScopedReference(mem, n) = m2
      BY <1>3 DEF ScopedReference
    <2>4. t \in Tables /\ \A m : PlaceOf(m, n) = <<Level(m, n), n>>
      BY <1>3, LevelIs DEF PlaceOf
    <2>. HIDE DEF i
    <2>5. InCell(i, <<t, n>>) \/ FreeCells(i) # {}
      BY <2>2, <2>4 DEF HasCell
    <2>. HIDE DEF t
    <2>6. /\ Sound(m2) /\ Bound(m2) = Bound(i) /\ InCell(m2, <<t, n>>)
          /\ \A u \in Tables : DOMAIN m2.tables[u] = DOMAIN i.tables[u]
      BY <2>2, <2>4, <2>5, ReferenceIs
    <2>7. <<t, n>> \in Bound(i)
      BY <2>2, <2>4, MemoryIs DEF Sound
    <2>. HIDE DEF m2
    <2>8. Level(m2, n) = t
      BY <2>6, LevelSame DEF t
    <2>9. Wider(mem, m2)
      BY <2>2, <2>6 DEF Wider
    <2>10. PlaceOf(m2, n) = <<t, n>>
      BY <2>4, <2>8
    <2>. QED
      BY <2>3, <2>6, <2>7, <2>9, <2>10
  <1>. QED
    BY <1>2, <1>3

(* What a place can be bound to: a value, or the cell of a variable.       *)
Bindable(m, b, o) ==
  \/ o = Nowhere /\ \E v \in Values : b = Plain(v)
  \/ o \in Bound(m) /\ InCell(m, o) /\ b = At(m, o)

LEMMA BindIs ==
  ASSUME NEW m, Sound(m), NEW t \in Tables, NEW n \in Keys, NEW b, NEW o, Bindable(m, b, o)
  PROVE  LET m2 == Bind(m, t, n, b, o) IN
         /\ Sound(m2) /\ Wider(m, m2) /\ n \in DOMAIN m2.tables[t]
         /\ \A c, r : Bindable(m, c, r) /\ r # <<t, n>> => Bindable(m2, c, r)
  <1>. DEFINE m2 == Bind(m, t, n, b, o)
              h == HashSet(m, t, n, b)
  <1>1. m \in Memory /\ Nowhere \notin Bound(m)
    <2>1. m \in Memory
      BY DEF Sound
    <2>2. Nowhere[1] \notin Tables
      BY Bounds DEF Nowhere
    <2>. QED
      BY <2>1, <2>2, MemoryIs
  <1>2. Sound(m2) /\ Wider(m, m2) /\ b \in Binding
    <2>1. CASE o = Nowhere
      <3>1. PICK v \in Values : b = Plain(v)
        BY <1>1, <2>1 DEF Bindable
      <3>2. b.value = v /\ b \in Binding
        BY <3>1 DEF Plain, Binding
      <3>3. m2 = [HashSet(m, t, n, Plain(v)) EXCEPT !.vars = Fresh(@, <<t, n>>, v)]
        BY <2>1, <3>1, <3>2 DEF Bind
      <3>. QED
        BY <3>2, <3>3, BindFresh
    <2>2. CASE o # Nowhere
      <3>1. o \in Bound(m) /\ InCell(m, o) /\ b = At(m, o)
        BY <2>2 DEF Bindable
      <3>2. m2 = [HashSet(m, t, n, At(m, o)) EXCEPT !.vars = Joined(@, <<t, n>>, o)]
        BY <2>2, <3>1 DEF Bind
      <3>3. b \in Binding
        BY <3>1, <1>1, MemoryIs
      <3>. QED
        BY <3>1, <3>2, <3>3, BindJoined
    <2>. QED
      BY <2>1, <2>2
  <1>3. /\ h \in Memory /\ Bound(h) = Bound(m) \cup {<<t, n>>}
        /\ \A p \in Bound(m) : p # <<t, n>> => At(h, p) = At(m, p)
        /\ \A u \in Tables :
              DOMAIN h.tables[u] = IF u = t THEN DOMAIN m.tables[u] \cup {n}
                                   ELSE DOMAIN m.tables[u]
    <2>1. PICK c \in Binding : c = b
      BY <1>2
    <2>2. LET m3 == HashSet(m, t, n, c) IN
          /\ m3 \in Memory /\ m3.cells = m.cells /\ m3.vars = m.vars
          /\ \A u \in Tables :
                DOMAIN m3.tables[u] = IF u = t THEN DOMAIN m.tables[u] \cup {n}
                                      ELSE DOMAIN m.tables[u]
          /\ Bound(m3) = Bound(m) \cup {<<t, n>>}
          /\ At(m3, <<t, n>>) = c
          /\ \A q \in Bound(m) : q # <<t, n>> => At(m3, q) = At(m, q)
          /\ Wider(m, m3)
      BY <1>1, HashSetIs
    <2>. QED
      BY <2>1, <2>2
  <1>4. m2.tables = h.tables
    <2>. DEFINE vs == IF o = Nowhere THEN Fresh(h.vars, <<t, n>>, b.value)
                      ELSE Joined(h.vars, <<t, n>>, o)
    <2>1. m2 = [h EXCEPT !.vars = vs]
      BY DEF Bind
    <2>. HIDE DEF m2, h, vs
    <2>. QED
      BY <2>1, <1>3 DEF Memory
  <1>. HIDE DEF m2, h
  <1>5. n \in DOMAIN m2.tables[t]
    BY <1>3, <1>4
  <1>6. /\ Bound(m2) = Bound(m) \cup {<<t, n>>}
        /\ \A p \in Bound(m) : p # <<t, n>> => At(m2, p) = At(m, p)
    BY <1>3, <1>4 DEF Bound, At
  <1>7. \A c, r : Bindable(m, c, r) /\ r # <<t, n>> => Bindable(m2, c, r)
    BY <1>6 DEF Bindable, InCell
  <1>. QED
    BY <1>2, <1>5, <1>7 DEF m2

(* What is passed can be bound.                                            *)
LEMMA GivenIs ==
  ASSUME Inv, NEW g \in Givens, NEW ns, CellsFor(ns), ns \ {ByValue} \subseteq {g.name},
         g.name \in ns
  PROVE  LET m2 == Referenced(mem, g) IN
         /\ Sound(m2) /\ Wider(mem, m2) /\ Bindable(m2, Passed(m2, g), Origin(m2, g))
         /\ Origin(m2, g) = Nowhere \/ Origin(m2, g)[2] = g.name
  <1>1. CASE g.name = ByValue
    <2>1. g.value \in Values
      BY <1>1, Bounds DEF Givens
    <2>2. Referenced(mem, g) = mem
      BY <1>1 DEF Referenced
    <2>3. \A m : Passed(m, g) = Plain(g.value) /\ Origin(m, g) = Nowhere
      BY <1>1 DEF Passed, Origin
    <2>. QED
      BY <2>1, <2>2, <2>3 DEF Bindable, Inv, Wider
  <1>2. CASE g.name # ByValue
    <2>1. Running /\ g.name \in Keys
      BY <1>2 DEF Givens, Running, Keys
    <2>2. HasCell(g.name)
      <3>1. ns \ {ByValue} = {g.name}
        BY <1>2
      <3>. QED
        BY <3>1, CellsForOne
    <2>. DEFINE n == g.name
                m2 == ScopedReference(mem, n)
                p == PlaceOf(m2, n)
    <2>3. /\ Sound(m2) /\ Wider(mem, m2)
          /\ p \in Bound(m2) /\ InCell(m2, p) /\ p[2] = n
      <3>1. PICK k \in Keys : k = n
        BY <2>1
      <3>. QED
        BY <3>1, <2>1, <2>2, ScopedReferenceIs
    <2>4. Referenced(mem, g) = m2
      BY <1>2 DEF Referenced
    <2>5. Passed(m2, g) = At(m2, p) /\ Origin(m2, g) = p
      BY <1>2 DEF Passed, Origin, At
    <2>. QED
      BY <2>3, <2>4, <2>5 DEF Bindable
  <1>. QED
    BY <1>1, <1>2

(* The argument with a key, if there is one.                               *)
LEMMA PairIs ==
  ASSUME NEW K, NEW ps \in Pairs(K)
  PROVE  /\ ps # << >> /\ DOMAIN ps = {1} /\ ps[1].key \in K
         /\ ps[1].given \in Givens /\ ps[1].given.name # Arg
         /\ NamesIn(ps) = {ps[1].given.name}
  <1>1. PICK k \in K, g \in {h \in Givens : h.name # Arg} :
           ps = <<[key |-> k, given |-> g]>>
    BY DEF Pairs
  <1>2. /\ ps # << >> /\ DOMAIN ps = {1} /\ ps[1] = [key |-> k, given |-> g]
    BY <1>1
  <1>3. NamesIn(ps) = {ps[1].given.name}
    BY <1>2 DEF NamesIn
  <1>. QED
    BY <1>2, <1>3

(* The pairs ps can be bound, also after a slot has been.                  *)
Ready(m, ps, bs, os) ==
  ps # << >> => Bindable(m, bs[1], os[1]) /\ \A t \in Tables : os[1] # <<t, Arg>>

LEMMA PairsReady ==
  ASSUME Inv, NEW K, NEW ps \in Pairs(K) \cup {NoPair},
         NEW ns, CellsFor(ns), NamesIn(ps) \subseteq ns, ns \ {ByValue} \subseteq NamesIn(ps)
  PROVE  LET m2 == RefPairs(mem, ps) IN
         /\ Sound(m2) /\ Wider(mem, m2) /\ Ready(m2, ps, Bindings(m2, ps), Origins(m2, ps))
  <1>1. CASE ps = << >>
    <2>1. RefPairs(mem, ps) = mem
      BY <1>1 DEF RefPairs
    <2>. QED
      BY <1>1, <2>1 DEF Ready, Inv, Wider
  <1>2. CASE ps # << >>
    <2>. DEFINE g == ps[1].given
                m2 == Referenced(mem, g)
    <2>1. ps \in Pairs(K)
      BY <1>2 DEF NoPair
    <2>2. /\ DOMAIN ps = {1} /\ g \in Givens /\ g.name # Arg
          /\ NamesIn(ps) = {g.name}
      BY <2>1, PairIs
    <2>3. g.name \in ns /\ ns \ {ByValue} \subseteq {g.name}
      BY <2>2
    <2>4. RefPairs(mem, ps) = m2
      BY <1>2 DEF RefPairs
    <2>5. \A m : Bindings(m, ps)[1] = Passed(m, g) /\ Origins(m, ps)[1] = Origin(m, g)
      BY <2>2 DEF Bindings, Origins
    <2>. HIDE DEF g
    <2>6. /\ Sound(m2) /\ Wider(mem, m2) /\ Bindable(m2, Passed(m2, g), Origin(m2, g))
          /\ Origin(m2, g) = Nowhere \/ Origin(m2, g)[2] = g.name
      BY <2>2, <2>3, GivenIs
    <2>. HIDE DEF m2
    <2>7. \A t \in Tables : Origin(m2, g) # <<t, Arg>>
      <3>1. \A t : <<t, Arg>>[1] = t /\ <<t, Arg>>[2] = Arg
        OBVIOUS
      <3>2. Nowhere[1] \notin Tables
        BY Bounds DEF Nowhere
      <3>. QED
        BY <2>2, <2>6, <3>1, <3>2
    <2>8. Ready(m2, ps, Bindings(m2, ps), Origins(m2, ps))
      BY <2>5, <2>6, <2>7 DEF Ready
    <2>. QED
      BY <2>4, <2>6, <2>8
  <1>. QED
    BY <1>1, <1>2

LEMMA BindPairsIs ==
  ASSUME NEW m, Sound(m), NEW t \in Tables, NEW ps, NEW bs, NEW os,
         Ready(m, ps, bs, os), ps # << >> => ps[1].key \in Keys
  PROVE  Sound(BindPairs(m, t, ps, bs, os)) /\ Wider(m, BindPairs(m, t, ps, bs, os))
  <1>1. CASE ps = << >>
    BY <1>1 DEF BindPairs, Wider
  <1>2. CASE ps # << >>
    <2>1. PICK n \in Keys : n = ps[1].key
      BY <1>2
    <2>2. PICK b, o : b = bs[1] /\ o = os[1] /\ Bindable(m, b, o)
      BY <1>2 DEF Ready
    <2>3. BindPairs(m, t, ps, bs, os) = Bind(m, t, n, b, o)
      BY <1>2, <2>1, <2>2 DEF BindPairs
    <2>4. Sound(Bind(m, t, n, b, o)) /\ Wider(m, Bind(m, t, n, b, o))
      BY <2>2, BindIs
    <2>. QED
      BY <2>3, <2>4
  <1>. QED
    BY <1>1, <1>2

(* The state itself is fit.                                                *)
LEMMA InvFit ==
  ASSUME Inv
  PROVE  /\ frames \in Seq(Activations) /\ suspended \in [Closures -> Seq(Activations)]
         /\ LaidOut(arrays, Live, scopes) /\ IsFiniteSet(Live)
         /\ Live \subseteq Activations
         /\ Sound(mem) /\ HaveSlots(mem, Live)
  BY DEF Inv, Shaped, Bounded, LaidOut

(* An action that starts no activation.                                    *)
LEMMA StepsFewer ==
  ASSUME Inv, NEW m, NEW ar, NEW fr \in Seq(Activations), NEW sc,
         NEW su \in [Closures -> Seq(Activations)],
         AllFrames(fr, su) \subseteq Live, LaidOut(ar, Live, sc),
         Sound(m), Wider(mem, m), Become(m, ar, fr, sc, su)
  PROVE  Becomes
  <1>1. LaidOut(ar, AllFrames(fr, su), sc)
    BY Fewer
  <1>2. IsFiniteSet(AllFrames(fr, su))
    BY InvFit, FS_Subset
  <1>3. HaveSlots(m, AllFrames(fr, su))
    BY InvFit DEF HaveSlots, Wider, Activations
  <1>. QED
    BY <1>1, <1>2, <1>3 DEF Becomes, Fit

(* An action that starts activation f.                                     *)
LEMMA StepsNew ==
  ASSUME Inv, NEW m, NEW ar, NEW fr \in Seq(Activations), NEW sc,
         NEW su \in [Closures -> Seq(Activations)], NEW f \in Activations,
         AllFrames(fr, su) \subseteq Live \cup {f}, LaidOut(ar, Live \cup {f}, sc),
         Arg \in DOMAIN m.tables[f.slots],
         Sound(m), Wider(mem, m), Become(m, ar, fr, sc, su)
  PROVE  Becomes
  <1>1. LaidOut(ar, AllFrames(fr, su), sc)
    BY Fewer
  <1>2. IsFiniteSet(AllFrames(fr, su))
    BY InvFit, FS_Subset, FS_AddElement
  <1>3. HaveSlots(m, AllFrames(fr, su))
    BY InvFit DEF HaveSlots, Wider, Activations
  <1>. QED
    BY <1>1, <1>2, <1>3 DEF Becomes, Fit

LEMMA SetSteps ==
  ASSUME Inv, NEW m, Sound(m), Wider(mem, m), Set(m)
  PROVE  Becomes
  <1>1. Become(m, arrays, frames, scopes, suspended)
    BY DEF Set
  <1>. QED
    BY <1>1, InvFit, StepsFewer DEF Live

(***************************************************************************)
(* The actions on variables.                                               *)
(***************************************************************************)
LEMMA LoadStep ==
  ASSUME Inv, NEW n \in Names, Load(n)
  PROVE  Becomes
  BY ImplicitIs, SetSteps DEF Load

LEMMA StoreStep ==
  ASSUME Inv, NEW n \in Names, NEW v \in Values, Store(n, v)
  PROVE  Becomes
  <1>1. Sound(mem) /\ Level(mem, n) \in Tables /\ n \in Keys
    BY LevelIs DEF Inv, Keys
  <1>2. Sound(Assign(mem, Level(mem, n), n, v)) /\ Wider(mem, Assign(mem, Level(mem, n), n, v))
    BY <1>1, AssignIs
  <1>. QED
    BY <1>2, SetSteps DEF Store

LEMMA StoreSlotStep ==
  ASSUME Inv, NEW v \in Values, StoreSlot(v)
  PROVE  Becomes
  <1>1. Sound(mem) /\ Frame.slots \in Tables /\ Arg \in Keys
    BY FrameIs DEF Inv, Keys, StoreSlot
  <1>2. Sound(Assign(mem, Frame.slots, Arg, v)) /\ Wider(mem, Assign(mem, Frame.slots, Arg, v))
    BY <1>1, AssignIs
  <1>3. Set(Assign(mem, Frame.slots, Arg, v))
    BY DEF StoreSlot, Assign, SlotAssign
  <1>. QED
    BY <1>2, <1>3, SetSteps

LEMMA AssignReferenceStep ==
  ASSUME Inv, NEW n \in Keys, NEW v \in Values, AssignReference(n, v)
  PROVE  Becomes
  <1>. DEFINE m == ScopedReference(mem, n)
              p == PlaceOf(m, n)
  <1>1. /\ Running /\ CellsFor({n})
        /\ Set([WatchedCellAssign(m, m.tables[p[1]][p[2]].cell, v) EXCEPT
                   !.vars = Assigned(@, p, v)])
    BY DEF AssignReference
  <1>2. {n} \ {ByValue} = {n}
    <2>1. n # ByValue
      BY Bounds DEF Keys, Arg, ByValue
    <2>. QED
      BY <2>1
  <1>3. HasCell(n)
    BY <1>1, <1>2, CellsForOne
  <1>4. /\ Sound(m) /\ Wider(mem, m) /\ p \in Bound(m) /\ InCell(m, p)
    BY <1>1, <1>3, ScopedReferenceIs
  <1>. HIDE DEF m, p
  <1>5. /\ m \in Memory /\ p[1] \in Tables /\ p[2] \in Keys /\ p = <<p[1], p[2]>>
        /\ p[2] \in DOMAIN m.tables[p[1]]
    <2>1. m \in Memory
      BY <1>4 DEF Sound
    <2>. QED
      BY <2>1, <1>4, MemoryIs
  <1>6. PICK t \in Tables, k \in Keys : p = <<t, k>> /\ k \in DOMAIN m.tables[t]
    BY <1>5
  <1>7. AssignBinding(m, t, k, v) = WatchedCellAssign(m, m.tables[t][k].cell, v)
    BY <1>4, <1>6 DEF AssignBinding, InCell, At
  <1>8. Assign(m, t, k, v) = [WatchedCellAssign(m, m.tables[p[1]][p[2]].cell, v) EXCEPT
                                 !.vars = Assigned(@, p, v)]
    BY <1>6, <1>7 DEF Assign
  <1>9. Sound(Assign(m, t, k, v)) /\ Wider(m, Assign(m, t, k, v))
    BY <1>4, AssignIs
  <1>10. Set(Assign(m, t, k, v))
    BY <1>1, <1>8
  <1>. QED
    BY <1>4, <1>9, <1>10, WiderTwice, SetSteps

LEMMA DeclaredIs ==
  ASSUME NEW m, Sound(m), NEW t \in Tables, NEW n \in Names \cup {Bare}
  PROVE  Sound(Declared(m, t, n)) /\ Wider(m, Declared(m, t, n))
  <1>1. CASE n = Bare \/ n \in DOMAIN m.tables[t]
    BY <1>1 DEF Declared, Wider
  <1>2. CASE ~(n = Bare \/ n \in DOMAIN m.tables[t])
    <2>1. n \in Keys /\ Declared(m, t, n) = Assign(m, t, n, Null)
      BY <1>2 DEF Declared, Keys
    <2>. QED
      BY <2>1, Bounds, AssignIs
  <1>. QED
    BY <1>1, <1>2

LEMMA DeclareSteps ==
  ASSUME Inv, NEW n \in Names \cup {Bare}, Local(n) \/ This(n) \/ Global(n)
  PROVE  Becomes
  <1>1. \E t \in Tables : DeclareIn(t, n)
    BY LevelsAre, Bounds DEF Local, This, Global
  <1>. QED
    BY <1>1, InvFit, DeclaredIs, SetSteps DEF DeclareIn

LEMMA BuiltinSteps ==
  ASSUME Inv, NEW n \in Names \cup {Bare}, NEW o \in Names \cup {Bare},
         BuiltinLocal(n, o) \/ BuiltinThis(n, o) \/ BuiltinGlobal(n, o)
  PROVE  Becomes
  <1>1. PICK t \in Tables : Set(Each(mem, t, n, o))
    BY LevelsAre, Bounds DEF BuiltinLocal, BuiltinThis, BuiltinGlobal
  <1>2. Sound(Declared(mem, t, n)) /\ Wider(mem, Declared(mem, t, n))
    BY InvFit, DeclaredIs
  <1>3. Sound(Each(mem, t, n, o)) /\ Wider(Declared(mem, t, n), Each(mem, t, n, o))
    BY <1>2, DeclaredIs DEF Each
  <1>. QED
    BY <1>1, <1>2, <1>3, WiderTwice, SetSteps

LEMMA WatchStep ==
  ASSUME Inv, NEW n \in Names, Watch(n)
  PROVE  Becomes
  <1>. DEFINE t == Level(mem, n)
              m == Reference(mem, t, n)
              c == m.tables[Level(m, n)][n].cell
              m2 == [m EXCEPT !.cells[c].watched = TRUE,
                              !.cells[c].reported = m.cells[c].value]
  <1>1. /\ Running /\ CellsFor({n}) /\ n \in DOMAIN mem.tables[t] /\ Set(m2)
    BY DEF Watch
  <1>2. t \in Tables /\ Sound(mem) /\ mem \in Memory /\ <<t, n>> \in Bound(mem)
    <2>1. t \in Tables /\ Sound(mem) /\ mem \in Memory /\ n \in Keys
      BY LevelIs DEF Inv, Sound, Keys
    <2>. QED
      BY <2>1, <1>1, MemoryIs
  <1>3. n # Arg /\ n # ByValue /\ {n} \ {ByValue} = {n}
    BY Bounds
  <1>4. InCell(mem, <<t, n>>) \/ FreeCells(mem) # {}
    <2>1. HasCell(n)
      BY <1>1, <1>3, CellsForOne
    <2>2. PlaceOf(mem, n) = <<t, n>>
      BY <1>3 DEF PlaceOf
    <2>. QED
      BY <2>1, <2>2 DEF HasCell
  <1>. HIDE DEF t
  <1>5. /\ Sound(m) /\ Bound(m) = Bound(mem) /\ InCell(m, <<t, n>>)
        /\ \A u \in Tables : DOMAIN m.tables[u] = DOMAIN mem.tables[u]
    BY <1>1, <1>2, <1>4, ReferenceIs
  <1>. HIDE DEF m
  <1>6. Level(m, n) = t
    BY <1>5, LevelSame DEF t
  <1>7. c \in Cells
    <2>1. m \in Memory /\ c = At(m, <<t, n>>).cell
      BY <1>5, <1>6 DEF Sound, At
    <2>. QED
      BY <2>1, <1>2, <1>5, MemoryIs
  <1>. HIDE DEF c
  <1>8. Sound(m2) /\ m2.tables = m.tables
    BY <1>5, <1>7, WatchIs
  <1>9. Wider(mem, m2)
    BY <1>5, <1>8 DEF Wider
  <1>. QED
    BY <1>1, <1>8, <1>9, SetSteps

LEMMA OfVariablesStep ==
  ASSUME Inv, OfVariables
  PROVE  Becomes
  <1>1. \A m, p : Other(m, p) \subseteq Values
    BY DEF Other
  <1>. QED
    BY <1>1, LoadStep, WatchStep, StoreStep, StoreSlotStep, AssignReferenceStep,
       DeclareSteps, BuiltinSteps DEF OfVariables, Keys

(***************************************************************************)
(* The actions on activations.                                             *)
(***************************************************************************)
LEMMA LiveParts ==
  ASSUME NEW fr \in Seq(Activations), NEW su \in [Closures -> Seq(Activations)], NEW S,
         \A i \in 1..Len(fr) : fr[i] \in S,
         \A d \in Closures : \A i \in 1..Len(su[d]) : su[d][i] \in S
  PROVE  AllFrames(fr, su) \subseteq S
  BY LiveAre

LEMMA LiveHas ==
  ASSUME Inv
  PROVE  /\ \A i \in 1..Len(frames) : frames[i] \in Live
         /\ \A d \in Closures : \A i \in 1..Len(suspended[d]) : suspended[d][i] \in Live
         /\ \A d \in Closures : suspended[d] \in Seq(Activations)
  <1>1. frames \in Seq(Activations) /\ suspended \in [Closures -> Seq(Activations)]
    BY InvFit
  <1>. QED
    BY <1>1, LiveAre DEF Live

(* The scope of a closure, made of a free table if there was none.         *)
LEMMA EnsureIs ==
  ASSUME Inv, NEW c \in Closures, NEW t \in FreeTables
  PROVE  LET sc == EnsureClosureScope(c, t) IN
         /\ sc \in [Closures -> Tables \cup {None}] /\ sc[c] \in Tables
         /\ \A d \in Closures : sc[d] = scopes[d] \/ sc[d] = t
         /\ LaidOut(arrays, Live, sc)
  <1>. DEFINE sc == EnsureClosureScope(c, t)
  <1>1. t \in Tables /\ ~InArrays(t, arrays)
    BY FreeMeans DEF Inv
  <1>2. LaidOut(arrays, Live, scopes) /\ scopes \in [Closures -> Tables \cup {None}]
    BY InvFit DEF LaidOut
  <1>3. /\ sc \in [Closures -> Tables \cup {None}] /\ sc[c] \in Tables
        /\ \A d \in Closures : sc[d] = scopes[d] \/ sc[d] = t
    BY <1>1, <1>2 DEF EnsureClosureScope
  <1>. HIDE DEF sc
  <1>4. \A d \in Closures : ~InArrays(sc[d], arrays)
    BY <1>1, <1>2, <1>3, ScopesApart
  <1>5. LaidOut(arrays, Live, sc)
    BY <1>2, <1>3, <1>4, Rescoped
  <1>. QED
    BY <1>3, <1>5 DEF sc

(* The argument of an activation and its named arguments are bound.        *)
LEMMA BoundArguments ==
  ASSUME NEW m, Sound(m), NEW s \in Tables, NEW t \in Tables, NEW b, NEW o,
         Bindable(m, b, o), NEW ps, NEW bs, NEW os, Ready(m, ps, bs, os),
         ps # << >> => ps[1].key \in Keys
  PROVE  LET m2 == BindPairs(Bind(m, s, Arg, b, o), t, ps, bs, os) IN
         Sound(m2) /\ Wider(m, m2) /\ Arg \in DOMAIN m2.tables[s]
  <1>. DEFINE m1 == Bind(m, s, Arg, b, o)
  <1>1. Arg \in Keys
    BY DEF Keys
  <1>2. /\ Sound(m1) /\ Wider(m, m1) /\ Arg \in DOMAIN m1.tables[s]
        /\ \A c, r : Bindable(m, c, r) /\ r # <<s, Arg>> => Bindable(m1, c, r)
    BY <1>1, BindIs
  <1>. HIDE DEF m1
  <1>3. Ready(m1, ps, bs, os)
    BY <1>2 DEF Ready
  <1>. DEFINE m2 == BindPairs(m1, t, ps, bs, os)
  <1>4. Sound(m2) /\ Wider(m1, m2)
    BY <1>2, <1>3, BindPairsIs
  <1>. HIDE DEF m2
  <1>5. Wider(m, m2) /\ Arg \in DOMAIN m2.tables[s]
    BY <1>2, <1>4 DEF Wider
  <1>. QED
    BY <1>4, <1>5 DEF m2, m1

(* One more activation.                                                    *)
LEMMA Appended ==
  ASSUME Inv, NEW f \in Activations, NEW su \in [Closures -> Seq(Activations)],
         \A d \in Closures : su[d] = suspended[d] \/ su[d] = << >>
  PROVE  /\ Append(frames, f) \in Seq(Activations)
         /\ AllFrames(Append(frames, f), su) \subseteq Live \cup {f}
  <1>1. frames \in Seq(Activations) /\ Len(frames) \in Nat
    BY InvFit, LenProperties
  <1>2. /\ Append(frames, f) \in Seq(Activations)
        /\ Len(Append(frames, f)) = Len(frames) + 1
        /\ Append(frames, f)[Len(frames) + 1] = f
        /\ \A i \in 1..Len(frames) : Append(frames, f)[i] = frames[i]
    BY <1>1, AppendProperties
  <1>3. \A i \in 1..Len(frames) + 1 : i \in 1..Len(frames) \/ i = Len(frames) + 1
    BY <1>1
  <1>4. \A i \in 1..Len(Append(frames, f)) : Append(frames, f)[i] \in Live \cup {f}
    BY <1>2, <1>3, LiveHas
  <1>5. \A d \in Closures : \A i \in 1..Len(su[d]) : su[d][i] \in Live \cup {f}
    <2>1. Len(<< >>) = 0 /\ 1..0 = {}
      OBVIOUS
    <2>. QED
      BY <2>1, LiveHas
  <1>. QED
    BY <1>2, <1>4, <1>5, LiveParts

(* An activation that shares the scopes of its caller.                     *)
LEMMA SharedFits ==
  ASSUME Inv, Running, NEW c \in Inlines, NEW t \in FreeTables
  PROVE  LET f == [closure |-> c, locals |-> Frame.locals, scope |-> Frame.scope, slots |-> t]
         IN  /\ f \in Activations /\ LaidOut(arrays, Live \cup {f}, scopes)
             /\ LocalScope(arrays, f) \in Tables
  <1>. DEFINE f == [closure |-> c, locals |-> Frame.locals, scope |-> Frame.scope, slots |-> t]
  <1>1. /\ t \in Tables /\ ~InArrays(t, arrays)
    BY FreeMeans DEF Inv
  <1>2. /\ Frame \in Live /\ Frame.locals \in Arrays /\ Frame.scope \in Tables
        /\ LaidOut(arrays, Live, scopes)
    BY FrameIs, InvFit
  <1>3. f \in Activations /\ f.locals = Frame.locals /\ f.scope = Frame.scope
        /\ f.slots = t /\ f.closure \in Inlines
    BY <1>1, <1>2, Bounds DEF Activations
  <1>4. arrays[Frame.locals] # << >> /\ ~InArrays(Frame.scope, arrays)
    BY <1>2, ScopesApart DEF LaidOut, Served
  <1>5. LocalScope(arrays, f) \in Tables
    BY <1>2, <1>3, LocalScopeIs DEF LocalScope
  <1>. HIDE DEF f
  <1>6. LaidOut(arrays, Live \cup {f}, scopes)
    BY <1>1, <1>2, <1>3, <1>4, Entered
  <1>. QED
    BY <1>3, <1>5, <1>6 DEF f

(* An ordinary activation: a local scope in an array of its own.           *)
LEMMA OrdinaryFits ==
  ASSUME Inv, NEW c \in Closures, NEW sc, NEW t1 \in FreeTables, NEW t2 \in FreeTables,
         NEW t3 \in FreeTables, t1 # t2, t2 # t3, sc = EnsureClosureScope(c, t3)
  PROVE  LET f == [closure |-> c, locals |-> FreeArray, scope |-> sc[c], slots |-> t1]
             ar == [arrays EXCEPT ![f.locals] = <<t2>>]
         IN  /\ f \in Activations /\ LaidOut(ar, Live \cup {f}, sc)
             /\ LocalScope(ar, f) \in Tables
  <1>. DEFINE a == FreeArray
              f == [closure |-> c, locals |-> a, scope |-> sc[c], slots |-> t1]
              ar == [arrays EXCEPT ![a] = <<t2>>]
  <1>1. \A t \in FreeTables :
           t \in Tables /\ ~InArrays(t, arrays) /\ ~Elsewhere(t, Live, scopes)
    BY FreeMeans DEF Inv
  <1>2. a \in Arrays /\ arrays[a] = << >>
    BY FreeArrayIs DEF Inv
  <1>3. /\ sc \in [Closures -> Tables \cup {None}] /\ sc[c] \in Tables
        /\ \A d \in Closures : sc[d] = scopes[d] \/ sc[d] = t3
        /\ LaidOut(arrays, Live, sc)
    BY EnsureIs
  <1>4. ~Elsewhere(t2, Live, sc)
    BY <1>1, <1>3 DEF Elsewhere
  <1>5. /\ ar \in [Arrays -> Seq(Tables)]
        /\ \A d \in Arrays : d # a => ar[d] = arrays[d]
        /\ Len(ar[a]) = Len(arrays[a]) + 1 /\ ar[a][Len(arrays[a]) + 1] = t2
        /\ \A i \in 1..Len(arrays[a]) : ar[a][i] = arrays[a][i]
    <2>1. <<t2>> \in Seq(Tables) /\ Len(<<t2>>) = 1 /\ <<t2>>[1] = t2
      BY <1>1
    <2>2. Len(arrays[a]) = 0
      BY <1>2
    <2>3. arrays \in [Arrays -> Seq(Tables)]
      BY <1>3 DEF LaidOut
    <2>4. ar \in [Arrays -> Seq(Tables)] /\ ar[a] = <<t2>>
          /\ \A d \in Arrays : d # a => ar[d] = arrays[d]
      BY <2>1, <2>3, <1>2
    <2>. HIDE DEF a, ar
    <2>. QED
      BY <2>1, <2>2, <2>4
  <1>. HIDE DEF a
  <1>6. /\ LaidOut(ar, Live, sc)
        /\ \A u \in Tables : InArrays(u, ar) => InArrays(u, arrays) \/ u = t2
    <2>1. PICK t \in Tables : t = t2 /\ ~InArrays(t, arrays) /\ ~Elsewhere(t, Live, sc)
      BY <1>1, <1>4
    <2>2. PICK k \in Arrays : k = a
      BY <1>2
    <2>. HIDE DEF ar
    <2>. QED
      BY <2>1, <2>2, <1>3, <1>5, Pushed
  <1>7. ar[a] = <<t2>>
    BY <1>2, <1>3 DEF LaidOut
  <1>8. /\ f \in Activations /\ f.locals = a /\ f.scope = sc[c] /\ f.slots = t1
        /\ f.closure = c
    BY <1>1, <1>2, <1>3 DEF Activations
  <1>9. ~InArrays(t1, ar)
    BY <1>1, <1>6
  <1>10. ~InArrays(sc[c], ar)
    <2>1. ~InArrays(sc[c], arrays)
      BY <1>3, ScopesApart
    <2>2. sc[c] # t2
      BY <1>4 DEF Elsewhere
    <2>. QED
      BY <2>1, <2>2, <1>3, <1>6
  <1>11. \A g \in Live : g.locals # a
    BY <1>2, InvFit DEF LaidOut, Served
  <1>12. ar[f.locals] # << >>
    BY <1>7, <1>8
  <1>13. LocalScope(ar, f) = t2
    BY <1>7, <1>8 DEF LocalScope
  <1>. HIDE DEF f, ar
  <1>14. LaidOut(ar, Live \cup {f}, sc)
    BY <1>6, <1>8, <1>9, <1>10, <1>11, <1>12, Entered
  <1>15. f \in Activations /\ LocalScope(ar, f) \in Tables
    BY <1>1, <1>8, <1>13
  <1>16. f = [closure |-> c, locals |-> FreeArray, scope |-> sc[c], slots |-> t1]
         /\ ar = [arrays EXCEPT ![f.locals] = <<t2>>]
    BY <1>8 DEF f, a, ar
  <1>. QED
    BY <1>14, <1>15, <1>16

LEMMA EnterStep ==
  ASSUME Inv, NEW c \in Closures, Room(3), NEW m, Sound(m), Wider(mem, m),
         NEW b, NEW o, Bindable(m, b, o), NEW ps, NEW bs, NEW os, Ready(m, ps, bs, os),
         ps # << >> => ps[1].key \in Keys, Enter(c, m, b, o, ps, bs, os)
  PROVE  Becomes
  <1>. DEFINE t1 == FreeTable(1)
              t2 == FreeTable(2)
              t3 == FreeTable(3)
  <1>1. t1 \in FreeTables /\ t2 \in FreeTables /\ t3 \in FreeTables /\ t1 # t2 /\ t2 # t3
    <2>1. 3 \in 1..3 /\ 1 \in 1..3 /\ 2 \in 1..3
      OBVIOUS
    <2>2. /\ \A j \in 1..3 : FreeTable(j) \in FreeTables
          /\ \A i, j \in 1..3 : i # j => FreeTable(i) # FreeTable(j)
      BY <2>1, FreshTables
    <2>. QED
      BY <2>1, <2>2
  <1>2. PICK sc, f, ar, m1 :
           /\ sc = IF SharesScopes(c) THEN scopes ELSE EnsureClosureScope(c, t3)
           /\ f = Activation(c, sc)
           /\ ar = IF SharesScopes(c) THEN arrays ELSE [arrays EXCEPT ![f.locals] = <<t2>>]
           /\ m1 = Bind(m, f.slots, Arg, b, o)
           /\ Become(BindPairs(m1, LocalScope(ar, f), ps, bs, os),
                     ar, Append(frames, f), sc, suspended)
    BY DEF Enter
  <1>. HIDE DEF t1, t2, t3
  <1>3. /\ f \in Activations /\ LaidOut(ar, Live \cup {f}, sc) /\ LocalScope(ar, f) \in Tables
    <2>1. CASE SharesScopes(c)
      <3>1. /\ c \in Inlines /\ Running /\ sc = scopes /\ ar = arrays
            /\ f = [closure |-> c, locals |-> Frame.locals, scope |-> Frame.scope,
                    slots |-> t1]
        BY <1>2, <2>1 DEF SharesScopes, Activation, t1
      <3>. QED
        BY <3>1, <1>1, SharedFits
    <2>2. CASE ~SharesScopes(c)
      <3>1. /\ sc = EnsureClosureScope(c, t3)
            /\ f = [closure |-> c, locals |-> FreeArray, scope |-> sc[c], slots |-> t1]
            /\ ar = [arrays EXCEPT ![f.locals] = <<t2>>]
        BY <1>2, <2>2 DEF Activation, t1
      <3>. QED
        BY <3>1, <1>1, OrdinaryFits
    <2>. QED
      BY <2>1, <2>2
  <1>4. f.slots \in Tables
    BY <1>3 DEF Activations
  <1>. DEFINE m2 == BindPairs(Bind(m, f.slots, Arg, b, o), LocalScope(ar, f), ps, bs, os)
  <1>5. Sound(m2) /\ Wider(m, m2) /\ Arg \in DOMAIN m2.tables[f.slots]
    <2>1. PICK s \in Tables, t \in Tables : s = f.slots /\ t = LocalScope(ar, f)
      BY <1>3, <1>4
    <2>2. LET m3 == BindPairs(Bind(m, s, Arg, b, o), t, ps, bs, os) IN
          Sound(m3) /\ Wider(m, m3) /\ Arg \in DOMAIN m3.tables[s]
      BY BoundArguments
    <2>. QED
      BY <2>1, <2>2
  <1>6. Become(m2, ar, Append(frames, f), sc, suspended)
    BY <1>2
  <1>. HIDE DEF m2
  <1>7. Wider(mem, m2)
    BY <1>5, WiderTwice
  <1>8. suspended \in [Closures -> Seq(Activations)]
    BY InvFit
  <1>9. /\ Append(frames, f) \in Seq(Activations)
        /\ AllFrames(Append(frames, f), suspended) \subseteq Live \cup {f}
    BY <1>3, <1>8, Appended
  <1>. QED
    BY <1>3, <1>5, <1>6, <1>7, <1>8, <1>9, StepsNew

(* The same, with the sequences as sets.                                   *)
LEMMA LiveSets ==
  ASSUME Inv
  PROVE  /\ ToSet(frames) \subseteq Live
         /\ \A d \in Closures : ToSet(suspended[d]) \subseteq Live
         /\ \A fr \in Seq(Activations) : \A su \in [Closures -> Seq(Activations)] :
               (/\ ToSet(fr) \subseteq Live
                /\ \A d \in Closures : ToSet(su[d]) \subseteq Live)
               => AllFrames(fr, su) \subseteq Live
  <1>1. ToSet(frames) \subseteq Live
    BY InvFit, LiveHas, ElementsOf
  <1>2. \A d \in Closures : ToSet(suspended[d]) \subseteq Live
    BY LiveHas, ElementsOf
  <1>3. ASSUME NEW fr \in Seq(Activations), NEW su \in [Closures -> Seq(Activations)],
               ToSet(fr) \subseteq Live, \A d \in Closures : ToSet(su[d]) \subseteq Live
        PROVE  AllFrames(fr, su) \subseteq Live
    <2>1. \A i \in 1..Len(fr) : fr[i] \in Live
      BY <1>3, ElementsOf
    <2>2. \A d \in Closures : \A i \in 1..Len(su[d]) : su[d][i] \in Live
      BY <1>3, ElementsOf
    <2>. QED
      BY <2>1, <2>2, LiveParts
  <1>. QED
    BY <1>1, <1>2, <1>3

(* The frames of a suspended closure run again.                            *)
LEMMA ResumeStep ==
  ASSUME Inv, NEW c \in Closures, suspended[c] # << >>, NEW m, Sound(m), Wider(mem, m),
         NEW given, NEW b, NEW o, given => Bindable(m, b, o),
         NEW ps, NEW bs, NEW os, Ready(m, ps, bs, os),
         ps # << >> => ps[1].key \in Keys, Resume(c, m, given, b, o, ps, bs, os)
  PROVE  Becomes
  <1>. DEFINE saved == suspended[c]
              root == saved[1]
              su == [suspended EXCEPT ![c] = << >>]
  <1>1. /\ saved \in Seq(Activations) /\ ToSet(saved) \subseteq Live /\ root \in Live
    <2>1. saved \in Seq(Activations) /\ ToSet(saved) \subseteq Live
      BY LiveHas, LiveSets
    <2>2. 1 \in 1..Len(saved)
      BY <2>1, EmptySeq, LenProperties
    <2>. QED
      BY <2>1, <2>2, LiveHas
  <1>2. LocalScope(arrays, root) \in Tables /\ root.slots \in Tables
    BY <1>1, InvFit, LocalScopeIs DEF Activations
  <1>. DEFINE m1 == IF given THEN Bind(m, root.slots, Arg, b, o) ELSE m
              m2 == BindPairs(m1, LocalScope(arrays, root), ps, bs, os)
  <1>3. Become(m2, arrays, frames \o saved, scopes, su)
    BY DEF Resume
  <1>4. Sound(m2) /\ Wider(m, m2)
    <2>1. PICK s \in Tables, t \in Tables : s = root.slots /\ t = LocalScope(arrays, root)
      BY <1>2
    <2>2. CASE given
      <3>1. LET m3 == BindPairs(Bind(m, s, Arg, b, o), t, ps, bs, os) IN
            Sound(m3) /\ Wider(m, m3)
        BY <2>2, BoundArguments
      <3>. QED
        BY <2>1, <2>2, <3>1
    <2>3. CASE ~given
      <3>1. Sound(BindPairs(m, t, ps, bs, os)) /\ Wider(m, BindPairs(m, t, ps, bs, os))
        BY BindPairsIs
      <3>. QED
        BY <2>1, <2>3, <3>1
    <2>. QED
      BY <2>2, <2>3
  <1>. HIDE DEF m1, m2
  <1>5. Wider(mem, m2)
    BY <1>4, WiderTwice
  <1>6. /\ frames \o saved \in Seq(Activations)
        /\ ToSet(frames \o saved) \subseteq Live
    <2>1. frames \in Seq(Activations) /\ ToSet(frames) \subseteq Live
      BY InvFit, LiveSets
    <2>. QED
      BY <2>1, <1>1, PutTogether
  <1>7. /\ su \in [Closures -> Seq(Activations)]
        /\ \A d \in Closures : su[d] = suspended[d] \/ su[d] = << >>
    BY InvFit, EmptySeq
  <1>8. \A d \in Closures : ToSet(su[d]) \subseteq Live
    <2>1. ToSet(<< >>) = {}
      BY DEF ToSet
    <2>. QED
      BY <2>1, <1>7, LiveSets
  <1>. HIDE DEF su
  <1>9. AllFrames(frames \o saved, su) \subseteq Live
    BY <1>6, <1>7, <1>8, LiveSets
  <1>. QED
    BY <1>3, <1>4, <1>5, <1>6, <1>7, <1>9, InvFit, StepsFewer

(* A call, when what is passed can be bound.                               *)
LEMMA CallFits ==
  ASSUME Inv, NEW c \in Closures, NEW given, NEW g, NEW ps, Call(c, given, g, ps),
         NEW m, m = RefPairs(Referenced(mem, g), ps),
         Sound(m), Wider(mem, m), Bindable(m, Passed(m, g), Origin(m, g)),
         Ready(m, ps, Bindings(m, ps), Origins(m, ps)),
         ps # << >> => ps[1].key \in Keys \cup {Bare}
  PROVE  Becomes
  <1>1. PICK b, o, bs, os :
           /\ b = Passed(m, g) /\ o = Origin(m, g)
           /\ bs = Bindings(m, ps) /\ os = Origins(m, ps)
           /\ IF ps # << >> /\ ps[1].key = Bare THEN Set(m)
              ELSE IF suspended[c] = << >> THEN Enter(c, m, b, o, ps, bs, os)
              ELSE Resume(c, m, given, b, o, ps, bs, os)
    BY DEF Call
  <1>2. Room(3) /\ Bindable(m, b, o) /\ Ready(m, ps, bs, os)
    BY <1>1 DEF Call
  <1>3. CASE ps # << >> /\ ps[1].key = Bare
    BY <1>1, <1>3, SetSteps
  <1>4. CASE ~(ps # << >> /\ ps[1].key = Bare)
    <2>1. ps # << >> => ps[1].key \in Keys
      BY <1>4
    <2>2. CASE suspended[c] = << >>
      <3>1. Enter(c, m, b, o, ps, bs, os)
        BY <1>1, <1>4, <2>2
      <3>. QED
        BY <3>1, <1>2, <2>1, EnterStep
    <2>3. CASE suspended[c] # << >>
      <3>1. Resume(c, m, given, b, o, ps, bs, os)
        BY <1>1, <1>4, <2>3
      <3>. QED
        BY <3>1, <1>2, <2>1, <2>3, ResumeStep
    <2>. QED
      BY <2>2, <2>3
  <1>. QED
    BY <1>3, <1>4

(* A call without an argument by position.                                 *)
LEMMA CallStep ==
  ASSUME Inv, NEW c \in Closures, NEW ps \in Pairs(Names \cup {Bare}) \cup {NoPair},
         Call(c, FALSE, Nothing, ps)
  PROVE  Becomes
  <1>1. /\ Nothing.name = ByValue /\ Nothing.value = Null /\ Null \in Values
    BY Bounds DEF Nothing
  <1>2. Referenced(mem, Nothing) = mem
    BY <1>1 DEF Referenced
  <1>3. \A m : Bindable(m, Passed(m, Nothing), Origin(m, Nothing))
    BY <1>1 DEF Passed, Origin, Bindable
  <1>. DEFINE m == RefPairs(mem, ps)
              ns == {Nothing.name} \cup NamesIn(ps)
  <1>4. CellsFor(ns)
    BY DEF Call
  <1>5. NamesIn(ps) \subseteq ns /\ ns \ {ByValue} \subseteq NamesIn(ps)
    BY <1>1
  <1>. HIDE DEF ns
  <1>6. Sound(m) /\ Wider(mem, m) /\ Ready(m, ps, Bindings(m, ps), Origins(m, ps))
    BY <1>4, <1>5, PairsReady
  <1>7. ps # << >> => ps[1].key \in Keys \cup {Bare}
    BY PairIs DEF NoPair, Keys
  <1>8. m = RefPairs(Referenced(mem, Nothing), ps)
    BY <1>2
  <1>. HIDE DEF m
  <1>. QED
    BY <1>3, <1>6, <1>7, <1>8, CallFits

(* A call with an argument by position.                                    *)
LEMMA ArgumentCallStep ==
  ASSUME Inv, NEW c \in Closures, NEW g \in Givens, Call(c, TRUE, g, << >>)
  PROVE  Becomes
  <1>. DEFINE m == Referenced(mem, g)
              ns == {g.name} \cup NamesIn(<< >>)
  <1>1. CellsFor(ns)
    BY DEF Call
  <1>2. NamesIn(<< >>) = {}
    BY DEF NamesIn
  <1>3. g.name \in ns /\ ns \ {ByValue} \subseteq {g.name}
    BY <1>2
  <1>. HIDE DEF ns
  <1>4. Sound(m) /\ Wider(mem, m) /\ Bindable(m, Passed(m, g), Origin(m, g))
    BY <1>1, <1>3, GivenIs
  <1>5. m = RefPairs(Referenced(mem, g), << >>)
    BY DEF RefPairs
  <1>. HIDE DEF m
  <1>6. Ready(m, << >>, Bindings(m, << >>), Origins(m, << >>))
    BY DEF Ready
  <1>. QED
    BY <1>4, <1>5, <1>6, CallFits

(* A clone of an inline function is called.                                *)
LEMMA BuiltinInlineStep ==
  ASSUME Inv, NEW c \in Closures, BuiltinInline(c)
  PROVE  Becomes
  <1>. DEFINE t1 == FreeTable(1)
              t2 == FreeTable(2)
              su == [suspended EXCEPT ![c] = << >>]
              sc == [scopes EXCEPT ![c] = t2]
              f == [closure |-> c, locals |-> Frame.locals, scope |-> Frame.scope,
                    slots |-> t1]
              m == Bind(mem, t1, Arg, Plain(Null), Nowhere)
  <1>1. c \in Inlines /\ Running /\ Room(2)
    BY DEF BuiltinInline
  <1>2. t1 \in FreeTables /\ t2 \in FreeTables
    <2>1. 2 \in 1..3 /\ 1 \in 1..2 /\ 2 \in 1..2
      OBVIOUS
    <2>. QED
      BY <2>1, <1>1, FreshTables
  <1>3. Become(m, arrays, Append(frames, f), sc, su)
    <2>1. Activation(c, scopes) = f
      BY <1>1 DEF Activation, SharesScopes
    <2>2. f.slots = t1
      OBVIOUS
    <2>. HIDE DEF f, t1, t2
    <2>. QED
      BY <2>1, <2>2 DEF BuiltinInline, t1, t2
  <1>. HIDE DEF t1, t2
  <1>4. t1 \in Tables /\ t2 \in Tables /\ ~InArrays(t2, arrays)
    BY <1>2, FreeMeans DEF Inv
  <1>5. f \in Activations /\ LaidOut(arrays, Live \cup {f}, scopes)
    BY <1>1, <1>2, SharedFits
  <1>6. f.slots = t1
    OBVIOUS
  <1>. HIDE DEF f
  <1>7. LaidOut(arrays, Live \cup {f}, sc)
    <2>1. scopes \in [Closures -> Tables \cup {None}]
      BY <1>5 DEF LaidOut
    <2>2. /\ sc \in [Closures -> Tables \cup {None}]
          /\ \A d \in Closures : sc[d] = scopes[d] \/ sc[d] = t2
      BY <1>4, <2>1
    <2>3. \A d \in Closures : ~InArrays(sc[d], arrays)
      BY <1>4, <1>5, <2>2, ScopesApart
    <2>. HIDE DEF sc
    <2>. QED
      BY <1>5, <2>2, <2>3, Rescoped
  <1>8. Sound(m) /\ Wider(mem, m) /\ Arg \in DOMAIN m.tables[t1]
    <2>1. Arg \in Keys /\ Bindable(mem, Plain(Null), Nowhere)
      BY Bounds DEF Keys, Bindable
    <2>. QED
      BY <2>1, <1>4, InvFit, BindIs
  <1>. HIDE DEF m
  <1>9. /\ su \in [Closures -> Seq(Activations)]
        /\ \A d \in Closures : su[d] = suspended[d] \/ su[d] = << >>
    BY InvFit, EmptySeq
  <1>. HIDE DEF su, sc
  <1>10. /\ Append(frames, f) \in Seq(Activations)
         /\ AllFrames(Append(frames, f), su) \subseteq Live \cup {f}
    BY <1>5, <1>9, Appended
  <1>. QED
    BY <1>3, <1>5, <1>6, <1>7, <1>8, <1>9, <1>10, StepsNew

(* Activations on top end.                                                 *)
LEMMA CutIs ==
  ASSUME Inv, NEW k \in 0..Len(frames)
  PROVE  Cut(k) \in Seq(Activations) /\ ToSet(Cut(k)) \subseteq Live
  <1>1. frames \in Seq(Activations) /\ ToSet(frames) \subseteq Live /\ Len(frames) \in Nat
    BY InvFit, LiveSets, LenProperties
  <1>2. Cut(k) \in Seq(Activations)
    BY <1>1, Prefix DEF Cut
  <1>3. 1 \in Nat \ {0} /\ k \in Int /\ k <= Len(frames)
    BY <1>1
  <1>4. ToSet(Cut(k)) \subseteq ToSet(frames)
    BY <1>1, <1>3, PartOf DEF Cut
  <1>. QED
    BY <1>1, <1>2, <1>4

(* A part of the frames may wait for a closure.                            *)
LEMMA CutFits ==
  ASSUME Inv, NEW k \in 0..Len(frames), NEW ar, LaidOut(ar, Live, scopes),
         NEW c \in Closures, NEW s \in Seq(Activations), ToSet(s) \subseteq Live,
         Become(mem, ar, Cut(k), scopes, [suspended EXCEPT ![c] = s])
  PROVE  Becomes
  <1>. DEFINE su == [suspended EXCEPT ![c] = s]
  <1>1. Cut(k) \in Seq(Activations) /\ ToSet(Cut(k)) \subseteq Live
    BY CutIs
  <1>2. /\ su \in [Closures -> Seq(Activations)]
        /\ \A d \in Closures : su[d] = suspended[d] \/ su[d] = s
    BY InvFit
  <1>. HIDE DEF su
  <1>3. \A d \in Closures : ToSet(su[d]) \subseteq Live
    BY <1>2, LiveSets
  <1>4. AllFrames(Cut(k), su) \subseteq Live
    BY <1>1, <1>2, <1>3, LiveSets
  <1>5. Sound(mem) /\ Wider(mem, mem)
    BY InvFit DEF Wider
  <1>6. Become(mem, ar, Cut(k), scopes, su)
    BY DEF su
  <1>. QED
    BY <1>1, <1>2, <1>4, <1>5, <1>6, StepsFewer

(* Nothing is changed for the closures that wait.                          *)
LEMMA CutAlone ==
  ASSUME Inv, NEW k \in 0..Len(frames), NEW ar, LaidOut(ar, Live, scopes),
         Become(mem, ar, Cut(k), scopes, suspended)
  PROVE  Becomes
  <1>1. Cut(k) \in Seq(Activations) /\ ToSet(Cut(k)) \subseteq Live
    BY CutIs
  <1>2. suspended \in [Closures -> Seq(Activations)]
    BY InvFit
  <1>3. AllFrames(Cut(k), suspended) \subseteq Live
    BY <1>1, <1>2, LiveSets
  <1>4. Sound(mem) /\ Wider(mem, mem)
    BY InvFit DEF Wider
  <1>. QED
    BY <1>1, <1>2, <1>3, <1>4, StepsFewer

(* A return drops the scopes that an ordinary closure has pushed.          *)
LEMMA TruncatedIs ==
  ASSUME Inv, Running
  PROVE  LaidOut(Truncated, Live, scopes)
  <1>1. LaidOut(arrays, Live, scopes) /\ Frame \in Live /\ Frame.locals \in Arrays
    BY InvFit, FrameIs
  <1>2. CASE Frame.closure \in Inlines
    BY <1>1, <1>2 DEF Truncated
  <1>3. CASE Frame.closure \notin Inlines
    <2>1. arrays[Frame.locals] \in Seq(Tables) /\ arrays[Frame.locals] # << >>
      BY <1>1 DEF LaidOut, Served
    <2>2. 1 \in 1..Len(arrays[Frame.locals])
      BY <2>1, EmptySeq, LenProperties
    <2>3. LaidOut([arrays EXCEPT ![Frame.locals] = SubSeq(@, 1, 1)], Live, scopes)
      BY <1>1, <2>2, Shorter
    <2>. QED
      BY <1>3, <2>3 DEF Truncated
  <1>. QED
    BY <1>2, <1>3

LEMMA ReturnStep ==
  ASSUME Inv, Return
  PROVE  Becomes
  <1>1. Running /\ Become(mem, Truncated, Cut(Len(frames) - 1), scopes, suspended)
    BY DEF Return
  <1>2. LaidOut(Truncated, Live, scopes)
    BY <1>1, TruncatedIs
  <1>3. PICK k \in 0..Len(frames) : k = Len(frames) - 1
    BY <1>1, FrameIs
  <1>. QED
    BY <1>1, <1>2, <1>3, CutAlone

(* The ordinary activation below the top is one of those that run.         *)
LEMMA RootIs ==
  ASSUME Inv, Running
  PROVE  /\ Root \in 1..Len(frames) /\ Root - 1 \in 0..Len(frames)
         /\ frames[Root].closure \in Closures
  <1>. DEFINE ordinary == {i \in DOMAIN frames : frames[i].closure \notin Inlines}
  <1>1. /\ frames \in Seq(Activations) /\ Len(frames) \in Nat /\ Len(frames) >= 1
        /\ DOMAIN frames = 1..Len(frames)
    BY FrameIs, LenProperties
  <1>2. ordinary \in SUBSET (1..Len(frames))
    BY <1>1
  <1>3. Root = IF ordinary = {} THEN 1 ELSE CHOOSE i \in ordinary : \A j \in ordinary : j <= i
    BY DEF Root
  <1>. HIDE DEF ordinary
  <1>4. ordinary # {} => \E i \in ordinary : \A j \in ordinary : j <= i
    BY <1>1, <1>2, GreatestOf
  <1>5. Root \in 1..Len(frames)
    <2>1. ordinary = {} => Root = 1
      BY <1>3
    <2>2. ordinary # {} => Root \in ordinary
      BY <1>3, <1>4
    <2>3. 1 \in 1..Len(frames)
      BY <1>1
    <2>. QED
      BY <1>2, <2>1, <2>2, <2>3
  <1>6. frames[Root].closure \in Closures
    <2>1. frames[Root] \in Activations
      BY <1>1, <1>5, ElementOfSeq
    <2>. QED
      BY <2>1 DEF Activations
  <1>. QED
    BY <1>1, <1>5, <1>6

LEMMA InlineReturnStep ==
  ASSUME Inv, InlineReturn
  PROVE  Becomes
  <1>1. /\ Running
        /\ Become(mem, arrays, Cut(Root - 1), scopes,
                  [suspended EXCEPT ![frames[Root].closure] = << >>])
    BY DEF InlineReturn
  <1>2. PICK k \in 0..Len(frames), c \in Closures : k = Root - 1 /\ c = frames[Root].closure
    BY <1>1, RootIs
  <1>3. PICK s \in Seq(Activations) : s = << >> /\ ToSet(s) \subseteq Live
    <2>1. << >> \in Seq(Activations) /\ ToSet(<< >>) = {}
      BY EmptySeq DEF ToSet
    <2>. QED
      BY <2>1
  <1>4. Become(mem, arrays, Cut(k), scopes, [suspended EXCEPT ![c] = s])
    BY <1>1, <1>2, <1>3
  <1>. QED
    BY <1>2, <1>3, <1>4, InvFit, CutFits

LEMMA YieldStep ==
  ASSUME Inv, Yield
  PROVE  Becomes
  <1>1. /\ Running
        /\ Become(mem, arrays, Cut(Root - 1), scopes,
                  [suspended EXCEPT ![frames[Root].closure] =
                      SubSeq(frames, Root, Len(frames))])
    BY DEF Yield
  <1>2. PICK k \in 0..Len(frames), c \in Closures : k = Root - 1 /\ c = frames[Root].closure
    BY <1>1, RootIs
  <1>3. PICK s \in Seq(Activations) :
           s = SubSeq(frames, Root, Len(frames)) /\ ToSet(s) \subseteq Live
    <2>1. frames \in Seq(Activations) /\ ToSet(frames) \subseteq Live /\ Len(frames) \in Nat
      BY InvFit, LiveSets, LenProperties
    <2>2. Root \in Nat \ {0} /\ Len(frames) \in Int /\ Len(frames) <= Len(frames)
      BY <1>1, <2>1, RootIs
    <2>3. /\ SubSeq(frames, Root, Len(frames)) \in Seq(Activations)
          /\ ToSet(SubSeq(frames, Root, Len(frames))) \subseteq ToSet(frames)
      BY <2>1, <2>2, PartOf
    <2>. QED
      BY <2>1, <2>3
  <1>4. Become(mem, arrays, Cut(k), scopes, [suspended EXCEPT ![c] = s])
    BY <1>1, <1>2, <1>3
  <1>. QED
    BY <1>2, <1>3, <1>4, InvFit, CutFits

LEMMA ThrowStep ==
  ASSUME Inv, NEW k \in DOMAIN frames, Throw(k)
  PROVE  Becomes
  <1>1. k \in 0..Len(frames) /\ Become(mem, arrays, Cut(k), scopes, suspended)
    <2>1. Len(frames) \in Nat
      BY InvFit, LenProperties
    <2>. QED
      BY <2>1 DEF Throw
  <1>. QED
    BY <1>1, InvFit, CutAlone

LEMMA OfActivationsStep ==
  ASSUME Inv, OfActivations
  PROVE  Becomes
  BY CallStep, ArgumentCallStep, BuiltinInlineStep, ReturnStep, InlineReturnStep, YieldStep,
     ThrowStep DEF OfActivations

(***************************************************************************)
(* The actions on scopes.                                                  *)
(***************************************************************************)

(* The same activations run and wait.                                      *)
LEMMA StepsSame ==
  ASSUME Inv, NEW m, NEW ar, NEW sc, LaidOut(ar, Live, sc), Sound(m), Wider(mem, m),
         Become(m, ar, frames, sc, suspended)
  PROVE  Becomes
  BY InvFit, StepsFewer DEF Live

LEMMA FirstFree ==
  ASSUME Inv, Room(1)
  PROVE  /\ FreeTable(1) \in FreeTables /\ FreeTable(1) \in Tables
         /\ ~InArrays(FreeTable(1), arrays) /\ ~Elsewhere(FreeTable(1), Live, scopes)
  <1>1. 1 \in 1..3 /\ 1 \in 1..1
    OBVIOUS
  <1>2. FreeTable(1) \in FreeTables
    BY <1>1, FreshTables
  <1>. QED
    BY <1>2, FreeMeans DEF Inv

(* Initialisers are bound in table t.                                      *)
LEMMA InitializedIs ==
  ASSUME Inv, NEW ps \in Pairs(Names) \cup {NoPair}, CellsFor(NamesIn(ps)), NEW t \in Tables
  PROVE  LET m == RefPairs(mem, ps)
             m2 == BindPairs(m, t, ps, Bindings(m, ps), Origins(m, ps))
         IN  Sound(m2) /\ Wider(mem, m2)
  <1>. DEFINE m == RefPairs(mem, ps)
              m2 == BindPairs(m, t, ps, Bindings(m, ps), Origins(m, ps))
  <1>1. Sound(m) /\ Wider(mem, m) /\ Ready(m, ps, Bindings(m, ps), Origins(m, ps))
    <2>1. PICK ns : ns = NamesIn(ps) /\ CellsFor(ns)
      OBVIOUS
    <2>2. NamesIn(ps) \subseteq ns /\ ns \ {ByValue} \subseteq NamesIn(ps)
      BY <2>1
    <2>. QED
      BY <2>1, <2>2, PairsReady
  <1>. HIDE DEF m
  <1>2. ps # << >> => ps[1].key \in Keys
    BY PairIs DEF NoPair, Keys
  <1>3. Sound(m2) /\ Wider(m, m2)
    BY <1>1, <1>2, BindPairsIs
  <1>. HIDE DEF m2
  <1>4. Wider(mem, m2)
    BY <1>1, <1>3, WiderTwice
  <1>. QED
    BY <1>3, <1>4 DEF m, m2

LEMMA PushlStep ==
  ASSUME Inv, NEW ps \in Pairs(Names) \cup {NoPair}, NEW ok \in BOOLEAN, Pushl(ps, ok)
  PROVE  Becomes
  <1>. DEFINE m == Initialized(RefPairs(mem, ps), FreeTable(1), ps)
              pushed == [arrays EXCEPT ![Frame.locals] = Append(@, FreeTable(1))]
  <1>1. /\ Running /\ Room(1) /\ CellsFor(NamesIn(ps))
        /\ Become(m, IF ok THEN pushed ELSE arrays, frames, scopes, suspended)
    BY DEF Pushl
  <1>2. PICK t \in Tables : /\ t = FreeTable(1) /\ ~InArrays(t, arrays)
                            /\ ~Elsewhere(t, Live, scopes)
    BY <1>1, FirstFree
  <1>3. PICK a \in Arrays : a = Frame.locals
    BY <1>1, FrameIs
  <1>4. LaidOut(arrays, Live, scopes) /\ arrays \in [Arrays -> Seq(Tables)]
    BY InvFit DEF LaidOut
  <1>5. PICK s \in Seq(Tables) : s = Append(arrays[a], t)
    BY <1>4, AppendProperties
  <1>6. /\ Len(s) = Len(arrays[a]) + 1 /\ s[Len(arrays[a]) + 1] = t
        /\ \A i \in 1..Len(arrays[a]) : s[i] = arrays[a][i]
    BY <1>4, <1>5, AppendProperties
  <1>7. /\ pushed \in [Arrays -> Seq(Tables)] /\ pushed[a] = s
        /\ \A b \in Arrays : b # a => pushed[b] = arrays[b]
    BY <1>2, <1>3, <1>4, <1>5
  <1>. HIDE DEF pushed
  <1>8. LaidOut(pushed, Live, scopes)
    BY <1>2, <1>4, <1>6, <1>7, Pushed
  <1>9. Sound(m) /\ Wider(mem, m)
    BY <1>1, <1>2, InitializedIs DEF Initialized
  <1>. HIDE DEF m
  <1>10. CASE ok
    BY <1>1, <1>8, <1>9, <1>10, StepsSame
  <1>11. CASE ~ok
    BY <1>1, <1>4, <1>9, <1>11, StepsSame
  <1>. QED
    BY <1>10, <1>11

LEMMA PoplStep ==
  ASSUME Inv, NEW ps \in Pairs(Names) \cup {NoPair}, Popl(ps)
  PROVE  Becomes
  <1>. DEFINE a == Frame.locals
              ar == [arrays EXCEPT ![a] = Front(@)]
              t == LocalScope(ar, Frame)
              m == Initialized(RefPairs(mem, ps), t, ps)
  <1>1. /\ Running /\ CellsFor(NamesIn(ps)) /\ Len(arrays[a]) > 1
        /\ Become(m, ar, frames, scopes, suspended)
    BY DEF Popl
  <1>2. LaidOut(arrays, Live, scopes) /\ arrays \in [Arrays -> Seq(Tables)]
    BY InvFit DEF LaidOut
  <1>3. a \in Arrays /\ Frame \in Live
    BY <1>1, FrameIs
  <1>4. PICK h \in 1..Len(arrays[a]) : h = Len(arrays[a]) - 1
    <2>1. Len(arrays[a]) \in Nat
      BY <1>2, <1>3, LenProperties
    <2>2. Len(arrays[a]) > 1
      BY <1>1
    <2>3. Len(arrays[a]) - 1 \in 1..Len(arrays[a])
      BY <2>1, <2>2
    <2>. QED
      BY <2>3
  <1>5. ar = [arrays EXCEPT ![a] = SubSeq(@, 1, h)]
    BY <1>4 DEF Front
  <1>6. LaidOut(ar, Live, scopes)
    BY <1>2, <1>3, <1>5, Shorter
  <1>. HIDE DEF ar
  <1>7. t \in Tables
    BY <1>3, <1>6, LocalScopeIs
  <1>. HIDE DEF t
  <1>8. Sound(m) /\ Wider(mem, m)
    BY <1>1, <1>7, InitializedIs DEF Initialized
  <1>. HIDE DEF m
  <1>. QED
    BY <1>1, <1>6, <1>8, StepsSame

LEMMA LetStep ==
  ASSUME Inv, NEW c \in Closures, NEW ps \in Pairs(Names), Let(c, ps)
  PROVE  Becomes
  <1>. DEFINE sc == EnsureClosureScope(c, FreeTable(1))
              m == RefPairs(mem, ps)
              m2 == BindPairs(m, sc[c], ps, Bindings(m, ps), Origins(m, ps))
  <1>1. /\ Room(1) /\ CellsFor(NamesIn(ps))
        /\ Become(m2, arrays, frames, sc, suspended)
    BY DEF Let
  <1>2. sc[c] \in Tables /\ LaidOut(arrays, Live, sc)
    BY <1>1, FirstFree, EnsureIs
  <1>. HIDE DEF sc
  <1>3. Sound(m2) /\ Wider(mem, m2)
    BY <1>1, <1>2, InitializedIs
  <1>. HIDE DEF m2
  <1>. QED
    BY <1>1, <1>2, <1>3, StepsSame

(* Two closures share a scope.                                             *)
LEMMA LetThisStep ==
  ASSUME Inv, NEW c \in Closures, NEW d \in Closures, LetThis(c, d)
  PROVE  Becomes
  <1>. DEFINE e1 == EnsureClosureScope(c, FreeTable(1))
              e2 == EnsureClosureScope(d, FreeTable(2))
              sc1 == [e1 EXCEPT ![d] = e2[d]]
              sc == [sc1 EXCEPT ![c] = sc1[d]]
  <1>1. Room(2) /\ Become(mem, arrays, frames, sc, suspended)
    BY DEF LetThis
  <1>2. FreeTable(1) \in FreeTables /\ FreeTable(2) \in FreeTables
    <2>1. 2 \in 1..3 /\ 1 \in 1..2 /\ 2 \in 1..2
      OBVIOUS
    <2>. QED
      BY <2>1, <1>1, FreshTables
  <1>3. e1 \in [Closures -> Tables \cup {None}] /\ LaidOut(arrays, Live, e1)
    BY <1>2, EnsureIs
  <1>4. e2 \in [Closures -> Tables \cup {None}] /\ LaidOut(arrays, Live, e2)
    BY <1>2, EnsureIs
  <1>. HIDE DEF e1, e2
  <1>5. /\ sc \in [Closures -> Tables \cup {None}]
        /\ \A k \in Closures : sc[k] = e1[k] \/ sc[k] = e2[d]
    BY <1>3, <1>4
  <1>. HIDE DEF sc
  <1>6. \A k \in Closures : ~InArrays(sc[k], arrays)
    BY <1>3, <1>4, <1>5, ScopesApart
  <1>7. LaidOut(arrays, Live, sc)
    BY <1>3, <1>5, <1>6, Rescoped
  <1>8. Sound(mem) /\ Wider(mem, mem)
    BY InvFit DEF Wider
  <1>. QED
    BY <1>1, <1>7, <1>8, StepsSame

(* A clone of a function has copies of the values that it is given.        *)
LEMMA LambdaStep ==
  ASSUME Inv, NEW c \in Closures, NEW ps \in Pairs(Names), Lambda(c, ps)
  PROVE  Becomes
  <1>. DEFINE t == FreeTable(1)
              m == RefPairs(mem, ps)
              bs == [i \in DOMAIN ps |-> Plain(ValueOf(m, Passed(m, ps[i].given)))]
              os == [i \in DOMAIN ps |-> Nowhere]
              sc == [scopes EXCEPT ![c] = t]
              su == [suspended EXCEPT ![c] = << >>]
              m2 == BindPairs(m, t, ps, bs, os)
  <1>1. /\ Room(1) /\ CellsFor(NamesIn(ps))
        /\ Become(m2, arrays, frames, sc, su)
    BY DEF Lambda
  <1>2. t \in Tables /\ ~InArrays(t, arrays)
    BY <1>1, FirstFree
  <1>. HIDE DEF t
  <1>3. DOMAIN ps = {1} /\ ps # << >> /\ ps[1].key \in Keys
    BY PairIs DEF Keys
  <1>4. Sound(m) /\ Wider(mem, m) /\ Ready(m, ps, Bindings(m, ps), Origins(m, ps))
    <2>1. PICK ns : ns = NamesIn(ps) /\ CellsFor(ns)
      BY <1>1
    <2>2. NamesIn(ps) \subseteq ns /\ ns \ {ByValue} \subseteq NamesIn(ps)
      BY <2>1
    <2>. QED
      BY <2>1, <2>2, PairsReady
  <1>. HIDE DEF m
  <1>5. ValueOf(m, Passed(m, ps[1].given)) \in Values
    <2>1. /\ Bindings(m, ps)[1] = Passed(m, ps[1].given)
      BY <1>3 DEF Bindings
    <2>2. PICK o : Bindable(m, Passed(m, ps[1].given), o)
      BY <1>3, <1>4, <2>1 DEF Ready
    <2>3. \A v \in Values : ValueOf(m, Plain(v)) = v
      BY DEF ValueOf, Plain
    <2>4. \A p \in Bound(m) : ValueOf(m, At(m, p)) \in Values
      BY <1>4, MemoryIs DEF Sound
    <2>. QED
      BY <2>2, <2>3, <2>4 DEF Bindable
  <1>6. \E v \in Values : bs[1] = Plain(v)
    BY <1>3, <1>5
  <1>7. os[1] = Nowhere
    BY <1>3
  <1>8. \A u \in Tables : Nowhere # <<u, Arg>>
    <2>1. \A u : <<u, Arg>>[1] = u
      OBVIOUS
    <2>2. Nowhere[1] \notin Tables
      BY Bounds DEF Nowhere
    <2>. QED
      BY <2>1, <2>2
  <1>9. Ready(m, ps, bs, os)
    BY <1>6, <1>7, <1>8 DEF Ready, Bindable
  <1>. HIDE DEF bs, os
  <1>10. Sound(m2) /\ Wider(m, m2)
    BY <1>2, <1>3, <1>4, <1>9, BindPairsIs
  <1>. HIDE DEF m2
  <1>11. Wider(mem, m2)
    BY <1>4, <1>10, WiderTwice
  <1>12. LaidOut(arrays, Live, scopes) /\ scopes \in [Closures -> Tables \cup {None}]
    BY InvFit DEF LaidOut
  <1>13. /\ sc \in [Closures -> Tables \cup {None}]
         /\ \A d \in Closures : sc[d] = scopes[d] \/ sc[d] = t
    BY <1>2, <1>12
  <1>. HIDE DEF sc
  <1>14. LaidOut(arrays, Live, sc)
    <2>1. \A d \in Closures : ~InArrays(sc[d], arrays)
      BY <1>2, <1>12, <1>13, ScopesApart
    <2>. QED
      BY <2>1, <1>12, <1>13, Rescoped
  <1>15. /\ su \in [Closures -> Seq(Activations)]
         /\ \A d \in Closures : su[d] = suspended[d] \/ su[d] = << >>
    BY InvFit, EmptySeq
  <1>. HIDE DEF su
  <1>16. AllFrames(frames, su) \subseteq Live
    <2>1. ToSet(<< >>) = {}
      BY DEF ToSet
    <2>2. \A d \in Closures : ToSet(su[d]) \subseteq Live
      BY <2>1, <1>15, LiveSets
    <2>. QED
      BY <2>2, <1>15, InvFit, LiveSets
  <1>. QED
    BY <1>1, <1>10, <1>11, <1>14, <1>15, <1>16, InvFit, StepsFewer

(* A clone of a function gets the scope of another.                        *)
LEMMA LambdaThisStep ==
  ASSUME Inv, NEW c \in Closures, NEW d \in Closures, LambdaThis(c, d)
  PROVE  Becomes
  <1>. DEFINE e == EnsureClosureScope(d, FreeTable(1))
              sc == [e EXCEPT ![c] = e[d]]
              su == [suspended EXCEPT ![c] = << >>]
  <1>1. Room(1) /\ Become(mem, arrays, frames, sc, su)
    BY DEF LambdaThis
  <1>2. e \in [Closures -> Tables \cup {None}] /\ LaidOut(arrays, Live, e)
    BY <1>1, FirstFree, EnsureIs
  <1>. HIDE DEF e
  <1>3. /\ sc \in [Closures -> Tables \cup {None}]
        /\ \A k \in Closures : sc[k] = e[k] \/ sc[k] = e[d]
    BY <1>2
  <1>. HIDE DEF sc
  <1>4. LaidOut(arrays, Live, sc)
    <2>1. \A k \in Closures : ~InArrays(sc[k], arrays)
      BY <1>2, <1>3, ScopesApart
    <2>. QED
      BY <2>1, <1>2, <1>3, Rescoped
  <1>5. /\ su \in [Closures -> Seq(Activations)]
        /\ \A k \in Closures : su[k] = suspended[k] \/ su[k] = << >>
    BY InvFit, EmptySeq
  <1>. HIDE DEF su
  <1>6. AllFrames(frames, su) \subseteq Live
    <2>1. ToSet(<< >>) = {}
      BY DEF ToSet
    <2>2. \A k \in Closures : ToSet(su[k]) \subseteq Live
      BY <2>1, <1>5, LiveSets
    <2>. QED
      BY <2>2, <1>5, InvFit, LiveSets
  <1>7. Sound(mem) /\ Wider(mem, mem)
    BY InvFit DEF Wider
  <1>. QED
    BY <1>1, <1>4, <1>5, <1>6, <1>7, InvFit, StepsFewer

LEMMA SetInClosureStep ==
  ASSUME Inv, NEW c \in Closures, NEW n \in Names, NEW v \in Values, SetInClosure(c, n, v)
  PROVE  Becomes
  <1>. DEFINE sc == EnsureClosureScope(c, FreeTable(1))
              m == Assign(mem, sc[c], n, v)
  <1>1. Room(1) /\ Become(m, arrays, frames, sc, suspended)
    BY DEF SetInClosure
  <1>2. sc[c] \in Tables /\ LaidOut(arrays, Live, sc)
    BY <1>1, FirstFree, EnsureIs
  <1>. HIDE DEF sc
  <1>3. n \in Keys /\ Sound(mem)
    BY InvFit DEF Keys
  <1>4. Sound(m) /\ Wider(mem, m)
    BY <1>2, <1>3, AssignIs
  <1>. HIDE DEF m
  <1>. QED
    BY <1>1, <1>2, <1>4, StepsSame

LEMMA OfScopesStep ==
  ASSUME Inv, OfScopes
  PROVE  Becomes
  BY PushlStep, PoplStep, LetStep, LambdaStep, LetThisStep, LambdaThisStep,
     SetInClosureStep DEF OfScopes

(***************************************************************************)
(* The initial states.                                                     *)
(***************************************************************************)

(* Variables that nothing shares, all with the value $null.                *)
Starting(t, known) ==
  [tables |-> [Slots(2) EXCEPT ![t] = [n \in known |-> Plain(Null)]],
   cells |-> [c \in Cells |-> NoCell],
   vars |-> Fresh({}, <<2, Arg>>, Null) \cup {Variable({<<t, n>>}, Null) : n \in known}]

LEMMA InitialMemory ==
  ASSUME NEW t \in {Globals, 3, 4}, NEW known \in SUBSET Names, NEW m,
         m = Starting(t, known)
  PROVE  /\ Sound(m) /\ Arg \in DOMAIN m.tables[2] /\ DOMAIN m.tables[t] = known
         /\ \A q \in Bound(m) : At(m, q) = Plain(Null)
         /\ \A c \in Cells : m.cells[c] = NoCell
  <1>. DEFINE tabs == [Slots(2) EXCEPT ![t] = [n \in known |-> Plain(Null)]]
              cells == [c \in Cells |-> NoCell]
              vs == Fresh({}, <<2, Arg>>, Null) \cup {Variable({<<t, n>>}, Null) : n \in known}
  <1>1. t \in Tables /\ 2 \in Tables /\ t # 2
    BY Bounds DEF Tables, Globals
  <1>2. /\ m.tables = tabs /\ m.cells = cells /\ m.vars = vs
        /\ m = [tables |-> m.tables, cells |-> m.cells, vars |-> m.vars]
    BY DEF Starting
  <1>3. Plain(Null) \in Binding /\ Plain(Null).cell = None /\ Plain(Null).value = Null
    BY Bounds DEF Plain, Binding
  <1>4. NoCell \in Cell /\ ~NoCell.watched
    BY Bounds DEF NoCell, Cell
  <1>5. /\ \A u \in Tables : tabs[u] \in Scope
        /\ tabs \in [Tables -> Scope]
        /\ tabs[t] = [n \in known |-> Plain(Null)] /\ tabs[2] = [n \in {Arg} |-> Plain(Null)]
        /\ \A u \in Tables : u # t /\ u # 2 => tabs[u] = << >>
    <2>1. << >> \in Scope
      <3>1. << >> \in [{} -> Binding] /\ {} \in SUBSET Keys
        OBVIOUS
      <3>. QED
        BY <3>1 DEF Scope
    <2>2. \A K \in SUBSET Keys : [n \in K |-> Plain(Null)] \in Scope
      BY <1>3 DEF Scope
    <2>3. known \in SUBSET Keys /\ {Arg} \in SUBSET Keys
      BY DEF Keys
    <2>4. \A u \in Tables : Slots(2)[u] = IF u = 2 THEN [n \in {Arg} |-> Plain(Null)] ELSE << >>
      BY <1>1 DEF Slots
    <2>5. DOMAIN Slots(2) = Tables
      BY DEF Slots
    <2>6. /\ tabs[t] = [n \in known |-> Plain(Null)] /\ tabs[2] = [n \in {Arg} |-> Plain(Null)]
          /\ \A u \in Tables : u # t /\ u # 2 => tabs[u] = << >>
      BY <1>1, <2>4, <2>5
    <2>7. \A u \in Tables : tabs[u] \in Scope
      BY <2>1, <2>2, <2>3, <2>6
    <2>8. tabs = [u \in Tables |-> tabs[u]]
      BY <2>5
    <2>. HIDE DEF tabs
    <2>. QED
      BY <2>6, <2>7, <2>8
  <1>. HIDE DEF tabs
  <1>6. \A p : p \in Bound(m) <=> p = <<2, Arg>> \/ \E n \in known : p = <<t, n>>
    <2>1. \A p : p \in Bound(m) <=> \E u \in Tables : \E n \in DOMAIN tabs[u] : p = <<u, n>>
      BY ONLY <1>2 DEF Bound
    <2>2. DOMAIN tabs[t] = known /\ DOMAIN tabs[2] = {Arg}
          /\ \A u \in Tables : u # t /\ u # 2 => DOMAIN tabs[u] = {}
      BY <1>5
    <2>. QED
      BY <2>1, <2>2, <1>1
  <1>7. \A q \in Bound(m) : At(m, q) = Plain(Null)
    <2>1. \A u, n : At(m, <<u, n>>) = tabs[u][n]
      BY ONLY <1>2 DEF At
    <2>2. At(m, <<2, Arg>>) = Plain(Null)
      BY ONLY <2>1, <1>5
    <2>3. \A n \in known : At(m, <<t, n>>) = Plain(Null)
      BY ONLY <2>1, <1>5
    <2>. QED
      BY ONLY <2>2, <2>3, <1>6
  <1>8. \A x : x \in vs <=> \E p \in Bound(m) : x = Variable({p}, Null)
    <2>1. Fresh({}, <<2, Arg>>, Null) = {Variable({<<2, Arg>>}, Null)}
      BY DEF Fresh, Without
    <2>. QED
      BY <2>1, <1>6
  <1>. HIDE DEF vs
  <1>9. \A p \in Bound(m) : p \in Places
    <2>1. known \subseteq Keys /\ Arg \in Keys
      BY DEF Keys
    <2>. QED
      BY ONLY <2>1, <1>1, <1>6 DEF Places
  <1>10. vs \in SUBSET Vars
    BY <1>8, <1>9, Bounds DEF Vars, Variable
  <1>11. m \in Memory
    <2>1. cells \in [Cells -> Cell]
      BY <1>4
    <2>. HIDE DEF cells
    <2>. QED
      BY ONLY <2>1, <1>2, <1>5, <1>10 DEF Memory, Vars
  <1>12. Agrees(m)
    <2>1. \A p, q \in Bound(m) : Together(m, p, q) <=> p = q
      BY <1>3, <1>7 DEF Together, InCell
    <2>2. \A p \in Bound(m) : ValueOf(m, At(m, p)) = Null
      BY <1>3, <1>7 DEF ValueOf
    <2>3. \A p : Variable({p}, Null).places = {p} /\ Variable({p}, Null).value = Null
      BY DEF Variable
    <2>. QED
      <3>1. \A x \in vs : \E p \in Bound(m) : x.places = {p} /\ x.value = Null
        <4>. TAKE x \in vs
        <4>1. PICK p \in Bound(m) : x = Variable({p}, Null)
          BY ONLY <1>8
        <4>. QED
          BY ONLY <4>1, <2>3
      <3>2. \A p \in Bound(m) : \E x \in vs : p \in x.places
        BY ONLY <1>8, <2>3
      <3>3. ASSUME NEW x \in vs
            PROVE  /\ x.places # {} /\ x.places \subseteq Bound(m)
                   /\ \A p \in x.places :
                         /\ x.value = ValueOf(m, At(m, p))
                         /\ \A q \in Bound(m) : q \in x.places <=> Together(m, p, q)
        <4>1. PICK p \in Bound(m) : x.places = {p} /\ x.value = Null
          BY <3>1
        <4>. QED
          BY ONLY <4>1, <2>1, <2>2
      <3>. QED
        BY ONLY <1>2, <3>2, <3>3 DEF Agrees
  <1>13. \A c \in Cells : m.cells[c] = NoCell
    BY <1>2
  <1>14. Reports(m)
    BY <1>4, <1>13 DEF Reports
  <1>15. Arg \in DOMAIN m.tables[2] /\ DOMAIN m.tables[t] = known
    BY <1>2, <1>5
  <1>. QED
    BY <1>7, <1>11, <1>12, <1>13, <1>14, <1>15 DEF Sound

(* One of them is watched.                                                 *)
LEMMA InitialWatch ==
  ASSUME NEW t \in Tables, NEW m, Sound(m), NEW n \in DOMAIN m.tables[t],
         \A q \in Bound(m) : At(m, q) = Plain(Null),
         \A c \in Cells : m.cells[c] = NoCell
  PROVE  LET m2 == [Reference(m, t, n) EXCEPT !.cells[1].watched = TRUE] IN
         Sound(m2) /\ Wider(m, m2)
  <1>. DEFINE r == Reference(m, t, n)
              m2 == [r EXCEPT !.cells[1].watched = TRUE]
              m3 == [r EXCEPT !.cells[1].watched = TRUE, !.cells[1].reported = r.cells[1].value]
  <1>1. m \in Memory /\ 1 \in Cells /\ n \in Keys /\ Plain(Null).cell = None
    BY Bounds, MemoryIs DEF Sound, Cells, Plain
  <1>2. FreeCells(m) = Cells
    <2>1. \A c : c \in FreeCells(m) <=> c \in Cells
      BY ONLY <1>1, FreeCellsAre, Bounds, \A q \in Bound(m) : At(m, q) = Plain(Null)
    <2>2. FreeCells(m) \subseteq Cells
      BY DEF FreeCells
    <2>. QED
      BY <2>1, <2>2
  <1>3. /\ Sound(r) /\ \A u \in Tables : DOMAIN r.tables[u] = DOMAIN m.tables[u]
    BY <1>1, <1>2, ReferenceIs
  <1>4. r.cells[1].reported = r.cells[1].value
    <2>. DEFINE c == Lowest(Cells)
                cell == [NoCell EXCEPT !.value = Null]
                mc == [m EXCEPT !.cells[c] = cell]
    <2>1. m.tables[t][n] = Plain(Null)
      <3>1. <<t, n>> \in Bound(m)
        BY <1>1, MemoryIs
      <3>. QED
        BY <3>1 DEF At
    <2>2. Plain(Null).value = Null
      BY DEF Plain
    <2>3. r = HashSet(mc, t, n, Boxed(c))
      BY <1>1, <1>2, <2>1, <2>2 DEF Reference
    <2>4. r.cells = mc.cells
      BY <1>1, <2>3 DEF HashSet, Memory
    <2>5. m.cells \in [Cells -> Cell] /\ mc.cells = [m.cells EXCEPT ![c] = cell]
      BY <1>1 DEF Memory
    <2>6. cell.value = Null /\ cell.reported = Null /\ NoCell.value = Null /\ NoCell.reported = Null
      BY DEF NoCell
    <2>. HIDE DEF c, mc, cell
    <2>7. mc.cells[1] = cell \/ mc.cells[1] = NoCell
      BY <1>1, <2>5
    <2>. QED
      BY <2>4, <2>6, <2>7
  <1>. HIDE DEF r
  <1>5. m2 = m3
    <2>1. r \in Memory /\ r.cells \in [Cells -> Cell] /\ r.cells[1] \in Cell
      BY <1>1, <1>3, MemoryIs DEF Sound
    <2>2. [r.cells[1] EXCEPT !.watched = TRUE, !.reported = r.cells[1].value]
            = [r.cells[1] EXCEPT !.watched = TRUE]
      BY <2>1, <1>4 DEF Cell
    <2>3. m2 = [r EXCEPT !.cells = [r.cells EXCEPT ![1] = [r.cells[1] EXCEPT !.watched = TRUE]]]
      OBVIOUS
    <2>4. m3 = [r EXCEPT !.cells = [r.cells EXCEPT ![1] =
                    [r.cells[1] EXCEPT !.watched = TRUE, !.reported = r.cells[1].value]]]
      BY <1>1, <2>1 DEF Memory, Cell
    <2>. QED
      BY <2>2, <2>3, <2>4
  <1>6. Sound(m3) /\ m3.tables = r.tables
    BY <1>1, <1>3, WatchIs
  <1>. HIDE DEF m3
  <1>. QED
    BY <1>3, <1>5, <1>6 DEF Wider, r

LEMMA InitInv ==
  ASSUME Init
  PROVE  Inv
  <1>. DEFINE f == [closure |-> Script, locals |-> 1, scope |-> 4, slots |-> 2]
  <1>1. /\ frames = <<f>>
        /\ arrays = [a \in Arrays |-> IF a = 1 THEN <<3>> ELSE << >>]
        /\ scopes = [c \in Closures |-> IF c = Script THEN 4 ELSE None]
        /\ suspended = [c \in Closures |-> << >>]
    BY DEF Init, Arrays
  <1>2. /\ 1 \in Arrays /\ 2 \in Tables /\ 3 \in Tables /\ 4 \in Tables
        /\ Script \in Closures
    BY Bounds DEF Arrays, Tables
  <1>3. f \in Activations
    BY <1>2 DEF Activations
  <1>4. f.closure = Script /\ f.locals = 1 /\ f.scope = 4 /\ f.slots = 2
    OBVIOUS
  <1>. HIDE DEF f
  <1>5. Live = {f}
    <2>1. Range(<<f>>) = {f} /\ Range(<< >>) = {}
      BY DEF Range
    <2>2. \A c \in Closures : suspended[c] = << >>
      BY <1>1
    <2>. QED
      BY <2>1, <2>2, <1>1 DEF Live, AllFrames
  <1>6. /\ frames \in Seq(Activations) /\ suspended \in [Closures -> Seq(Activations)]
    <2>1. << >> \in Seq(Activations) /\ <<f>> \in Seq(Activations)
      BY <1>3, EmptySeq
    <2>. QED
      BY <2>1, <1>1
  <1>7. /\ arrays \in [Arrays -> Seq(Tables)] /\ arrays[1] = <<3>>
        /\ \A a \in Arrays : a # 1 => arrays[a] = << >>
    <2>1. << >> \in Seq(Tables) /\ <<3>> \in Seq(Tables)
      BY <1>2, EmptySeq
    <2>. QED
      BY <2>1, <1>1, <1>2
  <1>8. /\ scopes \in [Closures -> Tables \cup {None}]
        /\ \A c \in Closures : scopes[c] = 4 \/ scopes[c] = None
    BY <1>1, <1>2
  <1>9. \A a \in Arrays : \A i \in DOMAIN arrays[a] : a = 1 /\ i = 1 /\ arrays[a][i] = 3
    <2>1. DOMAIN <<3>> = {1} /\ <<3>>[1] = 3 /\ \A i : i \notin DOMAIN << >>
      OBVIOUS
    <2>. QED
      BY <2>1, <1>7
  <1>10. LaidOut(arrays, Live, scopes)
    <2>1. Served(arrays, Live)
      <3>1. <<3>> # << >>
        OBVIOUS
      <3>. QED
        BY <3>1, <1>4, <1>5, <1>7 DEF Served
    <2>2. OwnArrays(Live)
      BY <1>5 DEF OwnArrays
    <2>3. Once(arrays)
      BY <1>9 DEF Once
    <2>4. LocalOnly(arrays, Live, scopes)
      <3>1. \A t : InArrays(t, arrays) => t = 3
        BY <1>9 DEF InArrays
      <3>2. ~Elsewhere(3, Live, scopes)
        BY <1>4, <1>5, <1>8 DEF Elsewhere, Globals, None
      <3>. QED
        BY <3>1, <3>2 DEF LocalOnly
    <2>5. Live \subseteq Activations
      BY <1>3, <1>5
    <2>. QED
      BY <1>7, <1>8, <2>1, <2>2, <2>3, <2>4, <2>5 DEF LaidOut
  <1>11. Kept
    BY <1>4, <1>5, <1>7 DEF Kept
  <1>12. Bounded
    <2>1. IsFiniteSet({f}) /\ Cardinality({f}) = 1
      BY FS_Singleton
    <2>. QED
      BY <2>1, <1>5, Bounds DEF Bounded
  <1>13. Sound(mem) /\ Arg \in DOMAIN mem.tables[2]
    <2>1. PICK t \in {Globals, 3, 4}, known \in SUBSET Names, watched \in SUBSET Names :
             \E m \in {Starting(t, known)} :
                /\ watched \subseteq known /\ Cardinality(watched) <= 1
                /\ mem = IF watched = {} THEN m
                         ELSE LET n == CHOOSE n \in watched : TRUE
                              IN  [Reference(m, t, n) EXCEPT !.cells[1].watched = TRUE]
      BY DEF Init, Starting
    <2>2. PICK m : /\ m = Starting(t, known)
                   /\ watched \subseteq known
                   /\ mem = IF watched = {} THEN m
                            ELSE LET n == CHOOSE n \in watched : TRUE
                                 IN  [Reference(m, t, n) EXCEPT !.cells[1].watched = TRUE]
      BY ONLY <2>1
    <2>3. /\ Sound(m) /\ Arg \in DOMAIN m.tables[2] /\ DOMAIN m.tables[t] = known
          /\ \A q \in Bound(m) : At(m, q) = Plain(Null)
          /\ \A c \in Cells : m.cells[c] = NoCell
      BY <2>2, InitialMemory
    <2>4. CASE watched = {}
      BY ONLY <2>2, <2>3, <2>4
    <2>5. CASE watched # {}
      <3>1. PICK n \in watched : mem = [Reference(m, t, n) EXCEPT !.cells[1].watched = TRUE]
        BY ONLY <2>2, <2>5
      <3>2. n \in DOMAIN m.tables[t] /\ t \in Tables
        BY <2>2, <2>3, <1>2, Bounds
      <3>3. LET m2 == [Reference(m, t, n) EXCEPT !.cells[1].watched = TRUE] IN
            Sound(m2) /\ Wider(m, m2)
        BY ONLY <2>3, <3>2, InitialWatch
      <3>4. Sound(mem) /\ Wider(m, mem)
        BY ONLY <3>1, <3>3
      <3>. QED
        BY <3>4, <2>3, <1>2 DEF Wider
    <2>. QED
      BY <2>4, <2>5
  <1>14. HaveSlots(mem, Live)
    BY <1>4, <1>5, <1>13 DEF HaveSlots
  <1>. QED
    BY <1>6, <1>10, <1>11, <1>12, <1>13, <1>14 DEF Inv, Shaped

(***************************************************************************)
(* The steps.                                                              *)
(***************************************************************************)
LEMMA StepInv ==
  ASSUME Inv, [Next]_vars
  PROVE  Inv'
  <1>1. CASE Next
    <2>1. Becomes
      BY <1>1, OfVariablesStep, OfActivationsStep, OfScopesStep DEF Next
    <2>2. Cardinality(AllFrames(frames, suspended)') <= MaxFrames
      BY <1>1 DEF Next
    <2>. QED
      BY <2>1, <2>2, BecomesInv
  <1>2. CASE UNCHANGED vars
    BY <1>2 DEF vars, Inv, Shaped, Live, Kept, Bounded
  <1>. QED
    BY <1>1, <1>2

LEMMA Invariance == Spec => []Inv
  <1>1. Init => Inv
    BY InitInv
  <1>2. Inv /\ [Next]_vars => Inv'
    BY StepInv
  <1>. QED
    BY <1>1, <1>2, PTL DEF Spec

(***************************************************************************)
(* The theorems.                                                           *)
(***************************************************************************)

(* The types of the state: scopes hold names, bindings are values or       *)
(* cells, activations name arrays and tables that there are.               *)
THEOREM ScopesTyped == Spec => []TypeOK
  <1>1. Inv => TypeOK
    BY DEF Inv, Shaped, LaidOut, Sound, TypeOK
  <1>. QED
    BY <1>1, Invariance, PTL

(* However scopes come and go, two names are the same variable exactly     *)
(* when the script made them so (by reference, \$x, let), and every name   *)
(* of a variable shows what was assigned to it last, under any of them:    *)
(* scoped_variable_reference, assign_binding, calls, returns, yields,      *)
(* throws, inline returns, pushl, popl, let, lambda and the collector do   *)
(* what they do to cells and tables without a script noticing.             *)
THEOREM VariablesSharedAsAsked == Spec => []SharedAsAsked
  <1>1. Inv => SharedAsAsked
    BY SharedWhenAgrees DEF Inv
  <1>. QED
    BY <1>1, Invariance, PTL

(* An activation that runs, or waits in a closure that has yielded, keeps  *)
(* at least one local scope; ordinary ones have arrays of their own, and   *)
(* no table is a local scope twice, or a local scope and the scope or the  *)
(* arguments of an activation, or the global scope: whatever call_closure, *)
(* OP_RETURN, OP_INLINE_RETURN, OP_YIELD, OP_THROW and the push and the    *)
(* pop of local scopes do to the arrays.                                   *)
THEOREM ScopesAlwaysOwned == Spec => []ScopesOwned
  <1>1. ASSUME Inv
        PROVE  ScopesOwned
    <2>. DEFINE uses(t) == {p \in (DOMAIN arrays) \X (1..MaxScopes) :
                               p[2] \in DOMAIN arrays[p[1]] /\ arrays[p[1]][p[2]] = t}
    <2>1. LaidOut(arrays, Live, scopes) /\ DOMAIN arrays = Arrays
      BY <1>1, InvFit DEF LaidOut
    <2>2. \A f \in Live : arrays[f.locals] # << >>
      BY <2>1 DEF LaidOut, Served
    <2>3. \A f, g \in {h \in Live : h.closure \notin Inlines} : f.locals = g.locals => f = g
      BY <2>1 DEF LaidOut, OwnArrays
    <2>4. ASSUME NEW t \in Tables
          PROVE  Cardinality(uses(t)) <= 1
      <3>1. \A p, q \in uses(t) : p = q
        <4>1. Once(arrays)
          BY <2>1 DEF LaidOut
        <4>. QED
          BY <4>1, <2>1 DEF Once
      <3>2. uses(t) = {} \/ \E p : uses(t) = {p}
        <4>. HIDE DEF uses
        <4>. QED
          BY <3>1
      <3>3. Cardinality({}) = 0 /\ \A p : Cardinality({p}) = 1
        BY FS_EmptySet, FS_Singleton
      <3>. HIDE DEF uses
      <3>4. Cardinality(uses(t)) = 0 \/ Cardinality(uses(t)) = 1
        BY <3>2, <3>3, Zenon
      <3>. QED
        BY <3>4
    <2>5. \A t : ~InArrays(t, arrays) => uses(t) = {}
      BY <2>1 DEF InArrays
    <2>6. \A f \in Live : \A t \in {f.scope, f.slots, Globals} : uses(t) = {}
      <3>. HIDE DEF uses
      <3>. QED
        BY <2>1, <2>5, ScopesApart
    <2>. QED
      BY <2>2, <2>3, <2>4, <2>6 DEF ScopesOwned, Live
  <1>2. Inv => ScopesOwned
    BY <1>1
  <1>. QED
    BY <1>2, Invariance, PTL

(* A watched variable has reported the value it has now, under whatever    *)
(* name or argument it was assigned (assign_binding, OP_REFERENCE_LOCAL,   *)
(* and natives that are passed it by reference).                           *)
THEOREM WatchesAlwaysReport == Spec => []WatchesReport
  <1>1. Inv => WatchesReport
    BY DEF Inv, Sound, Reports, WatchesReport
  <1>. QED
    BY <1>1, Invariance, PTL
=============================================================================
