------------------------------ MODULE HeapProofs ------------------------------
(***************************************************************************)
(* Proofs about Heap, in two layers.  What natives, frames and the stack   *)
(* are to each other, and the intern table, need nothing of what natives   *)
(* do with their values; that no value in use is freed, and that a         *)
(* collection frees exactly the garbage, holds when natives that call back *)
(* keep on the stack what they still need (~Careless).                     *)
(***************************************************************************)
EXTENDS Heap, SequenceFacts, TLAPS

-----------------------------------------------------------------------------
(* Frames and natives are nested like brackets around parts of the stack:  *)
(* a native lies above the frames below it and under the frames it called. *)
FramesRise ==
  /\ \A j \in 1..Len(frames) : frames[j].base <= Len(stack)
  /\ \A j, k \in 1..Len(frames) : j < k => frames[j].base <= frames[k].base

NativesRise ==
  /\ natives # << >>
  /\ \A i \in 1..Len(natives) :
       /\ natives[i].args <= natives[i].base
       /\ natives[i].base <= Len(stack)
       /\ natives[i].depth <= Len(frames)
  /\ \A i, k \in 1..Len(natives) : i < k => natives[i].depth < natives[k].depth

Bracketed ==
  \A i \in 1..Len(natives), j \in 1..Len(frames) :
    /\ j <= natives[i].depth => frames[j].base <= natives[i].args
    /\ j > natives[i].depth => natives[i].base <= frames[j].base

Nested == FramesRise /\ NativesRise /\ Bracketed

(* Two strings of one text are never there together; marks are set only    *)
(* while a collection traces, and no native runs during one.               *)
TextsDistinct ==
  \A s, t \in objects \cap Strings : Text[s] = Text[t] => s = t

MarksTransient ==
  /\ collector # "off" => ~InNative
  /\ collector # "trace" => marked = {} /\ gray = {}
  /\ Globals \in objects
  /\ collector = "trace" => Globals \in marked

Shape == TypeOK /\ Nested /\ MarksTransient
Interning == InternedExact /\ TextsDistinct

(* A native that waits for a callback finds what it still needs below the  *)
(* frame of that callback.                                                 *)
KeptOnStack ==
  \A i \in 1..Len(natives) :
    natives[i].depth < Len(frames) =>
      \A v \in natives[i].held :
        \E p \in 1..frames[natives[i].depth + 1].base : stack[p] = v

(* What is not linked points to nothing.                                   *)
FreeIsEmpty ==
  /\ \A o \in Objects \ objects : elements[o] = {}
  /\ \A c \in Closures \ objects : suspended[c] = << >>

(* Tri-colour: what is marked can be reached, and what was blackened       *)
(* points to marked objects only.                                          *)
TriColour ==
  collector = "trace" =>
    /\ Roots \subseteq marked
    /\ marked \subseteq Reachable
    /\ \A o \in marked \ gray : Children(o) \subseteq marked

Managed == NoDangling /\ KeptOnStack /\ FreeIsEmpty /\ TriColour

-----------------------------------------------------------------------------
(* The parts of the types.                                                 *)
LEMMA NativeAt ==
  ASSUME TypeOK, NEW i \in 1..Len(natives)
  PROVE  /\ natives[i] \in Native /\ natives[i].held \subseteq Values
         /\ natives[i].args \in Nat /\ natives[i].base \in Nat
         /\ natives[i].depth \in Nat
  <1>1. natives[i] \in Native
    BY ElementOfSeq DEF TypeOK
  <1>. QED
    BY <1>1 DEF Native

(* The parts of a frame.                                                   *)
LEMMA FrameAt ==
  ASSUME TypeOK, NEW j \in 1..Len(frames)
  PROVE  /\ frames[j] \in Frame
         /\ frames[j].closure \in Closures /\ frames[j].base \in Nat
  <1>1. frames[j] \in Frame
    BY ElementOfSeq DEF TypeOK
  <1>. QED
    BY <1>1 DEF Frame

(* Lengths are numbers.                                                    *)
LEMMA Lengths ==
  ASSUME TypeOK
  PROVE  Len(natives) \in Nat /\ Len(frames) \in Nat /\ Len(stack) \in Nat
  BY LenProperties DEF TypeOK

(* What runs is the last native or the last frame.                         *)
LEMMA Running ==
  ASSUME TypeOK, Nested
  PROVE  /\ Len(natives) \in 1..Len(natives) /\ Last(natives) = natives[Len(natives)]
         /\ InNative => \A i \in 1..Len(natives) - 1 : natives[i].depth < Len(frames)
         /\ ~InNative =>
              /\ Len(frames) \in 1..Len(frames) /\ Last(frames) = frames[Len(frames)]
              /\ \A i \in 1..Len(natives) : natives[i].depth < Len(frames)
  <1>1. /\ Len(natives) \in 1..Len(natives) /\ Last(natives) = natives[Len(natives)]
        /\ Len(natives) \in Nat
    BY LastElement DEF TypeOK, Nested, NativesRise
  <1>2. \A i \in 1..Len(natives) : natives[i].depth \in Nat
    BY NativeAt
  <1>3. /\ \A i \in 1..Len(natives) : natives[i].depth <= Len(frames)
        /\ \A i \in 1..Len(natives) - 1 : natives[i].depth < natives[Len(natives)].depth
    BY <1>1 DEF Nested, NativesRise
  <1>4. Len(frames) \in Nat
    BY Lengths
  <1>5. ASSUME InNative
        PROVE  \A i \in 1..Len(natives) - 1 : natives[i].depth < Len(frames)
    BY <1>1, <1>3, <1>5 DEF InNative
  <1>6. ASSUME ~InNative
        PROVE  \A i \in 1..Len(natives) : natives[i].depth < Len(frames)
    BY <1>1, <1>2, <1>3, <1>4, <1>6 DEF InNative
  <1>7. ASSUME ~InNative
        PROVE  Len(frames) \in 1..Len(frames) /\ Last(frames) = frames[Len(frames)]
    <2>1. Len(frames) > 0
      BY <1>1, <1>2, <1>4, <1>6, <1>7
    <2>2. frames # << >>
      BY <1>4, <2>1, EmptySeq
    <2>. QED
      BY <2>2, LastElement DEF TypeOK
  <1>. QED
    BY <1>1, <1>5, <1>6, <1>7

(* The code that runs is above every frame and every native.               *)
LEMMA BaseIsTop ==
  ASSUME TypeOK, Nested
  PROVE  /\ Base \in Nat /\ Base <= Len(stack)
         /\ \A j \in 1..Len(frames) : frames[j].base <= Base
         /\ \A i \in 1..Len(natives) : natives[i].base <= Base
  <1>. DEFINE n == Len(natives)
              f == Len(frames)
  <1>1. n \in Nat /\ f \in Nat /\ Len(stack) \in Nat
    BY Lengths
  <1>2. /\ \A i \in 1..n : /\ natives[i].args \in Nat /\ natives[i].base \in Nat
                           /\ natives[i].depth \in Nat
        /\ \A j \in 1..f : frames[j].base \in Nat
    BY NativeAt, FrameAt
  <1>3. n \in 1..n /\ Last(natives) = natives[n]
    BY Running
  <1>4. CASE InNative
    <2>1. Base = natives[n].base /\ natives[n].depth = f
      BY <1>3, <1>4 DEF Base, InNative
    <2>2. \A j \in 1..f : frames[j].base <= natives[n].args
      BY <1>1, <1>2, <1>3, <2>1 DEF Nested, Bracketed
    <2>3. natives[n].args <= natives[n].base /\ natives[n].base <= Len(stack)
      BY <1>3 DEF Nested, NativesRise
    <2>4. ASSUME NEW i \in 1..n, i # n
          PROVE  natives[i].base <= natives[n].args
      <3>1. natives[i].depth < f /\ natives[i].depth \in Nat
        BY <1>1, <1>2, <1>4, <2>4, Running
      <3>2. natives[i].depth + 1 \in 1..f /\ natives[i].depth + 1 > natives[i].depth
        BY <1>1, <3>1
      <3>3. natives[i].base <= frames[natives[i].depth + 1].base
        BY <3>2 DEF Nested, Bracketed
      <3>4. frames[natives[i].depth + 1].base <= natives[n].args
        BY <2>2, <3>2
      <3>5. /\ frames[natives[i].depth + 1].base \in Nat /\ natives[i].base \in Nat
            /\ natives[n].args \in Nat
        BY <1>2, <1>3, <3>2
      <3>. QED
        BY <3>3, <3>4, <3>5
    <2>. QED
      BY <1>1, <1>2, <1>3, <2>1, <2>2, <2>3, <2>4
  <1>5. CASE ~InNative
    <2>1. /\ f \in 1..f /\ Base = frames[f].base
          /\ \A i \in 1..n : natives[i].depth < f
      BY <1>5, Running DEF Base
    <2>2. \A i \in 1..n : natives[i].base <= frames[f].base
      BY <1>2, <2>1 DEF Nested, Bracketed
    <2>3. frames[f].base <= Len(stack) /\ \A j \in 1..f : frames[j].base <= frames[f].base
      BY <1>1, <1>2, <2>1 DEF Nested, FramesRise
    <2>. QED
      BY <1>2, <2>1, <2>2, <2>3
  <1>. QED
    BY <1>4, <1>5

-----------------------------------------------------------------------------
(* How steps change what runs.  The natives stay where they are, whatever  *)
(* becomes of their local variables.                                       *)
NativesStay ==
  /\ Len(natives') = Len(natives)
  /\ \A i \in 1..Len(natives) :
       /\ natives'[i].args = natives[i].args
       /\ natives'[i].base = natives[i].base
       /\ natives'[i].depth = natives[i].depth

(* The stack is kept up to height h.                                       *)
KeptTo(h) ==
  /\ Len(stack') >= h
  /\ \A p \in 1..h : stack'[p] = stack[p]

(* Only the local variables of the running native change.                  *)
LEMMA HeldChanges ==
  ASSUME TypeOK, Nested, NEW H \in SUBSET Values,
         natives' = [natives EXCEPT ![Len(natives)].held = H]
  PROVE  /\ natives' \in Seq(Native) /\ natives' # << >>
         /\ NativesStay
         /\ natives'[Len(natives)].held = H
         /\ \A i \in 1..Len(natives) - 1 : natives'[i] = natives[i]
  <1>1. Len(natives) \in 1..Len(natives) /\ Len(natives) \in Nat
    BY Running, Lengths
  <1>2. natives[Len(natives)] \in Native
    BY <1>1, NativeAt
  <1>. DEFINE r == [natives[Len(natives)] EXCEPT !.held = H]
  <1>3. /\ r \in Native /\ r.held = H /\ r.args = natives[Len(natives)].args
        /\ r.base = natives[Len(natives)].base /\ r.depth = natives[Len(natives)].depth
    BY <1>2 DEF Native
  <1>4. natives' = [natives EXCEPT ![Len(natives)] = r]
    OBVIOUS
  <1>5. /\ natives' \in Seq(Native) /\ Len(natives') = Len(natives)
        /\ \A i \in 1..Len(natives) :
             natives'[i] = IF i = Len(natives) THEN r ELSE natives[i]
    BY <1>1, <1>3, <1>4, ExceptSeq DEF TypeOK
  <1>6. natives' # << >>
    BY <1>1, <1>5, EmptySeq
  <1>. QED
    BY <1>1, <1>3, <1>5, <1>6 DEF NativesStay

(* A step that leaves the natives as they are.                             *)
LEMMA NativesUnchanged ==
  ASSUME TypeOK, natives' = natives
  PROVE  natives' \in Seq(Native) /\ NativesStay
  BY DEF TypeOK, NativesStay

(* The stack changes above the code that runs.                             *)
LEMMA HeightChanges ==
  ASSUME TypeOK, Nested, NativesStay, natives' # << >>, frames' = frames,
         Len(stack') \in Nat, Len(stack') >= Base
  PROVE  Nested'
  <1>1. /\ Len(natives) \in Nat /\ Len(frames) \in Nat
        /\ \A i \in 1..Len(natives) : natives[i].base \in Nat
        /\ \A j \in 1..Len(frames) : frames[j].base \in Nat
    BY Lengths, NativeAt, FrameAt
  <1>2. /\ Base \in Nat
        /\ \A j \in 1..Len(frames) : frames[j].base <= Len(stack')
        /\ \A i \in 1..Len(natives) : natives[i].base <= Len(stack')
    BY <1>1, BaseIsTop
  <1>3. FramesRise'
    BY <1>2 DEF Nested, FramesRise
  <1>4. NativesRise'
    BY <1>2 DEF Nested, NativesRise, NativesStay
  <1>5. Bracketed'
    BY DEF Nested, Bracketed, NativesStay
  <1>. QED
    BY <1>3, <1>4, <1>5 DEF Nested

(* A frame is entered at height h.                                         *)
LEMMA FrameEntered ==
  ASSUME TypeOK, Nested, NativesStay, natives' # << >>,
         NEW h \in Nat, h >= Base, NEW c \in Closures,
         frames' = Append(frames, [closure |-> c, base |-> h]),
         Len(stack') \in Nat, Len(stack') >= h
  PROVE  Nested' /\ frames' \in Seq(Frame)
  <1>. DEFINE f == Len(frames)
  <1>1. /\ Len(natives) \in Nat /\ f \in Nat
        /\ \A i \in 1..Len(natives) : natives[i].base \in Nat /\ natives[i].depth \in Nat
        /\ \A j \in 1..f : frames[j].base \in Nat
    BY Lengths, NativeAt, FrameAt
  <1>2. /\ Base \in Nat
        /\ \A j \in 1..f : frames[j].base <= h
        /\ \A i \in 1..Len(natives) : natives[i].base <= h
    BY <1>1, BaseIsTop
  <1>3. [closure |-> c, base |-> h] \in Frame
    BY DEF Frame
  <1>4. /\ frames' \in Seq(Frame) /\ Len(frames') = f + 1
        /\ \A j \in 1..f : frames'[j] = frames[j]
        /\ frames'[f + 1] = [closure |-> c, base |-> h]
    BY <1>1, <1>3, AppendProperties DEF TypeOK
  <1>5. /\ \A j \in 1..f : frames'[j].base = frames[j].base
        /\ frames'[f + 1].base = h
    BY <1>4
  <1>6. \A j \in 1..f + 1 : j = f + 1 \/ j \in 1..f
    BY <1>1
  <1>7. FramesRise'
    <2>1. \A j \in 1..f + 1 : frames'[j].base <= h
      BY <1>2, <1>5, <1>6
    <2>2. \A j \in 1..f + 1 : frames'[j].base \in Nat
      BY <1>1, <1>5, <1>6
    <2>3. \A j \in 1..Len(frames') : frames'[j].base <= Len(stack')
      BY <1>4, <2>1, <2>2
    <2>4. \A j, k \in 1..f + 1 : j < k => frames'[j].base <= frames'[k].base
      BY <1>1, <1>5, <1>6, <2>1 DEF Nested, FramesRise
    <2>. QED
      BY <1>4, <2>3, <2>4 DEF FramesRise
  <1>8. NativesRise'
    <2>1. \A i \in 1..Len(natives) : natives[i].base <= Len(stack') /\ natives[i].depth <= f + 1
      BY <1>1, <1>2 DEF Nested, NativesRise
    <2>. QED
      BY <1>4, <2>1 DEF Nested, NativesRise, NativesStay
  <1>9. Bracketed'
    <2>1. ASSUME NEW i \in 1..Len(natives), NEW j \in 1..f + 1
          PROVE  /\ j <= natives[i].depth => frames'[j].base <= natives[i].args
                 /\ j > natives[i].depth => natives[i].base <= frames'[j].base
      <3>1. natives[i].depth <= f
        BY DEF Nested, NativesRise
      <3>2. CASE j \in 1..f
        BY <1>5, <3>2 DEF Nested, Bracketed
      <3>3. CASE j = f + 1
        BY <1>1, <1>2, <1>5, <3>1, <3>3
      <3>. QED
        BY <1>6, <3>2, <3>3
    <2>. QED
      BY <1>4, <2>1 DEF Bracketed, NativesStay
  <1>. QED
    BY <1>4, <1>7, <1>8, <1>9 DEF Nested

(* The last frame is dropped with its operands.                            *)
LEMMA FrameLeft ==
  ASSUME TypeOK, Nested, ~InNative, NativesStay, natives' # << >>,
         frames' = Front(frames),
         Len(stack') \in Nat, Len(stack') >= Last(frames).base
  PROVE  /\ Nested' /\ frames' \in Seq(Frame)
         /\ Len(frames') = Len(frames) - 1
         /\ \A j \in 1..Len(frames') : frames'[j] = frames[j]
  <1>. DEFINE f == Len(frames)
  <1>1. /\ Len(natives) \in Nat /\ f \in Nat
        /\ \A i \in 1..Len(natives) : natives[i].base \in Nat /\ natives[i].depth \in Nat
        /\ \A j \in 1..f : frames[j].base \in Nat
    BY Lengths, NativeAt, FrameAt
  <1>2. /\ f \in 1..f /\ Base = frames[f].base /\ Last(frames) = frames[f]
        /\ \A i \in 1..Len(natives) : natives[i].depth < f
    BY Running DEF Base
  <1>3. /\ frames' \in Seq(Frame) /\ Len(frames') = f - 1
        /\ \A j \in 1..f - 1 : frames'[j] = frames[j]
    <2>1. f - 1 \in 0..f /\ frames' = SubSeq(frames, 1, f - 1)
      BY <1>1, <1>2 DEF Front
    <2>. QED
      BY <2>1, Prefix DEF TypeOK
  <1>4. /\ \A j \in 1..f : frames[j].base <= Len(stack')
        /\ \A i \in 1..Len(natives) : natives[i].base <= Len(stack')
    <2>1. /\ Len(stack') >= Base /\ Base \in Nat
          /\ \A j \in 1..f : frames[j].base <= Base
          /\ \A i \in 1..Len(natives) : natives[i].base <= Base
      BY <1>2, BaseIsTop
    <2>. QED
      BY <1>1, <2>1
  <1>5. 1..f - 1 \subseteq 1..f
    BY <1>1
  <1>6. FramesRise'
    BY <1>3, <1>4, <1>5 DEF Nested, FramesRise
  <1>7. NativesRise'
    <2>1. \A i \in 1..Len(natives) : natives[i].depth <= f - 1
      BY <1>1, <1>2
    <2>. QED
      BY <1>3, <1>4, <2>1 DEF Nested, NativesRise, NativesStay
  <1>8. Bracketed'
    BY <1>3, <1>5 DEF Nested, Bracketed, NativesStay
  <1>. QED
    BY <1>3, <1>6, <1>7, <1>8 DEF Nested

(* The code that runs calls a native with the operands above height h.     *)
LEMMA NativeEntered ==
  ASSUME TypeOK, Nested, ~InNative, NEW h \in Nat, h >= Base, h <= Len(stack),
         natives' = Append(natives, [held |-> {}, args |-> h, base |-> Len(stack),
                                     depth |-> Len(frames)]),
         frames' = frames, stack' = stack
  PROVE  Nested' /\ natives' \in Seq(Native)
  <1>. DEFINE n == Len(natives)
              r == [held |-> {}, args |-> h, base |-> Len(stack), depth |-> Len(frames)]
  <1>1. /\ n \in Nat /\ Len(frames) \in Nat /\ Len(stack) \in Nat
        /\ \A j \in 1..Len(frames) : frames[j].base \in Nat
        /\ \A i \in 1..n : natives[i].depth < Len(frames)
    BY Lengths, FrameAt, Running
  <1>2. r \in Native
    BY <1>1 DEF Native
  <1>3. /\ natives' \in Seq(Native) /\ Len(natives') = n + 1
        /\ \A i \in 1..n : natives'[i] = natives[i]
        /\ natives'[n + 1] = r
    BY <1>1, <1>2, AppendProperties DEF TypeOK
  <1>4. /\ natives'[n + 1].args = h /\ natives'[n + 1].base = Len(stack)
        /\ natives'[n + 1].depth = Len(frames)
    BY <1>3
  <1>5. \A i \in 1..n + 1 : i = n + 1 \/ i \in 1..n
    BY <1>1
  <1>6. \A j \in 1..Len(frames) : frames[j].base <= h
    BY <1>1, BaseIsTop
  <1>7. FramesRise'
    BY DEF Nested, FramesRise
  <1>8. NativesRise'
    <2>1. natives' # << >>
      BY <1>1, <1>3, EmptySeq
    <2>2. \A i \in 1..n + 1 : /\ natives'[i].args <= natives'[i].base
                              /\ natives'[i].base <= Len(stack)
                              /\ natives'[i].depth <= Len(frames)
      BY <1>1, <1>3, <1>4, <1>5 DEF Nested, NativesRise
    <2>3. \A i, k \in 1..n + 1 : i < k => natives'[i].depth < natives'[k].depth
      BY <1>1, <1>3, <1>4, <1>5 DEF Nested, NativesRise
    <2>. QED
      BY <1>3, <2>1, <2>2, <2>3 DEF NativesRise
  <1>9. Bracketed'
    BY <1>1, <1>3, <1>4, <1>5, <1>6 DEF Nested, Bracketed
  <1>. QED
    BY <1>3, <1>7, <1>8, <1>9 DEF Nested

(* The running native returns: its part of the stack is dropped.           *)
LEMMA NativeLeft ==
  ASSUME TypeOK, Nested, InNative, Len(natives) > 1, natives' = Front(natives),
         frames' = frames,
         Len(stack') \in Nat, Len(stack') >= Last(natives).args
  PROVE  /\ Nested' /\ natives' \in Seq(Native)
         /\ Len(natives') = Len(natives) - 1
         /\ \A i \in 1..Len(natives') : natives'[i] = natives[i]
         /\ Last(natives).args \in 0..Len(stack)
         /\ \A j \in 1..Len(frames) : frames[j].base <= Last(natives).args
  <1>. DEFINE n == Len(natives)
  <1>1. /\ n \in Nat /\ Len(frames) \in Nat /\ Len(stack) \in Nat
        /\ \A i \in 1..n : /\ natives[i].args \in Nat /\ natives[i].base \in Nat
                           /\ natives[i].depth \in Nat
        /\ \A j \in 1..Len(frames) : frames[j].base \in Nat
    BY Lengths, NativeAt, FrameAt
  <1>2. /\ n \in 1..n /\ Last(natives) = natives[n]
        /\ \A i \in 1..n - 1 : natives[i].depth < Len(frames)
    BY Running
  <1>3. /\ natives' \in Seq(Native) /\ Len(natives') = n - 1
        /\ \A i \in 1..n - 1 : natives'[i] = natives[i]
    <2>1. n - 1 \in 0..n /\ natives' = SubSeq(natives, 1, n - 1)
      BY <1>1, <1>2 DEF Front
    <2>. QED
      BY <2>1, Prefix DEF TypeOK
  <1>4. 1..n - 1 \subseteq 1..n
    BY <1>1
  <1>5. \A j \in 1..Len(frames) : frames[j].base <= natives[n].args
    <2>1. natives[n].depth = Len(frames)
      BY <1>2 DEF InNative
    <2>. QED
      BY <1>1, <1>2, <2>1 DEF Nested, Bracketed
  <1>6. natives[n].args \in 0..Len(stack)
    <2>1. natives[n].args <= natives[n].base /\ natives[n].base <= Len(stack)
      BY <1>2 DEF Nested, NativesRise
    <2>. QED
      BY <1>1, <1>2, <2>1
  <1>7. \A i \in 1..n - 1 : natives[i].base <= natives[n].args
    <2>1. ASSUME NEW i \in 1..n - 1
          PROVE  natives[i].base <= natives[n].args
      <3>1. i \in 1..n
        BY <1>4
      <3>2. natives[i].depth < Len(frames) /\ natives[i].depth \in Nat
        BY <1>1, <1>2, <3>1
      <3>3. natives[i].depth + 1 \in 1..Len(frames)
        BY <1>1, <3>2
      <3>4. natives[i].base <= frames[natives[i].depth + 1].base
        BY <1>1, <3>1, <3>2, <3>3 DEF Nested, Bracketed
      <3>5. frames[natives[i].depth + 1].base <= natives[n].args
        BY <1>5, <3>3
      <3>6. /\ frames[natives[i].depth + 1].base \in Nat /\ natives[i].base \in Nat
            /\ natives[n].args \in Nat
        BY <1>1, <1>2, <3>1, <3>3
      <3>. QED
        BY <3>4, <3>5, <3>6
    <2>. QED
      BY <2>1
  <1>8. /\ \A j \in 1..Len(frames) : frames[j].base <= Len(stack')
        /\ \A i \in 1..n - 1 : natives[i].base <= Len(stack')
    <2>1. natives[n].args <= Len(stack') /\ natives[n].args \in Nat
      BY <1>1, <1>2
    <2>2. \A i \in 1..n - 1 : natives[i].base \in Nat
      BY <1>1, <1>4
    <2>3. \A x \in Nat : x <= natives[n].args => x <= Len(stack')
      BY <2>1
    <2>. QED
      BY <1>1, <1>5, <1>7, <2>2, <2>3
  <1>9. FramesRise'
    BY <1>8 DEF Nested, FramesRise
  <1>10. NativesRise'
    <2>1. natives' # << >>
      BY <1>1, <1>3, EmptySeq
    <2>. QED
      BY <1>3, <1>4, <1>8, <2>1 DEF Nested, NativesRise
  <1>11. Bracketed'
    BY <1>3, <1>4 DEF Nested, Bracketed
  <1>. QED
    BY <1>2, <1>3, <1>5, <1>6, <1>9, <1>10, <1>11 DEF Nested

-----------------------------------------------------------------------------
(* The values the code has at hand are in use, and values.                 *)
LEMMA HandsInUse ==
  ASSUME TypeOK, Nested
  PROVE  /\ Hands \subseteq InUse /\ Hands \subseteq Values
         /\ ToSet(stack) \subseteq InUse /\ ToSet(callables) \subseteq InUse
         /\ Globals \in InUse
         /\ Last(natives).held \subseteq InUse
  <1>1. Closures \subseteq Values
    BY HeapAssumption DEF Values
  <1>2. ToSet(stack) \subseteq Values /\ ToSet(callables) \subseteq Closures
    BY ElementsOf DEF TypeOK
  <1>3. Last(natives).held \subseteq InUse /\ Last(natives).held \subseteq Values
    <2>1. Len(natives) \in DOMAIN natives /\ Last(natives) = natives[Len(natives)]
      BY Running, LenProperties DEF TypeOK
    <2>2. natives[Len(natives)].held \subseteq Values
      BY Running, NativeAt
    <2>. QED
      BY <2>1, <2>2 DEF InUse
  <1>4. ToSet(stack) \subseteq InUse /\ ToSet(callables) \subseteq InUse /\ Globals \in InUse
    BY DEF InUse, Roots, CallableRoots
  <1>5. \A h \in Nat : Above(h) \subseteq ToSet(stack)
    <2>1. ASSUME NEW h \in Nat
          PROVE  Above(h) \subseteq ToSet(stack)
      <3>1. h + 1 \in Nat \ {0} /\ Len(stack) \in Int /\ Len(stack) <= Len(stack)
        BY Lengths
      <3>. QED
        BY <3>1, PartOf DEF Above, TypeOK
    <2>. QED
      BY <2>1
  <1>6. CASE InNative
    <2>1. Last(natives).args \in Nat
      BY Running, NativeAt
    <2>2. Above(Last(natives).args) \subseteq ToSet(stack)
      BY <1>5, <2>1
    <2>. QED
      BY <1>1, <1>2, <1>3, <1>4, <1>6, <2>2 DEF Hands
  <1>7. CASE ~InNative
    <2>1. Above(Base) \subseteq ToSet(stack)
      BY <1>5, BaseIsTop
    <2>2. Last(frames).closure \in Closures /\ Last(frames).closure \in InUse
      <3>1. Len(frames) \in DOMAIN frames /\ Last(frames) = frames[Len(frames)]
        BY <1>7, Running, LenProperties DEF TypeOK
      <3>2. frames[Len(frames)].closure \in Closures
        BY <1>7, Running, FrameAt
      <3>. QED
        BY <3>1, <3>2 DEF InUse, Roots
    <2>. QED
      BY <1>1, <1>2, <1>3, <1>4, <1>7, <2>1, <2>2 DEF Hands
  <1>. QED
    BY <1>6, <1>7

(* What the stack and the natives are once the code has a value more.      *)
LEMMA ObtainShape ==
  ASSUME TypeOK, Nested, NEW o \in Values, Obtain(o)
  PROVE  /\ stack' \in Seq(Values) /\ frames' \in Seq(Frame)
         /\ natives' \in Seq(Native) /\ callables' \in Seq(Closures)
         /\ Nested' /\ KeptTo(Len(stack)) /\ NativesStay
         /\ ToSet(stack') \subseteq ToSet(stack) \cup {o}
         /\ frames' = frames /\ callables' = callables
         /\ \A i \in 1..Len(natives) :
              /\ natives'[i].held \subseteq natives[i].held \cup {o}
              /\ natives[i].depth < Len(frames) => natives'[i] = natives[i]
  <1>1. /\ frames' = frames /\ callables' = callables /\ Len(stack) \in Nat
        /\ Base <= Len(stack) /\ Base \in Nat
    BY Lengths, BaseIsTop DEF Obtain
  <1>2. CASE InNative
    <2>. DEFINE H == Last(natives).held \cup {o}
    <2>1. /\ natives' = [natives EXCEPT ![Len(natives)].held = @ \cup {o}]
          /\ stack' = stack
      BY <1>2 DEF Obtain
    <2>2. /\ Len(natives) \in 1..Len(natives) /\ Last(natives) = natives[Len(natives)]
          /\ natives[Len(natives)].held \subseteq Values /\ Len(natives) \in Nat
      BY Running, NativeAt, Lengths
    <2>3. natives' = [natives EXCEPT ![Len(natives)].held = H] /\ H \in SUBSET Values
      BY <2>1, <2>2
    <2>4. /\ natives' \in Seq(Native) /\ natives' # << >> /\ NativesStay
          /\ natives'[Len(natives)].held = H
          /\ \A i \in 1..Len(natives) - 1 : natives'[i] = natives[i]
      BY <2>3, HeldChanges
    <2>5. Nested'
      BY <1>1, <2>1, <2>4, HeightChanges
    <2>6. natives[Len(natives)].depth = Len(frames) /\ Len(frames) \in Nat
      BY <1>2, <2>2, Lengths DEF InNative
    <2>7. \A i \in 1..Len(natives) : i = Len(natives) \/ i \in 1..Len(natives) - 1
      BY <2>2
    <2>8. \A i \in 1..Len(natives) :
            /\ natives'[i].held \subseteq natives[i].held \cup {o}
            /\ natives[i].depth < Len(frames) => natives'[i] = natives[i]
      BY <2>2, <2>4, <2>6, <2>7
    <2>9. KeptTo(Len(stack)) /\ ToSet(stack') \subseteq ToSet(stack) \cup {o}
      BY <1>1, <2>1 DEF KeptTo
    <2>. QED
      BY <1>1, <2>1, <2>4, <2>5, <2>8, <2>9 DEF TypeOK
  <1>3. CASE ~InNative
    <2>1. natives' = natives /\ stack' = Append(stack, o)
      BY <1>3 DEF Obtain
    <2>2. /\ stack' \in Seq(Values) /\ Len(stack') = Len(stack) + 1
          /\ \A p \in 1..Len(stack) : stack'[p] = stack[p]
          /\ stack'[Len(stack) + 1] = o
      BY <1>1, <2>1, AppendProperties DEF TypeOK
    <2>3. natives' \in Seq(Native) /\ NativesStay /\ natives' # << >>
      BY <2>1, NativesUnchanged DEF Nested, NativesRise
    <2>4. Len(stack') >= Base /\ Len(stack') \in Nat /\ Len(stack') >= Len(stack)
      BY <1>1, <2>2
    <2>5. Nested'
      BY <1>1, <2>3, <2>4, HeightChanges
    <2>6. ToSet(stack') \subseteq ToSet(stack) \cup {o}
      <3>1. \A p \in 1..Len(stack) + 1 : p \in 1..Len(stack) \/ p = Len(stack) + 1
        BY <1>1
      <3>2. /\ ToSet(stack) = {stack[i] : i \in 1..Len(stack)}
            /\ ToSet(stack') = {stack'[i] : i \in 1..Len(stack')}
        BY <2>2, ElementsOf DEF TypeOK
      <3>. QED
        BY <2>2, <3>1, <3>2
    <2>. QED
      BY <1>1, <2>1, <2>2, <2>3, <2>4, <2>5, <2>6 DEF TypeOK, KeptTo
  <1>. QED
    BY <1>2, <1>3

(* Outside a collection there is nothing to say about marks.               *)
LEMMA QuietStep ==
  ASSUME Shape, Executes, TypeOK', Nested', objects \subseteq objects', UNCHANGED marks
  PROVE  Shape'
  BY DEF Shape, MarksTransient, Executes, marks

(* A new object keeps the shape.                                           *)
LEMMA NewShape ==
  ASSUME Shape, NEW o \in Values, New(o)
  PROVE  Shape'
  <1>1. Obtain(o) /\ objects' = objects \cup {o} /\ TypeOK /\ Nested
    BY DEF New, Link, Shape
  <1>2. TypeOK'
    BY <1>1, ObtainShape DEF New, Link, TypeOK, marks, graph, Values
  <1>. QED
    BY <1>1, <1>2, ObtainShape, QuietStep DEF New

(* So does one that holds a value.                                         *)
LEMMA NewHoldingShape ==
  ASSUME Shape, NEW c \in Containers, NEW v \in Values, NewHolding(c, v)
  PROVE  Shape'
  <1>1. /\ Obtain(c) /\ objects' = objects \cup {c} /\ TypeOK /\ Nested
        /\ c \in Objects /\ c # Globals
    BY DEF NewHolding, Shape, MarksTransient, Containers
  <1>2. c \in Values
    BY <1>1 DEF Values
  <1>3. elements' \in [Objects -> SUBSET Values]
    BY <1>1 DEF NewHolding, TypeOK
  <1>4. TypeOK'
    BY <1>1, <1>2, <1>3, ObtainShape DEF NewHolding, TypeOK, marks, graph
  <1>. QED
    BY <1>1, <1>2, <1>4, ObtainShape, QuietStep DEF NewHolding

(* A string is a value.                                                    *)
LEMMA StringsAreValues == Strings \subseteq Values
  BY HeapAssumption DEF Values

(* And a new string.                                                       *)
LEMMA InternNewShape ==
  ASSUME Shape, NEW s \in Strings, InternNew(s)
  PROVE  Shape'
  <1>1. /\ Obtain(s) /\ objects' = objects \cup {s} /\ TypeOK /\ Nested
        /\ s \in Values
    BY StringsAreValues DEF InternNew, Link, Shape
  <1>2. TypeOK'
    BY <1>1, ObtainShape DEF InternNew, Link, TypeOK, marks, graph, Values
  <1>. QED
    BY <1>1, <1>2, ObtainShape, QuietStep DEF InternNew

(* A string found again keeps the shape.                                   *)
LEMMA InternFoundShape ==
  ASSUME Shape, NEW s \in Strings, InternFound(s)
  PROVE  Shape'
  <1>1. /\ Obtain(s) /\ TypeOK /\ Nested /\ s \in Values
    BY StringsAreValues DEF InternFound, Shape
  <1>2. TypeOK'
    BY <1>1, ObtainShape DEF InternFound, TypeOK, marks, graph
  <1>. QED
    BY <1>1, <1>2, ObtainShape, QuietStep DEF InternFound

(* A value that is read keeps the shape.                                   *)
LEMMA LoadShape ==
  ASSUME Shape, NEW o \in Values, Load(o)
  PROVE  Shape'
  <1>1. /\ Obtain(o) /\ TypeOK /\ Nested
    BY DEF Load, Shape
  <1>2. TypeOK'
    BY <1>1, ObtainShape DEF Load, TypeOK, marks, graph
  <1>. QED
    BY <1>1, <1>2, ObtainShape, QuietStep DEF Load

(* An element that is taken out keeps the shape.                           *)
LEMMA RemoveElementShape ==
  ASSUME Shape, NEW c \in Containers, NEW v \in Values, RemoveElement(c, v)
  PROVE  Shape'
  <1>1. /\ Obtain(v) /\ TypeOK /\ Nested
    BY DEF RemoveElement, Shape
  <1>2. elements' \in [Objects -> SUBSET Values]
    BY <1>1 DEF RemoveElement, TypeOK
  <1>3. TypeOK'
    BY <1>1, <1>2, ObtainShape DEF RemoveElement, TypeOK, marks, graph
  <1>. QED
    BY <1>1, <1>3, ObtainShape, QuietStep DEF RemoveElement

(* A value that is stored moves nothing on the stack.                      *)
LEMMA StoreShape ==
  ASSUME Shape, NEW c \in Containers, NEW v \in Values, Store(c, v)
  PROVE  Shape'
  <1>1. TypeOK /\ Nested
    BY DEF Shape
  <1>2. elements' \in [Objects -> SUBSET Values]
    BY <1>1 DEF Store, TypeOK
  <1>3. TypeOK' /\ Nested'
    BY <1>1, <1>2 DEF Store, TypeOK, marks, roots, Nested, FramesRise, NativesRise, Bracketed
  <1>. QED
    BY <1>3, QuietStep DEF Store

(* A native pushes above what it found on the stack.                       *)
LEMMA PushShape ==
  ASSUME Shape, NEW o \in Values, Push(o)
  PROVE  Shape' /\ KeptTo(Base) /\ ToSet(stack') \subseteq ToSet(stack) \cup {o}
  <1>1. /\ TypeOK /\ Nested /\ InNative /\ Len(stack) \in Nat
        /\ stack' = Append(stack, o) /\ natives' = natives /\ frames' = frames
    BY Lengths DEF Shape, Push
  <1>2. stack' \in Seq(Values) /\ Len(stack') = Len(stack) + 1
    BY <1>1, AppendProperties DEF TypeOK
  <1>3. Len(stack') \in Nat /\ Len(stack') >= Base
    BY <1>1, <1>2, BaseIsTop
  <1>4. NativesStay /\ natives' # << >>
    BY <1>1, NativesUnchanged DEF Nested, NativesRise
  <1>5. Nested'
    BY <1>1, <1>3, <1>4, HeightChanges
  <1>6. TypeOK'
    BY <1>1, <1>2 DEF Push, TypeOK, marks, graph
  <1>7. KeptTo(Base) /\ ToSet(stack') \subseteq ToSet(stack) \cup {o}
    <2>1. stack \in Seq(Values)
      BY <1>1 DEF TypeOK
    <2>2. /\ \A p \in 1..Len(stack) : stack'[p] = stack[p]
          /\ stack'[Len(stack) + 1] = o
      BY <1>1, <2>1, AppendProperties
    <2>3. Base \in Nat /\ Base <= Len(stack)
      BY <1>1, BaseIsTop
    <2>4. /\ ToSet(stack) = {stack[i] : i \in 1..Len(stack)}
          /\ ToSet(stack') = {stack'[i] : i \in 1..Len(stack')}
      BY <1>2, <2>1, ElementsOf
    <2>5. \A p \in 1..Len(stack) + 1 : p \in 1..Len(stack) \/ p = Len(stack) + 1
      BY <1>1
    <2>6. \A p \in 1..Base : p \in 1..Len(stack)
      BY <1>1, <2>3
    <2>. QED
      BY <1>2, <1>3, <2>2, <2>4, <2>5, <2>6 DEF KeptTo
  <1>. QED
    BY <1>5, <1>6, <1>7, QuietStep DEF Push

(* The code pops only what it pushed itself.                               *)
LEMMA PopShape ==
  ASSUME Shape, Pop
  PROVE  Shape' /\ KeptTo(Base) /\ ToSet(stack') \subseteq ToSet(stack)
  <1>1. /\ TypeOK /\ Nested /\ Len(stack) \in Nat /\ Len(stack) > Base
        /\ stack' = Front(stack) /\ natives' = natives /\ frames' = frames
    BY Lengths DEF Shape, Pop
  <1>2. /\ Base \in Nat /\ Len(stack) - 1 \in 0..Len(stack) /\ Len(stack) - 1 \in Nat
        /\ Len(stack) - 1 >= Base
    BY <1>1, BaseIsTop
  <1>3. stack' = SubSeq(stack, 1, Len(stack) - 1)
    BY <1>1 DEF Front
  <1>4. /\ stack' \in Seq(Values) /\ Len(stack') = Len(stack) - 1
        /\ \A p \in 1..Len(stack) - 1 : stack'[p] = stack[p]
    <2>1. stack \in Seq(Values)
      BY <1>1 DEF TypeOK
    <2>2. \A h \in 0..Len(stack) :
             /\ SubSeq(stack, 1, h) \in Seq(Values) /\ Len(SubSeq(stack, 1, h)) = h
             /\ \A i \in 1..h : SubSeq(stack, 1, h)[i] = stack[i]
      BY <2>1, Prefix
    <2>. QED
      BY <1>2, <1>3, <2>2
  <1>5. KeptTo(Base)
    BY <1>1, <1>2, <1>4 DEF KeptTo
  <1>6. ToSet(stack') \subseteq ToSet(stack)
    <2>1. Len(stack) - 1 \in Int /\ Len(stack) - 1 <= Len(stack) /\ 1 \in Nat \ {0}
      BY <1>1
    <2>. QED
      BY <1>3, <2>1, PartOf DEF TypeOK, Shape
  <1>7. NativesStay /\ natives' # << >>
    BY <1>1, NativesUnchanged DEF Nested, NativesRise
  <1>8. Nested'
    BY <1>1, <1>2, <1>4, <1>7, HeightChanges
  <1>9. TypeOK'
    BY <1>1, <1>4 DEF Pop, TypeOK, marks, graph
  <1>. QED
    BY <1>5, <1>6, <1>8, <1>9, QuietStep DEF Pop

(* A callable more.                                                        *)
LEMMA AcquireShape ==
  ASSUME Shape, NEW c \in Values, Acquire(c)
  PROVE  Shape' /\ ToSet(callables') \subseteq ToSet(callables) \cup {c}
  <1>1. /\ TypeOK /\ Nested /\ c \in Closures /\ Len(callables) \in Nat
        /\ callables' = Append(callables, c)
    BY LenProperties DEF Shape, TypeOK, Acquire
  <1>2. /\ callables' \in Seq(Closures) /\ Len(callables') = Len(callables) + 1
        /\ \A i \in 1..Len(callables) : callables'[i] = callables[i]
        /\ callables'[Len(callables) + 1] = c
    BY <1>1, AppendProperties DEF TypeOK
  <1>3. /\ ToSet(callables) = {callables[i] : i \in 1..Len(callables)}
        /\ ToSet(callables') = {callables'[i] : i \in 1..Len(callables')}
    <2>1. callables \in Seq(Closures) /\ callables' \in Seq(Closures)
      BY <1>1, <1>2 DEF TypeOK
    <2>. QED
      BY <2>1, ElementsOf
  <1>4. \A i \in 1..Len(callables) + 1 : i \in 1..Len(callables) \/ i = Len(callables) + 1
    BY <1>1
  <1>5. ToSet(callables') \subseteq ToSet(callables) \cup {c}
    BY <1>2, <1>3, <1>4
  <1>6. TypeOK' /\ Nested'
    BY <1>1, <1>2 DEF Acquire, TypeOK, marks, graph, Nested, FramesRise, NativesRise, Bracketed
  <1>. QED
    BY <1>5, <1>6, QuietStep DEF Acquire

(* A callable less.                                                        *)
LEMMA ReleaseShape ==
  ASSUME Shape, NEW i \in DOMAIN callables, Release(i)
  PROVE  Shape' /\ ToSet(callables') \subseteq ToSet(callables)
  <1>1. /\ TypeOK /\ Nested /\ Len(callables) \in Nat /\ i \in 1..Len(callables)
        /\ callables' = SubSeq(callables, 1, i - 1)
                          \o SubSeq(callables, i + 1, Len(callables))
    BY LenProperties DEF Shape, TypeOK, Release, RemoveAt
  <1>. DEFINE low == SubSeq(callables, 1, i - 1)
              high == SubSeq(callables, i + 1, Len(callables))
  <1>2. low \in Seq(Closures) /\ ToSet(low) \subseteq ToSet(callables)
    <2>1. i - 1 \in Int /\ i - 1 <= Len(callables) /\ 1 \in Nat \ {0}
      BY <1>1
    <2>. QED
      BY <1>1, <2>1, PartOf DEF TypeOK
  <1>3. high \in Seq(Closures) /\ ToSet(high) \subseteq ToSet(callables)
    <2>1. i + 1 \in Nat \ {0} /\ Len(callables) \in Int /\ Len(callables) <= Len(callables)
      BY <1>1
    <2>. QED
      BY <1>1, <2>1, PartOf DEF TypeOK
  <1>4. callables' = low \o high
    BY <1>1
  <1>5. callables' \in Seq(Closures) /\ ToSet(callables') \subseteq ToSet(callables)
    <2>. HIDE DEF low, high
    <2>. QED
      BY <1>2, <1>3, <1>4, PutTogether
  <1>6. TypeOK' /\ Nested'
    BY <1>1, <1>5 DEF Release, TypeOK, marks, graph, Nested, FramesRise, NativesRise, Bracketed
  <1>. QED
    BY <1>5, <1>6, QuietStep DEF Release

(* A native starts with the operands on top of the stack.                  *)
LEMMA CallNativeShape ==
  ASSUME Shape, NEW n \in Nat, CallNative(n)
  PROVE  Shape'
  <1>1. /\ TypeOK /\ Nested /\ Len(stack) \in Nat /\ Base \in Nat
        /\ ~InNative /\ Len(stack) - n >= Base
    BY Lengths, BaseIsTop DEF Shape, CallNative
  <1>2. Len(stack) - n \in Nat /\ Len(stack) - n <= Len(stack)
    BY <1>1
  <1>3. /\ natives' = Append(natives, [held |-> {}, args |-> Len(stack) - n,
                                       base |-> Len(stack), depth |-> Len(frames)])
        /\ frames' = frames /\ stack' = stack
    BY DEF CallNative
  <1>4. Nested' /\ natives' \in Seq(Native)
    BY <1>1, <1>2, <1>3, NativeEntered
  <1>5. TypeOK'
    BY <1>1, <1>4 DEF CallNative, TypeOK, marks, graph
  <1>. QED
    BY <1>4, <1>5, QuietStep DEF CallNative

(* What the caller gets is a sequence of at most one value.                *)
LEMMA ResultIs ==
  ASSUME NEW o \in Values \cup {None}
  PROVE  /\ Result(o) \in Seq(Values) /\ Len(Result(o)) \in Nat
         /\ Len(Result(o)) <= 1
         /\ ToSet(Result(o)) = {o} \ {None}
  <1>1. None \notin Values
    BY HeapAssumption DEF Values
  <1>2. CASE o = None
    <2>1. Result(o) = << >> /\ {o} \ {None} = {}
      BY <1>2 DEF Result
    <2>2. << >> \in Seq(Values) /\ Len(<< >>) = 0
      BY EmptySeq
    <2>3. ToSet(<< >>) = {}
      BY DEF ToSet
    <2>. QED
      BY <2>1, <2>2, <2>3
  <1>3. CASE o # None
    <2>1. Result(o) = <<o>> /\ {o} \ {None} = {o} /\ o \in Values
      BY <1>3 DEF Result
    <2>2. <<o>> \in Seq(Values) /\ Len(<<o>>) = 1 /\ ToSet(<<o>>) = {o}
      BY <2>1 DEF ToSet
    <2>. QED
      BY <2>1, <2>2
  <1>. QED
    BY <1>2, <1>3

(* The stack is cut back to height h and gets the values of s.             *)
LEMMA CutBack ==
  ASSUME TypeOK, NEW h \in 0..Len(stack), NEW s \in Seq(Values),
         stack' = SubSeq(stack, 1, h) \o s
  PROVE  /\ stack' \in Seq(Values) /\ Len(stack') = h + Len(s)
         /\ Len(stack') \in Nat /\ Len(stack') >= h
         /\ KeptTo(h)
         /\ ToSet(stack') \subseteq ToSet(stack) \cup ToSet(s)
  <1>1. Len(stack) \in Nat /\ Len(s) \in Nat /\ h \in Nat /\ h <= Len(stack)
    BY Lengths, LenProperties
  <1>. DEFINE low == SubSeq(stack, 1, h)
  <1>2. /\ low \in Seq(Values) /\ Len(low) = h
        /\ \A p \in 1..h : low[p] = stack[p]
    BY Prefix DEF TypeOK
  <1>3. ToSet(low) \subseteq ToSet(stack)
    <2>1. 1 \in Nat \ {0} /\ h \in Int /\ h <= Len(stack)
      BY <1>1
    <2>. QED
      BY <2>1, PartOf DEF TypeOK
  <1>4. stack' = low \o s
    OBVIOUS
  <1>. HIDE DEF low
  <1>5. /\ stack' \in Seq(Values) /\ Len(stack') = h + Len(s)
        /\ \A p \in 1..h : stack'[p] = low[p]
        /\ ToSet(stack') \subseteq ToSet(low) \cup ToSet(s)
    <2>1. /\ low \o s \in Seq(Values) /\ Len(low \o s) = Len(low) + Len(s)
          /\ \A p \in 1..Len(low) : (low \o s)[p] = low[p]
          /\ ToSet(low \o s) \subseteq ToSet(low) \cup ToSet(s)
      BY <1>2, PutTogether
    <2>. QED
      BY <1>2, <1>4, <2>1
  <1>. QED
    BY <1>1, <1>2, <1>3, <1>5 DEF KeptTo

(* A frame is entered: by an instruction or by slp_vm_call.                *)
LEMMA EnterShape ==
  ASSUME TypeOK, Nested, NEW c \in Closures, NEW h \in 0..Len(stack), h >= Base,
         NEW a \in Seq(Values), NativesStay, natives' \in Seq(Native),
         natives' # << >>, Enter(c, h, a)
  PROVE  /\ stack' \in Seq(Values) /\ frames' \in Seq(Frame)
         /\ suspended' \in [Closures -> Seq(Values)]
         /\ Nested' /\ KeptTo(h)
         /\ ToSet(stack') \subseteq ToSet(stack) \cup ToSet(a) \cup ToSet(suspended[c])
         /\ Len(frames') = Len(frames) + 1
         /\ \A j \in 1..Len(frames) : frames'[j] = frames[j]
         /\ frames'[Len(frames) + 1] = [closure |-> c, base |-> h]
  <1>. DEFINE s == IF suspended[c] = << >> THEN a ELSE suspended[c]
  <1>1. suspended[c] \in Seq(Values)
    BY DEF TypeOK
  <1>2. s \in Seq(Values) /\ ToSet(s) \subseteq ToSet(a) \cup ToSet(suspended[c])
    BY <1>1
  <1>3. /\ stack' = SubSeq(stack, 1, h) \o s
        /\ frames' = Append(frames, [closure |-> c, base |-> h])
    BY DEF Enter
  <1>. HIDE DEF s
  <1>4. /\ stack' \in Seq(Values) /\ Len(stack') \in Nat /\ Len(stack') >= h
        /\ KeptTo(h) /\ ToSet(stack') \subseteq ToSet(stack) \cup ToSet(s)
    BY <1>2, <1>3, CutBack
  <1>5. h \in Nat
    BY Lengths
  <1>6. Nested' /\ frames' \in Seq(Frame)
    BY <1>3, <1>4, <1>5, FrameEntered
  <1>7. suspended' \in [Closures -> Seq(Values)]
    <2>1. << >> \in Seq(Values)
      BY EmptySeq
    <2>. QED
      BY <2>1 DEF Enter, TypeOK
  <1>8. /\ Len(frames') = Len(frames) + 1
        /\ \A j \in 1..Len(frames) : frames'[j] = frames[j]
        /\ frames'[Len(frames) + 1] = [closure |-> c, base |-> h]
    <2>1. [closure |-> c, base |-> h] \in Frame /\ frames \in Seq(Frame)
      BY <1>5 DEF Frame, TypeOK
    <2>. QED
      BY <1>3, <2>1, AppendProperties
  <1>. QED
    BY <1>2, <1>4, <1>6, <1>7, <1>8

(* Where an instruction puts the frame of the closure it calls.            *)
LEMMA CallPlace ==
  ASSUME TypeOK, Nested, NEW n \in Nat, Call(n)
  PROVE  LET h == Len(stack) - n - 1 IN
         /\ h \in 0..Len(stack) /\ h >= Base /\ h + 1 \in 1..Len(stack)
         /\ SubSeq(stack, h + 2, Len(stack)) \in Seq(Values)
         /\ ToSet(SubSeq(stack, h + 2, Len(stack))) \subseteq ToSet(stack)
         /\ stack[h + 1] \in Closures /\ stack[h + 1] \in ToSet(stack)
         /\ Enter(stack[h + 1], h, SubSeq(stack, h + 2, Len(stack)))
         /\ ~InNative /\ Executes /\ natives' = natives
  <1>. DEFINE h == Len(stack) - n - 1
  <1>1. /\ Len(stack) \in Nat /\ Base \in Nat /\ h >= Base
        /\ stack[h + 1] \in Closures
        /\ Enter(stack[h + 1], h, SubSeq(stack, h + 2, Len(stack)))
        /\ ~InNative /\ Executes /\ natives' = natives
    BY Lengths, BaseIsTop DEF Call
  <1>2. /\ h \in 0..Len(stack) /\ h + 1 \in 1..Len(stack) /\ h + 2 \in Nat \ {0}
        /\ Len(stack) \in Int /\ Len(stack) <= Len(stack)
    BY <1>1
  <1>. HIDE DEF h
  <1>3. /\ SubSeq(stack, h + 2, Len(stack)) \in Seq(Values)
        /\ ToSet(SubSeq(stack, h + 2, Len(stack))) \subseteq ToSet(stack)
    BY <1>2, PartOf DEF TypeOK
  <1>4. stack[h + 1] \in ToSet(stack)
    BY <1>2, ElementsOf DEF TypeOK
  <1>. QED
    BY <1>1, <1>2, <1>3, <1>4 DEF h

(* An instruction calls a closure.                                         *)
LEMMA CallShape ==
  ASSUME Shape, NEW n \in Nat, Call(n)
  PROVE  Shape'
  <1>. DEFINE h == Len(stack) - n - 1
              a == SubSeq(stack, h + 2, Len(stack))
  <1>1. TypeOK /\ Nested
    BY DEF Shape
  <1>2. /\ h \in 0..Len(stack) /\ h >= Base /\ a \in Seq(Values)
        /\ stack[h + 1] \in Closures /\ Enter(stack[h + 1], h, a)
        /\ natives' = natives /\ Executes
    BY <1>1, CallPlace
  <1>3. natives' \in Seq(Native) /\ NativesStay /\ natives' # << >>
    BY <1>1, <1>2, NativesUnchanged DEF Nested, NativesRise
  <1>. HIDE DEF h, a
  <1>4. /\ stack' \in Seq(Values) /\ frames' \in Seq(Frame)
        /\ suspended' \in [Closures -> Seq(Values)] /\ Nested'
    BY <1>1, <1>2, <1>3, EnterShape
  <1>5. UNCHANGED <<objects, elements, callables, interned, marks>>
    BY <1>2 DEF Enter
  <1>6. TypeOK'
    BY <1>1, <1>3, <1>4, <1>5 DEF TypeOK, marks
  <1>. QED
    BY <1>2, <1>4, <1>5, <1>6, QuietStep

(* What is true when a native calls back.                                  *)
LEMMA CallBackPlace ==
  ASSUME TypeOK, Nested, NEW c \in Closures, NEW a \in Seq(Values),
         NEW kept \in SUBSET Last(natives).held, CallBack(c, a, kept)
  PROVE  /\ InNative /\ Executes /\ Enter(c, Len(stack), a)
         /\ Len(stack) \in 0..Len(stack) /\ Len(stack) >= Base
         /\ kept \subseteq Values
         /\ natives' \in Seq(Native) /\ natives' # << >> /\ NativesStay
         /\ natives'[Len(natives)].held = kept
         /\ \A i \in 1..Len(natives) - 1 : natives'[i] = natives[i]
  <1>1. InNative /\ Executes /\ Enter(c, Len(stack), a)
    BY DEF CallBack
  <1>2. Len(stack) \in 0..Len(stack) /\ Len(stack) >= Base
    BY Lengths, BaseIsTop
  <1>3. kept \subseteq Values
    <2>1. Last(natives).held \subseteq Values
      BY Running, NativeAt
    <2>. QED
      BY <2>1
  <1>4. natives' = [natives EXCEPT ![Len(natives)].held = kept]
    BY DEF CallBack
  <1>. QED
    BY <1>1, <1>2, <1>3, <1>4, HeldChanges

(* A native calls back.                                                    *)
LEMMA CallBackShape ==
  ASSUME Shape, NEW c \in Closures, NEW a \in Seq(Values),
         NEW kept \in SUBSET Last(natives).held, CallBack(c, a, kept)
  PROVE  Shape'
  <1>1. TypeOK /\ Nested
    BY DEF Shape
  <1>2. /\ Executes /\ Enter(c, Len(stack), a)
        /\ Len(stack) \in 0..Len(stack) /\ Len(stack) >= Base
        /\ natives' \in Seq(Native) /\ natives' # << >> /\ NativesStay
    BY <1>1, CallBackPlace
  <1>3. /\ stack' \in Seq(Values) /\ frames' \in Seq(Frame)
        /\ suspended' \in [Closures -> Seq(Values)] /\ Nested'
    BY <1>1, <1>2, EnterShape
  <1>4. UNCHANGED <<objects, elements, callables, interned, marks>>
    BY <1>2 DEF Enter
  <1>5. TypeOK'
    BY <1>1, <1>2, <1>3, <1>4 DEF TypeOK, marks
  <1>. QED
    BY <1>2, <1>3, <1>4, <1>5, QuietStep

(* The running frame is left, with or without a value for its caller.      *)
LEMMA LeaveShape ==
  ASSUME TypeOK, Nested, NEW o \in Values \cup {None}, Leave(o)
  PROVE  /\ ~InNative /\ Executes
         /\ stack' \in Seq(Values) /\ frames' \in Seq(Frame)
         /\ natives' \in Seq(Native) /\ NativesStay
         /\ Nested' /\ KeptTo(Last(frames).base)
         /\ ToSet(stack') \subseteq ToSet(stack) \cup ({o} \ {None})
         /\ Len(frames') = Len(frames) - 1
         /\ \A j \in 1..Len(frames') : frames'[j] = frames[j]
         /\ \A i \in 1..Len(natives) :
              /\ natives'[i].held \subseteq natives[i].held \cup ({o} \ {None})
              /\ natives[i].depth < Len(frames) - 1 => natives'[i] = natives[i]
         /\ {o} \ {None} \subseteq ToSet(stack)
  <1>. DEFINE h == Last(frames).base
              r == Result(o)
              R == {o} \ {None}
  <1>1. ~InNative /\ Executes /\ frames' = Front(frames) /\ o \in {None} \cup Above(h)
    BY DEF Leave
  <1>2. /\ Len(frames) \in Nat /\ Len(stack) \in Nat
        /\ Base = h /\ h \in Nat /\ h <= Len(stack)
    BY <1>1, Lengths, BaseIsTop DEF Base
  <1>3. h \in 0..Len(stack)
    BY <1>2
  <1>4. r \in Seq(Values) /\ ToSet(r) = R /\ R \subseteq Values
    BY ResultIs
  <1>5. R \subseteq ToSet(stack)
    <2>1. h + 1 \in Nat \ {0} /\ Len(stack) \in Int /\ Len(stack) <= Len(stack)
      BY <1>2
    <2>2. Above(h) \subseteq ToSet(stack)
      BY <2>1, PartOf DEF Above, TypeOK
    <2>. QED
      BY <1>1, <2>2
  <1>6. /\ Len(natives) \in 1..Len(natives) /\ Len(natives) \in Nat
        /\ Last(natives) = natives[Len(natives)]
        /\ natives[Len(natives)].held \subseteq Values
        /\ natives[Len(natives)].depth < Len(frames)
        /\ \A i \in 1..Len(natives) : natives[i].depth \in Nat
    BY <1>1, Running, NativeAt, Lengths
  <1>7. CASE Len(frames) - 1 = Last(natives).depth
    <2>. DEFINE H == Last(natives).held \cup R
    <2>1. /\ stack' = SubSeq(stack, 1, h)
          /\ natives' = [natives EXCEPT ![Len(natives)].held = @ \cup ToSet(r)]
      BY <1>7 DEF Leave
    <2>2. natives' = [natives EXCEPT ![Len(natives)].held = H] /\ H \in SUBSET Values
      BY <1>4, <1>6, <2>1
    <2>3. /\ natives' \in Seq(Native) /\ natives' # << >> /\ NativesStay
          /\ natives'[Len(natives)].held = H
          /\ \A i \in 1..Len(natives) - 1 : natives'[i] = natives[i]
      <3>. HIDE DEF H
      <3>. QED
        BY <2>2, HeldChanges
    <2>4. /\ stack' \in Seq(Values) /\ Len(stack') = h
          /\ \A p \in 1..h : stack'[p] = stack[p]
      BY <1>3, <2>1, Prefix DEF TypeOK
    <2>5. KeptTo(h) /\ Len(stack') \in Nat /\ Len(stack') >= h
      BY <1>2, <2>4 DEF KeptTo
    <2>6. ToSet(stack') \subseteq ToSet(stack)
      <3>1. 1 \in Nat \ {0} /\ h \in Int /\ h <= Len(stack)
        BY <1>2
      <3>. QED
        BY <2>1, <3>1, PartOf DEF TypeOK
    <2>7. /\ Nested' /\ frames' \in Seq(Frame) /\ Len(frames') = Len(frames) - 1
          /\ \A j \in 1..Len(frames') : frames'[j] = frames[j]
      BY <1>1, <2>3, <2>5, FrameLeft
    <2>8. \A i \in 1..Len(natives) : i = Len(natives) \/ i \in 1..Len(natives) - 1
      BY <1>6
    <2>9. \A i \in 1..Len(natives) :
            /\ natives'[i].held \subseteq natives[i].held \cup R
            /\ natives[i].depth < Len(frames) - 1 => natives'[i] = natives[i]
      <3>1. \A i \in 1..Len(natives) - 1 :
              /\ natives'[i].held \subseteq natives[i].held \cup R
              /\ natives'[i] = natives[i]
        BY <2>3
      <3>2. natives'[Len(natives)].held = natives[Len(natives)].held \cup R
        BY <1>6, <2>3
      <3>3. ~(natives[Len(natives)].depth < Len(frames) - 1)
        BY <1>2, <1>6, <1>7
      <3>. QED
        BY <2>8, <3>1, <3>2, <3>3
    <2>. QED
      BY <1>1, <1>5, <2>3, <2>4, <2>5, <2>6, <2>7, <2>9
  <1>8. CASE Len(frames) - 1 # Last(natives).depth
    <2>1. stack' = SubSeq(stack, 1, h) \o r /\ natives' = natives
      BY <1>8 DEF Leave
    <2>2. /\ stack' \in Seq(Values) /\ Len(stack') \in Nat /\ Len(stack') >= h
          /\ KeptTo(h) /\ ToSet(stack') \subseteq ToSet(stack) \cup R
      <3>. HIDE DEF h, r
      <3>. QED
        BY <1>3, <1>4, <2>1, CutBack
    <2>3. natives' \in Seq(Native) /\ NativesStay /\ natives' # << >>
      BY <2>1, NativesUnchanged DEF Nested, NativesRise
    <2>4. /\ Nested' /\ frames' \in Seq(Frame) /\ Len(frames') = Len(frames) - 1
          /\ \A j \in 1..Len(frames') : frames'[j] = frames[j]
      BY <1>1, <2>2, <2>3, FrameLeft
    <2>. QED
      BY <1>1, <1>5, <2>1, <2>2, <2>3, <2>4
  <1>. QED
    BY <1>7, <1>8

(* A frame returns.                                                        *)
LEMMA ReturnShape ==
  ASSUME Shape, NEW o \in Values \cup {None}, Return(o)
  PROVE  Shape'
  <1>1. TypeOK /\ Nested /\ Leave(o) /\ UNCHANGED suspended
    BY DEF Shape, Return
  <1>2. /\ Executes /\ stack' \in Seq(Values) /\ frames' \in Seq(Frame)
        /\ natives' \in Seq(Native) /\ Nested'
    BY <1>1, LeaveShape
  <1>3. TypeOK' /\ objects' = objects /\ UNCHANGED marks
    BY <1>1, <1>2 DEF Leave, TypeOK, marks
  <1>. QED
    BY <1>2, <1>3, QuietStep

(* What a coroutine keeps.                                                 *)
LEMMA YieldKeeps ==
  ASSUME TypeOK, Nested, NEW o \in Values \cup {None}, Yield(o)
  PROVE  /\ suspended' \in [Closures -> Seq(Values)]
         /\ Last(frames).closure \in Closures
         /\ Last(frames).closure \in Roots
         /\ ToSet(suspended'[Last(frames).closure]) \subseteq ToSet(stack)
         /\ \A c \in Closures : c # Last(frames).closure => suspended'[c] = suspended[c]
  <1>. DEFINE k == SubSeq(stack, Last(frames).base + 1, Len(stack) - Len(Result(o)))
  <1>1. ~InNative /\ suspended' = [suspended EXCEPT ![Last(frames).closure] = k]
    BY DEF Yield, Leave
  <1>2. /\ Last(frames) = frames[Len(frames)] /\ Len(frames) \in 1..Len(frames)
        /\ frames[Len(frames)].closure \in Closures
        /\ frames[Len(frames)].base \in Nat
    BY <1>1, Running, FrameAt
  <1>3. Last(frames).closure \in Roots
    <2>1. Len(frames) \in DOMAIN frames
      BY <1>2, LenProperties DEF TypeOK
    <2>. QED
      BY <1>2, <2>1 DEF Roots
  <1>4. k \in Seq(Values) /\ ToSet(k) \subseteq ToSet(stack)
    <2>1. /\ Last(frames).base + 1 \in Nat \ {0}
          /\ Len(stack) - Len(Result(o)) \in Int
          /\ Len(stack) - Len(Result(o)) <= Len(stack)
      BY <1>2, ResultIs, Lengths
    <2>. QED
      BY <2>1, PartOf DEF TypeOK
  <1>. HIDE DEF k
  <1>. QED
    BY <1>1, <1>2, <1>3, <1>4 DEF TypeOK

(* A coroutine yields.                                                     *)
LEMMA YieldShape ==
  ASSUME Shape, NEW o \in Values \cup {None}, Yield(o)
  PROVE  Shape'
  <1>1. TypeOK /\ Nested /\ Leave(o)
    BY DEF Shape, Yield
  <1>2. /\ Executes /\ stack' \in Seq(Values) /\ frames' \in Seq(Frame)
        /\ natives' \in Seq(Native) /\ Nested'
    BY <1>1, LeaveShape
  <1>3. suspended' \in [Closures -> Seq(Values)]
    BY <1>1, YieldKeeps
  <1>4. TypeOK' /\ objects' = objects /\ UNCHANGED marks
    BY <1>1, <1>2, <1>3 DEF Leave, TypeOK, marks
  <1>. QED
    BY <1>2, <1>4, QuietStep

(* A native returns: frames below it keep their operands.                  *)
LEMMA NativeReturnsShape ==
  ASSUME Shape, NEW o \in Values \cup {None}, NativeReturns(o)
  PROVE  /\ Shape' /\ KeptTo(Last(natives).args)
         /\ ToSet(stack') \subseteq ToSet(stack) \cup ({o} \ {None})
         /\ Len(natives') = Len(natives) - 1
         /\ \A i \in 1..Len(natives') : natives'[i] = natives[i]
         /\ \A j \in 1..Len(frames) : frames[j].base <= Last(natives).args
  <1>. DEFINE h == Last(natives).args
              r == Result(o)
  <1>1. /\ TypeOK /\ Nested /\ InNative /\ Executes /\ Len(natives) > 1
        /\ natives' = Front(natives) /\ frames' = frames
        /\ stack' = SubSeq(stack, 1, h) \o r
    BY DEF Shape, NativeReturns
  <1>2. r \in Seq(Values) /\ ToSet(r) = {o} \ {None}
    BY ResultIs
  <1>3. h \in 0..Len(stack)
    <2>1. /\ Len(natives) \in 1..Len(natives) /\ Last(natives) = natives[Len(natives)]
          /\ natives[Len(natives)].args \in Nat /\ natives[Len(natives)].base \in Nat
      BY <1>1, Running, NativeAt
    <2>2. natives[Len(natives)].args <= natives[Len(natives)].base
      BY <1>1, <2>1 DEF Nested, NativesRise
    <2>3. natives[Len(natives)].base <= Len(stack)
      BY <1>1, <2>1 DEF Nested, NativesRise
    <2>. QED
      BY <1>1, <2>1, <2>2, <2>3, Lengths
  <1>4. /\ stack' \in Seq(Values) /\ Len(stack') \in Nat /\ Len(stack') >= h
        /\ KeptTo(h) /\ ToSet(stack') \subseteq ToSet(stack) \cup ToSet(r)
    <2>. HIDE DEF h, r
    <2>. QED
      BY <1>1, <1>2, <1>3, CutBack
  <1>5. /\ Nested' /\ natives' \in Seq(Native)
        /\ Len(natives') = Len(natives) - 1
        /\ \A i \in 1..Len(natives') : natives'[i] = natives[i]
        /\ \A j \in 1..Len(frames) : frames[j].base <= Last(natives).args
    BY <1>1, <1>4, NativeLeft
  <1>6. TypeOK'
    BY <1>1, <1>4, <1>5 DEF NativeReturns, TypeOK, marks, graph
  <1>7. Shape'
    BY <1>1, <1>5, <1>6, QuietStep DEF NativeReturns
  <1>. QED
    BY <1>2, <1>4, <1>5, <1>7

-----------------------------------------------------------------------------
(* The collector leaves what runs alone.                                   *)
LEMMA RootsStay ==
  ASSUME Nested, UNCHANGED roots
  PROVE  Nested' /\ InNative' = InNative
  BY DEF roots, Nested, FramesRise, NativesRise, Bracketed, InNative

(* Everything marked is an object.                                         *)
LEMMA RootsAreObjects ==
  ASSUME TypeOK
  PROVE  /\ Roots \subseteq Objects /\ Globals \in Roots
         /\ \A o \in Objects : Children(o) \subseteq Objects
  <1>1. ToSet(stack) \subseteq Values /\ ToSet(callables) \subseteq Closures
    BY ElementsOf DEF TypeOK
  <1>2. \A i \in DOMAIN frames : frames[i].closure \in Closures
    BY FrameAt, LenProperties DEF TypeOK
  <1>3. Closures \subseteq Objects /\ Values \subseteq Objects /\ Globals \in Objects
    BY HeapAssumption DEF Values
  <1>4. \A o \in Objects : Children(o) \subseteq Objects
    <2>1. \A c \in Closures : ToSet(suspended[c]) \subseteq Values
      <3>1. \A c \in Closures : suspended[c] \in Seq(Values)
        BY DEF TypeOK
      <3>. QED
        BY <3>1, ElementsOf
    <2>2. \A o \in Objects : elements[o] \subseteq Values
      BY DEF TypeOK
    <2>. QED
      BY <1>3, <2>1, <2>2 DEF Children
  <1>. QED
    BY <1>1, <1>2, <1>3, <1>4 DEF Roots, CallableRoots

(* A collection starts.                                                    *)
LEMMA MarkRootsShape ==
  ASSUME Shape, MarkRoots
  PROVE  Shape'
  <1>1. TypeOK /\ Nested /\ Roots \subseteq Objects /\ Globals \in Roots
    BY RootsAreObjects DEF Shape
  <1>2. /\ collector = "off" /\ ~InNative /\ collector' = "trace"
        /\ marked' = marked \cup Roots /\ gray' = Roots \ marked
        /\ objects' = objects
    BY DEF MarkRoots, Unmarked
  <1>3. Nested' /\ InNative' = InNative
    BY RootsStay, <1>1 DEF MarkRoots
  <1>4. TypeOK'
    BY <1>1, <1>2 DEF MarkRoots, TypeOK, roots, graph
  <1>5. MarksTransient'
    BY <1>1, <1>2, <1>3 DEF MarksTransient, Shape
  <1>. QED
    BY <1>3, <1>4, <1>5 DEF Shape

(* An object is blackened.                                                 *)
LEMMA BlackenShape ==
  ASSUME Shape, NEW o \in gray, Blacken(o)
  PROVE  Shape'
  <1>1. TypeOK /\ Nested /\ o \in Objects
    BY DEF Shape, TypeOK
  <1>2. Children(o) \subseteq Objects
    BY <1>1, RootsAreObjects
  <1>3. /\ collector = "trace" /\ collector' = collector
        /\ marked' = marked \cup Children(o)
        /\ gray' = (gray \ {o}) \cup (Children(o) \ marked)
        /\ objects' = objects
    BY DEF Blacken, Unmarked
  <1>4. Nested' /\ InNative' = InNative
    BY RootsStay, <1>1 DEF Blacken
  <1>5. TypeOK'
    BY <1>1, <1>2, <1>3 DEF Blacken, TypeOK, roots, graph
  <1>6. MarksTransient'
    BY <1>3, <1>4 DEF MarksTransient, Shape
  <1>. QED
    BY <1>4, <1>5, <1>6 DEF Shape

(* The sweep keeps what is marked and clears the marks.                    *)
LEMMA SweepShape ==
  ASSUME Shape, Sweep
  PROVE  Shape' /\ objects' = objects \cap marked
  <1>1. TypeOK /\ Nested
    BY DEF Shape
  <1>2. /\ collector = "trace" /\ collector' = "rebuild" /\ gray = {} /\ gray' = {}
        /\ marked' = {} /\ objects' = objects \ (objects \ marked)
    BY DEF Sweep, Free
  <1>3. Nested' /\ InNative' = InNative
    BY RootsStay, <1>1 DEF Sweep
  <1>4. elements' \in [Objects -> SUBSET Values]
    BY <1>1 DEF Sweep, Free, TypeOK
  <1>5. suspended' \in [Closures -> Seq(Values)]
    <2>1. << >> \in Seq(Values)
      BY EmptySeq
    <2>. QED
      BY <1>1, <2>1 DEF Sweep, Free, TypeOK
  <1>6. TypeOK'
    BY <1>1, <1>2, <1>4, <1>5 DEF Sweep, TypeOK, roots
  <1>7. MarksTransient'
    BY <1>2, <1>3 DEF MarksTransient, Shape
  <1>. QED
    BY <1>2, <1>3, <1>6, <1>7 DEF Shape

(* The intern table is made anew.                                          *)
LEMMA RebuildShape ==
  ASSUME Shape, Rebuild
  PROVE  Shape'
  <1>1. TypeOK /\ Nested
    BY DEF Shape
  <1>2. Nested' /\ InNative' = InNative
    BY RootsStay, <1>1 DEF Rebuild
  <1>3. TypeOK'
    BY <1>1 DEF Rebuild, TypeOK, roots, graph
  <1>4. MarksTransient'
    BY <1>2 DEF Rebuild, MarksTransient, Shape
  <1>. QED
    BY <1>2, <1>3, <1>4 DEF Shape

(* A VM that was just made.                                                *)
LEMMA FreshNested ==
  ASSUME stack = << >>, frames = << >>, natives = <<Host>>
  PROVE  Nested /\ natives \in Seq(Native)
  <1>1. /\ Len(natives) = 1 /\ natives # << >> /\ natives[1] = Host
        /\ Len(frames) = 0 /\ Len(stack) = 0
    OBVIOUS
  <1>2. Host \in Native /\ Host.args = 0 /\ Host.base = 0 /\ Host.depth = 0
    BY DEF Host, Native
  <1>3. natives \in Seq(Native)
    BY <1>2
  <1>4. FramesRise
    BY <1>1 DEF FramesRise
  <1>5. NativesRise
    BY <1>1, <1>2 DEF NativesRise
  <1>6. Bracketed
    BY <1>1 DEF Bracketed
  <1>. QED
    BY <1>3, <1>4, <1>5, <1>6 DEF Nested

(* The host starts another VM.                                             *)
LEMMA RestartShape ==
  ASSUME Shape, Restart
  PROVE  Shape'
  <1>1. /\ stack' = << >> /\ frames' = << >> /\ natives' = <<Host>>
        /\ objects' = {Globals} /\ interned' = {} /\ callables' = << >>
        /\ elements' = [o \in Objects |-> {}]
        /\ suspended' = [c \in Closures |-> << >>]
        /\ collector' = "off" /\ UNCHANGED marks
    BY DEF Restart, NewVm, ReleaseAll, FreeObjects, marks, Executes
  <1>2. Nested' /\ natives' \in Seq(Native)
    <2>1. /\ Len(natives') = 1 /\ natives' # << >> /\ natives'[1] = Host
          /\ Len(frames') = 0 /\ Len(stack') = 0
      BY <1>1
    <2>2. Host \in Native /\ Host.args = 0 /\ Host.base = 0 /\ Host.depth = 0
      BY DEF Host, Native
    <2>3. FramesRise' /\ Bracketed'
      BY <2>1 DEF FramesRise, Bracketed
    <2>4. NativesRise'
      BY <2>1, <2>2 DEF NativesRise
    <2>. QED
      BY <1>1, <2>2, <2>3, <2>4 DEF Nested
  <1>3. TypeOK'
    <2>1. /\ << >> \in Seq(Values) /\ << >> \in Seq(Frame) /\ << >> \in Seq(Closures)
      BY EmptySeq
    <2>. QED
      BY <1>1, <1>2, <2>1, HeapAssumption DEF TypeOK, marks, Shape
  <1>4. MarksTransient'
    BY <1>1 DEF MarksTransient, marks, Shape
  <1>. QED
    BY <1>2, <1>3, <1>4 DEF Shape

(* The first VM.                                                           *)
LEMMA InitShape == Init => Shape
  <1>. SUFFICES ASSUME Init
                PROVE  Shape
    OBVIOUS
  <1>1. Nested /\ natives \in Seq(Native)
    BY FreshNested DEF Init
  <1>2. TypeOK
    <2>1. /\ << >> \in Seq(Values) /\ << >> \in Seq(Frame) /\ << >> \in Seq(Closures)
      BY EmptySeq
    <2>. QED
      BY <1>1, <2>1, HeapAssumption DEF Init, TypeOK
  <1>3. MarksTransient
    BY DEF Init, MarksTransient
  <1>. QED
    BY <1>1, <1>2, <1>3 DEF Shape

(* Every step keeps types, nesting and the place of the marks.             *)
LEMMA NextShape == Shape /\ [Next]_vars => Shape'
  <1>. SUFFICES ASSUME Shape, [Next]_vars
                PROVE  Shape'
    OBVIOUS
  <1>1. CASE Pop
    BY <1>1, PopShape
  <1>2. ASSUME NEW o \in Values, New(o) \/ Load(o) \/ Push(o) \/ Acquire(o)
        PROVE  Shape'
    BY <1>2, NewShape, LoadShape, PushShape, AcquireShape
  <1>3. ASSUME NEW o \in Values, NEW c \in Containers,
               Store(c, o) \/ RemoveElement(c, o) \/ NewHolding(c, o)
        PROVE  Shape'
    BY <1>3, StoreShape, RemoveElementShape, NewHoldingShape
  <1>4. ASSUME NEW o \in Values \cup {None}, Return(o) \/ Yield(o) \/ NativeReturns(o)
        PROVE  Shape'
    BY <1>4, ReturnShape, YieldShape, NativeReturnsShape
  <1>5. ASSUME NEW s \in Strings, InternNew(s) \/ InternFound(s)
        PROVE  Shape'
    BY <1>5, InternNewShape, InternFoundShape
  <1>6. ASSUME NEW n \in 0..MaxStack, Call(n) \/ CallNative(n)
        PROVE  Shape'
    <2>1. n \in Nat
      OBVIOUS
    <2>. QED
      BY <1>6, <2>1, CallShape, CallNativeShape
  <1>7. ASSUME NEW c \in Closures, NEW o \in Values, NEW kept \in SUBSET Last(natives).held,
               CallBack(c, << >>, kept) \/ CallBack(c, <<o>>, kept)
        PROVE  Shape'
    <2>1. << >> \in Seq(Values) /\ <<o>> \in Seq(Values)
      OBVIOUS
    <2>. QED
      BY <1>7, <2>1, CallBackShape
  <1>8. ASSUME NEW i \in DOMAIN callables, Release(i)
        PROVE  Shape'
    BY <1>8, ReleaseShape
  <1>9. CASE Collect
    BY <1>9, MarkRootsShape, BlackenShape, SweepShape, RebuildShape DEF Collect
  <1>10. CASE Restart
    BY <1>10, RestartShape
  <1>11. CASE UNCHANGED vars
    BY <1>11 DEF vars, graph, roots, marks, Shape, TypeOK, Nested, FramesRise,
                 NativesRise, Bracketed, MarksTransient, InNative
  <1>. QED
    BY <1>1, <1>2, <1>3, <1>4, <1>5, <1>6, <1>7, <1>8, <1>9, <1>10, <1>11 DEF Next, Execute

(* The shape is an invariant.                                              *)
LEMMA ShapeHolds == Spec => []Shape
  BY InitShape, NextShape, PTL DEF Spec

(* The types, whatever natives do: also of what a frame or a coroutine     *)
(* leaves on the stack (slp_vm.c).                                         *)
THEOREM TypeCorrect == Spec => []TypeOK
  <1>1. Shape => TypeOK
    BY DEF Shape
  <1>. QED
    BY <1>1, ShapeHolds, PTL

-----------------------------------------------------------------------------
(* Interning.  A step that is no collection adds at most one string, and   *)
(* only one whose text is new.                                             *)
LEMMA InterningKept ==
  ASSUME TypeOK, Interning, collector' = collector,
         objects' \cap Strings = objects \cap Strings, interned' = interned
  PROVE  Interning'
  BY DEF Interning, InternedExact, TextsDistinct

(* A new string has a text that the table did not hold.                    *)
LEMMA InternNewExact ==
  ASSUME Interning, NEW s \in Strings, InternNew(s)
  PROVE  Interning'
  <1>1. /\ collector = "off" /\ collector' = "off"
        /\ objects' = objects \cup {s} /\ interned' = interned \cup {s}
        /\ \A x \in interned : Text[x] # Text[s]
    BY DEF InternNew, Link, Executes, marks
  <1>2. interned = objects \cap Strings /\ interned' = objects' \cap Strings
    BY <1>1 DEF Interning, InternedExact
  <1>3. TextsDistinct'
    BY <1>1, <1>2 DEF Interning, TextsDistinct
  <1>. QED
    BY <1>1, <1>2, <1>3 DEF Interning, InternedExact, TextsDistinct

(* A new VM has no strings.                                                *)
LEMMA RestartExact ==
  ASSUME Interning, Restart
  PROVE  Interning'
  <1>1. objects' = {Globals} /\ interned' = {}
    BY DEF Restart, NewVm
  <1>2. objects' \cap Strings = {}
    BY <1>1, HeapAssumption
  <1>. QED
    BY <1>1, <1>2 DEF Interning, InternedExact, TextsDistinct

(* A collection drops strings and their entries together.                  *)
LEMMA CollectExact ==
  ASSUME Shape, Interning, Collect
  PROVE  Interning'
  <1>1. CASE MarkRoots
    BY <1>1 DEF MarkRoots, Interning, InternedExact, TextsDistinct
  <1>2. ASSUME NEW o \in gray, Blacken(o)
        PROVE  Interning'
    BY <1>2 DEF Blacken, Interning, InternedExact, TextsDistinct
  <1>3. CASE Sweep
    <2>1. objects' \subseteq objects /\ collector' = "rebuild"
      BY <1>3, SweepShape DEF Sweep
    <2>. QED
      BY <2>1 DEF Interning, InternedExact, TextsDistinct
  <1>4. CASE Rebuild
    BY <1>4 DEF Rebuild, Interning, InternedExact, TextsDistinct
  <1>. QED
    BY <1>1, <1>2, <1>3, <1>4 DEF Collect

(* The first VM has no strings.                                            *)
LEMMA InitExact == Init => Interning
  <1>1. {Globals} \cap Strings = {}
    BY HeapAssumption
  <1>. QED
    BY <1>1 DEF Init, Interning, InternedExact, TextsDistinct

(* Every step keeps the intern table exact.                                *)
LEMMA NextExact == Shape /\ Interning /\ [Next]_vars => Interning'
  <1>. SUFFICES ASSUME Shape, Interning, [Next]_vars
                PROVE  Interning'
    OBVIOUS
  <1>. USE DEF marks, graph
  <1>1. CASE Pop
    BY <1>1 DEF Pop, Interning, InternedExact, TextsDistinct
  <1>2. ASSUME NEW o \in Values, New(o)
        PROVE  Interning'
    <2>1. /\ objects' \cap Strings = objects \cap Strings /\ interned' = interned
          /\ collector' = collector
      BY <1>2 DEF New, Link
    <2>. QED
      BY <2>1, InterningKept DEF Shape
  <1>3. ASSUME NEW o \in Values, Load(o) \/ Push(o) \/ Acquire(o)
        PROVE  Interning'
    BY <1>3, InterningKept DEF Shape, Load, Push, Acquire
  <1>4. ASSUME NEW o \in Values, NEW c \in Containers, Store(c, o) \/ RemoveElement(c, o)
        PROVE  Interning'
    BY <1>4, InterningKept DEF Shape, Store, RemoveElement
  <1>5. ASSUME NEW o \in Values, NEW c \in Containers, NewHolding(c, o)
        PROVE  Interning'
    <2>1. /\ objects' \cap Strings = objects \cap Strings /\ interned' = interned
          /\ collector' = collector
      BY <1>5 DEF NewHolding
    <2>. QED
      BY <2>1, InterningKept DEF Shape
  <1>6. ASSUME NEW o \in Values \cup {None}, Return(o) \/ Yield(o) \/ NativeReturns(o)
        PROVE  Interning'
    BY <1>6, InterningKept DEF Shape, Return, Yield, Leave, NativeReturns
  <1>7. ASSUME NEW s \in Strings, InternNew(s) \/ InternFound(s)
        PROVE  Interning'
    BY <1>7, InternNewExact, InterningKept DEF Shape, InternFound
  <1>8. ASSUME NEW n \in 0..MaxStack, Call(n) \/ CallNative(n)
        PROVE  Interning'
    BY <1>8, InterningKept DEF Shape, Call, Enter, CallNative
  <1>9. ASSUME NEW c \in Closures, NEW o \in Values, NEW kept \in SUBSET Last(natives).held,
               CallBack(c, << >>, kept) \/ CallBack(c, <<o>>, kept)
        PROVE  Interning'
    BY <1>9, InterningKept DEF Shape, CallBack, Enter
  <1>10. ASSUME NEW i \in DOMAIN callables, Release(i)
         PROVE  Interning'
    BY <1>10, InterningKept DEF Shape, Release
  <1>11. CASE Collect
    BY <1>11, CollectExact
  <1>12. CASE Restart
    BY <1>12, RestartExact
  <1>13. CASE UNCHANGED vars
    BY <1>13, InterningKept DEF Shape, vars
  <1>. QED
    BY <1>1, <1>2, <1>3, <1>4, <1>5, <1>6, <1>7, <1>8, <1>9, <1>10, <1>11, <1>12, <1>13
       DEF Next, Execute

(* The intern table (slp_vm_intern_string, rebuild_interned): it holds the *)
(* strings that are there, each text once, whatever natives do.            *)
THEOREM InternTableExact == Spec => []InternedExact
  <1>1. Interning => InternedExact
    BY DEF Interning
  <1>. QED
    BY <1>1, InitExact, NextExact, ShapeHolds, PTL DEF Spec

-----------------------------------------------------------------------------
(* What natives keep, and what the collector may free.                     *)

(* A native that waits still finds its values on the stack, when only the  *)
(* stack above height h changes.                                           *)
LEMMA KeptStill ==
  ASSUME TypeOK, KeptOnStack, NEW h \in Nat, KeptTo(h), NEW i \in 1..Len(natives),
         natives'[i].depth = natives[i].depth,
         natives'[i].held \subseteq natives[i].held,
         natives[i].depth < Len(frames),
         frames'[natives[i].depth + 1].base = frames[natives[i].depth + 1].base,
         frames[natives[i].depth + 1].base <= h
  PROVE  \A v \in natives'[i].held :
           \E p \in 1..frames'[natives'[i].depth + 1].base : stack'[p] = v
  <1>. DEFINE b == frames[natives[i].depth + 1].base
  <1>1. b \in Nat
    <2>1. natives[i].depth + 1 \in 1..Len(frames)
      BY NativeAt, Lengths
    <2>. QED
      BY <2>1, FrameAt
  <1>2. \A v \in natives[i].held : \E p \in 1..b : stack[p] = v
    BY DEF KeptOnStack
  <1>3. \A p \in 1..b : p \in 1..h
    BY <1>1
  <1>4. \A p \in 1..b : stack'[p] = stack[p]
    BY <1>3 DEF KeptTo
  <1>. QED
    BY <1>2, <1>4

(* Every frame is entered below what the code has of the stack.            *)
LEMMA KeptWhenFramesStay ==
  ASSUME TypeOK, Nested, KeptOnStack, KeptTo(Base), frames' = frames, NativesStay,
         \A i \in 1..Len(natives) : natives[i].depth < Len(frames) =>
            natives'[i].held \subseteq natives[i].held
  PROVE  KeptOnStack'
  <1>1. Base \in Nat /\ \A j \in 1..Len(frames) : frames[j].base <= Base
    BY BaseIsTop
  <1>2. ASSUME NEW i \in 1..Len(natives), natives[i].depth < Len(frames)
        PROVE  \A v \in natives'[i].held :
                 \E p \in 1..frames'[natives'[i].depth + 1].base : stack'[p] = v
    <2>1. natives[i].depth + 1 \in 1..Len(frames)
      BY <1>2, NativeAt, Lengths
    <2>2. frames[natives[i].depth + 1].base <= Base
      BY <1>1, <2>1
    <2>3. natives'[i].held \subseteq natives[i].held /\ natives'[i].depth = natives[i].depth
      BY <1>2 DEF NativesStay
    <2>. QED
      BY <1>1, <1>2, <2>2, <2>3, KeptStill
  <1>. QED
    BY <1>2 DEF KeptOnStack, NativesStay

(* What is in use after a step.                                            *)
LEMMA UseAfter ==
  ASSUME NEW S, ToSet(stack') \subseteq S, ToSet(callables') \subseteq S, Globals \in S,
         \A i \in DOMAIN frames' : frames'[i].closure \in S,
         \A i \in DOMAIN natives' : natives'[i].held \subseteq S
  PROVE  InUse' \subseteq S
  BY DEF InUse, Roots, CallableRoots

(* What is in use before it.                                               *)
LEMMA UseBefore ==
  ASSUME TypeOK, NoDangling
  PROVE  /\ ToSet(stack) \subseteq objects /\ ToSet(callables) \subseteq objects
         /\ Globals \in objects
         /\ \A i \in 1..Len(frames) : frames[i].closure \in objects
         /\ \A i \in 1..Len(natives) : natives[i].held \subseteq objects
         /\ DOMAIN frames = 1..Len(frames) /\ DOMAIN natives = 1..Len(natives)
  <1>1. DOMAIN frames = 1..Len(frames) /\ DOMAIN natives = 1..Len(natives)
    BY LenProperties DEF TypeOK
  <1>. QED
    BY <1>1 DEF NoDangling, InUse, Roots, CallableRoots

(* The code that runs gets a linked object.                                *)
LEMMA ObtainUse ==
  ASSUME TypeOK, Nested, NoDangling, KeptOnStack, NEW o \in Values, Obtain(o),
         objects \subseteq objects', o \in objects'
  PROVE  InUse' \subseteq objects' /\ KeptOnStack'
  <1>1. /\ natives' \in Seq(Native) /\ KeptTo(Len(stack)) /\ NativesStay
        /\ ToSet(stack') \subseteq ToSet(stack) \cup {o}
        /\ frames' = frames /\ callables' = callables
        /\ \A i \in 1..Len(natives) :
             /\ natives'[i].held \subseteq natives[i].held \cup {o}
             /\ natives[i].depth < Len(frames) => natives'[i] = natives[i]
    BY ObtainShape
  <1>2. KeptTo(Base)
    <2>1. /\ Len(stack) \in Nat /\ Base \in Nat /\ Base <= Len(stack)
          /\ Len(stack') >= Len(stack)
      BY <1>1, Lengths, BaseIsTop DEF KeptTo
    <2>2. stack' \in Seq(Values)
      BY ObtainShape
    <2>3. Len(stack') \in Nat /\ \A p \in 1..Base : p \in 1..Len(stack)
      BY <2>1, <2>2, LenProperties
    <2>. QED
      BY <1>1, <2>1, <2>3 DEF KeptTo
  <1>3. KeptOnStack'
    BY <1>1, <1>2, KeptWhenFramesStay
  <1>4. DOMAIN natives' = 1..Len(natives)
    BY <1>1, LenProperties DEF NativesStay
  <1>5. InUse' \subseteq objects'
    <2>1. ToSet(stack') \subseteq objects' /\ ToSet(callables') \subseteq objects'
      BY <1>1, UseBefore
    <2>2. \A i \in DOMAIN frames' : frames'[i].closure \in objects'
      BY <1>1, UseBefore
    <2>3. \A i \in DOMAIN natives' : natives'[i].held \subseteq objects'
      BY <1>1, <1>4, UseBefore
    <2>. QED
      BY <2>1, <2>2, <2>3, UseBefore, UseAfter
  <1>. QED
    BY <1>3, <1>5

(* Only the frames, the stack and the natives change, and coroutines.      *)
LEMMA QuietManaged ==
  ASSUME Executes, UNCHANGED marks, InUse' \subseteq objects',
         \A o \in objects' : Children(o)' \subseteq objects',
         KeptOnStack', FreeIsEmpty'
  PROVE  Managed'
  BY DEF Managed, NoDangling, TriColour, Executes, marks

(* A step that changes no object.                                          *)
LEMMA SameGraph ==
  ASSUME Managed, UNCHANGED <<objects, graph>>
  PROVE  /\ \A o \in objects' : Children(o)' \subseteq objects'
         /\ FreeIsEmpty'
  BY DEF Managed, NoDangling, FreeIsEmpty, Children, graph

(* A new object points to nothing.                                         *)
LEMMA NewGraph ==
  ASSUME TypeOK, Managed, NEW o, objects' = objects \cup {o}, o \in Objects \ objects,
         UNCHANGED graph
  PROVE  /\ \A x \in objects' : Children(x)' \subseteq objects'
         /\ FreeIsEmpty'
  <1>1. elements[o] = {} /\ (o \in Closures => suspended[o] = << >>)
    BY DEF Managed, FreeIsEmpty
  <1>2. Children(o) = {}
    <2>1. ToSet(<< >>) = {}
      BY DEF ToSet
    <2>. QED
      BY <1>1, <2>1 DEF Children
  <1>3. \A x \in objects : Children(x) \subseteq objects
    BY DEF Managed, NoDangling
  <1>4. \A x : Children(x)' = Children(x)
    BY DEF Children, graph
  <1>. QED
    BY <1>2, <1>3, <1>4 DEF Managed, FreeIsEmpty, graph

(* A new object is linked before anything points to it.                    *)
LEMMA NewManaged ==
  ASSUME Shape, Managed, NEW o \in Values, New(o)
  PROVE  Managed'
  <1>1. /\ TypeOK /\ Nested /\ NoDangling /\ KeptOnStack /\ Executes
        /\ Obtain(o) /\ objects' = objects \cup {o} /\ o \in Objects \ objects
        /\ UNCHANGED graph /\ UNCHANGED marks
    BY DEF Shape, Managed, New, Link, Values
  <1>2. InUse' \subseteq objects' /\ KeptOnStack'
    BY <1>1, ObtainUse
  <1>. QED
    BY <1>1, <1>2, NewGraph, QuietManaged

(* So is a new string.                                                     *)
LEMMA InternNewManaged ==
  ASSUME Shape, Managed, NEW s \in Strings, InternNew(s)
  PROVE  Managed'
  <1>1. /\ TypeOK /\ Nested /\ NoDangling /\ KeptOnStack /\ Executes /\ s \in Values
        /\ Obtain(s) /\ objects' = objects \cup {s} /\ s \in Objects \ objects
        /\ UNCHANGED graph /\ UNCHANGED marks
    BY StringsAreValues DEF Shape, Managed, InternNew, Link, Values
  <1>2. InUse' \subseteq objects' /\ KeptOnStack'
    BY <1>1, ObtainUse
  <1>. QED
    BY <1>1, <1>2, NewGraph, QuietManaged

(* A string of the table is linked: the table is exact.                    *)
LEMMA InternFoundManaged ==
  ASSUME Shape, Interning, Managed, NEW s \in Strings, InternFound(s)
  PROVE  Managed'
  <1>1. /\ TypeOK /\ Nested /\ NoDangling /\ KeptOnStack /\ Executes /\ s \in Values
        /\ Obtain(s) /\ objects' = objects /\ UNCHANGED graph /\ UNCHANGED marks
    BY StringsAreValues DEF Shape, Managed, InternFound
  <1>2. s \in objects
    BY <1>1 DEF InternFound, Interning, InternedExact, Executes
  <1>3. InUse' \subseteq objects' /\ KeptOnStack'
    BY <1>1, <1>2, ObtainUse
  <1>. QED
    BY <1>1, <1>3, SameGraph, QuietManaged

(* What is at hand, and what that points to, is linked.                    *)
LEMMA HandsLinked ==
  ASSUME TypeOK, Nested, NoDangling
  PROVE  /\ Hands \subseteq objects
         /\ \A x \in Hands \cup {Globals} : x \in objects /\ elements[x] \subseteq objects
  <1>1. Hands \subseteq objects /\ Globals \in objects
    BY HandsInUse DEF NoDangling
  <1>. QED
    BY <1>1 DEF NoDangling, Children

(* What is read is linked.                                                 *)
LEMMA LoadManaged ==
  ASSUME Shape, Managed, NEW o \in Values, Load(o)
  PROVE  Managed'
  <1>1. /\ TypeOK /\ Nested /\ NoDangling /\ KeptOnStack /\ Executes
        /\ Obtain(o) /\ objects' = objects /\ UNCHANGED graph /\ UNCHANGED marks
        /\ o \in Hands \cup UNION {elements[x] : x \in Hands \cup {Globals}}
    BY DEF Shape, Managed, Load
  <1>2. o \in objects
    BY <1>1, HandsLinked
  <1>3. InUse' \subseteq objects' /\ KeptOnStack'
    BY <1>1, <1>2, ObtainUse
  <1>. QED
    BY <1>1, <1>3, SameGraph, QuietManaged

(* A new object holds a linked value.                                      *)
LEMMA NewHoldingManaged ==
  ASSUME Shape, Managed, NEW c \in Containers, NEW v \in Values, NewHolding(c, v)
  PROVE  Managed'
  <1>1. /\ TypeOK /\ Nested /\ NoDangling /\ KeptOnStack /\ Executes /\ Globals \in objects
        /\ Obtain(c) /\ objects' = objects \cup {c} /\ c \in Objects \ objects
        /\ elements' = [elements EXCEPT ![c] = {v}] /\ v \in Hands
        /\ UNCHANGED <<suspended, marks>>
    BY DEF Shape, MarksTransient, Managed, NewHolding, Containers
  <1>2. c \in Values /\ v \in objects
    BY <1>1, HandsLinked DEF Values
  <1>3. InUse' \subseteq objects' /\ KeptOnStack'
    BY <1>1, <1>2, ObtainUse
  <1>4. /\ elements'[c] = {v} /\ (c \in Closures => suspended[c] = << >>)
        /\ \A x \in Objects : x # c => elements'[x] = elements[x]
    BY <1>1 DEF TypeOK, Managed, FreeIsEmpty
  <1>5. \A x \in objects' : Children(x)' \subseteq objects'
    <2>1. ToSet(<< >>) = {}
      BY DEF ToSet
    <2>2. Children(c)' \subseteq objects'
      BY <1>1, <1>2, <1>4, <2>1 DEF Children
    <2>3. \A x \in objects : Children(x)' \subseteq objects'
      BY <1>1, <1>4 DEF Children, TypeOK, NoDangling
    <2>. QED
      BY <1>1, <2>2, <2>3
  <1>6. FreeIsEmpty'
    BY <1>1, <1>4 DEF Managed, FreeIsEmpty
  <1>. QED
    BY <1>1, <1>3, <1>5, <1>6, QuietManaged

(* An element that is taken out stays in use.                              *)
LEMMA RemoveElementManaged ==
  ASSUME Shape, Managed, NEW c \in Containers, NEW v \in Values, RemoveElement(c, v)
  PROVE  Managed'
  <1>1. /\ TypeOK /\ Nested /\ NoDangling /\ KeptOnStack /\ Executes
        /\ Obtain(v) /\ objects' = objects
        /\ elements' = [elements EXCEPT ![c] = @ \ {v}]
        /\ c \in Hands \cup {Globals} /\ v \in elements[c] /\ c \in Objects
        /\ UNCHANGED <<suspended, marks>>
    BY DEF Shape, Managed, RemoveElement, Containers
  <1>2. v \in objects
    BY <1>1, HandsLinked
  <1>3. InUse' \subseteq objects' /\ KeptOnStack'
    BY <1>1, <1>2, ObtainUse
  <1>4. \A x \in Objects : elements'[x] \subseteq elements[x]
    BY <1>1 DEF TypeOK
  <1>5. \A x \in objects' : Children(x)' \subseteq objects'
    BY <1>1, <1>4 DEF NoDangling, Children, TypeOK
  <1>6. FreeIsEmpty'
    BY <1>1, <1>4 DEF Managed, FreeIsEmpty
  <1>. QED
    BY <1>1, <1>3, <1>5, <1>6, QuietManaged

(* A step that changes no place where values are in use.                   *)
LEMMA RootsKept ==
  ASSUME Managed, UNCHANGED roots, objects' = objects
  PROVE  InUse' \subseteq objects' /\ KeptOnStack'
  BY DEF Managed, NoDangling, InUse, Roots, CallableRoots, KeptOnStack, roots

(* Linked values are stored in linked containers.                          *)
LEMMA StoreManaged ==
  ASSUME Shape, Managed, NEW c \in Containers, NEW v \in Values, Store(c, v)
  PROVE  Managed'
  <1>1. /\ TypeOK /\ Nested /\ NoDangling /\ Executes /\ objects' = objects
        /\ elements' = [elements EXCEPT ![c] = @ \cup {v}]
        /\ c \in Hands \cup {Globals} /\ v \in Hands /\ c \in Objects
        /\ UNCHANGED <<suspended, roots, marks>>
    BY DEF Shape, Managed, Store, Containers
  <1>2. c \in objects /\ v \in objects
    BY <1>1, HandsLinked
  <1>3. /\ elements'[c] = elements[c] \cup {v}
        /\ \A x \in Objects : x # c => elements'[x] = elements[x]
    BY <1>1 DEF TypeOK
  <1>4. \A x \in objects' : Children(x)' \subseteq objects'
    BY <1>1, <1>2, <1>3 DEF NoDangling, Children, TypeOK
  <1>5. FreeIsEmpty'
    BY <1>1, <1>2, <1>3 DEF Managed, FreeIsEmpty
  <1>. QED
    BY <1>1, <1>4, <1>5, RootsKept, QuietManaged

(* A native pushes linked values.                                          *)
LEMMA PushManaged ==
  ASSUME Shape, Managed, NEW o \in Values, Push(o)
  PROVE  Managed'
  <1>1. /\ TypeOK /\ Nested /\ NoDangling /\ KeptOnStack /\ Executes /\ o \in Hands
        /\ UNCHANGED <<objects, graph, frames, natives, callables, marks>>
    BY DEF Shape, Managed, Push
  <1>2. KeptTo(Base) /\ ToSet(stack') \subseteq ToSet(stack) \cup {o}
    BY PushShape
  <1>3. NativesStay
    BY <1>1, NativesUnchanged
  <1>4. KeptOnStack'
    BY <1>1, <1>2, <1>3, KeptWhenFramesStay
  <1>5. InUse' \subseteq objects'
    <2>1. o \in objects
      BY <1>1, HandsLinked
    <2>. QED
      BY <1>1, <1>2, <2>1, UseBefore, UseAfter
  <1>. QED
    BY <1>1, <1>4, <1>5, SameGraph, QuietManaged

(* What is popped is not what waiting natives kept.                        *)
LEMMA PopManaged ==
  ASSUME Shape, Managed, Pop
  PROVE  Managed'
  <1>1. /\ TypeOK /\ Nested /\ NoDangling /\ KeptOnStack /\ Executes
        /\ UNCHANGED <<objects, graph, frames, natives, callables, marks>>
    BY DEF Shape, Managed, Pop
  <1>2. KeptTo(Base) /\ ToSet(stack') \subseteq ToSet(stack)
    BY PopShape
  <1>3. NativesStay
    BY <1>1, NativesUnchanged
  <1>4. KeptOnStack'
    BY <1>1, <1>2, <1>3, KeptWhenFramesStay
  <1>5. InUse' \subseteq objects'
    BY <1>1, <1>2, UseBefore, UseAfter
  <1>. QED
    BY <1>1, <1>4, <1>5, SameGraph, QuietManaged

(* The host takes a callable, or gives it back.                            *)
LEMMA CallablesManaged ==
  ASSUME Shape, Managed, Executes, ToSet(callables') \subseteq objects,
         UNCHANGED <<objects, graph, stack, frames, natives, marks>>
  PROVE  Managed'
  <1>1. TypeOK /\ NoDangling /\ KeptOnStack
    BY DEF Shape, Managed
  <1>2. InUse' \subseteq objects'
    BY <1>1, UseBefore, UseAfter
  <1>3. KeptOnStack'
    BY <1>1 DEF KeptOnStack
  <1>. QED
    BY <1>2, <1>3, SameGraph, QuietManaged

(* Only linked closures become callables.                                  *)
LEMMA AcquireManaged ==
  ASSUME Shape, Managed, NEW c \in Values, Acquire(c)
  PROVE  Managed'
  <1>1. /\ TypeOK /\ Nested /\ NoDangling /\ Executes /\ c \in Hands
        /\ UNCHANGED <<objects, graph, stack, frames, natives, marks>>
    BY DEF Shape, Managed, Acquire
  <1>2. c \in objects /\ ToSet(callables) \subseteq objects
    BY <1>1, HandsLinked, UseBefore
  <1>. QED
    BY <1>1, <1>2, AcquireShape, CallablesManaged

(* A callable released leaves fewer roots.                                 *)
LEMMA ReleaseManaged ==
  ASSUME Shape, Managed, NEW i \in DOMAIN callables, Release(i)
  PROVE  Managed'
  <1>1. /\ TypeOK /\ NoDangling /\ Executes
        /\ UNCHANGED <<objects, graph, stack, frames, natives, marks>>
    BY DEF Shape, Managed, Release
  <1>2. ToSet(callables) \subseteq objects
    BY <1>1, UseBefore
  <1>. QED
    BY <1>1, <1>2, ReleaseShape, CallablesManaged

(* A native that starts has no local variables yet.                        *)
LEMMA CallNativeManaged ==
  ASSUME Shape, Managed, NEW n \in Nat, CallNative(n)
  PROVE  Managed'
  <1>1. /\ TypeOK /\ Nested /\ NoDangling /\ KeptOnStack /\ Executes
        /\ UNCHANGED <<objects, graph, stack, frames, callables, marks>>
    BY DEF Shape, Managed, CallNative
  <1>. DEFINE r == [held |-> {}, args |-> Len(stack) - n, base |-> Len(stack),
                    depth |-> Len(frames)]
  <1>2. natives' = Append(natives, r) /\ natives' \in Seq(Native) /\ natives \in Seq(Native)
    BY CallNativeShape DEF CallNative, Shape, TypeOK
  <1>3. /\ Len(natives') = Len(natives) + 1 /\ Len(natives) \in Nat
        /\ \A i \in 1..Len(natives) : natives'[i] = natives[i]
        /\ natives'[Len(natives) + 1] = r
    <2>. HIDE DEF r
    <2>. QED
      BY <1>2, AppendProperties, LenProperties
  <1>4. /\ natives'[Len(natives) + 1].held = {}
        /\ \A i \in 1..Len(natives') : i \in 1..Len(natives) \/ i = Len(natives) + 1
        /\ DOMAIN natives' = 1..Len(natives')
    BY <1>2, <1>3, LenProperties
  <1>5. InUse' \subseteq objects'
    <2>1. \A i \in DOMAIN natives' : natives'[i].held \subseteq objects
      BY <1>1, <1>3, <1>4, UseBefore
    <2>. QED
      BY <1>1, <2>1, UseBefore, UseAfter
  <1>6. KeptOnStack'
    BY <1>1, <1>3, <1>4 DEF KeptOnStack
  <1>. QED
    BY <1>1, <1>5, <1>6, SameGraph, QuietManaged

(* A frame is entered for a linked closure with linked arguments.          *)
LEMMA EnterManaged ==
  ASSUME Shape, Managed, NEW c \in Closures, NEW h \in 0..Len(stack), h >= Base,
         NEW a \in Seq(Values), NativesStay, natives' \in Seq(Native), natives' # << >>,
         Enter(c, h, a), Executes, c \in objects, ToSet(a) \subseteq objects,
         \A i \in 1..Len(natives) : natives'[i].held \subseteq natives[i].held
  PROVE  /\ InUse' \subseteq objects'
         /\ \A o \in objects' : Children(o)' \subseteq objects'
         /\ FreeIsEmpty'
         /\ \A i \in 1..Len(natives) : natives[i].depth < Len(frames) =>
              \A v \in natives'[i].held :
                \E p \in 1..frames'[natives'[i].depth + 1].base : stack'[p] = v
  <1>1. /\ TypeOK /\ Nested /\ NoDangling /\ KeptOnStack
        /\ UNCHANGED <<objects, elements, callables, marks>>
        /\ suspended' = [suspended EXCEPT ![c] = << >>]
    BY DEF Shape, Managed, Enter
  <1>2. /\ frames' \in Seq(Frame) /\ KeptTo(h)
        /\ ToSet(stack') \subseteq ToSet(stack) \cup ToSet(a) \cup ToSet(suspended[c])
        /\ Len(frames') = Len(frames) + 1
        /\ \A j \in 1..Len(frames) : frames'[j] = frames[j]
        /\ frames'[Len(frames) + 1] = [closure |-> c, base |-> h]
    BY <1>1, EnterShape
  <1>3. ToSet(suspended[c]) \subseteq objects
    BY <1>1, HeapAssumption DEF NoDangling, Children
  <1>4. InUse' \subseteq objects'
    <2>1. ToSet(stack') \subseteq objects
      BY <1>1, <1>2, <1>3, UseBefore
    <2>2. \A i \in DOMAIN frames' : frames'[i].closure \in objects
      <3>1. DOMAIN frames' = 1..Len(frames')
        BY <1>2, LenProperties
      <3>2. \A i \in 1..Len(frames) + 1 : i \in 1..Len(frames) \/ i = Len(frames) + 1
        BY <1>1, Lengths
      <3>. QED
        BY <1>1, <1>2, <3>1, <3>2, UseBefore
    <2>3. \A i \in DOMAIN natives' : natives'[i].held \subseteq objects
      <3>1. DOMAIN natives' = 1..Len(natives)
        BY LenProperties DEF NativesStay
      <3>. QED
        BY <1>1, <3>1, UseBefore
    <2>. QED
      BY <1>1, <2>1, <2>2, <2>3, UseBefore, UseAfter
  <1>5. /\ suspended'[c] = << >>
        /\ \A d \in Closures : d # c => suspended'[d] = suspended[d]
    BY <1>1 DEF TypeOK
  <1>6. \A o \in objects' : Children(o)' \subseteq objects'
    <2>1. ToSet(<< >>) = {}
      BY DEF ToSet
    <2>2. \A o \in objects : Children(o)' \subseteq Children(o)
      BY <1>1, <1>5, <2>1 DEF Children
    <2>. QED
      BY <1>1, <2>2 DEF NoDangling
  <1>7. FreeIsEmpty'
    BY <1>1, <1>5 DEF Managed, FreeIsEmpty
  <1>8. ASSUME NEW i \in 1..Len(natives), natives[i].depth < Len(frames)
        PROVE  \A v \in natives'[i].held :
                 \E p \in 1..frames'[natives'[i].depth + 1].base : stack'[p] = v
    <2>1. natives[i].depth + 1 \in 1..Len(frames)
      BY <1>1, <1>8, NativeAt, Lengths
    <2>2. /\ frames'[natives[i].depth + 1].base = frames[natives[i].depth + 1].base
          /\ frames[natives[i].depth + 1].base \in Nat
          /\ frames[natives[i].depth + 1].base <= Base
          /\ Base \in Nat /\ h \in Nat
      BY <1>1, <1>2, <2>1, BaseIsTop, FrameAt, Lengths
    <2>3. frames[natives[i].depth + 1].base <= h
      BY <2>2
    <2>4. natives'[i].depth = natives[i].depth
      BY DEF NativesStay
    <2>. QED
      BY <1>1, <1>2, <1>8, <2>2, <2>3, <2>4, KeptStill
  <1>. QED
    BY <1>4, <1>6, <1>7, <1>8

(* A call by an instruction takes its closure from the stack.              *)
LEMMA CallManaged ==
  ASSUME Shape, Managed, NEW n \in Nat, Call(n)
  PROVE  Managed'
  <1>. DEFINE h == Len(stack) - n - 1
              a == SubSeq(stack, h + 2, Len(stack))
  <1>1. TypeOK /\ Nested /\ NoDangling
    BY DEF Shape, Managed
  <1>2. /\ h \in 0..Len(stack) /\ h >= Base /\ a \in Seq(Values)
        /\ ToSet(a) \subseteq ToSet(stack) /\ stack[h + 1] \in ToSet(stack)
        /\ stack[h + 1] \in Closures /\ Enter(stack[h + 1], h, a)
        /\ natives' = natives /\ Executes /\ ~InNative
    BY <1>1, CallPlace
  <1>3. natives' \in Seq(Native) /\ NativesStay /\ natives' # << >>
    BY <1>1, <1>2, NativesUnchanged DEF Nested, NativesRise
  <1>4. \A i \in 1..Len(natives) : natives[i].depth < Len(frames)
    BY <1>1, <1>2, Running
  <1>. HIDE DEF h, a
  <1>5. stack[h + 1] \in objects /\ ToSet(a) \subseteq objects
    BY <1>1, <1>2, UseBefore
  <1>6. /\ InUse' \subseteq objects'
        /\ \A o \in objects' : Children(o)' \subseteq objects'
        /\ FreeIsEmpty'
        /\ \A i \in 1..Len(natives) : natives[i].depth < Len(frames) =>
              \A v \in natives'[i].held :
                \E p \in 1..frames'[natives'[i].depth + 1].base : stack'[p] = v
    BY <1>2, <1>3, <1>5, EnterManaged
  <1>7. KeptOnStack'
    BY <1>2, <1>4, <1>6 DEF KeptOnStack
  <1>8. UNCHANGED marks
    BY <1>2 DEF Enter
  <1>. QED
    BY <1>2, <1>6, <1>7, <1>8, QuietManaged

(* slp_vm_call: here care is needed.                                       *)
LEMMA CallBackManaged ==
  ASSUME ~Careless, Shape, Managed, NEW c \in Closures, NEW a \in Seq(Values),
         NEW kept \in SUBSET Last(natives).held, CallBack(c, a, kept)
  PROVE  Managed'
  <1>1. TypeOK /\ Nested /\ NoDangling
    BY DEF Shape, Managed
  <1>2. /\ InNative /\ Executes /\ Enter(c, Len(stack), a)
        /\ Len(stack) \in 0..Len(stack) /\ Len(stack) >= Base
        /\ natives' \in Seq(Native) /\ natives' # << >> /\ NativesStay
        /\ natives'[Len(natives)].held = kept
        /\ \A i \in 1..Len(natives) - 1 : natives'[i] = natives[i]
    BY <1>1, CallBackPlace
  <1>3. c \in objects /\ ToSet(a) \subseteq objects /\ kept \subseteq ToSet(stack)
    BY <1>1, HandsLinked DEF CallBack
  <1>4. /\ Len(natives) \in Nat /\ Last(natives) = natives[Len(natives)]
        /\ natives[Len(natives)].depth = Len(frames)
        /\ \A i \in 1..Len(natives) - 1 : natives[i].depth < Len(frames)
        /\ \A i \in 1..Len(natives) : i = Len(natives) \/ i \in 1..Len(natives) - 1
    BY <1>1, <1>2, Running, Lengths DEF InNative
  <1>5. \A i \in 1..Len(natives) : natives'[i].held \subseteq natives[i].held
    BY <1>2, <1>4
  <1>6. /\ InUse' \subseteq objects'
        /\ \A o \in objects' : Children(o)' \subseteq objects'
        /\ FreeIsEmpty'
        /\ \A i \in 1..Len(natives) : natives[i].depth < Len(frames) =>
              \A v \in natives'[i].held :
                \E p \in 1..frames'[natives'[i].depth + 1].base : stack'[p] = v
    BY <1>2, <1>3, <1>5, EnterManaged
  <1>7. \A v \in natives'[Len(natives)].held :
          \E p \in 1..frames'[natives'[Len(natives)].depth + 1].base : stack'[p] = v
    <2>1. /\ frames'[Len(frames) + 1] = [closure |-> c, base |-> Len(stack)]
          /\ KeptTo(Len(stack))
      BY <1>1, <1>2, EnterShape
    <2>2. natives'[Len(natives)].depth = Len(frames)
      <3>1. Len(natives) \in 1..Len(natives)
        BY <1>1, Running
      <3>. QED
        BY <1>4, <3>1, <1>2 DEF NativesStay
    <2>3. frames'[natives'[Len(natives)].depth + 1].base = Len(stack)
      BY <2>1, <2>2
    <2>4. \A v \in kept : \E p \in 1..Len(stack) : stack[p] = v
      BY <1>1, <1>3, ElementsOf DEF TypeOK
    <2>. QED
      BY <1>2, <2>1, <2>3, <2>4 DEF KeptTo
  <1>8. KeptOnStack'
    BY <1>2, <1>4, <1>6, <1>7 DEF KeptOnStack, NativesStay
  <1>9. UNCHANGED marks
    BY <1>2 DEF Enter
  <1>. QED
    BY <1>2, <1>6, <1>8, <1>9, QuietManaged

(* A frame is left: what its caller gets was on the stack.                 *)
LEMMA LeaveManaged ==
  ASSUME Shape, Managed, NEW o \in Values \cup {None}, Leave(o)
  PROVE  InUse' \subseteq objects' /\ KeptOnStack'
  <1>1. /\ TypeOK /\ Nested /\ NoDangling /\ KeptOnStack
        /\ UNCHANGED <<objects, callables>>
    BY DEF Shape, Managed, Leave
  <1>. DEFINE h == Last(frames).base
  <1>2. /\ ~InNative
        /\ frames' \in Seq(Frame) /\ natives' \in Seq(Native) /\ NativesStay
        /\ KeptTo(h)
        /\ ToSet(stack') \subseteq ToSet(stack) \cup ({o} \ {None})
        /\ Len(frames') = Len(frames) - 1
        /\ \A j \in 1..Len(frames') : frames'[j] = frames[j]
        /\ \A i \in 1..Len(natives) :
             /\ natives'[i].held \subseteq natives[i].held \cup ({o} \ {None})
             /\ natives[i].depth < Len(frames) - 1 => natives'[i] = natives[i]
        /\ {o} \ {None} \subseteq ToSet(stack)
    BY <1>1, LeaveShape
  <1>3. /\ Base = h /\ h \in Nat /\ Len(frames) \in Nat
        /\ \A j \in 1..Len(frames) : frames[j].base <= h
    BY <1>1, <1>2, BaseIsTop, Lengths DEF Base
  <1>4. {o} \ {None} \subseteq objects
    BY <1>1, <1>2, UseBefore
  <1>5. InUse' \subseteq objects'
    <2>1. \A i \in DOMAIN frames' : frames'[i].closure \in objects
      <3>1. DOMAIN frames' = 1..Len(frames')
        BY <1>2, LenProperties
      <3>2. \A i \in 1..Len(frames) - 1 : i \in 1..Len(frames)
        BY <1>3
      <3>. QED
        BY <1>1, <1>2, <3>1, <3>2, UseBefore
    <2>2. \A i \in DOMAIN natives' : natives'[i].held \subseteq objects
      <3>1. DOMAIN natives' = 1..Len(natives)
        BY <1>2, LenProperties DEF NativesStay
      <3>. QED
        BY <1>1, <1>2, <1>4, <3>1, UseBefore
    <2>3. ToSet(stack') \subseteq objects /\ ToSet(callables') \subseteq objects
      BY <1>1, <1>2, <1>4, UseBefore
    <2>. QED
      BY <1>1, <2>1, <2>2, <2>3, UseBefore, UseAfter
  <1>6. ASSUME NEW i \in 1..Len(natives), natives[i].depth < Len(frames) - 1
        PROVE  \A v \in natives'[i].held :
                 \E p \in 1..frames'[natives'[i].depth + 1].base : stack'[p] = v
    <2>1. natives[i].depth \in Nat
      BY <1>1, NativeAt
    <2>2. natives[i].depth < Len(frames) /\ natives[i].depth + 1 \in 1..Len(frames) - 1
      BY <1>3, <1>6, <2>1
    <2>3. natives[i].depth + 1 \in 1..Len(frames)
      BY <1>3, <2>2
    <2>4. /\ frames'[natives[i].depth + 1].base = frames[natives[i].depth + 1].base
          /\ frames[natives[i].depth + 1].base <= h
      BY <1>2, <1>3, <2>2, <2>3
    <2>5. natives'[i] = natives[i]
      BY <1>2, <1>6
    <2>. QED
      BY <1>1, <1>2, <1>3, <2>2, <2>4, <2>5, KeptStill
  <1>7. KeptOnStack'
    BY <1>2, <1>6 DEF KeptOnStack, NativesStay
  <1>. QED
    BY <1>5, <1>7

(* A return.                                                               *)
LEMMA ReturnManaged ==
  ASSUME Shape, Managed, NEW o \in Values \cup {None}, Return(o)
  PROVE  Managed'
  <1>1. /\ Leave(o) /\ Executes /\ UNCHANGED <<objects, graph, marks>>
    BY DEF Return, Leave, graph
  <1>. QED
    BY <1>1, LeaveManaged, SameGraph, QuietManaged

(* OP_YIELD moves operands from the stack into the closure that runs.      *)
LEMMA YieldManaged ==
  ASSUME Shape, Managed, NEW o \in Values \cup {None}, Yield(o)
  PROVE  Managed'
  <1>1. /\ Leave(o) /\ Executes /\ UNCHANGED <<objects, elements, marks>>
        /\ TypeOK /\ Nested /\ NoDangling
    BY DEF Yield, Leave, Shape, Managed
  <1>. DEFINE r == Last(frames).closure
  <1>2. /\ suspended' \in [Closures -> Seq(Values)]
        /\ r \in Closures /\ r \in Roots
        /\ ToSet(suspended'[r]) \subseteq ToSet(stack)
        /\ \A c \in Closures : c # r => suspended'[c] = suspended[c]
    BY <1>1, YieldKeeps
  <1>3. r \in objects /\ ToSet(suspended'[r]) \subseteq objects
    BY <1>1, <1>2, UseBefore DEF NoDangling, InUse
  <1>4. \A x \in objects' : Children(x)' \subseteq objects'
    BY <1>1, <1>2, <1>3 DEF NoDangling, Children
  <1>5. FreeIsEmpty'
    BY <1>1, <1>2, <1>3 DEF Managed, FreeIsEmpty
  <1>. QED
    BY <1>1, <1>4, <1>5, LeaveManaged, QuietManaged

(* A native that returns cuts off no operands of others.                   *)
LEMMA NativeReturnsManaged ==
  ASSUME Shape, Managed, NEW o \in Values \cup {None}, NativeReturns(o)
  PROVE  Managed'
  <1>1. /\ TypeOK /\ Nested /\ NoDangling /\ KeptOnStack /\ Executes /\ InNative
        /\ o \in Hands \cup {None}
        /\ UNCHANGED <<objects, graph, frames, callables, marks>>
    BY DEF Shape, Managed, NativeReturns
  <1>. DEFINE h == Last(natives).args
  <1>2. /\ KeptTo(h)
        /\ ToSet(stack') \subseteq ToSet(stack) \cup ({o} \ {None})
        /\ Len(natives') = Len(natives) - 1
        /\ \A i \in 1..Len(natives') : natives'[i] = natives[i]
        /\ \A j \in 1..Len(frames) : frames[j].base <= h
        /\ natives' \in Seq(Native)
    BY NativeReturnsShape DEF Shape, TypeOK
  <1>3. /\ Len(natives) \in Nat /\ h \in Nat
        /\ \A i \in 1..Len(natives) - 1 : i \in 1..Len(natives)
        /\ \A i \in 1..Len(natives) - 1 : natives[i].depth < Len(frames)
    BY <1>1, Running, NativeAt, Lengths
  <1>4. InUse' \subseteq objects'
    <2>1. {o} \ {None} \subseteq objects
      BY <1>1, HandsLinked
    <2>2. \A i \in DOMAIN natives' : natives'[i].held \subseteq objects
      <3>1. DOMAIN natives' = 1..Len(natives')
        BY <1>2, LenProperties
      <3>. QED
        BY <1>1, <1>2, <1>3, <3>1, UseBefore
    <2>3. ToSet(stack') \subseteq objects
      BY <1>1, <1>2, <2>1, UseBefore
    <2>. QED
      BY <1>1, <2>2, <2>3, UseBefore, UseAfter
  <1>5. ASSUME NEW i \in 1..Len(natives) - 1
        PROVE  \A v \in natives'[i].held :
                 \E p \in 1..frames'[natives'[i].depth + 1].base : stack'[p] = v
    <2>1. i \in 1..Len(natives) /\ natives[i].depth < Len(frames) /\ natives'[i] = natives[i]
      BY <1>2, <1>3
    <2>2. natives[i].depth + 1 \in 1..Len(frames)
      BY <1>1, <2>1, NativeAt, Lengths
    <2>3. /\ frames[natives[i].depth + 1].base <= h
          /\ frames'[natives[i].depth + 1].base = frames[natives[i].depth + 1].base
      BY <1>1, <1>2, <2>2
    <2>. QED
      BY <1>1, <1>2, <1>3, <2>1, <2>3, KeptStill
  <1>6. KeptOnStack'
    BY <1>2, <1>5 DEF KeptOnStack
  <1>. QED
    BY <1>1, <1>4, <1>6, SameGraph, QuietManaged

-----------------------------------------------------------------------------
(* The collector.  What can be reached is closed, and in every closed set  *)
(* that holds the roots.                                                   *)
LEMMA ReachableLeast ==
  ASSUME TypeOK, NEW S \in SUBSET Objects, Roots \subseteq S, Closed(S)
  PROVE  Reachable \subseteq S
  BY DEF Reachable

(* It holds the roots, and all that its members point to.                  *)
LEMMA ReachableClosed ==
  ASSUME TypeOK
  PROVE  /\ Roots \subseteq Reachable
         /\ \A o \in Reachable : Children(o) \subseteq Reachable
  <1>1. /\ Roots \subseteq Objects
        /\ \A o \in Objects : Children(o) \subseteq Objects
    BY RootsAreObjects
  <1>2. ASSUME NEW o \in Reachable, NEW c \in Children(o)
        PROVE  c \in Reachable
    <2>1. o \in Objects /\ c \in Objects
      BY <1>1 DEF Reachable
    <2>2. ASSUME NEW S \in SUBSET Objects, Roots \subseteq S, Closed(S)
          PROVE  c \in S
      <3>1. o \in S
        BY <2>2 DEF Reachable
      <3>. QED
        BY <2>2, <3>1 DEF Closed
    <2>. QED
      BY <2>1, <2>2 DEF Reachable
  <1>. QED
    BY <1>1, <1>2 DEF Reachable

(* While a collection is in progress every native waits: what it kept is   *)
(* on the stack, so every value in use is a root.                          *)
LEMMA UseIsRooted ==
  ASSUME TypeOK, Nested, KeptOnStack, ~InNative
  PROVE  InUse \subseteq Roots
  <1>1. /\ Len(frames) \in Nat /\ Len(stack) \in Nat
        /\ \A i \in 1..Len(natives) : natives[i].depth < Len(frames)
    BY Running, Lengths
  <1>2. ASSUME NEW i \in 1..Len(natives), NEW v \in natives[i].held
        PROVE  v \in ToSet(stack)
    <2>1. natives[i].depth + 1 \in 1..Len(frames)
      BY <1>1, NativeAt
    <2>2. /\ frames[natives[i].depth + 1].base \in Nat
          /\ frames[natives[i].depth + 1].base <= Len(stack)
      BY <2>1, FrameAt DEF Nested, FramesRise
    <2>3. PICK p \in 1..frames[natives[i].depth + 1].base : stack[p] = v
      BY <1>1, <1>2 DEF KeptOnStack
    <2>4. p \in 1..Len(stack)
      BY <1>1, <2>2
    <2>. QED
      BY <2>3, <2>4, ElementsOf DEF TypeOK
  <1>3. DOMAIN natives = 1..Len(natives)
    BY LenProperties DEF TypeOK
  <1>. QED
    BY <1>2, <1>3 DEF InUse, Roots

(* A step that touches neither roots nor objects' contents.                *)
LEMMA SameReach ==
  ASSUME UNCHANGED <<graph, roots>>
  PROVE  /\ Roots' = Roots /\ Reachable' = Reachable /\ InUse' = InUse
         /\ \A o : Children(o)' = Children(o)
         /\ KeptOnStack' = KeptOnStack
  <1>1. Roots' = Roots /\ InUse' = InUse /\ \A o : Children(o)' = Children(o)
    BY DEF graph, roots, Roots, CallableRoots, InUse, Children
  <1>2. KeptOnStack' = KeptOnStack
    BY DEF roots, KeptOnStack
  <1>3. Reachable' = Reachable
    BY <1>1 DEF Reachable, Closed
  <1>. QED
    BY <1>1, <1>2, <1>3

(* A collection starts with exactly the roots gray.                        *)
LEMMA MarkRootsManaged ==
  ASSUME Shape, Managed, MarkRoots
  PROVE  Managed'
  <1>1. /\ TypeOK /\ NoDangling /\ KeptOnStack /\ FreeIsEmpty
        /\ UNCHANGED <<graph, roots>> /\ objects' = objects
        /\ marked' = Roots /\ gray' = Roots
    BY DEF Shape, MarksTransient, Managed, MarkRoots, Unmarked
  <1>2. /\ Roots' = Roots /\ Reachable' = Reachable /\ InUse' = InUse
        /\ \A o : Children(o)' = Children(o) /\ KeptOnStack'
    BY <1>1, SameReach
  <1>3. TriColour'
    BY <1>1, <1>2, ReachableClosed DEF TriColour
  <1>. QED
    BY <1>1, <1>2, <1>3 DEF Managed, NoDangling, FreeIsEmpty, graph

(* Blackening marks only what can be reached.                              *)
LEMMA BlackenManaged ==
  ASSUME Shape, Managed, NEW o \in gray, Blacken(o)
  PROVE  Managed'
  <1>1. /\ TypeOK /\ NoDangling /\ KeptOnStack /\ FreeIsEmpty /\ o \in marked
        /\ UNCHANGED <<graph, roots>> /\ objects' = objects
        /\ collector = "trace"
        /\ marked' = marked \cup Children(o)
        /\ gray' = (gray \ {o}) \cup (Children(o) \ marked)
    BY DEF Shape, TypeOK, Managed, Blacken, Unmarked
  <1>2. /\ Roots' = Roots /\ Reachable' = Reachable /\ InUse' = InUse
        /\ \A x : Children(x)' = Children(x) /\ KeptOnStack'
    BY <1>1, SameReach
  <1>3. /\ Roots \subseteq marked /\ marked \subseteq Reachable
        /\ \A x \in marked \ gray : Children(x) \subseteq marked
    BY <1>1 DEF Managed, TriColour
  <1>4. Children(o) \subseteq Reachable
    BY <1>1, <1>3, ReachableClosed
  <1>5. \A x \in marked' \ gray' : x = o \/ x \in marked \ gray
    BY <1>1
  <1>6. TriColour'
    BY <1>1, <1>2, <1>3, <1>4, <1>5 DEF TriColour
  <1>. QED
    BY <1>1, <1>2, <1>6 DEF Managed, NoDangling, FreeIsEmpty, graph

(* When nothing is gray what is marked is what can be reached, and linked. *)
LEMMA MarkedIsReachable ==
  ASSUME Shape, Managed, Sweep
  PROVE  /\ marked = Reachable /\ Roots \subseteq marked /\ marked \subseteq objects
         /\ \A o \in marked : Children(o) \subseteq marked
  <1>1. /\ TypeOK /\ NoDangling /\ collector = "trace" /\ gray = {}
    BY DEF Shape, Managed, Sweep
  <1>2. /\ Roots \subseteq marked /\ marked \subseteq Reachable
        /\ \A x \in marked : Children(x) \subseteq marked
    BY <1>1 DEF Managed, TriColour
  <1>3. marked \in SUBSET Objects /\ objects \in SUBSET Objects
    BY <1>1 DEF TypeOK
  <1>4. Reachable \subseteq marked
    BY <1>1, <1>2, <1>3, ReachableLeast DEF Closed
  <1>5. Reachable \subseteq objects
    <2>1. Roots \subseteq objects /\ Closed(objects)
      BY <1>1 DEF NoDangling, InUse, Closed
    <2>. QED
      BY <1>1, <1>3, <2>1, ReachableLeast
  <1>. QED
    BY <1>2, <1>4, <1>5

(* The sweep keeps exactly what can be reached.                            *)
LEMMA SweepManaged ==
  ASSUME Shape, Managed, Sweep
  PROVE  Managed' /\ objects' = Reachable
  <1>1. /\ TypeOK /\ Nested /\ NoDangling /\ KeptOnStack /\ FreeIsEmpty
        /\ ~InNative /\ collector' = "rebuild" /\ UNCHANGED roots
        /\ elements' = [o \in Objects |-> IF o \in objects \ marked THEN {} ELSE elements[o]]
        /\ suspended' = [c \in Closures |->
                           IF c \in objects \ marked THEN << >> ELSE suspended[c]]
    BY DEF Shape, MarksTransient, Managed, Sweep, Free
  <1>2. /\ marked = Reachable /\ Roots \subseteq marked /\ marked \subseteq objects
        /\ \A o \in marked : Children(o) \subseteq marked
    BY MarkedIsReachable
  <1>3. objects' = marked
    BY <1>2, SweepShape
  <1>4. InUse \subseteq marked
    BY <1>1, <1>2, UseIsRooted
  <1>5. InUse' = InUse /\ KeptOnStack'
    BY <1>1 DEF roots, InUse, Roots, CallableRoots, KeptOnStack
  <1>6. \A o \in marked : Children(o)' = Children(o)
    BY <1>1 DEF Children, TypeOK
  <1>7. FreeIsEmpty'
    BY <1>1, <1>2, <1>3 DEF FreeIsEmpty
  <1>8. TriColour'
    BY <1>1 DEF TriColour
  <1>. QED
    BY <1>2, <1>3, <1>4, <1>5, <1>6, <1>7, <1>8 DEF Managed, NoDangling

(* The new intern table points to no freed object.                         *)
LEMMA RebuildManaged ==
  ASSUME Shape, Managed, Rebuild
  PROVE  Managed'
  <1>1. /\ NoDangling /\ KeptOnStack /\ FreeIsEmpty
        /\ UNCHANGED <<graph, roots>> /\ objects' = objects /\ collector' = "off"
    BY DEF Managed, Rebuild
  <1>2. /\ InUse' = InUse /\ \A o : Children(o)' = Children(o) /\ KeptOnStack'
    BY <1>1, SameReach
  <1>. QED
    BY <1>1, <1>2 DEF Managed, NoDangling, FreeIsEmpty, TriColour, graph

(* Nothing is left of the VM before.                                       *)
LEMMA RestartManaged ==
  ASSUME Shape, Restart
  PROVE  Managed'
  <1>1. /\ stack' = << >> /\ frames' = << >> /\ natives' = <<Host>>
        /\ objects' = {Globals} /\ callables' = << >>
        /\ elements' = [o \in Objects |-> {}]
        /\ suspended' = [c \in Closures |-> << >>]
        /\ collector' = "off"
    BY DEF Restart, NewVm, ReleaseAll, FreeObjects, marks, Executes
  <1>2. ToSet(<< >>) = {}
    BY DEF ToSet
  <1>3. /\ DOMAIN frames' = {} /\ DOMAIN natives' = {1} /\ natives'[1].held = {}
        /\ Len(natives') = 1
    BY <1>1 DEF Host
  <1>4. InUse' \subseteq objects' /\ KeptOnStack'
    BY <1>1, <1>2, <1>3 DEF InUse, Roots, CallableRoots, KeptOnStack
  <1>5. \A o \in objects' : Children(o)' \subseteq objects'
    BY <1>1, <1>2, HeapAssumption DEF Children
  <1>. QED
    BY <1>1, <1>4, <1>5 DEF Managed, NoDangling, FreeIsEmpty, TriColour

(* The first VM has nothing but its globals.                               *)
LEMMA InitManaged == Init => Managed
  <1>. SUFFICES ASSUME Init
                PROVE  Managed
    OBVIOUS
  <1>2. ToSet(<< >>) = {}
    BY DEF ToSet
  <1>3. /\ DOMAIN frames = {} /\ DOMAIN natives = {1} /\ natives[1].held = {}
        /\ Len(natives) = 1
    BY DEF Init, Host
  <1>4. InUse \subseteq objects /\ KeptOnStack
    BY <1>2, <1>3 DEF Init, InUse, Roots, CallableRoots, KeptOnStack
  <1>5. \A o \in objects : Children(o) \subseteq objects
    BY <1>2, HeapAssumption DEF Init, Children
  <1>. QED
    BY <1>4, <1>5 DEF Init, Managed, NoDangling, FreeIsEmpty, TriColour

(* Every step keeps the heap managed, given natives that take care.        *)
LEMMA NextManaged ==
  ASSUME ~Careless
  PROVE  Shape /\ Interning /\ Managed /\ [Next]_vars => Managed'
  <1>. SUFFICES ASSUME Shape, Interning, Managed, [Next]_vars
                PROVE  Managed'
    OBVIOUS
  <1>1. CASE Pop
    BY <1>1, PopManaged
  <1>2. ASSUME NEW o \in Values, New(o) \/ Load(o) \/ Push(o) \/ Acquire(o)
        PROVE  Managed'
    BY <1>2, NewManaged, LoadManaged, PushManaged, AcquireManaged
  <1>3. ASSUME NEW o \in Values, NEW c \in Containers,
               Store(c, o) \/ RemoveElement(c, o) \/ NewHolding(c, o)
        PROVE  Managed'
    BY <1>3, StoreManaged, RemoveElementManaged, NewHoldingManaged
  <1>4. ASSUME NEW o \in Values \cup {None}, Return(o) \/ Yield(o) \/ NativeReturns(o)
        PROVE  Managed'
    BY <1>4, ReturnManaged, YieldManaged, NativeReturnsManaged
  <1>5. ASSUME NEW s \in Strings, InternNew(s) \/ InternFound(s)
        PROVE  Managed'
    BY <1>5, InternNewManaged, InternFoundManaged
  <1>6. ASSUME NEW n \in 0..MaxStack, Call(n) \/ CallNative(n)
        PROVE  Managed'
    <2>1. n \in Nat
      OBVIOUS
    <2>. QED
      BY <1>6, <2>1, CallManaged, CallNativeManaged
  <1>7. ASSUME NEW c \in Closures, NEW o \in Values, NEW kept \in SUBSET Last(natives).held,
               CallBack(c, << >>, kept) \/ CallBack(c, <<o>>, kept)
        PROVE  Managed'
    <2>1. << >> \in Seq(Values) /\ <<o>> \in Seq(Values)
      OBVIOUS
    <2>. QED
      BY <1>7, <2>1, CallBackManaged
  <1>8. ASSUME NEW i \in DOMAIN callables, Release(i)
        PROVE  Managed'
    BY <1>8, ReleaseManaged
  <1>9. CASE Collect
    BY <1>9, MarkRootsManaged, BlackenManaged, SweepManaged, RebuildManaged DEF Collect
  <1>10. CASE Restart
    BY <1>10, RestartManaged
  <1>11. CASE UNCHANGED vars
    <2>1. UNCHANGED <<graph, roots>> /\ UNCHANGED <<objects, interned, marks>>
      BY <1>11 DEF vars
    <2>2. /\ Roots' = Roots /\ Reachable' = Reachable /\ InUse' = InUse
          /\ \A o : Children(o)' = Children(o) /\ KeptOnStack' = KeptOnStack
      BY <2>1, SameReach
    <2>. QED
      BY <2>1, <2>2 DEF Managed, NoDangling, FreeIsEmpty, TriColour, graph, marks
  <1>. QED
    BY <1>1, <1>2, <1>3, <1>4, <1>5, <1>6, <1>7, <1>8, <1>9, <1>10, <1>11 DEF Next, Execute

(* The three together are an invariant.                                    *)
LEMMA ManagedHolds ==
  ASSUME ~Careless
  PROVE  Spec => [](Shape /\ Interning /\ Managed)
  <1>1. Init => Shape /\ Interning /\ Managed
    BY InitShape, InitExact, InitManaged
  <1>2. Shape /\ Interning /\ Managed /\ [Next]_vars => (Shape /\ Interning /\ Managed)'
    BY NextShape, NextExact, NextManaged
  <1>. QED
    BY <1>1, <1>2, PTL DEF Spec

(* No value in use is freed, when natives that call back keep on the stack *)
(* what they still need: values in the frames and on the stack of loops    *)
(* that wait, in coroutines, in callables of the host (slp_gc_collect).    *)
THEOREM NothingDangles ==
  ASSUME ~Careless
  PROVE  Spec => []NoDangling
  <1>1. Shape /\ Interning /\ Managed => NoDangling
    BY DEF Managed
  <1>. QED
    BY <1>1, ManagedHolds, PTL

(* What a collection leaves is what can be reached, no more: reference     *)
(* cycles are freed (slp_gc_collect).                                      *)
THEOREM GarbageGoes ==
  ASSUME ~Careless
  PROVE  Spec => FreesGarbage
  <1>1. Shape /\ Interning /\ Managed => [Sweep => objects' = Reachable]_vars
    BY SweepManaged
  <1>. QED
    BY <1>1, ManagedHolds, PTL DEF Spec, FreesGarbage
=============================================================================
